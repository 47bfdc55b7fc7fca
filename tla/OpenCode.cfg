SPECIFICATION FairSpec
CONSTANTS
    qwen = qwen
    llama = llama
    None = None
    main = main
    c1 = c1
    c2 = c2
    Models = {qwen, llama}
    Calls = {c1, c2}
    MaxId = 1
    MaxRestarts = 1
INVARIANTS SidecarFollows FileConverges
PROPERTIES TurnCovered Converges
