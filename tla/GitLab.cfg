SPECIFICATION TurnSpec
CONSTANTS
    weights = weights
    tokenizer = tokenizer
    bins = bins
    onnx = onnx
    empty = empty
    b1 = b1
    c1 = c1
    c2 = c2
    None = None
    Paths = {weights, tokenizer}
    Globs = {bins, onnx}
    Limit = 2
    Blobs = {empty, b1}
    Empty = empty
    Calls = {c1, c2}
    Failing = {"batch", "object", "post", "put", "readAttrs", "postAttrs", "putAttrs"}
SYMMETRY Symmetry
INVARIANTS FilesDownload
PROPERTIES UploadMarks PatternsKeptInTurn
