----------------------------- MODULE MCAgentPages -----------------------------
(***************************************************************************)
(* Small instances of the pages of the agent workspace and the playground. *)
(* The router mounts one page at a time, and each keeps its state to       *)
(* itself: a behaviour is that of the page it mounts.                      *)
(***************************************************************************)
EXTENDS WorkspacePage, ChatPage, AgentPage

CONSTANTS na, nb

VARIABLE mounted

agentPagesVars == <<workspaceVars, chatVars, agentVars, mounted>>

MCNamespaces == {na, nb}

MCStoredSessions == <<na>>

\* The workspace that answers at once with every mishap but late answers, and
\* late answers with one mishap each.
MCWorkspaceWorlds ==
    {{"prompt"} \cup x : x \in SUBSET {"lossy", "gap", "others"}} \cup {{}, {"lossy"}, {"others"}}

MCChatWorlds == SUBSET ChatCircumstances

MCAgentWorlds == SUBSET AgentCircumstances

\* The pages that are not mounted rest in one of their initial states.
AgentPagesInit ==
    /\ mounted \in {"workspace", "chat", "agent"}
    /\ WorkspaceInit /\ ChatInit /\ AgentInit
    /\ mounted # "workspace" => circumstances = {} /\ deployment.rev = 0
    /\ mounted # "chat" => chatting = {}
    /\ mounted # "agent" => agentWorld = {} /\ namespace = na

AgentPagesNext ==
    \/ mounted = "workspace" /\ WorkspaceNext /\ UNCHANGED <<chatVars, agentVars, mounted>>
    \/ mounted = "chat" /\ ChatNext /\ UNCHANGED <<workspaceVars, agentVars, mounted>>
    \/ mounted = "agent" /\ AgentNext /\ UNCHANGED <<workspaceVars, chatVars, mounted>>

\* The poll's timer fires, requests are answered, pods become ready, and streams
\* go on, as long as the page is mounted.
AgentPagesFairness ==
    /\ WF_workspaceVars(mounted = "workspace" /\ PodReady)
    /\ WF_workspaceVars(mounted = "workspace" /\ Poll)
    /\ WF_workspaceVars(mounted = "workspace" /\ AnswerRequest({"get-or-create", "create"}))
    /\ WF_workspaceVars(mounted = "workspace" /\ AnswerRequest({"poll"}))
    /\ WF_workspaceVars(mounted = "workspace" /\ AnswerRequest({"mint"}))
    /\ WF_workspaceVars(mounted = "workspace" /\ AnswerRequest({"restart", "resize"}))
    /\ WF_chatVars(mounted = "chat" /\ ~crashed /\ Streaming)
    /\ WF_agentVars(mounted = "agent" /\ AnswerJob)

AgentPagesSpec == AgentPagesInit /\ [][AgentPagesNext]_agentPagesVars /\ AgentPagesFairness

\* PageOpens, of the page of the workspace where that is the one mounted: it is
\* provisioned, polled and granted access until its iframe is open.
MountedPageOpens == mounted = "workspace" => PageOpens

\* No page gets stuck: the workspace opens, replies and runs come to an end.
PagesProgress == MountedPageOpens /\ ReplyEnds /\ BusyEnds

=============================================================================
