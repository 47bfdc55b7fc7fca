------------------------------ MODULE ChatPage ------------------------------
(***************************************************************************)
(* The chat page of the playground: every message opens a stream whose     *)
(* chunks are added to the last bubble of the conversation, while the user *)
(* stops, clears, and sends again.                                         *)
(* Source: frontend/src/pages/playground (Chat.tsx, fakeStream.ts),        *)
(* frontend/src/api/playground.ts.                                         *)
(***************************************************************************)
EXTENDS Naturals, Sequences

CONSTANTS
    MaxTurns,   \* bound: messages sent
    MaxChunks,  \* bound: chunks of a reply
    ChatWorlds  \* the circumstances to look at

ChatCircumstances == {"patient", "at-once", "lossy", "offline"}

ASSUME ChatPageAssumption ==
    /\ MaxTurns \in Nat /\ MaxChunks \in Nat
    /\ ChatWorlds \subseteq SUBSET ChatCircumstances

VARIABLES
    messages,   \* the conversation: the turn of a bubble, and the turns whose chunks it shows
    streaming,  \* Stop is offered in the place of Send
    streams,    \* the streams that are not over: their turn, where they are, their chunks to come
    stopper,    \* cancelRef: the turn that Stop aborts
    sent,       \* the messages sent
    crashed,    \* rendering has thrown
    chatting    \* the circumstances of this behaviour

chatVars == <<messages, streaming, streams, stopper, sent, crashed, chatting>>

Patient == "patient" \in chatting  \* the user sends and clears only when Send is offered
AtOnce  == "at-once" \in chatting  \* the token needs no renewal before a request
Breaks  == "lossy" \in chatting    \* streams may fail
Offline == "offline" \in chatting  \* there is no backend: replies are made up

Turns == 1..MaxTurns

Bubble == [turn : Turns, role : {"user", "assistant"}, from : SUBSET Turns]

\* at: before its fetch has gone out, being read, or aborted before it had.
Stream == [turn : Turns, at : {"opening", "open", "aborted"}, left : 0..MaxChunks]

ChatTypeOK ==
    /\ messages \in Seq(Bubble) /\ Len(messages) <= 2 * MaxTurns
    /\ streaming \in BOOLEAN
    /\ streams \subseteq Stream
    /\ stopper \in 0..MaxTurns
    /\ sent \in 0..MaxTurns
    /\ crashed \in BOOLEAN
    /\ chatting \in ChatWorlds

ChatInit ==
    /\ chatting \in ChatWorlds
    /\ messages = <<>> /\ streaming = FALSE /\ streams = {} /\ stopper = 0
    /\ sent = 0 /\ crashed = FALSE

-----------------------------------------------------------------------------
(* The user *)

\* A message is sent by the button, or by Enter, which does not look whether a
\* reply is being streamed.
Send ==
    /\ sent < MaxTurns /\ ~crashed
    /\ Patient => ~streaming
    /\ sent' = sent + 1
    /\ messages' = messages \o <<[turn |-> sent', role |-> "user", from |-> {}],
                                 [turn |-> sent', role |-> "assistant", from |-> {}]>>
    /\ streaming' = TRUE
    /\ stopper' = sent'
    /\ \E n \in 0..MaxChunks :
          streams' = streams \cup {[turn |-> sent', at |-> IF Offline \/ AtOnce THEN "open" ELSE "opening", left |-> n]}
    /\ UNCHANGED <<crashed, chatting>>

\* MUTANT of Stop: the stream is not aborted.
StopFlagOnly ==
    /\ streaming /\ ~crashed
    /\ streaming' = FALSE
    /\ UNCHANGED <<messages, streams, stopper, sent, crashed, chatting>>

\* Stop aborts the newest stream: at once if it is open, and only when its
\* fetch would go out if it is not.
Stop ==
    /\ streaming /\ ~crashed
    /\ streaming' = FALSE
    /\ streams' = {IF s.turn = stopper /\ s.at = "opening" THEN [s EXCEPT !.at = "aborted"] ELSE s :
                      s \in {r \in streams : r.turn # stopper \/ r.at # "open"}}
    /\ UNCHANGED <<messages, stopper, sent, crashed, chatting>>

\* The conversation is cleared; the button is never disabled.
Clear ==
    /\ ~crashed
    /\ Patient => ~streaming
    /\ messages' = <<>>
    /\ UNCHANGED <<streaming, streams, stopper, sent, crashed, chatting>>

-----------------------------------------------------------------------------
(* The streams *)

Over(s) == streams' = streams \ {s} /\ streaming' = FALSE

\* The fetch goes out, and its answer is there.
StreamOpens(s) ==
    /\ s.at = "opening"
    /\ streams' = (streams \ {s}) \cup {[s EXCEPT !.at = "open"]}
    /\ UNCHANGED <<messages, streaming, stopper, sent, crashed, chatting>>

\* A chunk is added to the last bubble; if there is none, rendering throws, and
\* nothing catches it.
Chunk(s) ==
    /\ s.at = "open" /\ s.left > 0
    /\ streams' = (streams \ {s}) \cup {[s EXCEPT !.left = @ - 1]}
    /\ IF messages = <<>> THEN crashed' = TRUE /\ UNCHANGED messages
       ELSE messages' = [messages EXCEPT ![Len(messages)].from = @ \cup {s.turn}] /\ UNCHANGED crashed
    /\ UNCHANGED <<streaming, stopper, sent, chatting>>

\* The reply is complete.
StreamEnds(s) ==
    /\ s.at = "open" /\ s.left = 0
    /\ Over(s)
    /\ UNCHANGED <<messages, stopper, sent, crashed, chatting>>

\* It fails, or the abort is noticed: the flag is cleared once more.
StreamFails(s) ==
    /\ s.at = "aborted" \/ (Breaks /\ ~Offline)
    /\ Over(s)
    /\ UNCHANGED <<messages, stopper, sent, crashed, chatting>>

-----------------------------------------------------------------------------
Streaming == \E s \in streams : StreamOpens(s) \/ Chunk(s) \/ StreamEnds(s) \/ StreamFails(s)

ChatNext == Send \/ Stop \/ Clear \/ (~crashed /\ Streaming)

\* The page on its own.
ChatSpec == ChatInit /\ [][ChatNext]_chatVars

-----------------------------------------------------------------------------
(* Properties *)

\* A chunk lands in the bubble of its own turn, and never in an empty
\* conversation, which brings the page down: Stop cuts a stream off before the
\* next one can be started.  So it is for a user who sends and clears only
\* while Send is offered, and if no stream is stopped before it is open: the
\* late end of such a one offers Send while the next is under way.
RepliesInPlace ==
    Patient /\ AtOnce =>
        /\ ~crashed
        /\ \A i \in 1..Len(messages) :
              messages[i].from \subseteq (IF messages[i].role = "user" THEN {} ELSE {messages[i].turn})

\* Stop is offered only while there is something to stop, however messages,
\* stops and failures mix; and for the same user every reply that is still
\* coming can be stopped.
StopReaches ==
    /\ streaming => \E s \in streams : s.at # "aborted"
    /\ Patient /\ AtOnce => \A s \in streams : streaming /\ stopper = s.turn

\* Bubbles and buttons of the chat agree with the streams.
ChatPageInv == ChatTypeOK /\ RepliesInPlace /\ StopReaches

\* Every reply is over in the end, or stopped, and Send is offered again.
ReplyEnds == streaming ~> (~streaming \/ crashed)

=============================================================================
