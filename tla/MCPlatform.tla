----------------------------- MODULE MCPlatform -----------------------------
(* Instances of what ties the server to its host and to the network,        *)
(* explored one at a time: the push sync of a space and the push token, the *)
(* sync status stream, and the embedded server under two host threads.  A   *)
(* system that is not explored keeps its first state.                       *)
EXTENDS PlatformProofs

CONSTANT Systems  \* those explored
VARIABLE on       \* the one this behaviour explores

-----------------------------------------------------------------------------
(* A muted chat in a space of this account and a chat of somebody else's,   *)
(* or both in one space, while the other space stays out of the list.       *)
TwoSpaces == [c \in Chats |-> IF c \in Muted THEN "s1" ELSE "s2"]
Siblings == [c \in Chats |-> "s1"]
Alone == spaceOf = Siblings => "s2" \notin active /\ smode["s2"] = "all"

MCInit ==
    /\ on \in Systems
    /\ PushInit /\ spaceOf \in {TwoSpaces, Siblings} /\ Alone
    /\ on # "push" => /\ spaceOf = TwoSpaces /\ active = {} /\ ~harsh
                      /\ \A s \in Spaces : smode[s] = "all"
                      /\ \A c \in Chats : cmode[c] = "none"
    /\ TokenInit /\ (on # "token" => ~configured /\ file = None)
    /\ StreamInit /\ Init

MCNext ==
    /\ UNCHANGED on
    /\ IF on = "push" THEN PushNext /\ Alone' ELSE UNCHANGED push
    /\ IF on = "token" THEN TokenNext ELSE UNCHANGED pushToken
    /\ IF on = "stream" THEN StreamNext ELSE UNCHANGED stream
    /\ IF on = "embedded" THEN Next ELSE UNCHANGED vars

(* The components' Fairness.                                                *)
MCSpec ==
    /\ MCInit
    /\ [][MCNext]_<<on, push, pushToken, stream, vars>>
    /\ WF_push(on = "push" /\ SyncStep)
    /\ WF_pushToken(on = "token" /\ HostStep) /\ WF_pushToken(on = "token" /\ EnsureToken)
    /\ \A a \in Actors : WF_pushToken(on = "token" /\ ForwardStep(a))
    /\ WF_stream(on = "stream" /\ PumpStep) /\ SF_stream(on = "stream" /\ PumpLocks)
    /\ SF_stream(on = "stream" /\ Leave) /\ SF_stream(on = "stream" /\ TickExit)
    /\ WF_stream(on = "stream" /\ TickWrite) /\ WF_stream(on = "stream" /\ TickLock)
    /\ \A n \in Runs : /\ WF_vars(on = "embedded" /\ RunStep(n))
                       /\ WF_vars(on = "embedded" /\ Cleared(n))
    /\ \A t \in Threads : WF_vars(on = "embedded" /\ ThreadStep(t))

-----------------------------------------------------------------------------
(* The push node follows the modes and gets the token in the end, an ended  *)
(* status stream and every call of the host return (see Push, StatusStream, *)
(* Embedded).                                                               *)
PlatformSettles ==
    /\ on = "push" => Converges
    /\ TokenReaches /\ StreamEnds /\ CallsReturn
=============================================================================
