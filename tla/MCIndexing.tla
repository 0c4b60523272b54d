----------------------------- MODULE MCIndexing -----------------------------
(* IndexSupervisor and SpaceIndex for TLC, explored one at a time: the      *)
(* supervisor over two spaces, and over one with more changes of the list;  *)
(* one space's index through rebuilds of the SDK store (SpaceIndex as the   *)
(* configuration instantiates it), through crashes, through restores, with  *)
(* an embedder that comes and goes, and with drops that fail; the blocks of *)
(* a body, and the windows it is indexed by.                                *)
EXTENDS IndexSupervisor, SpaceIndex, TLC

CONSTANTS
    Systems,  \* those explored
    s1

VARIABLES
    on,                  \* the system explored
    recs, calls, writes  \* Editor

editor == <<recs, calls, writes>>

Crashed == INSTANCE SpaceIndex WITH
    Batch <- 2, MaxChanges <- 3, MaxBoots <- 3, AlignFaults <- {"cursor", "first"},
    MayRebuild <- FALSE, MayRestore <- FALSE, Embedders <- {FALSE}, TornRuns <- {FALSE}
Restored == INSTANCE SpaceIndex WITH
    Batch <- 1, MaxChanges <- 3, MaxBoots <- 3, AlignFaults <- {},
    MayRebuild <- FALSE, MayRestore <- TRUE, Embedders <- {FALSE}, TornRuns <- {}
Embedded == INSTANCE SpaceIndex WITH
    Batch <- 1, MaxChanges <- 2, MaxBoots <- 3, AlignFaults <- {},
    MayRebuild <- FALSE, MayRestore <- FALSE, Embedders <- BOOLEAN, TornRuns <- {TRUE}
Dropped == INSTANCE SpaceIndex WITH
    Batch <- 1, MaxChanges <- 2, MaxBoots <- 2, AlignFaults <- {"drop"},
    MayRebuild <- TRUE, MayRestore <- FALSE, Embedders <- BOOLEAN, TornRuns <- {}

Body == INSTANCE Editor WITH
    Blocks <- {1, 2, 3}, Callers <- {"c"}, Sizes <- {0, 3}, Budget <- 4, MaxWrites <- 4

MCInit ==
    /\ on \in Systems /\ Init /\ IndexInit /\ Body!Init
    /\ listed \cup data \subseteq
        CASE on = "two spaces" -> Spaces [] on = "one space" -> {s1} [] OTHER -> {}

MCNext ==
    /\ UNCHANGED on
    /\ IF on = "body" THEN Body!Next ELSE UNCHANGED editor
    /\ \/ on = "two spaces" /\ Next /\ ndeltas' <= 2 /\ UNCHANGED index
       \/ on = "one space" /\ Next /\ listed' \subseteq {s1} /\ UNCHANGED index
       \/ on = "rebuilds" /\ IndexNext /\ UNCHANGED vars
       \/ on = "crashes" /\ Crashed!IndexNext /\ UNCHANGED vars
       \/ on = "restores" /\ Restored!IndexNext /\ UNCHANGED vars
       \/ on = "embedder" /\ Embedded!IndexNext /\ UNCHANGED vars
       \/ on = "drops" /\ Dropped!IndexNext /\ UNCHANGED vars
       \/ on = "body" /\ UNCHANGED <<vars, index>>

(* IndexSupervisor's Fairness, for the system whose liveness is checked.    *)
Live == on = "one space"
MCSpec ==
    /\ MCInit /\ [][MCNext]_<<on, vars, index, editor>>
    /\ WF_vars(Live /\ Bootstrap) /\ WF_vars(Live /\ Dispatch)
    /\ \A o \in Ops : WF_vars(Live /\ OpSteps(o))
    /\ \A s \in Spaces : WF_vars(Live /\ Retry(s))
    /\ WF_vars(Live /\ Closing) /\ WF_vars(Live /\ CloseStore)

(* Every listed space ends up with a worker, and Close ends (see            *)
(* IndexSupervisor).                                                        *)
IndexerSettles == Live => Indexed /\ CloseEnds

(* Whatever moves, collisions and deletes led there, every live block of a  *)
(* body is listed once and each one's text is in exactly one window of its  *)
(* index, but for what is below an orphan or a cycle (see Editor).          *)
BodyIndexed == on = "body" => Body!TypeOK /\ Body!BodyIndexed
=============================================================================
