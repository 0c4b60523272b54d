------------------------------ MODULE MCEvents ------------------------------
(* Instances of the events path for TLC, explored one at a time.            *)
(* ProcReporter: a reporter and its callers, with the announcing gate shut  *)
(* or open at first.  ProcessView: the counters of the account's rows under *)
(* two requests and another device at once; the rows across two engines     *)
(* whose drains are timely; two subscribers of a small buffer.  EventsBridge: two requests on the account scope of        *)
(* engines whose drains and joins are timely; one request on two scopes of  *)
(* such engines; the same with drains that may time out.  EventTopics: the  *)
(* patterns of any two filters.  The bridge's patterns are a broad one over *)
(* the narrow one of the standing process interest.                         *)
EXTENDS ProcReporter, ProcessView, EventsBridge, TLC

CONSTANTS
    Systems,  \* those explored
    r1

VARIABLES
    on,       \* the system explored
    filters   \* EventTopics

Eager == INSTANCE ProcReporter WITH Immediate <- TRUE
Engined == INSTANCE ProcessView WITH
    OtherTypes <- {"progress"}, MaxValue <- 0, DrainsTimely <- TRUE
Streams == INSTANCE ProcessView WITH
    OtherTypes <- {"progress"}, MaxValue <- 0, MaxEngines <- 1, DrainsTimely <- TRUE
Late == INSTANCE EventsBridge WITH MaxFailures <- 0, Timely <- FALSE
Topics == INSTANCE EventTopics WITH
    Segments <- {"a", "b"}, Targets <- {"a", "t"}, SelfOwned <- {<<"a", "b">>}, MaxEntries <- 1

MCInit ==
    /\ on \in Systems /\ ViewInit /\ BridgeInit
    /\ IF on = "topics" THEN Topics!Init ELSE filters = {}
    /\ ReporterInit \/ (on = "reporter" /\ Eager!ReporterInit)

NoSubs == UNCHANGED <<subs, closes>>
\* One of the terminal types, which a fold treats alike, and no cancel; rows of one publisher.
Few(who) ==
    \A p \in Publishers : frame'[p] # NoFrame =>
        /\ frame'[p].type \in {"started", "progress", "done"}
        /\ frame'[p].key[1] = who
NoReports == pc'[Indexer] = "idle"
OneClient == \A r \in Requests \ {r1} : pc'[r] = "idle"
OneRequest == \A r \in Subscribers \ {r1} : apc'[r] = "idle"

MCNext ==
    /\ UNCHANGED on
    /\ \/ on = "reporter" /\ ReporterNext /\ UNCHANGED <<view, bridgeVars, filters>>
       \/ /\ UNCHANGED <<reporter, bridgeVars, filters>>
          /\ \/ on = "rows" /\ ViewNext /\ engine' <= 1 /\ NoSubs /\ NoReports /\ Few(Own)
             \/ on = "engines" /\ Engined!ViewNext /\ NoSubs /\ OneClient
             \/ on = "streams" /\ Streams!ViewNext /\ NoReports /\ OneClient /\ Few(Own)
       \/ /\ UNCHANGED <<reporter, view, filters>>
          /\ \/ on = "requests" /\ BridgeNext /\ \A a \in Actors : todo'[a] \subseteq {Account}
             \/ on = "scopes" /\ Late!BridgeNext /\ OneRequest
             \/ on = "repair" /\ BridgeNext /\ OneRequest
       \/ on = "topics" /\ Topics!Next /\ UNCHANGED <<reporter, view, bridgeVars>>

(* The components' Fairness, for the systems whose liveness is checked.     *)
Told == on = "reporter"
Repairs == on = "repair"
MCSpec ==
    /\ MCInit /\ [][MCNext]_<<on, reporter, view, bridgeVars, filters>>
    /\ \A c \in Callers : WF_reporter(Told /\ CallerStep(c))
    /\ WF_reporter(Told /\ TickStops)
    /\ \A r \in Subscribers : WF_bridgeVars(Repairs /\ EndsWithEngine(r))
    /\ \A a \in Actors : WF_bridgeVars(Repairs /\ AcquireStep(a))
    /\ \A e \in Engines : WF_bridgeVars(Repairs /\ HoldProcess(e))
    /\ \A k \in Keys, e \in 0..2 : WF_bridgeVars(Repairs /\ RetryTimer(k, e))
    /\ WF_bridgeVars(Repairs /\ Detach) /\ WF_bridgeVars(Repairs /\ TeardownClose)

(* An event some live filter accepts reaches the hub exactly once, and a    *)
(* scope subscribes through the pub/sub of the engine that serves: on time  *)
(* no straggler registers a handle of its old engine (see EventTopics and   *)
(* EventsBridge).                                                           *)
DeliverySound ==
    /\ on = "topics" => Topics!DeliveredOnce
    /\ on \in {"requests", "repair"} => NoForeignHandle

(* A failed re-subscribe is repaired in the end, and every process that was *)
(* announced reaches its terminal frame (see EventsBridge, ProcReporter).   *)
EventsSettle == (Repairs => Repaired) /\ TerminalReached
=============================================================================
