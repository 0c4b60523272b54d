--------------------------- MODULE IndexSupervisor ---------------------------
(***************************************************************************)
(* The indexer's supervision of its per-space workers (indexer/indexer.go):*)
(* the bootstrap that subscribes and then lists, the deltas of the space   *)
(* list on the SDK's one dispatch goroutine, the opens that run on         *)
(* goroutines of their own and publish their worker, the retries, the      *)
(* drops and Close.                                                        *)
(*                                                                         *)
(* A section under mu is one step.  An open keeps its slot while its       *)
(* worker's loops run.  A store write checks its context as it begins and  *)
(* holds the store's writer to its commit, so it is one step too.  What a  *)
(* worker does with its space is SpaceIndex's; here it has written or not. *)
(***************************************************************************)
EXTENDS Naturals, Sequences, FiniteSets

CONSTANTS
    Spaces,
    MaxDeltas,  \* bound: changes of the space list
    MaxFails    \* bound: failing lists and opens

ASSUME IndexSupervisorAssumption ==
    IsFiniteSet(Spaces) /\ MaxDeltas \in Nat /\ MaxFails \in Nat

(* An open comes from the boot list, a delta or a retry.                    *)
Ops == 1..(Cardinality(Spaces) + MaxDeltas + MaxFails)

VARIABLES
    listed,       \* the SDK's indexable spaces
    deltas,       \* changes of it the subscription has to deliver
    ndeltas, fails,  \* bounds
    boot,         \* bootstrap: "new", "list", "hand", "done"
    listing,      \* the list it read
    bootDropped,  \* bootDropped; {} while nil
    window,       \* bootDropped is not nil
    subscribed,
    workers,      \* workers: the slot of each space's worker, 0 for none
    opening,      \* opening: the slot of the open in flight, 0 for none
    retries,      \* spaces with a scheduled retry
    ops,          \* the slots: [at, sp, w]
    lock,         \* spaces whose align lock is held
    dropping,     \* dropSpace on the dispatch goroutine: "no", "stop", "lock", "store"
    ctxDone, closing, closed,
    data,         \* spaces the index store has data of
    gone          \* history: spaces dropped and not spawned since

sdk == <<listed, ndeltas>>
bounds == <<fails>>
booting == <<boot, listing, bootDropped, window>>
sup == <<workers, opening, retries, ops>>
life == <<ctxDone, closing, closed>>
vars == <<sdk, deltas, bounds, booting, subscribed, sup, lock, dropping, life, data, gone>>

Free == [at |-> "free", sp |-> {}, w |-> FALSE]
FreeOps == {o \in Ops : ops[o] = Free}
Of(o) == CHOOSE s \in Spaces : s \in ops[o].sp

TypeOK ==
    /\ boot \in {"new", "list", "hand", "done"} /\ dropping \in {"no", "stop", "lock", "store"}
    /\ \A o \in Ops : ops[o].at \in {"free", "get", "lock", "check", "align", "publish",
                                     "failed", "run", "stopped"}
    /\ listed \subseteq Spaces /\ listing \subseteq Spaces /\ bootDropped \subseteq Spaces
    /\ retries \subseteq Spaces /\ lock \subseteq Spaces /\ data \subseteq Spaces
    /\ \A s \in Spaces : workers[s] # 0 /\ ~ctxDone => ops[workers[s]].w /\ ops[workers[s]].sp = {s}

Init ==
    /\ listed \in SUBSET Spaces /\ deltas = <<>> /\ ndeltas = 0 /\ fails = 0
    /\ boot = "new" /\ listing = {} /\ bootDropped = {} /\ window = FALSE
    /\ subscribed = FALSE
    /\ workers = [s \in Spaces |-> 0] /\ opening = [s \in Spaces |-> 0] /\ retries = {}
    /\ ops = [o \in Ops |-> Free] /\ lock = {} /\ dropping = "no"
    /\ ctxDone = FALSE /\ closing = FALSE /\ closed = FALSE
    /\ data \in SUBSET Spaces /\ gone = {}

-----------------------------------------------------------------------------
(* The SDK's space list.                                                    *)

ListChanges(s) ==
    /\ ndeltas < MaxDeltas
    /\ ndeltas' = ndeltas + 1
    /\ listed' = IF s \in listed THEN listed \ {s} ELSE listed \cup {s}
    /\ deltas' = IF subscribed THEN Append(deltas, [sp |-> s, add |-> s \notin listed]) ELSE deltas
    /\ UNCHANGED <<bounds, booting, subscribed, sup, lock, dropping, life, data, gone>>

-----------------------------------------------------------------------------
(* spawnLocked for each space of S, the retries as they stand in armed: a   *)
(* space with a worker needs none, one with an open in flight is left.      *)

(* Mutant of Unspawned: a running worker is not looked for.                 *)
UnspawnedRunning(S) == {s \in S : opening[s] = 0}

Unspawned(S) == {s \in S : workers[s] = 0 /\ opening[s] = 0}

(* The ways to give each of T a slot of its own; Ops has slots for every     *)
(* open there can be.                                                       *)
Slots(T) == {f \in [T -> FreeOps] : \A s, t \in T : f[s] = f[t] => s = t}

Spawn(S, armed) ==
    LET T == IF ctxDone THEN {} ELSE Unspawned(S)
        slot == CHOOSE f \in Slots(T) : TRUE
    IN /\ Slots(T) # {}
       /\ opening' = [s \in Spaces |-> IF s \in T THEN slot[s] ELSE opening[s]]
       /\ retries' = armed \ (T \cup {s \in S : workers[s] # 0})
       /\ ops' = [o \in Ops |-> IF \E s \in T : slot[s] = o
                                THEN [at |-> "get", sp |-> {s \in T : slot[s] = o}, w |-> FALSE]
                                ELSE ops[o]]
       /\ gone' = gone \ T
       /\ UNCHANGED workers

-----------------------------------------------------------------------------
(* bootstrap: the subscription first, the list outside mu.                  *)

Subscribe ==
    /\ boot = "new"
    /\ IF ctxDone
       THEN boot' = "done" /\ UNCHANGED <<subscribed, window>>
       ELSE boot' = "list" /\ subscribed' = TRUE /\ window' = TRUE
    /\ UNCHANGED <<sdk, deltas, bounds, listing, bootDropped, sup, lock, dropping, life, data, gone>>

ListSpaces ==
    /\ boot = "list"
    /\ listing' = listed /\ boot' = "hand"
    /\ UNCHANGED <<sdk, deltas, bounds, bootDropped, window, subscribed, sup, lock, dropping, life, data, gone>>

(* A failing list is tried again, unless the indexer is closing.            *)
ListFails ==
    /\ boot = "list"
    /\ \/ ctxDone /\ boot' = "done" /\ UNCHANGED fails
       \/ ~ctxDone /\ fails < MaxFails /\ fails' = fails + 1 /\ UNCHANGED boot
    /\ UNCHANGED <<sdk, deltas, listing, bootDropped, window, subscribed, sup, lock, dropping, life, data, gone>>

HandOver ==
    /\ boot = "hand"
    /\ Spawn(listing \ bootDropped, retries)
    /\ boot' = "done" /\ listing' = {} /\ bootDropped' = {} /\ window' = FALSE
    /\ UNCHANGED <<sdk, deltas, bounds, subscribed, lock, dropping, life, data>>

-----------------------------------------------------------------------------
(* The goroutine of an open.                                                *)

To(o, at) == ops' = [ops EXCEPT ![o].at = at]

Get(o) ==
    /\ ops[o].at = "get"
    /\ \/ To(o, "lock") /\ UNCHANGED fails
       \/ (fails < MaxFails \/ ctxDone) /\ To(o, "failed") /\ fails' = IF ctxDone THEN fails ELSE fails + 1
    /\ UNCHANGED <<sdk, deltas, booting, subscribed, workers, opening, retries, lock, dropping, life, data, gone>>

AlignLock(o) ==
    /\ ops[o].at = "lock" /\ ops[o].sp \cap lock = {}
    /\ lock' = lock \cup ops[o].sp
    /\ To(o, "check")
    /\ UNCHANGED <<sdk, deltas, bounds, booting, subscribed, workers, opening, retries, dropping, life, data, gone>>

(* Mutant of IsOpening: the registration is not checked under the lock.     *)
IsOpeningNot(o) == TRUE

IsOpening(o) == opening[Of(o)] = o /\ ~ctxDone

(* Mutant of Check: the overtaken open keeps the lock.                      *)
CheckKeepsLock(o) ==
    /\ ops[o].at = "check"
    /\ To(o, IF IsOpening(o) THEN "align" ELSE "publish")
    /\ UNCHANGED <<sdk, deltas, bounds, booting, subscribed, workers, opening, retries, lock, dropping, life, data, gone>>

Check(o) ==
    /\ ops[o].at = "check"
    /\ IF IsOpening(o)
       THEN To(o, "align") /\ UNCHANGED lock
       ELSE To(o, "publish") /\ lock' = lock \ ops[o].sp
    /\ UNCHANGED <<sdk, deltas, bounds, booting, subscribed, workers, opening, retries, dropping, life, data, gone>>

(* alignIndex: the store is left as it is, stamped, or started over.        *)
Align(o) ==
    /\ ops[o].at = "align"
    /\ data' = data \/ data' = data \cup ops[o].sp
    /\ ops' = [ops EXCEPT ![o].at = "publish", ![o].w = TRUE]
    /\ lock' = lock \ ops[o].sp
    /\ UNCHANGED <<sdk, deltas, bounds, booting, subscribed, workers, opening, retries, dropping, life, gone>>

(* Mutant of Overtaken: the registration is not checked again.              *)
OvertakenNot(o) == ctxDone

Overtaken(o) == opening[Of(o)] # o \/ ctxDone

(* Mutant of Armed: a failed open is dropped.                               *)
ArmedNot(o) == retries

(* scheduleRetryLocked.                                                     *)
Armed(o) == retries \cup ops[o].sp

(* An overtaken open is discarded, a failed one retried, the worker of a    *)
(* good one published and started.                                          *)
Publish(o) ==
    /\ ops[o].at \in {"publish", "failed"}
    /\ IF Overtaken(o)
       THEN ops' = [ops EXCEPT ![o] = Free] /\ UNCHANGED <<workers, opening, retries>>
       ELSE /\ opening' = [opening EXCEPT ![Of(o)] = 0]
            /\ IF ops[o].at = "failed"
               THEN /\ ops' = [ops EXCEPT ![o] = Free]
                    /\ retries' = Armed(o) /\ UNCHANGED workers
               ELSE /\ To(o, "run")
                    /\ workers' = [workers EXCEPT ![Of(o)] = o] /\ UNCHANGED retries
    /\ UNCHANGED <<sdk, deltas, bounds, booting, subscribed, lock, dropping, life, data, gone>>

(* The loops of a published worker write until it is stopped.               *)
Work(o) ==
    /\ ops[o].at = "run" /\ ~(ops[o].sp \subseteq data)
    /\ data' = data \cup ops[o].sp
    /\ UNCHANGED <<sdk, deltas, bounds, booting, subscribed, sup, lock, dropping, life, gone>>

LoopsEnd(o) ==
    /\ ops[o].at = "stopped"
    /\ ops' = [ops EXCEPT ![o] = Free]
    /\ UNCHANGED <<sdk, deltas, bounds, booting, subscribed, workers, opening, retries, lock, dropping, life, data, gone>>

(* The timer of a scheduled retry.                                          *)
Retry(s) ==
    /\ s \in retries /\ ~ctxDone
    /\ Spawn({s}, retries \ {s})
    /\ UNCHANGED <<sdk, deltas, bounds, booting, subscribed, lock, dropping, life, data>>

-----------------------------------------------------------------------------
(* onSpaceList, on the dispatch goroutine: one delta after the other.       *)

SpaceAdded ==
    /\ subscribed /\ dropping = "no" /\ deltas # <<>> /\ Head(deltas).add
    /\ Spawn({Head(deltas).sp}, retries)
    /\ deltas' = Tail(deltas)
    /\ UNCHANGED <<sdk, bounds, booting, subscribed, lock, dropping, life, data>>

(* dropSpace under mu: the worker, the open and the retry are forgotten.    *)
DropSpace ==
    /\ subscribed /\ dropping = "no" /\ deltas # <<>> /\ ~Head(deltas).add
    /\ LET s == Head(deltas).sp
       IN /\ retries' = retries \ {s}
          /\ opening' = [opening EXCEPT ![s] = 0]
          /\ workers' = [workers EXCEPT ![s] = 0]
          /\ bootDropped' = IF window THEN bootDropped \cup {s} ELSE bootDropped
    /\ dropping' = "stop"
    /\ UNCHANGED <<sdk, deltas, bounds, boot, listing, window, subscribed, ops, lock, life, data, gone>>

(* The worker is stopped, not joined.                                       *)
DropStops ==
    /\ dropping = "stop"
    /\ ops' = [o \in Ops |-> IF ops[o].at = "run" /\ ops[o].sp = {Head(deltas).sp}
                             THEN [ops[o] EXCEPT !.at = "stopped"] ELSE ops[o]]
    /\ dropping' = "lock"
    /\ UNCHANGED <<sdk, deltas, bounds, booting, subscribed, workers, opening, retries, lock, life, data, gone>>

DropLock ==
    /\ dropping = "lock" /\ Head(deltas).sp \notin lock
    /\ lock' = lock \cup {Head(deltas).sp}
    /\ dropping' = "store"
    /\ UNCHANGED <<sdk, deltas, bounds, booting, subscribed, sup, life, data, gone>>

DropStore ==
    /\ dropping = "store"
    /\ LET s == Head(deltas).sp
       IN data' = data \ {s} /\ gone' = gone \cup {s} /\ lock' = lock \ {s}
    /\ dropping' = "no" /\ deltas' = Tail(deltas)
    /\ UNCHANGED <<sdk, bounds, booting, subscribed, sup, life>>

-----------------------------------------------------------------------------
(* Close: cancel, then closing under mu, then every goroutine, then every   *)
(* drop, then the store.                                                    *)

Cancel ==
    /\ ~ctxDone
    /\ ctxDone' = TRUE
    /\ ops' = [o \in Ops |-> IF ops[o].at = "run" THEN [ops[o] EXCEPT !.at = "stopped"] ELSE ops[o]]
    /\ UNCHANGED <<sdk, deltas, bounds, booting, subscribed, workers, opening, retries, lock, dropping, closing, closed, data, gone>>

Closing ==
    /\ ctxDone /\ ~closing
    /\ closing' = TRUE /\ subscribed' = FALSE
    /\ UNCHANGED <<sdk, deltas, bounds, booting, sup, lock, dropping, ctxDone, closed, data, gone>>

(* Mutant of Waited: the drop under way is not waited for.                  *)
WaitedNotDrops == boot = "done" /\ FreeOps = Ops

Waited == boot = "done" /\ FreeOps = Ops /\ dropping = "no"

CloseStore ==
    /\ closing /\ ~closed /\ Waited
    /\ closed' = TRUE
    /\ UNCHANGED <<sdk, deltas, bounds, booting, subscribed, sup, lock, dropping, ctxDone, closing, data, gone>>

-----------------------------------------------------------------------------
Bootstrap == Subscribe \/ ListSpaces \/ ListFails \/ HandOver
OpSteps(o) == Get(o) \/ AlignLock(o) \/ Check(o) \/ Align(o) \/ Publish(o) \/ LoopsEnd(o)
Dispatch == SpaceAdded \/ DropSpace \/ DropStops \/ DropLock \/ DropStore

Next ==
    \/ \E s \in Spaces : ListChanges(s) \/ Retry(s)
    \/ Bootstrap \/ Dispatch
    \/ \E o \in Ops : OpSteps(o) \/ Work(o)
    \/ Cancel \/ Closing \/ CloseStore

Spec == Init /\ [][Next]_vars

(* Goroutines run, timers fire, and a Close that has begun goes on.         *)
Fairness ==
    /\ WF_vars(Bootstrap) /\ WF_vars(Dispatch)
    /\ \A o \in Ops : WF_vars(OpSteps(o))
    /\ \A s \in Spaces : WF_vars(Retry(s))
    /\ WF_vars(Closing) /\ WF_vars(CloseStore)

FairSpec == Spec /\ Fairness

-----------------------------------------------------------------------------
(* Properties.                                                              *)

(* "An open that dropSpace overtook publishes nothing and writes nothing    *)
(* after the drop" (indexer.go:520): a dropped space that was not spawned   *)
(* since has no data in the index store, whatever open or worker of it was  *)
(* under way.                                                               *)
DropSticks == gone \cap data = {}

(* A stale entry of the boot list "does not resurrect the space"            *)
(* (indexer.go:399), and neither does a retry: once bootstrap is done and   *)
(* every delta is applied, only listed spaces have a worker, an open or a   *)
(* retry.                                                                   *)
OnlyListed ==
    boot = "done" /\ subscribed /\ deltas = <<>> =>
        \A s \in Spaces \ listed : workers[s] = 0 /\ opening[s] = 0 /\ s \notin retries

(* A space has one running worker, and none beside an open: two would move  *)
(* one cursor.                                                              *)
OneWorker ==
    \A s \in Spaces :
        /\ Cardinality({o \in Ops : ops[o].at = "run" /\ ops[o].sp = {s}}) <= 1
        /\ workers[s] # 0 /\ ~ctxDone => ops[workers[s]].at = "run" /\ opening[s] = 0

(* Close closes the store after its last user: no open, no loop and no drop *)
(* is left to touch it.                                                     *)
StoreUnused == closed => FreeOps = Ops /\ dropping = "no"

(* A listed space has one worker, and a dropped or unlisted one has neither *)
(* data nor worker: no open, retry or stale boot list brings it back; and   *)
(* none of them touches the store once Close has closed it.                 *)
WorkersSound == TypeOK /\ OneWorker /\ DropSticks /\ OnlyListed /\ StoreUnused

(* Unless the indexer is closed, every listed space ends up with a worker   *)
(* and no other does: failing lists and opens are retried, "not dropped"    *)
(* (indexer.go:401).                                                        *)
Indexed ==
    <>[](ctxDone \/ \A s \in Spaces : s \in listed <=> workers[s] # 0)

(* Close ends: neither a lock nor a wait holds it for ever.                 *)
CloseEnds == ctxDone ~> closed
=============================================================================
