---------------------------- MODULE IndexingProofs ----------------------------
(***************************************************************************)
(* Proofs about the indexer: its supervision (WorkersSound), and one       *)
(* space's index (EmbedVouches, IndexMatches).  None is an invariant by    *)
(* itself.                                                                 *)
(* For the supervision, what makes it inductive is who may write a space:  *)
(* the open that is registered and holds the align lock, or the worker it  *)
(* became, and neither while the space is under a drop; and that the       *)
(* changes of the list still to come tell, for each space, whether it is   *)
(* listed.                                                                 *)
(* For the index, it is where the cursor stands: a row of the store as it  *)
(* is has skipped nothing, a page in flight has all between its cursor and *)
(* its last seq, and the generation a worker writes never makes an old row *)
(* look new.                                                               *)
(***************************************************************************)
EXTENDS IndexSupervisor, SpaceIndex, FiniteSetTheorems, SequenceTheorems,
        WellFoundedInduction, TLAPS

-----------------------------------------------------------------------------
(* The supervision: IndexSupervisor.                                        *)

Stages == {"free", "get", "lock", "check", "align", "publish", "failed", "run", "stopped"}

(* The stages an open in flight passes.                                     *)
Busy == {"get", "lock", "check", "align", "publish", "failed"}

(* The space the dispatch goroutine is at.                                  *)
Hd == Head(deltas).sp

(* Neither worker nor open nor retry.                                       *)
Idle(s) == workers[s] = 0 /\ opening[s] = 0 /\ s \notin retries

Underway(s) == \E i \in 1..Len(deltas) : deltas[i].sp = s

Typed ==
    /\ boot \in {"new", "list", "hand", "done"} /\ dropping \in {"no", "stop", "lock", "store"}
    /\ listed \subseteq Spaces /\ listing \subseteq Spaces /\ bootDropped \subseteq Spaces
    /\ retries \subseteq Spaces /\ lock \subseteq Spaces /\ data \subseteq Spaces
    /\ deltas \in Seq([sp : Spaces, add : BOOLEAN])
    /\ {window, subscribed, ctxDone, closing, closed} \subseteq BOOLEAN
    /\ workers \in [Spaces -> Ops \cup {0}] /\ opening \in [Spaces -> Ops \cup {0}]
    /\ ops \in [Ops -> [at : Stages, sp : SUBSET Spaces, w : BOOLEAN]]
    /\ \A o \in Ops : /\ ops[o].at = "free" => ops[o] = Free
                      /\ ops[o].at # "free" => \E s \in Spaces : ops[o].sp = {s}

(* While the indexer runs, a registered open is that open of that space,    *)
(* and a registered worker is a running one whose open is done.             *)
Registered ==
    ~ctxDone => \A s \in Spaces :
        /\ opening[s] # 0 => ops[opening[s]].at \in Busy /\ ops[opening[s]].sp = {s}
        /\ workers[s] # 0 => /\ opening[s] = 0
                             /\ ops[workers[s]].at = "run" /\ ops[workers[s]].sp = {s} /\ ops[workers[s]].w

(* The loops that run are the registered worker's, or those of the worker   *)
(* a drop has just forgotten; an open without a worker is never published.  *)
Running ==
    /\ \A o \in Ops, s \in Spaces : ops[o].at = "run" /\ ops[o].sp = {s} =>
           ~ctxDone /\ (workers[s] = o \/ (dropping = "stop" /\ Hd = s))
    /\ \A o, p \in Ops : ops[o].at = "run" /\ ops[p].at = "run" /\ ops[o].sp = ops[p].sp => o = p
    /\ \A o \in Ops, s \in Spaces : ops[o].at = "publish" /\ ops[o].sp = {s} /\ ~ops[o].w =>
           ctxDone \/ opening[s] # o

(* Who is between the lock and its release: one open or the drop.           *)
Locked ==
    /\ \A o \in Ops : ops[o].at \in {"check", "align"} => ops[o].sp \subseteq lock
    /\ \A o, p \in Ops : /\ ops[o].at \in {"check", "align"} /\ ops[p].at \in {"check", "align"}
                         /\ ops[o].sp = ops[p].sp
                         => o = p
    /\ dropping = "store" =>
           Hd \in lock /\ \A o \in Ops : ops[o].at \in {"check", "align"} => ops[o].sp # {Hd}

(* Of a dropped space nothing is left that could write.                     *)
GoneQuiet ==
    \A s \in gone \cap Spaces :
        /\ s \notin data /\ opening[s] = 0
        /\ \A o \in Ops : ops[o].sp = {s} => ops[o].at \notin {"align", "run"}

(* The space under a drop is forgotten, and in bootstrap's list of drops.   *)
Dropping ==
    dropping # "no" =>
        /\ deltas # <<>> /\ ~Head(deltas).add /\ Idle(Hd)
        /\ boot \in {"list", "hand"} => Hd \in bootDropped
        /\ dropping \in {"lock", "store"} => \A o \in Ops : ops[o].sp = {Hd} => ops[o].at # "run"

(* Before the subscription nothing has happened; the drops are noted until  *)
(* the list is handed over.                                                 *)
Windowed ==
    /\ boot \in {"list", "hand"} => window
    /\ boot = "new" => ~subscribed /\ deltas = <<>> /\ \A s \in Spaces : Idle(s)

(* The last delta of a space tells whether it is listed; a space unlisted   *)
(* with no delta to come is idle, and not in the list to be handed over.    *)
Following ==
    subscribed =>
        /\ \A i \in 1..Len(deltas) : (\A j \in 1..Len(deltas) : j > i => deltas[j].sp # deltas[i].sp)
               => (deltas[i].add <=> deltas[i].sp \in listed)
        /\ \A s \in Spaces \ listed : ~Underway(s) =>
               Idle(s) /\ (boot = "hand" => s \notin listing \ bootDropped)

(* After Close nothing is left to move.                                     *)
Closed ==
    /\ closing => ctxDone /\ ~subscribed
    /\ closed => closing /\ boot = "done" /\ dropping = "no" /\ \A o \in Ops : ops[o] = Free

IInv ==
    Typed /\ Registered /\ Running /\ Locked /\ GoneQuiet /\ Dropping /\ Windowed /\ Following /\ Closed

-----------------------------------------------------------------------------
LEMMA OpsFacts == 0 \notin Ops /\ IsFiniteSet(Ops)
<1> DEFINE n == Cardinality(Spaces) + MaxDeltas + MaxFails
<1>1. Cardinality(Spaces) \in Nat
    BY IndexSupervisorAssumption, FS_CardinalityType
<1>2. n \in Nat
    BY <1>1, IndexSupervisorAssumption
<1>3. IsFiniteSet(1..n)
    BY <1>2, FS_Interval
<1> QED BY <1>2, <1>3 DEF Ops

LEMMA OfIs ==
    ASSUME NEW o \in Ops, NEW s \in Spaces, ops[o].sp = {s}
    PROVE  Of(o) = s
BY DEF Of

-----------------------------------------------------------------------------
(* The kinds of steps.                                                      *)

(* The supervisor's slots, locks and stores are left alone.                 *)
Outside ==
    /\ UNCHANGED <<sup, lock, dropping, ctxDone, data, gone>>
    /\ deltas # <<>> => deltas' # <<>> /\ Head(deltas') = Head(deltas)
    /\ boot' \in {"list", "hand"} => boot # "done" /\ bootDropped' = bootDropped

(* Each space of T, idle but for a retry, gets an open in a free slot.      *)
Spawns(T) ==
    /\ ctxDone => T = {}
    /\ \A s \in T : workers[s] = 0 /\ opening[s] = 0 /\ opening'[s] \in Ops
    /\ workers' = workers /\ retries' \subseteq retries /\ gone' = gone \ T
    /\ opening' \in [Spaces -> Ops \cup {0}]
    /\ \A s \in Spaces \ T : opening'[s] = opening[s]
    /\ ops' \in [Ops -> [at : Stages, sp : SUBSET Spaces, w : BOOLEAN]]
    /\ \A s \in T : /\ ops[opening'[s]] = Free
                    /\ ops'[opening'[s]] = [at |-> "get", sp |-> {s}, w |-> FALSE]
    /\ \A o \in Ops : \/ ops'[o] = ops[o]
                      \/ ops[o] = Free /\ \E s \in T : opening'[s] = o

LEMMA SpawnEffect ==
    ASSUME Typed, NEW S \in SUBSET Spaces, NEW armed \in SUBSET retries, Spawn(S, armed)
    PROVE  \E T \in SUBSET S : Spawns(T) /\ retries' \subseteq armed
<1> DEFINE T == IF ctxDone THEN {} ELSE Unspawned(S)
           slot == CHOOSE f \in Slots(T) : TRUE
<1>1. /\ Slots(T) # {}
      /\ opening' = [s \in Spaces |-> IF s \in T THEN slot[s] ELSE opening[s]]
      /\ retries' = armed \ (T \cup {s \in S : workers[s] # 0})
      /\ ops' = [o \in Ops |-> IF \E s \in T : slot[s] = o
                               THEN [at |-> "get", sp |-> {s \in T : slot[s] = o}, w |-> FALSE]
                               ELSE ops[o]]
      /\ gone' = gone \ T /\ workers' = workers
    BY DEF Spawn
<1>2. T \in SUBSET S /\ (ctxDone => T = {}) /\ \A s \in T : workers[s] = 0 /\ opening[s] = 0
    BY DEF Unspawned
<1>3. slot \in Slots(T)
    BY <1>1
<1> HIDE DEF T, slot
<1>4. slot \in [T -> FreeOps] /\ \A s, t \in T : slot[s] = slot[t] => s = t
    BY <1>3 DEF Slots
<1>5. \A s \in T : slot[s] \in Ops /\ ops[slot[s]] = Free /\ opening'[s] = slot[s]
    BY <1>1, <1>2, <1>4 DEF FreeOps
<1>6. \A s \in T : {t \in T : slot[t] = slot[s]} = {s}
    BY <1>4
<1>7. \A s \in T : ops'[opening'[s]] = [at |-> "get", sp |-> {s}, w |-> FALSE]
    BY <1>1, <1>5, <1>6
<1>8. opening' \in [Spaces -> Ops \cup {0}] /\ \A s \in Spaces \ T : opening'[s] = opening[s]
    BY <1>1, <1>2, <1>5 DEF Typed
<1>9. \A o \in Ops : \/ ops'[o] = ops[o] /\ ~\E s \in T : slot[s] = o
                     \/ ops[o] = Free /\ \E s \in T : opening'[s] = o
    BY <1>1, <1>5
<1>10. ops' \in [Ops -> [at : Stages, sp : SUBSET Spaces, w : BOOLEAN]]
    <2>1. \A o \in Ops : ops'[o] \in [at : Stages, sp : SUBSET Spaces, w : BOOLEAN]
        <3> TAKE o \in Ops
        <3>1. CASE ops'[o] = ops[o]
            BY <3>1 DEF Typed
        <3>2. CASE \E s \in T : opening'[s] = o
            <4>1. PICK s \in T : opening'[s] = o
                BY <3>2
            <4>2. s \in Spaces /\ ops'[o] = [at |-> "get", sp |-> {s}, w |-> FALSE]
                BY <1>2, <1>7, <4>1
            <4> QED BY <4>2 DEF Stages
        <3> QED BY <1>9, <3>1, <3>2
    <2> QED BY <1>1, <2>1
<1>11. retries' \subseteq armed /\ retries' \subseteq retries
    BY <1>1
<1>12. \A s \in T : opening'[s] \in Ops /\ ops[opening'[s]] = Free
    BY <1>5
<1>13. \A o \in Ops : ops'[o] = ops[o] \/ (ops[o] = Free /\ \E s \in T : opening'[s] = o)
    BY <1>9
<1>14. Spawns(T)
    BY <1>1, <1>2, <1>7, <1>8, <1>10, <1>11, <1>12, <1>13 DEF Spawns
<1> QED BY <1>2, <1>11, <1>14

(* A step of the open in slot o, of space s.                                *)
OnOp(o, s) ==
    /\ ops[o].sp = {s} /\ ops[o].at # "free"
    /\ ops' \in [Ops -> [at : Stages, sp : SUBSET Spaces, w : BOOLEAN]]
    /\ \A p \in Ops \ {o} : ops'[p] = ops[p]
    /\ UNCHANGED <<sdk, deltas, booting, subscribed, dropping, life, gone>>

Register == <<workers, opening, retries>>

Gets(o, s) ==
    /\ ops[o].at = "get" /\ ops'[o].at \in {"lock", "failed"} /\ ops'[o].sp = {s}
    /\ UNCHANGED <<Register, lock, data>>

Locks(o, s) ==
    /\ ops[o].at = "lock" /\ s \notin lock /\ lock' = lock \cup {s}
    /\ ops'[o].at = "check" /\ ops'[o].sp = {s} /\ UNCHANGED <<Register, data>>

Checks(o, s) ==
    /\ ops[o].at = "check" /\ ops'[o].sp = {s} /\ UNCHANGED <<Register, data>>
    /\ \/ opening[s] = o /\ ~ctxDone /\ ops'[o].at = "align" /\ UNCHANGED lock
       \/ (opening[s] # o \/ ctxDone) /\ ops'[o].at = "publish" /\ lock' = lock \ {s}

Aligns(o, s) ==
    /\ ops[o].at = "align" /\ ops'[o].at = "publish" /\ ops'[o].sp = {s} /\ ops'[o].w
    /\ lock' = lock \ {s} /\ data' \subseteq data \cup {s} /\ UNCHANGED Register

Frees(o, s) ==
    /\ ops[o].at \in {"publish", "failed", "stopped"} /\ ops'[o] = Free
    /\ ops[o].at # "stopped" => opening[s] # o \/ ctxDone
    /\ UNCHANGED <<Register, lock, data>>

Fails(o, s) ==
    /\ ops[o].at = "failed" /\ opening[s] = o /\ ~ctxDone /\ ops'[o] = Free
    /\ opening' = [opening EXCEPT ![s] = 0] /\ workers' = workers /\ retries' = retries \cup {s}
    /\ UNCHANGED <<lock, data>>

Starts(o, s) ==
    /\ ops[o].at = "publish" /\ opening[s] = o /\ ~ctxDone
    /\ ops'[o].at = "run" /\ ops'[o].sp = {s} /\ ops'[o].w = ops[o].w
    /\ opening' = [opening EXCEPT ![s] = 0] /\ workers' = [workers EXCEPT ![s] = o]
    /\ UNCHANGED <<retries, lock, data>>

Works(o, s) ==
    /\ ops[o].at = "run" /\ ops' = ops /\ data' = data \cup {s}
    /\ UNCHANGED <<Register, lock>>

OpKind(o, s) ==
    /\ OnOp(o, s)
    /\ \/ Gets(o, s) \/ Locks(o, s) \/ Checks(o, s) \/ Aligns(o, s) \/ Frees(o, s)
       \/ Fails(o, s) \/ Starts(o, s) \/ Works(o, s)

LEMMA OpKinds ==
    ASSUME Typed, NEW o \in Ops, OpSteps(o) \/ Work(o)
    PROVE  \E s \in Spaces : OpKind(o, s)
<1>1. ops[o].at # "free"
    BY DEF OpSteps, Get, AlignLock, Check, Align, Publish, LoopsEnd, Work
<1>2. PICK s \in Spaces : ops[o].sp = {s}
    BY <1>1 DEF Typed
<1>3. Of(o) = s
    BY <1>2, OfIs
<1>4. /\ ops \in [Ops -> [at : Stages, sp : SUBSET Spaces, w : BOOLEAN]]
      /\ ops[o] \in [at : Stages, sp : SUBSET Spaces, w : BOOLEAN]
      /\ Free \in [at : Stages, sp : SUBSET Spaces, w : BOOLEAN]
    BY DEF Typed, Free, Stages
<1> USE <1>1, <1>2, <1>3, <1>4 DEF OnOp, OpKind, Register, To, booting, sdk, life, sup, bounds
<1>5. CASE Get(o)
    BY <1>5 DEF Get, Gets, Stages
<1>6. CASE AlignLock(o)
    BY <1>6 DEF AlignLock, Locks, Stages
<1>7. CASE Check(o)
    <2>1. CASE IsOpening(o)
        BY <1>7, <2>1 DEF Check, Checks, IsOpening, Stages
    <2>2. CASE ~IsOpening(o)
        BY <1>7, <2>2 DEF Check, Checks, IsOpening, Stages
    <2> QED BY <2>1, <2>2
<1>8. CASE Align(o)
    BY <1>8 DEF Align, Aligns, Stages
<1>9. CASE Publish(o)
    <2>1. CASE Overtaken(o)
        BY <1>9, <2>1 DEF Publish, Frees, Overtaken, Stages
    <2>2. CASE ~Overtaken(o) /\ ops[o].at = "failed"
        BY <1>9, <2>2 DEF Publish, Fails, Overtaken, Armed, Stages
    <2>3. CASE ~Overtaken(o) /\ ops[o].at # "failed"
        BY <1>9, <2>3 DEF Publish, Starts, Overtaken, Stages
    <2> QED BY <2>1, <2>2, <2>3
<1>10. CASE LoopsEnd(o)
    BY <1>10 DEF LoopsEnd, Frees, Stages
<1>11. CASE Work(o)
    BY <1>11 DEF Work, Works, Stages
<1> QED BY <1>5, <1>6, <1>7, <1>8, <1>9, <1>10, <1>11 DEF OpSteps

-----------------------------------------------------------------------------
Spawning(T) ==
    /\ Spawns(T) /\ UNCHANGED <<lock, dropping, ctxDone, data>>
    /\ dropping # "no" => UNCHANGED deltas /\ Hd \notin T
    /\ boot' \in {"list", "hand"} => boot' = boot /\ bootDropped' = bootDropped

Kind ==
    \/ Outside
    \/ \E T \in SUBSET Spaces : Spawning(T)
    \/ \E o \in Ops, s \in Spaces : OpKind(o, s)
    \/ DropSpace \/ DropStops \/ DropLock \/ DropStore
    \/ Cancel

(* Heads and tails of the changes to deliver.                               *)
LEMMA DeltaFacts ==
    ASSUME Typed
    PROVE  /\ Len(deltas) \in Nat
           /\ \A i \in 1..Len(deltas) : deltas[i] \in [sp : Spaces, add : BOOLEAN]
           /\ deltas # <<>> => /\ Head(deltas) = deltas[1] /\ Head(deltas) \in [sp : Spaces, add : BOOLEAN]
                               /\ Hd \in Spaces /\ 1 \in 1..Len(deltas)
                               /\ Tail(deltas) \in Seq([sp : Spaces, add : BOOLEAN])
                               /\ Len(Tail(deltas)) = Len(deltas) - 1
                               /\ \A i \in 1..Len(deltas) - 1 : Tail(deltas)[i] = deltas[i + 1]
<1> DEFINE D == [sp : Spaces, add : BOOLEAN]
<1>1. deltas \in Seq(D)
    BY DEF Typed
<1>2. ASSUME deltas # <<>>
      PROVE  /\ Head(deltas) = deltas[1] /\ Head(deltas) \in D /\ 1 \in 1..Len(deltas)
             /\ Tail(deltas) \in Seq(D) /\ Len(Tail(deltas)) = Len(deltas) - 1
             /\ \A i \in 1..Len(deltas) - 1 : Tail(deltas)[i] = deltas[i + 1]
    <2> HIDE DEF D
    <2> QED BY <1>1, <1>2, HeadTailProperties
<1>3. Len(deltas) \in Nat /\ \A i \in 1..Len(deltas) : deltas[i] \in D
    <2> HIDE DEF D
    <2> QED BY <1>1
<1> QED BY <1>2, <1>3 DEF Hd

LEMMA AppendFacts ==
    ASSUME Typed, NEW d \in [sp : Spaces, add : BOOLEAN]
    PROVE  /\ Append(deltas, d) \in Seq([sp : Spaces, add : BOOLEAN])
           /\ Len(Append(deltas, d)) = Len(deltas) + 1 /\ Append(deltas, d)[Len(deltas) + 1] = d
           /\ \A i \in 1..Len(deltas) : Append(deltas, d)[i] = deltas[i]
           /\ Append(deltas, d) # <<>>
           /\ deltas # <<>> => Head(Append(deltas, d)) = Head(deltas)
<1> DEFINE D == [sp : Spaces, add : BOOLEAN]
<1>1. deltas \in Seq(D) /\ d \in D
    BY DEF Typed
<1> HIDE DEF D
<1>2. /\ Append(deltas, d) \in Seq(D) /\ Len(Append(deltas, d)) = Len(deltas) + 1
      /\ Append(deltas, d)[Len(deltas) + 1] = d /\ \A i \in 1..Len(deltas) : Append(deltas, d)[i] = deltas[i]
      /\ Append(deltas, d) # <<>>
    BY <1>1, AppendProperties
<1>3. deltas # <<>> => Head(Append(deltas, d)) = Head(deltas)
    BY <1>1, <1>2
<1> QED BY <1>2, <1>3 DEF D

LEMMA Kinds ==
    ASSUME IInv, [Next]_vars
    PROVE  Kind
<1> USE DEF IInv
<1>1. CASE UNCHANGED vars
    BY <1>1 DEF vars, life, booting, Kind, Outside
<1>2. CASE \E s \in Spaces : ListChanges(s)
    <2>1. PICK s \in Spaces : ListChanges(s)
        BY <1>2
    <2>2. [sp |-> s, add |-> s \notin listed] \in [sp : Spaces, add : BOOLEAN]
        OBVIOUS
    <2>3. deltas # <<>> => deltas' # <<>> /\ Head(deltas') = Head(deltas)
        BY <2>1, <2>2, AppendFacts DEF ListChanges
    <2> QED BY <2>1, <2>3 DEF ListChanges, life, booting, Kind, Outside
<1>3. CASE \E s \in Spaces : Retry(s)
    <2>1. PICK s \in Spaces : Retry(s)
        BY <1>3
    <2>2. PICK T \in SUBSET {s} : Spawns(T)
        BY <2>1, SpawnEffect DEF Retry
    <2>3. dropping # "no" => Hd # s
        BY <2>1 DEF Retry, Dropping, Idle
    <2>4. Spawning(T)
        BY <2>1, <2>2, <2>3 DEF Retry, Spawning, life, booting
    <2> QED BY <2>4 DEF Kind
<1>4. CASE Bootstrap
    <2>1. CASE Subscribe \/ ListSpaces \/ ListFails
        BY <2>1 DEF Subscribe, ListSpaces, ListFails, life, Kind, Outside
    <2>2. CASE HandOver
        <3>1. listing \ bootDropped \in SUBSET Spaces
            BY DEF Typed
        <3>2. PICK T \in SUBSET (listing \ bootDropped) : Spawns(T)
            BY <2>2, <3>1, SpawnEffect DEF HandOver
        <3>3. dropping # "no" => Hd \notin T
            BY <2>2, <3>2 DEF HandOver, Dropping
        <3>4. Spawning(T) /\ T \in SUBSET Spaces
            BY <2>2, <3>1, <3>2, <3>3 DEF HandOver, Spawning, life, booting
        <3> QED BY <3>4 DEF Kind
    <2> QED BY <1>4, <2>1, <2>2 DEF Bootstrap
<1>5. CASE SpaceAdded
    <2>1. Hd \in Spaces /\ retries \in SUBSET retries /\ Spawn({Hd}, retries)
        BY <1>5, DeltaFacts DEF SpaceAdded, Hd
    <2>2. PICK T \in SUBSET {Hd} : Spawns(T)
        BY <2>1, SpawnEffect
    <2>3. Spawning(T) /\ T \in SUBSET Spaces
        BY <1>5, <2>1, <2>2 DEF SpaceAdded, Spawning, life, booting
    <2> QED BY <2>3 DEF Kind
<1>6. CASE \E o \in Ops : OpSteps(o) \/ Work(o)
    BY <1>6, OpKinds DEF Kind
<1>7. CASE Closing \/ CloseStore
    BY <1>7 DEF Closing, CloseStore, booting, Kind, Outside
<1> QED BY <1>1, <1>2, <1>3, <1>4, <1>5, <1>6, <1>7 DEF Next, Dispatch, Kind

-----------------------------------------------------------------------------
(* The parts of the invariant that the registrations and the slots carry.   *)

LEMMA RegisteredKept ==
    ASSUME IInv, Kind
    PROVE  Registered'
<1> USE DEF IInv
<1>0. ASSUME ~ctxDone, NEW s \in Spaces
      PROVE  /\ opening[s] # 0 => opening[s] \in Ops /\ ops[opening[s]].at \in Busy /\ ops[opening[s]].sp = {s}
             /\ workers[s] # 0 => /\ workers[s] \in Ops /\ opening[s] = 0 /\ ops[workers[s]].at = "run"
                                  /\ ops[workers[s]].sp = {s} /\ ops[workers[s]].w
    BY <1>0 DEF Registered, Typed
<1>1. CASE Outside
    BY <1>1 DEF Outside, sup, Registered
<1>2. CASE \E T \in SUBSET Spaces : Spawning(T)
    <2>1. PICK T \in SUBSET Spaces : Spawns(T) /\ ctxDone' = ctxDone
        BY <1>2 DEF Spawning
    <2>2. \A p \in Ops : ops[p].at # "free" => ops'[p] = ops[p]
        BY <2>1 DEF Spawns, Free
    <2> SUFFICES ASSUME ~ctxDone, NEW s \in Spaces
                 PROVE  /\ opening'[s] # 0 => ops'[opening'[s]].at \in Busy /\ ops'[opening'[s]].sp = {s}
                        /\ workers'[s] # 0 => /\ opening'[s] = 0 /\ ops'[workers'[s]].at = "run"
                                              /\ ops'[workers'[s]].sp = {s} /\ ops'[workers'[s]].w
        BY <2>1 DEF Registered
    <2>3. CASE s \in T
        <3>1. /\ workers'[s] = 0
              /\ ops'[opening'[s]] = [at |-> "get", sp |-> {s}, w |-> FALSE]
            BY <2>1, <2>3 DEF Spawns
        <3> QED BY <3>1 DEF Busy
    <2>4. CASE s \notin T
        <3>1. opening'[s] = opening[s] /\ workers'[s] = workers[s]
            BY <2>1, <2>4 DEF Spawns
        <3>2. opening[s] # 0 => ops'[opening[s]] = ops[opening[s]]
            BY <1>0, <2>2 DEF Busy
        <3>3. workers[s] # 0 => ops'[workers[s]] = ops[workers[s]]
            BY <1>0, <2>2
        <3> QED BY <1>0, <3>1, <3>2, <3>3
    <2> QED BY <2>3, <2>4
<1>3. CASE \E o \in Ops, s \in Spaces : OpKind(o, s)
    <2>1. PICK o \in Ops, t \in Spaces : OpKind(o, t)
        BY <1>3
    <2> USE <2>1 DEF OpKind
    <2>2. /\ ops[o].sp = {t} /\ ctxDone' = ctxDone
          /\ \A p \in Ops \ {o} : ops'[p] = ops[p]
        BY DEF OnOp, life
    <2> SUFFICES ASSUME ~ctxDone, NEW s \in Spaces
                 PROVE  /\ opening'[s] # 0 => ops'[opening'[s]].at \in Busy /\ ops'[opening'[s]].sp = {s}
                        /\ workers'[s] # 0 => /\ opening'[s] = 0 /\ ops'[workers'[s]].at = "run"
                                              /\ ops'[workers'[s]].sp = {s} /\ ops'[workers'[s]].w
        BY <2>2 DEF Registered
    <2>3. CASE Gets(o, t) \/ Locks(o, t) \/ Checks(o, t) \/ Aligns(o, t)
        BY <1>0, <2>2, <2>3 DEF Gets, Locks, Checks, Aligns, Register, Busy
    <2>4. CASE Frees(o, t)
        BY <1>0, <2>2, <2>4 DEF Frees, Register, Busy
    <2>5. CASE Fails(o, t)
        <3>1. /\ opening'[t] = 0 /\ workers' = workers
              /\ \A r \in Spaces \ {t} : opening'[r] = opening[r]
            BY <2>5 DEF Fails, Typed
        <3> QED BY <1>0, <2>2, <2>5, <3>1 DEF Fails
    <2>6. CASE Starts(o, t)
        <3>1. /\ opening'[t] = 0 /\ workers'[t] = o /\ ops'[o].at = "run" /\ ops'[o].sp = {t}
              /\ \A r \in Spaces \ {t} : opening'[r] = opening[r] /\ workers'[r] = workers[r]
            BY <2>6 DEF Starts, Typed
        <3>2. ops'[o].w
            BY <2>2, <2>6 DEF Starts, Running, Typed
        <3> QED BY <1>0, <2>2, <2>6, <3>1, <3>2 DEF Starts
    <2>7. CASE Works(o, t)
        BY <1>0, <2>7 DEF Works, Register
    <2> QED BY <2>3, <2>4, <2>5, <2>6, <2>7
<1>4. CASE DropSpace
    BY <1>4 DEF DropSpace, Registered, Typed, life
<1>5. CASE DropStops
    <2>1. \A p \in Ops, s \in Spaces : ops[p].sp = {s} /\ s # Hd => ops'[p] = ops[p]
        BY <1>5 DEF DropStops, Hd
    <2>2. \A p \in Ops : ops[p].at # "run" => ops'[p] = ops[p]
        BY <1>5 DEF DropStops
    <2>3. workers[Hd] = 0
        BY <1>5 DEF DropStops, Dropping, Idle
    <2>4. UNCHANGED <<workers, opening, ctxDone>>
        BY <1>5 DEF DropStops, life
    <2> QED BY <2>1, <2>2, <2>3, <2>4, OpsFacts DEF Registered, Busy, Typed
<1>6. CASE DropLock \/ DropStore
    BY <1>6 DEF DropLock, DropStore, sup, life, Registered
<1>7. CASE Cancel
    BY <1>7 DEF Cancel, Registered
<1> QED BY <1>1, <1>2, <1>3, <1>4, <1>5, <1>6, <1>7 DEF Kind

(* A spawn leaves the slots in use, and what it takes is at "get".          *)
LEMMA SpawnOps ==
    ASSUME Typed, NEW T \in SUBSET Spaces, Spawns(T)
    PROVE  /\ \A o \in Ops : ops[o].at # "free" \/ ops'[o].at # "get" => ops'[o] = ops[o]
           /\ \A o \in Ops, s \in Spaces : ops[o].at # "free" /\ opening[s] # o => opening'[s] # o
           /\ \A o \in Ops, s \in Spaces : ops'[o].at = "get" /\ ops[o].at = "free" /\ ops'[o].sp = {s} => s \in T
<1>1. ASSUME NEW o \in Ops
      PROVE  ops'[o] = ops[o] \/ (ops[o].at = "free" /\ \E s \in T : ops'[o] = [at |-> "get", sp |-> {s}, w |-> FALSE])
    <2>1. CASE ops'[o] = ops[o]
        BY <2>1
    <2>2. CASE ops[o] = Free /\ \E s \in T : opening'[s] = o
        <3>1. PICK s \in T : opening'[s] = o
            BY <2>2
        <3>2. ops'[o] = [at |-> "get", sp |-> {s}, w |-> FALSE]
            BY <3>1 DEF Spawns
        <3>3. ops[o].at = "free"
            BY <2>2 DEF Free
        <3> QED BY <3>2, <3>3
    <2> QED BY <2>1, <2>2 DEF Spawns
<1>2. ASSUME NEW o \in Ops PROVE ops[o].at # "free" \/ ops'[o].at # "get" => ops'[o] = ops[o]
    <2>1. CASE ops'[o] = ops[o]
        BY <2>1
    <2>2. CASE ops[o].at = "free" /\ \E s \in T : ops'[o] = [at |-> "get", sp |-> {s}, w |-> FALSE]
        <3>1. ops'[o].at = "get"
            BY <2>2
        <3> QED BY <2>2, <3>1
    <2> QED BY <1>1, <2>1, <2>2
<1>3. ASSUME NEW o \in Ops, NEW s \in Spaces, ops[o].at # "free", opening[s] # o PROVE opening'[s] # o
    <2>1. s \in T => ops[opening'[s]].at = "free"
        <3>1. s \in T => ops[opening'[s]] = Free
            BY DEF Spawns
        <3> QED BY <3>1 DEF Free
    <2>2. s \notin T => opening'[s] = opening[s]
        BY DEF Spawns
    <2> QED BY <1>3, <2>1, <2>2
<1>4. ASSUME NEW o \in Ops, NEW s \in Spaces, ops'[o].at = "get", ops[o].at = "free", ops'[o].sp = {s} PROVE s \in T
    <2>1. PICK t \in T : ops'[o] = [at |-> "get", sp |-> {t}, w |-> FALSE]
        BY <1>1, <1>4
    <2> QED BY <1>4, <2>1
<1> QED BY <1>2, <1>3, <1>4

LEMMA RunningKept ==
    ASSUME IInv, Kind
    PROVE  Running'
<1> USE DEF IInv
<1>1. CASE Outside
    <2>1. dropping = "stop" => Hd' = Hd
        BY <1>1 DEF Outside, Dropping, Hd
    <2> QED BY <1>1, <2>1 DEF Outside, sup, Running
<1>2. CASE \E T \in SUBSET Spaces : Spawning(T)
    <2>1. PICK T \in SUBSET Spaces : Spawning(T) /\ Spawns(T)
        BY <1>2 DEF Spawning
    <2>2. /\ workers' = workers /\ ctxDone' = ctxDone /\ dropping' = dropping
          /\ dropping = "stop" => Hd' = Hd
        BY <2>1 DEF Spawning, Spawns, Hd
    <2>3. \A o \in Ops : ops'[o].at \in {"run", "publish"} => ops'[o] = ops[o]
        BY <2>1, SpawnOps
    <2>4. \A o \in Ops, s \in Spaces : ops[o].at = "publish" /\ opening[s] # o => opening'[s] # o
        BY <2>1, SpawnOps
    <2> QED BY <2>2, <2>3, <2>4 DEF Running
<1>3. CASE \E o \in Ops, s \in Spaces : OpKind(o, s)
    <2>1. PICK o \in Ops, t \in Spaces : OpKind(o, t)
        BY <1>3
    <2> USE <2>1 DEF OpKind
    <2>2. /\ ops[o].sp = {t} /\ ctxDone' = ctxDone /\ dropping' = dropping /\ Hd' = Hd
          /\ \A p \in Ops \ {o} : ops'[p] = ops[p]
        BY DEF OnOp, life, Hd
    <2>3. CASE Gets(o, t) \/ Locks(o, t) \/ Checks(o, t) \/ Aligns(o, t)
        BY <2>2, <2>3 DEF Gets, Locks, Checks, Aligns, Register, Running
    <2>4. CASE Frees(o, t)
        BY <2>2, <2>4 DEF Frees, Register, Running, Free
    <2>5. CASE Fails(o, t)
        <3>1. /\ opening'[t] = 0 /\ workers' = workers /\ ops'[o].at = "free"
              /\ \A r \in Spaces \ {t} : opening'[r] = opening[r]
            BY <2>5 DEF Fails, Typed, Free
        <3> QED BY <2>2, <3>1, OpsFacts DEF Running
    <2>6. CASE Starts(o, t)
        <3>1. /\ opening'[t] = 0 /\ workers'[t] = o /\ ops'[o].at = "run" /\ ops'[o].sp = {t}
              /\ \A r \in Spaces \ {t} : opening'[r] = opening[r] /\ workers'[r] = workers[r]
            BY <2>6 DEF Starts, Typed
        <3>2. ~ctxDone /\ opening[t] # 0
            BY <2>6, OpsFacts DEF Starts
        <3>3. workers[t] = 0 /\ ~(dropping = "stop" /\ Hd = t)
            BY <3>2 DEF Registered, Dropping, Idle
        <3>4. \A p \in Ops \ {o} : ~(ops[p].at = "run" /\ ops[p].sp = {t})
            BY <3>3, OpsFacts DEF Running
        <3> QED BY <2>2, <3>1, <3>2, <3>4, OpsFacts DEF Running
    <2>7. CASE Works(o, t)
        BY <2>2, <2>7 DEF Works, Register, Running
    <2> QED BY <2>3, <2>4, <2>5, <2>6, <2>7
<1>4. CASE DropSpace
    <2>1. /\ dropping = "no" /\ dropping' = "stop" /\ Hd' = Hd /\ ops' = ops /\ ctxDone' = ctxDone /\ Hd \in Spaces
          /\ opening' = [opening EXCEPT ![Hd] = 0] /\ workers' = [workers EXCEPT ![Hd] = 0]
        BY <1>4, DeltaFacts DEF DropSpace, Hd, life
    <2>2. /\ opening'[Hd] = 0
          /\ \A r \in Spaces \ {Hd} : opening'[r] = opening[r] /\ workers'[r] = workers[r]
        BY <2>1 DEF Typed
    <2> QED BY <2>1, <2>2, OpsFacts DEF Running
<1>5. CASE DropStops
    <2>1. \A p \in Ops : \/ ops'[p] = ops[p] /\ ~(ops[p].at = "run" /\ ops[p].sp = {Hd})
                         \/ ops'[p].at = "stopped"
        BY <1>5 DEF DropStops, Hd, Typed
    <2>2. UNCHANGED <<workers, opening, ctxDone>>
        BY <1>5 DEF DropStops, life
    <2> QED BY <2>1, <2>2 DEF Running
<1>6. CASE DropLock \/ DropStore
    BY <1>6 DEF DropLock, DropStore, sup, life, Running
<1>7. CASE Cancel
    <2>1. ctxDone' /\ \A p \in Ops : ops'[p].at # "run"
        BY <1>7 DEF Cancel, Typed
    <2> QED BY <2>1 DEF Running
<1> QED BY <1>1, <1>2, <1>3, <1>4, <1>5, <1>6, <1>7 DEF Kind

LEMMA LockedKept ==
    ASSUME IInv, Kind
    PROVE  Locked'
<1> USE DEF IInv
<1>1. CASE Outside
    <2>1. dropping = "store" => Hd' = Hd
        BY <1>1 DEF Outside, Dropping, Hd
    <2> QED BY <1>1, <2>1 DEF Outside, sup, Locked
<1>2. CASE \E T \in SUBSET Spaces : Spawning(T)
    <2>1. PICK T \in SUBSET Spaces : Spawning(T) /\ Spawns(T)
        BY <1>2 DEF Spawning
    <2>2. /\ lock' = lock /\ dropping' = dropping /\ (dropping = "store" => Hd' = Hd)
          /\ \A o \in Ops : ops'[o].at \in {"check", "align"} => ops'[o] = ops[o]
        BY <2>1, SpawnOps DEF Spawning, Hd
    <2> QED BY <2>2 DEF Locked
<1>3. CASE \E o \in Ops, s \in Spaces : OpKind(o, s)
    <2>1. PICK o \in Ops, t \in Spaces : OpKind(o, t)
        BY <1>3
    <2> USE <2>1 DEF OpKind
    <2>2. /\ ops[o].sp = {t} /\ dropping' = dropping /\ Hd' = Hd
          /\ \A p \in Ops \ {o} : ops'[p] = ops[p]
        BY DEF OnOp, Hd
    <2>3. dropping = "store" => Hd \in Spaces
        BY DeltaFacts DEF Dropping
    <2>4. \A p \in Ops : ops[p].at # "free" => \E s \in Spaces : ops[p].sp = {s}
        BY DEF Typed
    <2>5. CASE Gets(o, t) \/ Frees(o, t) \/ Fails(o, t) \/ Starts(o, t) \/ Works(o, t)
        <3>1. lock' = lock /\ (ops'[o].at \in {"check", "align"} => ops'[o] = ops[o])
            BY <2>2, <2>5 DEF Gets, Frees, Fails, Starts, Works, Register, Free
        <3> QED BY <2>2, <3>1 DEF Locked
    <2>6. CASE Locks(o, t)
        <3>1. \A p \in Ops : ops[p].at \in {"check", "align"} => t \notin ops[p].sp
            BY <2>6 DEF Locks, Locked
        <3>2. dropping = "store" => Hd # t
            BY <2>6 DEF Locks, Locked
        <3> QED BY <2>2, <2>3, <2>6, <3>1, <3>2 DEF Locks, Locked
    <2>7. CASE Checks(o, t) /\ lock' = lock
        <3>1. ops[o].at = "check" /\ ops'[o].sp = {t}
            BY <2>7 DEF Checks
        <3>2. \A p \in Ops : /\ ops'[p].at \in {"check", "align"} => ops[p].at \in {"check", "align"}
                             /\ ops'[p].sp = ops[p].sp
            BY <2>2, <3>1
        <3> QED BY <2>2, <2>7, <3>2 DEF Locked
    <2>8. CASE (Checks(o, t) \/ Aligns(o, t)) /\ lock' # lock
        <3>1. /\ ops[o].at \in {"check", "align"} /\ ops'[o].at = "publish" /\ lock' = lock \ {t}
            BY <2>8 DEF Checks, Aligns
        <3>2. \A p \in Ops \ {o} : ops[p].at \in {"check", "align"} => t \notin ops[p].sp
            BY <2>2, <2>4, <3>1 DEF Locked
        <3>3. dropping = "store" => Hd # t
            BY <2>2, <3>1 DEF Locked
        <3> QED BY <2>2, <3>1, <3>2, <3>3 DEF Locked
    <2>9. CASE Aligns(o, t) /\ lock' = lock
        <3>1. ops[o].at = "align" /\ ops'[o].at = "publish"
            BY <2>9 DEF Aligns
        <3> QED BY <2>2, <2>9, <3>1 DEF Locked
    <2> QED BY <2>5, <2>6, <2>7, <2>8, <2>9
<1>4. CASE DropSpace
    BY <1>4 DEF DropSpace, Locked
<1>5. CASE DropStops
    <2>1. \A p \in Ops : ops'[p] = ops[p] \/ ops'[p].at = "stopped"
        BY <1>5 DEF DropStops, Typed
    <2>2. lock' = lock /\ dropping' = "lock"
        BY <1>5 DEF DropStops
    <2> QED BY <2>1, <2>2 DEF Locked
<1>6. CASE DropLock
    BY <1>6 DEF DropLock, sup, Hd, Locked
<1>7. CASE DropStore
    <2>1. dropping = "store" /\ dropping' = "no" /\ lock' = lock \ {Hd} /\ ops' = ops
        BY <1>7 DEF DropStore, sup, Hd
    <2>2. \A p \in Ops : ops[p].at \in {"check", "align"} => Hd \notin ops[p].sp
        BY <2>1 DEF Locked, Typed
    <2> QED BY <2>1, <2>2 DEF Locked
<1>8. CASE Cancel
    <2>1. \A p \in Ops : ops'[p] = ops[p] \/ ops'[p].at = "stopped"
        BY <1>8 DEF Cancel, Typed
    <2>2. lock' = lock /\ dropping' = dropping /\ Hd' = Hd
        BY <1>8 DEF Cancel, Hd
    <2> QED BY <2>1, <2>2 DEF Locked
<1> QED BY <1>1, <1>2, <1>3, <1>4, <1>5, <1>6, <1>7, <1>8 DEF Kind

LEMMA GoneQuietKept ==
    ASSUME IInv, Kind
    PROVE  GoneQuiet'
<1> USE DEF IInv
<1>1. CASE Outside
    BY <1>1 DEF Outside, sup, GoneQuiet
<1>2. CASE \E T \in SUBSET Spaces : Spawning(T)
    <2>1. PICK T \in SUBSET Spaces : Spawning(T) /\ Spawns(T)
        BY <1>2 DEF Spawning
    <2>2. /\ data' = data /\ gone' = gone \ T
          /\ \A s \in Spaces \ T : opening'[s] = opening[s]
          /\ \A o \in Ops : ops'[o].at \in {"align", "run"} => ops'[o] = ops[o]
        BY <2>1, SpawnOps DEF Spawning, Spawns
    <2> QED BY <2>2 DEF GoneQuiet
<1>3. CASE \E o \in Ops, s \in Spaces : OpKind(o, s)
    <2>1. PICK o \in Ops, t \in Spaces : OpKind(o, t)
        BY <1>3
    <2> USE <2>1 DEF OpKind
    <2>2. /\ ops[o].sp = {t} /\ gone' = gone
          /\ \A p \in Ops \ {o} : ops'[p] = ops[p]
        BY DEF OnOp
    <2>3. CASE Gets(o, t) \/ Locks(o, t)
        BY <2>2, <2>3 DEF Gets, Locks, Register, GoneQuiet
    <2>4. CASE Frees(o, t)
        BY <2>2, <2>4 DEF Frees, Register, Free, GoneQuiet
    <2>5. CASE Fails(o, t)
        <3>1. data' = data /\ ops'[o].at = "free" /\ \A s \in Spaces : opening[s] = 0 => opening'[s] = 0
            BY <2>5 DEF Fails, Typed, Free
        <3> QED BY <2>2, <3>1 DEF GoneQuiet
    <2>6. CASE Checks(o, t) /\ ops'[o].at # "align"
        BY <2>2, <2>6 DEF Checks, Register, GoneQuiet
    <2>7. CASE (Checks(o, t) /\ ops'[o].at = "align") \/ Starts(o, t) \/ Aligns(o, t) \/ Works(o, t)
        <3>1. ops'[o].sp = {t}
            BY <2>2, <2>7 DEF Checks, Starts, Aligns, Works
        <3>2. \/ opening[t] = o
              \/ ops[o].at \in {"align", "run"}
            BY <2>7 DEF Checks, Starts, Aligns, Works
        <3>3. t \notin gone
            BY <2>2, <3>2, OpsFacts DEF GoneQuiet
        <3>4. data' \subseteq data \cup {t} /\ \A s \in Spaces : opening[s] = 0 => opening'[s] = 0
            BY <2>7 DEF Checks, Starts, Aligns, Works, Register, Typed
        <3> QED BY <2>2, <3>1, <3>3, <3>4 DEF GoneQuiet
    <2> QED BY <2>3, <2>4, <2>5, <2>6, <2>7
<1>4. CASE DropSpace
    <2>1. ops' = ops /\ data' = data /\ gone' = gone /\ \A s \in Spaces : opening[s] = 0 => opening'[s] = 0
        BY <1>4 DEF DropSpace, Typed
    <2> QED BY <2>1 DEF GoneQuiet
<1>5. CASE DropStops \/ Cancel
    <2>1. \A p \in Ops : ops'[p] = ops[p] \/ ops'[p].at = "stopped"
        BY <1>5 DEF DropStops, Cancel, Typed
    <2>2. data' = data /\ gone' = gone /\ opening' = opening
        BY <1>5 DEF DropStops, Cancel
    <2> QED BY <2>1, <2>2 DEF GoneQuiet
<1>6. CASE DropLock
    BY <1>6 DEF DropLock, sup, GoneQuiet
<1>7. CASE DropStore
    <2>1. /\ dropping = "store" /\ data' = data \ {Hd} /\ gone' = gone \cup {Hd}
          /\ ops' = ops /\ opening' = opening
        BY <1>7 DEF DropStore, sup, Hd
    <2>2. opening[Hd] = 0 /\ \A p \in Ops : ops[p].sp = {Hd} => ops[p].at \notin {"align", "run"}
        BY <2>1 DEF Dropping, Idle, Locked
    <2> QED BY <2>1, <2>2 DEF GoneQuiet
<1> QED BY <1>1, <1>2, <1>3, <1>4, <1>5, <1>6, <1>7 DEF Kind

(* No step of an open wakes a space that is idle.                           *)
LEMMA IdleKept ==
    ASSUME Typed, NEW o \in Ops, NEW t \in Spaces, OpKind(o, t), NEW s \in Spaces, Idle(s)
    PROVE  Idle(s)'
<1>1. CASE Gets(o, t) \/ Locks(o, t) \/ Checks(o, t) \/ Aligns(o, t) \/ Frees(o, t) \/ Works(o, t)
    BY <1>1 DEF Gets, Locks, Checks, Aligns, Frees, Works, Register, Idle
<1>2. CASE Fails(o, t) \/ Starts(o, t)
    <2>1. s # t
        BY <1>2, OpsFacts DEF Fails, Starts, Idle
    <2> QED BY <1>2, <2>1 DEF Fails, Starts, Idle, Typed
<1> QED BY <1>1, <1>2 DEF OpKind

LEMMA DroppingKept ==
    ASSUME IInv, Kind
    PROVE  Dropping'
<1> USE DEF IInv
<1>0. /\ dropping # "no" => Hd \in Spaces /\ boot # "new"
      /\ boot # "done" => boot \in {"new", "list", "hand"}
    BY DeltaFacts DEF Dropping, Windowed, Typed
<1>1. CASE Outside
    <2>1. dropping' = dropping /\ (dropping # "no" => deltas' # <<>> /\ Head(deltas') = Head(deltas) /\ Hd' = Hd)
        BY <1>1 DEF Outside, Dropping, Hd
    <2>2. dropping # "no" => Idle(Hd)'
        BY <1>1, <2>1 DEF Outside, sup, Dropping, Idle
    <2>3. dropping # "no" /\ boot' \in {"list", "hand"} => boot \in {"list", "hand"} /\ bootDropped' = bootDropped
        BY <1>0, <1>1 DEF Outside
    <2>4. ops' = ops
        BY <1>1 DEF Outside, sup
    <2> QED BY <2>1, <2>2, <2>3, <2>4 DEF Dropping
<1>2. CASE \E T \in SUBSET Spaces : Spawning(T)
    <2>1. PICK T \in SUBSET Spaces : Spawning(T) /\ Spawns(T)
        BY <1>2 DEF Spawning
    <2>2. /\ dropping' = dropping /\ (dropping # "no" => deltas' = deltas /\ Hd' = Hd /\ Hd \notin T)
          /\ boot' \in {"list", "hand"} => boot' = boot /\ bootDropped' = bootDropped
          /\ \A o \in Ops : ops'[o].at = "run" => ops'[o] = ops[o]
        BY <2>1, SpawnOps DEF Spawning, Hd
    <2>3. dropping # "no" => Idle(Hd)'
        BY <1>0, <2>1, <2>2 DEF Spawns, Dropping, Idle
    <2> QED BY <2>2, <2>3 DEF Dropping
<1>3. CASE \E o \in Ops, s \in Spaces : OpKind(o, s)
    <2>1. PICK o \in Ops, t \in Spaces : OpKind(o, t)
        BY <1>3
    <2>2. /\ UNCHANGED <<deltas, dropping, boot, bootDropped>> /\ Hd' = Hd
          /\ ops[o].sp = {t} /\ \A p \in Ops \ {o} : ops'[p] = ops[p]
        BY <2>1 DEF OpKind, OnOp, Hd, booting
    <2>3. dropping # "no" => Idle(Hd)'
        BY <1>0, <2>1, <2>2, IdleKept DEF Dropping
    <2>4. dropping # "no" /\ ops'[o].at = "run" /\ ops'[o].sp = {Hd} => ops[o].at = "run" /\ ops[o].sp = {Hd}
        <3>1. SUFFICES ASSUME dropping # "no", ops'[o].at = "run", ops'[o].sp = {Hd}
                       PROVE  ops[o].at = "run" /\ ops[o].sp = {Hd}
            OBVIOUS
        <3>2. Works(o, t) \/ Starts(o, t)
            BY <2>1, <3>1 DEF OpKind, Gets, Locks, Checks, Aligns, Frees, Fails, Free
        <3>3. ~Starts(o, t)
            <4>1. Starts(o, t) => ops'[o].sp = {t} /\ opening[t] # 0
                BY OpsFacts DEF Starts
            <4> QED BY <3>1, <4>1 DEF Dropping, Idle
        <3> QED BY <3>1, <3>2, <3>3 DEF Works
    <2> QED BY <2>2, <2>3, <2>4 DEF Dropping
<1>4. CASE DropSpace
    <2>1. /\ dropping' = "stop" /\ deltas # <<>> /\ ~Head(deltas).add /\ deltas' = deltas /\ Hd' = Hd /\ Hd \in Spaces
          /\ retries' = retries \ {Hd} /\ opening' = [opening EXCEPT ![Hd] = 0] /\ boot' = boot
          /\ workers' = [workers EXCEPT ![Hd] = 0] /\ (window => bootDropped' = bootDropped \cup {Hd})
        BY <1>4, DeltaFacts DEF DropSpace, Hd
    <2>2. Idle(Hd)'
        BY <2>1 DEF Idle, Typed
    <2> QED BY <2>1, <2>2 DEF Dropping, Windowed
<1>5. CASE DropStops
    <2>1. /\ UNCHANGED <<deltas, boot, bootDropped, workers, opening, retries>> /\ dropping = "stop" /\ Hd' = Hd
          /\ \A p \in Ops : ops[p].at = "run" /\ ops[p].sp = {Hd} => ops'[p].at = "stopped"
          /\ \A p \in Ops : ops'[p] = ops[p] \/ ops'[p].at = "stopped"
        BY <1>5 DEF DropStops, booting, Hd, Typed
    <2>2. Idle(Hd)'
        BY <2>1 DEF Dropping, Idle
    <2> QED BY <2>1, <2>2 DEF Dropping
<1>6. CASE DropLock
    <2>1. UNCHANGED <<deltas, boot, bootDropped, sup>> /\ dropping = "lock" /\ dropping' = "store" /\ Hd' = Hd
        BY <1>6 DEF DropLock, booting, Hd
    <2> QED BY <2>1 DEF sup, Dropping, Idle
<1>7. CASE DropStore
    BY <1>7 DEF DropStore, Dropping
<1>8. CASE Cancel
    <2>1. /\ UNCHANGED <<deltas, boot, bootDropped, workers, opening, retries, dropping>> /\ Hd' = Hd
          /\ \A p \in Ops : ops'[p].at # "run"
        BY <1>8 DEF Cancel, booting, Hd, Typed
    <2>2. dropping # "no" => Idle(Hd)'
        BY <2>1 DEF Dropping, Idle
    <2> QED BY <2>1, <2>2 DEF Dropping
<1> QED BY <1>1, <1>2, <1>3, <1>4, <1>5, <1>6, <1>7, <1>8 DEF Kind

-----------------------------------------------------------------------------
(* The parts that bootstrap, the changes of the list and Close carry.       *)

(* The kinds again, with what they do to these.                             *)
SpawnStep(s) == Retry(s) \/ (SpaceAdded /\ s = Hd) \/ (HandOver /\ s \in listing \ bootDropped)

LEMMA SpawnSteps ==
    ASSUME IInv, HandOver \/ SpaceAdded \/ \E s \in Spaces : Retry(s)
    PROVE  \E T \in SUBSET Spaces : Spawns(T) /\ \A s \in T : SpawnStep(s)
<1> USE DEF IInv
<1>1. CASE HandOver
    <2>1. listing \ bootDropped \in SUBSET Spaces
        BY DEF Typed
    <2>2. PICK T \in SUBSET (listing \ bootDropped) : Spawns(T)
        BY <1>1, <2>1, SpawnEffect DEF HandOver
    <2> QED BY <1>1, <2>1, <2>2 DEF SpawnStep
<1>2. CASE SpaceAdded
    <2>1. Hd \in Spaces /\ retries \in SUBSET retries /\ Spawn({Hd}, retries)
        BY <1>2, DeltaFacts DEF SpaceAdded, Hd
    <2>2. PICK T \in SUBSET {Hd} : Spawns(T)
        BY <2>1, SpawnEffect
    <2> QED BY <1>2, <2>1, <2>2 DEF SpawnStep
<1>3. CASE \E s \in Spaces : Retry(s)
    <2>1. PICK s \in Spaces : Retry(s)
        BY <1>3
    <2>2. PICK T \in SUBSET {s} : Spawns(T)
        BY <2>1, SpawnEffect DEF Retry
    <2> QED BY <2>1, <2>2 DEF SpawnStep
<1> QED BY <1>1, <1>2, <1>3

LEMMA TypedKept ==
    ASSUME IInv, [Next]_vars
    PROVE  Typed'
<1> USE DEF IInv
<1> DEFINE Slot == [at : Stages, sp : SUBSET Spaces, w : BOOLEAN]
           OpsTyped == /\ ops' \in [Ops -> Slot]
                       /\ \A o \in Ops : /\ ops'[o].at = "free" => ops'[o] = Free
                                         /\ ops'[o].at # "free" => \E s \in Spaces : ops'[o].sp = {s}
           Reg == /\ workers' \in [Spaces -> Ops \cup {0}] /\ opening' \in [Spaces -> Ops \cup {0}]
                  /\ retries' \subseteq Spaces
           Rest == /\ boot' \in {"new", "list", "hand", "done"} /\ dropping' \in {"no", "stop", "lock", "store"}
                   /\ listed' \subseteq Spaces /\ listing' \subseteq Spaces /\ bootDropped' \subseteq Spaces
                   /\ lock' \subseteq Spaces /\ data' \subseteq Spaces
                   /\ deltas' \in Seq([sp : Spaces, add : BOOLEAN])
                   /\ {window', subscribed', ctxDone', closing', closed'} \subseteq BOOLEAN
<1>0. SUFFICES OpsTyped /\ Reg /\ Rest
    BY DEF Typed
<1>1. CASE UNCHANGED vars
    BY <1>1 DEF vars, sdk, booting, sup, life, Typed
<1>2. CASE Subscribe \/ ListSpaces \/ ListFails \/ Closing \/ CloseStore
    BY <1>2 DEF Subscribe, ListSpaces, ListFails, Closing, CloseStore, sdk, bounds, booting, sup, life, Typed
<1>3. CASE \E s \in Spaces : ListChanges(s)
    <2>1. PICK s \in Spaces : ListChanges(s)
        BY <1>3
    <2>2. [sp |-> s, add |-> s \notin listed] \in [sp : Spaces, add : BOOLEAN]
        OBVIOUS
    <2>3. deltas' \in Seq([sp : Spaces, add : BOOLEAN])
        BY <2>1, <2>2, AppendFacts DEF ListChanges, Typed
    <2>4. listed' \subseteq Spaces
        BY <2>1 DEF ListChanges, Typed
    <2> QED BY <2>1, <2>3, <2>4 DEF ListChanges, sup, booting, life, Typed
<1>4. CASE HandOver \/ SpaceAdded \/ \E s \in Spaces : Retry(s)
    <2>1. PICK T \in SUBSET Spaces : Spawns(T)
        BY <1>4, SpawnSteps
    <2>2. OpsTyped
        <3>1. ops' \in [Ops -> Slot]
            BY <2>1 DEF Spawns
        <3>2. ASSUME NEW o \in Ops
              PROVE  /\ ops'[o].at = "free" => ops'[o] = Free
                     /\ ops'[o].at # "free" => \E s \in Spaces : ops'[o].sp = {s}
            <4>1. CASE ops'[o] = ops[o]
                BY <4>1 DEF Typed
            <4>2. CASE \E s \in T : opening'[s] = o
                <5>1. PICK s \in T : opening'[s] = o
                    BY <4>2
                <5>2. ops'[o] = [at |-> "get", sp |-> {s}, w |-> FALSE]
                    BY <2>1, <5>1 DEF Spawns
                <5> QED BY <5>2
            <4> QED BY <2>1, <4>1, <4>2 DEF Spawns
        <3> QED BY <3>1, <3>2
    <2>3. Reg
        BY <2>1 DEF Spawns, Typed
    <2>4. Rest
        <3>1. CASE HandOver \/ \E s \in Spaces : Retry(s)
            BY <3>1 DEF HandOver, Retry, sdk, booting, life, Typed
        <3>2. CASE SpaceAdded
            BY <3>2, DeltaFacts DEF SpaceAdded, sdk, booting, life, Typed
        <3> QED BY <1>4, <3>1, <3>2
    <2> QED BY <2>2, <2>3, <2>4
<1>5. CASE \E o \in Ops : OpSteps(o) \/ Work(o)
    <2>1. PICK o \in Ops, t \in Spaces : OpKind(o, t)
        BY <1>5, OpKinds
    <2>2. OpsTyped
        <3>1. ops' \in [Ops -> Slot] /\ \A p \in Ops \ {o} : ops'[p] = ops[p]
            BY <2>1 DEF OpKind, OnOp
        <3>2. ops'[o] = Free \/ (ops'[o].at # "free" /\ ops'[o].sp = {t})
            BY <2>1 DEF OpKind, OnOp, Gets, Locks, Checks, Aligns, Frees, Fails, Starts, Works
        <3>3. Free.at = "free"
            BY DEF Free
        <3> QED BY <3>1, <3>2, <3>3 DEF Typed
    <2>3. Reg
        BY <2>1 DEF OpKind, Gets, Locks, Checks, Aligns, Frees, Fails, Starts, Works, Register, Typed
    <2>4. lock' \subseteq Spaces /\ data' \subseteq Spaces
        BY <2>1 DEF OpKind, Gets, Locks, Checks, Aligns, Frees, Fails, Starts, Works, Typed
    <2> QED BY <2>1, <2>2, <2>3, <2>4 DEF OpKind, OnOp, sdk, booting, life, Typed
<1>6. CASE DropSpace
    <2>1. Hd \in Spaces
        BY <1>6, DeltaFacts DEF DropSpace
    <2>2. Reg
        BY <1>6, <2>1 DEF DropSpace, Hd, Typed
    <2>3. OpsTyped
        BY <1>6 DEF DropSpace, Typed
    <2>4. Rest
        BY <1>6, <2>1 DEF DropSpace, Hd, sdk, life, Typed
    <2> QED BY <2>2, <2>3, <2>4
<1>7. CASE DropStops
    <2>1. OpsTyped
        <3>1. \A o \in Ops : ops'[o] = ops[o] \/ (ops[o].at # "free" /\ ops'[o] = [ops[o] EXCEPT !.at = "stopped"])
            BY <1>7 DEF DropStops
        <3>2. ops' \in [Ops -> Slot]
            BY <1>7 DEF DropStops, Typed, Stages
        <3> QED BY <3>1, <3>2 DEF Typed
    <2> QED BY <1>7, <2>1 DEF DropStops, sdk, booting, life, Typed
<1>8. CASE DropLock
    BY <1>8, DeltaFacts DEF DropLock, Dropping, Hd, sdk, booting, sup, life, Typed
<1>9. CASE DropStore
    <2>1. deltas' \in Seq([sp : Spaces, add : BOOLEAN])
        BY <1>9, DeltaFacts DEF DropStore, Dropping
    <2> QED BY <1>9, <2>1 DEF DropStore, sdk, booting, sup, life, Typed
<1>10. CASE Cancel
    <2>1. OpsTyped
        <3>1. \A o \in Ops : ops'[o] = ops[o] \/ (ops[o].at # "free" /\ ops'[o] = [ops[o] EXCEPT !.at = "stopped"])
            BY <1>10 DEF Cancel
        <3>2. ops' \in [Ops -> Slot]
            BY <1>10 DEF Cancel, Typed, Stages
        <3> QED BY <3>1, <3>2 DEF Typed
    <2> QED BY <1>10, <2>1 DEF Cancel, sdk, booting, life, Typed
<1> QED BY <1>1, <1>2, <1>3, <1>4, <1>5, <1>6, <1>7, <1>8, <1>9, <1>10 DEF Next, Bootstrap, Dispatch

LEMMA WindowedKept ==
    ASSUME IInv, [Next]_vars
    PROVE  Windowed'
<1> USE DEF IInv
<1>1. CASE UNCHANGED vars
    BY <1>1 DEF vars, booting, sup, Windowed, Idle
<1>2. CASE Subscribe \/ ListSpaces \/ ListFails \/ Closing \/ CloseStore
    BY <1>2 DEF Subscribe, ListSpaces, ListFails, Closing, CloseStore, booting, sup, Windowed, Idle
<1>3. CASE \E s \in Spaces : ListChanges(s)
    BY <1>3 DEF ListChanges, booting, sup, Windowed, Idle
<1>4. CASE HandOver \/ SpaceAdded \/ \E s \in Spaces : Retry(s)
    BY <1>4 DEF HandOver, SpaceAdded, Retry, booting, Windowed, Idle
<1>5. CASE \E o \in Ops : OpSteps(o) \/ Work(o)
    <2>1. PICK o \in Ops, t \in Spaces : OpKind(o, t)
        BY <1>5, OpKinds
    <2>2. \A s \in Spaces : Idle(s) => Idle(s)'
        BY <2>1, IdleKept
    <2> QED BY <2>1, <2>2 DEF OpKind, OnOp, booting, Windowed
<1>6. CASE Dispatch
    <2>1. dropping # "no" => deltas # <<>>
        BY DEF Dropping
    <2> QED BY <1>6, <2>1 DEF Dispatch, SpaceAdded, DropSpace, DropStops, DropLock, DropStore, booting, Windowed
<1>7. CASE Cancel
    BY <1>7 DEF Cancel, booting, Windowed, Idle
<1> QED BY <1>1, <1>2, <1>3, <1>4, <1>5, <1>6, <1>7 DEF Next, Bootstrap

LEMMA ClosedKept ==
    ASSUME IInv, [Next]_vars
    PROVE  Closed'
<1> USE DEF IInv
<1>1. CASE UNCHANGED vars
    BY <1>1 DEF vars, booting, sup, life, Closed
<1>2. CASE Subscribe \/ ListSpaces \/ ListFails \/ Closing
    BY <1>2 DEF Subscribe, ListSpaces, ListFails, Closing, booting, sup, life, Closed
<1>3. CASE \E s \in Spaces : ListChanges(s)
    BY <1>3 DEF ListChanges, booting, sup, life, Closed
<1>4. CASE HandOver \/ SpaceAdded \/ \E s \in Spaces : Retry(s)
    <2>1. ~closed
        BY <1>4 DEF HandOver, SpaceAdded, Retry, Closed
    <2>2. UNCHANGED <<subscribed, ctxDone, closing, closed>>
        BY <1>4 DEF HandOver, SpaceAdded, Retry, life
    <2> QED BY <2>1, <2>2 DEF Closed
<1>5. CASE \E o \in Ops : OpSteps(o) \/ Work(o)
    <2>1. PICK o \in Ops, t \in Spaces : OpKind(o, t)
        BY <1>5, OpKinds
    <2>2. ops[o].at # "free" /\ ops[o] # Free
        BY <2>1 DEF OpKind, OnOp, Free
    <2> QED BY <2>1, <2>2 DEF OpKind, OnOp, booting, life, Closed
<1>6. CASE DropSpace \/ DropStops \/ DropLock \/ DropStore
    BY <1>6 DEF DropSpace, DropStops, DropLock, DropStore, life, booting, Closed
<1>7. CASE Cancel
    BY <1>7 DEF Cancel, Closed
<1>8. CASE CloseStore
    BY <1>8 DEF CloseStore, Waited, FreeOps, booting, sup, Closed
<1> QED BY <1>1, <1>2, <1>3, <1>4, <1>5, <1>6, <1>7, <1>8 DEF Next, Bootstrap, Dispatch

(* Whether the last change of each space to come agrees with the list.      *)
Agrees ==
    \A i \in 1..Len(deltas) : (\A j \in 1..Len(deltas) : j > i => deltas[j].sp # deltas[i].sp)
        => (deltas[i].add <=> deltas[i].sp \in listed)

(* An unlisted space with nothing to come.                                  *)
Settled == {s \in Spaces \ listed : ~Underway(s)}

Quiet(s) == Idle(s) /\ (boot = "hand" => s \notin listing \ bootDropped)

LEMMA FollowingIs == Following <=> (subscribed => Agrees /\ \A s \in Settled : Quiet(s))
BY DEF Following, Agrees, Settled, Quiet

(* Once its head is taken, the changes to come still agree with the list,   *)
(* and the only space this can settle is the head's, by a removal.          *)
LEMMA TailAgrees ==
    ASSUME Typed, Agrees, deltas # <<>>, deltas' = Tail(deltas), listed' = listed
    PROVE  Agrees' /\ \A s \in Settled' : s \in Settled \/ (s = Hd /\ ~Head(deltas).add)
<1>1. /\ Len(deltas) \in Nat /\ Len(deltas') = Len(deltas) - 1 /\ 1 \in 1..Len(deltas)
      /\ \A i \in 1..Len(deltas) - 1 : deltas'[i] = deltas[i + 1]
      /\ Head(deltas) = deltas[1] /\ Hd = deltas[1].sp
    BY DeltaFacts DEF Hd
<1>2. Agrees'
    <2> SUFFICES ASSUME NEW i \in 1..Len(deltas'), \A j \in 1..Len(deltas') : j > i => deltas'[j].sp # deltas'[i].sp
                 PROVE  deltas'[i].add <=> deltas'[i].sp \in listed
        BY DEF Agrees
    <2>1. i + 1 \in 1..Len(deltas) /\ deltas'[i] = deltas[i + 1]
        BY <1>1
    <2>2. ASSUME NEW j \in 1..Len(deltas), j > i + 1 PROVE deltas[j].sp # deltas[i + 1].sp
        <3>1. j - 1 \in 1..Len(deltas') /\ j - 1 > i /\ (j - 1) + 1 = j
            BY <1>1, <2>2
        <3>2. deltas'[j - 1] = deltas[j]
            BY <1>1, <3>1
        <3> QED BY <2>1, <3>1, <3>2
    <2> QED BY <2>1, <2>2 DEF Agrees
<1>3. ASSUME NEW s \in Settled', s \notin Settled PROVE s = Hd /\ ~Head(deltas).add
    <2>1. s \in Spaces \ listed /\ ~Underway(s)' /\ Underway(s)
        BY <1>3 DEF Settled
    <2>2. PICK i \in 1..Len(deltas) : deltas[i].sp = s
        BY <2>1 DEF Underway
    <2>3. ASSUME NEW j \in 1..Len(deltas), j > 1 PROVE deltas[j].sp # s
        <3>1. j - 1 \in 1..Len(deltas') /\ (j - 1) + 1 = j
            BY <1>1, <2>3
        <3>2. deltas'[j - 1] = deltas[j]
            BY <1>1, <3>1
        <3> QED BY <2>1, <3>1, <3>2 DEF Underway
    <2>4. i = 1
        BY <1>1, <2>2, <2>3
    <2>5. deltas[1].add <=> deltas[1].sp \in listed
        BY <1>1, <2>2, <2>3, <2>4 DEF Agrees
    <2> QED BY <1>1, <2>1, <2>2, <2>4, <2>5
<1> QED BY <1>2, <1>3

LEMMA FollowingKept ==
    ASSUME IInv, [Next]_vars
    PROVE  Following'
<1> USE DEF IInv
<1>0. subscribed => Agrees /\ \A s \in Settled : Quiet(s)
    BY FollowingIs
<1>a. SUFFICES ASSUME subscribed' PROVE Agrees' /\ \A s \in Settled' : Quiet(s)'
    BY DEF Following, Agrees, Settled, Quiet
<1>1. CASE UNCHANGED <<deltas, listed>> /\ subscribed /\ \A s \in Settled : Quiet(s)'
    <2>1. Settled' = Settled
        BY <1>1 DEF Settled, Underway
    <2> QED BY <1>0, <1>1, <2>1 DEF Agrees
<1>2. CASE UNCHANGED vars
    <2>1. UNCHANGED <<deltas, listed, subscribed, boot, listing, bootDropped, workers, opening, retries>>
        BY <1>2 DEF vars, sdk, booting, sup
    <2> QED BY <1>0, <1>1, <1>a, <2>1 DEF Quiet, Idle, Settled
<1>3. CASE Subscribe
    <2>1. deltas = <<>> /\ deltas' = <<>> /\ boot' = "list" /\ \A s \in Spaces : Idle(s)'
        BY <1>a, <1>3 DEF Subscribe, Windowed, sup, Idle
    <2> QED BY <2>1 DEF Agrees, Settled, Quiet
<1>4. CASE ListSpaces \/ ListFails \/ Closing \/ CloseStore
    <2>1. UNCHANGED <<deltas, listed, subscribed, workers, opening, retries>>
        BY <1>a, <1>4 DEF ListSpaces, ListFails, Closing, CloseStore, sdk, sup
    <2>2. boot' # "hand" \/ listing' = listed \/ UNCHANGED <<boot, listing, bootDropped>>
        BY <1>4 DEF ListSpaces, ListFails, Closing, CloseStore, booting
    <2>3. subscribed /\ \A s \in Settled : Quiet(s)'
        BY <1>0, <1>a, <2>1, <2>2 DEF Quiet, Idle, Settled
    <2> QED BY <1>1, <2>1, <2>3
<1>5. CASE \E s \in Spaces : ListChanges(s)
    <2>1. PICK s \in Spaces : ListChanges(s)
        BY <1>5
    <2>2. subscribed /\ UNCHANGED <<workers, opening, retries, boot, listing, bootDropped>>
        BY <1>a, <2>1 DEF ListChanges, sup, booting
    <2> DEFINE d == [sp |-> s, add |-> s \notin listed]
    <2>3. d \in [sp : Spaces, add : BOOLEAN] /\ d.sp = s /\ (d.add <=> s \notin listed)
        OBVIOUS
    <2>4. deltas' = Append(deltas, d) /\ (s \in listed' <=> s \notin listed)
          /\ \A r \in Spaces \ {s} : r \in listed' <=> r \in listed
        BY <2>1, <2>2 DEF ListChanges
    <2> HIDE DEF d
    <2>5. /\ Len(deltas) \in Nat /\ Len(deltas') = Len(deltas) + 1 /\ deltas'[Len(deltas) + 1] = d
          /\ \A i \in 1..Len(deltas) : deltas'[i] = deltas[i] /\ deltas[i].sp \in Spaces
        BY <2>3, <2>4, AppendFacts, DeltaFacts
    <2>6. Agrees'
        <3> SUFFICES ASSUME NEW i \in 1..Len(deltas'), \A j \in 1..Len(deltas') : j > i => deltas'[j].sp # deltas'[i].sp
                     PROVE  deltas'[i].add <=> deltas'[i].sp \in listed'
            BY DEF Agrees
        <3>1. CASE i = Len(deltas) + 1
            BY <2>3, <2>4, <2>5, <3>1
        <3>2. CASE i # Len(deltas) + 1
            <4>1. /\ i \in 1..Len(deltas) /\ 1..Len(deltas) \subseteq 1..Len(deltas')
                  /\ Len(deltas) + 1 \in 1..Len(deltas') /\ Len(deltas) + 1 > i
                BY <2>5, <3>2
            <4>2. deltas[i].sp # s /\ deltas'[i] = deltas[i] /\ deltas[i].sp \in Spaces
                BY <2>3, <2>5, <4>1
            <4>3. \A j \in 1..Len(deltas) : j > i => deltas[j].sp # deltas[i].sp
                BY <2>5, <4>1
            <4>4. deltas[i].add <=> deltas[i].sp \in listed
                BY <1>0, <2>2, <4>1, <4>3 DEF Agrees
            <4> QED BY <2>4, <4>2, <4>4
        <3> QED BY <3>1, <3>2
    <2>7. ASSUME NEW r \in Settled' PROVE r \in Settled
        <3>1. r \in Spaces /\ r \notin listed' /\ ~Underway(r)'
            BY DEF Settled
        <3>2. r # s
            <4>1. Len(deltas) + 1 \in 1..Len(deltas') /\ deltas'[Len(deltas) + 1].sp = s
                BY <2>3, <2>5
            <4> QED BY <3>1, <4>1 DEF Underway
        <3>3. ~Underway(r)
            <4>1. \A i \in 1..Len(deltas) : i \in 1..Len(deltas') /\ deltas'[i] = deltas[i]
                BY <2>5
            <4> QED BY <3>1, <4>1 DEF Underway
        <3> QED BY <2>4, <3>1, <3>2, <3>3 DEF Settled
    <2> QED BY <1>0, <2>2, <2>6, <2>7 DEF Quiet, Idle
<1>6. CASE HandOver \/ SpaceAdded \/ \E s \in Spaces : Retry(s)
    <2>1. PICK T \in SUBSET Spaces : Spawns(T) /\ \A s \in T : SpawnStep(s)
        BY <1>6, SpawnSteps
    <2>2. subscribed /\ listed' = listed
        BY <1>a, <1>6 DEF HandOver, SpaceAdded, Retry, sdk
    <2>3. ASSUME NEW s \in Spaces \ T, Idle(s) PROVE Idle(s)'
        BY <2>1, <2>3 DEF Spawns, Idle
    <2>4. boot' # "hand" \/ UNCHANGED <<boot, listing, bootDropped>>
        BY <1>6 DEF HandOver, SpaceAdded, Retry, booting
    <2>5. ASSUME NEW s \in Settled, s \notin T PROVE Quiet(s)'
        BY <1>0, <2>2, <2>3, <2>4, <2>5 DEF Quiet, Settled
    <2>6. CASE SpaceAdded
        <3>1. deltas # <<>> /\ deltas' = Tail(deltas) /\ Head(deltas).add
            BY <2>6 DEF SpaceAdded
        <3>2. Agrees' /\ \A s \in Settled' : s \in Settled
            BY <1>0, <2>2, <3>1, TailAgrees
        <3>3. ASSUME NEW s \in Settled', s \in T PROVE FALSE
            <4>1. SpawnStep(s)
                BY <2>1, <3>3
            <4>2. CASE Retry(s)
                BY <1>0, <2>2, <3>2, <4>2 DEF Retry, Quiet, Idle
            <4>3. CASE HandOver
                BY <1>0, <2>6, <3>1, <4>3 DEF HandOver, SpaceAdded, Quiet, Idle, SpawnStep
            <4>4. CASE s = Hd
                <5>1. Hd = deltas[1].sp /\ 1 \in 1..Len(deltas)
                    BY <3>1, DeltaFacts DEF Hd
                <5> QED BY <3>2, <4>4, <5>1 DEF Settled, Underway
            <4> QED BY <4>1, <4>2, <4>3, <4>4 DEF SpawnStep
        <3> QED BY <2>5, <3>2, <3>3
    <2>7. CASE ~SpaceAdded
        <3>1. deltas' = deltas
            BY <1>6, <2>7 DEF HandOver, Retry
        <3>2. ASSUME NEW s \in Settled, s \in T PROVE FALSE
            <4>1. Quiet(s) /\ SpawnStep(s)
                BY <1>0, <2>1, <2>2, <3>2
            <4> QED BY <2>7, <4>1 DEF SpawnStep, Retry, HandOver, Quiet, Idle
        <3> QED BY <1>1, <2>2, <2>5, <3>1, <3>2
    <2> QED BY <2>6, <2>7
<1>7. CASE \E o \in Ops : OpSteps(o) \/ Work(o)
    <2>1. PICK o \in Ops, t \in Spaces : OpKind(o, t)
        BY <1>7, OpKinds
    <2>2. UNCHANGED <<deltas, listed, subscribed, boot, listing, bootDropped>>
        BY <2>1 DEF OpKind, OnOp, sdk, booting
    <2>3. \A s \in Spaces : Idle(s) => Idle(s)'
        BY <2>1, IdleKept
    <2> QED BY <1>0, <1>1, <1>a, <2>2, <2>3 DEF Quiet, Settled
<1>8. CASE DropSpace \/ DropStops \/ DropLock \/ Cancel
    <2>1. UNCHANGED <<deltas, listed, subscribed, boot, listing>> /\ bootDropped \subseteq bootDropped'
        BY <1>8 DEF DropSpace, DropStops, DropLock, Cancel, sdk, booting
    <2>2. \A s \in Spaces : Idle(s) => Idle(s)'
        BY <1>8 DEF DropSpace, DropStops, DropLock, Cancel, sup, Idle, Typed
    <2> QED BY <1>0, <1>1, <1>a, <2>1, <2>2 DEF Quiet, Settled
<1>9. CASE DropStore
    <2>1. /\ deltas # <<>> /\ deltas' = Tail(deltas) /\ subscribed /\ listed' = listed
          /\ UNCHANGED <<workers, opening, retries, boot, listing, bootDropped>>
        BY <1>a, <1>9 DEF DropStore, Dropping, sdk, sup, booting
    <2>2. Agrees' /\ \A s \in Settled' : s \in Settled \/ s = Hd
        BY <1>0, <2>1, TailAgrees
    <2>3. Quiet(Hd)
        BY <1>9 DEF DropStore, Dropping, Quiet
    <2> QED BY <1>0, <2>1, <2>2, <2>3 DEF Quiet, Idle
<1> QED BY <1>2, <1>3, <1>4, <1>5, <1>6, <1>7, <1>8, <1>9 DEF Next, Bootstrap, Dispatch

-----------------------------------------------------------------------------
LEMMA Start == Init => IInv
<1> SUFFICES ASSUME Init PROVE IInv
    OBVIOUS
<1>1. Free \in [at : Stages, sp : SUBSET Spaces, w : BOOLEAN] /\ Free.at = "free"
    BY DEF Free, Stages
<1>2. \A o \in Ops : ops[o].at = "free" /\ ops[o] = Free
    BY <1>1 DEF Init
<1>3. Typed
    <2>1. deltas \in Seq([sp : Spaces, add : BOOLEAN])
        BY DEF Init
    <2>2. ops \in [Ops -> [at : Stages, sp : SUBSET Spaces, w : BOOLEAN]]
        BY <1>1 DEF Init
    <2> QED BY <1>2, <2>1, <2>2 DEF Init, Typed
<1>4. Registered /\ GoneQuiet /\ Dropping /\ Windowed /\ Following
    BY DEF Init, Registered, GoneQuiet, Dropping, Windowed, Following, Idle
<1>5. Running /\ Locked /\ Closed
    BY <1>2 DEF Init, Running, Locked, Closed
<1> QED BY <1>3, <1>4, <1>5 DEF IInv

LEMMA Kept == IInv /\ [Next]_vars => IInv'
<1> SUFFICES ASSUME IInv, [Next]_vars PROVE IInv'
    OBVIOUS
<1>1. Kind
    BY Kinds
<1> QED
    BY <1>1, TypedKept, RegisteredKept, RunningKept, LockedKept, GoneQuietKept, DroppingKept,
       WindowedKept, FollowingKept, ClosedKept DEF IInv

LEMMA Implied == IInv => WorkersSound
<1> SUFFICES ASSUME IInv PROVE WorkersSound
    OBVIOUS
<1> USE DEF IInv
<1>1. TypeOK
    <2>1. \A o \in Ops : ops[o].at \in Stages
        BY DEF Typed
    <2>2. ASSUME NEW s \in Spaces, workers[s] # 0, ~ctxDone PROVE ops[workers[s]].w /\ ops[workers[s]].sp = {s}
        BY <2>2 DEF Registered
    <2> QED BY <2>1, <2>2 DEF TypeOK, Typed, Stages
<1>2. OneWorker
    <2> SUFFICES ASSUME NEW s \in Spaces
                 PROVE  /\ Cardinality({o \in Ops : ops[o].at = "run" /\ ops[o].sp = {s}}) <= 1
                        /\ workers[s] # 0 /\ ~ctxDone => ops[workers[s]].at = "run" /\ opening[s] = 0
        BY DEF OneWorker
    <2> DEFINE R == {o \in Ops : ops[o].at = "run" /\ ops[o].sp = {s}}
    <2>1. \A o, p \in R : o = p
        BY DEF Running
    <2>2. CASE R = {}
        <3>1. Cardinality(R) = 0
            <4> HIDE DEF R
            <4> QED BY <2>2, FS_EmptySet
        <3> QED BY <3>1 DEF Registered
    <2>3. CASE R # {}
        <3>1. PICK o \in R : TRUE
            BY <2>3
        <3>2. R = {o}
            BY <2>1, <3>1
        <3>3. Cardinality(R) = 1
            <4> HIDE DEF R
            <4> QED BY <3>2, FS_Singleton
        <3> QED BY <3>3 DEF Registered
    <2> QED BY <2>2, <2>3
<1>3. DropSticks
    BY DEF DropSticks, GoneQuiet, Typed
<1>4. OnlyListed
    <2>1. ASSUME subscribed, deltas = <<>>, NEW s \in Spaces \ listed PROVE Idle(s)
        BY <2>1 DEF Following, Underway
    <2> QED BY <2>1 DEF OnlyListed, Idle
<1>5. StoreUnused
    BY DEF StoreUnused, Closed, FreeOps
<1> QED BY <1>1, <1>2, <1>3, <1>4, <1>5 DEF WorkersSound

LEMMA Inductive == Spec => []IInv
BY Start, Kept, PTL DEF Spec

(* A space has one running worker and no open beside it, a dropped one has  *)
(* no data in the index store until it is spawned again, an unlisted one is *)
(* brought back by no open, retry or stale boot list (indexer.go:399, 520), *)
(* and Close closes the store after its last user (indexer.go:498).         *)
THEOREM OneWorkerPerSpace == Spec => []WorkersSound
BY Inductive, Implied, PTL

-----------------------------------------------------------------------------
(* One space's index: SpaceIndex.                                          *)

(* The greatest of some numbers below a bound.                              *)
LEMMA MaxOfNats ==
    ASSUME NEW S, S \subseteq Nat, S # {}, NEW b \in Nat, \A x \in S : x <= b
    PROVE  Max(S) \in S /\ \A x \in S : x <= Max(S)
<1> DEFINE T == {n \in Nat : \A x \in S : x <= n}
<1>1. PICK m \in T : \A n \in T : ~(<<n, m>> \in OpToRel(<, Nat))
    <2>1. b \in T /\ T \subseteq Nat
        OBVIOUS
    <2> QED BY <2>1, NatLessThanWellFounded, WFMin
<1>2. \A n \in T : m <= n
    <2> SUFFICES ASSUME NEW n \in T, n < m PROVE FALSE
        OBVIOUS
    <2> QED BY <1>1 DEF OpToRel
<1>3. m \in S
    <2> SUFFICES ASSUME m \notin S PROVE FALSE
        OBVIOUS
    <2>1. PICK z \in S : TRUE
        OBVIOUS
    <2>2. \A x \in S : x \in Nat /\ x <= m /\ x # m
        OBVIOUS
    <2>3. m - 1 \in Nat /\ \A x \in S : x <= m - 1
        <3>1. z \in Nat /\ z <= m /\ z # m
            BY <2>2
        <3> QED BY <2>2, <3>1
    <2>4. m - 1 \in T
        BY <2>3
    <2> QED BY <1>2, <2>4
<1>4. \E x \in S : \A y \in S : x >= y
    BY <1>3
<1> HIDE DEF T
<1> QED BY <1>4 DEF Max

(* What the types of the SDK store, the row and the docs give.              *)
LEMMA SourceFacts ==
    ASSUME NEW s \in SourceStores
    PROVE  /\ s \in [gen : 1..2, ver : [Objects -> Versions], seq : [Objects -> Nat], max : Nat]
           /\ s.gen \in 1..2 /\ s.max \in Nat
           /\ \A o \in Objects : /\ s.ver[o] \in Versions /\ s.seq[o] \in Nat
                                 /\ s.seq[o] <= s.max /\ (s.seq[o] = 0 => s.ver[o] = 0)
BY DEF SourceStores

LEMMA EmptyIsStore == Empty \in SourceStores
BY IndexAssumption DEF SourceStores, Empty, Versions

LEMMA NoDocIsDoc == NoDoc \in Docs
<1>1. 0 \in Versions /\ FALSE \in BOOLEAN
    BY IndexAssumption DEF Versions
<1> QED BY <1>1 DEF NoDoc, Docs

LEMMA NoPageTexts == Texts(NoPage) /\ DOMAIN NoPage = {}
BY DEF Texts, NoPage

LEMMA IndexTypesInit == IndexInit => IndexTypeOK
<1> SUFFICES ASSUME IndexInit PROVE IndexTypeOK
    OBVIOUS
<1>1. source \in SourceStores /\ backup \in SourceStores /\ Texts(page) /\ Texts(batch)
    BY EmptyIsStore, NoPageTexts DEF IndexInit
<1>2. docs \in [Objects -> Docs]
    BY NoDocIsDoc DEF IndexInit
<1>3. row \in Rows
    BY DEF IndexInit, NoRow, Rows
<1>4. changes \in Versions /\ boots \in 0..MaxBoots
      /\ pc = "down" /\ wgen \in 0..2 /\ cur \in Nat /\ last \in Nat
    BY IndexAssumption DEF IndexInit, Versions
<1>5. /\ restored \in BOOLEAN /\ emb \in BOOLEAN /\ dirty \in BOOLEAN /\ torn \in BOOLEAN
      /\ aligned \in BOOLEAN
    BY DEF IndexInit
<1> QED BY <1>1, <1>2, <1>3, <1>4, <1>5 DEF IndexTypeOK

(* Of some objects, one that no other precedes on the axis.                 *)
LEMMA Earliest ==
    ASSUME IndexTypeOK, NEW T \in SUBSET Objects, T # {}
    PROVE  \E o \in T : \A p \in T : source.seq[o] <= source.seq[p]
<1>1. \A o \in Objects : source.seq[o] \in Nat
    BY SourceFacts DEF IndexTypeOK
<1> DEFINE N == {source.seq[o] : o \in T}
<1>2. N \subseteq Nat /\ N # {}
    BY <1>1
<1> HIDE DEF N
<1>3. PICK n \in N : \A m \in N : ~(<<m, n>> \in OpToRel(<, Nat))
    BY <1>2, NatLessThanWellFounded, WFMin
<1>4. \A m \in N : n <= m
    <2> SUFFICES ASSUME NEW m \in N, m < n PROVE FALSE
        BY <1>2
    <2> QED BY <1>2, <1>3 DEF OpToRel
<1> QED BY <1>3, <1>4 DEF N

(* ChangedSince: the page lies past the cursor, everything between the      *)
(* cursor and its last seq is on it, and one that is not full is the last.  *)
LEMMA FirstPageFacts ==
    ASSUME IndexTypeOK, Changed # {}, NEW n, n = Max({source.seq[o] : o \in FirstPage})
    PROVE  /\ FirstPage \subseteq Changed
           /\ n \in Nat /\ cur < n /\ n <= source.max
           /\ \A o \in Changed : source.seq[o] <= n => o \in FirstPage
           /\ Cardinality(FirstPage) < Batch => \A o \in Objects : source.seq[o] <= n
<1> USE IndexAssumption
<1> DEFINE Before(o) == {p \in Changed : source.seq[p] < source.seq[o]}
           N == {source.seq[o] : o \in FirstPage}
<1>1. cur \in Nat /\ source.max \in Nat
      /\ \A o \in Objects : source.seq[o] \in Nat /\ source.seq[o] <= source.max
    BY SourceFacts DEF IndexTypeOK
<1>2. Changed \subseteq Objects /\ IsFiniteSet(Changed)
    BY FS_Subset DEF Changed
<1>3. FirstPage = {o \in Changed : Cardinality(Before(o)) < Batch}
    BY DEF FirstPage
<1>4. \A S : S \subseteq Changed => IsFiniteSet(S) /\ Cardinality(S) \in Nat
    BY <1>2, FS_Subset, FS_CardinalityType
<1>5. FirstPage # {}
    <2>1. PICK o \in Changed : \A p \in Changed : source.seq[o] <= source.seq[p]
        BY <1>2, Earliest
    <2>2. Before(o) = {}
        BY <2>1, <1>1, <1>2
    <2> QED BY <2>2, <1>3, FS_EmptySet
<1>6. n \in N /\ \A m \in N : m <= n
    <2>1. N \subseteq Nat /\ N # {} /\ \A m \in N : m <= source.max
        BY <1>1, <1>2, <1>3, <1>5
    <2> QED BY <2>1, <1>1, MaxOfNats
<1>7. PICK q \in FirstPage : n = source.seq[q]
    BY <1>6
<1>8. n \in Nat /\ cur < n /\ n <= source.max
    BY <1>1, <1>3, <1>7 DEF Changed
<1>9. ASSUME NEW o \in Changed, source.seq[o] <= n PROVE o \in FirstPage
    <2>1. Before(o) \subseteq Before(q)
        <3> SUFFICES ASSUME NEW p \in Changed, source.seq[p] < source.seq[o]
                     PROVE  source.seq[p] < source.seq[q]
            OBVIOUS
        <3>1. source.seq[p] \in Nat /\ source.seq[o] \in Nat /\ source.seq[q] \in Nat
            BY <1>1, <1>2, <1>3
        <3> QED BY <3>1, <1>7, <1>9
    <2>2. Cardinality(Before(o)) <= Cardinality(Before(q)) /\ Cardinality(Before(q)) < Batch
        BY <2>1, <1>3, <1>4, <1>7, FS_Subset
    <2>3. Cardinality(Before(o)) \in Nat /\ Cardinality(Before(q)) \in Nat
        BY <1>4
    <2> QED BY <2>2, <2>3, <1>3
<1>10. ASSUME Cardinality(FirstPage) < Batch, NEW o \in Objects PROVE source.seq[o] <= n
    <2>1. Changed = FirstPage
        <3> SUFFICES ASSUME Changed \ FirstPage # {} PROVE FALSE
            BY <1>3
        <3>1. PICK z \in Changed \ FirstPage :
                \A p \in Changed \ FirstPage : source.seq[z] <= source.seq[p]
            BY <1>2, Earliest
        <3>2. Before(z) \subseteq FirstPage
            BY <3>1, <1>1, <1>2
        <3>3. Cardinality(Before(z)) <= Cardinality(FirstPage)
            BY <3>2, <1>3, <1>4, FS_Subset
        <3>4. Cardinality(Before(z)) \in Nat /\ Cardinality(FirstPage) \in Nat
            BY <1>3, <1>4
        <3> QED BY <3>1, <3>3, <3>4, <1>3, <1>10
    <2>2. CASE o \in Changed
        BY <2>1, <2>2, <1>6
    <2>3. CASE o \notin Changed
        BY <2>3, <1>1, <1>8 DEF Changed
    <2> QED BY <2>2, <2>3
<1> QED BY <1>3, <1>8, <1>9, <1>10

LEMMA RowFacts ==
    ASSUME NEW r \in Rows
    PROVE  /\ r \in [seq : Nat, gen : 0..2, embed : Nat]
           /\ r.seq \in Nat /\ r.gen \in 0..2 /\ r.embed \in Nat /\ r.embed <= r.seq
BY DEF Rows

LEMMA RowEdits ==
    ASSUME NEW r \in Rows, NEW g \in 0..2, NEW n \in Nat
    PROVE  /\ [r EXCEPT !.gen = g] \in Rows
           /\ n <= r.seq => [r EXCEPT !.embed = n] \in Rows
           /\ r.embed <= n => [r EXCEPT !.seq = n, !.gen = g] \in Rows
BY DEF Rows

LEMMA MergedFacts ==
    ASSUME IndexTypeOK, NEW n \in Nat
    PROVE  /\ Merged(n) = [seq |-> n, gen |-> IF wgen # 0 THEN wgen ELSE row.gen, embed |-> row.embed]
           /\ (IF wgen # 0 THEN wgen ELSE row.gen) \in 0..2
<1>1. row \in Rows /\ wgen \in 0..2
    BY DEF IndexTypeOK
<1>2. row \in [seq : Nat, gen : 0..2, embed : Nat]
    BY <1>1, RowFacts
<1>3. PICK g \in 0..2 : g = IF wgen # 0 THEN wgen ELSE row.gen
    BY <1>1, <1>2
<1>4. Merged(n) = [row EXCEPT !.seq = n, !.gen = g]
    BY <1>3 DEF Merged
<1> QED BY <1>2, <1>3, <1>4

LEMMA CursorRowFacts ==
    ASSUME IndexTypeOK, NEW n \in Nat, row.seq <= n
    PROVE  /\ CursorRow(n) \in Rows
           /\ CursorRow(n).seq = n
           /\ CursorRow(n).gen = IF wgen # 0 THEN wgen ELSE row.gen
           /\ CursorRow(n).embed = IF emb /\ row.embed = row.seq THEN n ELSE row.embed
<1>1. row.embed <= row.seq /\ row.embed \in Nat /\ row.seq \in Nat
    BY RowFacts DEF IndexTypeOK
<1>2. PICK g \in 0..2 : g = IF wgen # 0 THEN wgen ELSE row.gen
    BY MergedFacts
<1>3. PICK e \in Nat : e = (IF emb /\ row.embed = row.seq THEN n ELSE row.embed) /\ e <= n
    BY <1>1
<1>4. Merged(n) = [seq |-> n, gen |-> g, embed |-> row.embed]
    BY <1>2, MergedFacts
<1>5. CursorRow(n) = [seq |-> n, gen |-> g, embed |-> e]
    BY <1>3, <1>4 DEF CursorRow
<1> QED BY <1>2, <1>3, <1>5 DEF Rows

(* A doc of the page has its text after it, whichever way it was written.   *)
LEMMA LandedFacts ==
    ASSUME IndexTypeOK, NEW o \in DOMAIN page, NEW blind \in BOOLEAN
    PROVE  /\ o \in Objects
           /\ Landed(o, blind) \in Docs
           /\ Landed(o, blind).ver = page[o]
<1>1. o \in Objects /\ page[o] \in Versions /\ 0 \in Versions /\ emb \in BOOLEAN
    BY IndexAssumption DEF IndexTypeOK, Texts, Versions
<1>2. docs[o] \in Docs
    BY <1>1 DEF IndexTypeOK
<1>3. NoDoc \in Docs /\ NoDoc.ver = 0
    BY NoDocIsDoc DEF NoDoc
<1>4. [ver |-> page[o], vec |-> 0, pend |-> emb] \in Docs
    BY <1>1 DEF Docs
<1> QED BY <1>1, <1>2, <1>3, <1>4 DEF Landed

(* Neither the sweep nor the vectors touch a text.                          *)
LEMMA MarkFacts ==
    ASSUME IndexTypeOK, NEW S, Mark(S)
    PROVE  /\ docs' \in [Objects -> Docs]
           /\ \A o \in Objects : /\ docs'[o].ver = docs[o].ver /\ docs'[o].vec = docs[o].vec
                                 /\ docs'[o].pend <=> docs[o].pend \/ o \in S
<1>1. TRUE \in BOOLEAN
    OBVIOUS
<1>2. \A o \in Objects : docs[o] \in Docs
    BY DEF IndexTypeOK
<1>3. \A d \in Docs : /\ [d EXCEPT !.pend = TRUE] \in Docs
                      /\ [d EXCEPT !.pend = TRUE].ver = d.ver /\ [d EXCEPT !.pend = TRUE].vec = d.vec
                      /\ [d EXCEPT !.pend = TRUE].pend = TRUE
    BY <1>1 DEF Docs
<1> QED BY <1>2, <1>3 DEF Mark

LEMMA VectorFacts ==
    ASSUME IndexTypeOK, SetVectors
    PROVE  /\ docs' \in [Objects -> Docs]
           /\ \A o \in Objects : /\ docs'[o].ver = docs[o].ver
                                 /\ docs'[o] = docs[o] \/ /\ o \in DOMAIN batch /\ docs[o].ver > 0
                                                          /\ docs'[o].vec = batch[o] /\ ~docs'[o].pend
<1>1. FALSE \in BOOLEAN /\ \A o \in DOMAIN batch : batch[o] \in Versions
    BY DEF IndexTypeOK, Texts
<1>2. \A o \in Objects : docs[o] \in Docs
    BY DEF IndexTypeOK
<1>3. PICK S \in SUBSET DOMAIN batch :
        docs' = [o \in Objects |->
                   IF o \in S /\ docs[o].ver > 0
                   THEN [docs[o] EXCEPT !.vec = batch[o], !.pend = FALSE] ELSE docs[o]]
    BY DEF SetVectors
<1> DEFINE Embedded(d, v) == [d EXCEPT !.vec = v, !.pend = FALSE]
<1>4. \A d \in Docs, v \in Versions :
        /\ Embedded(d, v) \in Docs
        /\ Embedded(d, v).ver = d.ver /\ Embedded(d, v).vec = v /\ ~Embedded(d, v).pend
    BY <1>1 DEF Docs
<1>5. ASSUME NEW o \in Objects
      PROVE  /\ docs'[o] \in Docs /\ docs'[o].ver = docs[o].ver
             /\ docs'[o] = docs[o] \/ /\ o \in DOMAIN batch /\ docs[o].ver > 0
                                      /\ docs'[o].vec = batch[o] /\ ~docs'[o].pend
    <2>1. CASE o \in S /\ docs[o].ver > 0
        <3>1. docs'[o] = Embedded(docs[o], batch[o])
            BY <1>3, <2>1
        <3>2. docs[o] \in Docs /\ o \in DOMAIN batch /\ batch[o] \in Versions
            BY <1>1, <1>2, <1>3, <2>1
        <3> HIDE DEF Embedded
        <3> QED BY <1>4, <2>1, <3>1, <3>2
    <2>2. CASE ~(o \in S /\ docs[o].ver > 0)
        BY <1>2, <1>3, <2>2
    <2> QED BY <2>1, <2>2
<1> QED BY <1>3, <1>5

Flags == /\ restored \in BOOLEAN /\ emb \in BOOLEAN /\ dirty \in BOOLEAN
         /\ torn \in BOOLEAN /\ aligned \in BOOLEAN

Steps == {"down", "align", "dropdocs", "droprow", "reset", "sweep", "stamp",
          "read", "fetch", "collect", "apply", "advance", "idle"}

(* Types are kept, given where the cursor and the row stand (Base below).   *)
LEMMA IndexTypesStep ==
    ASSUME IndexTypeOK, IndexNext,
           pc = "advance" => row.seq <= last, pc = "reset" => row = NoRow
    PROVE  IndexTypeOK'
<1>0. /\ source \in SourceStores /\ backup \in SourceStores
      /\ changes \in Versions /\ boots \in 0..MaxBoots /\ Flags
      /\ docs \in [Objects -> Docs] /\ row \in Rows /\ pc \in Steps
      /\ wgen \in 0..2 /\ cur \in Nat /\ last \in Nat /\ Texts(page) /\ Texts(batch)
    BY DEF IndexTypeOK, Flags, Steps
<1>a. ASSUME source' \in SourceStores, backup' \in SourceStores,
             changes' \in Versions, boots' \in 0..MaxBoots, Flags',
             docs' \in [Objects -> Docs], row' \in Rows, pc' \in Steps,
             wgen' \in 0..2, cur' \in Nat, last' \in Nat, Texts(page'), Texts(batch')
      PROVE  IndexTypeOK'
    BY <1>a DEF IndexTypeOK, Flags, Steps
<1>b. TRUE \in BOOLEAN /\ FALSE \in BOOLEAN /\ "sweep" \in Steps /\ "read" \in Steps
      /\ AfterAlign \in Steps /\ MaxBoots \in Nat /\ source.gen \in 0..2
    BY <1>0, IndexAssumption, SourceFacts DEF AfterAlign, Steps
<1>1. ASSUME NEW o \in Objects, NEW v \in 0..MaxChanges, v \in {0, changes + 1}, Change(o, v)
      PROVE  IndexTypeOK'
    <2>1. source' \in SourceStores
        <3>1. PICK n \in Nat \ {0} : n = source.max + 1
            BY <1>0, SourceFacts
        <3>2. source.ver \in [Objects -> Versions] /\ source.seq \in [Objects -> Nat]
              /\ v \in Versions
            BY <1>0, SourceFacts DEF Versions
        <3>3. source' = [source EXCEPT !.ver = [source.ver EXCEPT ![o] = v],
                                       !.seq = [source.seq EXCEPT ![o] = n], !.max = n]
            BY <1>1, <3>1 DEF Change
        <3>4. /\ source' \in [gen : 1..2, ver : [Objects -> Versions], seq : [Objects -> Nat], max : Nat]
              /\ source'.ver = [source.ver EXCEPT ![o] = v]
              /\ source'.seq = [source.seq EXCEPT ![o] = n] /\ source'.max = n
            BY <1>0, <3>1, <3>2, <3>3, SourceFacts
        <3>5. \A p \in Objects : source'.seq[p] <= source'.max /\ (source'.seq[p] = 0 => source'.ver[p] = 0)
            BY <1>0, <3>1, <3>2, <3>4, SourceFacts
        <3> QED BY <3>4, <3>5 DEF SourceStores
    <2>2. changes' \in Versions
        BY <1>0, <1>1, IndexAssumption DEF Change, Versions
    <2>3. Flags'
        BY <1>0, <1>1 DEF Change, Flags
    <2> QED BY <1>a, <1>0, <1>1, <2>1, <2>2, <2>3 DEF Change, store
<1>2. CASE Backup
    BY <1>a, <1>0, <1>2 DEF Backup, store, Flags
<1>3. CASE Restore
    BY <1>a, <1>0, <1>b, <1>3 DEF Restore, store, Flags
<1>4. CASE Rebuild
    <2> DEFINE live == {o \in Objects : source.ver[o] > 0}
    <2>1. PICK s \in [Objects -> 0..Cardinality(live)] :
             /\ \A o \in Objects : s[o] = 0 <=> o \notin live
             /\ source' = [source EXCEPT !.gen = 2, !.seq = s, !.max = Cardinality(live)]
        BY <1>4 DEF Rebuild
    <2>2. PICK n \in Nat : n = Cardinality(live)
        BY FS_Subset, FS_CardinalityType, IndexAssumption
    <2>3. \A o \in Objects : s[o] \in 0..n /\ (s[o] = 0 => source.ver[o] = 0)
        BY <1>0, <2>1, <2>2, SourceFacts DEF Versions
    <2>4. s \in [Objects -> Nat]
        BY <2>1, <2>2
    <2>5. source' = [source EXCEPT !.gen = 2, !.seq = s, !.max = n]
        BY <2>1, <2>2
    <2> HIDE DEF live
    <2>6. /\ source' \in [gen : 1..2, ver : [Objects -> Versions], seq : [Objects -> Nat], max : Nat]
          /\ source'.ver = source.ver /\ source'.seq = s /\ source'.max = n
        <3>1. source \in [gen : 1..2, ver : [Objects -> Versions], seq : [Objects -> Nat], max : Nat]
            BY <1>0, SourceFacts
        <3>2. 2 \in 1..2
            OBVIOUS
        <3> QED BY <2>4, <2>5, <3>1, <3>2
    <2>7. source' \in SourceStores
        BY <2>3, <2>6 DEF SourceStores
    <2> QED BY <1>a, <1>0, <1>4, <2>7 DEF Rebuild, store, Flags
<1>5. ASSUME NEW e \in Embedders, Boot(e) PROVE IndexTypeOK'
    <2>1. Flags'
        BY <1>0, <1>5, IndexAssumption DEF Boot, Flags, feed
    <2>2. boots' \in 0..MaxBoots /\ pc' \in Steps /\ wgen' \in 0..2
        BY <1>0, <1>b, <1>5 DEF Boot, Steps
    <2> QED BY <1>a, <1>0, <1>5, <2>1, <2>2 DEF Boot, feed, store
<1>6. CASE Crash
    <2>1. Flags'
        BY <1>0, <1>6, <1>b DEF Crash, Flags, feed
    <2>2. Texts(page') /\ Texts(batch')
        BY <1>6, NoPageTexts DEF Crash
    <2>3. wgen' = 0 /\ cur' = 0 /\ last' = 0 /\ pc' = "down"
        BY <1>6 DEF Crash
    <2>4. wgen' \in 0..2 /\ cur' \in Nat /\ last' \in Nat /\ pc' \in Steps
        BY <2>3 DEF Steps
    <2> QED BY <1>a, <1>0, <1>6, <2>1, <2>2, <2>4 DEF Crash, feed, store
<1>7. CASE AlignIndex
    <2>1. Flags'
        BY <1>0, <1>7, <1>b DEF AlignIndex, Flags
    <2>2. row' \in Rows
        BY <1>0, <1>7, <1>b, RowEdits DEF AlignIndex
    <2>3. wgen' \in 0..2
        BY <1>0, <1>7, <1>b, RowFacts DEF AlignIndex
    <2>4. pc' \in Steps
        BY <1>7, <1>b DEF AlignIndex, Steps
    <2> QED BY <1>a, <1>0, <1>7, <2>1, <2>2, <2>3, <2>4 DEF AlignIndex
<1>8. CASE DropDocs
    <2>1. docs' \in [Objects -> Docs] /\ pc' \in Steps
        BY <1>8, <1>0, <1>b, NoDocIsDoc DEF DropDocs, Steps
    <2> QED BY <1>a, <1>0, <1>8, <2>1 DEF DropDocs, feed, Flags
<1>9. CASE DropRow
    <2>1. row' \in Rows /\ pc' \in Steps
        BY <1>9, <1>0, <1>b DEF DropRow, Steps, NoRow, Rows
    <2> QED BY <1>a, <1>0, <1>9, <2>1 DEF DropRow, feed, Flags
<1>10. CASE Reset
    <2>1. row' \in Rows
        <3>1. row = NoRow
            BY <1>10 DEF Reset
        <3>2. PICK g \in 0..2 : g = IF wgen # 0 THEN wgen ELSE row.gen
            BY MergedFacts
        <3>3. Merged(0) = [seq |-> 0, gen |-> g, embed |-> 0]
            BY <3>1, <3>2, MergedFacts DEF NoRow
        <3>4. Merged(0) \in Rows
            BY <3>3 DEF Rows
        <3> QED BY <1>0, <1>10, <3>4 DEF Reset
    <2>2. Flags' /\ pc' \in Steps
        BY <1>0, <1>b, <1>10 DEF Reset, Flags, feed
    <2> QED BY <1>a, <1>0, <1>10, <2>1, <2>2 DEF Reset, feed
<1>11. CASE Sweep
    <2>1. docs' \in [Objects -> Docs] /\ pc' \in Steps
        BY <1>11, MarkFacts DEF Sweep, Steps
    <2> QED BY <1>a, <1>0, <1>11, <2>1 DEF Sweep, feed, Flags
<1>12. CASE StampEmbed
    <2>1. row' \in Rows
        <3>1. row.seq \in Nat /\ row.seq <= row.seq /\ 0 \in 0..2
            BY <1>0, RowFacts
        <3>2. [row EXCEPT !.embed = row.seq] \in Rows
            BY <1>0, <3>1, RowEdits
        <3> QED BY <1>0, <1>12, <3>2 DEF StampEmbed
    <2> QED BY <1>a, <1>0, <1>b, <1>12, <2>1 DEF StampEmbed, feed, Flags
<1>13. CASE ReadCursor
    <2>1. cur' \in Nat /\ pc' \in Steps
        BY <1>0, <1>13, RowFacts DEF ReadCursor, Steps
    <2> QED BY <1>a, <1>0, <1>13, <2>1 DEF ReadCursor, feed, store, Flags
<1>14. CASE Fetch
    <2>1. CASE Changed = {}
        <3>1. pc' \in Steps
            BY <1>14, <2>1 DEF Fetch, Steps
        <3> QED BY <1>a, <1>0, <1>14, <2>1, <3>1 DEF Fetch, feed, store, Flags
    <2>2. CASE Changed # {}
        <3>1. page' = [o \in FirstPage |-> 0] /\ 0 \in Versions
            BY <1>14, <2>2, IndexAssumption DEF Fetch, Versions
        <3>2. FirstPage \subseteq Objects
            BY DEF FirstPage, Changed
        <3>3. Texts(page')
            BY <3>1, <3>2 DEF Texts
        <3>4. last' \in Nat
            BY <1>14, <2>2, FirstPageFacts DEF Fetch
        <3>5. pc' \in Steps
            BY <1>14, <2>2 DEF Fetch, Steps
        <3> QED BY <1>a, <1>0, <1>14, <2>2, <3>3, <3>4, <3>5 DEF Fetch, feed, store, Flags
    <2> QED BY <2>1, <2>2
<1>15. CASE Collect
    <2>1. Texts(page')
        BY <1>15, <1>0, SourceFacts DEF Collect, Texts
    <2>2. pc' \in Steps
        BY <1>15 DEF Collect, Steps
    <2> QED BY <1>a, <1>0, <1>15, <2>1, <2>2 DEF Collect, feed, store, Flags
<1>16. CASE ApplyPage
    <2>1. docs' \in [Objects -> Docs]
        BY <1>16, <1>0, LandedFacts DEF ApplyPage
    <2>2. Flags'
        BY <1>16, <1>0, <1>b DEF ApplyPage, Flags, feed
    <2>3. pc' \in Steps
        BY <1>16 DEF ApplyPage, Steps
    <2> QED BY <1>a, <1>0, <1>16, <2>1, <2>2, <2>3 DEF ApplyPage, feed
<1>17. CASE AdvanceCursor
    <2>1. row' \in Rows
        BY <1>17, <1>0, CursorRowFacts DEF AdvanceCursor
    <2>2. pc' \in Steps /\ cur' \in Nat
        BY <1>17, <1>0 DEF AdvanceCursor, Steps
    <2>3. Flags'
        BY <1>17, <1>0, <1>b DEF AdvanceCursor, Flags, feed
    <2>4. last' \in Nat /\ Texts(page')
        BY <1>17, NoPageTexts DEF AdvanceCursor
    <2> QED BY <1>a, <1>0, <1>17, <2>1, <2>2, <2>3, <2>4 DEF AdvanceCursor, feed
<1>18. CASE Wake
    BY <1>a, <1>0, <1>b, <1>18 DEF Wake, feed, store, Flags
<1>19. CASE EmbedRound
    <2>1. Texts(batch')
        <3>1. batch' = [o \in Pending |-> docs[o].ver] /\ Pending \subseteq Objects
            BY <1>19 DEF EmbedRound, Pending
        <3>2. \A o \in Objects : docs[o].ver \in Versions
            BY <1>0 DEF Docs
        <3> QED BY <3>1, <3>2 DEF Texts
    <2> QED BY <1>a, <1>0, <1>19, <2>1 DEF EmbedRound, feed, store, Flags
<1>20. CASE SetVectors
    <2>1. Texts(batch')
        BY <1>20, NoPageTexts DEF SetVectors
    <2> QED BY <1>a, <1>0, <1>20, <2>1, VectorFacts DEF SetVectors, feed, Flags
<1> QED BY <1>1, <1>2, <1>3, <1>4, <1>5, <1>6, <1>7, <1>8, <1>9, <1>10, <1>11, <1>12, <1>13, <1>14,
           <1>15, <1>16, <1>17, <1>18, <1>19, <1>20 DEF IndexNext, Advance

Paging == pc \in {"collect", "apply", "advance"}

(* The worker's own order: a page lands only while its loops run, a drop    *)
(* leaves nothing behind before it resets, and in an advance the cursor is  *)
(* the row's and the page lies past it.                                     *)
Base ==
    /\ torn => Started
    /\ pc \in {"droprow", "reset"} => \A o \in Objects : docs[o] = NoDoc
    /\ pc = "reset" => row = NoRow
    /\ pc \in {"fetch", "collect", "apply", "advance"} => cur = row.seq
    /\ Paging => cur < last

LEMMA BaseStep ==
    ASSUME IndexTypeOK, Base, IndexNext
    PROVE  IndexTypeOK' /\ Base'
<1>0. row \in Rows /\ cur \in Nat /\ last \in Nat /\ row.seq \in Nat
    BY RowFacts DEF IndexTypeOK
<1>1. (pc = "advance" => row.seq <= last) /\ (pc = "reset" => row = NoRow)
    BY <1>0 DEF Base, Paging
<1>2. IndexTypeOK'
    BY <1>1, IndexTypesStep
<1>a. ASSUME UNCHANGED <<pc, row, cur, last, torn>>,
             (\A o \in Objects : docs[o] = NoDoc) => \A o \in Objects : docs'[o] = NoDoc
      PROVE  Base'
    BY <1>a DEF Base, Paging, Started
<1>b. ASSUME UNCHANGED torn, ~torn,
             pc' \notin {"reset", "droprow", "fetch", "collect", "apply", "advance"}
      PROVE  Base'
    BY <1>b DEF Base, Paging
<1>c. ASSUME Started', pc' \in {"read", "idle"} PROVE Base'
    BY <1>c DEF Base, Paging
<1>d. ASSUME Started', pc' \in {"fetch", "collect", "apply", "advance"},
             cur' = row'.seq, pc' # "fetch" => cur' < last'
      PROVE  Base'
    BY <1>d DEF Base, Paging
<1>3. ASSUME NEW o \in Objects, NEW v \in 0..MaxChanges, Change(o, v) PROVE Base'
    BY <1>3, <1>a DEF Change, store
<1>4. ASSUME Backup \/ Restore \/ Rebuild PROVE Base'
    BY <1>4, <1>a DEF Backup, Restore, Rebuild, store
<1>5. ASSUME NEW e \in Embedders, Boot(e) PROVE Base'
    <2>1. UNCHANGED torn /\ ~torn /\ pc' = "align"
        BY <1>5 DEF Boot, Base, Started
    <2> QED BY <2>1, <1>b
<1>6. ASSUME Crash PROVE Base'
    BY <1>6 DEF Crash, Base, Paging
<1>7. ASSUME AlignIndex PROVE Base'
    <2>1. UNCHANGED torn /\ ~torn /\ pc' \in {"dropdocs", "sweep", "read"}
        BY <1>7 DEF AlignIndex, AfterAlign, Base, Started
    <2> QED BY <2>1, <1>b
<1>8. ASSUME DropDocs PROVE Base'
    <2>1. ~torn /\ torn' = torn
        BY <1>8 DEF DropDocs, Base, Started
    <2>2. CASE pc' = "droprow"
        <3>1. \A o \in Objects : docs'[o] = NoDoc
            BY <1>8, <2>2 DEF DropDocs, AfterAlign
        <3> QED BY <2>1, <2>2, <3>1 DEF Base, Paging
    <2>3. CASE pc' # "droprow"
        BY <1>8, <1>b, <2>1, <2>3 DEF DropDocs, AfterAlign
    <2> QED BY <2>2, <2>3
<1>9. ASSUME DropRow PROVE Base'
    <2>1. ~torn /\ torn' = torn
        BY <1>9 DEF DropRow, Base, Started
    <2>2. CASE pc' = "reset"
        <3>1. row' = NoRow /\ \A o \in Objects : docs'[o] = NoDoc
            BY <1>9, <2>2 DEF DropRow, AfterAlign, Base
        <3> QED BY <2>1, <2>2, <3>1 DEF Base, Paging
    <2>3. CASE pc' # "reset"
        BY <1>9, <1>b, <2>1, <2>3 DEF DropRow, AfterAlign
    <2> QED BY <2>2, <2>3
<1>10. ASSUME Reset \/ Wake PROVE Base'
    BY <1>10, <1>c DEF Reset, Wake, Started
<1>11. ASSUME Sweep \/ StampEmbed PROVE Base'
    <2>1. pc' \in {"stamp", "read"}
        BY <1>11 DEF Sweep, StampEmbed
    <2> QED BY <2>1 DEF Base, Paging, Started
<1>12. ASSUME ReadCursor PROVE Base'
    BY <1>12, <1>d DEF ReadCursor, Started, store
<1>13. ASSUME Fetch PROVE Base'
    <2>1. cur = row.seq /\ UNCHANGED <<cur, row>>
        BY <1>13 DEF Fetch, Base, store
    <2>2. CASE Changed = {}
        BY <1>13, <1>c, <2>2 DEF Fetch, Started
    <2>3. CASE Changed # {}
        <3>1. pc' = "collect" /\ cur < last'
            BY <1>13, <2>3, FirstPageFacts DEF Fetch
        <3> QED BY <1>d, <2>1, <3>1 DEF Started
    <2> QED BY <2>2, <2>3
<1>14. ASSUME Collect PROVE Base'
    <2>1. cur = row.seq /\ cur < last /\ UNCHANGED <<cur, row, last>> /\ pc' = "apply"
        BY <1>14 DEF Collect, Base, Paging, store
    <2> QED BY <1>d, <2>1 DEF Started
<1>15. ASSUME ApplyPage PROVE Base'
    <2>1. /\ cur = row.seq /\ cur < last /\ UNCHANGED <<cur, row, last>>
          /\ pc' \in {"advance", "read"}
        BY <1>15 DEF ApplyPage, Base, Paging
    <2> QED BY <1>c, <1>d, <2>1 DEF Started
<1>16. ASSUME AdvanceCursor PROVE Base'
    <2>1. pc' # "read" => row' = CursorRow(last) /\ cur' = last /\ pc' \in {"idle", "fetch"}
        BY <1>16 DEF AdvanceCursor
    <2>2. pc' # "read" => cur' = row'.seq
        BY <1>0, <1>1, <1>16, <2>1, CursorRowFacts DEF AdvanceCursor
    <2> QED BY <1>c, <1>d, <2>1, <2>2 DEF Started
<1>17. ASSUME EmbedRound PROVE Base'
    BY <1>17, <1>a DEF EmbedRound, store
<1>18. ASSUME SetVectors PROVE Base'
    <2>1. (\A o \in Objects : docs[o] = NoDoc) => \A o \in Objects : docs'[o] = NoDoc
        BY <1>18, VectorFacts DEF NoDoc
    <2> QED BY <1>18, <1>a, <2>1 DEF SetVectors
<1> QED BY <1>2, <1>3, <1>4, <1>5, <1>6, <1>7, <1>8, <1>9, <1>10, <1>11, <1>12, <1>13, <1>14, <1>15,
           <1>16, <1>17, <1>18 DEF IndexNext, Advance

-----------------------------------------------------------------------------
(* EmbedVouches.                                                            *)

(* The embed field claims all docs, and no page of a run without embedder   *)
(* has landed past it.                                                      *)
Vouched == row.embed = row.seq /\ (torn => emb)

(* What is pending, or in the round in flight, has a text; the sweep's      *)
(* stamp follows a whole sweep; and the claim is true.                      *)
Vouching ==
    /\ \A o \in Objects : docs[o].pend => docs[o].ver > 0
    /\ \A o \in DOMAIN batch : batch[o] > 0
    /\ pc = "stamp" => Unmarked = {}
    /\ Vouched => Unmarked = {}

(* With an embedder, a page leaves no doc unmarked that was not.            *)
LEMMA LandedMarks ==
    ASSUME IndexTypeOK, NEW o \in DOMAIN page, NEW blind \in BOOLEAN,
           docs[o].pend => docs[o].ver > 0
    PROVE  LET d == Landed(o, blind)
           IN  /\ d.pend => d.ver > 0
               /\ emb /\ d.ver > 0 /\ d.vec = 0 /\ ~d.pend => o \in Unmarked
<1>1. o \in Objects /\ page[o] \in Versions /\ emb \in BOOLEAN /\ 0 \in Nat
    BY IndexAssumption DEF IndexTypeOK, Texts
<1>2. CASE page[o] = 0
    BY <1>2 DEF Landed, NoDoc
<1>3. CASE page[o] # 0 /\ Landed(o, blind) = docs[o]
    BY <1>1, <1>3 DEF Unmarked
<1>4. CASE page[o] # 0 /\ Landed(o, blind) = [ver |-> page[o], vec |-> 0, pend |-> emb]
    <2>1. page[o] > 0
        BY <1>1, <1>4, IndexAssumption DEF Versions
    <2> QED BY <1>4, <2>1
<1> QED BY <1>2, <1>3, <1>4 DEF Landed

LEMMA VouchingStep ==
    ASSUME FALSE \notin TornRuns, IndexTypeOK, Base, Vouching, IndexNext
    PROVE  Vouching'
<1>0. /\ row \in Rows /\ row.embed \in Nat /\ row.seq \in Nat /\ row.embed <= row.seq
      /\ last \in Nat /\ emb \in BOOLEAN /\ \A o \in Objects : docs[o] \in Docs
    BY RowFacts DEF IndexTypeOK
<1>a. ASSUME docs' = docs, \A o \in DOMAIN batch' : batch'[o] > 0,
             Unmarked = {} \/ (pc' # "stamp" /\ (Vouched' => Vouched))
      PROVE  Vouching'
    BY <1>a DEF Vouching, Unmarked
<1>b. ASSUME docs' = docs, batch' = batch \/ batch' = NoPage, pc' = "stamp" => pc = "stamp",
             Vouched' => Vouched
      PROVE  Vouching'
    <2>1. \A o \in DOMAIN batch' : batch'[o] > 0
        BY <1>b, NoPageTexts DEF Vouching
    <2> QED BY <1>a, <1>b, <2>1 DEF Vouching
<1>1. ASSUME NEW o \in Objects, NEW v \in 0..MaxChanges, Change(o, v) PROVE Vouching'
    BY <1>1, <1>b DEF Change, store, Vouched
<1>2. ASSUME Backup \/ Restore \/ Rebuild PROVE Vouching'
    <2>1. UNCHANGED <<docs, row, batch, emb, torn, pc>>
        BY <1>2 DEF Backup, Restore, Rebuild, store
    <2> QED BY <1>b, <2>1 DEF Vouched
<1>3. ASSUME NEW e \in Embedders, Boot(e) PROVE Vouching'
    <2>1. ~torn /\ pc' = "align" /\ UNCHANGED <<docs, row, batch, torn>>
        BY <1>3 DEF Boot, Base, Started, store
    <2> QED BY <1>b, <2>1 DEF Vouched
<1>4. ASSUME Crash PROVE Vouching'
    <2>1. (torn => emb) /\ pc' = "down" /\ batch' = NoPage /\ UNCHANGED <<docs, row>>
        BY <1>0, <1>4 DEF Crash, store
    <2> QED BY <1>b, <2>1 DEF Vouched
<1>5. ASSUME AlignIndex PROVE Vouching'
    <2>1. ~torn /\ UNCHANGED <<docs, batch, emb, torn>> /\ pc' # "stamp"
        BY <1>5 DEF AlignIndex, Base, Started, AfterAlign
    <2>2. row'.seq = row.seq /\ row'.embed = row.embed
        <3>1. row' = row \/ row' = [row EXCEPT !.gen = source.gen]
            BY <1>5 DEF AlignIndex
        <3> QED BY <1>0, <3>1, RowFacts
    <2> QED BY <1>b, <2>1, <2>2 DEF Vouched
<1>6. ASSUME DropDocs PROVE Vouching'
    <2>1. CASE docs' = docs
        BY <1>6, <1>b, <2>1 DEF DropDocs, AfterAlign, Vouched
    <2>2. CASE docs' # docs
        <3>1. (\A o \in Objects : docs'[o] = NoDoc) /\ batch' = batch /\ pc' = "droprow"
            BY <1>6, <2>2 DEF DropDocs
        <3> QED BY <3>1 DEF Vouching, Unmarked, NoDoc
    <2> QED BY <2>1, <2>2
<1>7. ASSUME DropRow \/ Reset PROVE Vouching'
    <2>1. \A o \in Objects : docs[o] = NoDoc
        BY <1>7 DEF DropRow, Reset, Base
    <2>2. Unmarked = {}
        BY <2>1 DEF Unmarked, NoDoc
    <2>3. docs' = docs /\ batch' = batch
        BY <1>7 DEF DropRow, Reset
    <2> QED BY <1>a, <2>2, <2>3 DEF Vouching
<1>8. ASSUME Sweep PROVE Vouching'
    <2>1. PICK S \in SUBSET Unmarked : Mark(S) /\ (pc' = "stamp" => S = Unmarked)
        BY <1>8 DEF Sweep
    <2>2. /\ UNCHANGED <<row, emb, torn, batch>>
          /\ \A o \in Objects : /\ docs'[o].ver = docs[o].ver /\ docs'[o].vec = docs[o].vec
                                /\ docs'[o].pend <=> docs[o].pend \/ o \in S
        BY <1>8, <2>1, MarkFacts DEF Sweep
    <2>3. Unmarked' = Unmarked \ S
        BY <2>2 DEF Unmarked
    <2>4. \A o \in S : docs[o].ver > 0
        BY DEF Unmarked
    <2> QED BY <2>1, <2>2, <2>3, <2>4 DEF Vouching, Vouched
<1>9. ASSUME StampEmbed PROVE Vouching'
    BY <1>9, <1>a DEF StampEmbed, Vouching
<1>10. ASSUME ReadCursor \/ Fetch \/ Collect \/ Wake PROVE Vouching'
    <2>1. UNCHANGED <<docs, row, batch, emb, torn>> /\ pc' # "stamp"
        BY <1>10 DEF ReadCursor, Fetch, Collect, Wake, store
    <2> QED BY <1>b, <2>1 DEF Vouched
<1>11. ASSUME ApplyPage PROVE Vouching'
    <2>1. CASE pc' = "read"
        BY <1>11, <1>b, <2>1 DEF ApplyPage, Vouched
    <2>2. CASE pc' = "advance"
        <3>1. PICK blind \in BOOLEAN :
                docs' = [o \in Objects |-> IF o \in DOMAIN page THEN Landed(o, blind) ELSE docs[o]]
            BY <1>11, <2>2 DEF ApplyPage
        <3>2. torn' /\ UNCHANGED <<row, emb, batch>>
            BY <1>11, <2>2 DEF ApplyPage
        <3>3. ASSUME NEW o \in Objects
              PROVE  /\ docs'[o].pend => docs'[o].ver > 0
                     /\ emb /\ o \in Unmarked' => o \in Unmarked
            <4>1. CASE o \in DOMAIN page
                BY <3>1, <4>1, LandedMarks DEF Vouching, Unmarked
            <4>2. CASE o \notin DOMAIN page
                BY <3>1, <4>2 DEF Vouching, Unmarked
            <4> QED BY <4>1, <4>2
        <3>4. Vouched' => Unmarked = {} /\ emb
            BY <3>2 DEF Vouched, Vouching
        <3>5. Unmarked' \subseteq Objects
            BY DEF Unmarked
        <3> QED BY <2>2, <3>2, <3>3, <3>4, <3>5 DEF Vouching
    <2> QED BY <1>11, <2>1, <2>2 DEF ApplyPage
<1>12. ASSUME AdvanceCursor PROVE Vouching'
    <2>1. UNCHANGED <<docs, batch, emb>> /\ pc' # "stamp"
        BY <1>12 DEF AdvanceCursor
    <2>2. row.seq < last
        BY <1>12 DEF AdvanceCursor, Base, Paging
    <2>3. Vouched' => Vouched
        <3>1. CASE pc' = "read"
            BY <1>12, <3>1 DEF AdvanceCursor, Vouched
        <3>2. CASE row' = CursorRow(last)
            <4>1. /\ row'.seq = last
                  /\ row'.embed = IF emb /\ row.embed = row.seq THEN last ELSE row.embed
                BY <1>0, <2>2, <3>2, CursorRowFacts
            <4> QED BY <1>0, <2>2, <4>1 DEF Vouched
        <3> QED BY <1>12, <3>1, <3>2 DEF AdvanceCursor
    <2> QED BY <1>b, <2>1, <2>3
<1>13. ASSUME EmbedRound PROVE Vouching'
    <2>1. /\ batch' = [o \in Pending |-> docs[o].ver] /\ Pending \subseteq Objects
          /\ UNCHANGED <<docs, row, emb, torn, pc>>
        BY <1>13 DEF EmbedRound, store, Pending
    <2>2. \A o \in DOMAIN batch' : batch'[o] > 0
        BY <2>1 DEF Vouching, Pending
    <2> QED BY <2>1, <2>2 DEF Vouching, Vouched, Unmarked
<1>14. ASSUME SetVectors PROVE Vouching'
    <2>1. batch' = NoPage /\ UNCHANGED <<row, emb, torn, pc>>
        BY <1>14 DEF SetVectors
    <2>2. ASSUME NEW o \in Objects
          PROVE  /\ docs'[o].pend => docs'[o].ver > 0
                 /\ o \in Unmarked' => o \in Unmarked
        BY <1>14, VectorFacts DEF Vouching, Unmarked
    <2>3. Unmarked' \subseteq Unmarked
        BY <2>2 DEF Unmarked
    <2> QED BY <2>1, <2>2, <2>3, NoPageTexts DEF Vouching, Vouched
<1> QED BY <1>1, <1>2, <1>3, <1>4, <1>5, <1>6, <1>7, <1>8, <1>9, <1>10, <1>11, <1>12, <1>13, <1>14
        DEF IndexNext, Advance

LEMMA IndexInvInit == IndexInit => IndexTypeOK /\ Base
BY IndexTypesInit DEF IndexInit, Base, Paging

(* "The cursor row's embed field is the cursor up to which every doc the    *)
(* upsert rule embeds carries a vector or the pending mark"                 *)
(* (embed_backfill.go:12), for any space, page size and number of runs, any *)
(* read, drop, sweep or page failing, over stores rebuilt and restored.     *)
(* Only a run without an embedder must not end between a page and its       *)
(* cursor: the next cursor would be the first to move past docs it did not  *)
(* mark.                                                                    *)
THEOREM RowVouches ==
    ASSUME FALSE \notin TornRuns
    PROVE  IndexSpec => []EmbedVouches
<1>1. IndexInit => IndexTypeOK /\ Base /\ Vouching
    <2> SUFFICES ASSUME IndexInit PROVE Vouching
        BY IndexInvInit
    <2>1. \A o \in Objects : docs[o] = NoDoc
        BY DEF IndexInit
    <2>2. Unmarked = {}
        BY <2>1 DEF Unmarked, NoDoc
    <2>3. batch = NoPage
        BY DEF IndexInit
    <2> QED BY <2>1, <2>2, <2>3, NoPageTexts DEF Vouching, NoDoc
<1>2. IndexTypeOK /\ Base /\ Vouching /\ [IndexNext]_index => (IndexTypeOK /\ Base /\ Vouching)'
    <2> SUFFICES ASSUME IndexTypeOK, Base, Vouching, [IndexNext]_index
                 PROVE  (IndexTypeOK /\ Base /\ Vouching)'
        OBVIOUS
    <2>1. CASE IndexNext
        BY <2>1, BaseStep, VouchingStep
    <2>2. CASE UNCHANGED index
        BY <2>2 DEF index, feed, store, IndexTypeOK, Base, Vouching, Vouched, Unmarked, Paging,
                    Started, Texts
    <2> QED BY <2>1, <2>2
<1>3. IndexTypeOK /\ Base /\ Vouching => EmbedVouches
    BY DEF EmbedVouches, Vouching, Vouched
<1> QED BY <1>1, <1>2, <1>3, PTL DEF IndexSpec

-----------------------------------------------------------------------------
(* IndexMatches.                                                            *)

(* What the alignment cannot make good is left out: over a store that may   *)
(* be rebuilt, a drop that fails, a read that fails before a generation is  *)
(* on record, and a page that landed before a first cursor; over one that   *)
(* may be restored, any failure before the old index is dropped, for the    *)
(* axis may have passed the old cursor by the next start.                   *)
Recoverable ==
    /\ MayRebuild => ~MayRestore /\ TornRuns = {} /\ AlignFaults \cap {"drop", "first"} = {}
    /\ MayRestore => AlignFaults = {}

(* A drop under way.                                                        *)
Emptying == pc \in {"dropdocs", "droprow"}
(* The row is of the SDK store as it is.                                    *)
Trusted == ~Emptying /\ ~restored /\ row.gen \in {0, source.gen}

(* Only a restore puts the row past the axis, and the alignment sees it     *)
(* before anything new is applied.                                          *)
Axis ==
    /\ restored => MayRestore /\ pc \in {"down", "align"} /\ row.seq > source.max
    /\ ~MayRebuild => source.gen = 1
    /\ MayRestore => /\ backup.gen = 1 /\ backup.max <= source.max
                     /\ backup.max = source.max => backup = source
    /\ Trusted => row.seq <= source.max

(* The generation a worker writes is the row's, or the store's over a row   *)
(* that has none: it never makes an old row look new.  Where the store may  *)
(* be rebuilt, a row without a generation has no cursor, and no docs but    *)
(* those of a page in flight.                                               *)
Epoch ==
    /\ row.gen <= source.gen
    /\ Started => wgen \in {0, row.gen} \/ (wgen = source.gen /\ row.gen = 0)
    /\ pc \in {"dropdocs", "droprow", "reset"} => wgen = source.gen
    /\ Emptying => MayRestore \/ row.gen \notin {0, source.gen}
    /\ aligned => Started /\ row.gen \in {0, source.gen}
    /\ MayRebuild /\ row.gen = 0 => /\ row.seq = 0 /\ (Started => wgen = source.gen)
                                    /\ torn \/ \A o \in Objects : docs[o].ver = 0

LEMMA IndexNumbers ==
    ASSUME IndexTypeOK
    PROVE  /\ source.gen \in 1..2 /\ source.max \in Nat /\ backup.gen \in 1..2 /\ backup.max \in Nat
           /\ row.seq \in Nat /\ row.gen \in 0..2 /\ wgen \in 0..2 /\ cur \in Nat /\ last \in Nat
BY SourceFacts, RowFacts DEF IndexTypeOK

(* A drop that can fail has nothing to drop.                                *)
LEMMA DropsThrough ==
    ASSUME Recoverable, IndexTypeOK, Axis, Epoch, Emptying
    PROVE  "drop" \notin AlignFaults
<1> SUFFICES ASSUME "drop" \in AlignFaults PROVE FALSE
    OBVIOUS
<1>1. ~MayRebuild /\ ~MayRestore
    BY DEF Recoverable
<1>2. source.gen = 1 /\ row.gen \notin {0, 1} /\ row.gen <= 1
    BY <1>1 DEF Axis, Epoch
<1> QED BY <1>2, IndexNumbers

(* Inside a run nothing of the axis or of the epoch moves.                  *)
Inside ==
    /\ UNCHANGED <<source, backup, restored, wgen, aligned, torn>>
    /\ row'.seq = row.seq /\ row'.gen = row.gen
    /\ \A o \in Objects : docs'[o].ver = docs[o].ver
    /\ pc' = pc \/ (Started /\ Started')

LEMMA InsideEpoch ==
    ASSUME IndexTypeOK, Axis, Epoch, Inside
    PROVE  Axis' /\ Epoch'
<1>1. Emptying' <=> Emptying
    BY DEF Inside, Emptying, Started
<1>2. Started' <=> Started
    BY DEF Inside, Started
<1>3. Trusted' <=> Trusted
    BY <1>1 DEF Inside, Trusted
<1>4. restored => pc' \in {"down", "align"}
    BY DEF Inside, Axis, Started
<1>5. Axis'
    BY <1>3, <1>4 DEF Inside, Axis
<1>6. pc' \in {"dropdocs", "droprow", "reset"} => pc \in {"dropdocs", "droprow", "reset"}
    BY DEF Inside, Started
<1> QED BY <1>1, <1>2, <1>5, <1>6 DEF Inside, Epoch

LEMMA InsideSteps ==
    ASSUME IndexTypeOK,
           Sweep \/ StampEmbed \/ ReadCursor \/ Fetch \/ Collect \/ Wake \/ EmbedRound \/ SetVectors
    PROVE  Inside
<1>0. row \in [seq : Nat, gen : 0..2, embed : Nat] /\ row.seq \in Nat
    BY RowFacts DEF IndexTypeOK
<1>1. ASSUME Sweep PROVE Inside
    <2>1. PICK S : Mark(S)
        BY <1>1 DEF Sweep
    <2> QED BY <1>1, <2>1, MarkFacts DEF Sweep, Inside, feed, Started
<1>2. ASSUME StampEmbed PROVE Inside
    <2>1. row'.seq = row.seq /\ row'.gen = row.gen
        BY <1>0, <1>2 DEF StampEmbed
    <2> QED BY <1>2, <2>1 DEF StampEmbed, Inside, feed, Started
<1>3. ASSUME ReadCursor \/ Collect \/ Wake PROVE Inside
    BY <1>3 DEF ReadCursor, Collect, Wake, Inside, feed, store, Started
<1>4. ASSUME Fetch PROVE Inside
    <2>1. pc' \in {"idle", "collect"}
        BY <1>4 DEF Fetch
    <2> QED BY <1>4, <2>1 DEF Fetch, Inside, feed, store, Started
<1>5. ASSUME EmbedRound PROVE Inside
    BY <1>5 DEF EmbedRound, Inside, feed, store
<1>6. ASSUME SetVectors PROVE Inside
    BY <1>6, VectorFacts DEF SetVectors, Inside, feed
<1> QED BY <1>1, <1>2, <1>3, <1>4, <1>5, <1>6

(* The alignment: only under a restored store is the row's cursor kept from *)
(* those who would trust it.                                                *)
LEMMA AlignFacts ==
    ASSUME Recoverable, IndexTypeOK, Base, Axis, Epoch, AlignIndex
    PROVE  /\ ~restored' /\ ~torn /\ UNCHANGED <<source, backup, docs, torn>>
           /\ row'.seq = row.seq /\ (Trusted' => Trusted)
           /\ \/ /\ pc' = "dropdocs" /\ row' = row /\ wgen' = source.gen /\ aligned' = aligned
                 /\ MayRestore \/ row.gen \notin {0, source.gen}
              \/ /\ pc' \in {"sweep", "read"} /\ row' = row /\ ~aligned'
                 /\ MayRebuild => row.gen # 0
                 /\ wgen' \in {0, row.gen} \/ (wgen' = source.gen /\ row.gen \in {0, source.gen})
              \/ /\ pc' \in {"sweep", "read"} /\ wgen' = source.gen /\ row.gen \in {0, source.gen}
                 /\ \/ row'.gen = source.gen
                    \/ row' = row /\ (row.gen = 0 => row.seq = 0)
<1>0. row \in [seq : Nat, gen : 0..2, embed : Nat] /\ pc = "align" /\ ~torn
    BY RowFacts DEF IndexTypeOK, AlignIndex, Base, Started
<1>1. ~restored' /\ UNCHANGED <<source, backup, docs, torn>>
    BY DEF AlignIndex
<1>2. AfterAlign \in {"sweep", "read"}
    BY DEF AfterAlign
<1>3. CASE Reindex /\ wgen' = source.gen /\ pc' = "dropdocs" /\ UNCHANGED <<row, aligned>>
    <2>1. MayRestore \/ row.gen \notin {0, source.gen}
        <3>1. CASE restored
            BY <3>1 DEF Axis
        <3>2. CASE row.seq > source.max /\ ~restored
            BY <1>0, <3>2, IndexNumbers DEF Axis, Trusted, Emptying
        <3> QED BY <1>3, <3>1, <3>2 DEF Reindex
    <2>2. ~Trusted'
        BY <1>3 DEF Trusted, Emptying
    <2> QED BY <1>0, <1>1, <1>3, <2>1, <2>2
<1>4. CASE /\ \E read \in {"cursor", "gen", "max"} : MayFail(read)
           /\ pc' = AfterAlign /\ ~aligned' /\ UNCHANGED row
           /\ wgen' \in {0, row.gen} \/ (wgen' = source.gen /\ row.gen \in {0, source.gen})
    <2>1. ~restored /\ (MayRebuild => row.gen # 0)
        BY <1>4 DEF MayFail, Recoverable, Axis
    <2>2. Trusted' => Trusted
        BY <1>0, <1>1, <1>4, <2>1 DEF Trusted, Emptying
    <2> QED BY <1>0, <1>1, <1>2, <1>4, <2>1, <2>2
<1>5. CASE /\ ~Reindex /\ wgen' = source.gen /\ pc' = AfterAlign
           /\ row' = IF row.seq > 0 /\ row.gen = 0 THEN [row EXCEPT !.gen = source.gen] ELSE row
    <2>1. row.gen \in {0, source.gen} /\ ~restored
        BY <1>5 DEF Reindex, Axis
    <2>2. /\ row'.seq = row.seq
          /\ row'.gen = source.gen \/ (row' = row /\ (row.gen = 0 => row.seq = 0))
        BY <1>0, <1>5
    <2>3. Trusted
        BY <1>0, <2>1 DEF Trusted, Emptying
    <2> QED BY <1>0, <1>1, <1>2, <1>5, <2>1, <2>2, <2>3
<1> QED BY <1>3, <1>4, <1>5 DEF AlignIndex

LEMMA AdvanceFacts ==
    ASSUME IndexTypeOK, Base, Axis, Epoch, AdvanceCursor, pc' # "read"
    PROVE  /\ row'.seq = last /\ (Trusted' => Trusted) /\ wgen' = wgen
           /\ row'.gen = IF wgen # 0 THEN wgen ELSE row.gen
<1>1. row' = CursorRow(last) /\ row.seq <= last
    BY IndexNumbers DEF AdvanceCursor, Base, Paging
<1>2. row'.seq = last /\ row'.gen = IF wgen # 0 THEN wgen ELSE row.gen
    BY <1>1, IndexNumbers, CursorRowFacts
<1>3. UNCHANGED <<source, restored, wgen>> /\ pc = "advance"
    BY DEF AdvanceCursor, feed
<1>4. row'.gen \in {0, source.gen} => row.gen \in {0, source.gen}
    BY <1>2, <1>3 DEF Epoch, Started
<1> QED BY <1>2, <1>3, <1>4 DEF Trusted, Emptying

LEMMA EpochStep ==
    ASSUME Recoverable, IndexTypeOK, Base, Axis, Epoch, IndexNext,
           pc = "advance" => last <= source.max
    PROVE  Axis' /\ Epoch'
<1>0. /\ source.gen \in 1..2 /\ source.max \in Nat /\ backup.gen \in 1..2 /\ backup.max \in Nat
      /\ row.seq \in Nat /\ row.gen \in 0..2 /\ wgen \in 0..2 /\ cur \in Nat /\ last \in Nat
    BY IndexNumbers
<1>1. ASSUME NEW o \in Objects, NEW v \in 0..MaxChanges, Change(o, v) PROVE Axis' /\ Epoch'
    <2>1. /\ UNCHANGED <<backup, restored, row, pc, wgen, docs, torn, aligned>> /\ ~restored
          /\ source' = [source EXCEPT !.ver[o] = v, !.seq[o] = source.max + 1, !.max = source.max + 1]
        BY <1>1 DEF Change, store
    <2>2. source'.gen = source.gen /\ source'.max = source.max + 1
        BY <2>1, SourceFacts DEF IndexTypeOK
    <2>3. (Trusted' <=> Trusted) /\ (Started' <=> Started) /\ (Emptying' <=> Emptying)
        BY <2>1, <2>2 DEF Trusted, Emptying, Started
    <2>4. Axis'
        BY <1>0, <2>1, <2>2, <2>3 DEF Axis
    <2>5. Epoch'
        BY <2>1, <2>2, <2>3 DEF Epoch
    <2> QED BY <2>4, <2>5
<1>2. ASSUME Backup PROVE Axis' /\ Epoch'
    <2>1. UNCHANGED <<source, restored, row, pc, wgen, docs, torn, aligned>> /\ backup' = source
          /\ MayRestore
        BY <1>2 DEF Backup, store
    <2>2. source.gen = 1
        BY <2>1 DEF Recoverable, Axis
    <2>3. (Trusted' <=> Trusted) /\ (Started' <=> Started) /\ (Emptying' <=> Emptying)
        BY <2>1 DEF Trusted, Emptying, Started
    <2>4. Axis'
        BY <1>0, <2>1, <2>2, <2>3 DEF Axis
    <2> QED BY <2>1, <2>3, <2>4 DEF Epoch
<1>3. ASSUME Restore PROVE Axis' /\ Epoch'
    <2>1. /\ UNCHANGED <<backup, row, pc, wgen, docs, torn, aligned>> /\ source' = backup
          /\ restored' /\ MayRestore /\ pc = "down" /\ source # backup /\ row.seq = source.max
        BY <1>3 DEF Restore, store
    <2>2. source.gen = 1 /\ backup.gen = 1 /\ backup.max < source.max
        BY <1>0, <2>1 DEF Recoverable, Axis
    <2>3. Axis'
        BY <1>0, <2>1, <2>2 DEF Axis, Trusted, Recoverable
    <2>4. (Started' <=> Started) /\ (Emptying' <=> Emptying) /\ source'.gen = source.gen
        BY <2>1, <2>2 DEF Emptying, Started
    <2> QED BY <2>1, <2>3, <2>4 DEF Epoch
<1>4. ASSUME Rebuild PROVE Axis' /\ Epoch'
    <2>1. /\ UNCHANGED <<backup, restored, row, pc, wgen, docs, torn, aligned>>
          /\ MayRebuild /\ pc = "down" /\ source.gen = 1 /\ ~MayRestore
        BY <1>4 DEF Rebuild, store, Recoverable
    <2>2. source'.gen = 2
        BY <1>4, SourceFacts DEF Rebuild, IndexTypeOK
    <2>3. row.gen \in {0, 1} /\ ~restored /\ ~Started /\ ~Started' /\ ~Emptying /\ ~Emptying'
          /\ ~aligned
        BY <1>0, <2>1 DEF Epoch, Axis, Started, Emptying
    <2>4. IndexTypeOK'
        BY BaseStep
    <2>5. source'.max \in Nat
        BY <2>4, SourceFacts DEF IndexTypeOK
    <2>6. Trusted' => row'.seq <= source'.max
        BY <2>1, <2>2, <2>3, <2>5 DEF Trusted, Epoch
    <2>7. Axis'
        BY <2>1, <2>2, <2>3, <2>6 DEF Axis
    <2> QED BY <2>1, <2>2, <2>3, <2>7 DEF Epoch
<1>5. ASSUME NEW e \in Embedders, Boot(e) PROVE Axis' /\ Epoch'
    <2>1. /\ UNCHANGED <<source, backup, restored, row, docs, torn, aligned>>
          /\ pc = "down" /\ pc' = "align"
        BY <1>5 DEF Boot, feed, store
    <2>2. (Trusted' <=> Trusted) /\ ~Started /\ ~Started' /\ ~Emptying /\ ~Emptying'
        BY <2>1 DEF Trusted, Emptying, Started
    <2> QED BY <2>1, <2>2 DEF Axis, Epoch
<1>6. ASSUME Crash PROVE Axis' /\ Epoch'
    <2>1. /\ UNCHANGED <<source, backup, restored, row, docs>> /\ pc' = "down"
          /\ ~torn' /\ ~aligned' /\ (torn => emb \in TornRuns)
          /\ Emptying => "cut" \in AlignFaults
        BY <1>6 DEF Crash, feed, store, Emptying
    <2>2. Trusted' => Trusted
        BY <2>1 DEF Trusted, Emptying, Recoverable, Epoch
    <2>3. ~Started' /\ ~Emptying' /\ (MayRebuild => ~torn)
        BY <2>1 DEF Started, Emptying, Recoverable
    <2>4. Axis'
        BY <2>1, <2>2 DEF Axis
    <2>5. MayRebuild /\ row.gen = 0 => row.seq = 0 /\ \A o \in Objects : docs[o].ver = 0
        BY <2>3 DEF Epoch
    <2> QED BY <2>1, <2>3, <2>4, <2>5 DEF Epoch
<1>7. ASSUME AlignIndex PROVE Axis' /\ Epoch'
    <2>1. /\ ~restored' /\ ~torn /\ UNCHANGED <<source, backup, docs, torn>>
          /\ row'.seq = row.seq /\ (Trusted' => Trusted)
        BY <1>7, AlignFacts
    <2>2. Axis'
        BY <2>1 DEF Axis
    <2>3. ~aligned
        BY <1>7 DEF AlignIndex, Epoch, Started
    <2>4. CASE /\ pc' = "dropdocs" /\ row' = row /\ wgen' = source.gen /\ aligned' = aligned
               /\ MayRestore \/ row.gen \notin {0, source.gen}
        <3>1. ~Started' /\ Emptying'
            BY <2>4 DEF Started, Emptying
        <3> QED BY <2>1, <2>2, <2>3, <2>4, <3>1 DEF Epoch
    <2>5. CASE /\ pc' \in {"sweep", "read"} /\ row' = row /\ ~aligned'
               /\ MayRebuild => row.gen # 0
               /\ wgen' \in {0, row.gen} \/ (wgen' = source.gen /\ row.gen \in {0, source.gen})
        <3>1. Started' /\ ~Emptying'
            BY <2>5 DEF Started, Emptying
        <3> QED BY <2>1, <2>2, <2>5, <3>1 DEF Epoch
    <2>6. CASE /\ pc' \in {"sweep", "read"} /\ wgen' = source.gen /\ row.gen \in {0, source.gen}
               /\ \/ row'.gen = source.gen
                  \/ row' = row /\ (row.gen = 0 => row.seq = 0)
        <3>1. Started' /\ ~Emptying'
            BY <2>6 DEF Started, Emptying
        <3>2. row'.gen \in {0, source.gen} /\ row'.gen <= source.gen
            BY <1>0, <2>6
        <3>3. MayRebuild /\ row'.gen = 0 => row'.seq = 0 /\ \A o \in Objects : docs[o].ver = 0
            BY <1>0, <2>1, <2>6 DEF Epoch
        <3> QED BY <2>1, <2>2, <2>6, <3>1, <3>2, <3>3 DEF Epoch
    <2> QED BY <1>7, <2>4, <2>5, <2>6, AlignFacts
<1>8. ASSUME DropDocs PROVE Axis' /\ Epoch'
    <2>1. /\ UNCHANGED <<source, backup, restored, row, wgen, torn, aligned>>
          /\ pc' = "droprow" /\ pc = "dropdocs" /\ \A o \in Objects : docs'[o].ver = 0
        BY <1>8, DropsThrough DEF DropDocs, feed, Emptying, NoDoc
    <2>2. Emptying /\ Emptying' /\ ~Started /\ ~Started' /\ ~Trusted'
        BY <2>1 DEF Emptying, Started, Trusted
    <2>3. Axis'
        BY <2>1, <2>2 DEF Axis
    <2> QED BY <2>1, <2>2, <2>3 DEF Epoch
<1>9. ASSUME DropRow PROVE Axis' /\ Epoch'
    <2>1. /\ UNCHANGED <<source, backup, restored, docs, wgen, torn, aligned>>
          /\ pc' = "reset" /\ pc = "droprow" /\ row' = NoRow
        BY <1>9, DropsThrough DEF DropRow, feed, Emptying
    <2>2. row'.seq = 0 /\ row'.gen = 0 /\ ~Started /\ ~Started' /\ ~Emptying'
        BY <2>1 DEF NoRow, Started, Emptying
    <2>3. Axis'
        BY <1>0, <2>1, <2>2 DEF Axis
    <2>4. \A o \in Objects : docs'[o].ver = 0
        BY <2>1 DEF Base, NoDoc
    <2> QED BY <1>0, <2>1, <2>2, <2>3, <2>4 DEF Epoch
<1>10. ASSUME Reset PROVE Axis' /\ Epoch'
    <2>1. /\ UNCHANGED <<source, backup, restored, docs, wgen, torn>>
          /\ pc' = "read" /\ pc = "reset" /\ row = NoRow /\ wgen = source.gen
        BY <1>10 DEF Reset, feed, Base, Epoch
    <2>2. row.seq = 0 /\ row.gen = 0
        BY <2>1 DEF NoRow
    <2>3. row'.seq = 0 /\ row'.gen \in {0, source.gen}
        <3>1. Merged(0).seq = 0 /\ Merged(0).gen = source.gen
            BY <1>0, <2>1, MergedFacts
        <3> QED BY <1>10, <2>2, <3>1 DEF Reset
    <2>4. Started' /\ ~Emptying' /\ ~restored
        BY <2>1 DEF Started, Emptying, Axis
    <2>5. Axis'
        BY <1>0, <2>1, <2>3, <2>4 DEF Axis
    <2>6. \A o \in Objects : docs'[o].ver = 0
        BY <2>1 DEF Base, NoDoc
    <2> QED BY <1>0, <2>1, <2>3, <2>4, <2>5, <2>6 DEF Epoch
<1>11. ASSUME ApplyPage PROVE Axis' /\ Epoch'
    <2>1. /\ UNCHANGED <<source, backup, restored, row, wgen, aligned>>
          /\ pc = "apply" /\ pc' \in {"advance", "read"}
        BY <1>11 DEF ApplyPage, feed
    <2>0. torn' \/ (docs' = docs /\ torn' = torn)
        BY <1>11 DEF ApplyPage
    <2>2. Started /\ Started' /\ ~Emptying /\ ~Emptying'
        BY <2>1 DEF Started, Emptying
    <2>3. Trusted' <=> Trusted
        BY <2>1, <2>2 DEF Trusted
    <2>4. Axis'
        BY <2>1, <2>3 DEF Axis
    <2> QED BY <2>0, <2>1, <2>2, <2>4 DEF Epoch
<1>12. ASSUME AdvanceCursor PROVE Axis' /\ Epoch'
    <2>1. /\ UNCHANGED <<source, backup, restored, docs, wgen, aligned>>
          /\ pc = "advance" /\ pc' \in {"idle", "fetch", "read"}
        BY <1>12 DEF AdvanceCursor, feed
    <2>2. Started /\ Started' /\ ~Emptying /\ ~Emptying'
        BY <2>1 DEF Started, Emptying
    <2>3. CASE pc' = "read"
        <3>1. Inside
            BY <1>12, <2>1, <2>2, <2>3 DEF AdvanceCursor, Inside, feed
        <3> QED BY <3>1, InsideEpoch
    <2>4. CASE pc' # "read"
        <3>1. /\ row'.seq = last /\ (Trusted' => Trusted)
              /\ row'.gen = IF wgen # 0 THEN wgen ELSE row.gen
            BY <1>12, <2>4, AdvanceFacts
        <3>2. Axis'
            BY <2>1, <2>2, <3>1 DEF Axis
        <3>3. /\ row'.gen <= source.gen /\ wgen \in {0, row'.gen}
              /\ aligned => row'.gen \in {0, source.gen}
              /\ MayRebuild => row'.gen # 0
            BY <1>0, <2>2, <3>1 DEF Epoch
        <3> QED BY <2>1, <2>2, <3>2, <3>3 DEF Epoch
    <2> QED BY <2>3, <2>4
<1> QED BY <1>1, <1>2, <1>3, <1>4, <1>5, <1>6, <1>7, <1>8, <1>9, <1>10, <1>11, <1>12,
           InsideSteps, InsideEpoch DEF IndexNext, Advance

(* The index has all there is up to c, and there is nothing past c.         *)
Synced(c) == \A o \in Objects : source.seq[o] <= c => docs[o].ver = source.ver[o]

Seen(c) == \A o \in Objects : source.seq[o] <= c

(* The cursor has skipped nothing: not on the row, not at the page in       *)
(* flight, and not at rest.                                                 *)
Pages ==
    /\ Trusted => Synced(row.seq)
    /\ Paging => /\ last <= source.max
                 /\ \A o \in Objects : cur < source.seq[o] /\ source.seq[o] <= last => o \in DOMAIN page
                 /\ ~dirty /\ Cardinality(DOMAIN page) < Batch => Seen(last)
    /\ pc = "apply" => \A o \in DOMAIN page : source.seq[o] <= last => page[o] = source.ver[o]
    /\ pc = "advance" /\ Trusted => Synced(last)
    /\ pc = "idle" /\ ~dirty => Seen(row.seq)

LEMMA PagesStep ==
    ASSUME Recoverable, IndexTypeOK, Base, Axis, Epoch, Pages, IndexNext
    PROVE  Pages'
<1>0. /\ source.gen \in 1..2 /\ source.max \in Nat /\ row.seq \in Nat /\ cur \in Nat /\ last \in Nat
      /\ \A o \in Objects : source.seq[o] \in Nat /\ source.seq[o] <= source.max
                            /\ (source.seq[o] = 0 => source.ver[o] = 0)
    BY IndexNumbers, SourceFacts DEF IndexTypeOK
<1>a. ASSUME ~Paging', pc' # "idle", Trusted' => Synced(row.seq)' PROVE Pages'
    BY <1>a DEF Pages, Paging
<1>b. ASSUME UNCHANGED source, \A o \in Objects : docs'[o].ver = docs[o].ver,
             row'.seq = row.seq, Trusted' => Trusted
      PROVE  Trusted' => Synced(row.seq)'
    BY <1>b DEF Pages, Synced
<1>1. ASSUME NEW o \in Objects, NEW v \in 0..MaxChanges, Change(o, v) PROVE Pages'
    <2>1. /\ UNCHANGED <<restored, row, pc, docs, cur, page, last>> /\ (dirty' <=> dirty \/ Started)
          /\ source' = [source EXCEPT !.ver[o] = v, !.seq[o] = source.max + 1, !.max = source.max + 1]
        BY <1>1 DEF Change, store
    <2>2. /\ source'.gen = source.gen /\ source'.max = source.max + 1
          /\ source'.seq[o] = source.max + 1
          /\ \A p \in Objects \ {o} : source'.seq[p] = source.seq[p] /\ source'.ver[p] = source.ver[p]
        BY <2>1, SourceFacts DEF IndexTypeOK
    <2>3. (Trusted' <=> Trusted) /\ (Paging' <=> Paging)
        BY <2>1, <2>2 DEF Trusted, Emptying, Paging
    <2>4. ASSUME NEW c \in Nat, c <= source.max, NEW p \in Objects, source'.seq[p] <= c
          PROVE  p # o /\ source.seq[p] <= c
        BY <1>0, <2>2, <2>4
    <2>5. Trusted' => Synced(row.seq)'
        BY <1>0, <2>1, <2>2, <2>3, <2>4 DEF Pages, Synced, Axis
    <2>6. Paging => last <= source.max /\ dirty'
        BY <2>1 DEF Pages, Paging, Started
    <2>7. Paging' => /\ last' <= source'.max /\ dirty'
                     /\ \A p \in Objects : cur' < source'.seq[p] /\ source'.seq[p] <= last'
                                           => p \in DOMAIN page'
        BY <1>0, <2>1, <2>2, <2>3, <2>4, <2>6 DEF Pages
    <2>8. pc' = "apply" => \A p \in DOMAIN page' : source'.seq[p] <= last' => page'[p] = source'.ver[p]
        <3> SUFFICES ASSUME pc = "apply", NEW p \in DOMAIN page, source'.seq[p] <= last
                     PROVE  page[p] = source'.ver[p]
            BY <2>1
        <3>1. p \in Objects
            BY DEF IndexTypeOK, Texts
        <3>2. p # o /\ source.seq[p] <= last
            BY <1>0, <2>4, <2>6, <3>1 DEF Paging
        <3> QED BY <2>2, <3>1, <3>2 DEF Pages
    <2>9. pc' = "advance" /\ Trusted' => Synced(last)'
        BY <1>0, <2>1, <2>2, <2>3, <2>4, <2>6 DEF Pages, Synced, Paging
    <2>10. pc' = "idle" => dirty'
        BY <2>1 DEF Started
    <2> QED BY <2>5, <2>7, <2>8, <2>9, <2>10 DEF Pages
<1>2. ASSUME Backup PROVE Pages'
    <2>1. UNCHANGED <<source, restored, row, pc, docs, cur, page, last, dirty>>
        BY <1>2 DEF Backup, store
    <2> QED BY <2>1 DEF Pages, Trusted, Emptying, Paging, Synced, Seen
<1>3. ASSUME Restore PROVE Pages'
    <2>1. pc' = "down" /\ restored'
        BY <1>3 DEF Restore
    <2> QED BY <1>a, <2>1 DEF Paging, Trusted
<1>4. ASSUME Rebuild PROVE Pages'
    <2>1. /\ UNCHANGED <<row, pc, docs, torn>> /\ pc = "down" /\ MayRebuild /\ source.gen = 1
        BY <1>4 DEF Rebuild, store
    <2>2. source'.gen = 2
        BY <1>4, SourceFacts DEF Rebuild, IndexTypeOK
    <2>3. source' \in SourceStores
        BY BaseStep DEF IndexTypeOK
    <2>4. Trusted' => row.seq = 0 /\ \A o \in Objects : docs[o].ver = 0
        BY <1>0, <2>1, <2>2, IndexNumbers DEF Trusted, Epoch, Base, Started
    <2>5. \A o \in Objects : source'.seq[o] <= 0 => source'.ver[o] = 0
        BY <2>3, SourceFacts
    <2>6. Trusted' => Synced(row.seq)'
        BY <2>1, <2>4, <2>5 DEF Synced
    <2> QED BY <1>a, <2>1, <2>6 DEF Paging
<1>5. ASSUME NEW e \in Embedders, Boot(e) PROVE Pages'
    <2>1. UNCHANGED <<source, restored, row, docs>> /\ pc = "down" /\ pc' = "align"
        BY <1>5 DEF Boot, feed, store
    <2>2. Trusted' => Trusted
        BY <2>1 DEF Trusted, Emptying
    <2> QED BY <1>a, <1>b, <2>1, <2>2 DEF Paging
<1>6. ASSUME Crash PROVE Pages'
    <2>1. UNCHANGED <<source, restored, row, docs>> /\ pc' = "down" /\ (Emptying => "cut" \in AlignFaults)
        BY <1>6 DEF Crash, feed, store, Emptying
    <2>2. Trusted' => Trusted
        BY <2>1 DEF Trusted, Emptying, Recoverable, Epoch
    <2> QED BY <1>a, <1>b, <2>1, <2>2 DEF Paging
<1>7. ASSUME AlignIndex PROVE Pages'
    <2>1. /\ UNCHANGED <<source, docs>> /\ row'.seq = row.seq /\ (Trusted' => Trusted)
          /\ pc' \in {"dropdocs", "sweep", "read"}
        BY <1>7, AlignFacts
    <2> QED BY <1>a, <1>b, <2>1 DEF Paging
<1>8. ASSUME DropDocs PROVE Pages'
    <2>1. pc' = "droprow"
        BY <1>8, DropsThrough DEF DropDocs, Emptying
    <2> QED BY <1>a, <2>1 DEF Paging, Trusted, Emptying
<1>9. ASSUME DropRow \/ Reset PROVE Pages'
    <2>1. UNCHANGED <<source, docs>> /\ pc' \in {"reset", "read"} /\ row'.seq = 0
        <3>1. ASSUME DropRow PROVE UNCHANGED <<source, docs>> /\ pc' = "reset" /\ row' = NoRow
            BY <3>1, DropsThrough DEF DropRow, feed, Emptying
        <3>2. ASSUME Reset PROVE UNCHANGED <<source, docs>> /\ pc' = "read" /\ row'.seq = 0
            <4>1. row = NoRow /\ Merged(0).seq = 0
                BY <3>2, MergedFacts DEF Reset, Base
            <4> QED BY <3>2, <4>1 DEF Reset, feed, NoRow
        <3> QED BY <1>9, <3>1, <3>2 DEF NoRow
    <2>2. \A o \in Objects : docs[o].ver = 0
        BY <1>9 DEF DropRow, Reset, Base, NoDoc
    <2>3. Synced(row.seq)'
        BY <1>0, <2>1, <2>2 DEF Synced
    <2> QED BY <1>a, <2>1, <2>3 DEF Paging
<1>10. ASSUME Sweep \/ StampEmbed \/ ReadCursor \/ Wake PROVE Pages'
    <2>1. Inside /\ pc' \in {"stamp", "read", "fetch"}
        BY <1>10, InsideSteps DEF Sweep, StampEmbed, ReadCursor, Wake
    <2>2. Trusted' => Trusted
        BY <1>10, <2>1 DEF Inside, Trusted, Emptying, Sweep, StampEmbed, ReadCursor, Wake
    <2> QED BY <1>a, <1>b, <2>1, <2>2 DEF Paging, Inside
<1>11. ASSUME Fetch PROVE Pages'
    <2>1. Inside /\ pc = "fetch" /\ UNCHANGED <<docs, row, cur, dirty>> /\ cur = row.seq
        BY <1>11, InsideSteps DEF Fetch, store, Base
    <2>2. pc' \in {"idle", "collect"}
        BY <1>11 DEF Fetch
    <2>3. Trusted' => Trusted
        BY <2>1, <2>2 DEF Inside, Trusted, Emptying
    <2>4. Trusted' => Synced(row.seq)'
        BY <1>b, <2>1, <2>3 DEF Inside
    <2>5. CASE Changed = {}
        <3>1. pc' = "idle" /\ Seen(row.seq)'
            BY <1>0, <1>11, <2>1, <2>5 DEF Fetch, Changed, Seen, Inside
        <3> QED BY <2>4, <3>1 DEF Pages, Paging
    <2>6. CASE Changed # {}
        <3>1. /\ pc' = "collect" /\ DOMAIN page' = FirstPage
              /\ last' = Max({source.seq[o] : o \in FirstPage})
            BY <1>11, <2>6 DEF Fetch
        <3>2. /\ last' <= source.max
              /\ \A o \in Changed : source.seq[o] <= last' => o \in FirstPage
              /\ Cardinality(FirstPage) < Batch => \A o \in Objects : source.seq[o] <= last'
            BY <2>6, <3>1, FirstPageFacts
        <3>3. \A o \in Objects : cur < source.seq[o] => o \in Changed
            BY <1>0 DEF Changed
        <3> QED BY <2>1, <2>4, <3>1, <3>2, <3>3 DEF Pages, Inside, Seen
    <2> QED BY <2>5, <2>6
<1>12. ASSUME Collect PROVE Pages'
    <2>1. /\ Inside /\ pc = "collect" /\ pc' = "apply" /\ UNCHANGED <<docs, row, cur, last, dirty>>
          /\ page' = [o \in DOMAIN page |-> source.ver[o]]
        BY <1>12, InsideSteps DEF Collect, store
    <2>2. Trusted' => Trusted
        BY <2>1 DEF Inside, Trusted, Emptying
    <2>3. Trusted' => Synced(row.seq)'
        BY <1>b, <2>1, <2>2 DEF Inside
    <2>4. DOMAIN page' = DOMAIN page /\ \A o \in DOMAIN page' : page'[o] = source.ver[o]
        BY <2>1
    <2> QED BY <2>1, <2>3, <2>4 DEF Pages, Paging, Inside, Seen
<1>13. ASSUME ApplyPage PROVE Pages'
    <2>1. UNCHANGED <<source, restored, row, cur, page, last, dirty>> /\ pc = "apply"
        BY <1>13 DEF ApplyPage, feed
    <2>2. cur = row.seq /\ cur < last
        BY <2>1 DEF Base, Paging
    <2>3. pc' \in {"read", "advance"} /\ (Trusted' => Trusted)
        BY <1>13, <2>1 DEF ApplyPage, Trusted, Emptying
    <2>4. CASE pc' = "read"
        <3>1. docs' = docs
            BY <1>13, <2>4 DEF ApplyPage
        <3> QED BY <1>a, <1>b, <2>1, <2>3, <2>4, <3>1 DEF Paging
    <2>5. CASE pc' = "advance"
        <3>1. PICK blind \in BOOLEAN :
                docs' = [o \in Objects |-> IF o \in DOMAIN page THEN Landed(o, blind) ELSE docs[o]]
            BY <1>13, <2>5 DEF ApplyPage
        <3>2. \A o \in Objects : docs'[o].ver = IF o \in DOMAIN page THEN page[o] ELSE docs[o].ver
            BY <3>1, LandedFacts
        <3>3. ASSUME Trusted, NEW o \in Objects, source.seq[o] <= last
              PROVE  docs'[o].ver = source.ver[o]
            <4>1. CASE o \in DOMAIN page
                BY <2>1, <3>2, <3>3, <4>1 DEF Pages
            <4>2. CASE o \notin DOMAIN page
                <5>1. source.seq[o] <= cur
                    BY <1>0, <2>1, <3>3, <4>2 DEF Pages, Paging
                <5> QED BY <2>2, <3>2, <3>3, <4>2, <5>1 DEF Pages, Synced
            <4> QED BY <4>1, <4>2
        <3>4. Trusted' => Synced(row.seq)' /\ Synced(last)'
            BY <1>0, <2>1, <2>2, <2>3, <3>3 DEF Synced
        <3> QED BY <2>1, <2>5, <3>4 DEF Pages, Paging, Seen
    <2> QED BY <2>3, <2>4, <2>5
<1>14. ASSUME AdvanceCursor PROVE Pages'
    <2>1. UNCHANGED <<source, restored, docs, dirty>> /\ pc = "advance"
        BY <1>14 DEF AdvanceCursor, feed
    <2>2. CASE pc' = "read"
        <3>1. row' = row
            BY <1>14, <2>2 DEF AdvanceCursor
        <3> QED BY <1>a, <1>b, <2>1, <2>2, <3>1 DEF Paging, Trusted, Emptying
    <2>3. CASE pc' # "read"
        <3>1. row'.seq = last /\ (Trusted' => Trusted)
            BY <1>14, <2>3, AdvanceFacts
        <3>2. pc' = IF Cardinality(DOMAIN page) < Batch THEN "idle" ELSE "fetch"
            BY <1>14, <2>3 DEF AdvanceCursor
        <3>3. Trusted' => Synced(row.seq)'
            BY <2>1, <3>1 DEF Pages, Synced
        <3>4. pc' = "idle" /\ ~dirty' => Seen(row.seq)'
            BY <2>1, <3>1, <3>2 DEF Pages, Paging, Seen
        <3> QED BY <3>2, <3>3, <3>4 DEF Pages, Paging
    <2> QED BY <2>2, <2>3
<1>15. ASSUME EmbedRound \/ SetVectors PROVE Pages'
    <2>1. Inside
        BY <1>15, InsideSteps
    <2>2. UNCHANGED <<row, pc, cur, page, last, dirty>>
        BY <1>15 DEF EmbedRound, SetVectors, store
    <2> QED BY <2>1, <2>2 DEF Pages, Inside, Trusted, Emptying, Paging, Synced, Seen
<1> QED BY <1>1, <1>2, <1>3, <1>4, <1>5, <1>6, <1>7, <1>8, <1>9, <1>10, <1>11, <1>12, <1>13, <1>14,
           <1>15 DEF IndexNext, Advance

(* alignIndex and advancePages: a worker at rest, whose alignment failed in *)
(* nothing, has every object of the space in its index as it is, for any    *)
(* space, page size and number of changes and runs, each ending anywhere.   *)
THEOREM RestIsTheSpace ==
    ASSUME Recoverable
    PROVE  IndexSpec => []IndexMatches
<1> DEFINE Inv == IndexTypeOK /\ Base /\ Axis /\ Epoch /\ Pages
<1>1. IndexInit => Inv
    <2> SUFFICES ASSUME IndexInit PROVE Axis /\ Epoch /\ Pages
        BY IndexInvInit
    <2>1. /\ source = Empty /\ backup = Empty /\ row = NoRow /\ pc = "down" /\ ~restored /\ ~aligned
          /\ \A o \in Objects : docs[o] = NoDoc
        BY DEF IndexInit
    <2>2. /\ source.gen = 1 /\ source.max = 0 /\ row.seq = 0 /\ row.gen = 0
          /\ \A o \in Objects : docs[o].ver = 0 /\ source.ver[o] = 0
        BY <2>1 DEF Empty, NoRow, NoDoc
    <2> QED BY <2>1, <2>2 DEF Axis, Epoch, Pages, Paging, Emptying, Started, Synced
<1>2. Inv /\ [IndexNext]_index => Inv'
    <2> SUFFICES ASSUME Inv, [IndexNext]_index PROVE Inv'
        OBVIOUS
    <2>1. CASE IndexNext
        <3>1. pc = "advance" => last <= source.max
            BY DEF Pages, Paging
        <3> QED BY <2>1, <3>1, BaseStep, EpochStep, PagesStep
    <2>2. CASE UNCHANGED index
        <3>1. (IndexTypeOK /\ Base)'
            BY <2>2 DEF index, feed, store, IndexTypeOK, Base, Paging, Started, Texts
        <3>2. (Axis /\ Epoch)'
            BY <2>2 DEF index, feed, store, Axis, Epoch, Trusted, Emptying, Started
        <3>3. Pages'
            BY <2>2 DEF index, feed, store, Pages, Trusted, Emptying, Paging, Synced, Seen
        <3> QED BY <3>1, <3>2, <3>3
    <2> QED BY <2>1, <2>2
<1>3. Inv => IndexMatches
    <2> SUFFICES ASSUME Inv, pc = "idle", ~dirty, aligned, NEW o \in Objects
                 PROVE  docs[o].ver = source.ver[o]
        BY DEF IndexMatches
    <2>1. Trusted
        BY DEF Trusted, Emptying, Epoch, Axis
    <2> QED BY <2>1 DEF Pages, Synced, Seen
<1> QED BY <1>1, <1>2, <1>3, PTL DEF IndexSpec
=============================================================================
