-------------------------- MODULE EmbeddingProofs ---------------------------
(***************************************************************************)
(* Proofs about the local embedder's supervisor.  Only the owner of the    *)
(* slot works on a process, so the steps fall into few kinds: those of an  *)
(* actor beside the slot, the hand-over of the slot, a child taken out of  *)
(* the supervisor, a process reaped, and nine steps of the slot's owner.   *)
(* The invariant is EmbedWorker's IInv; each of its parts has a lemma that *)
(* goes through these kinds.  The queue and the counters are CountInv,     *)
(* where a step is the move of one actor and of the sender it lets in.     *)
(***************************************************************************)
EXTENDS ModelDownload, EmbedWorker, FiniteSetTheorems, SequenceTheorems, TLAPS

LEMMA Names ==
    ASSUME WorkerConstants
    PROVE  /\ Closer \in Actors /\ Threader \in Actors /\ Calls \subseteq Actors
           /\ Docs \subseteq Calls /\ Queries \subseteq Calls
           /\ Closer # Threader /\ Closer \notin Calls /\ Threader \notin Calls /\ Free \notin Actors
           /\ \A a \in Actors : a = Closer \/ a = Threader \/ a \in Calls
           /\ \A a \in Actors : StagesOf(a) \subseteq Pcs
BY DEF WorkerConstants, Actors, Calls, Closer, Threader, Free, StagesOf, Pcs

-----------------------------------------------------------------------------
(* The operators the steps are made of.                                     *)

LEMMA GotoEffect ==
    ASSUME pc \in [Actors -> Pcs], NEW a \in Actors, NEW l, Goto(a, l)
    PROVE  pc'[a] = l /\ \A b \in Actors \ {a} : pc'[b] = pc[b]
BY DEF Goto

LEMMA GotoTyped ==
    ASSUME pc \in [Actors -> Pcs], NEW a \in Actors, NEW l \in Pcs, Goto(a, l)
    PROVE  pc' \in [Actors -> Pcs]
BY DEF Goto

(* A hand-over: the actor leaves the slot and the first sender blocked gets *)
(* it.                                                                      *)
HandsTo(a) ==
    /\ holder' \in Calls \cup {Closer, Free}
    /\ pc' \in [Actors -> Pcs] /\ queue' \in Seq(Calls \cup {Closer})
    /\ pc'[a] \in StagesOf(a) /\ (holder' # a => pc'[a] \notin Serving)
    /\ holder' # Free => pc'[holder'] = "granted"
    /\ \A b \in Actors \ {a, holder'} : pc'[b] = pc[b]
    /\ CloserQueued' \/ holder' = Closer => CloserQueued

LEMMA HandOverEffect ==
    ASSUME WorkerConstants, Typed, NEW a \in Calls \cup {Closer, Threader},
           NEW next \in StagesOf(a) \ Serving, HandOver(a, next)
    PROVE  HandsTo(a) /\ pc'[a] \in {next, "granted"}
<1>0. /\ pc \in [Actors -> Pcs] /\ queue \in Seq(Calls \cup {Closer}) /\ Calls \cup {Closer} \subseteq Actors
      /\ Free \notin Actors /\ next \in Pcs /\ a \in Actors
    BY Names DEF Typed
<1>1. CASE queue = <<>>
    <2>1. pc' = [pc EXCEPT ![a] = next] /\ holder' = Free /\ queue' = queue
        BY <1>1 DEF HandOver
    <2> QED BY <1>0, <2>1 DEF HandsTo, CloserQueued
<1>2. CASE queue # <<>>
    <2>1. /\ Head(queue) \in Calls \cup {Closer} /\ Tail(queue) \in Seq(Calls \cup {Closer})
          /\ Head(queue) = queue[1] /\ 1 \in 1..Len(queue)
        BY <1>0, <1>2
    <2>2. /\ pc' = [pc EXCEPT ![a] = next, ![Head(queue)] = "granted"]
          /\ holder' = Head(queue) /\ queue' = Tail(queue)
        BY <1>2 DEF HandOver
    <2>3. \A i \in 1..Len(Tail(queue)) : i + 1 \in 1..Len(queue) /\ Tail(queue)[i] = queue[i + 1]
        BY <1>0, <1>2, HeadTailProperties
    <2>4. CloserQueued' \/ holder' = Closer => CloserQueued
        BY <2>1, <2>2, <2>3 DEF CloserQueued
    <2>5. "granted" \in Pcs /\ \A b \in Calls \cup {Closer} : "granted" \in StagesOf(b)
        BY Names DEF Pcs, StagesOf
    <2>6. /\ pc' \in [Actors -> Pcs] /\ pc'[Head(queue)] = "granted"
          /\ Head(queue) # a => pc'[a] = next
          /\ \A b \in Actors \ {a, Head(queue)} : pc'[b] = pc[b]
        BY <1>0, <2>1, <2>2, <2>5
    <2> QED BY <1>0, <2>1, <2>2, <2>4, <2>5, <2>6 DEF HandsTo
<1> QED BY <1>1, <1>2

(* A sender that leaves the queue brings nobody into it.                    *)
LEMMA UnqueuedKeeps ==
    ASSUME Typed, NEW a, Unqueued(a)
    PROVE  queue' \in Seq(Calls \cup {Closer}) /\ (CloserQueued' => CloserQueued)
<1> DEFINE S == Calls \cup {Closer}
<1>1. PICK k \in 1..Len(queue) : queue' = SubSeq(queue, 1, k - 1) \o SubSeq(queue, k + 1, Len(queue))
    BY DEF Unqueued
<1> DEFINE u == SubSeq(queue, 1, k - 1)
           v == SubSeq(queue, k + 1, Len(queue))
<1>2. queue \in Seq(S)
    BY DEF Typed
<1> HIDE DEF S
<1>3. k \in Int /\ Len(queue) \in Nat /\ \A j \in 1..Len(queue) : queue[j] \in S
    BY <1>2
<1>4. /\ u \in Seq(S) /\ Len(u) = k - 1 /\ \A i \in 1..k - 1 : u[i] = queue[i]
      /\ v \in Seq(S) /\ Len(v) = Len(queue) - k /\ \A i \in 1..Len(queue) - k : v[i] = queue[k + i]
    BY <1>3, SubSeqProperties
<1>5. queue' = u \o v
    BY <1>1
<1> HIDE DEF u, v
<1>6. /\ queue' \in Seq(S) /\ Len(queue') = Len(u) + Len(v)
      /\ \A i \in 1..Len(u) + Len(v) : queue'[i] = IF i <= Len(u) THEN u[i] ELSE v[i - Len(u)]
    BY <1>4, <1>5, ConcatProperties
<1>7. /\ Len(queue') = Len(queue) - 1
      /\ \A i \in 1..Len(queue) - 1 : queue'[i] = IF i <= k - 1 THEN u[i] ELSE v[i - (k - 1)]
    BY <1>3, <1>4, <1>6
<1>8. ASSUME NEW i \in 1..Len(queue) - 1 PROVE \E j \in 1..Len(queue) : queue'[i] = queue[j]
    <2>1. CASE i <= k - 1
        <3>1. i \in 1..k - 1 /\ i \in 1..Len(queue) /\ queue'[i] = u[i]
            BY <1>3, <1>7, <2>1
        <3> QED BY <1>4, <3>1
    <2>2. CASE ~(i <= k - 1)
        <3>1. /\ i - (k - 1) \in 1..Len(queue) - k /\ i + 1 \in 1..Len(queue) /\ k + (i - (k - 1)) = i + 1
              /\ queue'[i] = v[i - (k - 1)]
            BY <1>3, <1>7, <2>2
        <3> QED BY <1>4, <3>1
    <2> QED BY <2>1, <2>2
<1> QED BY <1>6, <1>7, <1>8 DEF CloserQueued, S

LEMMA ReapEffect ==
    ASSUME WorkerConstants, Typed, NEW a \in Actors, Reap(a)
    PROVE  /\ alive' = alive \ {cur[a]} /\ dead' = dead \ {cur[a]}
           /\ wire' \in [Procs -> Seq(Calls)] /\ resp' \in [Procs -> Seq(Calls)]
           /\ spec' \in [Procs -> Specs]
           /\ \A p \in Procs : /\ p = cur[a] => wire'[p] = <<>> /\ resp'[p] = <<>>
                               /\ p # cur[a] => wire'[p] = wire[p] /\ resp'[p] = resp[p]
           /\ cur' \in [Actors -> Procs \cup {NoProc}] /\ cur'[a] = NoProc
           /\ \A b \in Actors \ {a} : cur'[b] = cur[b]
<1>0. InitialSpec \in Specs /\ <<>> \in Seq(Calls)
    BY DEF InitialSpec, Specs, WorkerConstants
<1>1. cur' \in [Actors -> Procs \cup {NoProc}] /\ cur'[a] = NoProc /\ \A b \in Actors \ {a} : cur'[b] = cur[b]
    BY DEF Typed, Reap
<1>2. CASE cur[a] = NoProc
    <2>1. UNCHANGED <<wire, resp, spec>> /\ cur[a] \notin Procs
        BY <1>2 DEF Reap, WorkerConstants
    <2> QED BY <1>1, <2>1 DEF Typed, Reap
<1>3. CASE cur[a] # NoProc
    <2>1. /\ cur[a] \in Procs /\ wire' = [wire EXCEPT ![cur[a]] = <<>>] /\ resp' = [resp EXCEPT ![cur[a]] = <<>>]
          /\ spec' = [spec EXCEPT ![cur[a]] = InitialSpec]
        BY <1>3 DEF Reap, Typed
    <2>2. wire' \in [Procs -> Seq(Calls)] /\ resp' \in [Procs -> Seq(Calls)] /\ spec' \in [Procs -> Specs]
        BY <1>0, <2>1 DEF Typed
    <2> QED BY <1>1, <2>1, <2>2 DEF Typed, Reap
<1> QED BY <1>2, <1>3

LEMMA TakeEffect ==
    ASSUME Typed, NEW a \in Actors, NEW l, TakeChild(a, l)
    PROVE  /\ Goto(a, l) /\ child' = NoProc /\ live' = NoProc
           /\ cur' \in [Actors -> Procs \cup {NoProc}] /\ cur'[a] = child
           /\ \A b \in Actors \ {a} : cur'[b] = cur[b]
BY DEF Typed, TakeChild

LEMMA ReleasedWhere ==
    ASSUME WorkerConstants, NEW a \in Actors, pc[a] \in StagesOf(a), pc[a] = "release"
    PROVE  Released(a) \in StagesOf(a) \ Serving /\ (Released(a) = "closed" => a = Closer)
BY Names DEF Released, NextFrame, StagesOf, Pcs, Serving, Working, Taken, OnChild

-----------------------------------------------------------------------------
(* The kinds of steps.                                                      *)

(* Only the owner of the slot changes the child, the processes and what     *)
(* they were started with.                                                  *)
Away ==
    /\ UNCHANGED <<child, live, alive, spec, want, cur, faulted, cpuOnly>>
    /\ dead \subseteq dead' /\ dead' \subseteq alive
    /\ closing' \in BOOLEAN /\ (closing => closing') /\ threads' \in 0..MaxThreads
    /\ got' \in [Calls -> Calls] /\ AnswersOwn'

(* A caller leaves, or a model process answers or crashes.                  *)
Outside ==
    /\ UNCHANGED <<holder, queue, pc, closing>>
    /\ UNCHANGED <<wire, resp>> \/ \E p \in Procs : Answer(p)

(* An actor that does not own the slot moves, or takes the free slot.       *)
Beside(a) ==
    /\ pc[a] \notin Serving /\ UNCHANGED <<wire, resp>>
    /\ queue' \in Seq(Calls \cup {Closer})
    /\ CloserQueued' => CloserQueued \/ a = Closer
    /\ a = Closer => closing'
    /\ \E l \in StagesOf(a) \ {"closed"} :
        /\ Goto(a, l)
        /\ \/ l \notin Serving /\ UNCHANGED holder
           \/ l \in {"granted", "stop"} /\ holder = Free /\ holder' = a
        /\ a = Closer /\ l \in {"send", "queued"} =>
               pc[a] = "send" \/ {live} \cap alive \subseteq dead'

(* The owner hands the slot over.                                           *)
LeavesSlot(a) ==
    /\ pc[a] \in Serving \ Working /\ HandsTo(a) /\ UNCHANGED <<closing, wire, resp>>
    /\ pc'[a] = "closed" => a = Closer /\ pc[a] = "release"

(* The owner takes the child, reaps what it took, or does one of the other  *)
(* steps of serve; it keeps the slot.                                       *)
Takes(a) == Stop(a) \/ (a \in Calls /\ (Retire(a) \/ FailChild(a)))
Reaps(a) == Stopped(a) \/ (a \in Calls /\ (Retired(a) \/ HandshakeFails(a) \/ FailedChild(a)))
Serves(c) ==
    \/ EnsureChild(c) \/ StartChild(c) \/ StoreLive(c) \/ LookBack(c) \/ Handshake(c)
    \/ Ready(c) \/ ReadAnswer(c) \/ StreamBreaks(c)
OwnerStep(a) == Granted(a) \/ Takes(a) \/ Reaps(a) \/ (a \in Calls /\ Serves(a))

Owns(a) ==
    /\ pc[a] \in Serving /\ UNCHANGED <<holder, queue, closing, threads>>
    /\ \E l \in StagesOf(a) \cap Serving : Goto(a, l)

LEMMA Kinds ==
    ASSUME WorkerConstants, IInv, [Next]_vars
    PROVE  \/ Away /\ (Outside \/ \E a \in Actors : Beside(a) \/ LeavesSlot(a))
           \/ \E a \in Actors : OwnerStep(a)
<1>0. /\ Docs \subseteq Calls /\ Queries \subseteq Calls /\ Calls \subseteq Actors
      /\ Closer \in Actors /\ Threader \in Actors /\ Closer \notin Calls /\ Threader \notin Calls
      /\ Closer # Threader /\ Actors = Calls \cup {Closer, Threader}
      /\ dead \subseteq alive /\ closing \in BOOLEAN /\ threads \in 0..MaxThreads /\ MaxThreads \in Nat
      /\ got \in [Calls -> Calls] /\ AnswersOwn /\ queue \in Seq(Calls \cup {Closer})
      /\ \A a \in Actors : pc[a] \in StagesOf(a)
      /\ pc[Closer] # "idle" => closing
    BY Names DEF IInv, Typed, SlotOwned, Closes, WorkerConstants, Actors
<1> USE <1>0
<1>1. ASSUME NEW d \in Docs, NEW n \in 1..Frames, EmbedDocs(d, n) PROVE Away /\ Beside(d)
    <2>1. Away
        BY <1>1 DEF EmbedDocs, Away, setup, procs, AnswersOwn
    <2>2. Beside(d)
        BY <1>1 DEF EmbedDocs, Beside, CloserQueued, StagesOf, Pcs, Serving, Working, Taken, OnChild, slot, setup, procs
    <2> QED BY <2>1, <2>2
<1>2. ASSUME NEW q \in Queries, EmbedQuery(q) PROVE Away /\ Beside(q)
    <2>1. Away
        BY <1>2 DEF EmbedQuery, Away, setup, procs, AnswersOwn
    <2>2. Beside(q)
        BY <1>2 DEF EmbedQuery, Beside, CloserQueued, StagesOf, Pcs, Serving, Working, Taken, OnChild, slot, setup, procs
    <2> QED BY <2>1, <2>2
<1>3. ASSUME NEW a \in Actors, Send(a) PROVE Away /\ Beside(a)
    <2>0. a \in Calls \cup {Closer}
        BY <1>3 DEF Send, StagesOf
    <2>1. queue' \in Seq(Calls \cup {Closer}) /\ (CloserQueued' => CloserQueued \/ a = Closer)
        <3>1. CASE queue' = queue
            BY <3>1 DEF CloserQueued
        <3>2. CASE queue' = Append(queue, a)
            BY <2>0, <3>2 DEF CloserQueued
        <3> QED BY <1>3, <3>1, <3>2 DEF Send
    <2>2. Away
        BY <1>3 DEF Send, Away, setup, procs, AnswersOwn
    <2>3. Beside(a)
        BY <1>3, <2>1 DEF Send, Beside, StagesOf, Pcs, Serving, Working, Taken, OnChild, slot, setup, procs
    <2> QED BY <2>2, <2>3
<1>4. ASSUME NEW c \in Calls, LeaveQueue(c) PROVE Away /\ Beside(c)
    <2>1. queue' \in Seq(Calls \cup {Closer}) /\ (CloserQueued' => CloserQueued)
        BY <1>4, UnqueuedKeeps DEF LeaveQueue, IInv
    <2>2. Away
        BY <1>4 DEF LeaveQueue, Away, setup, procs, AnswersOwn
    <2>3. Beside(c)
        BY <1>4, <2>1 DEF LeaveQueue, Beside, StagesOf, Pcs, Serving, Working, Taken, OnChild, slot, setup, procs
    <2> QED BY <2>2, <2>3
<1>5. ASSUME NEW c \in Calls, Begin(c) \/ Urge(c) \/ Calm(c) PROVE Away /\ Beside(c)
    <2>1. Away
        BY <1>5 DEF Begin, Urge, Calm, Away, setup, procs, AnswersOwn
    <2>2. Beside(c)
        BY <1>5 DEF Begin, Urge, Calm, Beside, CloserQueued, StagesOf, Pcs, Serving, Working, Taken, OnChild, slot, setup, procs
    <2> QED BY <2>1, <2>2
<1>6. ASSUME SetThreads \/ ThreaderTry PROVE Away /\ Beside(Threader)
    <2>1. Away
        BY <1>6 DEF SetThreads, ThreaderTry, Away, setup, procs, AnswersOwn
    <2>2. Beside(Threader)
        BY <1>6 DEF SetThreads, ThreaderTry, Beside, CloserQueued, StagesOf, Pcs, Serving, Working, Taken, OnChild, slot, setup, procs
    <2> QED BY <2>1, <2>2
<1>7. ASSUME Close \/ CloserStep PROVE Away /\ Beside(Closer)
    <2>1. Away
        BY <1>7 DEF Close, CloserStep, CloserTry, CloserKill, Away, setup, procs, AnswersOwn
    <2>2. Beside(Closer)
        BY <1>7 DEF Close, CloserStep, CloserTry, CloserKill, Beside, CloserQueued, StagesOf, Pcs, Serving, Working, Taken, OnChild, slot, setup, procs
    <2> QED BY <2>1, <2>2
<1>8. ASSUME NEW c \in Calls, CtxEnds(c) PROVE Away /\ Outside
    BY <1>8 DEF CtxEnds, Away, Outside, setup, procs, slot, AnswersOwn
<1>9. ASSUME NEW p \in Procs, Answer(p) \/ Crash(p) PROVE Away /\ Outside
    BY <1>9 DEF Answer, Crash, Away, Outside, setup, procs, slot, AnswersOwn
<1>10. ASSUME UNCHANGED vars PROVE Away /\ Outside
    BY <1>10 DEF vars, Away, Outside, setup, procs, slot, AnswersOwn
<1>11. ASSUME NEW a \in Actors, Yield(a) PROVE Away /\ LeavesSlot(a)
    <2> DEFINE next == "send"
    <2>1. HandOver(a, next) /\ pc[a] \in Serving \ Working
        BY <1>11 DEF Yield, Serving, Working, Taken, OnChild
    <2>2. next \in StagesOf(a) \ Serving /\ (next = "closed" => a = Closer /\ pc[a] = "release")
        BY <1>11, ReleasedWhere DEF Yield, StagesOf, Pcs, Serving, Working, Taken, OnChild
    <2> HIDE DEF next
    <2>3. HandsTo(a) /\ pc'[a] \in {next, "granted"}
        BY <2>1, <2>2, HandOverEffect DEF IInv
    <2>4. Away /\ UNCHANGED <<closing, wire, resp>>
        BY <1>11 DEF Yield, Away, setup, procs, AnswersOwn
    <2> QED BY <2>1, <2>2, <2>3, <2>4 DEF LeavesSlot
<1>12. ASSUME NEW a \in Actors, Release(a) PROVE Away /\ LeavesSlot(a)
    <2> DEFINE next == Released(a)
    <2>1. HandOver(a, next) /\ pc[a] \in Serving \ Working
        BY <1>12 DEF Release, Serving, Working, Taken, OnChild
    <2>2. next \in StagesOf(a) \ Serving /\ (next = "closed" => a = Closer /\ pc[a] = "release")
        BY <1>12, ReleasedWhere DEF Release, StagesOf, Pcs, Serving, Working, Taken, OnChild
    <2> HIDE DEF next
    <2>3. HandsTo(a) /\ pc'[a] \in {next, "granted"}
        BY <2>1, <2>2, HandOverEffect DEF IInv
    <2>4. Away /\ UNCHANGED <<closing, wire, resp>>
        BY <1>12 DEF Release, Away, setup, procs, AnswersOwn
    <2> QED BY <2>1, <2>2, <2>3, <2>4 DEF LeavesSlot
<1>13. ASSUME NEW c \in Calls, Quit(c) PROVE Away /\ LeavesSlot(c)
    <2> DEFINE next == IF c \in Queries THEN "calm" ELSE "idle"
    <2>1. HandOver(c, next) /\ pc[c] \in Serving \ Working
        BY <1>13 DEF Quit, Serving, Working, Taken, OnChild
    <2>2. next \in StagesOf(c) \ Serving /\ (next = "closed" => c = Closer /\ pc[c] = "release")
        BY <1>13, ReleasedWhere DEF Quit, StagesOf, Pcs, Serving, Working, Taken, OnChild
    <2> HIDE DEF next
    <2>3. HandsTo(c) /\ pc'[c] \in {next, "granted"}
        BY <2>1, <2>2, HandOverEffect DEF IInv
    <2>4. Away /\ UNCHANGED <<closing, wire, resp>>
        BY <1>13 DEF Quit, Away, setup, procs, AnswersOwn
    <2> QED BY <2>1, <2>2, <2>3, <2>4 DEF LeavesSlot
<1>14. ASSUME NEW c \in Calls, CallStep(c)
       PROVE  OwnerStep(c) \/ (Away /\ (Beside(c) \/ LeavesSlot(c)))
    <2>1. \/ Begin(c) \/ Urge(c) \/ LeaveQueue(c) \/ Quit(c) \/ Calm(c)
          \/ Takes(c) \/ Reaps(c) \/ Serves(c)
        BY <1>14 DEF CallStep, Takes, Reaps, Serves
    <2> QED BY <1>4, <1>5, <1>13, <2>1 DEF OwnerStep
<1>15. ASSUME NEW a \in Actors, ActorStep(a)
       PROVE  OwnerStep(a) \/ (Away /\ (Beside(a) \/ LeavesSlot(a)))
    <2>1. \/ Send(a) \/ Granted(a) \/ Yield(a) \/ Release(a) \/ Takes(a) \/ Reaps(a)
          \/ a \in Calls /\ CallStep(a)
        BY <1>15 DEF ActorStep, Takes, Reaps
    <2> QED BY <1>3, <1>11, <1>12, <1>14, <2>1 DEF OwnerStep
<1> QED BY <1>1, <1>2, <1>6, <1>7, <1>8, <1>9, <1>10, <1>15 DEF Next

(* What the actors do to their stages.                                      *)
LEMMA AwayEffect ==
    ASSUME WorkerConstants, IInv, Outside \/ \E a \in Actors : Beside(a) \/ LeavesSlot(a)
    PROVE  \A b \in Actors : pc'[b] = pc[b] \/ (pc[b] \notin Working /\ pc'[b] \notin Working)
<1>0. pc \in [Actors -> Pcs] /\ \A a \in Actors : pc[a] \in Serving <=> holder = a
    BY DEF IInv, Typed, SlotOwned
<1>1. CASE Outside
    BY <1>1 DEF Outside
<1>2. ASSUME NEW a \in Actors, Beside(a)
      PROVE  \A b \in Actors : pc'[b] = pc[b] \/ (pc[b] \notin Working /\ pc'[b] \notin Working)
    BY <1>0, <1>2, GotoEffect DEF Beside, Serving, Working, Taken, OnChild
<1>3. ASSUME NEW a \in Actors, LeavesSlot(a)
      PROVE  \A b \in Actors : pc'[b] = pc[b] \/ (pc[b] \notin Working /\ pc'[b] \notin Working)
    BY <1>0, <1>3, Names DEF LeavesSlot, HandsTo, Serving, Working, Taken, OnChild
<1> QED BY <1>1, <1>2, <1>3

LEMMA OwnerMoves ==
    ASSUME WorkerConstants, IInv, NEW a \in Actors, OwnerStep(a) PROVE Owns(a)
<1>0. pc[a] \in StagesOf(a) /\ Closer \notin Calls /\ Threader \notin Calls /\ Closer # Threader
    BY Names DEF IInv, SlotOwned
<1>1. ASSUME Granted(a) PROVE Owns(a)
    BY <1>0, <1>1, Names DEF Granted, Owns, StagesOf, Pcs, setup, Serving, Working, Taken, OnChild
<1>2. ASSUME Takes(a) PROVE Owns(a)
    BY <1>0, <1>2 DEF Takes, Stop, Retire, FailChild, TakeChild, Owns, StagesOf, Pcs, slot, setup, Serving, Working, Taken, OnChild
<1>3. ASSUME Reaps(a) PROVE Owns(a)
    BY <1>0, <1>3 DEF Reaps, Stopped, Retired, HandshakeFails, FailedChild, Fails, Owns, StagesOf, Pcs, slot, setup, Serving, Working, Taken, OnChild
<1>4. ASSUME a \in Calls, Serves(a) PROVE Owns(a)
    BY <1>0, <1>4 DEF Serves, EnsureChild, StartChild, StoreLive, LookBack, Handshake, Ready, ReadAnswer,
       StreamBreaks, Fails, Owns, StagesOf, Pcs, slot, setup, Serving, Working, Taken, OnChild
<1> QED BY <1>1, <1>2, <1>3, <1>4 DEF OwnerStep

-----------------------------------------------------------------------------
(* The parts of the invariant.                                              *)

(* What every part needs of the state before the step.                      *)
Facts ==
    /\ pc \in [Actors -> Pcs] /\ Calls \subseteq Actors /\ Free \notin Actors
    /\ Closer \in Actors /\ Threader \in Actors /\ Closer \notin Calls /\ Threader \notin Calls
    /\ child \in Procs \cup {NoProc} /\ live \in Procs \cup {NoProc} /\ NoProc \notin Procs
    /\ alive \subseteq Procs /\ dead \subseteq alive
    /\ spec \in [Procs -> Specs] /\ want \in [Actors -> Specs]
    /\ cur \in [Actors -> Procs \cup {NoProc}]
    /\ closing \in BOOLEAN /\ cpuOnly \in BOOLEAN /\ threads \in 0..MaxThreads
    /\ \A a \in Actors : pc[a] \in StagesOf(a)
    /\ \A a, b \in Actors : pc[a] \in Serving /\ pc[b] \in Serving => a = b

LEMMA FactsHold == ASSUME WorkerConstants, IInv PROVE Facts
<1>1. \A a, b \in Actors : pc[a] \in Serving /\ pc[b] \in Serving => a = b
    BY DEF IInv, SlotOwned
<1> QED BY <1>1, Names DEF Facts, IInv, Typed, SlotOwned, WorkerConstants

(* Reaping leaves no process: the owner of the slot had the only one.       *)
LEMMA ReapEmpties ==
    ASSUME WorkerConstants, IInv, NEW a \in Actors, pc[a] \in Taken, Reap(a)
    PROVE  alive' = {} /\ dead' = {} /\ child = NoProc
<1>1. child = NoProc /\ Facts
    BY FactsHold DEF IInv, ProcOwned
<1>2. ASSUME NEW p \in alive PROVE p = cur[a]
    <2>1. PICK b \in Actors : cur[b] = p
        BY <1>1 DEF Facts, IInv, ProcOwned
    <2>2. pc[b] \in Taken
        BY <1>1, <2>1 DEF Facts, IInv, ProcOwned
    <2> QED BY <1>1, <2>1, <2>2 DEF Facts, Serving, Working
<1> QED BY <1>1, <1>2, ReapEffect DEF Facts, IInv

(* One actor owns the slot, at the stages of its kind.                      *)
LEMMA SlotOwnedStep == ASSUME WorkerConstants, IInv, [Next]_vars PROVE SlotOwned'
<1>0. Facts /\ SlotOwned
    BY FactsHold DEF IInv
<1> USE <1>0 DEF Facts
<1>1. CASE Outside
    BY <1>1 DEF Outside, SlotOwned
<1>2. ASSUME NEW a \in Actors, Beside(a) PROVE SlotOwned'
    BY <1>2, GotoEffect, Names DEF Beside, SlotOwned, Serving
<1>3. ASSUME NEW a \in Actors, LeavesSlot(a) PROVE SlotOwned'
    <2>1. \A b \in Calls \cup {Closer} : "granted" \in StagesOf(b) \cap Serving
        BY Names DEF StagesOf, Pcs, Serving
    <2> QED BY <1>3, <2>1, Names DEF LeavesSlot, HandsTo, SlotOwned
<1>4. ASSUME NEW a \in Actors, Owns(a) PROVE SlotOwned'
    BY <1>4, GotoEffect DEF Owns, SlotOwned
<1> QED BY <1>1, <1>2, <1>3, <1>4, Kinds, OwnerMoves

(* A process that has not been reaped is the child or in the owner's hand.  *)
LEMMA ProcOwnedStep == ASSUME WorkerConstants, IInv, [Next]_vars PROVE ProcOwned'
<1>0. Facts /\ ProcOwned
    BY FactsHold DEF IInv
<1> USE <1>0 DEF Facts
<1>1. ASSUME Away, Outside \/ \E a \in Actors : Beside(a) \/ LeavesSlot(a) PROVE ProcOwned'
    BY <1>1, AwayEffect DEF Away, ProcOwned, Working, Taken, OnChild
<1>2. ASSUME NEW a \in Actors, Granted(a) PROVE ProcOwned'
    BY <1>2, GotoEffect DEF Granted, ProcOwned, procs, Serving, Working, Taken, OnChild
<1>3. ASSUME NEW a \in Actors, Takes(a) PROVE ProcOwned'
    <2>1. \E l \in Taken \ {"store", "lookback", "handshake"} : /\ TakeChild(a, l) /\ (l # "stopped" => child # NoProc)
        BY <1>3 DEF Takes, Stop, Retire, FailChild, Taken, ProcOwned, OnChild
    <2>2. pc[a] \in Serving \ Taken /\ UNCHANGED alive
        BY <1>3 DEF Takes, Stop, Retire, FailChild, procs, Serving, Working, Taken, OnChild
    <2> QED BY <2>1, <2>2, TakeEffect, GotoEffect DEF ProcOwned, IInv, Serving, Working, Taken, OnChild
<1>4. ASSUME NEW a \in Actors, Reaps(a) PROVE ProcOwned'
    <2>1. Reap(a) /\ pc[a] \in Taken /\ UNCHANGED child /\ \E l \in {"start", "release"} : Goto(a, l)
        BY <1>4 DEF Reaps, Stopped, Retired, HandshakeFails, FailedChild, Fails, Taken
    <2>2. alive' = {} /\ child = NoProc
        BY <2>1, ReapEmpties
    <2>3. cur'[a] = NoProc /\ \A b \in Actors \ {a} : cur'[b] = cur[b]
        BY <2>1, ReapEffect DEF IInv
    <2>4. pc'[a] \in {"start", "release"} /\ \A b \in Actors \ {a} : pc'[b] = pc[b] /\ pc[b] \notin Serving
        BY <2>1, GotoEffect DEF Serving, Working
    <2> QED BY <2>1, <2>2, <2>3, <2>4 DEF ProcOwned, Serving, Working, Taken, OnChild
<1>5. ASSUME NEW c \in Calls, Serves(c) PROVE ProcOwned'
    <2>1. CASE EnsureChild(c)
        BY <2>1, GotoEffect DEF EnsureChild, Fails, ProcOwned, procs, Serving, Working, Taken, OnChild
    <2>2. CASE StartChild(c)
        BY <2>2, GotoEffect DEF StartChild, Fails, ProcOwned, Serving, Working, Taken, OnChild
    <2>3. CASE StoreLive(c)
        BY <2>3, GotoEffect DEF StoreLive, ProcOwned, procs, Serving, Working, Taken, OnChild
    <2>4. CASE LookBack(c)
        BY <2>4, GotoEffect DEF LookBack, ProcOwned, Serving, Working, Taken, OnChild
    <2>5. CASE Handshake(c)
        BY <2>5, GotoEffect DEF Handshake, ProcOwned, procs, Serving, Working, Taken, OnChild
    <2>6. CASE Ready(c) \/ ReadAnswer(c) \/ StreamBreaks(c)
        BY <2>6, GotoEffect DEF Ready, ReadAnswer, StreamBreaks, Fails, ProcOwned, procs, Serving, Working, Taken, OnChild
    <2> QED BY <1>5, <2>1, <2>2, <2>3, <2>4, <2>5, <2>6 DEF Serves
<1> QED BY <1>1, <1>2, <1>3, <1>4, <1>5, Kinds DEF OwnerStep

(* Only the owner of the slot streams, with the child or with the process   *)
(* it took.                                                                 *)
Streaming == {"await", "fail", "failed", "killed"}
StreamOf(c) == IF pc[c] \in {"await", "fail"} THEN child ELSE cur[c]
Empty == \A p \in Procs : wire[p] = <<>> /\ resp[p] = <<>>

LEMMA OneStream ==
    ASSUME Facts, WireOwned, NEW a \in Actors, pc[a] \in Serving
    PROVE  /\ pc[a] \notin Streaming \/ a \notin Calls => Empty
           /\ \A p \in Procs \ {StreamOf(a)} : wire[p] = <<>> /\ resp[p] = <<>>
<1>1. ASSUME NEW p \in Procs, wire[p] # <<>> \/ resp[p] # <<>>
      PROVE  a \in Calls /\ pc[a] \in Streaming /\ p = StreamOf(a)
    <2>1. PICK c \in Calls : pc[c] \in Streaming /\ p = StreamOf(c)
        BY <1>1 DEF WireOwned, Streaming, StreamOf
    <2>2. c = a
        BY <2>1 DEF Facts, Streaming, Serving, Working, Taken, OnChild
    <2> QED BY <2>1, <2>2
<1> QED BY <1>1 DEF Empty

(* A stream carries the frame of the call that waits, and nothing else.     *)
LEMMA WireOwnedStep == ASSUME WorkerConstants, IInv, [Next]_vars PROVE WireOwned'
<1>0. /\ Facts /\ WireOwned /\ wire \in [Procs -> Seq(Calls)] /\ resp \in [Procs -> Seq(Calls)]
    BY FactsHold DEF IInv, Typed
<1> USE <1>0 DEF Facts
<1>1. ASSUME Away, Outside \/ \E a \in Actors : Beside(a) \/ LeavesSlot(a), UNCHANGED <<wire, resp>>
      PROVE  WireOwned'
    <2>1. \A c \in Calls : pc[c] \in Streaming \/ pc'[c] \in Streaming => pc'[c] = pc[c]
        BY <1>1, AwayEffect DEF Streaming, Working, Taken, OnChild
    <2>2. ASSUME NEW p \in Procs, wire[p] # <<>> \/ resp[p] # <<>>
          PROVE  \E c \in Calls : \/ pc'[c] \in {"await", "fail"} /\ child = p
                                  \/ pc'[c] \in {"failed", "killed"} /\ cur[c] = p
        <3>1. PICK c \in Calls : \/ pc[c] \in {"await", "fail"} /\ child = p
                                 \/ pc[c] \in {"failed", "killed"} /\ cur[c] = p
            BY <2>2 DEF WireOwned
        <3>2. pc'[c] = pc[c]
            BY <2>1, <3>1 DEF Streaming
        <3> QED BY <3>1, <3>2
    <2> QED BY <1>1, <2>1, <2>2 DEF WireOwned, Away, Streaming
<1>2. ASSUME NEW p \in Procs, Answer(p) PROVE WireOwned'
    <2>1. /\ wire[p] # <<>> /\ UNCHANGED <<pc, child, cur>>
          /\ resp' = [resp EXCEPT ![p] = Append(@, Head(wire[p]))] /\ wire' = [wire EXCEPT ![p] = Tail(@)]
        BY <1>2 DEF Answer
    <2>2. ASSUME NEW c \in Calls, pc[c] = "await"
          PROVE  \/ wire'[child] = <<c>> /\ resp'[child] = <<>>
                 \/ wire'[child] = <<>> /\ resp'[child] = <<c>>
        <3>1. Head(<<c>>) = c /\ Tail(<<c>>) = <<>> /\ Append(<<>>, c) = <<c>>
            OBVIOUS
        <3>2. CASE child = p
            BY <2>1, <2>2, <3>1, <3>2 DEF WireOwned
        <3>3. CASE child # p
            BY <2>1, <2>2, <3>3 DEF WireOwned
        <3> QED BY <3>2, <3>3
    <2>3. \A q \in Procs : wire'[q] # <<>> \/ resp'[q] # <<>> => wire[q] # <<>> \/ resp[q] # <<>>
        BY <2>1
    <2> QED BY <2>1, <2>2, <2>3 DEF WireOwned
<1>3. ASSUME NEW a \in Actors, pc[a] \in Serving, Empty', \E l \in Pcs \ {"await"} : Goto(a, l) PROVE WireOwned'
    BY <1>3, GotoEffect DEF WireOwned, Empty, Serving, Working, OnChild
<1>4. ASSUME NEW a \in Actors, Granted(a) \/ Stop(a) PROVE WireOwned'
    <2>1. pc[a] \in Serving \ Streaming /\ UNCHANGED <<wire, resp>> /\ \E l \in Pcs \ {"await"} : Goto(a, l)
        BY <1>4 DEF Granted, Stop, TakeChild, Pcs, Streaming, procs, Serving, Working, Taken, OnChild
    <2> QED BY <1>3, <2>1, OneStream DEF Empty
<1>5. ASSUME NEW c \in Calls, \/ EnsureChild(c) \/ Retire(c) \/ StartChild(c) \/ StoreLive(c) \/ LookBack(c)
                              \/ Handshake(c) \/ (Ready(c) /\ ctxDone[c])
      PROVE  WireOwned'
    <2>1. pc[c] \in Serving \ Streaming /\ UNCHANGED <<wire, resp>> /\ \E l \in Pcs \ {"await"} : Goto(c, l)
        BY <1>5 DEF EnsureChild, Retire, TakeChild, StartChild, StoreLive, LookBack, Handshake, Ready, Fails,
           Pcs, Streaming, procs, Serving, Working, Taken, OnChild
    <2> QED BY <1>3, <2>1, OneStream DEF Empty
<1>6. ASSUME NEW a \in Actors, Reaps(a) PROVE WireOwned'
    <2>1. /\ Reap(a) /\ pc[a] \in Serving /\ \E l \in Pcs \ {"await"} : Goto(a, l)
          /\ pc[a] \notin Streaming \/ StreamOf(a) = cur[a]
        BY <1>6 DEF Reaps, Stopped, Retired, HandshakeFails, FailedChild, Fails, Pcs, Streaming, StreamOf,
           Serving, Working, Taken
    <2>2. Empty'
        BY <2>1, OneStream, ReapEffect DEF Empty, IInv
    <2> QED BY <1>3, <2>1, <2>2
<1>7. ASSUME NEW c \in Calls, Ready(c), ~ctxDone[c] PROVE WireOwned'
    <2>1. /\ pc[c] = "ready" /\ wire' = [wire EXCEPT ![child] = Append(@, c)] /\ Goto(c, "await")
          /\ UNCHANGED <<resp, child>> /\ Append(<<>>, c) = <<c>>
        BY <1>7 DEF Ready
    <2>2. Empty /\ child \in Procs
        BY <2>1, OneStream DEF Streaming, Serving, Working, OnChild, IInv, ProcOwned
    <2>3. pc'[c] = "await" /\ \A d \in Calls \ {c} : pc'[d] # "await"
        BY <2>1, GotoEffect DEF Serving, Working, OnChild
    <2> QED BY <2>1, <2>2, <2>3 DEF WireOwned, Empty
<1>8. ASSUME NEW c \in Calls, ReadAnswer(c) PROVE WireOwned'
    <2>1. /\ pc[c] = "await" /\ resp[child] # <<>> /\ resp' = [resp EXCEPT ![child] = Tail(@)]
          /\ UNCHANGED wire /\ Goto(c, "release") /\ "release" \in Pcs
        BY <1>8 DEF ReadAnswer, Pcs
    <2>2. wire[child] = <<>> /\ resp[child] = <<c>> /\ Tail(<<c>>) = <<>>
        BY <2>1 DEF WireOwned
    <2>3. Empty'
        BY <2>1, <2>2, OneStream DEF Empty, StreamOf, Serving, Working, OnChild
    <2> QED BY <1>3, <2>1, <2>3 DEF Serving, Working, OnChild
<1>9. ASSUME NEW c \in Calls, StreamBreaks(c) \/ FailChild(c) PROVE WireOwned'
    <2>1. /\ pc[c] \in {"await", "fail"} /\ UNCHANGED <<wire, resp>>
          /\ \/ Goto(c, "fail") /\ UNCHANGED child
             \/ (\E l \in {"failed", "killed"} : Goto(c, l)) /\ cur' = [cur EXCEPT ![c] = child]
        BY <1>9 DEF StreamBreaks, FailChild, TakeChild, procs
    <2>2. \A p \in Procs \ {child} : wire[p] = <<>> /\ resp[p] = <<>>
        BY <2>1, OneStream DEF StreamOf, Serving, Working, OnChild
    <2>3. \/ pc'[c] = "fail" /\ child' = child
          \/ pc'[c] \in {"failed", "killed"} /\ cur'[c] = child
        BY <2>1, GotoEffect
    <2>4. \A d \in Calls : pc'[d] # "await"
        BY <2>1, GotoEffect DEF Serving, Working, OnChild
    <2> QED BY <2>1, <2>2, <2>3, <2>4 DEF WireOwned
<1>10. ASSUME NEW a \in Actors, OwnerStep(a) PROVE WireOwned'
    BY <1>4, <1>5, <1>6, <1>7, <1>8, <1>9, <1>10 DEF OwnerStep, Takes, Serves
<1> QED BY <1>1, <1>2, <1>10, Kinds DEF Outside, Beside, LeavesSlot

(* A fault on the GPU has demoted the run, unless its owner still has it in *)
(* hand or Close came first.                                                *)
FaultDone ==
    faulted => cpuOnly \/ (\E c \in Calls : pc[c] \in {"fail", "failed", "killed"}) \/ (closing /\ Quiet)

LEMMA FaultSeen ==
    ASSUME Facts, Demoted, NEW a \in Actors, pc[a] \in Serving \ {"fail", "failed", "killed"}, faulted
    PROVE  cpuOnly \/ (closing /\ Quiet /\ (a \in Calls => pc[a] \notin Working))
BY DEF Facts, Demoted, Quiet, Serving, Working, Taken, OnChild

LEMMA DemotedStep == ASSUME WorkerConstants, IInv, [Next]_vars PROVE Demoted'
<1>0. Facts /\ Demoted
    BY FactsHold DEF IInv
<1> USE <1>0 DEF Facts
<1>1. ASSUME Away, Outside \/ \E a \in Actors : Beside(a) \/ LeavesSlot(a) PROVE Demoted'
    <2>1. \A b \in Actors : pc'[b] = pc[b] \/ (pc[b] \notin Working /\ pc'[b] \notin Working)
        BY <1>1, AwayEffect
    <2>2. (\E c \in Calls : pc[c] \in {"fail", "failed", "killed"}) => \E c \in Calls : pc'[c] \in {"fail", "failed", "killed"}
        BY <2>1 DEF Working, Taken, OnChild
    <2>3. Quiet /\ closing => Quiet' /\ closing'
        BY <1>1, <2>1 DEF Quiet, Away
    <2>4. FaultDone'
        BY <1>1, <2>2, <2>3 DEF Demoted, FaultDone, Away
    <2> QED BY <1>1, <2>1, <2>4 DEF Demoted, FaultDone, Away, Working, Taken, OnChild
<1>2. ASSUME NEW a \in Actors, Granted(a) \/ Stop(a) PROVE Demoted'
    <2>1. /\ UNCHANGED <<alive, spec, want, cpuOnly, closing, faulted>> /\ pc[a] \in Serving \ Working
          /\ \E l \in Pcs : Goto(a, l) /\ (a \in Calls => l \notin Working)
        BY <1>2 DEF Granted, Stop, TakeChild, StagesOf, Pcs, procs, setup, Serving, Working, Taken, OnChild
    <2>2. \A c \in Calls : pc'[c] \notin Working
        BY <2>1, GotoEffect DEF Serving
    <2>3. FaultDone'
        BY <2>1, <2>2, FaultSeen DEF FaultDone, Quiet, Working, Taken, OnChild
    <2> QED BY <2>1, <2>2, <2>3 DEF Demoted, FaultDone, Working, Taken, OnChild
<1>3. ASSUME NEW a \in Actors, Stopped(a) PROVE Demoted'
    <2>1. /\ UNCHANGED <<want, cpuOnly, closing, faulted>> /\ pc[a] \in Taken \ {"failed", "killed"}
          /\ Reap(a) /\ Goto(a, "release") /\ a \notin Calls
        BY <1>3 DEF Stopped, setup, Taken, StagesOf
    <2>2. alive' = {} /\ \A c \in Calls : pc'[c] \notin Working
        BY <2>1, ReapEmpties, GotoEffect DEF Serving, Working
    <2>3. FaultDone'
        BY <2>1, <2>2, FaultSeen DEF FaultDone, Quiet, Serving, Working, Taken, OnChild
    <2> QED BY <2>1, <2>2, <2>3 DEF Demoted, FaultDone, Working, Taken, OnChild
<1>4. ASSUME NEW c \in Calls, Retired(c) \/ HandshakeFails(c) PROVE Demoted'
    <2>1. /\ UNCHANGED <<want, cpuOnly, faulted>> /\ pc[c] \in Taken \ {"failed", "killed"} /\ Reap(c)
          /\ Goto(c, "release") \/ (Goto(c, "start") /\ pc[c] = "retired")
        BY <1>4 DEF Retired, HandshakeFails, Fails, setup, Taken
    <2>2. alive' = {} /\ (faulted => cpuOnly)
        BY <2>1, ReapEmpties, FaultSeen DEF Serving, Working, Taken, OnChild
    <2>3. \A d \in Calls : pc'[d] \in {"retire", "retired", "start"} => d = c /\ pc[c] = "retired"
        BY <2>1, GotoEffect DEF Serving, Working, Taken, OnChild
    <2> QED BY <2>1, <2>2, <2>3 DEF Demoted
<1>5. ASSUME NEW c \in Calls, FailedChild(c) PROVE Demoted'
    <2>1. /\ pc[c] \in {"failed", "killed"} /\ Reap(c) /\ Goto(c, "release")
          /\ cpuOnly' = (cpuOnly \/ (pc[c] = "failed" /\ spec[cur[c]].gpu)) /\ UNCHANGED <<closing, faulted>>
        BY <1>5 DEF FailedChild, Fails
    <2>2. alive' = {} /\ \A d \in Calls : pc'[d] \notin Working
        BY <2>1, ReapEmpties, GotoEffect DEF Serving, Working, Taken, OnChild
    <2>3. cpuOnly' \/ closing
        BY <2>1 DEF IInv, ProcOwned, Demoted, Closes
    <2> QED BY <2>1, <2>2, <2>3 DEF Demoted, Quiet, Working, Taken, OnChild
<1>6. ASSUME NEW c \in Calls, StartChild(c) PROVE Demoted'
    <2>1. /\ pc[c] = "start" /\ UNCHANGED <<cpuOnly, faulted>>
          /\ \E l \in {"store", "release"} : Goto(c, l)
          /\ want' = [want EXCEPT ![c] = InitialSpec]
          /\ \/ UNCHANGED <<alive, spec>>
             \/ \E p \in Procs : alive' = alive \cup {p} /\ spec' = [spec EXCEPT ![p] = want[c]]
        BY <1>6 DEF StartChild, Fails, setup
    <2>2. faulted => cpuOnly
        BY <2>1, FaultSeen DEF Serving, Working
    <2>3. \A d \in Calls : pc'[d] \notin {"retire", "retired", "start"}
        BY <2>1, GotoEffect DEF Serving, Working, Taken, OnChild
    <2> QED BY <2>1, <2>2, <2>3 DEF Demoted
<1>7. ASSUME NEW c \in Calls, EnsureChild(c) PROVE Demoted'
    <2>1. /\ UNCHANGED <<alive, spec, cpuOnly, closing, faulted>> /\ pc[c] = "ensure"
          /\ \/ Goto(c, "release") /\ UNCHANGED want
             \/ Goto(c, "ready") /\ UNCHANGED want /\ ~closing
             \/ (\E l \in {"retire", "start"} : Goto(c, l)) /\ want' = [want EXCEPT ![c] = ChildSpec] /\ ~closing
        BY <1>7 DEF EnsureChild, Fails, procs, setup
    <2>2. \A d \in Calls \ {c} : pc'[d] = pc[d] /\ pc[d] \notin Serving
        BY <2>1, GotoEffect DEF Serving
    <2>3. ~closing \/ pc'[c] = "release"
        BY <2>1, GotoEffect
    <2>4. FaultDone'
        BY <2>1, <2>2, <2>3, FaultSeen DEF FaultDone, Quiet, Serving, Working, Taken, OnChild
    <2>5. \A d \in Calls : pc'[d] \in {"retire", "retired", "start"} => d = c /\ want'[c] = ChildSpec
        BY <2>1, <2>2, GotoEffect DEF Serving, Working, Taken, OnChild
    <2> QED BY <2>1, <2>4, <2>5 DEF Demoted, FaultDone, ChildSpec
<1>8. ASSUME NEW c \in Calls, \/ Retire(c) \/ StoreLive(c) \/ LookBack(c) \/ Handshake(c)
                              \/ Ready(c) \/ ReadAnswer(c)
      PROVE  Demoted'
    <2>1. /\ UNCHANGED <<alive, spec, want, cpuOnly, faulted>> /\ pc[c] \in Working \ {"fail", "failed", "killed"}
          /\ \E l \in Pcs : Goto(c, l) /\ (l \in {"retire", "retired", "start"} => pc[c] = "retire")
        BY <1>8 DEF Retire, TakeChild, StoreLive, LookBack, Handshake, Ready, ReadAnswer, Fails, Pcs, procs, setup,
           Working, Taken, OnChild
    <2>2. faulted => cpuOnly
        BY <2>1, FaultSeen DEF Serving
    <2>3. \A d \in Calls : pc'[d] \in {"retire", "retired", "start"} => d = c /\ pc[c] = "retire"
        BY <2>1, GotoEffect DEF Serving, Working, Taken, OnChild
    <2> QED BY <2>1, <2>2, <2>3 DEF Demoted
<1>9. ASSUME NEW c \in Calls, StreamBreaks(c) \/ FailChild(c) PROVE Demoted'
    <2>1. /\ UNCHANGED <<alive, spec, want, cpuOnly>> /\ pc[c] \in {"await", "fail"}
          /\ \E l \in {"fail", "failed", "killed"} : Goto(c, l)
        BY <1>9 DEF StreamBreaks, FailChild, TakeChild, procs, setup
    <2>2. pc'[c] \in {"fail", "failed", "killed"} /\ \A d \in Calls \ {c} : pc'[d] \notin Working
        BY <2>1, GotoEffect DEF Serving, Working, OnChild
    <2> QED BY <2>1, <2>2 DEF Demoted, Working, Taken, OnChild
<1>10. ASSUME NEW a \in Actors, OwnerStep(a) PROVE Demoted'
    BY <1>2, <1>3, <1>4, <1>5, <1>6, <1>7, <1>8, <1>9, <1>10 DEF OwnerStep, Takes, Reaps, Serves
<1> QED BY <1>1, <1>10, Kinds

(* A Close that waits has killed what the owner of the slot waits for, and  *)
(* one that has returned left no process and no way to one.                 *)
LEMMA ClosesStep == ASSUME WorkerConstants, IInv, [Next]_vars PROVE Closes'
<1>0. Facts /\ Closes
    BY FactsHold DEF IInv
<1> USE <1>0 DEF Facts
<1>1. ASSUME Away, Outside PROVE Closes'
    BY <1>1 DEF Away, Outside, Closes, Quiet, CloserQueued
<1>2. ASSUME NEW a \in Actors, Away, Beside(a) PROVE Closes'
    <2>1. pc[a] \notin Serving /\ pc'[a] \notin Working \cup {"release", "closed"}
        BY <1>2, GotoEffect DEF Beside, Serving, Working, Taken, OnChild
    <2>2. \A b \in Actors \ {a} : pc'[b] = pc[b]
        BY <1>2, GotoEffect DEF Beside
    <2>3. /\ pc'[Closer] # "idle" \/ CloserQueued' => closing'
          /\ \A c \in Calls : pc'[c] = "killed" => closing'
        BY <1>2, <2>1, <2>2 DEF Away, Beside, Closes, Working, Taken
    <2>4. pc'[Closer] \in {"send", "queued"} =>
              \A c \in Calls : /\ pc[c] = "handshake" => cur[c] \in dead'
                               /\ pc[c] \in {"ready", "await"} => child \in dead'
        <3>1. \A c \in Calls : /\ pc[c] = "handshake" => cur[c] = live /\ live \in alive
                               /\ pc[c] \in {"ready", "await"} => child = live /\ live \in alive
            BY DEF IInv, ProcOwned, OnChild
        <3> QED BY <1>2, <2>2, <3>1, GotoEffect DEF Away, Beside, Closes
    <2> QED BY <1>2, <2>1, <2>2, <2>3, <2>4 DEF Away, Closes, Quiet, Working, Taken, OnChild
<1>3. ASSUME NEW a \in Actors, Away, LeavesSlot(a) PROVE Closes'
    <2>1. /\ pc[a] \in Serving \ Working /\ UNCHANGED <<alive, closing>> /\ HandsTo(a)
          /\ pc'[a] = "closed" => a = Closer /\ pc[a] = "release"
        BY <1>3 DEF Away, LeavesSlot
    <2>2. \A b \in Actors : pc[b] \notin Working /\ pc'[b] \notin Working
        BY <2>1, Names DEF HandsTo, Serving, Working, Taken, OnChild
    <2>3. pc'[Closer] # "idle" \/ CloserQueued' => closing
        BY <2>1, Names DEF HandsTo, Closes, Serving
    <2>4. pc'[Closer] = "release" \/ pc'[Closer] = "closed" => alive = {}
        BY <2>1, Names DEF HandsTo, Closes, Quiet, Serving
    <2> QED BY <2>1, <2>2, <2>3, <2>4 DEF Closes, Quiet, Working, Taken, OnChild
<1>4. ASSUME NEW a \in Actors, OwnerStep(a) PROVE Closes'
    <2>1. /\ pc[a] \in Serving /\ pc'[a] \in Serving /\ UNCHANGED <<closing, queue>>
          /\ \A b \in Actors \ {a} : pc'[b] = pc[b] /\ pc[b] \notin Serving
        BY <1>4, OwnerMoves, GotoEffect DEF Owns
    <2>2. /\ pc'[Closer] # "idle" \/ CloserQueued' => closing
          /\ pc'[Closer] \in {"send", "queued", "closed"} => a # Closer /\ pc[Closer] = pc'[Closer] /\ closing
          /\ pc'[Closer] = "release" => a = Closer
        BY <2>1 DEF Closes, CloserQueued, Serving, Working, Taken, OnChild
    <2> DEFINE Own ==
            /\ a \in Calls /\ pc'[a] = "killed" => closing
            /\ a \in Calls /\ pc'[a] = "handshake" /\ closing => cur'[a] \in dead'
            /\ a \in Calls /\ pc'[a] \in {"ready", "await"} /\ pc'[Closer] \in {"send", "queued"} => child' \in dead'
            /\ a = Closer /\ pc'[a] = "release" => alive' = {}
            /\ pc'[Closer] = "closed" => alive' = {} /\ (a \in Calls => pc'[a] \notin Working)
    <2>3. SUFFICES Own
        BY <2>1, <2>2 DEF Closes, Quiet, Serving, Working, Taken, OnChild
    <2>4. CASE Granted(a)
        BY <2>2, <2>4, GotoEffect DEF Granted, Closes, Quiet, procs, Working, Taken, OnChild
    <2>5. CASE Takes(a)
        <3>1. \E l \in {"stopped", "retired", "failed", "killed"} : Goto(a, l) /\ (l = "killed" => closing)
            BY <2>5 DEF Takes, Stop, Retire, FailChild, TakeChild
        <3>2. UNCHANGED alive /\ (a \in Calls => pc[a] \in Working)
            BY <2>5 DEF Takes, Stop, Retire, FailChild, procs, StagesOf, Working, OnChild
        <3> QED BY <2>2, <3>1, <3>2, GotoEffect DEF Closes, Quiet
    <2>6. CASE Reaps(a)
        <3>1. /\ Reap(a) /\ pc[a] \in Taken /\ \E l \in {"start", "release"} : Goto(a, l)
            BY <2>6 DEF Reaps, Stopped, Retired, HandshakeFails, FailedChild, Fails, Taken
        <3>2. alive' = {} /\ pc'[a] \in {"start", "release"}
            BY <3>1, ReapEmpties, GotoEffect
        <3> QED BY <2>2, <3>1, <3>2 DEF Closes, Quiet, Working
    <2>7. ASSUME a \in Calls, EnsureChild(a) PROVE Own
        BY <2>2, <2>7, GotoEffect DEF EnsureChild, Fails, Closes, Quiet, procs, Working, Taken, OnChild
    <2>8. ASSUME a \in Calls, StartChild(a) \/ StoreLive(a) PROVE Own
        BY <2>2, <2>8, GotoEffect DEF StartChild, StoreLive, Fails, Closes, Quiet, procs, Working, Taken
    <2>9. ASSUME a \in Calls, LookBack(a) PROVE Own
        BY <2>2, <2>9, GotoEffect DEF LookBack, Closes, Quiet, Working, Taken
    <2>10. ASSUME a \in Calls, Handshake(a) PROVE Own
        BY <2>2, <2>10, GotoEffect DEF Handshake, Closes, Quiet, procs, Working, Taken
    <2>11. ASSUME a \in Calls, Ready(a) \/ ReadAnswer(a) \/ StreamBreaks(a) PROVE Own
        BY <2>2, <2>11, GotoEffect DEF Ready, ReadAnswer, StreamBreaks, Fails, Closes, Quiet, procs, Working, OnChild
    <2> HIDE DEF Own
    <2> QED BY <1>4, <2>4, <2>5, <2>6, <2>7, <2>8, <2>9, <2>10, <2>11 DEF OwnerStep, Serves
<1> QED BY <1>1, <1>2, <1>3, <1>4, Kinds

(* The state stays well typed, and a call receives its own vectors.         *)
LEMMA TypedStep == ASSUME WorkerConstants, IInv, [Next]_vars PROVE Typed' /\ AnswersOwn'
<1>0. /\ Facts /\ holder \in Actors \cup {Free} /\ queue \in Seq(Calls \cup {Closer})
      /\ wire \in [Procs -> Seq(Calls)] /\ resp \in [Procs -> Seq(Calls)]
      /\ got \in [Calls -> Calls] /\ faulted \in BOOLEAN /\ AnswersOwn
      /\ Actors = Calls \cup {Closer, Threader} /\ \A a \in Actors : StagesOf(a) \subseteq Pcs
    BY FactsHold, Names DEF IInv, Typed, Actors
<1> USE <1>0 DEF Facts
<1> DEFINE Moved == /\ holder' \in Actors \cup {Free} /\ queue' \in Seq(Calls \cup {Closer})
                    /\ pc' \in [Actors -> Pcs]
           Served == /\ child' \in Procs \cup {NoProc} /\ live' \in Procs \cup {NoProc}
                     /\ alive' \subseteq Procs /\ dead' \subseteq alive'
                     /\ spec' \in [Procs -> Specs] /\ want' \in [Actors -> Specs]
                     /\ cur' \in [Actors -> Procs \cup {NoProc}]
                     /\ cpuOnly' \in BOOLEAN /\ faulted' \in BOOLEAN
           Streams == wire' \in [Procs -> Seq(Calls)] /\ resp' \in [Procs -> Seq(Calls)]
           Answered == got' \in [Calls -> Calls] /\ AnswersOwn'
<1>1. ASSUME Away, Outside \/ \E a \in Actors : Beside(a) \/ LeavesSlot(a) PROVE Moved /\ Streams
    <2>1. CASE Outside
        <3>1. Streams
            <4>1. ASSUME NEW p \in Procs, Answer(p) PROVE Streams
                <5>1. Head(wire[p]) \in Calls /\ Tail(wire[p]) \in Seq(Calls)
                    BY <4>1 DEF Answer
                <5> QED BY <4>1, <5>1 DEF Answer
            <4> QED BY <2>1, <4>1 DEF Outside
        <3> QED BY <2>1, <3>1 DEF Outside
    <2>2. ASSUME NEW a \in Actors, Beside(a) PROVE Moved /\ Streams
        BY <2>2, GotoTyped DEF Beside
    <2>3. ASSUME NEW a \in Actors, LeavesSlot(a) PROVE Moved /\ Streams
        BY <2>3 DEF LeavesSlot, HandsTo
    <2> QED BY <1>1, <2>1, <2>2, <2>3
<1>2. ASSUME NEW a \in Actors, OwnerStep(a) PROVE Moved /\ UNCHANGED <<closing, threads>>
    <2>1. Owns(a)
        BY <1>2, OwnerMoves
    <2>2. UNCHANGED <<holder, queue, closing, threads>>
        BY <2>1 DEF Owns
    <2>3. PICK l \in StagesOf(a) : Goto(a, l)
        BY <2>1 DEF Owns
    <2>4. l \in Pcs
        BY <2>3
    <2>5. pc' \in [Actors -> Pcs]
        BY <2>3, <2>4, GotoTyped
    <2> QED BY <2>2, <2>5
<1>3. InitialSpec \in Specs /\ ChildSpec \in Specs
    BY DEF InitialSpec, ChildSpec, Specs, WorkerConstants
<1>4. ASSUME NEW a \in Actors, Granted(a) PROVE Served /\ Streams /\ Answered
    BY <1>4 DEF Granted, procs, setup, AnswersOwn
<1>5. ASSUME NEW a \in Actors, Takes(a) PROVE Served /\ Streams /\ Answered
    <2>1. (\E l : TakeChild(a, l)) /\ UNCHANGED <<procs, want, cpuOnly, faulted, got>>
        BY <1>5 DEF Takes, Stop, Retire, FailChild, setup
    <2> QED BY <2>1, TakeEffect DEF procs, AnswersOwn, IInv
<1>6. ASSUME NEW a \in Actors, Reaps(a) PROVE Served /\ Streams /\ Answered
    <2>1. /\ Reap(a) /\ UNCHANGED <<child, want, faulted, got>> /\ live' \in {live, NoProc}
          /\ cpuOnly' \in BOOLEAN
        BY <1>6 DEF Reaps, Stopped, Retired, HandshakeFails, FailedChild, setup
    <2>2. /\ alive' \subseteq Procs /\ dead' \subseteq alive' /\ Streams
          /\ spec' \in [Procs -> Specs] /\ cur' \in [Actors -> Procs \cup {NoProc}]
        BY <2>1, ReapEffect DEF IInv
    <2> QED BY <2>1, <2>2 DEF AnswersOwn
<1>7. ASSUME NEW c \in Calls, EnsureChild(c) \/ StartChild(c) PROVE Served /\ Streams /\ Answered
    <2>1. CASE EnsureChild(c)
        <3>1. want' = want \/ want' = [want EXCEPT ![c] = ChildSpec]
            BY <2>1 DEF EnsureChild
        <3>2. want' \in [Actors -> Specs]
            <4>1. want \in [Actors -> Specs] /\ c \in Actors /\ ChildSpec \in Specs
                BY <1>3
            <4> HIDE <1>0
            <4> QED BY <3>1, <4>1
        <3> QED BY <2>1, <3>2 DEF EnsureChild, procs, setup, AnswersOwn
    <2>2. CASE StartChild(c)
        <3>1. want[c] \in Specs /\ want' = [want EXCEPT ![c] = InitialSpec] /\ UNCHANGED <<wire, resp, got, child, live>>
            BY <2>2 DEF StartChild
        <3>2. /\ alive' \subseteq Procs /\ dead' \subseteq alive' /\ spec' \in [Procs -> Specs]
              /\ cur' \in [Actors -> Procs \cup {NoProc}]
            <4>1. CASE UNCHANGED <<alive, dead, spec, cur>>
                BY <4>1
            <4>2. CASE \E p \in Procs \ alive : /\ alive' = alive \cup {p} /\ spec' = [spec EXCEPT ![p] = want[c]]
                                              /\ cur' = [cur EXCEPT ![c] = p] /\ UNCHANGED dead
                BY <3>1, <4>2
            <4> QED BY <2>2, <4>1, <4>2 DEF StartChild
        <3> QED BY <1>3, <2>2, <3>1, <3>2 DEF StartChild, setup, AnswersOwn
    <2> QED BY <1>7, <2>1, <2>2
<1>8. ASSUME NEW c \in Calls, StoreLive(c) \/ LookBack(c) \/ Handshake(c) \/ StreamBreaks(c)
      PROVE  Served /\ Streams /\ Answered
    <2>1. pc[c] = "lookback" => cur[c] \in alive
        BY DEF IInv, ProcOwned
    <2>2. CASE StoreLive(c) \/ LookBack(c)
        BY <2>1, <2>2 DEF StoreLive, LookBack, procs, setup, AnswersOwn
    <2>3. CASE Handshake(c)
        BY <2>3 DEF Handshake, procs, setup, AnswersOwn
    <2>4. CASE StreamBreaks(c)
        BY <2>4 DEF StreamBreaks, procs, setup, AnswersOwn
    <2> QED BY <1>8, <2>2, <2>3, <2>4
<1>9. ASSUME NEW c \in Calls, Ready(c) \/ ReadAnswer(c) PROVE Served /\ Streams /\ Answered
    <2>1. child \in Procs /\ Append(wire[child], c) \in Seq(Calls)
        BY <1>9 DEF Ready, ReadAnswer, IInv, ProcOwned, OnChild
    <2>2. CASE Ready(c)
        <3>1. UNCHANGED <<child, live, alive, dead, spec, resp, want, cur, cpuOnly, got, faulted>>
            BY <2>2 DEF Ready, setup
        <3>2. wire' \in [Procs -> Seq(Calls)]
            BY <2>1, <2>2 DEF Ready
        <3> QED BY <3>1, <3>2 DEF AnswersOwn
    <2>3. CASE ReadAnswer(c)
        <3>1. resp[child] = <<c>> /\ Head(<<c>>) = c /\ Tail(resp[child]) \in Seq(Calls)
            BY <2>1, <2>3 DEF ReadAnswer, IInv, WireOwned
        <3> QED BY <2>1, <2>3, <3>1 DEF ReadAnswer, setup, AnswersOwn
    <2> QED BY <1>9, <2>2, <2>3
<1>10. ASSUME NEW a \in Actors, OwnerStep(a) PROVE Served /\ Streams /\ Answered
    BY <1>4, <1>5, <1>6, <1>7, <1>8, <1>9, <1>10 DEF OwnerStep, Serves
<1> HIDE DEF Moved, Streams, Answered
<1>11. CASE Away /\ (Outside \/ \E a \in Actors : Beside(a) \/ LeavesSlot(a))
    <2>1. Moved /\ Streams
        BY <1>1, <1>11
    <2> QED BY <1>11, <2>1 DEF Typed, Away, Moved, Streams
<1>12. CASE \E a \in Actors : OwnerStep(a)
    BY <1>2, <1>10, <1>12 DEF Typed, Moved, Streams, Answered
<1> QED BY <1>11, <1>12, Kinds

-----------------------------------------------------------------------------
(* The queue and the counters.  A step moves one actor to a stage l, and    *)
(* with the slot it hands over the first sender blocked.                    *)
Moves(a, l) ==
    /\ pc[a] # "queued" /\ l # "queued" /\ UNCHANGED queue /\ Goto(a, l)
Joins(a, l) == pc[a] = "send" /\ l = "queued" /\ queue' = Append(queue, a) /\ Goto(a, l)
GivesUp(a, l) == pc[a] = "queued" /\ l # "queued" /\ Unqueued(a) /\ Goto(a, l)
Hands(a, l) == pc[a] # "queued" /\ l # "queued" /\ HandOver(a, l)
Line(a, l) == Moves(a, l) \/ Joins(a, l) \/ GivesUp(a, l) \/ Hands(a, l)

LEMMA LineEffect ==
    ASSUME WorkerConstants, Typed, Queued, NEW a \in Actors, NEW l \in Pcs, Line(a, l)
    PROVE  /\ Queued' /\ pc'[a] = l
           /\ \A b \in Actors \ {a} : pc'[b] = pc[b] \/ (pc[b] = "queued" /\ pc'[b] = "granted")
<1> DEFINE S == Calls \cup {Closer}
<1>0. pc \in [Actors -> Pcs] /\ queue \in Seq(S) /\ S \subseteq Actors
    BY Names DEF Typed
<1> HIDE DEF S
<1>1. Len(queue) \in Nat /\ \A i \in 1..Len(queue) : queue[i] \in Actors /\ pc[queue[i]] = "queued"
    BY <1>0 DEF Queued
<1>2. \A i, j \in 1..Len(queue) : queue[i] = queue[j] => i = j
    BY DEF Queued
<1>3. CASE Moves(a, l)
    <2>1. \A i \in 1..Len(queue) : queue[i] # a
        BY <1>1, <1>3 DEF Moves
    <2> QED BY <1>0, <1>1, <1>2, <1>3, <2>1, GotoEffect DEF Moves, Queued
<1>4. CASE Joins(a, l)
    <2>1. \A i \in 1..Len(queue) : queue[i] # a
        BY <1>1, <1>4 DEF Joins
    <2>2. /\ Len(queue') = Len(queue) + 1 /\ queue'[Len(queue) + 1] = a
          /\ \A i \in 1..Len(queue) : queue'[i] = queue[i]
        BY <1>0, <1>4 DEF Joins
    <2>3. pc'[a] = "queued" /\ l = "queued" /\ \A b \in Actors \ {a} : pc'[b] = pc[b]
        BY <1>0, <1>4, GotoEffect DEF Joins
    <2>4. \A i \in 1..Len(queue) + 1 : i \in 1..Len(queue) \/ i = Len(queue) + 1
        BY <1>1
    <2>5. \A i \in 1..Len(queue') : pc'[queue'[i]] = "queued"
        BY <1>1, <2>1, <2>2, <2>3, <2>4
    <2>6. \A i, j \in 1..Len(queue') : queue'[i] = queue'[j] => i = j
        BY <1>1, <1>2, <2>1, <2>2, <2>4
    <2> QED BY <2>3, <2>5, <2>6 DEF Queued
<1>5. CASE GivesUp(a, l)
    <2>1. PICK k \in 1..Len(queue) :
              queue[k] = a /\ queue' = SubSeq(queue, 1, k - 1) \o SubSeq(queue, k + 1, Len(queue))
        BY <1>5 DEF GivesUp, Unqueued
    <2> DEFINE u == SubSeq(queue, 1, k - 1)
               v == SubSeq(queue, k + 1, Len(queue))
    <2>2. k \in Int /\ \A j \in 1..Len(queue) : queue[j] \in S
        BY <1>0
    <2>3. /\ u \in Seq(S) /\ Len(u) = k - 1 /\ \A i \in 1..k - 1 : u[i] = queue[i]
          /\ v \in Seq(S) /\ Len(v) = Len(queue) - k /\ \A i \in 1..Len(queue) - k : v[i] = queue[k + i]
        BY <1>1, <2>2, SubSeqProperties
    <2>4. queue' = u \o v
        BY <2>1
    <2> HIDE DEF u, v
    <2>5. /\ Len(queue') = Len(u) + Len(v)
          /\ \A i \in 1..Len(u) + Len(v) : queue'[i] = IF i <= Len(u) THEN u[i] ELSE v[i - Len(u)]
        BY <2>3, <2>4, ConcatProperties
    <2> DEFINE at(i) == IF i <= k - 1 THEN i ELSE i + 1
    <2>6. Len(queue') = Len(queue) - 1
        BY <1>1, <2>2, <2>3, <2>5
    <2>7. ASSUME NEW i \in 1..Len(queue')
          PROVE  at(i) \in 1..Len(queue) /\ at(i) # k /\ queue'[i] = queue[at(i)]
        <3>1. CASE i <= k - 1
            <4>1. i \in 1..k - 1 /\ i \in 1..Len(queue) /\ i # k /\ queue'[i] = u[i]
                BY <1>1, <2>2, <2>3, <2>5, <2>6, <3>1
            <4> QED BY <2>3, <3>1, <4>1
        <3>2. CASE ~(i <= k - 1)
            <4>1. /\ i - (k - 1) \in 1..Len(queue) - k /\ i + 1 \in 1..Len(queue) /\ i + 1 # k
                  /\ k + (i - (k - 1)) = i + 1 /\ queue'[i] = v[i - (k - 1)]
                BY <1>1, <2>2, <2>3, <2>5, <2>6, <3>2
            <4> QED BY <2>3, <3>2, <4>1
        <3> QED BY <3>1, <3>2
    <2>8. \A i, j \in 1..Len(queue') : at(i) = at(j) => i = j
        BY <1>1, <2>2, <2>6
    <2> HIDE DEF at
    <2>9. \A i, j \in 1..Len(queue') : queue'[i] = queue'[j] => i = j
        BY <1>2, <2>7, <2>8
    <2>10. pc'[a] = l /\ \A b \in Actors \ {a} : pc'[b] = pc[b]
        BY <1>0, <1>5, GotoEffect DEF GivesUp
    <2>11. ASSUME NEW i \in 1..Len(queue') PROVE queue'[i] # a
        <3>1. at(i) \in 1..Len(queue) /\ at(i) # k /\ queue'[i] = queue[at(i)]
            BY <2>7
        <3>2. queue[k] = a
            BY <2>1
        <3> QED BY <1>2, <3>1, <3>2
    <2>12. \A i \in 1..Len(queue') : pc'[queue'[i]] = "queued"
        BY <1>1, <2>7, <2>10, <2>11
    <2> QED BY <2>9, <2>10, <2>12 DEF Queued
<1>6. CASE Hands(a, l)
    <2>1. CASE queue = <<>>
        <3>1. pc' = [pc EXCEPT ![a] = l] /\ queue' = queue
            BY <1>6, <2>1 DEF Hands, HandOver
        <3>2. Len(queue) = 0
            BY <2>1
        <3> QED BY <1>0, <3>1, <3>2 DEF Queued
    <2>2. CASE queue # <<>>
        <3>1. /\ pc' = [pc EXCEPT ![a] = l, ![Head(queue)] = "granted"] /\ queue' = Tail(queue)
            BY <1>6, <2>2 DEF Hands, HandOver
        <3>2. Head(queue) = queue[1] /\ 1 \in 1..Len(queue)
            BY <1>0, <2>2
        <3>3. queue[1] \in Actors /\ pc[queue[1]] = "queued" /\ queue[1] # a
            BY <1>1, <1>6, <3>2 DEF Hands
        <3>4. /\ pc'[a] = l /\ pc'[queue[1]] = "granted"
              /\ \A b \in Actors \ {a, queue[1]} : pc'[b] = pc[b]
            BY <1>0, <3>1, <3>2, <3>3
        <3>5. /\ Len(queue') = Len(queue) - 1
              /\ \A i \in 1..Len(queue') : i + 1 \in 1..Len(queue) /\ queue'[i] = queue[i + 1]
            BY <1>0, <2>2, <3>1, HeadTailProperties
        <3>6. \A i \in 1..Len(queue') : i + 1 # 1 /\ queue[i + 1] # queue[1]
            BY <1>1, <1>2, <3>2, <3>5
        <3>7. \A i \in 1..Len(queue') : pc'[queue'[i]] = "queued"
            BY <1>1, <1>6, <3>4, <3>5, <3>6 DEF Hands
        <3>8. \A i, j \in 1..Len(queue') : queue'[i] = queue'[j] => i = j
            BY <1>1, <1>2, <3>5
        <3> QED BY <3>3, <3>4, <3>7, <3>8 DEF Queued
    <2> QED BY <2>1, <2>2
<1> QED BY <1>3, <1>4, <1>5, <1>6 DEF Line

(* What the move does to the counters.                                      *)
Tells(a, l) ==
    /\ \/ urgent' = urgent /\ (a \in Queries => (pc[a] \in Counted <=> l \in Counted))
       \/ a \in Queries /\ urgent' = urgent + 1 /\ pc[a] \notin Counted /\ l \in Counted
       \/ a \in Queries /\ urgent' = urgent - 1 /\ pc[a] \in Counted /\ l \notin Counted
    /\ left' \in [Docs -> 0..Frames] /\ \A d \in Docs \ {a} : left'[d] = left[d]
    /\ a \in Docs => l \notin {"urge", "calm"} /\ (l \in Unanswered => left'[a] # 0)
Unmoved == UNCHANGED <<pc, queue, urgent, left>>

LEMMA CountKinds ==
    ASSUME WorkerConstants, IInv, CountInv, [Next]_vars
    PROVE  /\ streak' \in 0..Burst /\ ctxDone' \in [Calls -> BOOLEAN]
           /\ Unmoved \/ \E a \in Actors, l \in Pcs : Line(a, l) /\ Tells(a, l)
<1> DEFINE Told == /\ streak' \in 0..Burst /\ ctxDone' \in [Calls -> BOOLEAN]
                   /\ Unmoved \/ \E a \in Actors, l \in Pcs : Line(a, l) /\ Tells(a, l)
<1>0. /\ Docs \subseteq Calls /\ Queries \subseteq Calls /\ Calls \subseteq Actors /\ Docs \cap Queries = {}
      /\ Closer \in Actors /\ Threader \in Actors /\ Closer \notin Calls /\ Threader \notin Calls
      /\ Closer # Threader /\ Calls = Docs \cup Queries
      /\ Frames \in Nat /\ Burst \in Nat /\ urgent \in Nat
      /\ streak \in 0..Burst /\ ctxDone \in [Calls -> BOOLEAN] /\ left \in [Docs -> 0..Frames]
      /\ pc \in [Actors -> Pcs]
    BY Names DEF CountInv, IInv, Typed, WorkerConstants, Calls
<1>f. /\ \A d \in Docs : pc[d] \notin {"urge", "calm"} /\ (pc[d] \in Unanswered => left[d] # 0)
      /\ \A a \in Actors : pc[a] \in StagesOf(a)
    <2>1. FramesDue /\ SlotOwned
        BY DEF CountInv, IInv
    <2> QED BY <2>1 DEF FramesDue, SlotOwned
<1> USE <1>0
<1>1. ASSUME NEW d \in Docs, NEW n \in 1..Frames, EmbedDocs(d, n) PROVE Told
    <2>1. Line(d, "begin") /\ "begin" \in Pcs
        BY <1>1 DEF EmbedDocs, Line, Moves, Pcs, slot
    <2>2. Tells(d, "begin") /\ UNCHANGED streak /\ ctxDone' \in [Calls -> BOOLEAN]
        BY <1>1 DEF EmbedDocs, Tells, slot
    <2> QED BY <2>1, <2>2
<1>2. ASSUME NEW q \in Queries, EmbedQuery(q) PROVE Told
    <2>1. Line(q, "begin") /\ "begin" \in Pcs
        BY <1>2 DEF EmbedQuery, Line, Moves, Pcs, slot
    <2>2. Tells(q, "begin") /\ UNCHANGED streak /\ ctxDone' \in [Calls -> BOOLEAN]
        BY <1>2 DEF EmbedQuery, Tells, Counted, Pcs, slot
    <2> QED BY <2>1, <2>2
<1>3. ASSUME NEW a \in Actors, Send(a) PROVE Told
    <2> DEFINE l == IF holder = Free THEN "granted" ELSE "queued"
    <2>1. Line(a, l) /\ l \in Pcs
        BY <1>3 DEF Send, Line, Moves, Joins, Pcs
    <2>2. Tells(a, l) /\ UNCHANGED <<streak, ctxDone>>
        BY <1>3, <1>f DEF Send, Tells, Counted, Pcs, Unanswered
    <2> HIDE DEF l
    <2> QED BY <2>1, <2>2
<1>4. ASSUME NEW c \in Calls, LeaveQueue(c) PROVE Told
    <2> DEFINE l == IF c \in Queries THEN "calm" ELSE "idle"
    <2>1. Line(c, l) /\ l \in Pcs
        BY <1>4 DEF LeaveQueue, Line, GivesUp, Pcs
    <2>2. Tells(c, l) /\ UNCHANGED <<streak, ctxDone>>
        BY <1>4 DEF LeaveQueue, NoneLeft, Tells, Counted, Pcs, Unanswered
    <2> HIDE DEF l
    <2> QED BY <2>1, <2>2
<1>5. ASSUME NEW c \in Calls, Begin(c) PROVE Told
    <2> DEFINE l == IF closing THEN "idle" ELSE IF c \in Queries THEN "urge" ELSE "send"
    <2>1. Line(c, l) /\ l \in Pcs
        BY <1>5 DEF Begin, Line, Moves, Pcs, slot
    <2>2. Tells(c, l) /\ UNCHANGED <<streak, ctxDone>>
        BY <1>5, <1>f DEF Begin, NoneLeft, Tells, Counted, Pcs, Unanswered, slot
    <2> HIDE DEF l
    <2> QED BY <2>1, <2>2
<1>6. ASSUME NEW c \in Calls, Urge(c) PROVE Told
    <2>1. Line(c, "send") /\ "send" \in Pcs
        BY <1>6 DEF Urge, Line, Moves, Pcs
    <2>2. Tells(c, "send") /\ UNCHANGED <<streak, ctxDone>>
        BY <1>6, <1>f DEF Urge, Tells, Counted, Pcs
    <2> QED BY <2>1, <2>2
<1>7. ASSUME NEW c \in Calls, Calm(c) PROVE Told
    <2>1. Line(c, "idle") /\ "idle" \in Pcs
        BY <1>7 DEF Calm, Line, Moves, Pcs
    <2>2. Tells(c, "idle") /\ UNCHANGED <<streak, ctxDone>>
        BY <1>7, <1>f DEF Calm, Tells, Counted, Pcs
    <2> QED BY <2>1, <2>2
<1>8. ASSUME NEW a \in {Closer, Threader}, NEW l \in Pcs \ {"queued"}, pc[a] # "queued", Goto(a, l),
             UNCHANGED <<queue, urgent, streak, ctxDone, left>>
      PROVE  Told
    BY <1>8 DEF Line, Moves, Tells
<1>9. ASSUME SetThreads \/ ThreaderTry \/ Close \/ CloserStep PROVE Told
    <2>1. \E a \in {Closer, Threader}, l \in Pcs \ {"queued"} : pc[a] # "queued" /\ Goto(a, l)
        BY <1>9 DEF SetThreads, ThreaderTry, Close, CloserStep, CloserTry, CloserKill, Pcs
    <2>2. UNCHANGED <<queue, urgent, streak, ctxDone, left>>
        BY <1>9 DEF SetThreads, ThreaderTry, Close, CloserStep, CloserTry, CloserKill, slot
    <2> QED BY <1>8, <2>1, <2>2
<1>10. ASSUME NEW c \in Calls, CtxEnds(c) PROVE Told
    BY <1>10 DEF CtxEnds, Unmoved, slot
<1>11. ASSUME (\E p \in Procs : Answer(p) \/ Crash(p)) \/ UNCHANGED vars PROVE Told
    BY <1>11 DEF Answer, Crash, Unmoved, slot, vars
<1>12. ASSUME NEW a \in Actors, Yield(a) PROVE Told
    <2>1. Line(a, "send") /\ "send" \in Pcs
        BY <1>12 DEF Yield, Line, Hands, Pcs
    <2>2. Tells(a, "send") /\ UNCHANGED <<streak, ctxDone>>
        BY <1>12, <1>f DEF Yield, Tells, Counted, Pcs, Unanswered
    <2> QED BY <2>1, <2>2
<1>13. ASSUME NEW c \in Calls, Quit(c) PROVE Told
    <2> DEFINE l == IF c \in Queries THEN "calm" ELSE "idle"
    <2>1. Line(c, l) /\ l \in Pcs
        BY <1>13 DEF Quit, Line, Hands, Pcs
    <2>2. Tells(c, l) /\ UNCHANGED <<streak, ctxDone>>
        BY <1>13 DEF Quit, NoneLeft, Tells, Counted, Pcs, Unanswered
    <2> HIDE DEF l
    <2> QED BY <2>1, <2>2
<1>14. ASSUME NEW a \in Actors, Release(a) PROVE Told
    <2>1. Line(a, Released(a)) /\ Released(a) \in Pcs
        BY <1>14 DEF Release, Released, NextFrame, Line, Hands, Pcs
    <2>2. UNCHANGED <<urgent, streak, ctxDone>> /\ left' \in [Docs -> 0..Frames]
        BY <1>14 DEF Release
    <2>3. Tells(a, Released(a))
        BY <1>14, <2>2 DEF Release, Released, NextFrame, Tells, Counted, Pcs, Unanswered
    <2> QED BY <2>1, <2>2, <2>3
<1>15. ASSUME NEW a \in Actors, OwnerStep(a) PROVE Told
    <2>1. UNCHANGED <<urgent, ctxDone>> /\ streak' \in 0..Burst
        BY <1>15 DEF OwnerStep, Granted, Takes, Stop, Retire, FailChild, Reaps, Stopped, Retired, HandshakeFails,
           FailedChild, Serves, EnsureChild, StartChild, StoreLive, LookBack, Handshake, Ready, ReadAnswer,
           StreamBreaks, slot
    <2>2. PICK l \in StagesOf(a) \cap Serving : Goto(a, l) /\ UNCHANGED queue /\ pc[a] \in Serving
        BY <1>15, OwnerMoves DEF Owns
    <2>3. l \in Pcs /\ l \in Counted /\ pc[a] \in Counted /\ Line(a, l)
        BY <2>2, <1>f, Names DEF Line, Moves, Counted, Serving, Working, Taken, OnChild
    <2>4. l \notin {"urge", "calm"} /\ pc'[a] = l
        BY <2>2 DEF Goto, Serving, Working, Taken, OnChild
    <2>5. /\ left' \in [Docs -> 0..Frames] /\ \A d \in Docs \ {a} : left'[d] = left[d]
          /\ a \in Docs /\ l \in Unanswered => left'[a] # 0
        <3>1. CASE UNCHANGED left /\ (l \in Unanswered => pc[a] \in Unanswered)
            BY <3>1, <1>f
        <3>2. CASE l = "release" /\ a \in Calls /\ NoneLeft(a)
            BY <3>2 DEF NoneLeft, Unanswered
        <3>3. CASE ReadAnswer(a) /\ a \in Calls
            BY <3>3, <2>4, <1>f DEF ReadAnswer, Goto, NoneLeft, Unanswered
        <3>4. ASSUME Granted(a) \/ Takes(a) \/ Stopped(a)
              PROVE  UNCHANGED left /\ (l \in Unanswered => pc[a] \in Unanswered)
            BY <3>4, <2>4 DEF Granted, Takes, Stop, Retire, FailChild, TakeChild, Stopped, Goto, Unanswered
        <3>5. ASSUME a \in Calls, Retired(a) \/ HandshakeFails(a) \/ FailedChild(a)
              PROVE  \/ UNCHANGED left /\ (l \in Unanswered => pc[a] \in Unanswered)
                     \/ l = "release" /\ a \in Calls /\ NoneLeft(a)
            BY <3>5, <2>4 DEF Retired, HandshakeFails, FailedChild, Fails, Goto, Unanswered
        <3>6. ASSUME a \in Calls, Serves(a)
              PROVE  \/ UNCHANGED left /\ (l \in Unanswered => pc[a] \in Unanswered)
                     \/ l = "release" /\ a \in Calls /\ NoneLeft(a)
                     \/ ReadAnswer(a)
            BY <3>6, <2>4 DEF Serves, EnsureChild, StartChild, StoreLive, LookBack, Handshake, Ready, StreamBreaks,
               Fails, Goto, Unanswered
        <3> QED BY <1>15, <3>1, <3>2, <3>3, <3>4, <3>5, <3>6 DEF OwnerStep, Reaps
    <2>6. Tells(a, l)
        BY <2>1, <2>3, <2>4, <2>5 DEF Tells
    <2> QED BY <2>1, <2>3, <2>6
<1> HIDE DEF Told
<1>16. ASSUME NEW a \in Actors, ActorStep(a) PROVE Told
    <2>1. \/ Send(a) \/ Yield(a) \/ Release(a) \/ OwnerStep(a)
          \/ a \in Calls /\ (Begin(a) \/ Urge(a) \/ LeaveQueue(a) \/ Quit(a) \/ Calm(a))
        BY <1>16 DEF ActorStep, CallStep, OwnerStep, Takes, Reaps, Serves
    <2> QED BY <1>3, <1>4, <1>5, <1>6, <1>7, <1>12, <1>13, <1>14, <1>15, <2>1
<1>17. Told
    BY <1>1, <1>2, <1>9, <1>10, <1>11, <1>16 DEF Next
<1> QED BY <1>17 DEF Told

LEMMA CountStep == ASSUME WorkerConstants, IInv, CountInv, [Next]_vars PROVE CountInv'
<1>0. /\ streak' \in 0..Burst /\ ctxDone' \in [Calls -> BOOLEAN]
      /\ Unmoved \/ \E a \in Actors, l \in Pcs : Line(a, l) /\ Tells(a, l)
    BY CountKinds
<1>1. CASE Unmoved
    BY <1>0, <1>1 DEF Unmoved, CountInv, Queued, UrgentExact, FramesDue
<1>2. ASSUME NEW a \in Actors, NEW l \in Pcs, Line(a, l), Tells(a, l) PROVE CountInv'
    <2>1. /\ Queued' /\ pc'[a] = l
          /\ \A b \in Actors \ {a} : pc'[b] = pc[b] \/ (pc[b] = "queued" /\ pc'[b] = "granted")
        BY <1>2, LineEffect DEF IInv, CountInv
    <2>2. Docs \subseteq Actors /\ Queries \subseteq Actors /\ IsFiniteSet(Queries) /\ urgent \in Nat
        BY Names DEF CountInv, WorkerConstants
    <2>3. FramesDue' /\ left' \in [Docs -> 0..Frames]
        <3>1. ASSUME NEW d \in Docs, d # a
              PROVE  pc'[d] \notin {"urge", "calm"} /\ (pc'[d] \in Unanswered => left'[d] # 0)
            <4>1. left'[d] = left[d]
                BY <1>2, <3>1 DEF Tells
            <4>2. pc'[d] = pc[d] \/ (pc[d] = "queued" /\ pc'[d] = "granted")
                BY <2>1, <2>2, <3>1
            <4>3. pc[d] \notin {"urge", "calm"} /\ (pc[d] \in Unanswered => left[d] # 0)
                <5>1. FramesDue
                    BY DEF CountInv
                <5> QED BY <5>1 DEF FramesDue
            <4> QED BY <4>1, <4>2, <4>3 DEF Unanswered
        <3> QED BY <1>2, <2>1, <3>1 DEF Tells, FramesDue
    <2>4. urgent' \in Nat /\ UrgentExact'
        <3> DEFINE A == {q \in Queries : pc[q] \in Counted}
                   B == {q \in Queries : pc'[q] \in Counted}
        <3>1. \A q \in Queries \ {a} : pc'[q] \in Counted <=> pc[q] \in Counted
            BY <2>1, <2>2 DEF Counted, Pcs
        <3>2. IsFiniteSet(A) /\ urgent = Cardinality(A)
            <4>1. IsFiniteSet(A)
                BY <2>2, FS_Subset
            <4> QED BY <4>1 DEF CountInv, UrgentExact
        <3>3. \/ urgent' = urgent /\ B = A
              \/ a \notin A /\ urgent' = urgent + 1 /\ B = A \cup {a}
              \/ a \in A /\ urgent' = urgent - 1 /\ B = A \ {a}
            BY <1>2, <2>1, <3>1 DEF Tells
        <3> HIDE DEF A, B
        <3>4. /\ a \notin A => Cardinality(A \cup {a}) = Cardinality(A) + 1
              /\ a \in A => Cardinality(A \ {a}) = Cardinality(A) - 1
            BY <3>2, FS_AddElement, FS_RemoveElement
        <3>5. urgent' = Cardinality(B) /\ IsFiniteSet(B)
            BY <3>2, <3>3, <3>4, FS_AddElement, FS_RemoveElement
        <3>6. Cardinality(B) \in Nat
            BY <3>5, FS_CardinalityType
        <3>7. UrgentExact'
            BY <3>5 DEF UrgentExact, B
        <3> QED BY <3>5, <3>6, <3>7
    <2> QED BY <1>0, <2>1, <2>3, <2>4 DEF CountInv
<1> QED BY <1>0, <1>1, <1>2

-----------------------------------------------------------------------------
(* The embedder starts with no process and an idle slot.                    *)
LEMMA InitIInv == ASSUME WorkerConstants, Init PROVE IInv
<1>1. Typed
    <2>1. /\ 0 \in 0..MaxThreads /\ InitialSpec \in Specs /\ "idle" \in Pcs
          /\ <<>> \in Seq(Calls \cup {Closer}) /\ <<>> \in Seq(Calls)
        BY DEF WorkerConstants, InitialSpec, Specs, Pcs
    <2> QED BY <2>1 DEF Init, Typed
<1>2. "idle" \notin Serving /\ \A a \in Actors : "idle" \in StagesOf(a)
    BY DEF StagesOf, Pcs, Serving, Working, Taken, OnChild
<1>3. SlotOwned /\ ProcOwned /\ WireOwned /\ AnswersOwn
    BY <1>2, Names DEF Init, SlotOwned, ProcOwned, WireOwned, AnswersOwn, Taken, OnChild
<1>4. Demoted /\ Closes
    <2>1. Len(<<>>) = 0
        OBVIOUS
    <2> QED BY <2>1, Names DEF Init, Demoted, Closes, CloserQueued, Quiet, Working, Taken, OnChild
<1> QED BY <1>1, <1>3, <1>4 DEF IInv

(* ... and nobody waits or is counted.                                      *)
LEMMA InitCount == ASSUME WorkerConstants, Init PROVE CountInv
<1>0. /\ Docs \subseteq Actors /\ Queries \subseteq Actors /\ Calls \subseteq Actors
      /\ Frames \in Nat /\ Burst \in Nat
    BY Names DEF WorkerConstants
<1>1. UrgentExact
    <2>1. {q \in Queries : pc[q] \in Counted} = {}
        BY <1>0 DEF Init, Counted
    <2> QED BY <2>1, FS_EmptySet DEF Init, UrgentExact
<1>2. Queued
    <2>1. Len(<<>>) = 0
        OBVIOUS
    <2> QED BY <2>1 DEF Init, Queued
<1>3. FramesDue
    BY <1>0 DEF Init, FramesDue, Unanswered
<1>4. left \in [Docs -> 0..Frames] /\ ctxDone \in [Calls -> BOOLEAN] /\ urgent \in Nat /\ streak \in 0..Burst
    BY <1>0 DEF Init
<1> QED BY <1>1, <1>2, <1>3, <1>4 DEF CountInv

(* The processes that have not been reaped are one: the owner of the slot   *)
(* has it in hand, or it is the child.                                      *)
LEMMA AtMostOneChild == ASSUME WorkerConstants, IInv PROVE OneChild
<1>0. Facts /\ ProcOwned
    BY FactsHold DEF IInv
<1>1. ASSUME NEW p \in alive, NEW q \in alive PROVE p = q
    <2>1. \A a, b \in Actors : cur[a] # NoProc /\ cur[b] # NoProc => a = b /\ child = NoProc
        BY <1>0 DEF Facts, ProcOwned, Serving, Working
    <2> QED BY <1>0, <2>1 DEF Facts, ProcOwned
<1>2. CASE alive = {}
    BY <1>2, FS_EmptySet DEF OneChild
<1>3. CASE \E p \in alive : alive = {p}
    <2>1. PICK p \in alive : alive = {p}
        BY <1>3
    <2>2. Cardinality({p}) = 1
        BY FS_Singleton
    <2> QED BY <2>1, <2>2 DEF OneChild
<1> QED BY <1>1, <1>2, <1>3

(* A process that still runs on the GPU after a frame failed there is the   *)
(* one its owner is dealing with.                                           *)
LEMMA FaultsDemote == ASSUME WorkerConstants, IInv PROVE FrameFaultDemotes
<1>0. Facts /\ ProcOwned
    BY FactsHold DEF IInv
<1> SUFFICES ASSUME faulted, NEW p \in alive \ dead, spec[p].gpu
             PROVE  \E c \in Calls : (pc[c] = "fail" /\ child = p) \/ (pc[c] \in {"failed", "killed"} /\ cur[c] = p)
    BY DEF FrameFaultDemotes
<1>1. PICK c \in Calls : pc[c] \in {"fail", "failed", "killed"}
    BY DEF IInv, Demoted, Typed, Quiet
<1>2. \A a \in Actors \ {c} : cur[a] = NoProc
    BY <1>0, <1>1 DEF Facts, ProcOwned, Serving, Working, Taken, OnChild
<1>3. p = child \/ p = cur[c]
    BY <1>0, <1>2 DEF Facts, ProcOwned
<1> QED BY <1>0, <1>1, <1>3 DEF Facts, ProcOwned, Taken, OnChild

(* For any number of calls, frames and processes, whatever crashes, hangs,  *)
(* is given up or closed: there are never two model processes, a call is    *)
(* answered with its own vectors, a frame that failed on the GPU is the     *)
(* last one there, Close waits out no request and leaves nothing behind,    *)
(* and a doc frame yields to the queries that are there and to no others.   *)
THEOREM ChildIsSound == Spec => []ChildSound
<1> USE WorkerAssumption
<1>1. Init => IInv /\ CountInv
    BY InitIInv, InitCount
<1>2. IInv /\ CountInv /\ [Next]_vars => (IInv /\ CountInv)'
    BY TypedStep, SlotOwnedStep, ProcOwnedStep, WireOwnedStep, DemotedStep, ClosesStep, CountStep DEF IInv
<1>3. IInv /\ CountInv => ChildSound
    <2>1. IInv => AnswersOwn /\ CloseKillsBusy /\ ClosedForGood
        BY DEF IInv, Closes, Quiet, CloseKillsBusy, ClosedForGood
    <2>2. IInv /\ CountInv => TypeOK /\ UrgentExact
        BY DEF IInv, Typed, CountInv, TypeOK
    <2> QED BY <2>1, <2>2, AtMostOneChild, FaultsDemote DEF ChildSound
<1> QED BY <1>1, <1>2, <1>3, PTL DEF Spec

-----------------------------------------------------------------------------
(* The model download.                                                      *)

(* A block written at a place of a file; at its end it is appended.         *)
LEMMA PutTyped ==
    ASSUME NEW s \in Seq(Blocks), NEW n \in Nat, NEW b \in Blocks
    PROVE  Put(s, n, b) \in Seq(Blocks)
<1>1. Len(s) \in Nat /\ s \in [1..Len(s) -> Blocks]
  BY LenProperties
<1>0. (IF n < Len(s) THEN Len(s) ELSE n + 1) \in Nat
  BY <1>1
<1>2. PICK m \in Nat : m = IF n < Len(s) THEN Len(s) ELSE n + 1
  BY <1>0
<1>3. Put(s, n, b) = [i \in 1..m |-> IF i = n + 1 THEN b ELSE IF i <= Len(s) THEN s[i] ELSE 0]
  BY <1>2 DEF Put
<1>4. ASSUME NEW i \in 1..m
      PROVE  (IF i = n + 1 THEN b ELSE IF i <= Len(s) THEN s[i] ELSE 0) \in Blocks
  <2>1. i <= Len(s) => s[i] \in Blocks
    BY <1>1
  <2>2. 0 \in Blocks
    BY DownloadAssumption DEF Blocks
  <2>3. QED BY <2>1, <2>2
<1>5. Put(s, n, b) \in [1..m -> Blocks]
  BY <1>3, <1>4
<1>6. QED BY <1>5, SeqDef

LEMMA PutAtEnd ==
    ASSUME NEW s \in Seq(Blocks), NEW b \in Blocks
    PROVE  Put(s, Len(s), b) = Append(s, b)
<1>1. Len(s) \in Nat /\ s \in [1..Len(s) -> Blocks]
  BY LenProperties
<1>2. Put(s, Len(s), b) =
          [i \in 1..(Len(s) + 1) |-> IF i = Len(s) + 1 THEN b ELSE IF i <= Len(s) THEN s[i] ELSE 0]
  BY <1>1 DEF Put
<1>3. Append(s, b) \in Seq(Blocks) /\ Len(Append(s, b)) = Len(s) + 1
      /\ \A i \in 1..Len(s) : Append(s, b)[i] = s[i]
      /\ Append(s, b)[Len(s) + 1] = b
  BY AppendProperties
<1>4. DOMAIN Put(s, Len(s), b) = 1..(Len(s) + 1)
      /\ \A i \in 1..(Len(s) + 1) : Put(s, Len(s), b)[i] = Append(s, b)[i]
  BY <1>1, <1>2, <1>3
<1>5. Put(s, Len(s), b) \in Seq(Blocks) /\ Len(Put(s, Len(s), b)) = Len(s) + 1
  BY <1>1, <1>4, PutTyped, LenProperties
<1>6. QED BY <1>3, <1>4, <1>5, SeqEqual

(* What a block written does: the file it goes to, and the hash.            *)
LEMMA WriteEffect ==
    ASSUME DownloadTypeOK, NEW g \in Gens, NEW b \in Blocks, Write(g, b)
    PROVE  /\ part' \in Seq(Blocks) /\ dest' \in Seq(Blocks)
           /\ h' = [h EXCEPT ![g] = Append(@, b)] /\ h' \in [Gens -> Seq(Blocks)]
           /\ pos' \in [Gens -> Nat]
           /\ \A x \in Gens \ {g} : h'[x] = h[x] /\ pos'[x] = pos[x]
           /\ fd[g] # "dest" => dest' = dest
           /\ fd[g] = "part" /\ (mode[g] = "truncate" => pos[g] = Len(part)) =>
                  /\ part' = Append(part, b)
                  /\ mode[g] = "truncate" => pos'[g] = Len(part')
<1>1. /\ part \in Seq(Blocks) /\ dest \in Seq(Blocks) /\ h \in [Gens -> Seq(Blocks)]
      /\ pos \in [Gens -> Nat] /\ mode[g] \in {"append", "truncate"}
      /\ Len(part) \in Nat /\ Len(dest) \in Nat
  BY LenProperties DEF DownloadTypeOK
<1>2. Written(g, part, b) \in Seq(Blocks) /\ Written(g, dest, b) \in Seq(Blocks)
  BY <1>1, PutTyped DEF Written
<1>3. h[g] \in Seq(Blocks) /\ Append(h[g], b) \in Seq(Blocks)
  BY <1>1, AppendProperties
<1>4. h' = [h EXCEPT ![g] = Append(@, b)] /\ h' \in [Gens -> Seq(Blocks)]
      /\ \A x \in Gens \ {g} : h'[x] = h[x] /\ pos'[x] = pos[x]
  BY <1>1, <1>3 DEF Write
<1>5. pos' \in [Gens -> Nat] /\ (mode[g] = "truncate" => pos'[g] = pos[g] + 1)
  BY <1>1 DEF Write
<1>6. ASSUME fd[g] = "part", mode[g] = "truncate" => pos[g] = Len(part)
      PROVE  part' = Append(part, b) /\ (mode[g] = "truncate" => pos'[g] = Len(part'))
  <2>1. Written(g, part, b) = Put(part, Len(part), b)
    BY <1>1, <1>6 DEF Written
  <2>2. part' = Append(part, b) /\ Len(part') = Len(part) + 1
    BY <1>1, <1>6, <2>1, PutAtEnd, AppendProperties DEF Write
  <2>3. QED BY <1>5, <1>6, <2>2
<1>7. part' \in Seq(Blocks) /\ dest' \in Seq(Blocks) /\ (fd[g] # "dest" => dest' = dest)
  BY <1>1, <1>2 DEF Write
<1>8. QED BY <1>4, <1>5, <1>6, <1>7

(* What a rename does, and what a removal does.                             *)
LEMMA InstallEffect ==
    ASSUME DownloadTypeOK, NEW g \in Gens, Install(g)
    PROVE  /\ \/ /\ installed' = TRUE /\ dest' = part /\ part' = <<>> /\ partial' = FALSE
                 /\ contested' = (g \in met)
                 /\ \A x \in Gens : fd'[x] = "dest" => fd[x] = "part"
              \/ UNCHANGED files
           /\ stage' \in [Gens -> Stages] /\ stage'[g] \in {"finished", "backoff"}
           /\ \A x \in Gens \ {g} : stage'[x] = stage[x]
           /\ fd' \in [Gens -> {"none", "part", "dest", "gone"}]
           /\ \A x \in Gens : fd'[x] = "none" <=> fd[x] = "none"
           /\ faults' \in 0..MaxFaults
<1>1. fd \in [Gens -> {"none", "part", "dest", "gone"}] /\ stage \in [Gens -> Stages]
      /\ faults \in 0..MaxFaults /\ MaxFaults \in Nat
  BY DownloadAssumption DEF DownloadTypeOK
<1>2. CASE partial /\ installed' = TRUE /\ dest' = part /\ partial' = FALSE /\ part' = <<>>
           /\ fd' = [x \in Gens |-> CASE fd[x] = "part" -> "dest" [] fd[x] = "dest" -> "gone"
                                      [] OTHER -> fd[x]]
           /\ contested' = (g \in met) /\ MoveTo(g, "finished") /\ UNCHANGED faults
  <2>1. \A x \in Gens : fd'[x] = CASE fd[x] = "part" -> "dest" [] fd[x] = "dest" -> "gone"
                                   [] OTHER -> fd[x]
    BY <1>2
  <2>2. \A x \in Gens : /\ fd[x] = "part" => fd'[x] = "dest"
                        /\ fd[x] = "dest" => fd'[x] = "gone"
                        /\ fd[x] \in {"none", "gone"} => fd'[x] = fd[x]
    BY <2>1
  <2>3. fd' \in [Gens -> {"none", "part", "dest", "gone"}]
    BY <1>1, <1>2, <2>2
  <2>4. stage' = [stage EXCEPT ![g] = "finished"] /\ "finished" \in Stages
    BY <1>2 DEF MoveTo, Stages
  <2>5. QED BY <1>1, <1>2, <2>2, <2>3, <2>4
<1>3. CASE Failed(g) /\ UNCHANGED files /\ (Fault \/ UNCHANGED faults)
  <2>1. stage' = [stage EXCEPT ![g] = IF cancelled[g] THEN "finished" ELSE "backoff"]
        /\ "finished" \in Stages /\ "backoff" \in Stages
    BY <1>3 DEF Failed, MoveTo, Stages
  <2>2. faults' \in 0..MaxFaults
    BY <1>1, <1>3 DEF Fault
  <2>3. QED BY <1>1, <1>3, <2>1, <2>2 DEF files
<1>4. QED BY <1>2, <1>3 DEF Install

LEMMA RemoveEffect ==
    ASSUME DownloadTypeOK, RemovePart
    PROVE  /\ partial' = FALSE /\ part' = <<>> /\ UNCHANGED <<installed, dest, contested>>
           /\ fd' \in [Gens -> {"none", "part", "dest", "gone"}]
           /\ \A x \in Gens : /\ fd'[x] = "none" <=> fd[x] = "none"
                              /\ fd'[x] = "dest" <=> fd[x] = "dest"
BY DEF RemovePart, DownloadTypeOK

-----------------------------------------------------------------------------
(* A step of a download: what it leaves alone, and where it goes.           *)
Runs(g) == AtWork(g) \/ stage[g] = "backoff"

LEMMA DownloadShape ==
    ASSUME DownloadTypeOK, OpenFiles, NEW g \in Gens, Download(g)
    PROVE  /\ UNCHANGED engine /\ Runs(g)
           /\ stage' \in [Gens -> Stages] /\ stage'[g] # "none"
           /\ \A x \in Gens \ {g} : stage'[x] = stage[x] /\ h'[x] = h[x]
                                    /\ pos'[x] = pos[x] /\ mode'[x] = mode[x]
           /\ fd' \in [Gens -> {"none", "part", "dest", "gone"}]
           /\ \A x \in Gens \ {g} : fd'[x] = "none" <=> fd[x] = "none"
           /\ fd'[g] # "none" => stage'[g] = "stream"
           /\ stage[g] # "backoff" => met' = met
           /\ stage[g] = "backoff" => UNCHANGED <<files, h, pos, mode>>
           /\ faults' \in 0..MaxFaults
           /\ part' \in Seq(Blocks) /\ dest' \in Seq(Blocks) /\ h' \in [Gens -> Seq(Blocks)]
           /\ pos' \in [Gens -> Nat] /\ mode' \in [Gens -> {"append", "truncate"}]
           /\ partial' \in BOOLEAN /\ installed' \in BOOLEAN /\ contested' \in BOOLEAN
<1> USE DownloadAssumption
<1>t. /\ stage \in [Gens -> Stages] /\ h \in [Gens -> Seq(Blocks)] /\ pos \in [Gens -> Nat]
      /\ mode \in [Gens -> {"append", "truncate"}] /\ faults \in 0..MaxFaults /\ MaxFaults \in Nat
      /\ fd \in [Gens -> {"none", "part", "dest", "gone"}]
      /\ part \in Seq(Blocks) /\ dest \in Seq(Blocks) /\ <<>> \in Seq(Blocks)
      /\ partial \in BOOLEAN /\ installed \in BOOLEAN /\ contested \in BOOLEAN
      /\ stage[g] # "stream" => fd[g] = "none"
      /\ Fault => faults' \in 0..MaxFaults
  BY DEF DownloadTypeOK, OpenFiles, Fault
<1>m. ASSUME NEW l \in Stages, MoveTo(g, l)
      PROVE  /\ stage' \in [Gens -> Stages] /\ stage'[g] = l
             /\ \A x \in Gens \ {g} : stage'[x] = stage[x]
  BY <1>t, <1>m DEF MoveTo
<1>f. ASSUME Failed(g)
      PROVE  /\ stage' \in [Gens -> Stages] /\ stage'[g] \in {"finished", "backoff"}
             /\ \A x \in Gens \ {g} : stage'[x] = stage[x]
  <2>1. "finished" \in Stages /\ "backoff" \in Stages
    BY DEF Stages
  <2>2. CASE cancelled[g]
    BY <1>f, <1>m, <2>1, <2>2 DEF Failed
  <2>3. CASE ~cancelled[g]
    BY <1>f, <1>m, <2>1, <2>3 DEF Failed
  <2>4. QED BY <2>2, <2>3
<1>s. {"attempt", "request", "stream", "verify", "finished"} \subseteq Stages
  BY DEF Stages
<1>1. CASE Retry(g)
  <2>1. stage[g] = "backoff" /\ UNCHANGED <<files, engine, h, pos, mode, faults>>
        /\ (MoveTo(g, "finished") \/ MoveTo(g, "attempt"))
    BY <1>1 DEF Retry, StartAttempt
  <2>2. QED BY <1>t, <1>m, <1>s, <2>1 DEF Runs, files
<1>2. CASE Attempt(g)
  <2>0. stage[g] = "attempt" /\ UNCHANGED <<engine, pos, mode, met>>
    BY <1>2 DEF Attempt
  <2>1. CASE h' = [h EXCEPT ![g] = part] /\ MoveTo(g, "request") /\ UNCHANGED <<files, faults>>
    BY <1>t, <1>m, <1>s, <2>0, <2>1 DEF Runs, AtWork, files
  <2>2. CASE Fault /\ RemovePart /\ h' = [h EXCEPT ![g] = <<>>] /\ MoveTo(g, "request")
    BY <1>t, <1>m, <1>s, <2>0, <2>2, RemoveEffect DEF Runs, AtWork
  <2>3. CASE (Fault \/ UNCHANGED faults) /\ Failed(g) /\ UNCHANGED <<files, h>>
    BY <1>t, <1>f, <2>0, <2>3 DEF Runs, AtWork, files
  <2>4. QED BY <1>2, <2>1, <2>2, <2>3 DEF Attempt
<1>i. ASSUME stage[g] \in {"request", "verify"}, Install(g), UNCHANGED <<engine, h, pos, mode, met>>
      PROVE  /\ UNCHANGED engine /\ Runs(g) /\ met' = met /\ UNCHANGED <<h, pos, mode>>
             /\ stage' \in [Gens -> Stages] /\ stage'[g] \in {"finished", "backoff"}
             /\ \A x \in Gens \ {g} : stage'[x] = stage[x]
             /\ fd' \in [Gens -> {"none", "part", "dest", "gone"}]
             /\ \A x \in Gens : fd'[x] = "none" <=> fd[x] = "none"
             /\ faults' \in 0..MaxFaults
             /\ part' \in Seq(Blocks) /\ dest' \in Seq(Blocks)
             /\ partial' \in BOOLEAN /\ installed' \in BOOLEAN /\ contested' \in BOOLEAN
  <2>0. \/ /\ installed' = TRUE /\ dest' = part /\ part' = <<>> /\ partial' = FALSE
           /\ contested' = (g \in met)
        \/ UNCHANGED files
    BY <1>i, InstallEffect
  <2>1. CASE UNCHANGED files
    <3>1. Runs(g) /\ UNCHANGED <<part, dest, partial, installed, contested>>
      BY <1>i, <2>1 DEF Runs, AtWork, files
    <3>2. QED BY <1>i, <1>t, <3>1, InstallEffect
  <2>2. CASE /\ installed' = TRUE /\ dest' = part /\ part' = <<>> /\ partial' = FALSE
             /\ contested' = (g \in met)
    <3>1. Runs(g) /\ part' \in Seq(Blocks) /\ dest' \in Seq(Blocks)
          /\ partial' \in BOOLEAN /\ installed' \in BOOLEAN
      BY <1>i, <1>t, <2>2 DEF Runs, AtWork
    <3>2. contested' \in BOOLEAN
      BY <2>2
    <3>3. QED BY <1>i, <3>1, <3>2, InstallEffect
  <2>3. QED BY <2>0, <2>1, <2>2
<1>r. ASSUME stage[g] \in {"request", "verify"}, RemovePart, Failed(g),
             UNCHANGED <<engine, h, pos, mode, met, faults>>
      PROVE  /\ UNCHANGED engine /\ Runs(g) /\ met' = met /\ UNCHANGED <<h, pos, mode>>
             /\ stage' \in [Gens -> Stages] /\ stage'[g] \in {"finished", "backoff"}
             /\ \A x \in Gens \ {g} : stage'[x] = stage[x]
             /\ fd' \in [Gens -> {"none", "part", "dest", "gone"}]
             /\ \A x \in Gens : fd'[x] = "none" <=> fd[x] = "none"
             /\ faults' \in 0..MaxFaults
             /\ part' \in Seq(Blocks) /\ dest' \in Seq(Blocks)
             /\ partial' \in BOOLEAN /\ installed' \in BOOLEAN /\ contested' \in BOOLEAN
  BY <1>r, <1>t, <1>f, RemoveEffect DEF Runs, AtWork
<1>3. CASE InstallPart(g)
  BY <1>3, <1>i, <1>t DEF InstallPart
<1>4. CASE RequestFails(g)
  <2>1. stage[g] = "request" /\ Failed(g) /\ UNCHANGED <<files, engine, h, pos, mode, met>>
        /\ (Fault \/ UNCHANGED faults)
    BY <1>4 DEF RequestFails
  <2>2. QED BY <1>t, <1>f, <2>1 DEF Runs, AtWork, files
<1>o. ASSUME NEW c \in Seq(Blocks), NEW w \in {"append", "truncate"}, Open(g, w, c)
      PROVE  /\ partial' = TRUE /\ part' = c /\ UNCHANGED <<installed, dest, contested>>
             /\ fd' \in [Gens -> {"none", "part", "dest", "gone"}] /\ fd'[g] = "part"
             /\ \A x \in Gens \ {g} : fd'[x] = fd[x] /\ mode'[x] = mode[x]
             /\ mode' \in [Gens -> {"append", "truncate"}]
             /\ stage' \in [Gens -> Stages] /\ stage'[g] = "stream"
             /\ \A x \in Gens \ {g} : stage'[x] = stage[x]
  BY <1>o, <1>t, <1>m, <1>s DEF Open
<1>5. CASE Partial(g)
  <2>1. stage[g] = "request" /\ Open(g, "append", part) /\ UNCHANGED <<engine, h, pos, faults, met>>
    BY <1>5 DEF Partial
  <2>2. QED BY <1>t, <1>o, <2>1 DEF Runs, AtWork
<1>6. CASE Full(g)
  <2>1. stage[g] = "request" /\ Open(g, "truncate", <<>>) /\ UNCHANGED <<engine, faults, met>>
        /\ h' = [h EXCEPT ![g] = <<>>] /\ pos' = [pos EXCEPT ![g] = 0]
    BY <1>6 DEF Full
  <2>2. QED BY <1>t, <1>o, <2>1 DEF Runs, AtWork
<1>7. CASE PastTheEnd(g)
  <2>1. stage[g] = "request" /\ UNCHANGED <<engine, h, pos, mode, met>>
        /\ (Install(g) \/ (RemovePart /\ Failed(g) /\ UNCHANGED faults))
    BY <1>7 DEF PastTheEnd
  <2>2. QED BY <1>t, <1>i, <1>r, <2>1
<1>8. CASE Stream(g)
  <2>1. PICK b \in Blocks : Write(g, b) /\ faults' \in 0..MaxFaults
    <3>1. Len(h[g]) \in Nat /\ Len(h[g]) < Size
      BY <1>8, <1>t, LenProperties DEF Stream
    <3>2. Len(h[g]) + 1 \in Blocks /\ 0 \in Blocks
      BY <3>1 DEF Blocks
    <3>3. QED BY <1>8, <1>t, <3>2 DEF Stream
  <2>2. stage[g] = "stream" /\ UNCHANGED <<partial, installed, fd, contested, engine, stage, mode, met>>
    BY <1>8 DEF Stream
  <2>3. QED BY <1>t, <2>1, <2>2, WriteEffect DEF Runs, AtWork
<1>9. CASE StreamEnds(g)
  <2>1. /\ stage[g] = "stream" /\ fd' = [fd EXCEPT ![g] = "none"]
        /\ UNCHANGED <<partial, part, installed, dest, contested, engine, h, pos, mode, met>>
        /\ (MoveTo(g, "verify") \/ MoveTo(g, "finished") \/ Failed(g))
        /\ (Fault \/ UNCHANGED faults)
    BY <1>9 DEF StreamEnds
  <2>2. stage' \in [Gens -> Stages] /\ stage'[g] \in {"verify", "finished", "backoff"}
        /\ \A x \in Gens \ {g} : stage'[x] = stage[x]
    BY <1>m, <1>f, <1>s, <2>1
  <2>3. QED BY <1>t, <2>1, <2>2 DEF Runs, AtWork
<1>10. CASE Verify(g)
  <2>1. stage[g] = "verify" /\ UNCHANGED <<engine, h, pos, mode, met>>
        /\ (Install(g) \/ (RemovePart /\ Failed(g) /\ UNCHANGED faults))
    BY <1>10 DEF Verify
  <2>2. QED BY <1>t, <1>i, <1>r, <2>1
<1>11. QED BY <1>1, <1>2, <1>3, <1>4, <1>5, <1>6, <1>7, <1>8, <1>9, <1>10 DEF Download

-----------------------------------------------------------------------------
(* A step of a download keeps the invariant.                                *)
LEMMA DownloadKeeps ==
    ASSUME DownloadInv, NEW g \in Gens, Download(g)
    PROVE  DownloadInv'
<1> USE DownloadAssumption
<1>t. DownloadTypeOK /\ Runners /\ Overlaps /\ OpenFiles /\ HashIsFile /\ Settled /\ InstalledVerified
  BY DEF DownloadInv
<1>s. /\ UNCHANGED engine /\ Runs(g)
      /\ stage' \in [Gens -> Stages] /\ stage'[g] # "none"
      /\ \A x \in Gens \ {g} : stage'[x] = stage[x] /\ h'[x] = h[x]
                               /\ pos'[x] = pos[x] /\ mode'[x] = mode[x]
      /\ fd' \in [Gens -> {"none", "part", "dest", "gone"}]
      /\ \A x \in Gens \ {g} : fd'[x] = "none" <=> fd[x] = "none"
      /\ fd'[g] # "none" => stage'[g] = "stream"
      /\ stage[g] # "backoff" => met' = met
      /\ stage[g] = "backoff" => UNCHANGED <<files, h, pos, mode>>
  BY <1>t, DownloadShape
<1>a. \A x \in Gens \ {g} : (AtWork(x)' <=> AtWork(x)) /\ (Runs(x)' <=> Runs(x))
  BY <1>s DEF AtWork, Runs
<1>w. stage[g] # "backoff" => AtWork(g) /\ met' = met
  BY <1>s DEF Runs
\* Beside a download at work no other is alone.
<1>x. ASSUME NEW x \in Gens \ {g}, AtWork(x), stage[g] # "backoff"
      PROVE  x \in met /\ g \in met
  BY <1>t, <1>w, <1>x DEF Overlaps
<1>b. CASE Retry(g)
  <2>0. stage[g] = "backoff" /\ ~AtWork(g) /\ UNCHANGED <<files, engine, h, pos, mode, faults>>
    BY <1>b DEF Retry, AtWork
  <2>1. CASE stage'[g] = "finished" /\ met' = met
    <3>1. ~AtWork(g)'
      BY <2>1 DEF AtWork
    <3>2. Overlaps'
      BY <1>t, <1>a, <2>1, <3>1 DEF Overlaps
    <3>3. QED BY <1>t, <1>s, <2>0, <2>1, <3>2 DEF DownloadInv, DownloadTypeOK, Runners, AtWork, Runs,
                 OpenFiles, HashIsFile, Settled, InstalledVerified, files, engine
  <2>2. CASE StartAttempt(g)
    <3>1. PICK beside \in SUBSET (Gens \ {g}) :
              /\ beside = {x \in Gens \ {g} : AtWork(x) /\ {x, g} \cap abandoned # {}}
              /\ met' = IF beside = {} THEN met \ {g} ELSE met \cup beside \cup {g}
      BY <2>2 DEF StartAttempt
    <3>2. ASSUME NEW x \in Gens \ {g}, AtWork(x)
          PROVE  x \in beside
      <4>1. x \in abandoned \/ (up /\ x = gen)
        BY <1>t, <3>2 DEF Runners
      <4>2. g \in abandoned \/ (up /\ g = gen)
        BY <1>t, <2>0 DEF Runners
      <4>3. QED BY <3>1, <3>2, <4>1, <4>2
    <3>3. met' \subseteq Gens /\ \A x \in Gens \ {g} : x \in met => x \in met'
      BY <1>t, <3>1 DEF DownloadTypeOK
    <3>4. ASSUME NEW x \in Gens \ {g}, AtWork(x) PROVE x \in met' /\ g \in met'
      BY <3>1, <3>2, <3>4
    <3>5. Overlaps'
      BY <1>t, <1>a, <3>3, <3>4 DEF Overlaps
    <3>6. stage'[g] = "attempt"
      BY <1>t, <2>2 DEF StartAttempt, MoveTo, DownloadTypeOK
    <3>7. HashIsFile'
      <4>1. \A x \in Gens \ met' : x # g => x \in Gens \ met
        BY <3>3
      <4>2. QED BY <1>t, <1>s, <2>0, <3>6, <4>1 DEF HashIsFile, files
    <3>8. QED BY <1>t, <1>s, <2>0, <3>3, <3>5, <3>6, <3>7 DEF DownloadInv, DownloadTypeOK, Runners,
                 AtWork, Runs, OpenFiles, Settled, InstalledVerified, files, engine
  <2>3. QED BY <1>b, <1>t, <1>s, <2>1, <2>2 DEF Retry, MoveTo, DownloadTypeOK
<1>c. CASE ~Retry(g)
  <2>0. stage[g] # "backoff" /\ AtWork(g) /\ met' = met
    BY <1>c, <1>w DEF Download, Attempt, InstallPart, RequestFails, Partial, Full, PastTheEnd, Stream,
       StreamEnds, Verify
  <2>1. DownloadTypeOK'
    BY <1>t, <2>0, DownloadShape DEF DownloadTypeOK, engine
  <2>2. Runners'
    BY <1>t, <1>s, <1>a DEF Runners, Runs, AtWork, engine
  <2>3. Overlaps'
    BY <1>t, <1>a, <1>x, <2>0 DEF Overlaps
  <2>4. OpenFiles'
    BY <1>t, <1>s DEF OpenFiles
  \* What is left is of g alone, when it is alone.
  <2>5. ASSUME g \notin met =>
                 /\ stage'[g] \in {"request", "stream", "verify"} => h'[g] = part'
                 /\ stage'[g] = "stream" =>
                        fd'[g] = "part" /\ (mode'[g] = "truncate" => pos'[g] = Len(part'))
        PROVE  HashIsFile'
    <3>1. ASSUME NEW x \in Gens \ met', x # g
          PROVE  stage'[x] \notin {"request", "stream", "verify"}
      BY <1>x, <1>a, <2>0, <3>1 DEF AtWork
    <3>2. QED BY <2>0, <2>5, <3>1 DEF HashIsFile
  \* Nobody else has the .part open when g is alone.
  <2>6. g \notin met => \A x \in Gens \ {g} : fd[x] = "none"
    BY <1>t, <1>x, <2>0 DEF OpenFiles, AtWork
  <2>i. ASSUME Install(g), stage[g] \in {"request", "verify"}, Pinned => h[g] = Good
        PROVE  Settled' /\ InstalledVerified' /\ HashIsFile'
    <3>1. stage'[g] \in {"finished", "backoff"} /\ fd[g] = "none"
      BY <1>t, <2>i, InstallEffect DEF OpenFiles
    <3>2. CASE UNCHANGED files
      BY <1>t, <2>5, <3>1, <3>2 DEF Settled, InstalledVerified, files
    <3>3. CASE /\ installed' = TRUE /\ dest' = part /\ part' = <<>> /\ partial' = FALSE
               /\ contested' = (g \in met)
               /\ \A x \in Gens : fd'[x] = "dest" => fd[x] = "part"
      <4>1. CASE g \in met
        BY <2>5, <3>1, <3>3, <4>1 DEF Settled, InstalledVerified
      <4>2. CASE g \notin met
        <5>1. h[g] = part
          BY <1>t, <2>i, <4>2 DEF HashIsFile
        <5>2. QED BY <2>5, <2>6, <2>i, <3>1, <3>3, <4>2, <5>1 DEF Settled, InstalledVerified
      <4>3. QED BY <4>1, <4>2
    <3>4. QED BY <1>t, <2>i, <3>2, <3>3, InstallEffect
  <2>r. ASSUME RemovePart
        PROVE  Settled' /\ InstalledVerified'
    BY <1>t, <2>r, RemoveEffect DEF Settled, InstalledVerified
  <2>u. ASSUME UNCHANGED files
        PROVE  Settled' /\ InstalledVerified'
    BY <1>t, <2>u DEF Settled, InstalledVerified, files
  <2>n. stage'[g] \in {"finished", "backoff"} => HashIsFile'
    BY <2>5
  <2>f. Failed(g) => stage'[g] \in {"finished", "backoff"}
    BY <1>t DEF Failed, MoveTo, DownloadTypeOK
  <2>7. Settled' /\ InstalledVerified' /\ HashIsFile'
    <3>1. CASE Attempt(g)
      <4>1. CASE h' = [h EXCEPT ![g] = part] /\ MoveTo(g, "request") /\ UNCHANGED <<files, faults>>
        <5>1. h'[g] = part' /\ stage'[g] = "request"
          BY <1>t, <4>1 DEF DownloadTypeOK, MoveTo, files
        <5>2. QED BY <2>5, <2>u, <4>1, <5>1
      <4>2. CASE Fault /\ RemovePart /\ h' = [h EXCEPT ![g] = <<>>] /\ MoveTo(g, "request")
        <5>1. h'[g] = part' /\ stage'[g] = "request"
          BY <1>t, <4>2, RemoveEffect DEF DownloadTypeOK, MoveTo
        <5>2. QED BY <2>5, <2>r, <4>2, <5>1
      <4>3. CASE Failed(g) /\ UNCHANGED <<files, h>>
        BY <2>n, <2>f, <2>u, <4>3
      <4>4. QED BY <3>1, <4>1, <4>2, <4>3 DEF Attempt
    <3>2. CASE InstallPart(g)
      BY <2>i, <3>2 DEF InstallPart, Verifies
    <3>3. CASE RequestFails(g)
      BY <2>n, <2>f, <2>u, <3>3 DEF RequestFails
    <3>o. ASSUME NEW c, NEW w, Open(g, w, c)
          PROVE  /\ part' = c /\ fd'[g] = "part" /\ stage'[g] = "stream" /\ mode'[g] = w
                 /\ Settled' /\ InstalledVerified'
      BY <1>t, <3>o DEF Open, MoveTo, DownloadTypeOK, Settled, InstalledVerified
    <3>4. CASE Partial(g)
      <4>1. stage[g] = "request" /\ Open(g, "append", part) /\ UNCHANGED h
        BY <3>4 DEF Partial
      <4>2. g \notin met => h[g] = part
        BY <1>t, <4>1 DEF HashIsFile
      <4>3. QED BY <2>5, <3>o, <4>1, <4>2
    <3>5. CASE Full(g)
      <4>1. Open(g, "truncate", <<>>) /\ h'[g] = <<>> /\ pos'[g] = 0
        BY <1>t, <3>5 DEF Full, DownloadTypeOK
      <4>2. QED BY <2>5, <3>o, <4>1
    <3>6. CASE PastTheEnd(g)
      <4>1. CASE ~Pinned /\ Install(g)
        BY <2>i, <3>6, <4>1 DEF PastTheEnd
      <4>2. CASE RemovePart /\ Failed(g)
        BY <2>n, <2>f, <2>r, <4>2
      <4>3. QED BY <3>6, <4>1, <4>2 DEF PastTheEnd
    <3>7. CASE Stream(g)
      <4>1. PICK b \in Blocks : Write(g, b)
        <5>1. Len(h[g]) \in Nat /\ Len(h[g]) < Size
          BY <1>t, <3>7, LenProperties DEF Stream, DownloadTypeOK
        <5>2. Len(h[g]) + 1 \in Blocks /\ 0 \in Blocks
          BY <5>1 DEF Blocks
        <5>3. QED BY <3>7, <5>2 DEF Stream
      <4>2. stage[g] = "stream" /\ UNCHANGED <<installed, fd, contested, stage, mode>>
        BY <3>7 DEF Stream
      <4>3. Settled' /\ InstalledVerified'
        <5>1. installed /\ ~contested => fd[g] # "dest"
          BY <1>t DEF Settled
        <5>2. installed /\ ~contested => dest' = dest
          BY <1>t, <4>1, <5>1, WriteEffect
        <5>3. QED BY <1>t, <4>2, <5>2 DEF Settled, InstalledVerified
      <4>4. ASSUME g \notin met
            PROVE  h'[g] = part' /\ fd'[g] = "part" /\ (mode'[g] = "truncate" => pos'[g] = Len(part'))
        <5>1. h[g] = part /\ fd[g] = "part" /\ (mode[g] = "truncate" => pos[g] = Len(part))
          BY <1>t, <4>2, <4>4 DEF HashIsFile
        <5>2. part' = Append(part, b) /\ (mode[g] = "truncate" => pos'[g] = Len(part'))
              /\ h' = [h EXCEPT ![g] = Append(@, b)]
          BY <1>t, <4>1, <5>1, WriteEffect
        <5>3. h'[g] = Append(h[g], b)
          BY <1>t, <5>2 DEF DownloadTypeOK
        <5>4. QED BY <4>2, <5>1, <5>2, <5>3
      <4>5. QED BY <2>5, <4>3, <4>4
    <3>8. CASE StreamEnds(g)
      <4>1. /\ stage[g] = "stream" /\ fd' = [fd EXCEPT ![g] = "none"]
            /\ UNCHANGED <<part, installed, dest, contested, h>>
            /\ (MoveTo(g, "verify") \/ MoveTo(g, "finished") \/ Failed(g))
        BY <3>8 DEF StreamEnds
      <4>2. Settled' /\ InstalledVerified'
        BY <1>t, <4>1 DEF Settled, InstalledVerified, DownloadTypeOK
      <4>3. stage'[g] \in {"verify", "finished", "backoff"}
        BY <1>t, <2>f, <4>1 DEF MoveTo, DownloadTypeOK
      <4>4. g \notin met => h[g] = part
        BY <1>t, <4>1 DEF HashIsFile
      <4>5. QED BY <2>5, <4>1, <4>2, <4>3, <4>4
    <3>9. CASE Verify(g)
      <4>1. CASE (Pinned => h[g] = Good) /\ Install(g)
        BY <2>i, <3>9, <4>1 DEF Verify
      <4>2. CASE RemovePart /\ Failed(g)
        BY <2>n, <2>f, <2>r, <4>2
      <4>3. QED BY <3>9, <4>1, <4>2 DEF Verify
    <3>10. QED BY <1>c, <3>1, <3>2, <3>3, <3>4, <3>5, <3>6, <3>7, <3>8, <3>9 DEF Download
  <2>8. QED BY <2>1, <2>2, <2>3, <2>4, <2>7 DEF DownloadInv
<1>d. QED BY <1>b, <1>c

(* The invariant holds initially, and every step of an engine keeps it: a   *)
(* new engine's download finds only those of abandoned ones at work.        *)
LEMMA InitDownloadInv == DownloadInit => DownloadInv
<1> SUFFICES ASSUME DownloadInit PROVE DownloadInv OBVIOUS
<1>1. <<>> \in Seq(Blocks) /\ 0 \in Nat /\ 0 \in 0..MaxGens /\ 0 \in 0..MaxFaults
  BY DownloadAssumption
<1>2. DownloadTypeOK
  BY <1>1 DEF DownloadInit, DownloadTypeOK, Stages
<1>3. QED BY <1>2 DEF DownloadInit, DownloadInv, Runners, Overlaps, OpenFiles, HashIsFile, Settled,
             InstalledVerified, AtWork

LEMMA NextDownloadInv == DownloadInv /\ [DownloadNext]_download => DownloadInv'
<1> SUFFICES ASSUME DownloadInv, [DownloadNext]_download PROVE DownloadInv' OBVIOUS
<1> USE DownloadAssumption
<1>t. DownloadTypeOK /\ Runners /\ Overlaps /\ OpenFiles /\ HashIsFile /\ Settled /\ InstalledVerified
  BY DEF DownloadInv
\* Steps that touch neither the files nor a download.
<1>q. ASSUME UNCHANGED <<files, stage, h, pos, mode, faults, met, gen>>,
             cancelled' \in [Gens -> BOOLEAN], up' \in BOOLEAN, up' => up,
             abandoned' \subseteq Gens,
             \A g \in Gens : Runs(g) => g \in abandoned' \/ (up' /\ g = gen)
      PROVE  DownloadInv'
  <2>1. DownloadTypeOK' /\ Settled' /\ InstalledVerified' /\ OpenFiles' /\ HashIsFile'
    BY <1>t, <1>q DEF DownloadTypeOK, Settled, InstalledVerified, OpenFiles, HashIsFile, files
  <2>2. Runners' /\ Overlaps'
    BY <1>t, <1>q DEF Runners, Overlaps, AtWork, Runs
  <2>3. QED BY <2>1, <2>2 DEF DownloadInv
<1>1. CASE Boot
  <2>1. /\ ~up /\ gen + 1 \in Gens /\ gen' = gen + 1 /\ up' = TRUE /\ StartAttempt(gen + 1)
        /\ UNCHANGED <<files, cancelled, abandoned, h, pos, mode, faults>> /\ gen \in 0..MaxGens
    BY <1>1, <1>t DEF Boot, DownloadTypeOK, Gens
  <2>2. PICK beside \in SUBSET (Gens \ {gen + 1}) :
            /\ beside = {x \in Gens \ {gen + 1} : AtWork(x) /\ {x, gen + 1} \cap abandoned # {}}
            /\ met' = IF beside = {} THEN met \ {gen + 1} ELSE met \cup beside \cup {gen + 1}
    BY <2>1 DEF StartAttempt
  <2>3. /\ stage' \in [Gens -> Stages] /\ stage'[gen + 1] = "attempt"
        /\ \A x \in Gens \ {gen + 1} : stage'[x] = stage[x]
        /\ stage[gen + 1] = "none" /\ ~AtWork(gen + 1)
    BY <1>t, <2>1 DEF StartAttempt, MoveTo, DownloadTypeOK, Stages, Runners, AtWork, Gens
  <2>4. \A x \in Gens \ {gen + 1} : AtWork(x)' <=> AtWork(x)
    BY <2>3 DEF AtWork
  <2>5. ASSUME NEW x \in Gens \ {gen + 1}, AtWork(x) PROVE x \in met' /\ gen + 1 \in met'
    <3>1. x \in abandoned
      BY <1>t, <2>1, <2>5 DEF Runners
    <3>2. QED BY <2>2, <2>5, <3>1
  <2>6. met' \subseteq Gens /\ \A x \in Gens \ {gen + 1} : x \in met => x \in met'
    BY <1>t, <2>1, <2>2 DEF DownloadTypeOK
  <2>7. Overlaps'
    BY <1>t, <2>4, <2>5, <2>6 DEF Overlaps
  <2>8. Runners'
    <3>1. ASSUME NEW x \in Gens \ {gen + 1}
          PROVE  /\ AtWork(x)' \/ stage'[x] = "backoff" => x \in abandoned'
                 /\ gen' < x => stage'[x] = "none"
      BY <1>t, <2>1, <2>3, <2>4 DEF Runners, Gens
    <3>2. QED BY <2>1, <2>3, <3>1 DEF Runners, Gens
  <2>9. HashIsFile'
    <3>1. \A x \in Gens \ met' : x # gen + 1 => x \in Gens \ met
      BY <2>6
    <3>2. QED BY <1>t, <2>1, <2>3, <3>1 DEF HashIsFile, files
  <2>10. DownloadTypeOK'
    BY <1>t, <2>1, <2>3, <2>6 DEF DownloadTypeOK, files, Gens
  <2>11. OpenFiles' /\ Settled' /\ InstalledVerified'
    BY <1>t, <2>1, <2>3 DEF OpenFiles, Settled, InstalledVerified, files
  <2>12. QED BY <2>7, <2>8, <2>9, <2>10, <2>11 DEF DownloadInv
<1>2. CASE CloseEngine
  <2>1. cancelled' \in [Gens -> BOOLEAN]
    BY <1>2, <1>t DEF DownloadTypeOK, CloseEngine
  <2>2. QED BY <1>2, <1>t, <1>q, <2>1 DEF CloseEngine, Runners, Runs, DownloadTypeOK
<1>3. CASE Joined
  <2>1. \A g \in Gens : Runs(g) => g \in abandoned
    BY <1>3, <1>t DEF Joined, Runners, Runs, AtWork
  <2>2. QED BY <1>3, <1>t, <1>q, <2>1 DEF Joined, DownloadTypeOK
<1>4. CASE Abandon
  <2>1. gen \in Gens
    BY <1>4, <1>t DEF Abandon, MayEnd, Runners, DownloadTypeOK, Gens
  <2>2. abandoned' = abandoned \cup {gen} /\ up' = FALSE /\ cancelled' = cancelled
    BY <1>4 DEF Abandon
  <2>c. abandoned' \subseteq Gens /\ up' \in BOOLEAN /\ cancelled' \in [Gens -> BOOLEAN]
    BY <1>t, <2>1, <2>2 DEF DownloadTypeOK
  <2>3. \A g \in Gens : Runs(g) => g \in abandoned' \/ (up' /\ g = gen)
    BY <1>4, <1>t DEF Abandon, Runners, Runs, AtWork
  <2>4. UNCHANGED <<files, stage, h, pos, mode, faults, met, gen>>
    BY <1>4 DEF Abandon
  <2>5. QED BY <1>q, <2>2, <2>c, <2>3, <2>4
<1>5. CASE CrashProcess
  <2>1. \A g \in Gens : stage'[g] \in {"none", "finished"} /\ ~AtWork(g)'
                        /\ (stage[g] = "none" => stage'[g] = "none")
    BY <1>5, <1>t DEF DownloadTypeOK, CrashProcess, AtWork
  <2>2. stage' \in [Gens -> Stages] /\ faults' \in 0..MaxFaults /\ up' = FALSE
        /\ fd' = [g \in Gens |-> "none"]
        /\ UNCHANGED <<partial, part, installed, dest, contested, gen, cancelled, abandoned,
                       h, pos, mode, met>>
    BY <1>5, <1>t DEF DownloadTypeOK, CrashProcess, Fault, Stages
  <2>3. DownloadTypeOK'
    BY <1>t, <2>2 DEF DownloadTypeOK
  <2>4. Runners' /\ Overlaps' /\ HashIsFile'
    BY <1>t, <2>1, <2>2 DEF Runners, Overlaps, HashIsFile
  <2>5. OpenFiles' /\ Settled' /\ InstalledVerified'
    BY <1>t, <2>2 DEF OpenFiles, Settled, InstalledVerified
  <2>6. QED BY <2>3, <2>4, <2>5 DEF DownloadInv
<1>6. ASSUME NEW g \in Gens, JanitorCloses(g) PROVE DownloadInv'
  <2>1. cancelled' \in [Gens -> BOOLEAN]
    BY <1>6, <1>t DEF DownloadTypeOK, JanitorCloses
  <2>2. QED BY <1>6, <1>t, <1>q, <2>1 DEF JanitorCloses, Runners, Runs, DownloadTypeOK
<1>7. ASSUME NEW g \in Gens, Download(g) PROVE DownloadInv'
  BY <1>7, DownloadKeeps
<1>8. CASE UNCHANGED download
  BY <1>8, <1>t, <1>q DEF download, engine, Runners, Runs, DownloadTypeOK
<1>9. QED BY <1>1, <1>2, <1>3, <1>4, <1>5, <1>6, <1>7, <1>8 DEF DownloadNext

(* A pinned model is installed only with the right content, whatever        *)
(* number of engines, crashes and faulty answers went into its .part, and   *)
(* for a model of any size, unless a download and an abandoned engine's     *)
(* wrote the .part together (embed_local_download.go; engine.go,            *)
(* teardownEngineLocked).                                                   *)
THEOREM VerifiedInstall == DownloadSpec => []InstalledVerified
<1>1. DownloadInv => InstalledVerified
  BY DEF DownloadInv
<1>2. QED BY InitDownloadInv, NextDownloadInv, <1>1, PTL DEF DownloadSpec
=============================================================================
