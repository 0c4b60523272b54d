----------------------------- MODULE EmbedWorker -----------------------------
(***************************************************************************)
(* The local embedder's supervisor (indexer/embed_worker.go): one child    *)
(* process runs the model, spawned lazily, shared by every caller and      *)
(* owned through a slot; queries go ahead of doc frames; a caller that     *)
(* gives up leaves its frame to finish; a stream that broke retires the    *)
(* child and demotes it to CPU; Close kills a busy child.                  *)
(*                                                                         *)
(* The slot is a Go channel of capacity one: blocked senders queue in      *)
(* order and a receive hands the slot to the first of them.  A process is  *)
(* alive from its start until it is reaped; a killed or crashed one        *)
(* answers nothing more.  Timeouts may fire at any moment.  Texts,         *)
(* vectors, the restart backoff and logging are left out; a model that is  *)
(* not ready and a backoff that has not passed are one failure of          *)
(* ensureChild.                                                            *)
(***************************************************************************)
EXTENDS Naturals, Sequences, FiniteSets

CONSTANTS
    Docs,        \* EmbedDocs calls
    Queries,     \* EmbedQuery calls
    Frames,      \* bound: decode groups of one EmbedDocs call
    Procs,       \* process ids, reused after a reap
    NoProc,      \* no process
    Burst,       \* queryBurst
    MaxThreads,  \* bound: SetThreads calls
    MayClose,    \* the embedder may be closed
    MayFail      \* children may crash, hang or answer garbage

Calls == Docs \cup Queries
Closer == "close"
Threader == "threads"
Actors == Calls \cup {Closer, Threader}
Free == "free"

(* Close, SetThreads and the free slot are no calls, and NoProc is no       *)
(* process.                                                                 *)
WorkerConstants ==
    /\ {Closer, Threader, Free} \cap Calls = {} /\ Docs \cap Queries = {} /\ NoProc \notin Procs
    /\ IsFiniteSet(Queries) /\ Frames \in Nat /\ Burst \in Nat /\ MaxThreads \in Nat
ASSUME WorkerAssumption == WorkerConstants

VARIABLES
    holder, queue,    \* the slot and the senders blocked on it
    urgent, streak,   \* childSlot's counters
    closing,          \* the shutdown flag
    threads, cpuOnly, \* the spec: thread count, and the GPU demotion
    child, live,      \* w.child and w.live
    alive, dead,      \* processes not reaped; of these, those killed or crashed
    spec,             \* spec[p]: what p was spawned with
    wire, resp,       \* frames written to p, answers it sent
    pc,               \* where each actor is
    want, cur,        \* the spec an actor read, the process it works on
    ctxDone,          \* the caller has gone
    left,             \* frames an EmbedDocs call has still to send
    got,              \* history: whose answer a call received
    faulted           \* history: a frame has failed on the GPU

slot == <<holder, queue, urgent, streak>>
procs == <<alive, dead, spec, wire, resp>>
setup == <<closing, threads, cpuOnly>>
vars == <<slot, setup, child, live, procs, pc, want, cur, ctxDone, left, got, faulted>>

Specs == [threads : 0..MaxThreads, gpu : BOOLEAN]
InitialSpec == [threads |-> 0, gpu |-> TRUE]
Pcs == {"idle", "begin", "urge", "send", "queued", "granted", "yield", "quit", "calm",
        "ensure", "retire", "retired", "start", "store", "lookback", "handshake",
        "ready", "await", "fail", "failed", "killed", "release",
        "try", "kill", "stop", "stopped", "closed"}

TypeOK ==
    /\ holder \in Actors \cup {Free} /\ queue \in Seq(Calls \cup {Closer})
    /\ urgent \in Nat /\ streak \in 0..Burst
    /\ closing \in BOOLEAN /\ threads \in 0..MaxThreads /\ cpuOnly \in BOOLEAN
    /\ child \in Procs \cup {NoProc} /\ live \in Procs \cup {NoProc}
    /\ alive \subseteq Procs /\ dead \subseteq alive
    /\ spec \in [Procs -> Specs]
    /\ wire \in [Procs -> Seq(Calls)] /\ resp \in [Procs -> Seq(Calls)]
    /\ pc \in [Actors -> Pcs] /\ want \in [Actors -> Specs]
    /\ cur \in [Actors -> Procs \cup {NoProc}]
    /\ ctxDone \in [Calls -> BOOLEAN] /\ left \in [Docs -> 0..Frames]
    /\ got \in [Calls -> Calls] /\ faulted \in BOOLEAN

Init ==
    /\ holder = Free /\ queue = <<>> /\ urgent = 0 /\ streak = 0
    /\ closing = FALSE /\ threads = 0 /\ cpuOnly = FALSE
    /\ child = NoProc /\ live = NoProc /\ alive = {} /\ dead = {}
    /\ spec = [p \in Procs |-> InitialSpec]
    /\ wire = [p \in Procs |-> <<>>] /\ resp = [p \in Procs |-> <<>>]
    /\ pc = [a \in Actors |-> "idle"]
    /\ want = [a \in Actors |-> InitialSpec]
    /\ cur = [a \in Actors |-> NoProc]
    /\ ctxDone = [c \in Calls |-> FALSE] /\ left = [d \in Docs |-> 0]
    /\ got = [c \in Calls |-> c] /\ faulted = FALSE

Goto(a, l) == pc' = [pc EXCEPT ![a] = l]

(* A call that failed, or whose caller left, sends no further frame.        *)
NoneLeft(c) == left' = IF c \in Docs THEN [left EXCEPT ![c] = 0] ELSE left

-----------------------------------------------------------------------------
(* The slot.                                                                *)

Urge(c) ==
    /\ pc[c] = "urge"
    /\ urgent' = urgent + 1
    /\ Goto(c, "send")
    /\ UNCHANGED <<holder, queue, streak, setup, child, live, procs, want, cur, ctxDone, left, got, faulted>>

Send(a) ==
    /\ pc[a] = "send"
    /\ IF holder = Free
       THEN holder' = a /\ Goto(a, "granted") /\ UNCHANGED queue
       ELSE queue' = Append(queue, a) /\ Goto(a, "queued") /\ UNCHANGED holder
    /\ UNCHANGED <<urgent, streak, setup, child, live, procs, want, cur, ctxDone, left, got, faulted>>

(* A sender blocked on the channel gives up: the others keep their order.   *)
Unqueued(a) ==
    \E i \in 1..Len(queue) :
        queue[i] = a /\ queue' = SubSeq(queue, 1, i - 1) \o SubSeq(queue, i + 1, Len(queue))

(* Mutant of LeaveQueue: a query that gives up stays counted as waiting.    *)
LeaveQueueCounted(c) ==
    /\ pc[c] = "queued" /\ ctxDone[c]
    /\ Unqueued(c)
    /\ Goto(c, "idle")
    /\ NoneLeft(c)
    /\ UNCHANGED <<holder, urgent, streak, setup, child, live, procs, want, cur, ctxDone, got, faulted>>

(* A caller that gives up leaves the queue.                                 *)
LeaveQueue(c) ==
    /\ pc[c] = "queued" /\ ctxDone[c]
    /\ Unqueued(c)
    /\ Goto(c, IF c \in Queries THEN "calm" ELSE "idle")
    /\ NoneLeft(c)
    /\ UNCHANGED <<holder, urgent, streak, setup, child, live, procs, want, cur, ctxDone, got, faulted>>

(* Mutant of DocTurn: a doc frame yields as long as a query waits.          *)
DocTurnMeek == urgent = 0

(* A doc frame, or Close, goes ahead: no query waits, or they have had      *)
(* their burst.                                                             *)
DocTurn == urgent = 0 \/ streak >= Burst

(* acquire with the slot in hand: a caller already gone gives it back, and  *)
(* a doc frame gives it back to the queries waiting.  The streak is only    *)
(* compared with Burst and saturates there.                                 *)
Granted(a) ==
    /\ pc[a] = "granted"
    /\ \/ /\ a \in Calls /\ ctxDone[a]
          /\ Goto(a, "quit") /\ UNCHANGED streak
       \/ /\ a \in Queries /\ ~ctxDone[a]
          /\ streak' = IF streak < Burst THEN streak + 1 ELSE streak
          /\ Goto(a, "ensure")
       \/ /\ a \notin Queries /\ (a \in Calls => ~ctxDone[a]) /\ DocTurn
          /\ streak' = 0
          /\ Goto(a, IF a = Closer THEN "stop" ELSE "ensure")
       \/ /\ a \notin Queries /\ (a \in Calls => ~ctxDone[a]) /\ ~DocTurn
          /\ Goto(a, "yield") /\ UNCHANGED streak
    /\ UNCHANGED <<holder, queue, urgent, setup, child, live, procs, want, cur, ctxDone, left, got, faulted>>

(* release: the receive hands the slot to the first sender blocked.         *)
HandOver(a, next) ==
    /\ holder' = IF queue = <<>> THEN Free ELSE Head(queue)
    /\ queue' = IF queue = <<>> THEN queue ELSE Tail(queue)
    /\ pc' = IF queue = <<>> THEN [pc EXCEPT ![a] = next]
             ELSE [pc EXCEPT ![a] = next, ![Head(queue)] = "granted"]

Yield(a) ==
    /\ pc[a] = "yield"
    /\ HandOver(a, "send")
    /\ UNCHANGED <<urgent, streak, setup, child, live, procs, want, cur, ctxDone, left, got, faulted>>

(* Mutant of Quit: the caller already gone returns with the slot.           *)
QuitKeeps(c) ==
    /\ pc[c] = "quit"
    /\ Goto(c, IF c \in Queries THEN "calm" ELSE "idle")
    /\ NoneLeft(c)
    /\ UNCHANGED <<slot, setup, child, live, procs, want, cur, ctxDone, got, faulted>>

Quit(c) ==
    /\ pc[c] = "quit"
    /\ HandOver(c, IF c \in Queries THEN "calm" ELSE "idle")
    /\ NoneLeft(c)
    /\ UNCHANGED <<urgent, streak, setup, child, live, procs, want, cur, ctxDone, got, faulted>>

(* The frame is over, for its caller or for nobody.                         *)
NextFrame(a) == IF a \in Docs /\ left[a] > 0 /\ ~ctxDone[a] THEN "begin" ELSE "idle"
Released(a) == IF a \in Queries THEN "calm" ELSE IF a = Closer THEN "closed" ELSE NextFrame(a)
Release(a) ==
    /\ pc[a] = "release"
    /\ HandOver(a, Released(a))
    /\ left' = IF a \in Docs /\ ctxDone[a] THEN [left EXCEPT ![a] = 0] ELSE left
    /\ UNCHANGED <<urgent, streak, setup, child, live, procs, want, cur, ctxDone, got, faulted>>

(* A query's release counts it off after the slot is free.                  *)
Calm(q) ==
    /\ pc[q] = "calm"
    /\ urgent' = urgent - 1
    /\ Goto(q, "idle")
    /\ UNCHANGED <<holder, queue, streak, setup, child, live, procs, want, cur, ctxDone, left, got, faulted>>

-----------------------------------------------------------------------------
(* Calls.                                                                   *)

EmbedDocs(d, n) ==
    /\ pc[d] = "idle"
    /\ left' = [left EXCEPT ![d] = n]
    /\ ctxDone' = [ctxDone EXCEPT ![d] = FALSE]
    /\ got' = [got EXCEPT ![d] = d]
    /\ Goto(d, "begin")
    /\ UNCHANGED <<slot, setup, child, live, procs, want, cur, faulted>>

EmbedQuery(q) ==
    /\ pc[q] = "idle"
    /\ ctxDone' = [ctxDone EXCEPT ![q] = FALSE]
    /\ got' = [got EXCEPT ![q] = q]
    /\ Goto(q, "begin")
    /\ UNCHANGED <<slot, setup, child, live, procs, want, cur, left, faulted>>

(* run refuses once the embedder is closing.                                *)
Begin(c) ==
    /\ pc[c] = "begin"
    /\ IF closing
       THEN NoneLeft(c) /\ Goto(c, "idle")
       ELSE UNCHANGED left /\ Goto(c, IF c \in Queries THEN "urge" ELSE "send")
    /\ UNCHANGED <<slot, setup, child, live, procs, want, cur, ctxDone, got, faulted>>

(* Mutant of CtxEnds: the caller that leaves mid-frame takes the slot with  *)
(* it, and the next frame is written behind an answer nobody has read.      *)
CtxEndsReleases(c) ==
    /\ pc[c] # "idle" /\ ~ctxDone[c]
    /\ ctxDone' = [ctxDone EXCEPT ![c] = TRUE]
    /\ IF pc[c] = "await" THEN Goto(c, "release") ELSE UNCHANGED pc
    /\ UNCHANGED <<slot, setup, child, live, procs, want, cur, left, got, faulted>>

(* The caller leaves; what it began goes on without it.                     *)
CtxEnds(c) ==
    /\ pc[c] # "idle" /\ ~ctxDone[c]
    /\ ctxDone' = [ctxDone EXCEPT ![c] = TRUE]
    /\ UNCHANGED <<slot, setup, child, live, procs, pc, want, cur, left, got, faulted>>

-----------------------------------------------------------------------------
(* serve: the holder of the slot ensures a child and does the round trip.   *)

(* childSpec.                                                               *)
ChildSpec == [threads |-> threads, gpu |-> ~cpuOnly]

Fails(c) == NoneLeft(c) /\ Goto(c, "release")

(* ensureChild: a stale child is retired for a doc frame, never for a       *)
(* query; without one the model must be ready and the backoff passed.       *)
EnsureChild(c) ==
    /\ pc[c] = "ensure"
    /\ \/ closing /\ Fails(c) /\ UNCHANGED want
       \/ ~closing /\ child # NoProc /\ (c \in Queries \/ spec[child] = ChildSpec)
          /\ Goto(c, "ready") /\ UNCHANGED <<left, want>>
       \/ ~closing /\ child # NoProc /\ c \notin Queries /\ spec[child] # ChildSpec
          /\ Goto(c, "retire") /\ want' = [want EXCEPT ![c] = ChildSpec] /\ UNCHANGED left
       \/ ~closing /\ child = NoProc
          /\ Goto(c, "start") /\ want' = [want EXCEPT ![c] = ChildSpec] /\ UNCHANGED left
       \/ MayFail /\ ~closing /\ child = NoProc /\ Fails(c) /\ UNCHANGED want
    /\ UNCHANGED <<slot, setup, child, live, procs, cur, ctxDone, got, faulted>>

(* stopChild and failChild take the child out of the supervisor ...         *)
TakeChild(a, next) ==
    /\ cur' = [cur EXCEPT ![a] = child]
    /\ child' = NoProc /\ live' = NoProc
    /\ Goto(a, next)

(* ... and wait for it to end.                                              *)
Reap(a) ==
    LET p == cur[a]
    IN /\ alive' = alive \ {p} /\ dead' = dead \ {p}
       /\ IF p = NoProc THEN UNCHANGED <<wire, resp>>
          ELSE wire' = [wire EXCEPT ![p] = <<>>] /\ resp' = [resp EXCEPT ![p] = <<>>]
       /\ cur' = [cur EXCEPT ![a] = NoProc]
       /\ IF p = NoProc THEN UNCHANGED spec ELSE spec' = [spec EXCEPT ![p] = InitialSpec]

Retire(c) ==
    /\ pc[c] = "retire"
    /\ TakeChild(c, "retired")
    /\ UNCHANGED <<slot, setup, procs, want, ctxDone, left, got, faulted>>

(* Mutant of Retired: the new child starts while the old one exits.         *)
RetiredUnreaped(c) ==
    /\ pc[c] = "retired"
    /\ Goto(c, "start")
    /\ UNCHANGED <<slot, setup, child, live, procs, want, cur, ctxDone, left, got, faulted>>

Retired(c) ==
    /\ pc[c] = "retired"
    /\ Reap(c)
    /\ Goto(c, "start")
    /\ UNCHANGED <<slot, setup, child, live, want, ctxDone, left, got, faulted>>

(* startChild: the process starts, is made visible to Close, and the        *)
(* closing flag is looked at again.                                         *)
StartChild(c) ==
    /\ pc[c] = "start"
    /\ \/ \E p \in Procs \ alive :
            /\ alive' = alive \cup {p}
            /\ spec' = [spec EXCEPT ![p] = want[c]]
            /\ cur' = [cur EXCEPT ![c] = p]
            /\ Goto(c, "store")
            /\ UNCHANGED <<left, dead>>
       \/ MayFail /\ Fails(c) /\ UNCHANGED <<alive, dead, spec, cur>>
    /\ want' = [want EXCEPT ![c] = InitialSpec]
    /\ UNCHANGED <<slot, setup, child, live, wire, resp, ctxDone, got, faulted>>

StoreLive(c) ==
    /\ pc[c] = "store"
    /\ live' = cur[c]
    /\ Goto(c, "lookback")
    /\ UNCHANGED <<slot, setup, child, procs, want, cur, ctxDone, left, got, faulted>>

(* Mutant of LookBack: no second look at the closing flag.                  *)
LookBackNot(c) ==
    /\ pc[c] = "lookback"
    /\ Goto(c, "handshake")
    /\ UNCHANGED <<slot, setup, child, live, procs, want, cur, ctxDone, left, got, faulted>>

LookBack(c) ==
    /\ pc[c] = "lookback"
    /\ dead' = IF closing THEN dead \cup {cur[c]} ELSE dead
    /\ Goto(c, "handshake")
    /\ UNCHANGED <<slot, setup, child, live, alive, spec, wire, resp, want, cur, ctxDone, left, got, faulted>>

Handshake(c) ==
    /\ pc[c] = "handshake" /\ cur[c] \notin dead
    /\ child' = cur[c]
    /\ cur' = [cur EXCEPT ![c] = NoProc]
    /\ Goto(c, "ready")
    /\ UNCHANGED <<slot, setup, live, procs, want, ctxDone, left, got, faulted>>

(* The child died, reported an error or took too long to become ready.      *)
HandshakeFails(c) ==
    /\ pc[c] = "handshake" /\ (cur[c] \in dead \/ MayFail)
    /\ Reap(c)
    /\ live' = NoProc
    /\ Fails(c)
    /\ UNCHANGED <<slot, setup, child, want, ctxDone, got, faulted>>

(* The caller's ctx is consulted once more before the write.                *)
Ready(c) ==
    /\ pc[c] = "ready"
    /\ IF ctxDone[c]
       THEN Fails(c) /\ UNCHANGED wire
       ELSE /\ wire' = [wire EXCEPT ![child] = Append(@, c)]
            /\ Goto(c, "await") /\ UNCHANGED left
    /\ UNCHANGED <<slot, setup, child, live, alive, dead, spec, resp, want, cur, ctxDone, got, faulted>>

(* The answer to the frame: vectors, or an error of a healthy child, which  *)
(* ends the batch.                                                          *)
ReadAnswer(c) ==
    /\ pc[c] = "await" /\ resp[child] # <<>>
    /\ got' = [got EXCEPT ![c] = Head(resp[child])]
    /\ resp' = [resp EXCEPT ![child] = Tail(@)]
    /\ \/ left' = IF c \in Docs THEN [left EXCEPT ![c] = @ - 1] ELSE left
       \/ NoneLeft(c)
    /\ Goto(c, "release")
    /\ UNCHANGED <<slot, setup, child, live, alive, dead, spec, wire, want, cur, ctxDone, faulted>>

(* The stream broke: the child died, did not answer in time or sent         *)
(* something that is not an answer.                                         *)
StreamBreaks(c) ==
    /\ pc[c] = "await" /\ (child \in dead \/ MayFail)
    /\ faulted' = (faulted \/ (spec[child].gpu /\ ~closing))
    /\ Goto(c, "fail")
    /\ UNCHANGED <<slot, setup, child, live, procs, want, cur, ctxDone, left, got>>

(* failChild: a stream that broke because of Close is not a fault.          *)
FailChild(c) ==
    /\ pc[c] = "fail"
    /\ TakeChild(c, IF closing THEN "killed" ELSE "failed")
    /\ UNCHANGED <<slot, setup, procs, want, ctxDone, left, got, faulted>>

(* Mutant of FailedChild: a fault on the GPU demotes nothing.               *)
FailedChildKeepsGPU(c) ==
    /\ pc[c] \in {"failed", "killed"}
    /\ Reap(c)
    /\ Fails(c)
    /\ UNCHANGED <<slot, setup, child, live, want, ctxDone, got, faulted>>

(* The process is killed and reaped; a fault with GPU offload active        *)
(* demotes the run to CPU.                                                  *)
FailedChild(c) ==
    /\ pc[c] \in {"failed", "killed"}
    /\ Reap(c)
    /\ cpuOnly' = (cpuOnly \/ (pc[c] = "failed" /\ spec[cur[c]].gpu))
    /\ Fails(c)
    /\ UNCHANGED <<slot, closing, threads, child, live, want, ctxDone, got, faulted>>

-----------------------------------------------------------------------------
(* The child process.                                                       *)

Answer(p) ==
    /\ p \in alive \ dead /\ wire[p] # <<>>
    /\ resp' = [resp EXCEPT ![p] = Append(@, Head(wire[p]))]
    /\ wire' = [wire EXCEPT ![p] = Tail(@)]
    /\ UNCHANGED <<slot, setup, child, live, alive, dead, spec, pc, want, cur, ctxDone, left, got, faulted>>

Crash(p) ==
    /\ MayFail /\ p \in alive \ dead
    /\ dead' = dead \cup {p}
    /\ UNCHANGED <<slot, setup, child, live, alive, spec, wire, resp, pc, want, cur, ctxDone, left, got, faulted>>

-----------------------------------------------------------------------------
(* SetThreads and Close.                                                    *)

(* An idle child is retired at once.                                        *)
SetThreads ==
    /\ pc[Threader] = "idle" /\ threads < MaxThreads
    /\ threads' = threads + 1
    /\ Goto(Threader, "try")
    /\ UNCHANGED <<slot, closing, cpuOnly, child, live, procs, want, cur, ctxDone, left, got, faulted>>

ThreaderTry ==
    /\ pc[Threader] = "try"
    /\ IF holder = Free THEN holder' = Threader /\ Goto(Threader, "stop")
                        ELSE Goto(Threader, "idle") /\ UNCHANGED holder
    /\ UNCHANGED <<queue, urgent, streak, setup, child, live, procs, want, cur, ctxDone, left, got, faulted>>

Close ==
    /\ MayClose /\ pc[Closer] = "idle"
    /\ closing' = TRUE
    /\ Goto(Closer, "try")
    /\ UNCHANGED <<slot, threads, cpuOnly, child, live, procs, want, cur, ctxDone, left, got, faulted>>

CloserTry ==
    /\ pc[Closer] = "try"
    /\ IF holder = Free THEN holder' = Closer /\ Goto(Closer, "stop")
                        ELSE Goto(Closer, "kill") /\ UNCHANGED holder
    /\ UNCHANGED <<queue, urgent, streak, setup, child, live, procs, want, cur, ctxDone, left, got, faulted>>

(* A busy child is killed before the slot is taken.                         *)
CloserKill ==
    /\ pc[Closer] = "kill"
    /\ dead' = dead \cup ({live} \cap alive)
    /\ Goto(Closer, "send")
    /\ UNCHANGED <<slot, setup, child, live, alive, spec, wire, resp, want, cur, ctxDone, left, got, faulted>>

Stop(a) ==
    /\ pc[a] = "stop"
    /\ TakeChild(a, "stopped")
    /\ UNCHANGED <<slot, setup, procs, want, ctxDone, left, got, faulted>>

Stopped(a) ==
    /\ pc[a] = "stopped"
    /\ Reap(a)
    /\ Goto(a, "release")
    /\ UNCHANGED <<slot, setup, child, live, want, ctxDone, left, got, faulted>>

-----------------------------------------------------------------------------
CallStep(c) ==
    \/ Begin(c) \/ Urge(c) \/ LeaveQueue(c) \/ Quit(c) \/ Calm(c)
    \/ EnsureChild(c) \/ Retire(c) \/ Retired(c)
    \/ StartChild(c) \/ StoreLive(c) \/ LookBack(c) \/ Handshake(c) \/ HandshakeFails(c)
    \/ Ready(c) \/ ReadAnswer(c) \/ StreamBreaks(c) \/ FailChild(c) \/ FailedChild(c)

ActorStep(a) ==
    \/ Send(a) \/ Granted(a) \/ Yield(a) \/ Release(a) \/ Stop(a) \/ Stopped(a)
    \/ a \in Calls /\ CallStep(a)

CloserStep == CloserTry \/ CloserKill

Next ==
    \/ \E d \in Docs, n \in 1..Frames : EmbedDocs(d, n)
    \/ \E q \in Queries : EmbedQuery(q)
    \/ \E c \in Calls : CtxEnds(c)
    \/ \E a \in Actors : ActorStep(a)
    \/ \E p \in Procs : Answer(p) \/ Crash(p)
    \/ SetThreads \/ ThreaderTry \/ Close \/ CloserStep

(* Goroutines run and a live child answers or a timeout fires; nothing is   *)
(* assumed of callers.                                                      *)
Fairness ==
    /\ \A a \in Actors : WF_vars(ActorStep(a))
    /\ \A p \in Procs : WF_vars(Answer(p))
    /\ WF_vars(ThreaderTry) /\ WF_vars(CloserStep)

Spec == Init /\ [][Next]_vars /\ Fairness

-----------------------------------------------------------------------------
(* Properties.                                                              *)

(* There are never two model processes: a child is reaped before the next   *)
(* one starts, whether it was stale, crashed, hung or failed to start.      *)
OneChild == Cardinality(alive) <= 1

(* A call is answered with its own vectors: no answer of an abandoned,      *)
(* timed-out or earlier frame is left in the stream for it.                 *)
AnswersOwn == \A c \in Calls : got[c] = c

(* Close does not wait out a request: once it queues for the slot, a holder *)
(* that waits for a process waits for one that has been killed.             *)
CloseKillsBusy ==
    pc[Closer] \in {"send", "queued"} =>
        \A c \in Calls :
            /\ pc[c] = "handshake" => cur[c] \in dead
            /\ pc[c] = "await" => child \in dead

(* After Close no process is left, and none is ever started.                *)
ClosedForGood == pc[Closer] = "closed" => alive = {}

(* A frame that failed on the GPU, by a crash or by a hang, is the last one *)
(* there: every process that runs afterwards is on the CPU.                 *)
FrameFaultDemotes ==
    faulted =>
        \A p \in alive \ dead : spec[p].gpu =>
            \E c \in Calls : (pc[c] = "fail" /\ child = p) \/ (pc[c] \in {"failed", "killed"} /\ cur[c] = p)

(* A waiting doc frame runs, however many queries keep coming, as long as   *)
(* the queries' callers wait for their answers: a query given up in the     *)
(* queue is not a turn, so a doc frame may yield to such queries without    *)
(* end.                                                                     *)
DocsNotStarved ==
    <>[](\A q \in Queries : ~ctxDone[q]) =>
        \A d \in Docs : pc[d] = "queued" ~> pc[d] \in {"ensure", "idle"}

(* Close returns.                                                           *)
CloseReturns == closing ~> pc[Closer] = "closed"

(* The counter a doc frame yields to counts each query once from its call   *)
(* for the slot until it has released or given it up, however the query     *)
(* ends: it neither leaks (doc frames yielding for ever) nor forgets one.   *)
Counted == Pcs \ {"idle", "begin", "urge"}
UrgentExact == urgent = Cardinality({q \in Queries : pc[q] \in Counted})

(* The model process answers for itself and nobody else.                    *)
ChildSound == /\ TypeOK /\ OneChild /\ AnswersOwn /\ CloseKillsBusy /\ ClosedForGood
              /\ FrameFaultDemotes /\ UrgentExact

-----------------------------------------------------------------------------
(* The inductive invariant.                                                 *)

(* Stages of a call at which it works on a process it has taken or started, *)
(* on the child, or on its way to one; and those at which an actor owns the *)
(* slot.                                                                    *)
Taken == {"retired", "store", "lookback", "handshake", "failed", "killed", "stopped"}
OnChild == {"retire", "ready", "await", "fail"}
Working == Taken \cup OnChild \cup {"start"}
Serving == Working \cup {"granted", "yield", "quit", "ensure", "release", "stop"}

(* What the steps need of the types.                                        *)
Typed ==
    /\ holder \in Actors \cup {Free} /\ queue \in Seq(Calls \cup {Closer})
    /\ closing \in BOOLEAN /\ cpuOnly \in BOOLEAN /\ threads \in 0..MaxThreads
    /\ child \in Procs \cup {NoProc} /\ live \in Procs \cup {NoProc}
    /\ alive \subseteq Procs /\ dead \subseteq alive
    /\ spec \in [Procs -> Specs]
    /\ wire \in [Procs -> Seq(Calls)] /\ resp \in [Procs -> Seq(Calls)]
    /\ pc \in [Actors -> Pcs] /\ want \in [Actors -> Specs]
    /\ cur \in [Actors -> Procs \cup {NoProc}]
    /\ got \in [Calls -> Calls] /\ faulted \in BOOLEAN

(* The stages an actor reaches: only calls run frames.                      *)
StagesOf(a) ==
    IF a = Threader THEN {"idle", "try", "stop", "stopped", "release"}
    ELSE IF a = Closer
    THEN {"idle", "try", "kill", "send", "queued", "granted", "yield", "stop", "stopped",
          "release", "closed"}
    ELSE Pcs \ {"try", "kill", "stop", "stopped", "closed"}

(* One actor owns the slot.                                                 *)
SlotOwned == \A a \in Actors : pc[a] \in StagesOf(a) /\ (pc[a] \in Serving <=> holder = a)

(* A process that has not been reaped is the child, or the owner of the     *)
(* slot has it in hand; never both.                                         *)
ProcOwned ==
    /\ \A p \in alive : p = child \/ \E a \in Actors : cur[a] = p
    /\ \A a \in Actors :
        /\ pc[a] \notin Taken => cur[a] = NoProc
        /\ pc[a] \in Taken \cup {"start"} => child = NoProc
        /\ pc[a] \in OnChild => child # NoProc
        /\ pc[a] \in {"store", "lookback", "handshake", "failed", "killed"} => cur[a] \in alive
        /\ pc[a] \in {"lookback", "handshake"} => live = cur[a]
    /\ child # NoProc => child \in alive /\ live = child

(* A stream carries the frame of the call that waits, and nothing else      *)
(* until its process is reaped.                                             *)
WireOwned ==
    /\ \A c \in Calls : pc[c] = "await" =>
        \/ wire[child] = <<c>> /\ resp[child] = <<>>
        \/ wire[child] = <<>> /\ resp[child] = <<c>>
    /\ \A p \in Procs : wire[p] # <<>> \/ resp[p] # <<>> =>
        \E c \in Calls : \/ pc[c] \in {"await", "fail"} /\ child = p
                         \/ pc[c] \in {"failed", "killed"} /\ cur[c] = p

(* No process, and no call on its way to one.                               *)
Quiet == alive = {} /\ \A c \in Calls : pc[c] \notin Working

(* Every process runs where the demotion says; a fault that has not demoted *)
(* the run yet is being dealt with, or Close came first.                    *)
Demoted ==
    /\ \A p \in alive : spec[p].gpu = ~cpuOnly
    /\ \A c \in Calls : pc[c] \in {"retire", "retired", "start"} => want[c].gpu = ~cpuOnly
    /\ faulted => \/ cpuOnly
                  \/ \E c \in Calls : pc[c] \in {"fail", "failed", "killed"}
                  \/ closing /\ Quiet

CloserQueued == \E i \in 1..Len(queue) : queue[i] = Closer

(* A Close that queues has killed what its holder waits for; one that has   *)
(* returned left nothing.                                                   *)
Closes ==
    /\ pc[Closer] # "idle" => closing
    /\ \A c \in Calls : pc[c] = "killed" => closing
    /\ CloserQueued => closing
    /\ pc[Closer] \in {"send", "queued"} =>
        \A c \in Calls : /\ pc[c] = "handshake" => cur[c] \in dead
                         /\ pc[c] \in {"ready", "await"} => child \in dead
    /\ pc[Closer] = "release" => alive = {}
    /\ pc[Closer] = "closed" => Quiet

(* Whoever is blocked on the slot is in the queue, once.                    *)
Queued ==
    /\ \A i \in 1..Len(queue) : pc[queue[i]] = "queued"
    /\ \A i, j \in 1..Len(queue) : queue[i] = queue[j] => i = j

(* A doc frame that has not been answered is one of those left to send, and *)
(* is never counted among the queries.                                      *)
Unanswered == {"begin", "send", "queued", "granted", "yield", "ensure", "retire", "retired",
               "start", "store", "lookback", "handshake", "ready", "await"}
FramesDue ==
    \A d \in Docs : /\ pc[d] \notin {"urge", "calm"}
                    /\ pc[d] \in Unanswered => left[d] # 0

CountInv ==
    /\ urgent \in Nat /\ streak \in 0..Burst
    /\ ctxDone \in [Calls -> BOOLEAN] /\ left \in [Docs -> 0..Frames]
    /\ Queued /\ UrgentExact /\ FramesDue

IInv == Typed /\ SlotOwned /\ ProcOwned /\ WireOwned /\ Demoted /\ Closes /\ AnswersOwn
=============================================================================
