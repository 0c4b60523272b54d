---------------------------- MODULE ProcReporter ----------------------------
(***************************************************************************)
(* The process reporter (indexer/process_report.go): one work unit's rows  *)
(* in the process view.  Producers call begin, progress and finish, from   *)
(* any goroutine and in any order; begin starts a ticker that re-checks    *)
(* the announcement gate and heartbeats; finish stops and joins it before  *)
(* the terminal frame.  Frames are emitted under the reporter's mutex.     *)
(*                                                                         *)
(* A step is a critical section.  Time is abstract: the gate opens at some *)
(* moment after begin, a tick may or may not be due for a heartbeat.       *)
(* Counters and messages are left out.                                     *)
(***************************************************************************)
EXTENDS Naturals, Sequences

CONSTANTS
    Callers,    \* goroutines that use the reporter
    Immediate,  \* the gate is negative: announce at begin
    MaxFrames   \* bound: frames emitted before the terminal one

ASSUME ReporterAssumption == Immediate \in BOOLEAN /\ MaxFrames \in Nat

VARIABLES
    worked,     \* workStart is set
    gateOpen,   \* the gate's time has passed
    announced, finished,
    ticker,     \* the ticker goroutine
    stopped,    \* stopTick is closed
    at,         \* where each caller is
    frames      \* the frames emitted

reporter == <<worked, gateOpen, announced, finished, ticker, stopped, at, frames>>

Terminals == {"done", "cancelled", "failed"}
Phases == {"started", "progress"} \cup Terminals

ReporterTypeOK ==
    /\ worked \in BOOLEAN /\ gateOpen \in BOOLEAN
    /\ announced \in BOOLEAN /\ finished \in BOOLEAN
    /\ ticker \in {"none", "running", "over"} /\ stopped \in BOOLEAN
    /\ at \in [Callers -> {"idle", "spawn", "stop", "join", "terminal"}]
    /\ frames \in Seq(Phases)

ReporterInit ==
    /\ worked = FALSE /\ gateOpen = Immediate
    /\ announced = FALSE /\ finished = FALSE
    /\ ticker = "none" /\ stopped = FALSE
    /\ at = [c \in Callers |-> "idle"]
    /\ frames = <<>>

Goto(c, l) == at' = [at EXCEPT ![c] = l]

EmitPhase(phase) == frames' = Append(frames, phase)

Room == Len(frames) < MaxFrames

(* tryAnnounceLocked, given whether the work has started.                   *)
CanAnnounce(work) == ~announced /\ work /\ ~finished /\ gateOpen

(* The gate's duration elapses.                                             *)
GateOpens ==
    /\ worked /\ ~gateOpen
    /\ gateOpen' = TRUE
    /\ UNCHANGED <<worked, announced, finished, ticker, stopped, at, frames>>

-----------------------------------------------------------------------------
(* begin, under the mutex; the caller that set workStart then starts the    *)
(* ticker.                                                                  *)
Begin(c) ==
    /\ at[c] = "idle" /\ Room
    /\ LET fresh == ~worked /\ ~finished
       IN /\ worked' = (worked \/ fresh)
          /\ IF fresh THEN Goto(c, "spawn") ELSE UNCHANGED at
          /\ IF CanAnnounce(worked \/ fresh)
             THEN announced' = TRUE /\ EmitPhase("started")
             ELSE UNCHANGED <<announced, frames>>
    /\ UNCHANGED <<gateOpen, finished, ticker, stopped>>

SpawnTicker(c) ==
    /\ at[c] = "spawn"
    /\ ticker' = "running"
    /\ Goto(c, "idle")
    /\ UNCHANGED <<worked, gateOpen, announced, finished, stopped, frames>>

(* progress: the call that opens the gate emits only started.               *)
Progress(c) ==
    /\ at[c] = "idle" /\ Room /\ ~finished
    /\ \/ /\ announced /\ EmitPhase("progress")
          /\ UNCHANGED announced
       \/ /\ CanAnnounce(worked)
          /\ announced' = TRUE /\ EmitPhase("started")
    /\ UNCHANGED <<worked, gateOpen, finished, ticker, stopped, at>>

-----------------------------------------------------------------------------
(* finish, first critical section.                                          *)
Finish(c) ==
    /\ at[c] = "idle" /\ ~finished
    /\ finished' = TRUE
    /\ Goto(c, IF worked THEN "stop" ELSE "terminal")
    /\ UNCHANGED <<worked, gateOpen, announced, ticker, stopped, frames>>

(* Mutant of StopTicker: stopTick is not closed.                            *)
StopTickerOpen(c) ==
    /\ at[c] = "stop"
    /\ Goto(c, "join")
    /\ UNCHANGED <<worked, gateOpen, announced, finished, ticker, stopped, frames>>

StopTicker(c) ==
    /\ at[c] = "stop"
    /\ stopped' = TRUE
    /\ Goto(c, "join")
    /\ UNCHANGED <<worked, gateOpen, announced, finished, ticker, frames>>

(* Mutant of JoinTicker: finish does not wait.                              *)
JoinTickerSkipped(c) ==
    /\ at[c] = "join"
    /\ Goto(c, "terminal")
    /\ UNCHANGED <<worked, gateOpen, announced, finished, ticker, stopped, frames>>

JoinTicker(c) ==
    /\ at[c] = "join" /\ ticker = "over"
    /\ Goto(c, "terminal")
    /\ UNCHANGED <<worked, gateOpen, announced, finished, ticker, stopped, frames>>

(* The terminal frame: done, cancelled or failed by the work's outcome;     *)
(* silent when the gate never opened.                                       *)
Terminal(c) ==
    /\ at[c] = "terminal"
    /\ IF announced THEN \E t \in Terminals : EmitPhase(t) ELSE UNCHANGED frames
    /\ Goto(c, "idle")
    /\ UNCHANGED <<worked, gateOpen, announced, finished, ticker, stopped>>

-----------------------------------------------------------------------------
(* tick: a tick announces, or heartbeats when due; it does not look at      *)
(* finished, the join is what keeps it from trailing the terminal frame.    *)
Tick ==
    /\ ticker = "running" /\ Room
    /\ \/ /\ announced /\ EmitPhase("progress")
          /\ UNCHANGED announced
       \/ /\ CanAnnounce(worked)
          /\ announced' = TRUE /\ EmitPhase("started")
    /\ UNCHANGED <<worked, gateOpen, finished, ticker, stopped, at>>

TickStops ==
    /\ ticker = "running" /\ stopped
    /\ ticker' = "over"
    /\ UNCHANGED <<worked, gateOpen, announced, finished, stopped, at, frames>>

-----------------------------------------------------------------------------
CallerStep(c) ==
    \/ SpawnTicker(c) \/ StopTicker(c) \/ JoinTicker(c) \/ Terminal(c)

ReporterNext ==
    \/ \E c \in Callers : Begin(c) \/ Progress(c) \/ Finish(c) \/ CallerStep(c)
    \/ GateOpens \/ Tick \/ TickStops

(* A caller inside a method goes on; a stopped ticker sees the stop, as a   *)
(* select that keeps finding both ready chooses it in the end.              *)
ReporterFairness ==
    /\ \A c \in Callers : WF_reporter(CallerStep(c))
    /\ WF_reporter(TickStops)

ReporterSpec == ReporterInit /\ [][ReporterNext]_reporter /\ ReporterFairness

-----------------------------------------------------------------------------
(* The inductive invariant behind FrameOrder.                               *)

Finishing(c) == at[c] \in {"stop", "join", "terminal"}

Ended == frames # <<>> /\ frames[Len(frames)] \in Terminals

(* One caller at most is past finish's flag, and none once the terminal     *)
(* frame is out.                                                            *)
OneFinisher ==
    /\ \A c \in Callers : Finishing(c) => finished /\ ~Ended
    /\ \A c, d \in Callers : Finishing(c) /\ Finishing(d) => c = d

(* One caller at most starts the ticker, before it runs.                    *)
OneTicker ==
    /\ \A c \in Callers : at[c] = "spawn" => ticker = "none" /\ worked
    /\ \A c, d \in Callers : at[c] = "spawn" /\ at[d] = "spawn" => c = d
    /\ ticker # "none" => worked

(* From the join to the end nothing is left that could emit a frame.        *)
Quiet ==
    Ended \/ (\E c \in Callers : at[c] = "terminal") =>
        /\ finished /\ ticker # "running"
        /\ \A c \in Callers : at[c] # "spawn"

AnnouncedOnce == announced <=> frames # <<>>

-----------------------------------------------------------------------------
(* Properties.                                                              *)

(* The frames of a work unit are started, then progress, then at most one   *)
(* terminal frame and nothing after it: no heartbeat, late progress call or *)
(* second finish resurrects the row (process_report.go:18-20).              *)
FrameOrder ==
    \A i \in 1..Len(frames) :
        /\ (frames[i] = "started") <=> (i = 1)
        /\ frames[i] \in Terminals => i = Len(frames)

ReporterInv == ReporterTypeOK /\ AnnouncedOnce /\ OneFinisher /\ OneTicker /\ Quiet /\ FrameOrder

(* An announced work unit that finish was called on gets its terminal       *)
(* frame: the join never waits for ever and never drops it.                 *)
TerminalReached ==
    finished /\ announced ~>
        frames # <<>> /\ frames[Len(frames)] \in Terminals

=============================================================================
