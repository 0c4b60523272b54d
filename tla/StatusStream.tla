---- MODULE StatusStream ----
(***************************************************************************)
(* One status stream of the server (internal/server/handlers_sync_status): *)
(* the SDK calls back on its own goroutine for every status flip, forward- *)
(* SSE puts the status in a bounded channel without ever blocking the SDK, *)
(* a pump takes it out and writes it, and a ticker goroutine writes keep-  *)
(* alives to the same response. Four actors: the SDK, the pump, the ticker *)
(* and the client or the engine that ends the stream.                      *)
(***************************************************************************)
EXTENDS Naturals, Sequences

CONSTANTS Buffer,      \* statusForwardBuffer
          MaxFlips     \* bound on the status flips of a run

ASSUME StreamAssumption == Buffer \in Nat \ {0} /\ MaxFlips \in Nat

VARIABLES subscribed,  \* the SDK callback is registered
          live,        \* number of the latest status; 0 before any flip
          buf,         \* the channel between callback and pump
          dropped,     \* the shared drop counter
          lastDropped, \* the drop count of the last lagged frame
          taken,       \* the status the pump is about to write
          last,        \* the last status the client got
          sent,        \* status frames written
          pump,        \* the handler: select, emit, write, closing, return, gone
          keep,        \* the ticker: wait, tick, write, off
          mu,          \* holder of writeMu
          done,        \* the fence the handler raises before it returns
          ctx          \* open; gone: the client left; shutdown: the engine ends

stream == <<subscribed, live, buf, dropped, lastDropped, taken, last, sent, pump,
            keep, mu, done, ctx>>

StreamTypeOK == /\ subscribed \in BOOLEAN /\ done \in BOOLEAN
                /\ live \in 0 .. MaxFlips /\ dropped \in 0 .. MaxFlips
                /\ lastDropped \in 0 .. dropped
                /\ buf \in Seq(1 .. MaxFlips) /\ Len(buf) <= Buffer
                /\ taken \in 0 .. live /\ last \in 0 .. live /\ sent \in 0 .. live
                /\ pump \in {"select", "emit", "write", "closing", "close", "return", "gone"}
                /\ keep \in {"wait", "tick", "write", "off"}
                /\ mu \in {"free", "pump", "keep"}
                /\ ctx \in {"open", "gone", "shutdown"}

(* The handler has subscribed, written the ready frame and started both    *)
(* goroutines: a flip that falls between the subscription and the ready    *)
(* frame is in the channel like any other.                                 *)
StreamInit == /\ subscribed = TRUE /\ live = 0 /\ buf = <<>>
              /\ dropped = 0 /\ lastDropped = 0 /\ taken = 0 /\ last = 0 /\ sent = 0
              /\ pump = "select" /\ keep = "wait" /\ mu = "free" /\ done = FALSE
              /\ ctx = "open"

(* The SDK's callback: a non-blocking send, or a counted drop.             *)
Flip == /\ live < MaxFlips
        /\ live' = live + 1
        /\ IF subscribed /\ Len(buf) < Buffer
             THEN buf' = Append(buf, live') /\ UNCHANGED dropped
             ELSE UNCHANGED buf /\ dropped' = IF subscribed THEN dropped + 1 ELSE dropped
        /\ UNCHANGED <<subscribed, lastDropped, taken, last, sent, pump, keep, mu, done, ctx>>

(* The client disconnects, or the engine shuts down or logs out.           *)
Ends == /\ ctx = "open"
        /\ ctx' \in {"gone", "shutdown"}
        /\ UNCHANGED <<subscribed, live, buf, dropped, lastDropped, taken, last, sent,
                       pump, keep, mu, done>>

(* The pump's select: a status, or the end of the context. With both ready *)
(* Go picks either.                                                        *)
Take == /\ pump = "select" /\ buf # <<>>
        /\ taken' = Head(buf) /\ buf' = Tail(buf) /\ pump' = "emit"
        /\ UNCHANGED <<subscribed, live, dropped, lastDropped, last, sent, keep, mu, done, ctx>>
Leave == /\ pump = "select" /\ ctx # "open"
         /\ pump' = "closing"
         /\ UNCHANGED <<subscribed, live, buf, dropped, lastDropped, taken, last, sent,
                        keep, mu, done, ctx>>

(* Mutant of Lag: the first drop is not announced.                         *)
LagFirst == IF dropped > lastDropped + 1 THEN dropped ELSE lastDropped

(* emit's look at the counter: a lagged frame precedes the status exactly  *)
(* when something was dropped since the last one.                          *)
Lag == IF dropped > lastDropped THEN dropped ELSE lastDropped

(* emit: under the lock, the lagged frame if one is due, then the status.  *)
Emit == /\ pump = "emit" /\ mu = "free"
        /\ mu' = "pump" /\ pump' = "write"
        /\ lastDropped' = Lag
        /\ UNCHANGED <<subscribed, live, buf, dropped, taken, last, sent, keep, done, ctx>>

(* The status frame itself. A write to a client that left may fail; the    *)
(* pump then returns.                                                      *)
EmitWrite == /\ pump = "write" /\ mu' = "free"
             /\ \/ /\ pump' = "select" /\ last' = taken /\ sent' = sent + 1
                \/ /\ ctx = "gone" /\ pump' = "closing" /\ UNCHANGED <<last, sent>>
             /\ UNCHANGED <<subscribed, live, buf, dropped, lastDropped, taken, keep, done, ctx>>

(* The terminal frame, written only when the engine is the one that ended. *)
Closed == /\ pump = "closing"
          /\ IF ctx = "shutdown" THEN mu = "free" /\ mu' = "pump" /\ pump' = "close"
                                 ELSE pump' = "return" /\ UNCHANGED mu
          /\ UNCHANGED <<subscribed, live, buf, dropped, lastDropped, taken, last, sent,
                         keep, done, ctx>>
ClosedWritten == /\ pump = "close" /\ mu' = "free" /\ pump' = "return"
                 /\ UNCHANGED <<subscribed, live, buf, dropped, lastDropped, taken, last,
                                sent, keep, done, ctx>>

(* Mutant of Return: the fence is raised without taking the lock.          *)
StreamReturnUnlocked == /\ pump = "return"
                        /\ done' = TRUE /\ subscribed' = FALSE /\ pump' = "gone"
                        /\ ctx' = IF ctx = "open" THEN "gone" ELSE ctx
                        /\ UNCHANGED <<live, buf, dropped, lastDropped, taken, last, sent, keep, mu>>

(* The handler returns: the deferred fence takes the lock first, so an in- *)
(* flight keepalive finishes before net/http takes the response back, then *)
(* the context is cancelled and the SDK callback removed.                  *)
StreamReturn == /\ pump = "return" /\ mu = "free"
                /\ done' = TRUE /\ subscribed' = FALSE /\ pump' = "gone"
                /\ ctx' = IF ctx = "open" THEN "gone" ELSE ctx
                /\ UNCHANGED <<live, buf, dropped, lastDropped, taken, last, sent, keep, mu>>

(* The ticker's select: a tick it won may be acted on only after the       *)
(* handler is gone, which the fence is for.                                *)
Tick == /\ keep = "wait" /\ pump # "gone" /\ keep' = "tick"
        /\ UNCHANGED <<subscribed, live, buf, dropped, lastDropped, taken, last, sent,
                       pump, mu, done, ctx>>
TickLock == /\ keep = "tick" /\ mu = "free"
            /\ IF done THEN keep' = "off" /\ UNCHANGED mu
                       ELSE keep' = "write" /\ mu' = "keep"
            /\ UNCHANGED <<subscribed, live, buf, dropped, lastDropped, taken, last, sent,
                           pump, done, ctx>>
TickWrite == /\ keep = "write" /\ mu' = "free"
             /\ keep' \in {"wait"} \cup (IF ctx = "gone" THEN {"off"} ELSE {})
             /\ UNCHANGED <<subscribed, live, buf, dropped, lastDropped, taken, last, sent,
                            pump, done, ctx>>
TickExit == /\ keep = "wait" /\ ctx # "open" /\ keep' = "off"
            /\ UNCHANGED <<subscribed, live, buf, dropped, lastDropped, taken, last, sent,
                           pump, mu, done, ctx>>

StreamNext == \/ Flip \/ Ends \/ Take \/ Leave \/ Emit \/ EmitWrite \/ Closed \/ ClosedWritten
              \/ StreamReturn \/ Tick \/ TickLock \/ TickWrite \/ TickExit

(* Go runs every goroutine that can run, its mutex starves nobody, and its *)
(* select is random, so an ended context is taken in the end even while    *)
(* statuses and ticks keep coming.                                         *)
PumpStep == Take \/ Emit \/ EmitWrite \/ Closed \/ ClosedWritten
PumpLocks == Emit \/ Closed \/ StreamReturn
StreamFairness == /\ WF_stream(PumpStep) /\ SF_stream(PumpLocks) /\ SF_stream(Leave)
                  /\ WF_stream(TickWrite) /\ WF_stream(TickLock) /\ SF_stream(TickExit)

StreamSpec == StreamInit /\ [][StreamNext]_stream /\ StreamFairness

(* A keepalive is never written to a response the handler has given back:  *)
(* that flush panics outside echo's recover and aborts the process.        *)
KeepaliveFenced == keep = "write" => pump # "gone"

(* No status goes missing silently: the statuses the client did not get    *)
(* before the last one are all in the total of a lagged frame it got       *)
(* first, and once the channel is drained every drop has been announced.   *)
DropsTold == /\ last - sent <= lastDropped
             /\ (pump = "select" /\ buf = <<>>) => lastDropped = dropped

(* The stream neither crashes the process nor hides a dropped status.      *)
StreamSound == KeepaliveFenced /\ DropsTold

(* Once the client left or the engine ends, the handler returns and both   *)
(* goroutines stop.                                                        *)
StreamEnds == ctx # "open" ~> (pump = "gone" /\ keep = "off")
====
