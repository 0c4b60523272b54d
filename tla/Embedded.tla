---- MODULE Embedded ----
(***************************************************************************)
(* The server inside a host process (internal/embedded and the two mobile  *)
(* shims over it): a process-wide handle and a drain channel under one     *)
(* mutex, a Start that boots and waits for the listener, a graceful Stop   *)
(* that waits for the run to end and a StopNow that does not. The mobile   *)
(* build takes no instance lock, so these few lines are all that keeps two *)
(* engines off one data directory.                                         *)
(*                                                                         *)
(* A run is one call of server.RunWith, numbered in the order of their     *)
(* goroutines. It holds the data directory from the moment it boots until  *)
(* it has returned.                                                        *)
(***************************************************************************)
EXTENDS Naturals, FiniteSets

CONSTANTS Threads,   \* host threads that call into the library
          Overlap,   \* TRUE: Start and graceful Stop may run at the same time
          MaxRuns    \* bound on the runs of a behaviour

Runs == 1 .. MaxRuns
Codes == {"ok", "running", "badDir", "badOptions", "bootFailed", "indexRebuild"}

Places == {"idle", "drain", "boot", "cancel", "cancelNow", "wait"}

VARIABLES handle,    \* the run the handle names; 0 for nil
          stopping,  \* the run whose done channel stopping holds; 0 for nil
          watchers,  \* hard-stopped runs whose clearing goroutine still waits
          run,       \* what each run is doing
          bound,     \* runs whose Ready callback has delivered an address
          bad,       \* why a failed boot failed
          pc,        \* where each thread is
          mine,      \* the run a thread waits for or acts on; 0 for none
          answer     \* the code of each thread's last Start

vars == <<handle, stopping, watchers, run, bound, bad, pc, mine, answer>>

TypeOK == /\ handle \in 0 .. MaxRuns /\ stopping \in 0 .. MaxRuns
          /\ watchers \subseteq Runs /\ bound \subseteq Runs
          /\ run \in [Runs -> {"none", "booting", "serving", "draining", "done"}]
          /\ bad \in [Runs -> {"", "boot", "index"}]
          /\ pc \in [Threads -> Places]
          /\ mine \in [Threads -> 0 .. MaxRuns]
          /\ answer \in [Threads -> Codes \cup {""}]

Init == /\ handle = 0 /\ stopping = 0 /\ watchers = {} /\ bound = {}
        /\ run = [n \in Runs |-> "none"] /\ bad = [n \in Runs |-> ""]
        /\ pc = [t \in Threads |-> "idle"] /\ mine = [t \in Threads |-> 0]
        /\ answer = [t \in Threads |-> ""]

(* What the host owes the library when calls may not overlap: no Start and *)
(* no graceful Stop begins while another one runs. StopNow is exempt: the  *)
(* system's expiration handler calls it whenever it likes.                 *)
MayCall == Overlap \/ \A u \in Threads : pc[u] \in {"idle", "cancelNow"}

Goes(t, place, n) == /\ pc' = [pc EXCEPT ![t] = place]
                     /\ mine' = [mine EXCEPT ![t] = n]
Return(t, code) == Goes(t, "idle", 0) /\ answer' = [answer EXCEPT ![t] = code]

(* Mutant of StartCall: the drain channel is not looked at.                *)
StartCallHasty(t) ==
    /\ pc[t] = "idle" /\ MayCall
    /\ IF handle # 0
         THEN Return(t, "running")
         ELSE Goes(t, "drain", 0) /\ UNCHANGED answer
    /\ UNCHANGED <<handle, stopping, watchers, run, bound, bad>>

(* Start up to the unlock: refuse a second server, remember the teardown a *)
(* hard stop left behind.                                                  *)
StartCall(t) ==
    /\ pc[t] = "idle" /\ MayCall
    /\ IF handle # 0
         THEN Return(t, "running")
         ELSE Goes(t, "drain", stopping) /\ UNCHANGED answer
    /\ UNCHANGED <<handle, stopping, watchers, run, bound, bad>>

Drained(t) == mine[t] # 0 => run[mine[t]] = "done"

(* The options or the data directory are refused before anything boots.    *)
StartRefused(t) ==
    /\ pc[t] = "drain" /\ Drained(t)
    /\ \E code \in {"badDir", "badOptions"} : Return(t, code)
    /\ UNCHANGED <<handle, stopping, watchers, run, bound, bad>>

(* The run goroutine is spawned and Start blocks on it.                    *)
StartBoots(t) ==
    /\ pc[t] = "drain" /\ Drained(t)
    /\ \E n \in Runs :
         /\ run[n] = "none" /\ \A m \in 1 .. n - 1 : run[m] # "none"
         /\ run' = [run EXCEPT ![n] = "booting"]
         /\ Goes(t, "boot", n)
    /\ UNCHANGED <<handle, stopping, watchers, bound, bad, answer>>

(* The listener is bound: Ready delivers the address.                      *)
Bind(n) == /\ run[n] = "booting"
           /\ run' = [run EXCEPT ![n] = "serving"] /\ bound' = bound \cup {n}
           /\ UNCHANGED <<handle, stopping, watchers, bad, pc, mine, answer>>

(* The boot fails before the listener is bound; a refused search index     *)
(* that could not be rebuilt is told apart.                                *)
BootFails(n) == /\ run[n] = "booting"
                /\ run' = [run EXCEPT ![n] = "done"]
                /\ \E why \in {"boot", "index"} : bad' = [bad EXCEPT ![n] = why]
                /\ UNCHANGED <<handle, stopping, watchers, bound, pc, mine, answer>>

(* A serving run ends by itself: the serve loop fails, or the host asked   *)
(* for a shutdown over HTTP. Nobody clears the handle.                     *)
EndsItself(n) == /\ run[n] = "serving"
                 /\ run' = [run EXCEPT ![n] = "draining"]
                 /\ UNCHANGED <<handle, stopping, watchers, bound, bad, pc, mine, answer>>
Drain(n) == /\ run[n] = "draining"
            /\ run' = [run EXCEPT ![n] = "done"]
            /\ UNCHANGED <<handle, stopping, watchers, bound, bad, pc, mine, answer>>

(* Start's select. A run that bound and has already returned makes both    *)
(* channels ready, and Go picks either.                                    *)
StartReady(t) == /\ pc[t] = "boot" /\ mine[t] \in bound
                 /\ handle' = mine[t] /\ Return(t, "ok")
                 /\ UNCHANGED <<stopping, watchers, run, bound, bad>>
errCode(n) == IF bad[n] = "index" THEN "indexRebuild" ELSE "bootFailed"
StartFailed(t) == /\ pc[t] = "boot" /\ run[mine[t]] = "done"
                  /\ Return(t, errCode(mine[t]))
                  /\ UNCHANGED <<handle, stopping, watchers, run, bound, bad>>

(* Stop up to the unlock, when there is a server: the handle is cleared;   *)
(* only a hard stop records the teardown it leaves behind.                 *)
StopCall(t) ==
    /\ pc[t] = "idle" /\ MayCall /\ handle # 0
    /\ handle' = 0
    /\ Goes(t, "cancel", handle)
    /\ UNCHANGED <<stopping, watchers, run, bound, bad, answer>>
StopNowCall(t) ==
    /\ pc[t] = "idle" /\ handle # 0
    /\ handle' = 0 /\ stopping' = handle /\ watchers' = watchers \cup {handle}
    /\ Goes(t, "cancelNow", handle)
    /\ UNCHANGED <<run, bound, bad, answer>>

(* h.cancel() after the unlock; the graceful stop then waits.              *)
Cancel(t) ==
    /\ pc[t] \in {"cancel", "cancelNow"}
    /\ run' = IF run[mine[t]] = "serving" THEN [run EXCEPT ![mine[t]] = "draining"] ELSE run
    /\ IF pc[t] = "cancel" THEN Goes(t, "wait", mine[t]) ELSE Goes(t, "idle", 0)
    /\ UNCHANGED <<handle, stopping, watchers, bound, bad, answer>>
StopWaits(t) == /\ pc[t] = "wait" /\ run[mine[t]] = "done"
                /\ Goes(t, "idle", 0)
                /\ UNCHANGED <<handle, stopping, watchers, run, bound, bad, answer>>

(* Mutant of Cleared: whatever teardown is recorded is forgotten.          *)
ClearedAny(n) == /\ n \in watchers /\ run[n] = "done"
                 /\ watchers' = watchers \ {n}
                 /\ stopping' = 0
                 /\ UNCHANGED <<handle, run, bound, bad, pc, mine, answer>>

(* The goroutine a hard stop leaves behind: it clears its own record only. *)
Cleared(n) == /\ n \in watchers /\ run[n] = "done"
              /\ watchers' = watchers \ {n}
              /\ stopping' = IF stopping = n THEN 0 ELSE stopping
              /\ UNCHANGED <<handle, run, bound, bad, pc, mine, answer>>

RunStep(n) == Bind(n) \/ BootFails(n) \/ Drain(n)
ThreadStep(t) == \/ StartRefused(t) \/ StartBoots(t) \/ StartReady(t) \/ StartFailed(t)
                 \/ Cancel(t) \/ StopWaits(t)
Next == \/ \E t \in Threads : StartCall(t) \/ StopCall(t) \/ StopNowCall(t) \/ ThreadStep(t)
        \/ \E n \in Runs : RunStep(n) \/ EndsItself(n) \/ Cleared(n)

(* RunWith comes up or fails, and a cancelled one returns (Echo's graceful *)
(* shutdown is bounded); a host thread inside a call goes on.              *)
Fairness == /\ \A n \in Runs : WF_vars(RunStep(n)) /\ WF_vars(Cleared(n))
            /\ \A t \in Threads : WF_vars(ThreadStep(t))

OnDirectory == {"booting", "serving", "draining"}
Holding == {n \in Runs : run[n] \in OnDirectory}

(* One engine on the data directory at a time, however fast the host goes  *)
(* to the background and returns.                                          *)
OneEngine == Cardinality(Holding) <= 1

(* A server that serves can be stopped: the handle names it, or the call   *)
(* that will hand it over or stop it is still running.                     *)
Reachable == \A n \in Runs : run[n] = "serving" =>
                 handle = n \/ \E t \in Threads : mine[t] = n /\ pc[t] # "drain"

(* Background and foreground as often as the host likes, there is at most  *)
(* one engine on the directory, and none the host cannot stop.             *)
EmbeddedSafe == TypeOK /\ OneEngine /\ Reachable

(* Every call into the library returns: a Start never waits for ever on a  *)
(* teardown, nor a Stop on a run.                                          *)
CallsReturn == \A t \in Threads : pc[t] # "idle" ~> pc[t] = "idle"

(* The library and its runs by themselves.                                  *)
Spec == Init /\ [][Next]_vars
====
