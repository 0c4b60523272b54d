------------------------------- MODULE Engine -------------------------------
(***************************************************************************)
(* The engine lifecycle of the server: internal/server/engine.go, gate.go, *)
(* held.go, the guard of routes.go, the auth verbs of handlers_auth.go and *)
(* the shutdown tail of server.go.                                         *)
(*                                                                         *)
(* An engine is everything that exists while an account is booted.  POST   *)
(* /v1/auth boots one (or switches to one), DELETE /v1/auth and the        *)
(* process shutdown tear it down, all three under authMu.  Every other     *)
(* request runs inside a gate that a teardown closes and drains, bounded   *)
(* by a deadline: when a request outlives the deadline the engine is       *)
(* abandoned to a goroutine (the janitor here) that releases it once the   *)
(* request has left, and its account dir stays held until then.            *)
(*                                                                         *)
(* Engines are numbered in boot order and 0 is the nil pointer; the gate   *)
(* generation opened for engine e is numbered e as well.  An account and   *)
(* its dir are one value.  d.sdk, d.indexer, d.push, d.local, d.account    *)
(* and d.derived change together and are the variable fields; d.eng and    *)
(* d.shutdownCtx change together and are the variable eng.                 *)
(***************************************************************************)
EXTENDS Integers, FiniteSets, TLC

CONSTANTS Accounts,      \* account dirs
          Mispinned,     \* accounts whose dir is pinned to another network
          Requests,      \* goroutines serving gated requests and streams
          Controllers,   \* goroutines serving POST and DELETE /v1/auth
          Main,          \* the goroutine of server.RunWith
          HasOSLock,     \* FALSE: the mobile build, whose instance lock is a no-op
          MaxEngines,    \* bound: engines booted in one behaviour
          MaxWork,       \* bound: engine goroutines alive at once per engine
          None           \* "no goroutine", "no account"

ASSUME ConstantsAssumption ==
    /\ IsFiniteSet(Requests)
    /\ Mispinned \subseteq Accounts
    /\ HasOSLock \in BOOLEAN
    /\ MaxEngines \in Nat
    /\ MaxWork \in Nat \ {0}
    /\ Main \notin Controllers
    /\ None \notin Controllers \cup {Main} \cup Accounts

VARIABLES
    \* deps
    eng, fields, ready, cur, gateN, gateClosed, authMu,
    \* engines
    made, acct, sdk, cancelled, closeReason, wg, overdue, foreign, janitor,
    \* account dirs
    flock, heldDirs,
    \* lifecycle operations
    pc, kind, target, opEng, httpTimedOut,
    \* gated requests
    rpc, rgen, frame

depsVars == <<eng, fields, ready, cur, gateN, gateClosed>>
engineVars == <<made, acct, sdk, cancelled, closeReason, wg, overdue, foreign, janitor>>
dirVars == <<flock, heldDirs>>
opVars == <<authMu, pc, kind, target, opEng, httpTimedOut>>
reqVars == <<rpc, rgen, frame>>
vars == <<depsVars, engineVars, dirVars, opVars, reqVars>>

Engines == 1 .. MaxEngines
EngineOrNil == 0 .. MaxEngines
Procs == Controllers \cup {Main}

AuthKinds == {"boot", "switch", "deauth"}
Reasons == {"server_shutdown", "deauthorized"}
ReasonOf(k) == IF k \in AuthKinds THEN "deauthorized" ELSE "server_shutdown"

TeardownPCs == {"td_ready", "td_reason", "td_cancel", "td_close", "td_drain",
                "td_abandon", "td_join", "td_sdk", "td_unlock", "td_clear"}
BootPCs == {"bt_decide", "bt_lock", "bt_sdk", "bt_rest", "bf_join", "bf_sdk", "bf_unlock",
            "pub_fields", "pub_gate", "pub_ready"}
PCs == {"idle", "want", "serving", "http", "exited"} \cup TeardownPCs \cup BootPCs

TypeOK ==
    /\ eng \in EngineOrNil /\ fields \in EngineOrNil /\ cur \in EngineOrNil
    /\ ready \in BOOLEAN
    /\ gateN \in [EngineOrNil -> Nat] /\ gateClosed \in [EngineOrNil -> BOOLEAN]
    /\ made \in EngineOrNil
    /\ acct \in [Engines -> Accounts \cup {None}]
    /\ sdk \in [Engines -> {"absent", "open", "closed"}]
    /\ cancelled \in [Engines -> BOOLEAN]
    /\ closeReason \in [Engines -> Reasons]
    /\ wg \in [Engines -> 0 .. MaxWork]
    /\ overdue \in [Engines -> BOOLEAN] /\ foreign \in [Engines -> BOOLEAN]
    /\ janitor \in [Engines -> {"none", "drain", "join", "sdk", "unlock", "release", "done"}]
    /\ flock \in [Accounts -> EngineOrNil]
    /\ heldDirs \in [Accounts -> Nat]
    /\ authMu \in Procs \cup {None}
    /\ pc \in [Procs -> PCs]
    /\ kind \in [Procs -> AuthKinds \cup {"shutdown", "exit"}]
    /\ target \in [Procs -> Accounts \cup {None}]
    /\ opEng \in [Procs -> EngineOrNil]
    /\ httpTimedOut \in BOOLEAN
    /\ rpc \in [Requests -> {"idle", "sawReady", "in"}]
    /\ rgen \in [Requests -> EngineOrNil]
    /\ frame \in [Requests -> Reasons \cup {"none"}]

\* RunWith in managed mode, past net.Listen: no engine, the gate's zero value.
Init ==
    /\ eng = 0 /\ fields = 0 /\ cur = 0 /\ ready = FALSE
    /\ gateN = [g \in EngineOrNil |-> 0]
    /\ gateClosed = [g \in EngineOrNil |-> FALSE]
    /\ made = 0
    /\ acct = [e \in Engines |-> None]
    /\ sdk = [e \in Engines |-> "absent"]
    /\ cancelled = [e \in Engines |-> FALSE]
    /\ closeReason = [e \in Engines |-> "server_shutdown"]
    /\ wg = [e \in Engines |-> 0]
    /\ overdue = [e \in Engines |-> FALSE]
    /\ foreign = [e \in Engines |-> FALSE]
    /\ janitor = [e \in Engines |-> "none"]
    /\ flock = [a \in Accounts |-> 0]
    /\ heldDirs = [a \in Accounts |-> 0]
    /\ authMu = None
    /\ pc = [p \in Procs |-> IF p = Main THEN "serving" ELSE "idle"]
    /\ kind = [p \in Procs |-> IF p = Main THEN "shutdown" ELSE "deauth"]
    /\ target = [p \in Procs |-> None]
    /\ opEng = [p \in Procs |-> 0]
    /\ httpTimedOut = FALSE
    /\ rpc = [r \in Requests |-> "idle"]
    /\ rgen = [r \in Requests |-> 0]
    /\ frame = [r \in Requests |-> "none"]

-----------------------------------------------------------------------------
(* The gate and the requests inside it.                                    *)

\* Mutant of Drained: the drain does not wait for the holders.
DrainedAtClose(g) == gateClosed[g]

\* The channel a close returns is closed exactly when this holds.
Drained(g) == gateClosed[g] /\ gateN[g] = 0

\* The listener accepts requests until e.Shutdown.
Listening == kind[Main] = "shutdown" /\ pc[Main] # "http"

\* accountID: enterGate, read d.account, leave.
AccountID == IF ready /\ ~gateClosed[cur] /\ fields # 0 THEN acct[fields] ELSE None

\* enterGate, first half: the atomic load of ready.
ReadReady(r) ==
    /\ rpc[r] = "idle" /\ ready
    /\ Listening
    /\ rpc' = [rpc EXCEPT ![r] = "sawReady"]
    /\ frame' = [frame EXCEPT ![r] = "none"]
    /\ UNCHANGED <<depsVars, engineVars, dirVars, opVars, rgen>>

\* enterGate, second half: gate.enter, and the guard binding the request's
\* context to the engine's.
Enter(r) ==
    /\ rpc[r] = "sawReady" /\ ~gateClosed[cur]
    /\ gateN' = [gateN EXCEPT ![cur] = @ + 1]
    /\ rpc' = [rpc EXCEPT ![r] = "in"]
    /\ rgen' = [rgen EXCEPT ![r] = cur]
    /\ UNCHANGED <<eng, fields, ready, cur, gateClosed, engineVars, dirVars, opVars, frame>>

\* gate.enter returned nil: 401 auth.required.
EnterRefused(r) ==
    /\ rpc[r] = "sawReady" /\ gateClosed[cur]
    /\ rpc' = [rpc EXCEPT ![r] = "idle"]
    /\ UNCHANGED <<depsVars, engineVars, dirVars, opVars, rgen, frame>>

\* gate.leave: the admission is taken off the generation it was counted on.
GateLeave(r) ==
    /\ gateN' = [gateN EXCEPT ![rgen[r]] = @ - 1]
    /\ rpc' = [rpc EXCEPT ![r] = "idle"]
    /\ rgen' = [rgen EXCEPT ![r] = 0]

Leave(r) ==
    /\ rpc[r] = "in"
    /\ GateLeave(r)
    /\ UNCHANGED <<eng, fields, ready, cur, gateClosed, engineVars, dirVars, opVars, frame>>

\* A stream whose engine was cancelled writes its terminal frame and returns
\* (streamQuerySubscribeFinish): d.shutdownCtx and d.eng are read now.
StreamFinish(r) ==
    /\ rpc[r] = "in" /\ rgen[r] # 0 /\ cancelled[rgen[r]]
    /\ GateLeave(r)
    /\ frame' = [frame EXCEPT ![r] = IF eng # 0 /\ cancelled[eng] THEN closeReason[eng] ELSE "none"]
    /\ UNCHANGED <<eng, fields, ready, cur, gateClosed, engineVars, dirVars, opVars>>

\* spawnEngine from a handler (bundle loser retries): attaches to d.eng.
SpawnEngine(r) ==
    /\ rpc[r] = "in" /\ eng # 0 /\ wg[eng] < MaxWork
    /\ wg' = [wg EXCEPT ![eng] = @ + 1]
    /\ foreign' = [foreign EXCEPT ![eng] = @ \/ eng # rgen[r]]
    /\ UNCHANGED <<depsVars, made, acct, sdk, cancelled, closeReason, overdue, janitor,
                   dirVars, opVars, reqVars>>

\* An engine goroutine returns (wg.Done).
WorkDone(e) ==
    /\ wg[e] > 0
    /\ wg' = [wg EXCEPT ![e] = @ - 1]
    /\ UNCHANGED <<depsVars, made, acct, sdk, cancelled, closeReason, overdue, foreign, janitor,
                   dirVars, opVars, reqVars>>

-----------------------------------------------------------------------------
(* Lifecycle operations: the handlers of /v1/auth and the tail of RunWith. *)

\* POST /v1/auth up to authMu: the pre-check against accountID answers the
\* same account at once and refuses another one unless it is a managed
\* replace.
Authorize(p, a, replace) ==
    /\ pc[p] = "idle" /\ Listening
    /\ AccountID = None \/ (AccountID # a /\ replace)
    /\ pc' = [pc EXCEPT ![p] = "want"]
    /\ kind' = [kind EXCEPT ![p] = IF replace THEN "switch" ELSE "boot"]
    /\ target' = [target EXCEPT ![p] = a]
    /\ UNCHANGED <<depsVars, engineVars, dirVars, authMu, opEng, httpTimedOut, reqVars>>

\* DELETE /v1/auth.
Deauthorize(p) ==
    /\ pc[p] = "idle" /\ Listening
    /\ pc' = [pc EXCEPT ![p] = "want"]
    /\ kind' = [kind EXCEPT ![p] = "deauth"]
    /\ UNCHANGED <<depsVars, engineVars, dirVars, authMu, target, opEng, httpTimedOut, reqVars>>

\* POST /v1/shutdown, or the run context is cancelled: the explicit teardown.
Shutdown ==
    /\ pc[Main] = "serving"
    /\ pc' = [pc EXCEPT ![Main] = "want"]
    /\ UNCHANGED <<depsVars, engineVars, dirVars, authMu, kind, target, opEng, httpTimedOut, reqVars>>

\* Mutant of HttpShutdown: no deferred teardown.
HttpShutdownExits ==
    /\ pc[Main] = "http"
    /\ httpTimedOut' = ~(/\ \A c \in Controllers : pc[c] = "idle"
                         /\ \A r \in Requests : rpc[r] = "idle")
    /\ pc' = [pc EXCEPT ![Main] = "exited"]
    /\ kind' = [kind EXCEPT ![Main] = "exit"]
    /\ UNCHANGED <<depsVars, engineVars, dirVars, authMu, target, opEng, reqVars>>

\* e.Shutdown waits for every handler, bounded by the deadline; then the
\* deferred teardown runs.
HttpShutdown ==
    /\ pc[Main] = "http"
    /\ httpTimedOut' = ~(/\ \A c \in Controllers : pc[c] = "idle"
                         /\ \A r \in Requests : rpc[r] = "idle")
    /\ pc' = [pc EXCEPT ![Main] = "want"]
    /\ kind' = [kind EXCEPT ![Main] = "exit"]
    /\ UNCHANGED <<depsVars, engineVars, dirVars, authMu, target, opEng, reqVars>>

\* Where an operation continues once there is nothing (left) to tear down.
AfterTeardown(k) ==
    CASE k = "switch" -> "bt_decide"
      [] k = "shutdown" -> "http"
      [] k = "exit" -> "exited"
      [] OTHER -> "idle"

\* The operation moves on to s, dropping authMu when s is outside the lock.
Goto(p, s) ==
    /\ pc' = [pc EXCEPT ![p] = s]
    /\ authMu' = IF s \in {"idle", "http", "exited"} THEN None ELSE authMu
    /\ target' = IF s = "idle" THEN [target EXCEPT ![p] = None] ELSE target
    /\ UNCHANGED <<kind, httpTimedOut>>

\* authMu.Lock and the first decision under it.  A switch to a dir pinned to
\* another network is refused while the running engine is still up.
LockAuth(p) ==
    /\ pc[p] = "want" /\ authMu = None
    /\ LET replaces == eng # 0 /\ acct[eng] # target[p]
           next == CASE kind[p] = "boot" -> "bt_decide"
                     [] kind[p] = "switch" /\ ~replaces -> "bt_decide"
                     [] kind[p] = "switch" /\ replaces /\ target[p] \in Mispinned -> "idle"
                     [] kind[p] \notin {"boot", "switch"} /\ eng = 0 -> AfterTeardown(kind[p])
                     [] OTHER -> "td_ready"
       IN  /\ pc' = [pc EXCEPT ![p] = next]
           /\ authMu' = IF next \in {"idle", "http", "exited"} THEN None ELSE p
           /\ opEng' = [opEng EXCEPT ![p] = IF next = "td_ready" THEN eng ELSE 0]
           /\ target' = IF next = "idle" THEN [target EXCEPT ![p] = None] ELSE target
    /\ UNCHANGED <<depsVars, engineVars, dirVars, kind, httpTimedOut, reqVars>>

\* Mutant of CloseJoin: cancel without the join.
CancelOnly(e) ==
    /\ cancelled' = [cancelled EXCEPT ![e] = TRUE]
    /\ UNCHANGED <<made, acct, sdk, closeReason, wg, overdue, foreign>>

\* closeResources(e) in three steps, for each of its three callers: cancel and
\* join the goroutines with a deadline, close the SDK (the indexer and the
\* push service before it), release the instance lock.
CloseJoin(e) ==
    /\ cancelled' = [cancelled EXCEPT ![e] = TRUE]
    /\ overdue' = [overdue EXCEPT ![e] = @ \/ wg[e] > 0]
    /\ UNCHANGED <<made, acct, sdk, closeReason, wg, foreign>>

CloseSDK(e) ==
    /\ sdk' = [sdk EXCEPT ![e] = IF @ = "open" THEN "closed" ELSE @]
    /\ UNCHANGED <<made, acct, cancelled, closeReason, wg, overdue, foreign>>

\* Releasing a nil Lock is a no-op.
LockRelease(e) ==
    flock' = IF HasOSLock THEN [flock EXCEPT ![acct[e]] = 0] ELSE flock

-----------------------------------------------------------------------------
(* teardownEngineLocked *)

TdReady(p) ==
    /\ pc[p] = "td_ready"
    /\ ready' = FALSE
    /\ Goto(p, "td_reason")
    /\ UNCHANGED <<eng, fields, cur, gateN, gateClosed, engineVars, dirVars, opEng, reqVars>>

\* Mutant of TdReason: the reason keeps its boot-time default.
TdReasonDefault(p) ==
    /\ pc[p] = "td_reason"
    /\ Goto(p, "td_cancel")
    /\ UNCHANGED <<depsVars, engineVars, dirVars, opEng, reqVars>>

TdReason(p) ==
    /\ pc[p] = "td_reason"
    /\ closeReason' = [closeReason EXCEPT ![opEng[p]] = ReasonOf(kind[p])]
    /\ Goto(p, "td_cancel")
    /\ UNCHANGED <<depsVars, made, acct, sdk, cancelled, wg, overdue, foreign, janitor,
                   dirVars, opEng, reqVars>>

TdCancel(p) ==
    /\ pc[p] = "td_cancel"
    /\ cancelled' = [cancelled EXCEPT ![opEng[p]] = TRUE]
    /\ Goto(p, "td_close")
    /\ UNCHANGED <<depsVars, made, acct, sdk, closeReason, wg, overdue, foreign, janitor,
                   dirVars, opEng, reqVars>>

TdClose(p) ==
    /\ pc[p] = "td_close"
    /\ gateClosed' = [gateClosed EXCEPT ![cur] = TRUE]
    /\ Goto(p, "td_drain")
    /\ UNCHANGED <<eng, fields, ready, cur, gateN, engineVars, dirVars, opEng, reqVars>>

TdDrained(p) ==
    /\ pc[p] = "td_drain" /\ Drained(cur)
    /\ Goto(p, "td_join")
    /\ UNCHANGED <<depsVars, engineVars, dirVars, opEng, reqVars>>

\* Mutant of TdTimeout: the resources are closed at the deadline.
TdTimeoutCloses(p) ==
    /\ pc[p] = "td_drain"
    /\ Goto(p, "td_join")
    /\ UNCHANGED <<depsVars, engineVars, dirVars, opEng, reqVars>>

\* Mutant of TdTimeout: the drain has no deadline.
TdNoDeadline(p) == FALSE /\ UNCHANGED vars

\* gracefulShutdownDeadline passed first.
TdTimeout(p) ==
    /\ pc[p] = "td_drain"
    /\ Goto(p, "td_abandon")
    /\ UNCHANGED <<depsVars, engineVars, dirVars, opEng, reqVars>>

TdJoin(p) ==
    /\ pc[p] = "td_join"
    /\ CloseJoin(opEng[p])
    /\ Goto(p, "td_sdk")
    /\ UNCHANGED <<depsVars, janitor, dirVars, opEng, reqVars>>

TdSDK(p) ==
    /\ pc[p] = "td_sdk"
    /\ CloseSDK(opEng[p])
    /\ Goto(p, "td_unlock")
    /\ UNCHANGED <<depsVars, janitor, dirVars, opEng, reqVars>>

TdUnlock(p) ==
    /\ pc[p] = "td_unlock"
    /\ LockRelease(opEng[p])
    /\ Goto(p, "td_clear")
    /\ UNCHANGED <<depsVars, engineVars, heldDirs, opEng, reqVars>>

TdClear(p) ==
    /\ pc[p] = "td_clear"
    /\ fields' = 0 /\ eng' = 0
    /\ Goto(p, AfterTeardown(kind[p]))
    /\ opEng' = [opEng EXCEPT ![p] = 0]
    /\ UNCHANGED <<ready, cur, gateN, gateClosed, engineVars, dirVars, reqVars>>

\* Mutant of TdAbandon: the dir is not held.
TdAbandonUnheld(p) ==
    /\ pc[p] = "td_abandon"
    /\ janitor' = [janitor EXCEPT ![opEng[p]] = "drain"]
    /\ eng' = 0
    /\ Goto(p, AfterTeardown(kind[p]))
    /\ opEng' = [opEng EXCEPT ![p] = 0]
    /\ UNCHANGED <<fields, ready, cur, gateN, gateClosed, made, acct, sdk, cancelled, closeReason,
                   wg, overdue, foreign, dirVars, reqVars>>

\* The straggler's branch: the fields stay, the dir is held, and a goroutine
\* waits for the drain to finish the teardown.
TdAbandon(p) ==
    /\ pc[p] = "td_abandon"
    /\ heldDirs' = [heldDirs EXCEPT ![acct[opEng[p]]] = @ + 1]
    /\ janitor' = [janitor EXCEPT ![opEng[p]] = "drain"]
    /\ eng' = 0
    /\ Goto(p, AfterTeardown(kind[p]))
    /\ opEng' = [opEng EXCEPT ![p] = 0]
    /\ UNCHANGED <<fields, ready, cur, gateN, gateClosed, made, acct, sdk, cancelled, closeReason,
                   wg, overdue, foreign, flock, reqVars>>

JanitorGo(e, from, to) == janitor[e] = from /\ janitor' = [janitor EXCEPT ![e] = to]

JanitorDrained(e) ==
    /\ JanitorGo(e, "drain", "join") /\ Drained(e)
    /\ UNCHANGED <<depsVars, made, acct, sdk, cancelled, closeReason, wg, overdue, foreign,
                   dirVars, opVars, reqVars>>

JanitorJoin(e) ==
    /\ JanitorGo(e, "join", "sdk") /\ CloseJoin(e)
    /\ UNCHANGED <<depsVars, dirVars, opVars, reqVars>>

JanitorSDK(e) ==
    /\ JanitorGo(e, "sdk", "unlock") /\ CloseSDK(e)
    /\ UNCHANGED <<depsVars, dirVars, opVars, reqVars>>

JanitorUnlock(e) ==
    /\ JanitorGo(e, "unlock", "release") /\ LockRelease(e)
    /\ UNCHANGED <<depsVars, made, acct, sdk, cancelled, closeReason, wg, overdue, foreign,
                   heldDirs, opVars, reqVars>>

\* Mutant of JanitorRelease: the dir stays held.
JanitorForgets(e) ==
    /\ JanitorGo(e, "release", "done")
    /\ UNCHANGED <<depsVars, made, acct, sdk, cancelled, closeReason, wg, overdue, foreign,
                   dirVars, opVars, reqVars>>

\* releaseDir
JanitorRelease(e) ==
    /\ JanitorGo(e, "release", "done")
    /\ heldDirs' = [heldDirs EXCEPT ![acct[e]] = @ - 1]
    /\ UNCHANGED <<depsVars, made, acct, sdk, cancelled, closeReason, wg, overdue, foreign,
                   flock, opVars, reqVars>>

-----------------------------------------------------------------------------
(* bootAccountLocked, bootEngine, publishEngine *)

\* With an engine live the answer is alreadyAuthorized or account_mismatch;
\* a held dir is account_in_use.
BtDecide(p) ==
    /\ pc[p] = "bt_decide"
    /\ Goto(p, IF eng # 0 \/ heldDirs[target[p]] > 0 THEN "idle" ELSE "bt_lock")
    /\ UNCHANGED <<depsVars, engineVars, dirVars, opEng, reqVars>>

\* A refusal before an engine exists: the pin, the dir, the lock held by
\* another process, the credential.
BtRefused(p) ==
    /\ pc[p] = "bt_lock"
    /\ Goto(p, "idle")
    /\ UNCHANGED <<depsVars, engineVars, dirVars, opEng, reqVars>>

\* checkNetworkPin, acquirePIDLock and the credential succeeded: newEngine.
BtLock(p) ==
    /\ pc[p] = "bt_lock"
    /\ target[p] \notin Mispinned
    /\ HasOSLock => flock[target[p]] = 0
    /\ made < MaxEngines
    /\ made' = made + 1
    /\ acct' = [acct EXCEPT ![made + 1] = target[p]]
    /\ flock' = IF HasOSLock THEN [flock EXCEPT ![target[p]] = made + 1] ELSE flock
    /\ opEng' = [opEng EXCEPT ![p] = made + 1]
    /\ Goto(p, "bt_sdk")
    /\ UNCHANGED <<depsVars, sdk, cancelled, closeReason, wg, overdue, foreign, janitor,
                   heldDirs, reqVars>>

\* OpenSDK, and the engine's own goroutines (one stands for registerDevice,
\* the push kick, the process interest and the derived setups).
BtSDK(p) ==
    /\ pc[p] = "bt_sdk"
    /\ sdk' = [sdk EXCEPT ![opEng[p]] = "open"]
    /\ wg' = [wg EXCEPT ![opEng[p]] = 1]
    /\ Goto(p, "bt_rest")
    /\ UNCHANGED <<depsVars, made, acct, cancelled, closeReason, overdue, foreign, janitor,
                   dirVars, opEng, reqVars>>

\* The indexer, push, the local store and the derived spaces came up.
BtRest(p) ==
    /\ pc[p] = "bt_rest"
    /\ Goto(p, "pub_fields")
    /\ UNCHANGED <<depsVars, engineVars, dirVars, opEng, reqVars>>

\* Any step past newEngine may fail; the deferred closeResources follows.
BtFail(p) ==
    /\ pc[p] \in {"bt_sdk", "bt_rest"}
    /\ Goto(p, "bf_join")
    /\ UNCHANGED <<depsVars, engineVars, dirVars, opEng, reqVars>>

BfJoin(p) ==
    /\ pc[p] = "bf_join"
    /\ CloseJoin(opEng[p])
    /\ Goto(p, "bf_sdk")
    /\ UNCHANGED <<depsVars, janitor, dirVars, opEng, reqVars>>

BfSDK(p) ==
    /\ pc[p] = "bf_sdk"
    /\ CloseSDK(opEng[p])
    /\ Goto(p, "bf_unlock")
    /\ UNCHANGED <<depsVars, janitor, dirVars, opEng, reqVars>>

BfUnlock(p) ==
    /\ pc[p] = "bf_unlock"
    /\ LockRelease(opEng[p])
    /\ Goto(p, "idle")
    /\ opEng' = [opEng EXCEPT ![p] = 0]
    /\ UNCHANGED <<depsVars, engineVars, heldDirs, reqVars>>

PubFields(p) ==
    /\ pc[p] = "pub_fields"
    /\ eng' = opEng[p] /\ fields' = opEng[p]
    /\ Goto(p, "pub_gate")
    /\ UNCHANGED <<ready, cur, gateN, gateClosed, engineVars, dirVars, opEng, reqVars>>

\* gate.reset: a fresh generation.
PubGate(p) ==
    /\ pc[p] = "pub_gate"
    /\ cur' = opEng[p]
    /\ Goto(p, "pub_ready")
    /\ UNCHANGED <<eng, fields, ready, gateN, gateClosed, engineVars, dirVars, opEng, reqVars>>

PubReady(p) ==
    /\ pc[p] = "pub_ready"
    /\ ready' = TRUE
    /\ Goto(p, "idle")
    /\ opEng' = [opEng EXCEPT ![p] = 0]
    /\ UNCHANGED <<eng, fields, cur, gateN, gateClosed, engineVars, dirVars, reqVars>>

-----------------------------------------------------------------------------
RequestStep(r) ==
    ReadReady(r) \/ Enter(r) \/ EnterRefused(r) \/ Leave(r) \/ StreamFinish(r) \/ SpawnEngine(r)

JanitorStep(e) ==
    \/ JanitorDrained(e) \/ JanitorJoin(e) \/ JanitorSDK(e) \/ JanitorUnlock(e) \/ JanitorRelease(e)

TeardownStep(p) ==
    \/ TdReady(p) \/ TdReason(p) \/ TdCancel(p) \/ TdClose(p) \/ TdDrained(p) \/ TdTimeout(p)
    \/ TdJoin(p) \/ TdSDK(p) \/ TdUnlock(p) \/ TdClear(p) \/ TdAbandon(p)

BootStep(p) ==
    \/ BtDecide(p) \/ BtRefused(p) \/ BtLock(p) \/ BtSDK(p) \/ BtRest(p) \/ BtFail(p)
    \/ BfJoin(p) \/ BfSDK(p) \/ BfUnlock(p) \/ PubFields(p) \/ PubGate(p) \/ PubReady(p)

OpStep(p) == LockAuth(p) \/ TeardownStep(p) \/ BootStep(p)

StartOp(c) == Deauthorize(c) \/ \E a \in Accounts, replace \in BOOLEAN : Authorize(c, a, replace)

Next ==
    \/ \E r \in Requests : RequestStep(r)
    \/ \E e \in Engines : JanitorStep(e) \/ WorkDone(e)
    \/ \E p \in Procs : OpStep(p)
    \/ \E c \in Controllers : StartOp(c)
    \/ Shutdown \/ HttpShutdown

Spec == Init /\ [][Next]_vars

-----------------------------------------------------------------------------
(* Fairness.  A goroutine that can run does: every wait inside an operation  *)
(* is bounded by a deadline, and Go's mutex hands authMu to its oldest       *)
(* waiter once that waited 1ms, so a waiting operation is not passed over    *)
(* for ever.  Nothing is assumed of a handler inside the gate: that handlers *)
(* return, as they do once their context is cancelled, is HandlersReturn,    *)
(* the assumption of the one property about an abandoned engine's janitor.   *)

FairSpec ==
    /\ Spec
    /\ \A p \in Procs : SF_vars(LockAuth(p)) /\ WF_vars(TeardownStep(p)) /\ WF_vars(BootStep(p))
    /\ WF_vars(HttpShutdown)
    /\ \A e \in Engines : WF_vars(JanitorStep(e))

HandlersReturn == \A r \in Requests : WF_vars(Leave(r) \/ StreamFinish(r))

-----------------------------------------------------------------------------
(* Properties *)

InGate(r) == rpc[r] = "in"
Abandoned(e) == janitor[e] # "none"

\* "The resources are released only once it leaves, never closed underneath
\* it": the SDK of the engine a request was admitted to is open for as long as
\* the request is inside the gate, stragglers of a timed-out drain included.
NeverClosedUnderneath == \A r \in Requests : InGate(r) => rgen[r] # 0 /\ sdk[rgen[r]] = "open"

\* A request inside the gate reads the fields of the engine it was admitted to
\* for its whole lifetime, unless the drain of that engine timed out.
SeesOneEngine ==
    \A r \in Requests : InGate(r) /\ ~Abandoned(rgen[r]) => fields = rgen[r] /\ eng = rgen[r]

\* What the guard promises an SDK-backed handler: its engine for as long as it
\* runs, and the resources of that engine.
RequestsKeepEngine == NeverClosedUnderneath /\ SeesOneEngine

\* No two engines have the SDK of one account dir open, with or without the
\* OS lock: a dir a straggler still holds is refused until closeResources ran.
OneEnginePerDir ==
    \A e, f \in Engines : sdk[e] = "open" /\ sdk[f] = "open" /\ acct[e] = acct[f] => e = f

\* While an SDK is open, its engine holds the instance lock of the dir, so no
\* other process can open it: the lock goes last in every closing path.
LockCoversSDK ==
    HasOSLock => \A e \in Engines : sdk[e] = "open" => flock[acct[e]] = e

\* The goroutines of an engine are joined before its SDK closes, unless the
\* join timed out or a straggler of an earlier engine attached work to it.
WorkJoined ==
    \A e \in Engines : sdk[e] = "closed" /\ wg[e] > 0 => overdue[e] \/ foreign[e]

\* closeResources and the teardown release in order: goroutines, SDK, lock.
TeardownOrdered == LockCoversSDK /\ WorkJoined

\* RunWith leaves no engine behind, an account booted while the first teardown
\* ran included: if every handler returned within e.Shutdown, the server exits
\* with every engine closed or waiting for its straggler.
NothingLeftAtExit ==
    pc[Main] = "exited" /\ ~httpTimedOut =>
        \A e \in Engines : sdk[e] = "open" => Abandoned(e)

\* A stream ended by a teardown reports why: deauthorized for a logout or a
\* switch, server_shutdown for the process, and never the reason of a teardown
\* of another engine.
HonestCloseReason ==
    [][\A r \in Requests :
          InGate(r) /\ frame'[r] # "none" /\ ~Abandoned(rgen[r]) =>
              \E p \in Procs : authMu = p /\ opEng[p] = rgen[r] /\ frame'[r] = ReasonOf(kind[p])]_vars

\* A wedged handler never blocks the lifecycle: every login, logout and switch
\* is answered, and a shutdown reaches the end of RunWith.
OperationsFinish ==
    /\ \A c \in Controllers : pc[c] = "want" ~> pc[c] = "idle"
    /\ pc[Main] = "want" ~> pc[Main] = "exited"

\* An abandoned engine is released, and its dir free again, provided handlers
\* return (releaseWhenDrained).
HeldDirsReleased ==
    HandlersReturn => \A a \in Accounts : heldDirs[a] > 0 ~> heldDirs[a] = 0

\* What is begun ends: a boot or teardown comes to rest, and an abandoned
\* directory is given back.
EngineSettles == OperationsFinish /\ HeldDirsReleased

\* The symmetry TLC may use where it checks safety only.
Symm == Permutations(Requests) \cup Permutations(Controllers) \cup Permutations(Accounts \ Mispinned)

-----------------------------------------------------------------------------
(* The inductive invariant behind the safety properties: where authMu is,    *)
(* what the counters count, and what each point of an operation knows about  *)
(* the engine it is working on.                                              *)

InUse(g) == {r \in Requests : rpc[r] = "in" /\ rgen[r] = g}

\* Exactly the operations between Lock and Unlock hold authMu, and only they
\* have an engine in hand.
MuInv ==
    \A p \in Procs :
        /\ pc[p] \in TeardownPCs \cup BootPCs <=> authMu = p
        /\ opEng[p] # 0 => authMu = p

\* The gate counts the requests inside it, per generation.
CountInv == \A g \in EngineOrNil : gateN[g] = Cardinality(InUse(g))

\* Engines not booted yet.
FreshInv ==
    \A e \in Engines : e > made =>
        /\ sdk[e] = "absent" /\ janitor[e] = "none" /\ ~gateClosed[e] /\ wg[e] = 0
        /\ InUse(e) = {} /\ e # cur /\ e # eng /\ \A p \in Procs : opEng[p] # e

Serving(e) ==
    /\ e # 0 /\ eng = e /\ fields = e /\ cur = e
    /\ sdk[e] = "open" /\ janitor[e] = "none"
Down == eng = 0 /\ (cur = 0 \/ gateClosed[cur])
Stable == Down \/ (Serving(eng) /\ ~gateClosed[cur])

\* An engine between newEngine and publishEngine.
Young(e) ==
    /\ e # 0 /\ e # cur /\ ~gateClosed[e] /\ InUse(e) = {} /\ janitor[e] = "none"
    /\ acct[e] \in Accounts

OpInv(p) ==
    LET e == opEng[p] IN
    /\ pc[p] \in {"td_ready", "td_reason", "td_cancel", "td_close", "pub_ready"} =>
           Serving(e) /\ ~gateClosed[e]
    /\ pc[p] \in {"td_drain", "td_abandon"} => Serving(e) /\ gateClosed[e]
    /\ pc[p] \in {"td_join", "td_sdk"} => Serving(e) /\ gateClosed[e] /\ InUse(e) = {}
    /\ pc[p] \in {"td_unlock", "td_clear"} =>
           /\ e # 0 /\ eng = e /\ fields = e /\ cur = e /\ janitor[e] = "none"
           /\ sdk[e] = "closed" /\ gateClosed[e] /\ InUse(e) = {}
    /\ pc[p] = "bt_decide" => Stable /\ e = 0
    /\ pc[p] \in BootPCs \ {"bf_join", "bf_sdk", "bf_unlock"} => target[p] \in Accounts
    /\ pc[p] = "bt_lock" => Down /\ e = 0 /\ heldDirs[target[p]] = 0
    /\ pc[p] = "bt_sdk" => Down /\ Young(e) /\ sdk[e] = "absent" /\ wg[e] = 0
    /\ pc[p] \in {"bt_rest", "pub_fields"} => Down /\ Young(e) /\ sdk[e] = "open"
    /\ pc[p] \in {"bf_join", "bf_sdk"} => Down /\ Young(e) /\ sdk[e] \in {"absent", "open"}
    /\ pc[p] = "bf_unlock" => Down /\ Young(e) /\ sdk[e] \in {"absent", "closed"}
    /\ pc[p] = "pub_gate" =>
           /\ Young(e) /\ eng = e /\ fields = e /\ sdk[e] = "open"
           /\ cur = 0 \/ gateClosed[cur]
    /\ pc[p] = "want" /\ kind[p] \in {"boot", "switch"} => target[p] \in Accounts
    /\ pc[p] \in TeardownPCs /\ kind[p] = "switch" => target[p] \in Accounts
    /\ pc[p] \in TeardownPCs => kind[p] # "boot"

OpsInv ==
    /\ authMu = None => Stable
    /\ kind[Main] \notin AuthKinds
    /\ \A p \in Procs : OpInv(p)

\* The gate is open only for the serving engine, and nobody passes the ready
\* check before the first one.
GateInv ==
    /\ cur # 0 /\ ~gateClosed[cur] => Serving(cur)
    /\ ready => cur # 0
    /\ \A r \in Requests : rpc[r] = "sawReady" => cur # 0

JanitorActive(e) == janitor[e] \notin {"none", "done"}
JanitorInv ==
    \A e \in Engines :
        /\ janitor[e] # "none" => gateClosed[e] /\ e # eng /\ \A p \in Procs : opEng[p] # e
        /\ janitor[e] \in {"join", "sdk", "unlock", "release", "done"} => InUse(e) = {}
        /\ janitor[e] \in {"drain", "join", "sdk"} => sdk[e] = "open"
        /\ janitor[e] \in {"unlock", "release", "done"} => sdk[e] = "closed"

\* Engines something is still going to close.
Alive(e) == e = eng \/ JanitorActive(e) \/ \E p \in Procs : opEng[p] = e

DirInv ==
    /\ \A e \in Engines : Alive(e) => acct[e] \in Accounts
    /\ \A e \in Engines : sdk[e] = "open" => Alive(e)
    /\ \A e, f \in Engines : Alive(e) /\ Alive(f) /\ acct[e] = acct[f] => e = f
    /\ \A a \in Accounts :
           heldDirs[a] = IF \E e \in Engines : JanitorActive(e) /\ acct[e] = a THEN 1 ELSE 0

LockInv ==
    HasOSLock =>
        \A e \in Engines :
            \/ sdk[e] = "open"
            \/ \E p \in Procs : opEng[p] = e /\ pc[p] \in {"bt_sdk", "bf_join", "bf_sdk"}
            => flock[acct[e]] = e

\* Past its join, an engine runs only overdue or foreign goroutines.
WorkInv ==
    \A e \in Engines :
        \/ sdk[e] = "closed"
        \/ janitor[e] = "sdk"
        \/ \E p \in Procs : opEng[p] = e /\ pc[p] \in {"td_sdk", "bf_sdk"}
        => wg[e] = 0 \/ overdue[e] \/ foreign[e]

\* The strengthening that makes the safety properties inductive: what an
\* operation may assume of its engine at each point between Lock and Unlock.
IInv ==
    /\ TypeOK /\ MuInv /\ CountInv /\ FreshInv /\ OpsInv /\ GateInv /\ JanitorInv
    /\ NeverClosedUnderneath /\ SeesOneEngine /\ DirInv /\ LockInv /\ WorkInv

\* Once every handler returned within e.Shutdown, nobody starts an operation
\* again, and the deferred teardown leaves no engine to serve.
ExitInv ==
    /\ kind[Main] = "exit" /\ ~httpTimedOut => \A c \in Controllers : pc[c] = "idle"
    /\ pc[Main] = "exited" => kind[Main] = "exit"
    /\ pc[Main] = "exited" /\ ~httpTimedOut => eng = 0

\* A cancelled engine that is still the current one is in the hands of the
\* teardown that cancelled it, which stored its reason first; a request in
\* flight has not been sent a terminal frame yet.
ReasonStored(p) == pc[p] \in TeardownPCs \ {"td_ready", "td_reason"}
ReasonInv ==
    /\ \A r \in Requests : rpc[r] # "idle" => frame[r] = "none"
    /\ \A e \in Engines : e > made => ~cancelled[e]
    /\ \A p \in Procs :
           /\ pc[p] \in {"bt_sdk", "bt_rest", "pub_fields"} => ~cancelled[opEng[p]]
           /\ ReasonStored(p) => closeReason[opEng[p]] = ReasonOf(kind[p])
    /\ eng # 0 /\ cancelled[eng] =>
           \E p \in Procs : opEng[p] = eng /\ ReasonStored(p) /\ pc[p] # "td_cancel"

-----------------------------------------------------------------------------
\* The lifecycle implements Sessions: an engine is a session from OpenSDK to
\* sdk.Close, and its users are the requests counted on its generation.
Abstract == INSTANCE Sessions WITH
    Sess <- Engines, Dirs <- Accounts, Users <- Requests, NoDir <- None,
    state <- sdk,
    dirOf <- [e \in Engines |-> IF sdk[e] = "absent" THEN None ELSE acct[e]],
    users <- [e \in Engines |-> {r \in Requests : rpc[r] = "in" /\ rgen[r] = e}]

\* Every step of the lifecycle is a step of Sessions or leaves it unchanged: an
\* SDK is opened on a dir no other open SDK uses, and closed with no request
\* inside.
ImplementsSessions == Abstract!SSpec

=============================================================================
