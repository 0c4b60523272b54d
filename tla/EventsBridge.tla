---------------------------- MODULE EventsBridge ----------------------------
(***************************************************************************)
(* The events bridge (events_bridge.go): local interest in topic patterns, *)
(* refcounted per scope into subscriptions on the SDK's pub/sub.           *)
(*                                                                         *)
(* Actors are the SSE requests of eventsSubscribe and, one per engine, the *)
(* goroutine of holdProcessInterest; an engine is named by its number and  *)
(* so is its goroutine.  An acquisition reads the bridge's generation      *)
(* under the lock, resolves the scope's handle outside it and registers    *)
(* under it again; a teardown (engine.go) cancels the engine, waits for    *)
(* its requests with a deadline, detaches the bridge and joins the         *)
(* goroutine, also with a deadline.  Subscribing may fail; releases then   *)
(* retry from a timer.  Everything under b.mu is one step.                 *)
(*                                                                         *)
(* A pattern is the set of topics it accepts.  EventTopics shows that the  *)
(* patterns the code generates nest or are disjoint.                       *)
(***************************************************************************)
EXTENDS Naturals, FiniteSets

CONSTANTS
    Subscribers,   \* the GET /v1/events/subscribe requests
    Keys,          \* the scope keys: Account and space ids
    Account,       \* the key "" of the account scope
    Patterns,      \* topic patterns, each the set of the topics it accepts
    Standing,      \* the pattern of the process interest
    MaxPublished,  \* bound: engines ever published
    MaxFailures,   \* bound: pub/sub subscriptions that fail
    Timely         \* drains and joins finish before their deadline

Engines == 1..MaxPublished
Actors == Subscribers \cup Engines
NoKey == "none"

(* Requests are no engines, and the scope keys and requests are finitely    *)
(* many.                                                                    *)
ASSUME BridgeAssumption ==
    /\ MaxPublished \in Nat /\ MaxFailures \in Nat /\ Timely \in BOOLEAN
    /\ IsFiniteSet(Subscribers) /\ Subscribers \cap Engines = {}
    /\ IsFiniteSet(Keys) /\ Account \in Keys /\ NoKey \notin Keys
    /\ Standing \in Patterns

VARIABLES
    published,  \* the published engine, 0 when there is none
    made,       \* engines published so far
    down,       \* where a teardown is
    cancelled,  \* cancelled[e]: e's ctx is done
    gen,        \* the bridge's generation: detaches so far
    scope,      \* scope[k]: NoScope or a bridgeScope
    timers,     \* pending resync retries: <<key, engine whose ctx bounds it>>
    failures,   \* subscriptions that have failed
    apc,        \* where each actor is in acquire
    sdk,        \* the engine whose SDK the actor works against
    want,       \* the patterns it asked for
    todo,       \* the keys it has still to acquire
    key,        \* the key it is acquiring
    sawGen,     \* the generation it read for that key
    held        \* the <<key, generation>> it has acquired

bridge == <<gen, scope, timers, failures>>
actor == <<apc, sdk, want, todo, key, sawGen, held>>
life == <<published, made, down, cancelled>>
bridgeVars == <<life, bridge, actor>>

NoScope == [ps |-> 0]
Scopes == [ps : Engines, desired : [Patterns -> 0..Cardinality(Actors)],
           active : SUBSET Patterns, retry : BOOLEAN]

(* maximalPatterns: those no other member subsumes.                         *)
MaximalPatterns(set) == {p \in set : ~ \E q \in set : q # p /\ p \subseteq q}

Desired(sc) == {p \in Patterns : sc.desired[p] > 0}

(* The scope's subscriptions cover exactly what is desired.                 *)
InSync(sc) == sc.active = MaximalPatterns(Desired(sc))

BridgeTypeOK ==
    /\ published \in 0..MaxPublished /\ made \in 0..MaxPublished
    /\ down \in {"up", "cancelled", "detached"}
    /\ cancelled \in [Engines -> BOOLEAN]
    /\ gen \in 0..MaxPublished /\ failures \in 0..MaxFailures
    /\ scope \in [Keys -> {NoScope} \cup Scopes]
    /\ timers \subseteq Keys \X (0..MaxPublished)
    /\ apc \in [Actors -> {"idle", "ctx", "next", "resolve", "register",
                         "rollback", "held", "stored", "over"}]
    /\ sdk \in [Actors -> 0..MaxPublished] /\ want \in [Actors -> SUBSET Patterns]
    /\ todo \in [Actors -> SUBSET Keys] /\ key \in [Actors -> Keys \cup {NoKey}]
    /\ sawGen \in [Actors -> 0..MaxPublished]
    /\ held \in [Actors -> SUBSET (Keys \X (0..MaxPublished))]

BridgeInit ==
    /\ published = 0 /\ made = 0 /\ down = "up"
    /\ cancelled = [e \in Engines |-> FALSE]
    /\ gen = 0 /\ scope = [k \in Keys |-> NoScope] /\ timers = {} /\ failures = 0
    /\ apc = [a \in Actors |-> "idle"] /\ sdk = [a \in Actors |-> 0]
    /\ want = [a \in Actors |-> {}] /\ todo = [a \in Actors |-> {}]
    /\ key = [a \in Actors |-> NoKey] /\ sawGen = [a \in Actors |-> 0]
    /\ held = [a \in Actors |-> {}]

-----------------------------------------------------------------------------
(* Steps under b.mu.                                                        *)

(* resyncLocked: cancel what is no longer maximal, then subscribe what      *)
(* became so, one by one; an error leaves the ones before it.               *)
Resynced(sc) == [sc EXCEPT !.active = MaximalPatterns(Desired(sc))]

ResyncFailed(sc) ==
    LET max == MaximalPatterns(Desired(sc))
        missing == max \ sc.active
    IN {[sc EXCEPT !.active = (sc.active \cap max) \cup done] :
            done \in {d \in SUBSET missing : d # missing}}

More(sc, ps) == [sc EXCEPT !.desired =
    [p \in Patterns |-> IF p \in ps THEN sc.desired[p] + 1 ELSE sc.desired[p]]]

Fewer(sc, ps) == [sc EXCEPT !.desired =
    [p \in Patterns |-> IF p \in ps /\ sc.desired[p] > 0
                        THEN sc.desired[p] - 1 ELSE sc.desired[p]]]

(* releaseLocked: what the scope can be afterwards.  A failed resync marks  *)
(* the retry; an empty scope is swept.                                      *)
ReleaseOutcomes(sc, ps) ==
    LET less == Fewer(sc, ps)
    IN IF sc = NoScope THEN {NoScope}
       ELSE IF Desired(less) = {} THEN {NoScope}
       ELSE {Resynced(less)} \cup {[f EXCEPT !.retry = TRUE] : f \in ResyncFailed(less)}

(* The keys whose retry timer a release has just armed.                     *)
Armed(before, after) ==
    {k \in Keys : /\ after[k] # NoScope /\ after[k].retry
                  /\ before[k] = NoScope \/ ~before[k].retry}

(* The number of scopes a step leaves out of sync, each one a failed        *)
(* subscription.                                                            *)
Failed(after, ks) ==
    Cardinality({k \in ks : after[k] # NoScope /\ ~InSync(after[k])})

(* backgroundCtx: the published engine's, or the process's own (0).         *)
TimerCtx == published

(* Mutant of ReleaseKeys: a release acts on whatever generation is current. *)
ReleaseKeysAnyGen(a) == {h[1] : h \in held[a]}

(* The keys a release still owns: those counted in the live generation.     *)
ReleaseKeys(a) == {h[1] : h \in {g \in held[a] : g[2] = gen}}

(* A release, in one critical section over the keys acquired so far.        *)
ReleaseAll(a) ==
    LET ks == ReleaseKeys(a)
    IN \E after \in [Keys -> UNION {ReleaseOutcomes(scope[k], want[a]) : k \in ks}
                                \cup {scope[k] : k \in Keys}] :
        /\ \A k \in Keys : IF k \in ks THEN after[k] \in ReleaseOutcomes(scope[k], want[a])
                                       ELSE after[k] = scope[k]
        /\ failures + Failed(after, ks) <= MaxFailures
        /\ failures' = failures + Failed(after, ks)
        /\ scope' = after
        /\ timers' = timers \cup (Armed(scope, after) \X {TimerCtx})

(* The actor is done: an SSE request may come again, the goroutine of an    *)
(* engine has returned.                                                     *)
Over(a) ==
    /\ apc' = [apc EXCEPT ![a] = IF a \in Subscribers THEN "idle" ELSE "over"]
    /\ sdk' = [sdk EXCEPT ![a] = 0]
    /\ want' = [want EXCEPT ![a] = {}]
    /\ todo' = [todo EXCEPT ![a] = {}]
    /\ key' = [key EXCEPT ![a] = NoKey]
    /\ sawGen' = [sawGen EXCEPT ![a] = 0]
    /\ held' = [held EXCEPT ![a] = {}]

-----------------------------------------------------------------------------
(* acquire.                                                                 *)

(* eventsSubscribe, inside the gate of the live engine.  A spaceId filter   *)
(* rules account events out: the keys are the account's or spaces'.         *)
Subscribe(r, ks, ps) ==
    /\ apc[r] = "idle" /\ published # 0 /\ down = "up"
    /\ ks # {} /\ ps # {}
    /\ ks = {Account} \/ Account \notin ks
    /\ apc' = [apc EXCEPT ![r] = "ctx"]
    /\ sdk' = [sdk EXCEPT ![r] = published]
    /\ want' = [want EXCEPT ![r] = ps]
    /\ todo' = [todo EXCEPT ![r] = ks]
    /\ UNCHANGED <<life, bridge, key, sawGen, held>>

(* A request whose engine is going away stops here; the goroutine of a      *)
(* cancelled engine returns.                                                *)
CtxCheck(a) ==
    /\ apc[a] = "ctx"
    /\ IF cancelled[sdk[a]]
       THEN Over(a)
       ELSE /\ apc' = [apc EXCEPT ![a] = "next"]
            /\ UNCHANGED <<sdk, want, todo, key, sawGen, held>>
    /\ UNCHANGED <<life, bridge>>

(* acquireScope, first critical section: the account scope comes first.     *)
ReadGen(a, k) ==
    /\ apc[a] = "next" /\ k \in todo[a]
    /\ Account \in todo[a] => k = Account
    /\ key' = [key EXCEPT ![a] = k]
    /\ todo' = [todo EXCEPT ![a] = @ \ {k}]
    /\ sawGen' = [sawGen EXCEPT ![a] = gen]
    /\ apc' = [apc EXCEPT ![a] = "resolve"]
    /\ UNCHANGED <<life, bridge, sdk, want, held>>

Acquired(a) ==
    /\ apc[a] = "next" /\ todo[a] = {}
    /\ apc' = [apc EXCEPT ![a] = "held"]
    /\ UNCHANGED <<life, bridge, sdk, want, todo, key, sawGen, held>>

(* resolve, outside the lock.                                               *)
Resolve(a) ==
    /\ apc[a] = "resolve"
    /\ apc' = [apc EXCEPT ![a] = "register"]
    /\ UNCHANGED <<life, bridge, sdk, want, todo, key, sawGen, held>>

(* Materializing a space may fail.                                          *)
ResolveFails(a) ==
    /\ apc[a] = "resolve" /\ key[a] # Account
    /\ apc' = [apc EXCEPT ![a] = "rollback"]
    /\ UNCHANGED <<life, bridge, sdk, want, todo, key, sawGen, held>>

(* The bridge was detached since the generation was read.                   *)
Detached(a) == gen # sawGen[a]

(* The scope an acquisition registers in.                                   *)
ScopeFor(a) ==
    IF scope[key[a]] # NoScope THEN scope[key[a]]
    ELSE [ps |-> sdk[a], desired |-> [p \in Patterns |-> 0], active |-> {}, retry |-> FALSE]

(* acquireScope, second critical section.                                   *)
Register(a) ==
    /\ apc[a] = "register" /\ ~Detached(a)
    /\ scope' = [scope EXCEPT ![key[a]] = Resynced(More(ScopeFor(a), want[a]))]
    /\ held' = [held EXCEPT ![a] = @ \cup {<<key[a], gen>>}]
    /\ key' = [key EXCEPT ![a] = NoKey]
    /\ sawGen' = [sawGen EXCEPT ![a] = 0]
    /\ apc' = [apc EXCEPT ![a] = "next"]
    /\ UNCHANGED <<life, gen, timers, failures, sdk, want, todo>>

RegisterDetached(a) ==
    /\ apc[a] = "register" /\ Detached(a)
    /\ apc' = [apc EXCEPT ![a] = "rollback"]
    /\ UNCHANGED <<life, bridge, sdk, want, todo, key, sawGen, held>>

(* Subscribing fails: this scope is rolled back in the same critical        *)
(* section.                                                                 *)
RegisterFails(a) ==
    /\ apc[a] = "register" /\ ~Detached(a)
    /\ \E partly \in ResyncFailed(More(ScopeFor(a), want[a])) :
        \E back \in ReleaseOutcomes(partly, want[a]) :
            LET after == [scope EXCEPT ![key[a]] = back]
                bad == failures + 1 + Failed(after, {key[a]})
            IN /\ bad <= MaxFailures
               /\ failures' = bad
               /\ scope' = after
               /\ timers' = timers \cup (Armed(scope, after) \X {TimerCtx})
    /\ apc' = [apc EXCEPT ![a] = "rollback"]
    /\ UNCHANGED <<life, gen, sdk, want, todo, key, sawGen, held>>

(* acquire's error path releases the scopes acquired before; the goroutine  *)
(* of a live engine tries again.                                            *)
Rollback(a) ==
    /\ apc[a] = "rollback"
    /\ ReleaseAll(a)
    /\ IF a \in Engines /\ ~cancelled[a]
       THEN /\ apc' = [apc EXCEPT ![a] = "ctx"]
            /\ todo' = [todo EXCEPT ![a] = {Account}]
            /\ key' = [key EXCEPT ![a] = NoKey]
            /\ sawGen' = [sawGen EXCEPT ![a] = 0]
            /\ held' = [held EXCEPT ![a] = {}]
            /\ UNCHANGED <<sdk, want>>
       ELSE Over(a)
    /\ UNCHANGED <<life, gen>>

(* An SSE request ends, by its client or with its engine.                   *)
Unsubscribe(r) ==
    /\ r \in Subscribers /\ apc[r] = "held"
    /\ ReleaseAll(r)
    /\ Over(r)
    /\ UNCHANGED <<life, gen>>

(* holdProcessInterest keeps the release in eng.procRelease, or releases at *)
(* once when the engine is already going.                                   *)
HoldProcess(e) ==
    /\ apc[e] = "held"
    /\ IF cancelled[e]
       THEN ReleaseAll(e) /\ Over(e)
       ELSE /\ apc' = [apc EXCEPT ![e] = "stored"]
            /\ UNCHANGED <<scope, timers, failures, sdk, want, todo, key, sawGen, held>>
    /\ UNCHANGED <<life, gen>>

-----------------------------------------------------------------------------
(* The retry timer of a failed release.                                     *)

RetryTimer(k, e) ==
    /\ <<k, e>> \in timers
    /\ IF (e # 0 /\ cancelled[e]) \/ scope[k] = NoScope
       THEN timers' = timers \ {<<k, e>>} /\ UNCHANGED <<scope, failures>>
       ELSE \/ /\ scope' = [scope EXCEPT ![k] = [Resynced(@) EXCEPT !.retry = FALSE]]
               /\ timers' = timers \ {<<k, e>>}
               /\ UNCHANGED failures
            \/ /\ failures < MaxFailures /\ failures' = failures + 1
               /\ \E f \in ResyncFailed(scope[k]) :
                    scope' = [scope EXCEPT ![k] = [f EXCEPT !.retry = TRUE]]
               /\ UNCHANGED timers
    /\ UNCHANGED <<life, gen, actor>>

-----------------------------------------------------------------------------
(* The engine around the bridge.                                            *)

(* publishEngine starts the standing interest.                              *)
Publish ==
    /\ published = 0 /\ made < MaxPublished
    /\ made' = made + 1 /\ published' = made + 1
    /\ apc' = [apc EXCEPT ![made + 1] = "ctx"]
    /\ sdk' = [sdk EXCEPT ![made + 1] = made + 1]
    /\ want' = [want EXCEPT ![made + 1] = {Standing}]
    /\ todo' = [todo EXCEPT ![made + 1] = {Account}]
    /\ UNCHANGED <<down, cancelled, bridge, key, sawGen, held>>

TeardownCancel ==
    /\ published # 0 /\ down = "up"
    /\ down' = "cancelled"
    /\ cancelled' = [cancelled EXCEPT ![published] = TRUE]
    /\ UNCHANGED <<published, made, bridge, actor>>

(* The drain: the engine's requests have left, or the deadline has passed.  *)
Drained == \A r \in Subscribers : sdk[r] # published

(* Mutant of Detach: the generation moves twice.                            *)
DetachTwice ==
    /\ down = "cancelled"
    /\ Drained \/ ~Timely
    /\ scope' = [k \in Keys |-> NoScope]
    /\ gen' = gen + 2
    /\ down' = "detached"
    /\ UNCHANGED <<published, made, cancelled, timers, failures, actor>>

(* detach: every subscription is cancelled, every scope dropped.            *)
Detach ==
    /\ down = "cancelled"
    /\ Drained \/ ~Timely
    /\ scope' = [k \in Keys |-> NoScope]
    /\ gen' = gen + 1
    /\ down' = "detached"
    /\ UNCHANGED <<published, made, cancelled, timers, failures, actor>>

(* Mutant of TeardownClose: the goroutine is not joined.                    *)
TeardownCloseUnjoined ==
    /\ down = "detached"
    /\ published' = 0 /\ down' = "up"
    /\ UNCHANGED <<made, cancelled, bridge, actor>>

(* closeResources joins the goroutine and releases the standing interest.   *)
TeardownClose ==
    /\ down = "detached" /\ apc[published] \in {"stored", "over"}
    /\ ReleaseAll(published) /\ Over(published)
    /\ published' = 0 /\ down' = "up"
    /\ UNCHANGED <<made, cancelled, gen>>

(* The drain or the join ran out of time: the next engine may come first.   *)
TeardownAbandon ==
    /\ down = "detached" /\ ~Timely
    /\ published' = 0 /\ down' = "up"
    /\ UNCHANGED <<made, cancelled, bridge, actor>>

(* The janitor's closeResources, later.                                     *)
JanitorClose(e) ==
    /\ e # published /\ apc[e] = "stored"
    /\ ReleaseAll(e) /\ Over(e)
    /\ UNCHANGED <<life, gen>>

-----------------------------------------------------------------------------
AcquireStep(a) ==
    \/ CtxCheck(a) \/ Acquired(a) \/ Resolve(a) \/ ResolveFails(a)
    \/ \E k \in Keys : ReadGen(a, k)
    \/ Register(a) \/ RegisterDetached(a) \/ RegisterFails(a) \/ Rollback(a)

BridgeNext ==
    \/ \E r \in Subscribers :
        \/ \E ks \in SUBSET Keys, ps \in SUBSET Patterns : Subscribe(r, ks, ps)
        \/ Unsubscribe(r)
    \/ \E a \in Actors : AcquireStep(a)
    \/ \E e \in Engines : HoldProcess(e) \/ JanitorClose(e)
    \/ \E k \in Keys, e \in 0..MaxPublished : RetryTimer(k, e)
    \/ Publish \/ TeardownCancel \/ Detach \/ TeardownClose \/ TeardownAbandon

(* A subscriber's loop ends with its engine's ctx.                          *)
EndsWithEngine(r) == sdk[r] # 0 /\ cancelled[sdk[r]] /\ Unsubscribe(r)

(* Goroutines run, timers fire and a teardown that began goes through.      *)
BridgeFairness ==
    /\ \A r \in Subscribers : WF_bridgeVars(EndsWithEngine(r))
    /\ \A a \in Actors : WF_bridgeVars(AcquireStep(a))
    /\ \A e \in Engines : WF_bridgeVars(HoldProcess(e))
    /\ \A k \in Keys, e \in 0..MaxPublished : WF_bridgeVars(RetryTimer(k, e))
    /\ WF_bridgeVars(Detach) /\ WF_bridgeVars(TeardownClose)

BridgeSpec == BridgeInit /\ [][BridgeNext]_bridgeVars /\ BridgeFairness

-----------------------------------------------------------------------------
(* Properties.                                                              *)

(* Refcounts are exact: a scope counts each pattern once for every actor    *)
(* holding it in the present generation, through detaches, failed           *)
(* subscriptions and rollbacks, and a scope nobody holds is gone.           *)
CountsExact ==
    \A k \in Keys :
        LET holders == {a \in Actors : <<k, gen>> \in held[a]}
        IN IF scope[k] = NoScope
           THEN holders = {}
           ELSE /\ holders # {}
                /\ \A p \in Patterns : scope[k].desired[p] =
                        Cardinality({a \in holders : p \in want[a]})

(* What the SDK is subscribed to is what the live requests asked for: the   *)
(* bridge's counts are exact (events_bridge.go, refcounted per scope).      *)
SubscriptionsExact == BridgeTypeOK /\ CountsExact

(* While an engine serves, every scope subscribes through that engine's own *)
(* pub/sub handle: an acquisition that raced a detach does not seed the     *)
(* next engine's scopes.                                                    *)
NoForeignHandle ==
    published # 0 /\ down = "up" =>
        \A k \in Keys : scope[k] # NoScope => scope[k].ps = published

(* A failed re-subscribe is repaired: a scope out of cover is in cover      *)
(* again, or gone, however the retries and the teardown interleave.         *)
Repaired ==
    \A k \in Keys :
        scope[k] # NoScope /\ ~InSync(scope[k])
            ~> scope[k] = NoScope \/ InSync(scope[k])
=============================================================================
