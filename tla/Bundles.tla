------------------------------ MODULE Bundles -------------------------------
(***************************************************************************)
(* One bundle id in one space, on the devices of its members: ensure,      *)
(* resolve with its background retry, and uninstall (bundles.go,           *)
(* handlers_bundles.go).                                                   *)
(*                                                                         *)
(* The SDK's registry is external: an add-only set of claimed roots per    *)
(* device, exchanged through the sync node; a derived claim wins over      *)
(* created ones, of those the highest wins, and an install made over a     *)
(* deleted winner is above it.  Trees arrive change by change.             *)
(***************************************************************************)
EXTENDS Naturals

CONSTANTS
    Members,             \* the members of the space, on one device each
    Owners, Writers,     \* those that own it, and those that may write
    Created, Canon,      \* roots with fresh ids; the root derived from the bundle id
    RetryAttempts,       \* passes of one background retry
    MaxAsks, MaxRestarts \* bounds

(* Ids are ordered, the derived root is no created one, owners may write.   *)
BundlesConstants ==
    /\ Created \subseteq Nat /\ Canon \in Nat \ Created
    /\ Owners \subseteq Writers /\ Writers \subseteq Members
    /\ RetryAttempts \in Nat /\ MaxAsks \in Nat /\ MaxRestarts \in Nat
ASSUME BundlesAssumption == BundlesConstants

VARIABLES
    reg, dead,    \* the claims and the deletions each device knows
    node,         \* what the sync node holds: claims, deletions, trees
    tree,         \* how much of each root's tree each device holds
    synced,       \* roots the SDK reports synced on each device
    firstSeen,    \* when each device first observed each loser
    retrying,     \* passes left of each device's retry loops
    call,         \* the ensure request each device is serving; seen is history: the
                  \* claims the device had when it created the root under registration
    minted,       \* history: who created a root, and what was published when it asked
    installed,    \* history: answers that said "installed" of a root their call did not make
    resolved,     \* history: roots deleted by Resolve, with what was held of them
    asks, restarts

bounds == <<asks, restarts>>
history == <<minted, installed, resolved>>
bundles == <<reg, dead, node, tree, synced, firstSeen, retrying, call, history, bounds>>

Roots == Created \cup {Canon}
Idle == [at |-> "idle", derived |-> FALSE, declares |-> FALSE, base |-> {}, root |-> Canon,
         seen |-> {}]
NoMint == [by |-> {}, base |-> {}]

BundlesTypeOK ==
    /\ reg \in [Members -> SUBSET Roots] /\ dead \in [Members -> SUBSET Created]
    /\ node.reg \subseteq Roots /\ node.dead \subseteq Created /\ node.trees \subseteq Roots
    /\ tree \in [Members -> [Roots -> {"none", "part", "full"}]]
    /\ synced \in [Members -> SUBSET Roots]
    /\ firstSeen \in [Members -> [Roots -> {"no", "now", "past"}]]
    /\ retrying \in [Members -> [Roots -> 0..RetryAttempts]]
    /\ \A d \in Members : call[d].at \in {"idle", "wait", "mint", "register"}
    /\ asks \in 0..MaxAsks /\ restarts \in 0..MaxRestarts

BundlesInit ==
    /\ reg = [d \in Members |-> {}] /\ dead = [d \in Members |-> {}]
    /\ node = [reg |-> {}, dead |-> {}, trees |-> {}]
    /\ tree = [d \in Members |-> [r \in Roots |-> "none"]]
    /\ synced = [d \in Members |-> {}]
    /\ firstSeen = [d \in Members |-> [r \in Roots |-> "no"]]
    /\ retrying = [d \in Members |-> [r \in Roots |-> 0]]
    /\ call = [d \in Members |-> Idle]
    /\ minted = [r \in Roots |-> NoMint] /\ installed = {}
    /\ resolved = {} /\ asks = 0 /\ restarts = 0

-----------------------------------------------------------------------------
(* The registry row: its winner, whether that lives, and the losers.        *)
Beats(q, r) == q # r /\ (q = Canon \/ (r # Canon /\ q > r))
Winner(claims) == CHOOSE r \in claims : \A q \in claims : ~Beats(q, r)
Installed(claims, gone) == claims # {} /\ Winner(claims) \notin gone
Losers(claims, gone) == IF claims = {} THEN {} ELSE claims \ (gone \cup {Winner(claims)})

RootOf(d) == Winner(reg[d])
RowLive(d) == Installed(reg[d], dead[d])
RootLocal(d, r) == tree[d][r] # "none"

(* observe: every loser of the row that is read is dated.                   *)
Observe(d, claims, gone) ==
    firstSeen' = [firstSeen EXCEPT ![d] =
        [r \in Roots |-> IF r \in Losers(claims, gone) /\ @[r] = "no" THEN "now" ELSE @[r]]]

(* Get and List read the row; the grace window passes.                      *)
Get(d) ==
    /\ RowLive(d) /\ Observe(d, reg[d], dead[d])
    /\ UNCHANGED <<reg, dead, node, tree, synced, retrying, call, history, bounds>>

GracePasses(d, r) ==
    /\ firstSeen[d][r] = "now" /\ firstSeen' = [firstSeen EXCEPT ![d][r] = "past"]
    /\ UNCHANGED <<reg, dead, node, tree, synced, retrying, call, history, bounds>>

-----------------------------------------------------------------------------
(* Ensure.  tryAdopt: the verdict on the row as this device reads it.       *)
TryAdopt(d, derived) ==
    IF ~RowLive(d) THEN "absent"
    ELSE IF RootLocal(d, RootOf(d)) THEN "adopt"
    ELSE IF derived /\ RootOf(d) = Canon THEN "mint" ELSE "refuse"

(* settled: the adopted root carries what the request declares, or this     *)
(* member cannot heal it and stays out of the SDK's write gate.             *)
Settled(d, lacks) == lacks => d \notin Writers

(* What the request does with the verdict; absent is where it waits.        *)
Proceed(d, derived, declares, lacks, base, absent) ==
    LET verdict == TryAdopt(d, derived)
        at == IF verdict = "absent" THEN absent
              ELSE IF verdict = "adopt" /\ ~Settled(d, lacks) THEN "mint" ELSE verdict
    IN call' = [call EXCEPT ![d] =
           IF at \in {"adopt", "refuse"} THEN Idle
           ELSE [Idle EXCEPT !.at = at, !.derived = derived, !.declares = declares, !.base = base]]

(* A created root is the SDK's to make when the request declares it, and a  *)
(* callback's otherwise, which lacks no declaration; of a derived one it    *)
(* makes no difference.                                                     *)
Ask(d, derived, declares, lacks) ==
    /\ derived => ~declares
    /\ lacks => derived \/ declares
    /\ call[d].at = "idle" /\ asks < MaxAsks /\ asks' = asks + 1
    /\ IF RowLive(d) THEN Observe(d, reg[d], dead[d]) ELSE UNCHANGED firstSeen
    /\ Proceed(d, derived, declares, lacks,
               IF Installed(node.reg, node.dead) THEN node.reg ELSE {}, "wait")
    /\ UNCHANGED <<reg, dead, node, tree, synced, retrying, history, restarts>>

(* The convergence wait: the registry holds what the node holds, or it      *)
(* expires, and only the owner or a derived install goes on.                *)
Converged(d) == node.reg \subseteq reg[d] /\ node.dead \subseteq dead[d]

(* Mutant of MayInstall: every writer installs past an expired wait.        *)
MayInstallAll(d) == call[d].derived \/ d \in Writers
MayInstall(d) == call[d].derived \/ d \in Owners

Converge(d, expired, lacks) ==
    /\ call[d].at = "wait" /\ (~expired => Converged(d))
    /\ lacks => call[d].derived \/ call[d].declares
    /\ IF expired /\ ~MayInstall(d)
       THEN call' = [call EXCEPT ![d] = Idle]
       ELSE Proceed(d, call[d].derived, call[d].declares, lacks, call[d].base, "mint")
    /\ UNCHANGED <<reg, dead, node, tree, synced, firstSeen, retrying, history, bounds>>

(* The answer names the winner of the row that comes back.  Where the       *)
(* caller's callback created the root, it was installed if it is that       *)
(* winner; of a derived root, and of one the SDK made, all that is known is *)
(* that this call registered a claim.  A winner whose tree is not here is   *)
(* an error instead.                                                        *)
CallsBack(d) == ~call[d].derived /\ ~call[d].declares
Answer(d, own, claims, says) ==
    LET winner == Winner(claims)
    IN installed' =
           IF says /\ tree'[d][winner] # "none" /\ winner # own
           THEN installed \cup {[by |-> d, root |-> winner, callback |-> CallsBack(d),
                                 knew |-> winner \in call[d].seen]}
           ELSE installed

(* Mutant of InstalledAnswer: what this call registered, whoever won.       *)
InstalledAnswer1(d, own, claims, registered) == Answer(d, own, claims, registered)

InstalledAnswer(d, own, claims, registered) ==
    Answer(d, own, claims, registered /\ (CallsBack(d) => Winner(claims) = own))

(* The SDK's Ensure behind its write gate.  A derived root is claimed and   *)
(* materialised at once, and registered unless a claim of it is here.       *)
EnsureDerived(d) ==
    /\ call[d].at = "mint" /\ call[d].derived /\ d \in Writers
    /\ RowLive(d) => RootOf(d) = Canon
    /\ reg' = [reg EXCEPT ![d] = @ \cup {Canon}]
    /\ tree' = [tree EXCEPT ![d][Canon] = "full"]
    /\ Observe(d, reg[d] \cup {Canon}, dead[d])
    /\ InstalledAnswer(d, Canon, reg[d] \cup {Canon}, Canon \notin reg[d])
    /\ call' = [call EXCEPT ![d] = Idle]
    /\ UNCHANGED <<dead, node, synced, retrying, minted, resolved, bounds>>

(* A created one: the object is made first, then registered.                *)
NewRoot(d, r) ==
    /\ call[d].at = "mint" /\ ~call[d].derived /\ d \in Writers /\ ~RowLive(d)
    /\ minted[r] = NoMint /\ \A q \in reg[d] : r > q
    /\ minted' = [minted EXCEPT ![r] =
           [by |-> {d},
            base |-> IF Installed(call[d].base \cup reg[d], dead[d]) THEN call[d].base ELSE {}]]
    /\ tree' = [tree EXCEPT ![d][r] = "full"]
    /\ call' = [call EXCEPT ![d].at = "register", ![d].root = r, ![d].seen = reg[d]]
    /\ UNCHANGED <<reg, dead, node, synced, firstSeen, retrying, installed, resolved, bounds>>

Register(d) ==
    /\ call[d].at = "register" /\ UNCHANGED tree
    /\ LET claims == reg[d] \cup {call[d].root}
       IN /\ reg' = [reg EXCEPT ![d] = claims]
          /\ Observe(d, claims, dead[d])
          /\ InstalledAnswer(d, call[d].root, claims, TRUE)
    /\ call' = [call EXCEPT ![d] = Idle]
    /\ UNCHANGED <<dead, node, synced, retrying, minted, resolved, bounds>>

(* The write gate refuses a reader; a live install is adopted, and healed.  *)
EnsureEnds(d) ==
    /\ call[d].at = "mint"
    /\ d \in Writers => RowLive(d) /\ (call[d].derived => RootOf(d) # Canon)
    /\ IF RowLive(d) THEN Observe(d, reg[d], dead[d]) ELSE UNCHANGED firstSeen
    /\ call' = [call EXCEPT ![d] = Idle]
    /\ UNCHANGED <<reg, dead, node, tree, synced, retrying, history, bounds>>

-----------------------------------------------------------------------------
(* Resolve.  ready: observed for the grace window, and reported synced.     *)

(* Mutant of Ready: a root whose sync state is unknown counts as settled.   *)
ReadyUnknown(d, r) == firstSeen[d][r] = "past"
Ready(d, r) == firstSeen[d][r] = "past" /\ r \in synced[d]

(* The verdicts that cannot change come first.                              *)
Target(d, r) ==
    IF r = RootOf(d) \/ r \notin reg[d] THEN "never"
    ELSE IF r \notin Losers(reg[d], dead[d]) THEN "gone" ELSE "loser"

Forget(d, rs) ==
    firstSeen' = [firstSeen EXCEPT ![d] = [r \in Roots |-> IF r \in rs THEN "no" ELSE @[r]]]

(* One pass of Resolve, the deletion cascading over the root's children.    *)
Resolve(d, r) ==
    LET target == Target(d, r)
    IN /\ RowLive(d)
       /\ IF target = "loser" /\ Ready(d, r)
          THEN /\ dead' = [dead EXCEPT ![d] = @ \cup {r}]
               /\ resolved' = resolved \cup {[root |-> r, held |-> tree[d][r]]}
               /\ tree' = [tree EXCEPT ![d][r] = "none"] /\ synced' = [synced EXCEPT ![d] = @ \ {r}]
               /\ Forget(d, {r})
          ELSE /\ IF target = "gone" THEN Forget(d, {r}) ELSE Observe(d, reg[d], dead[d])
               /\ UNCHANGED <<dead, resolved, tree, synced>>

NotReady(d, r) == Target(d, r) = "loser" /\ ~Ready(d, r)

(* The handler: a refusal for timing arms one background retry per loser.   *)
BundleResolve(d, r) ==
    /\ asks < MaxAsks /\ asks' = asks + 1
    /\ Resolve(d, r)
    /\ retrying' = IF NotReady(d, r) /\ retrying[d][r] = 0
                   THEN [retrying EXCEPT ![d][r] = RetryAttempts] ELSE retrying
    /\ UNCHANGED <<reg, node, call, minted, installed, restarts>>

(* ResolveRetry: a pass; it goes on only while the timing is in the way.    *)
RetryPass(d, r) ==
    /\ retrying[d][r] > 0
    /\ IF RowLive(d) THEN Resolve(d, r) ELSE UNCHANGED <<dead, resolved, tree, synced, firstSeen>>
    /\ retrying' = [retrying EXCEPT ![d][r] = IF RowLive(d) /\ NotReady(d, r) THEN @ - 1 ELSE 0]
    /\ UNCHANGED <<reg, node, call, minted, installed, bounds>>

(* Uninstall: a member other than the owner needs a converged registry, and *)
(* everybody every tree; a derived install cannot be removed.               *)
Uninstall(d) ==
    /\ asks < MaxAsks /\ asks' = asks + 1
    /\ d \in Writers /\ (d \in Owners \/ Converged(d))
    /\ reg[d] # {} /\ Canon \notin reg[d]
    /\ \A r \in reg[d] \ dead[d] : RootLocal(d, r)
    /\ dead' = [dead EXCEPT ![d] = @ \cup reg[d]]
    /\ tree' = [tree EXCEPT ![d] = [r \in Roots |-> IF r \in reg[d] THEN "none" ELSE @[r]]]
    /\ synced' = [synced EXCEPT ![d] = @ \ reg[d]]
    /\ Forget(d, reg[d])
    /\ UNCHANGED <<reg, node, retrying, call, history, restarts>>

-----------------------------------------------------------------------------
(* The network.  A device pushes what it has; the rest arrives in parts.    *)
Push(d) ==
    /\ node' = [reg |-> node.reg \cup reg[d], dead |-> node.dead \cup dead[d],
                trees |-> node.trees \cup {r \in Roots : tree[d][r] = "full"}]
    /\ node' # node
    /\ UNCHANGED <<reg, dead, tree, synced, firstSeen, retrying, call, history, bounds>>

Pull(d) ==
    /\ ~Converged(d)
    /\ reg' = [reg EXCEPT ![d] = @ \cup node.reg]
    /\ dead' = [dead EXCEPT ![d] = @ \cup node.dead]
    /\ tree' = [tree EXCEPT ![d] = [r \in Roots |-> IF r \in node.dead THEN "none" ELSE @[r]]]
    /\ synced' = [synced EXCEPT ![d] = @ \ node.dead]
    /\ UNCHANGED <<node, firstSeen, retrying, call, history, bounds>>

Arrive(d, r) ==
    /\ r \in node.trees \ dead[d] /\ tree[d][r] # "full"
    /\ tree' = [tree EXCEPT ![d][r] = IF @ = "none" THEN "part" ELSE "full"]
    /\ UNCHANGED <<reg, dead, node, synced, firstSeen, retrying, call, history, bounds>>

(* The status hook of a tree that is whole on both sides.                   *)
Settle(d, r) ==
    /\ r \in node.trees \ (dead[d] \cup synced[d]) /\ tree[d][r] = "full"
    /\ synced' = [synced EXCEPT ![d] = @ \cup {r}]
    /\ UNCHANGED <<reg, dead, node, tree, firstSeen, retrying, call, history, bounds>>

(* The process restarts: observations, retries and requests are gone.       *)
Restart(d) ==
    /\ restarts < MaxRestarts /\ restarts' = restarts + 1
    /\ synced' = [synced EXCEPT ![d] = {}] /\ Forget(d, Roots)
    /\ retrying' = [retrying EXCEPT ![d] = [r \in Roots |-> 0]]
    /\ call' = [call EXCEPT ![d] = Idle]
    /\ UNCHANGED <<reg, dead, node, tree, history, asks>>

Step(d) ==
    \/ Get(d) \/ (\E derived, declares, lacks \in BOOLEAN : Ask(d, derived, declares, lacks))
    \/ (\E expired, lacks \in BOOLEAN : Converge(d, expired, lacks))
    \/ EnsureDerived(d) \/ Register(d) \/ EnsureEnds(d) \/ Uninstall(d)
    \/ Push(d) \/ Pull(d) \/ Restart(d)
    \/ \E r \in Created : NewRoot(d, r)
    \/ \E r \in Roots :
        \/ GracePasses(d, r)
        \/ BundleResolve(d, r) \/ RetryPass(d, r)
        \/ Arrive(d, r) \/ Settle(d, r)

BundlesNext == \E d \in Members : Step(d)

BundlesSpec == BundlesInit /\ [][BundlesNext]_bundles

-----------------------------------------------------------------------------
(* A resolved root had arrived whole where it was deleted, and a claim that *)
(* beats it remains, so that the install the devices converge on is none    *)
(* that was resolved ("deleting a loser whose content nobody here has ever  *)
(* seen", bundles.go:806).                                                  *)
NothingUnmerged ==
    \A x \in resolved :
        x.held = "full" /\ \E d \in Members : \E q \in reg[d] : Beats(q, x.root)

(* An answer that says "installed" names the root this call made.  Only a   *)
(* request that declares a type or a collection may be told so of another's *)
(* root, and only of one that came in after this call had made its own      *)
(* ("the same narrow inbound-race weakness", bundles.go:494), never of a    *)
(* claim the device had then.  So of two answers that name one created      *)
(* root, one is a declaring request's that was overtaken.                   *)
AnswersHonest == \A x \in installed : ~x.callback /\ ~x.knew

(* And a member other than the owner never creates a root next to an        *)
(* install published before it asked, unless it has seen that install       *)
(* deleted (bundles.go Ensure).                                             *)
NoBlindFork ==
    AnswersHonest /\ \A r \in Created : minted[r].base # {} => minted[r].by \subseteq Owners

(* What an install promises: no content lost, no fork but on purpose.        *)
InstallsSound == BundlesTypeOK /\ NothingUnmerged /\ NoBlindFork

-----------------------------------------------------------------------------
(* The inductive invariant.                                                 *)

HistoryOK ==
    /\ node \in [reg : SUBSET Roots, dead : SUBSET Created, trees : SUBSET Roots]
    /\ call \in [Members -> [at : {"idle", "wait", "mint", "register"}, derived : BOOLEAN,
                             declares : BOOLEAN, base : SUBSET Roots, root : Roots,
                             seen : SUBSET Roots]]
    /\ minted \in [Roots -> [by : SUBSET Members, base : SUBSET Roots]]
    /\ installed \subseteq [by : Members, root : Roots, callback : BOOLEAN, knew : BOOLEAN]
    /\ resolved \subseteq [root : Roots, held : {"none", "part", "full"}]

(* Every set of claims has a winner, and what is reported synced is whole.  *)
HasWinner(claims) == claims # {} => \E r \in claims : \A q \in claims : ~Beats(q, r)
Whole ==
    /\ HasWinner(node.reg) /\ \A d \in Members : HasWinner(reg[d])
    /\ \A d \in Members : \A r \in synced[d] : tree[d][r] = "full"

(* A root under registration is this device's own, and beats every claim    *)
(* the device had when it created it.                                       *)
OwnRoots ==
    \A d \in Members : call[d].at = "register" =>
        /\ d \in minted[call[d].root].by /\ ~call[d].derived
        /\ \A q \in call[d].seen : Beats(call[d].root, q)

(* A member other than the owner that is about to create a root has heard   *)
(* of what was published when it asked, or has a live install.              *)
Sighted(d) ==
    /\ call[d].base \subseteq node.reg
    /\ d \notin Owners /\ call[d].at = "mint" /\ ~call[d].derived =>
           call[d].base \subseteq reg[d] \/ RowLive(d)

BundlesInv ==
    /\ BundlesTypeOK /\ HistoryOK /\ Whole /\ OwnRoots /\ \A d \in Members : Sighted(d)
    /\ NothingUnmerged /\ NoBlindFork
=============================================================================
