------------------------------ MODULE Catalog ------------------------------
(***************************************************************************)
(* The usecase catalog: what its validation accepts (catalog.go), how it   *)
(* is compiled and walked, and the setup of a usecase in a space with      *)
(* several devices (server/catalog.go, handlers_catalog.go).               *)
(*                                                                         *)
(* A bundle is a number in declaration order, with the usecase it is       *)
(* declared by, the bundles it supersedes, the handle it declares and the  *)
(* handle its relation or its rows' default type points at.  The registry  *)
(* is external: installs and uninstalls exchanged through the sync node,   *)
(* each counted, so that a bundle is installed while it has more of one.   *)
(***************************************************************************)
EXTENDS Naturals, Sequences, FiniteSetsExt, Relation, SequencesExt

CONSTANTS
    Usecases, Bundles, Handles, NoHandle,
    Catalogs,       \* catalog sources: [of, req, sup, key, link]
    Earlier,        \* what an earlier release may have installed in the space
    Devices, Role,
    MaxSetups, MaxUninstalls

VARIABLES
    cat,        \* the embedded catalog
    compiled,   \* "no", "ok" or "refused": Run refuses to boot on a problem
    have, gone, \* the installs and the uninstalls of each bundle each device knows
    node,       \* those the sync node holds
    setup,      \* the setup request each device serves
    groups,     \* its supersede groups, once compiled
    blind,      \* history: the owner went on past an expired wait
    setups, uninstalls

history == <<blind, setups, uninstalls>>
vars == <<cat, compiled, groups, have, gone, node, setup, history>>

NoneClaimed == [b \in Bundles |-> 0]
Idle == [at |-> "idle", order |-> <<>>, walk |-> <<>>, waited |-> "no"]

-----------------------------------------------------------------------------
(* Load: the structural validation.                                         *)
Supersedes(c, a, b) == b \in c.sup[a]
Superseded(c) == UNION {c.sup[b] : b \in Bundles}

RECURSIVE Walk(_, _, _)

(* The depth-first walk of Order and closure: each usecase once, after the  *)
(* ones it requires.                                                        *)
Walk(c, u, st) ==
    IF u \in st.seen THEN st
    ELSE LET deps == FoldLeft(LAMBDA s, r : Walk(c, r, s), [st EXCEPT !.seen = @ \cup {u}],
                              SetToSortSeq(c.req[u], <))
         IN [deps EXCEPT !.out = Append(@, u)]

(* Mutant of Order: a usecase comes before what it requires.                *)
OrderFirst(c, u) == Reverse(Walk(c, u, [seen |-> {}, out |-> <<>>]).out)
Order(c, u) == Walk(c, u, [seen |-> {}, out |-> <<>>]).out
Closure(c, u) == Range(Order(c, u))

(* findCycles.                                                              *)
Acyclic(c) == \A u \in Usecases : \A r \in c.req[u] : u \notin Closure(c, r)

(* The rules on supersedes: not itself, in one usecase, no chains.          *)
SupersedesOk(c) ==
    \A b \in Bundles : \A old \in c.sup[b] :
        old # b /\ c.of[old] = c.of[b] /\ c.sup[old] = {}

SharesHandle(c, a, b) == Supersedes(c, a, b) \/ Supersedes(c, b, a)

(* validateHandle: a claimant shares its handle only with every holder it   *)
(* supersedes or is superseded by.                                          *)
HandlesOk(c) ==
    \A a, b \in Bundles :
        a < b /\ c.key[a] = c.key[b] /\ c.key[a] # NoHandle => SharesHandle(c, a, b)

(* A handle of the usecase or its transitive requires.                      *)
LinksOk(c) ==
    \A b \in Bundles : c.link[b] # NoHandle =>
        \E q \in Bundles : c.of[q] \in Closure(c, c.of[b]) /\ c.key[q] = c.link[b]

Validate(c) == Acyclic(c) /\ SupersedesOk(c) /\ HandlesOk(c) /\ LinksOk(c)

(* groupSupersedes: the classes the supersedes edges merge.                 *)
Edges(c) == {<<a, b>> \in Bundles \X Bundles : Supersedes(c, a, b)}
Merge(e, classes) ==
    LET hit == {g \in classes : e[1] \in g \/ e[2] \in g}
    IN (classes \ hit) \cup {UNION hit}
Groups(c) ==
    LET linked == UNION {{e[1], e[2]} : e \in Edges(c)}
    IN FoldSet(Merge, {{b} : b \in linked}, Edges(c))
Old(c, g) == g \cap Superseded(c)
OldKept(c, g, installed) == Old(c, g) \cap installed # {}
NewAny(c, g, installed) == (g \ Superseded(c)) \cap installed # {}

-----------------------------------------------------------------------------
TypeOK ==
    /\ cat \in Catalogs /\ compiled \in {"no", "ok", "refused"}
    /\ have \in [Devices -> [Bundles -> 0..MaxUninstalls + 1]]
    /\ gone \in [Devices -> [Bundles -> 0..MaxUninstalls]]
    /\ \A d \in Devices :
        /\ setup[d].at \in {"idle", "read", "wait", "walk"}
        /\ setup[d].waited \in {"no", "converged", "expired"}
    /\ blind \in BOOLEAN /\ setups \in 0..MaxSetups /\ uninstalls \in 0..MaxUninstalls

Init ==
    /\ cat \in Catalogs /\ compiled = "no" /\ groups = {}
    /\ \E was \in Earlier : LET once == [b \in Bundles |-> IF b \in was THEN 1 ELSE 0] IN
        /\ was \subseteq Superseded(cat)
        /\ \A a, b \in was : a # b => cat.key[a] # cat.key[b]
        /\ node = [have |-> once, gone |-> NoneClaimed]
        /\ have \in [Devices -> {NoneClaimed, once}]
    /\ gone = [d \in Devices |-> NoneClaimed] /\ setup = [d \in Devices |-> Idle]
    /\ blind = FALSE /\ setups = 0 /\ uninstalls = 0

Compile ==
    /\ compiled = "no" /\ compiled' = IF Validate(cat) THEN "ok" ELSE "refused"
    /\ groups' = Groups(cat)
    /\ UNCHANGED <<cat, have, gone, node, setup, history>>

Converged(d) == \A b \in Bundles : node.have[b] <= have[d][b] /\ node.gone[b] <= gone[d][b]
Installed(h, g) == {b \in Bundles : h[b] > g[b]}
Listed(d) == Installed(have[d], gone[d])
Group(b) == UNION {g \in groups : b \in g}
AtUsecases(order) == {Group(b) : b \in {q \in Bundles : cat.of[q] \in Range(order)}} \ {{}}

(* walksBundle: the old shape where any of it is installed, else the new.   *)
WalksBundle(b, installed) ==
    Group(b) # {} => ((b \in Superseded(cat)) = OldKept(cat, Group(b), installed))

WalkOf(order, installed) ==
    LET ofUsecase(u) ==
            SetToSortSeq({b \in Bundles : cat.of[b] = u /\ WalksBundle(b, installed)}, <)
    IN FoldLeft(LAMBDA w, u : w \o ofUsecase(u), <<>>, order)

Begin(d, order) ==
    setup' = [setup EXCEPT ![d] =
        [at |-> "walk", order |-> order, walk |-> WalkOf(order, Listed(d)), waited |-> "no"]]

(* catalogSetup, with supersededInstalled: a group with neither shape       *)
(* installed is settled only by a converged registry.                       *)
SetupUsecase(d, u) ==
    /\ compiled = "ok" /\ setup[d].at = "idle" /\ setups < MaxSetups /\ setups' = setups + 1
    /\ LET order == Order(cat, u)
       IN IF \A g \in AtUsecases(order) : OldKept(cat, g, Listed(d)) \/ NewAny(cat, g, Listed(d))
          THEN Begin(d, order)
          ELSE setup' = [setup EXCEPT ![d] = [Idle EXCEPT !.at = "wait", !.order = order]]
    /\ UNCHANGED <<cat, compiled, groups, have, gone, node, blind, uninstalls>>

(* Mutant of SetupWait: an expired wait does not stop any member.           *)
SetupWaitAll(d, expired) ==
    /\ setup[d].at = "wait" /\ (~expired => Converged(d)) /\ Begin(d, setup[d].order)
    /\ blind' = (blind \/ (expired /\ Role[d] = "owner"))
    /\ UNCHANGED <<cat, compiled, groups, have, gone, node, setups, uninstalls>>

SetupWait(d, expired) ==
    /\ setup[d].at = "wait" /\ (~expired => Converged(d))
    /\ IF expired /\ Role[d] # "owner"
       THEN setup' = [setup EXCEPT ![d] = Idle] ELSE Begin(d, setup[d].order)
    /\ blind' = (blind \/ (expired /\ Role[d] = "owner"))
    /\ UNCHANGED <<cat, compiled, groups, have, gone, node, setups, uninstalls>>

-----------------------------------------------------------------------------
(* The resolver's walk over the installs, against one convergence wait.     *)
Next1(d) == Head(setup[d].walk)
Walking(d) == setup[d].at = "walk" /\ setup[d].walk # <<>>
Advance(d, waited) ==
    setup' = [setup EXCEPT ![d].walk = Tail(@), ![d].waited = waited]
Stop(d) == setup' = [setup EXCEPT ![d] = Idle]

Adopt(d) ==
    /\ Walking(d) /\ Next1(d) \in Listed(d) /\ Advance(d, setup[d].waited)
    /\ UNCHANGED <<cat, compiled, groups, have, gone, node, history>>

(* catalogBeforeInstall: no other definition listed here holds the handle.  *)
XKeyConflict(d, b) ==
    cat.key[b] # NoHandle /\ \E q \in Listed(d) \ {b} : cat.key[q] = cat.key[b]

(* An install: the wait (once per walk), the handle check, the new root.    *)
Install(d, waited) ==
    /\ Walking(d) /\ Next1(d) \notin Listed(d) /\ waited # "no"
    /\ IF setup[d].waited = "no" THEN waited = "converged" => Converged(d)
       ELSE waited = setup[d].waited
    /\ LET b == Next1(d)
           refused == (waited = "expired" /\ Role[d] # "owner") \/ XKeyConflict(d, b)
       IN IF refused
          THEN Stop(d) /\ UNCHANGED <<have, blind>>
          ELSE /\ Advance(d, waited)
               /\ have' = [have EXCEPT ![d][b] = gone[d][b] + 1]
               /\ blind' = (blind \/ waited = "expired")
    /\ UNCHANGED <<cat, compiled, groups, gone, node, setups, uninstalls>>

SetupDone(d) ==
    /\ setup[d].at = "walk" /\ setup[d].walk = <<>> /\ Stop(d)
    /\ UNCHANGED <<cat, compiled, groups, have, gone, node, history>>

(* A failure in the middle leaves what was installed; the client's own      *)
(* uninstall of a bundle.                                                   *)
SetupFails(d) ==
    /\ Walking(d) /\ Stop(d) /\ UNCHANGED <<cat, compiled, groups, have, gone, node, history>>

Uninstall(d, b) ==
    /\ uninstalls < MaxUninstalls /\ uninstalls' = uninstalls + 1
    /\ b \in Listed(d) /\ (Role[d] = "owner" \/ Converged(d))
    /\ gone' = [gone EXCEPT ![d][b] = have[d][b]]
    /\ UNCHANGED <<cat, compiled, groups, have, node, setup, blind, setups>>

Sync(d) ==
    LET newer(f, g) == [b \in Bundles |-> IF f[b] > g[b] THEN f[b] ELSE g[b]]
        h == newer(have[d], node.have)
        g == newer(gone[d], node.gone)
    IN /\ <<have[d], gone[d], node>> # <<h, g, [have |-> h, gone |-> g]>>
       /\ node' = [have |-> h, gone |-> g]
       /\ have' = [have EXCEPT ![d] = h] /\ gone' = [gone EXCEPT ![d] = g]
       /\ UNCHANGED <<cat, compiled, groups, setup, history>>

Next ==
    \/ Compile
    \/ \E d \in Devices :
        \/ (\E u \in Usecases : SetupUsecase(d, u))
        \/ (\E expired \in BOOLEAN : SetupWait(d, expired))
        \/ Adopt(d) \/ (\E w \in {"converged", "expired"} : Install(d, w))
        \/ SetupDone(d) \/ SetupFails(d) \/ Sync(d)
        \/ \E b \in Bundles : Uninstall(d, b)

Spec == Init /\ [][Next]_vars

-----------------------------------------------------------------------------
Everywhere ==
    {b \in Bundles : (\E d \in Devices : have[d][b] > 0) /\ \A d \in Devices : b \in Listed(d) \/ gone[d][b] = 0}

(* Of an accepted catalog, the order sets a usecase up after everything it  *)
(* requires and nothing else, and the groups are the components of the      *)
(* supersedes edges.                                                        *)
OrderSound ==
    compiled = "ok" /\ setups = 0 =>
    LET needs == [e \in Usecases \X Usecases |-> e[2] \in cat.req[e[1]]]
        reach == TransitiveClosure(needs, Usecases)
        tied == [e \in Bundles \X Bundles |-> SharesHandle(cat, e[1], e[2])]
        group == TransitiveClosure(tied, Bundles)
    IN /\ \A u \in Usecases : LET o == Order(cat, u) IN
            /\ Range(o) = {u} \cup {v \in Usecases : reach[u, v]}
            /\ \A i, j \in DOMAIN o : reach[o[i], o[j]] => j < i
       /\ \A b \in Bundles : Group(b) = {q \in Bundles : group[b, q]}

(* "the two shapes never meet in a space" (catalog.go:131): two bundles     *)
(* that share a handle are both installed only where the owner went on past *)
(* an expired wait, or one of the old shape was uninstalled.                *)
ShapesApart ==
    compiled = "ok" =>
    \A a, b \in Everywhere :
        a # b /\ cat.key[a] = cat.key[b] /\ cat.key[a] # NoHandle => blind \/ uninstalls > 0
=============================================================================
