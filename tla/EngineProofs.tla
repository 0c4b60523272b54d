---------------------------- MODULE EngineProofs ----------------------------
(* The engine lifecycle keeps its promises for every number of accounts,    *)
(* requests, auth handlers and engines: one lemma per action for the        *)
(* inductive invariant, the safety properties it implies, an honest exit    *)
(* and honest close reasons, and that Engine implements Sessions.  The last *)
(* parts are about the space list an engine serves and its boot pass warms, *)
(* the bundles installed in a space, and the configuration of a boot.       *)
EXTENDS Engine, Spaces, Bundles, Config, TLAPS, FiniteSetTheorems

\* Engine numbers and the nil pointer.
LEMMA EngineSets ==
    /\ 0 \in EngineOrNil /\ 0 \notin Engines
    /\ \A e \in EngineOrNil : e # 0 => e \in Engines
    /\ \A e \in Engines : e \in EngineOrNil
BY ConstantsAssumption DEF Engines, EngineOrNil

\* A generation whose counter reached zero has nobody inside.
LEMMA DrainedEmpty ==
    ASSUME CountInv, NEW g \in EngineOrNil, gateN[g] = 0 PROVE InUse(g) = {}
BY ConstantsAssumption, FS_Subset, FS_EmptySet DEF CountInv, InUse

\* gate.leave takes the request off the generation that counted it.
LEMMA LeaveCounted ==
    ASSUME TypeOK, CountInv, NEW r \in Requests, rpc[r] = "in", GateLeave(r)
    PROVE  gateN[rgen[r]] > 0 /\ CountInv'
<1>1. \A g \in EngineOrNil : IsFiniteSet(InUse(g))
    BY ConstantsAssumption, FS_Subset DEF InUse
<1>2. r \in InUse(rgen[r]) /\ rgen[r] \in EngineOrNil
    BY DEF InUse, TypeOK
<1>3. Cardinality(InUse(rgen[r])) # 0
    BY <1>1, <1>2, FS_EmptySet
<1>4. gateN[rgen[r]] > 0
    BY <1>2, <1>3 DEF CountInv, TypeOK
<1>5. ASSUME NEW g \in EngineOrNil PROVE gateN'[g] = Cardinality(InUse(g)')
    <2>1. CASE g = rgen[r]
        <3>1. InUse(g)' = InUse(g) \ {r}
            BY <1>2, <2>1, EngineSets DEF GateLeave, InUse, TypeOK
        <3>2. Cardinality(InUse(g) \ {r}) = Cardinality(InUse(g)) - 1
            BY <1>1, <1>2, <2>1, FS_RemoveElement
        <3>3. gateN'[g] = gateN[g] - 1
            BY <2>1 DEF GateLeave, TypeOK
        <3>4. QED BY <3>1, <3>2, <3>3 DEF CountInv
    <2>2. CASE g # rgen[r]
        <3>1. InUse(g)' = InUse(g)
            BY <2>2 DEF GateLeave, InUse, TypeOK
        <3>2. gateN'[g] = gateN[g]
            BY <2>2 DEF GateLeave, TypeOK
        <3>3. QED BY <3>1, <3>2 DEF CountInv
    <2>3. QED BY <2>1, <2>2
<1>6. QED BY <1>4, <1>5 DEF CountInv

\* What an operation knows of its engine outlasts a step of a request that
\* takes nobody into a gate.
LEMMA OpsKept ==
    ASSUME OpsInv, \A g : InUse(g)' \subseteq InUse(g),
           UNCHANGED <<eng, fields, cur, gateClosed, engineVars, dirVars, opVars>>
    PROVE  OpsInv'
<1>1. Down' = Down /\ \A e : Serving(e)' = Serving(e)
    BY DEF Down, Serving, engineVars
<1>2. Stable' = Stable
    BY <1>1 DEF Stable
<1>3. \A e : (InUse(e) = {} => InUse(e)' = {}) /\ (Young(e) => Young(e)')
    BY DEF Young, engineVars
<1>4. ASSUME NEW p \in Procs PROVE OpInv(p)'
    <2>1. OpInv(p)
        BY DEF OpsInv
    <2>2. QED BY <1>1, <1>2, <1>3, <2>1 DEF OpInv, engineVars, dirVars, opVars
<1>5. QED BY <1>2, <1>4 DEF OpsInv, opVars

LEMMA ReadReadyStep == ASSUME IInv, NEW r \in Requests, ReadReady(r) PROVE IInv'
<1> USE ConstantsAssumption, EngineSets DEF IInv, ReadReady, depsVars, engineVars, dirVars, opVars, reqVars
<1>1. TypeOK'
    BY DEF TypeOK, PCs, TeardownPCs, BootPCs, Procs, AuthKinds, Reasons
<1>2. CountInv'
    BY DEF CountInv, InUse
<1>3. FreshInv'
    BY DEF FreshInv, InUse, MuInv, OpsInv, OpInv, Serving, Down, Stable, Young, TypeOK, PCs,
           TeardownPCs, BootPCs, Procs, AuthKinds, Reasons
<1>4. OpsInv'
    BY OpsKept DEF InUse
<1>5. GateInv'
    BY DEF GateInv, OpsInv, OpInv, MuInv, Stable, Down, Serving, Young, TypeOK, PCs,
           TeardownPCs, BootPCs, Procs, AuthKinds, Reasons
<1>6. JanitorInv'
    BY DEF JanitorInv, InUse, OpsInv, OpInv, MuInv, Stable, Down, Serving, Young, TypeOK,
           PCs, TeardownPCs, BootPCs, Procs, AuthKinds, Reasons
<1>7. NeverClosedUnderneath'
    BY DEF NeverClosedUnderneath, InGate, InUse, GateInv, JanitorInv, OpsInv, OpInv,
           Serving, Young, TypeOK, PCs, TeardownPCs, BootPCs, Procs, AuthKinds, Reasons
<1>8. SeesOneEngine'
    BY DEF SeesOneEngine, GateInv, NeverClosedUnderneath, InGate, Abandoned, InUse, OpsInv,
           OpInv, Serving, Young, Down, TypeOK, PCs, TeardownPCs, BootPCs, Procs, AuthKinds,
           Reasons
<1>9. MuInv' /\ DirInv' /\ LockInv' /\ WorkInv'
    BY DEF MuInv, DirInv, Alive, JanitorActive, LockInv, WorkInv
<1>10. QED BY <1>1, <1>2, <1>3, <1>4, <1>5, <1>6, <1>7, <1>8, <1>9

LEMMA EnterStep == ASSUME IInv, NEW r \in Requests, Enter(r) PROVE IInv'
<1> USE ConstantsAssumption, EngineSets DEF IInv, Enter, depsVars, engineVars, dirVars, opVars, reqVars
<1>1. TypeOK'
    BY DEF TypeOK, PCs, TeardownPCs, BootPCs, Procs, AuthKinds, Reasons
<1>2. CountInv'
    <2> SUFFICES ASSUME NEW g \in EngineOrNil PROVE gateN'[g] = Cardinality(InUse(g)')
        BY DEF CountInv
    <2>1. IsFiniteSet(InUse(g)) /\ r \notin InUse(g)
        BY FS_Subset DEF InUse
    <2>2. CASE g = cur
        <3>1. InUse(g)' = InUse(g) \cup {r}
            BY <2>2 DEF InUse, TypeOK
        <3>2. Cardinality(InUse(g) \cup {r}) = Cardinality(InUse(g)) + 1
            BY <2>1, FS_AddElement
        <3>3. gateN'[g] = gateN[g] + 1
            BY <2>2 DEF TypeOK
        <3>4. QED BY <3>1, <3>2, <3>3 DEF CountInv
    <2>3. CASE g # cur
        <3>1. InUse(g)' = InUse(g)
            BY <2>3 DEF InUse, TypeOK
        <3>2. gateN'[g] = gateN[g]
            BY <2>3 DEF TypeOK
        <3>3. QED BY <3>1, <3>2 DEF CountInv
    <2>4. QED BY <2>2, <2>3
<1>3. FreshInv'
    BY DEF FreshInv, InUse, MuInv, OpsInv, OpInv, Serving, Down, Stable, Young, TypeOK, PCs,
           TeardownPCs, BootPCs, Procs, AuthKinds, Reasons
<1>4. OpsInv'
    BY DEF OpsInv, OpInv, MuInv, Stable, Down, Serving, Young, InUse, TypeOK, PCs,
           TeardownPCs, BootPCs, Procs, AuthKinds, Reasons
<1>5. GateInv'
    BY DEF GateInv, OpsInv, OpInv, MuInv, Stable, Down, Serving, Young, TypeOK, PCs,
           TeardownPCs, BootPCs, Procs, AuthKinds, Reasons
<1>6. JanitorInv'
    BY DEF JanitorInv, InUse, OpsInv, OpInv, MuInv, Stable, Down, Serving, Young, TypeOK,
           PCs, TeardownPCs, BootPCs, Procs, AuthKinds, Reasons
<1>7. NeverClosedUnderneath'
    BY DEF NeverClosedUnderneath, InGate, InUse, GateInv, JanitorInv, OpsInv, OpInv,
           Serving, Young, TypeOK, PCs, TeardownPCs, BootPCs, Procs, AuthKinds, Reasons
<1>8. SeesOneEngine'
    BY DEF SeesOneEngine, GateInv, NeverClosedUnderneath, InGate, Abandoned, InUse, OpsInv,
           OpInv, Serving, Young, Down, TypeOK, PCs, TeardownPCs, BootPCs, Procs, AuthKinds,
           Reasons
<1>9. MuInv' /\ DirInv' /\ LockInv' /\ WorkInv'
    BY DEF MuInv, DirInv, Alive, JanitorActive, LockInv, WorkInv
<1>10. QED BY <1>1, <1>2, <1>3, <1>4, <1>5, <1>6, <1>7, <1>8, <1>9

LEMMA EnterRefusedStep == ASSUME IInv, NEW r \in Requests, EnterRefused(r) PROVE IInv'
<1> USE ConstantsAssumption, EngineSets DEF IInv, EnterRefused, depsVars, engineVars, dirVars, opVars, reqVars
<1>1. TypeOK'
    BY DEF TypeOK, PCs, TeardownPCs, BootPCs, Procs, AuthKinds, Reasons
<1>2. CountInv'
    BY DEF CountInv, InUse
<1>3. FreshInv'
    BY DEF FreshInv, InUse, MuInv, OpsInv, OpInv, Serving, Down, Stable, Young, TypeOK, PCs,
           TeardownPCs, BootPCs, Procs, AuthKinds, Reasons
<1>4. OpsInv'
    BY OpsKept DEF InUse
<1>5. GateInv'
    BY DEF GateInv, OpsInv, OpInv, MuInv, Stable, Down, Serving, Young, TypeOK, PCs,
           TeardownPCs, BootPCs, Procs, AuthKinds, Reasons
<1>6. JanitorInv'
    BY DEF JanitorInv, InUse, OpsInv, OpInv, MuInv, Stable, Down, Serving, Young, TypeOK,
           PCs, TeardownPCs, BootPCs, Procs, AuthKinds, Reasons
<1>7. NeverClosedUnderneath'
    BY DEF NeverClosedUnderneath, InGate, InUse, GateInv, JanitorInv, OpsInv, OpInv,
           Serving, Young, TypeOK, PCs, TeardownPCs, BootPCs, Procs, AuthKinds, Reasons
<1>8. SeesOneEngine'
    BY DEF SeesOneEngine, GateInv, NeverClosedUnderneath, InGate, Abandoned, InUse, OpsInv,
           OpInv, Serving, Young, Down, TypeOK, PCs, TeardownPCs, BootPCs, Procs, AuthKinds,
           Reasons
<1>9. MuInv' /\ DirInv' /\ LockInv' /\ WorkInv'
    BY DEF MuInv, DirInv, Alive, JanitorActive, LockInv, WorkInv
<1>10. QED BY <1>1, <1>2, <1>3, <1>4, <1>5, <1>6, <1>7, <1>8, <1>9

LEMMA LeaveStep == ASSUME IInv, NEW r \in Requests, Leave(r) PROVE IInv'
<1> USE ConstantsAssumption, EngineSets DEF IInv, Leave, GateLeave, depsVars, engineVars, dirVars, opVars, reqVars
<1>1. TypeOK'
    <2>1. gateN[rgen[r]] > 0
        BY LeaveCounted
    <2>2. gateN' \in [EngineOrNil -> Nat]
        BY <2>1 DEF TypeOK
    <2>3. QED BY <2>2 DEF TypeOK
<1>2. CountInv'
    BY LeaveCounted
<1>3. FreshInv'
    BY DEF FreshInv, InUse, MuInv, OpsInv, OpInv, Serving, Down, Stable, Young, TypeOK, PCs,
           TeardownPCs, BootPCs, Procs, AuthKinds, Reasons
<1>4. OpsInv'
    BY OpsKept DEF InUse, GateLeave, TypeOK
<1>5. GateInv'
    BY DEF GateInv, OpsInv, OpInv, MuInv, Stable, Down, Serving, Young, TypeOK, PCs,
           TeardownPCs, BootPCs, Procs, AuthKinds, Reasons
<1>6. JanitorInv'
    BY DEF JanitorInv, InUse, OpsInv, OpInv, MuInv, Stable, Down, Serving, Young, TypeOK,
           PCs, TeardownPCs, BootPCs, Procs, AuthKinds, Reasons
<1>7. NeverClosedUnderneath'
    BY DEF NeverClosedUnderneath, InGate, InUse, GateInv, JanitorInv, OpsInv, OpInv,
           Serving, Young, TypeOK, PCs, TeardownPCs, BootPCs, Procs, AuthKinds, Reasons
<1>8. SeesOneEngine'
    BY DEF SeesOneEngine, GateInv, NeverClosedUnderneath, InGate, Abandoned, InUse, OpsInv,
           OpInv, Serving, Young, Down, TypeOK, PCs, TeardownPCs, BootPCs, Procs, AuthKinds,
           Reasons
<1>9. MuInv' /\ DirInv' /\ LockInv' /\ WorkInv'
    BY DEF MuInv, DirInv, Alive, JanitorActive, LockInv, WorkInv
<1>10. QED BY <1>1, <1>2, <1>3, <1>4, <1>5, <1>6, <1>7, <1>8, <1>9

LEMMA StreamFinishStep == ASSUME IInv, NEW r \in Requests, StreamFinish(r) PROVE IInv'
<1> USE ConstantsAssumption, EngineSets DEF IInv, StreamFinish, GateLeave, depsVars, engineVars, dirVars, opVars, reqVars
<1>1. TypeOK'
    <2>1. gateN[rgen[r]] > 0
        BY LeaveCounted
    <2>2. gateN' \in [EngineOrNil -> Nat]
        BY <2>1 DEF TypeOK
    <2>3. QED BY <2>2 DEF TypeOK, Reasons
<1>2. CountInv'
    BY LeaveCounted
<1>3. FreshInv'
    BY DEF FreshInv, InUse, MuInv, OpsInv, OpInv, Serving, Down, Stable, Young, TypeOK, PCs,
           TeardownPCs, BootPCs, Procs, AuthKinds, Reasons
<1>4. OpsInv'
    BY OpsKept DEF InUse, GateLeave, TypeOK
<1>5. GateInv'
    BY DEF GateInv, OpsInv, OpInv, MuInv, Stable, Down, Serving, Young, TypeOK, PCs,
           TeardownPCs, BootPCs, Procs, AuthKinds, Reasons
<1>6. JanitorInv'
    BY DEF JanitorInv, InUse, OpsInv, OpInv, MuInv, Stable, Down, Serving, Young, TypeOK,
           PCs, TeardownPCs, BootPCs, Procs, AuthKinds, Reasons
<1>7. NeverClosedUnderneath'
    BY DEF NeverClosedUnderneath, InGate, InUse, GateInv, JanitorInv, OpsInv, OpInv,
           Serving, Young, TypeOK, PCs, TeardownPCs, BootPCs, Procs, AuthKinds, Reasons
<1>8. SeesOneEngine'
    BY DEF SeesOneEngine, GateInv, NeverClosedUnderneath, InGate, Abandoned, InUse, OpsInv,
           OpInv, Serving, Young, Down, TypeOK, PCs, TeardownPCs, BootPCs, Procs, AuthKinds,
           Reasons
<1>9. MuInv' /\ DirInv' /\ LockInv' /\ WorkInv'
    BY DEF MuInv, DirInv, Alive, JanitorActive, LockInv, WorkInv
<1>10. QED BY <1>1, <1>2, <1>3, <1>4, <1>5, <1>6, <1>7, <1>8, <1>9

LEMMA SpawnEngineStep == ASSUME IInv, NEW r \in Requests, SpawnEngine(r) PROVE IInv'
<1> USE ConstantsAssumption, EngineSets DEF IInv, SpawnEngine, depsVars, engineVars, dirVars, opVars, reqVars
<1>1. TypeOK'
    BY DEF TypeOK, PCs, TeardownPCs, BootPCs, Procs, AuthKinds, Reasons
<1>2. FreshInv'
    BY DEF FreshInv, InUse, MuInv, OpsInv, OpInv, Serving, Down, Stable, Young, TypeOK, PCs,
           TeardownPCs, BootPCs, Procs, AuthKinds, Reasons
<1>3. OpsInv'
    BY DEF OpsInv, OpInv, MuInv, Stable, Down, Serving, Young, InUse, TypeOK, PCs,
           TeardownPCs, BootPCs, Procs, AuthKinds, Reasons
<1>4. WorkInv'
    <2>1. /\ \A e \in Engines : foreign'[e] <=> foreign[e] \/ (e = eng /\ eng # rgen[r])
          /\ \A e \in Engines : e # eng => wg'[e] = wg[e]
        BY DEF TypeOK
    <2>2. ASSUME NEW e \in Engines, e = eng, rgen[r] = e
          PROVE  /\ sdk[e] # "closed" /\ janitor[e] # "sdk"
                 /\ \A p \in Procs : opEng[p] = e => pc[p] \notin {"td_sdk", "bf_sdk"}
        BY <2>2 DEF NeverClosedUnderneath, InGate, InUse, OpsInv, OpInv, JanitorInv, Young
    <2>3. QED BY <2>1, <2>2 DEF WorkInv
<1>5. MuInv' /\ CountInv' /\ GateInv' /\ JanitorInv' /\ NeverClosedUnderneath' /\ SeesOneEngine' /\ DirInv' /\ LockInv'
    BY DEF MuInv, CountInv, InUse, GateInv, Serving, JanitorInv, NeverClosedUnderneath,
           InGate, SeesOneEngine, Abandoned, DirInv, Alive, JanitorActive, LockInv
<1>6. QED BY <1>1, <1>2, <1>3, <1>4, <1>5

LEMMA WorkDoneStep == ASSUME IInv, NEW e \in Engines, WorkDone(e) PROVE IInv'
<1> USE ConstantsAssumption, EngineSets DEF IInv, WorkDone, depsVars, engineVars, dirVars, opVars, reqVars
<1>1. TypeOK'
    BY DEF TypeOK, PCs, TeardownPCs, BootPCs, Procs, AuthKinds, Reasons
<1>2. FreshInv'
    BY DEF FreshInv, InUse, MuInv, OpsInv, OpInv, Serving, Down, Stable, Young, TypeOK, PCs,
           TeardownPCs, BootPCs, Procs, AuthKinds, Reasons
<1>3. OpsInv'
    BY DEF OpsInv, OpInv, MuInv, Stable, Down, Serving, Young, InUse, TypeOK, PCs,
           TeardownPCs, BootPCs, Procs, AuthKinds, Reasons
<1>4. WorkInv'
    BY DEF WorkInv, OpsInv, OpInv, MuInv, JanitorInv, Serving, Young, Down, InUse, TypeOK,
           PCs, TeardownPCs, BootPCs, Procs, AuthKinds, Reasons
<1>5. MuInv' /\ CountInv' /\ GateInv' /\ JanitorInv' /\ NeverClosedUnderneath' /\ SeesOneEngine' /\ DirInv' /\ LockInv'
    BY DEF MuInv, CountInv, InUse, GateInv, Serving, JanitorInv, NeverClosedUnderneath,
           InGate, SeesOneEngine, Abandoned, DirInv, Alive, JanitorActive, LockInv
<1>6. QED BY <1>1, <1>2, <1>3, <1>4, <1>5

LEMMA AuthorizeStep == ASSUME IInv, NEW c \in Controllers, NEW a \in Accounts, NEW b \in BOOLEAN, Authorize(c, a, b) PROVE IInv'
<1> USE ConstantsAssumption, EngineSets DEF IInv, Authorize, Listening, depsVars, engineVars, dirVars, opVars, reqVars
<1>1. TypeOK'
    BY DEF TypeOK, PCs, TeardownPCs, BootPCs, Procs, AuthKinds, Reasons
<1>2. MuInv'
    BY DEF MuInv, OpsInv, OpInv, TypeOK, PCs, TeardownPCs, BootPCs, Procs, AuthKinds,
           Reasons
<1>3. OpsInv'
    BY DEF OpsInv, OpInv, MuInv, Stable, Down, Serving, Young, InUse, TypeOK, PCs,
           TeardownPCs, BootPCs, Procs, AuthKinds, Reasons
<1>4. LockInv'
    BY DEF LockInv, DirInv, Alive, JanitorActive, OpsInv, OpInv, MuInv, Serving, Young,
           Down, TypeOK, PCs, TeardownPCs, BootPCs, Procs, AuthKinds, Reasons
<1>5. WorkInv'
    BY DEF WorkInv, OpsInv, OpInv, MuInv, JanitorInv, Serving, Young, Down, InUse, TypeOK,
           PCs, TeardownPCs, BootPCs, Procs, AuthKinds, Reasons
<1>6. CountInv' /\ FreshInv' /\ GateInv' /\ JanitorInv' /\ NeverClosedUnderneath' /\ SeesOneEngine' /\ DirInv'
    BY DEF CountInv, InUse, FreshInv, GateInv, Serving, JanitorInv, NeverClosedUnderneath,
           InGate, SeesOneEngine, Abandoned, DirInv, Alive, JanitorActive
<1>7. QED BY <1>1, <1>2, <1>3, <1>4, <1>5, <1>6

LEMMA DeauthorizeStep == ASSUME IInv, NEW c \in Controllers, Deauthorize(c) PROVE IInv'
<1> USE ConstantsAssumption, EngineSets DEF IInv, Deauthorize, Listening, depsVars, engineVars, dirVars, opVars, reqVars
<1>1. TypeOK'
    BY DEF TypeOK, PCs, TeardownPCs, BootPCs, Procs, AuthKinds, Reasons
<1>2. MuInv'
    BY DEF MuInv, OpsInv, OpInv, TypeOK, PCs, TeardownPCs, BootPCs, Procs, AuthKinds,
           Reasons
<1>3. OpsInv'
    BY DEF OpsInv, OpInv, MuInv, Stable, Down, Serving, Young, InUse, TypeOK, PCs,
           TeardownPCs, BootPCs, Procs, AuthKinds, Reasons
<1>4. LockInv'
    BY DEF LockInv, DirInv, Alive, JanitorActive, OpsInv, OpInv, MuInv, Serving, Young,
           Down, TypeOK, PCs, TeardownPCs, BootPCs, Procs, AuthKinds, Reasons
<1>5. WorkInv'
    BY DEF WorkInv, OpsInv, OpInv, MuInv, JanitorInv, Serving, Young, Down, InUse, TypeOK,
           PCs, TeardownPCs, BootPCs, Procs, AuthKinds, Reasons
<1>6. CountInv' /\ FreshInv' /\ GateInv' /\ JanitorInv' /\ NeverClosedUnderneath' /\ SeesOneEngine' /\ DirInv'
    BY DEF CountInv, InUse, FreshInv, GateInv, Serving, JanitorInv, NeverClosedUnderneath,
           InGate, SeesOneEngine, Abandoned, DirInv, Alive, JanitorActive
<1>7. QED BY <1>1, <1>2, <1>3, <1>4, <1>5, <1>6

LEMMA ShutdownStep == ASSUME IInv, Shutdown PROVE IInv'
<1> USE ConstantsAssumption, EngineSets DEF IInv, Shutdown, depsVars, engineVars, dirVars, opVars, reqVars
<1>1. TypeOK'
    BY DEF TypeOK, PCs, TeardownPCs, BootPCs, Procs, AuthKinds, Reasons
<1>2. MuInv'
    BY DEF MuInv, OpsInv, OpInv, TypeOK, PCs, TeardownPCs, BootPCs, Procs, AuthKinds,
           Reasons
<1>3. OpsInv'
    BY DEF OpsInv, OpInv, MuInv, Stable, Down, Serving, Young, InUse, TypeOK, PCs,
           TeardownPCs, BootPCs, Procs, AuthKinds, Reasons
<1>4. LockInv'
    BY DEF LockInv, DirInv, Alive, JanitorActive, OpsInv, OpInv, MuInv, Serving, Young,
           Down, TypeOK, PCs, TeardownPCs, BootPCs, Procs, AuthKinds, Reasons
<1>5. WorkInv'
    BY DEF WorkInv, OpsInv, OpInv, MuInv, JanitorInv, Serving, Young, Down, InUse, TypeOK,
           PCs, TeardownPCs, BootPCs, Procs, AuthKinds, Reasons
<1>6. CountInv' /\ FreshInv' /\ GateInv' /\ JanitorInv' /\ NeverClosedUnderneath' /\ SeesOneEngine' /\ DirInv'
    BY DEF CountInv, InUse, FreshInv, GateInv, Serving, JanitorInv, NeverClosedUnderneath,
           InGate, SeesOneEngine, Abandoned, DirInv, Alive, JanitorActive
<1>7. QED BY <1>1, <1>2, <1>3, <1>4, <1>5, <1>6

LEMMA HttpShutdownStep == ASSUME IInv, HttpShutdown PROVE IInv'
<1> USE ConstantsAssumption, EngineSets DEF IInv, HttpShutdown, depsVars, engineVars, dirVars, opVars, reqVars
<1>1. TypeOK'
    BY DEF TypeOK, PCs, TeardownPCs, BootPCs, Procs, AuthKinds, Reasons
<1>2. MuInv'
    BY DEF MuInv, OpsInv, OpInv, TypeOK, PCs, TeardownPCs, BootPCs, Procs, AuthKinds,
           Reasons
<1>3. OpsInv'
    BY DEF OpsInv, OpInv, MuInv, Stable, Down, Serving, Young, InUse, TypeOK, PCs,
           TeardownPCs, BootPCs, Procs, AuthKinds, Reasons
<1>4. LockInv'
    BY DEF LockInv, DirInv, Alive, JanitorActive, OpsInv, OpInv, MuInv, Serving, Young,
           Down, TypeOK, PCs, TeardownPCs, BootPCs, Procs, AuthKinds, Reasons
<1>5. WorkInv'
    BY DEF WorkInv, OpsInv, OpInv, MuInv, JanitorInv, Serving, Young, Down, InUse, TypeOK,
           PCs, TeardownPCs, BootPCs, Procs, AuthKinds, Reasons
<1>6. CountInv' /\ FreshInv' /\ GateInv' /\ JanitorInv' /\ NeverClosedUnderneath' /\ SeesOneEngine' /\ DirInv'
    BY DEF CountInv, InUse, FreshInv, GateInv, Serving, JanitorInv, NeverClosedUnderneath,
           InGate, SeesOneEngine, Abandoned, DirInv, Alive, JanitorActive
<1>7. QED BY <1>1, <1>2, <1>3, <1>4, <1>5, <1>6

LEMMA LockAuthStep == ASSUME IInv, NEW p \in Procs, LockAuth(p) PROVE IInv'
<1> USE ConstantsAssumption, EngineSets DEF IInv, LockAuth, AfterTeardown, depsVars, engineVars, dirVars, opVars, reqVars
<1>1. TypeOK'
    BY DEF TypeOK, PCs, TeardownPCs, BootPCs, Procs, AuthKinds, Reasons
<1>2. MuInv'
    BY DEF MuInv, OpsInv, OpInv, TypeOK, PCs, TeardownPCs, BootPCs, Procs, AuthKinds,
           Reasons
<1>3. FreshInv'
    BY DEF FreshInv, InUse, MuInv, OpsInv, OpInv, Serving, Down, Stable, Young, TypeOK, PCs,
           TeardownPCs, BootPCs, Procs, AuthKinds, Reasons
<1>4. OpsInv'
    <2>1. Stable /\ \A q \in Procs : opEng[q] = 0 /\ pc[q] \notin TeardownPCs \cup BootPCs
        BY DEF OpsInv, MuInv, Procs
    <2>2. Stable' /\ (\A e \in Engines : Serving(e)' <=> Serving(e))
        BY <2>1 DEF Stable, Down, Serving
    <2>3. kind'[Main] \notin AuthKinds
        BY DEF OpsInv
    <2>4. ASSUME NEW q \in Procs, q # p PROVE OpInv(q)'
        BY <2>1, <2>4 DEF OpsInv, OpInv, TypeOK, TeardownPCs, BootPCs
    <2>5. \/ pc'[p] \in {"idle", "http", "exited"}
          \/ pc'[p] = "bt_decide" /\ kind[p] \in {"boot", "switch"} /\ opEng'[p] = 0
          \/ pc'[p] = "td_ready" /\ eng # 0 /\ opEng'[p] = eng /\ kind[p] # "boot"
        BY DEF TypeOK, AuthKinds
    <2>6. pc'[p] \in TeardownPCs \cup BootPCs => target'[p] = target[p]
        BY DEF TypeOK, TeardownPCs, BootPCs
    <2>7. OpInv(p)'
        <3>1. CASE pc'[p] \in {"idle", "http", "exited"}
            BY <3>1 DEF OpInv, TeardownPCs, BootPCs
        <3>2. CASE pc'[p] = "bt_decide" /\ kind[p] \in {"boot", "switch"} /\ opEng'[p] = 0
            BY <2>2, <2>6, <3>2 DEF OpInv, OpsInv, TeardownPCs, BootPCs
        <3>3. CASE pc'[p] = "td_ready" /\ eng # 0 /\ opEng'[p] = eng /\ kind[p] # "boot"
            <4>1. Serving(eng) /\ ~gateClosed[eng] /\ eng \in Engines
                BY <2>1, <3>3 DEF Stable, Down, Serving, TypeOK
            <4>2. Serving(opEng[p])' /\ ~gateClosed'[opEng'[p]]
                BY <3>3, <4>1 DEF Serving
            <4>3. QED BY <2>6, <3>3, <4>1, <4>2 DEF OpInv, OpsInv, TeardownPCs, BootPCs
        <3>4. QED BY <2>5, <3>1, <3>2, <3>3
    <2>8. QED BY <2>2, <2>3, <2>4, <2>7 DEF OpsInv
<1>5. JanitorInv'
    BY DEF JanitorInv, InUse, OpsInv, OpInv, MuInv, Stable, Down, Serving, Young, TypeOK,
           PCs, TeardownPCs, BootPCs, Procs, AuthKinds, Reasons
<1>6. DirInv'
    BY DEF DirInv, Alive, JanitorActive, OpsInv, OpInv, MuInv, JanitorInv, FreshInv, Stable,
           Serving, Young, Down, TypeOK, PCs, TeardownPCs, BootPCs, Procs, AuthKinds,
           Reasons
<1>7. LockInv'
    BY DEF LockInv, DirInv, Alive, JanitorActive, OpsInv, OpInv, MuInv, Serving, Young,
           Down, TypeOK, PCs, TeardownPCs, BootPCs, Procs, AuthKinds, Reasons
<1>8. WorkInv'
    BY DEF WorkInv, OpsInv, OpInv, MuInv, JanitorInv, Serving, Young, Down, InUse, TypeOK,
           PCs, TeardownPCs, BootPCs, Procs, AuthKinds, Reasons
<1>9. CountInv' /\ GateInv' /\ NeverClosedUnderneath' /\ SeesOneEngine'
    BY DEF CountInv, InUse, GateInv, Serving, NeverClosedUnderneath, InGate, SeesOneEngine,
           Abandoned
<1>10. QED BY <1>1, <1>2, <1>3, <1>4, <1>5, <1>6, <1>7, <1>8, <1>9

LEMMA TdReadyStep == ASSUME IInv, NEW p \in Procs, TdReady(p) PROVE IInv'
<1> USE ConstantsAssumption, EngineSets DEF IInv, TdReady, Goto, depsVars, engineVars, dirVars, opVars, reqVars
<1>1. TypeOK'
    BY DEF TypeOK, PCs, TeardownPCs, BootPCs, Procs, AuthKinds, Reasons
<1>2. MuInv'
    BY DEF MuInv, OpsInv, OpInv, TypeOK, PCs, TeardownPCs, BootPCs, Procs, AuthKinds,
           Reasons
<1>3. OpsInv'
    BY DEF OpsInv, OpInv, MuInv, Stable, Down, Serving, Young, InUse, TypeOK, PCs,
           TeardownPCs, BootPCs, Procs, AuthKinds, Reasons
<1>4. GateInv'
    BY DEF GateInv, OpsInv, OpInv, MuInv, Stable, Down, Serving, Young, TypeOK, PCs,
           TeardownPCs, BootPCs, Procs, AuthKinds, Reasons
<1>5. LockInv'
    BY DEF LockInv, DirInv, Alive, JanitorActive, OpsInv, OpInv, MuInv, Serving, Young,
           Down, TypeOK, PCs, TeardownPCs, BootPCs, Procs, AuthKinds, Reasons
<1>6. WorkInv'
    BY DEF WorkInv, OpsInv, OpInv, MuInv, JanitorInv, Serving, Young, Down, InUse, TypeOK,
           PCs, TeardownPCs, BootPCs, Procs, AuthKinds, Reasons
<1>7. CountInv' /\ FreshInv' /\ JanitorInv' /\ NeverClosedUnderneath' /\ SeesOneEngine' /\ DirInv'
    BY DEF CountInv, InUse, FreshInv, JanitorInv, NeverClosedUnderneath, InGate,
           SeesOneEngine, GateInv, Abandoned, DirInv, Alive, JanitorActive
<1>8. QED BY <1>1, <1>2, <1>3, <1>4, <1>5, <1>6, <1>7

LEMMA TdReasonStep == ASSUME IInv, NEW p \in Procs, TdReason(p) PROVE IInv'
<1> USE ConstantsAssumption, EngineSets DEF IInv, TdReason, Goto, depsVars, engineVars, dirVars, opVars, reqVars
<1>1. TypeOK'
    BY DEF ReasonOf, TypeOK, PCs, TeardownPCs, BootPCs, Procs, AuthKinds, Reasons
<1>2. MuInv'
    BY DEF MuInv, OpsInv, OpInv, TypeOK, PCs, TeardownPCs, BootPCs, Procs, AuthKinds,
           Reasons
<1>3. OpsInv'
    BY DEF OpsInv, OpInv, MuInv, Stable, Down, Serving, Young, InUse, TypeOK, PCs,
           TeardownPCs, BootPCs, Procs, AuthKinds, Reasons
<1>4. LockInv'
    BY DEF LockInv, DirInv, Alive, JanitorActive, OpsInv, OpInv, MuInv, Serving, Young,
           Down, TypeOK, PCs, TeardownPCs, BootPCs, Procs, AuthKinds, Reasons
<1>5. WorkInv'
    BY DEF WorkInv, OpsInv, OpInv, MuInv, JanitorInv, Serving, Young, Down, InUse, TypeOK,
           PCs, TeardownPCs, BootPCs, Procs, AuthKinds, Reasons
<1>6. CountInv' /\ FreshInv' /\ GateInv' /\ JanitorInv' /\ NeverClosedUnderneath' /\ SeesOneEngine' /\ DirInv'
    BY DEF CountInv, InUse, FreshInv, GateInv, Serving, JanitorInv, NeverClosedUnderneath,
           InGate, SeesOneEngine, Abandoned, DirInv, Alive, JanitorActive
<1>7. QED BY <1>1, <1>2, <1>3, <1>4, <1>5, <1>6

LEMMA TdCancelStep == ASSUME IInv, NEW p \in Procs, TdCancel(p) PROVE IInv'
<1> USE ConstantsAssumption, EngineSets DEF IInv, TdCancel, Goto, depsVars, engineVars, dirVars, opVars, reqVars
<1>1. TypeOK'
    BY DEF TypeOK, PCs, TeardownPCs, BootPCs, Procs, AuthKinds, Reasons
<1>2. MuInv'
    BY DEF MuInv, OpsInv, OpInv, TypeOK, PCs, TeardownPCs, BootPCs, Procs, AuthKinds,
           Reasons
<1>3. OpsInv'
    BY DEF OpsInv, OpInv, MuInv, Stable, Down, Serving, Young, InUse, TypeOK, PCs,
           TeardownPCs, BootPCs, Procs, AuthKinds, Reasons
<1>4. LockInv'
    BY DEF LockInv, DirInv, Alive, JanitorActive, OpsInv, OpInv, MuInv, Serving, Young,
           Down, TypeOK, PCs, TeardownPCs, BootPCs, Procs, AuthKinds, Reasons
<1>5. WorkInv'
    BY DEF WorkInv, OpsInv, OpInv, MuInv, JanitorInv, Serving, Young, Down, InUse, TypeOK,
           PCs, TeardownPCs, BootPCs, Procs, AuthKinds, Reasons
<1>6. CountInv' /\ FreshInv' /\ GateInv' /\ JanitorInv' /\ NeverClosedUnderneath' /\ SeesOneEngine' /\ DirInv'
    BY DEF CountInv, InUse, FreshInv, GateInv, Serving, JanitorInv, NeverClosedUnderneath,
           InGate, SeesOneEngine, Abandoned, DirInv, Alive, JanitorActive
<1>7. QED BY <1>1, <1>2, <1>3, <1>4, <1>5, <1>6

LEMMA TdCloseStep == ASSUME IInv, NEW p \in Procs, TdClose(p) PROVE IInv'
<1> USE ConstantsAssumption, EngineSets DEF IInv, TdClose, Goto, depsVars, engineVars, dirVars, opVars, reqVars
<1>1. TypeOK'
    BY DEF TypeOK, PCs, TeardownPCs, BootPCs, Procs, AuthKinds, Reasons
<1>2. MuInv'
    BY DEF MuInv, OpsInv, OpInv, TypeOK, PCs, TeardownPCs, BootPCs, Procs, AuthKinds,
           Reasons
<1>3. FreshInv'
    BY DEF FreshInv, InUse, MuInv, OpsInv, OpInv, Serving, Down, Stable, Young, TypeOK, PCs,
           TeardownPCs, BootPCs, Procs, AuthKinds, Reasons
<1>4. OpsInv'
    BY DEF OpsInv, OpInv, MuInv, Stable, Down, Serving, Young, InUse, TypeOK, PCs,
           TeardownPCs, BootPCs, Procs, AuthKinds, Reasons
<1>5. GateInv'
    BY DEF GateInv, OpsInv, OpInv, MuInv, Stable, Down, Serving, Young, TypeOK, PCs,
           TeardownPCs, BootPCs, Procs, AuthKinds, Reasons
<1>6. JanitorInv'
    BY DEF JanitorInv, InUse, OpsInv, OpInv, MuInv, Stable, Down, Serving, Young, TypeOK,
           PCs, TeardownPCs, BootPCs, Procs, AuthKinds, Reasons
<1>7. LockInv'
    BY DEF LockInv, DirInv, Alive, JanitorActive, OpsInv, OpInv, MuInv, Serving, Young,
           Down, TypeOK, PCs, TeardownPCs, BootPCs, Procs, AuthKinds, Reasons
<1>8. WorkInv'
    BY DEF WorkInv, OpsInv, OpInv, MuInv, JanitorInv, Serving, Young, Down, InUse, TypeOK,
           PCs, TeardownPCs, BootPCs, Procs, AuthKinds, Reasons
<1>9. CountInv' /\ NeverClosedUnderneath' /\ SeesOneEngine' /\ DirInv'
    BY DEF CountInv, InUse, NeverClosedUnderneath, InGate, SeesOneEngine, GateInv,
           Abandoned, DirInv, Alive, JanitorActive
<1>10. QED BY <1>1, <1>2, <1>3, <1>4, <1>5, <1>6, <1>7, <1>8, <1>9

LEMMA TdDrainedStep == ASSUME IInv, NEW p \in Procs, TdDrained(p) PROVE IInv'
<1> USE ConstantsAssumption, EngineSets DEF IInv, TdDrained, Goto, Drained, depsVars, engineVars, dirVars, opVars, reqVars
<1>1. TypeOK'
    BY DEF TypeOK, PCs, TeardownPCs, BootPCs, Procs, AuthKinds, Reasons
<1>2. MuInv'
    BY DEF MuInv, OpsInv, OpInv, TypeOK, PCs, TeardownPCs, BootPCs, Procs, AuthKinds,
           Reasons
<1>3. OpsInv'
    <2>1. InUse(cur) = {}
        BY DrainedEmpty DEF TypeOK, Drained
    <2>2. QED
        BY <2>1 DEF OpsInv, OpInv, MuInv, Stable, Down, Serving, Young, InUse, TypeOK, PCs,
           TeardownPCs, BootPCs, Procs
<1>4. LockInv'
    BY DEF LockInv, DirInv, Alive, JanitorActive, OpsInv, OpInv, MuInv, Serving, Young,
           Down, TypeOK, PCs, TeardownPCs, BootPCs, Procs, AuthKinds, Reasons
<1>5. WorkInv'
    BY DEF WorkInv, OpsInv, OpInv, MuInv, JanitorInv, Serving, Young, Down, InUse, TypeOK,
           PCs, TeardownPCs, BootPCs, Procs, AuthKinds, Reasons
<1>6. CountInv' /\ FreshInv' /\ GateInv' /\ JanitorInv' /\ NeverClosedUnderneath' /\ SeesOneEngine' /\ DirInv'
    BY DEF CountInv, InUse, FreshInv, GateInv, Serving, JanitorInv, NeverClosedUnderneath,
           InGate, SeesOneEngine, Abandoned, DirInv, Alive, JanitorActive
<1>7. QED BY <1>1, <1>2, <1>3, <1>4, <1>5, <1>6

LEMMA TdTimeoutStep == ASSUME IInv, NEW p \in Procs, TdTimeout(p) PROVE IInv'
<1> USE ConstantsAssumption, EngineSets DEF IInv, TdTimeout, Goto, depsVars, engineVars, dirVars, opVars, reqVars
<1>1. TypeOK'
    BY DEF TypeOK, PCs, TeardownPCs, BootPCs, Procs, AuthKinds, Reasons
<1>2. MuInv'
    BY DEF MuInv, OpsInv, OpInv, TypeOK, PCs, TeardownPCs, BootPCs, Procs, AuthKinds,
           Reasons
<1>3. OpsInv'
    BY DEF OpsInv, OpInv, MuInv, Stable, Down, Serving, Young, InUse, TypeOK, PCs,
           TeardownPCs, BootPCs, Procs, AuthKinds, Reasons
<1>4. LockInv'
    BY DEF LockInv, DirInv, Alive, JanitorActive, OpsInv, OpInv, MuInv, Serving, Young,
           Down, TypeOK, PCs, TeardownPCs, BootPCs, Procs, AuthKinds, Reasons
<1>5. WorkInv'
    BY DEF WorkInv, OpsInv, OpInv, MuInv, JanitorInv, Serving, Young, Down, InUse, TypeOK,
           PCs, TeardownPCs, BootPCs, Procs, AuthKinds, Reasons
<1>6. CountInv' /\ FreshInv' /\ GateInv' /\ JanitorInv' /\ NeverClosedUnderneath' /\ SeesOneEngine' /\ DirInv'
    BY DEF CountInv, InUse, FreshInv, GateInv, Serving, JanitorInv, NeverClosedUnderneath,
           InGate, SeesOneEngine, Abandoned, DirInv, Alive, JanitorActive
<1>7. QED BY <1>1, <1>2, <1>3, <1>4, <1>5, <1>6

LEMMA TdJoinStep == ASSUME IInv, NEW p \in Procs, TdJoin(p) PROVE IInv'
<1> USE ConstantsAssumption, EngineSets DEF IInv, TdJoin, Goto, CloseJoin, depsVars, engineVars, dirVars, opVars, reqVars
<1>1. TypeOK'
    BY DEF TypeOK, PCs, TeardownPCs, BootPCs, Procs, AuthKinds, Reasons
<1>2. MuInv'
    BY DEF MuInv, OpsInv, OpInv, TypeOK, PCs, TeardownPCs, BootPCs, Procs, AuthKinds,
           Reasons
<1>3. OpsInv'
    BY DEF OpsInv, OpInv, MuInv, Stable, Down, Serving, Young, InUse, TypeOK, PCs,
           TeardownPCs, BootPCs, Procs, AuthKinds, Reasons
<1>4. LockInv'
    BY DEF LockInv, DirInv, Alive, JanitorActive, OpsInv, OpInv, MuInv, Serving, Young,
           Down, TypeOK, PCs, TeardownPCs, BootPCs, Procs, AuthKinds, Reasons
<1>5. WorkInv'
    BY DEF WorkInv, OpsInv, OpInv, MuInv, JanitorInv, Serving, Young, Down, InUse, TypeOK,
           PCs, TeardownPCs, BootPCs, Procs, AuthKinds, Reasons
<1>6. CountInv' /\ FreshInv' /\ GateInv' /\ JanitorInv' /\ NeverClosedUnderneath' /\ SeesOneEngine' /\ DirInv'
    BY DEF CountInv, InUse, FreshInv, GateInv, Serving, JanitorInv, NeverClosedUnderneath,
           InGate, SeesOneEngine, Abandoned, DirInv, Alive, JanitorActive
<1>7. QED BY <1>1, <1>2, <1>3, <1>4, <1>5, <1>6

LEMMA TdSDKStep == ASSUME IInv, NEW p \in Procs, TdSDK(p) PROVE IInv'
<1> USE ConstantsAssumption, EngineSets DEF IInv, TdSDK, Goto, CloseSDK, depsVars, engineVars, dirVars, opVars, reqVars
<1>1. TypeOK'
    BY DEF TypeOK, PCs, TeardownPCs, BootPCs, Procs, AuthKinds, Reasons
<1>2. MuInv'
    BY DEF MuInv, OpsInv, OpInv, TypeOK, PCs, TeardownPCs, BootPCs, Procs, AuthKinds,
           Reasons
<1>3. FreshInv'
    BY DEF FreshInv, InUse, MuInv, OpsInv, OpInv, Serving, Down, Stable, Young, TypeOK, PCs,
           TeardownPCs, BootPCs, Procs, AuthKinds, Reasons
<1>4. OpsInv'
    BY DEF OpsInv, OpInv, MuInv, Stable, Down, Serving, Young, InUse, TypeOK, PCs,
           TeardownPCs, BootPCs, Procs, AuthKinds, Reasons
<1>5. GateInv'
    BY DEF GateInv, OpsInv, OpInv, MuInv, Stable, Down, Serving, Young, TypeOK, PCs,
           TeardownPCs, BootPCs, Procs, AuthKinds, Reasons
<1>6. JanitorInv'
    BY DEF JanitorInv, InUse, OpsInv, OpInv, MuInv, Stable, Down, Serving, Young, TypeOK,
           PCs, TeardownPCs, BootPCs, Procs, AuthKinds, Reasons
<1>7. NeverClosedUnderneath'
    BY DEF NeverClosedUnderneath, InGate, InUse, GateInv, JanitorInv, OpsInv, OpInv,
           Serving, Young, TypeOK, PCs, TeardownPCs, BootPCs, Procs, AuthKinds, Reasons
<1>8. DirInv'
    BY DEF DirInv, Alive, JanitorActive, OpsInv, OpInv, MuInv, JanitorInv, FreshInv, Stable,
           Serving, Young, Down, TypeOK, PCs, TeardownPCs, BootPCs, Procs, AuthKinds,
           Reasons
<1>9. LockInv'
    BY DEF LockInv, DirInv, Alive, JanitorActive, OpsInv, OpInv, MuInv, Serving, Young,
           Down, TypeOK, PCs, TeardownPCs, BootPCs, Procs, AuthKinds, Reasons
<1>10. WorkInv'
    BY DEF WorkInv, OpsInv, OpInv, MuInv, JanitorInv, Serving, Young, Down, InUse, TypeOK,
           PCs, TeardownPCs, BootPCs, Procs, AuthKinds, Reasons
<1>11. CountInv' /\ SeesOneEngine'
    BY DEF CountInv, InUse, SeesOneEngine, GateInv, InGate, Abandoned
<1>12. QED BY <1>1, <1>2, <1>3, <1>4, <1>5, <1>6, <1>7, <1>8, <1>9, <1>10, <1>11

LEMMA TdUnlockStep == ASSUME IInv, NEW p \in Procs, TdUnlock(p) PROVE IInv'
<1> USE ConstantsAssumption, EngineSets DEF IInv, TdUnlock, Goto, LockRelease, depsVars, engineVars, dirVars, opVars, reqVars
<1>1. TypeOK'
    BY DEF TypeOK, PCs, TeardownPCs, BootPCs, Procs, AuthKinds, Reasons
<1>2. MuInv'
    BY DEF MuInv, OpsInv, OpInv, TypeOK, PCs, TeardownPCs, BootPCs, Procs, AuthKinds,
           Reasons
<1>3. OpsInv'
    BY DEF OpsInv, OpInv, MuInv, Stable, Down, Serving, Young, InUse, TypeOK, PCs,
           TeardownPCs, BootPCs, Procs, AuthKinds, Reasons
<1>4. LockInv'
    BY DEF LockInv, DirInv, Alive, JanitorActive, OpsInv, OpInv, MuInv, Serving, Young,
           Down, TypeOK, PCs, TeardownPCs, BootPCs, Procs, AuthKinds, Reasons
<1>5. WorkInv'
    BY DEF WorkInv, OpsInv, OpInv, MuInv, JanitorInv, Serving, Young, Down, InUse, TypeOK,
           PCs, TeardownPCs, BootPCs, Procs, AuthKinds, Reasons
<1>6. CountInv' /\ FreshInv' /\ GateInv' /\ JanitorInv' /\ NeverClosedUnderneath' /\ SeesOneEngine' /\ DirInv'
    BY DEF CountInv, InUse, FreshInv, GateInv, Serving, JanitorInv, NeverClosedUnderneath,
           InGate, SeesOneEngine, Abandoned, DirInv, Alive, JanitorActive
<1>7. QED BY <1>1, <1>2, <1>3, <1>4, <1>5, <1>6

LEMMA TdClearStep == ASSUME IInv, NEW p \in Procs, TdClear(p) PROVE IInv'
<1> USE ConstantsAssumption, EngineSets DEF IInv, TdClear, Goto, AfterTeardown, depsVars, engineVars, dirVars, opVars, reqVars
<1>1. TypeOK'
    BY DEF TypeOK, PCs, TeardownPCs, BootPCs, Procs, AuthKinds, Reasons
<1>2. MuInv'
    BY DEF MuInv, OpsInv, OpInv, TypeOK, PCs, TeardownPCs, BootPCs, Procs, AuthKinds,
           Reasons
<1>3. FreshInv'
    BY DEF FreshInv, InUse, MuInv, OpsInv, OpInv, Serving, Down, Stable, Young, TypeOK, PCs,
           TeardownPCs, BootPCs, Procs, AuthKinds, Reasons
<1>4. OpsInv'
    BY DEF OpsInv, OpInv, MuInv, Stable, Down, Serving, Young, InUse, TypeOK, PCs,
           TeardownPCs, BootPCs, Procs, AuthKinds, Reasons
<1>5. GateInv'
    BY DEF GateInv, OpsInv, OpInv, MuInv, Stable, Down, Serving, Young, TypeOK, PCs,
           TeardownPCs, BootPCs, Procs, AuthKinds, Reasons
<1>6. JanitorInv'
    BY DEF JanitorInv, InUse, OpsInv, OpInv, MuInv, Stable, Down, Serving, Young, TypeOK,
           PCs, TeardownPCs, BootPCs, Procs, AuthKinds, Reasons
<1>7. SeesOneEngine'
    BY DEF SeesOneEngine, GateInv, NeverClosedUnderneath, InGate, Abandoned, InUse, OpsInv,
           OpInv, Serving, Young, Down, TypeOK, PCs, TeardownPCs, BootPCs, Procs, AuthKinds,
           Reasons
<1>8. DirInv'
    BY DEF DirInv, Alive, JanitorActive, OpsInv, OpInv, MuInv, JanitorInv, FreshInv, Stable,
           Serving, Young, Down, TypeOK, PCs, TeardownPCs, BootPCs, Procs, AuthKinds,
           Reasons
<1>9. LockInv'
    BY DEF LockInv, DirInv, Alive, JanitorActive, OpsInv, OpInv, MuInv, Serving, Young,
           Down, TypeOK, PCs, TeardownPCs, BootPCs, Procs, AuthKinds, Reasons
<1>10. WorkInv'
    BY DEF WorkInv, OpsInv, OpInv, MuInv, JanitorInv, Serving, Young, Down, InUse, TypeOK,
           PCs, TeardownPCs, BootPCs, Procs, AuthKinds, Reasons
<1>11. CountInv' /\ NeverClosedUnderneath'
    BY DEF CountInv, InUse, NeverClosedUnderneath, InGate
<1>12. QED BY <1>1, <1>2, <1>3, <1>4, <1>5, <1>6, <1>7, <1>8, <1>9, <1>10, <1>11

LEMMA TdAbandonStep == ASSUME IInv, NEW p \in Procs, TdAbandon(p) PROVE IInv'
<1> USE ConstantsAssumption, EngineSets DEF IInv, TdAbandon, Goto, AfterTeardown, depsVars, engineVars, dirVars, opVars, reqVars
<1>1. TypeOK'
    <2>1. acct[opEng[p]] \in Accounts
        BY DEF OpsInv, OpInv, Serving, DirInv, Alive, TypeOK
    <2>2. AfterTeardown(kind[p]) \in PCs
        BY DEF PCs, BootPCs
    <2>3. heldDirs' \in [Accounts -> Nat]
        BY <2>1 DEF TypeOK
    <2>4. pc' \in [Procs -> PCs]
        BY <2>2 DEF TypeOK
    <2>5. QED BY <2>3, <2>4 DEF TypeOK, Procs
<1>2. MuInv'
    BY DEF MuInv, OpsInv, OpInv, TypeOK, PCs, TeardownPCs, BootPCs, Procs, AuthKinds,
           Reasons
<1>3. FreshInv'
    BY DEF FreshInv, InUse, MuInv, OpsInv, OpInv, Serving, Down, Stable, Young, TypeOK, PCs,
           TeardownPCs, BootPCs, Procs, AuthKinds, Reasons
<1>4. OpsInv'
    BY DEF OpsInv, OpInv, MuInv, Stable, Down, Serving, Young, InUse, TypeOK, PCs,
           TeardownPCs, BootPCs, Procs, AuthKinds, Reasons
<1>5. GateInv'
    BY DEF GateInv, OpsInv, OpInv, MuInv, Stable, Down, Serving, Young, TypeOK, PCs,
           TeardownPCs, BootPCs, Procs, AuthKinds, Reasons
<1>6. JanitorInv'
    BY DEF JanitorInv, InUse, OpsInv, OpInv, MuInv, Stable, Down, Serving, Young, TypeOK,
           PCs, TeardownPCs, BootPCs, Procs, AuthKinds, Reasons
<1>7. SeesOneEngine'
    BY DEF SeesOneEngine, GateInv, NeverClosedUnderneath, InGate, Abandoned, InUse, OpsInv,
           OpInv, Serving, Young, Down, TypeOK, PCs, TeardownPCs, BootPCs, Procs, AuthKinds,
           Reasons
<1>8. DirInv'
    BY DEF DirInv, Alive, JanitorActive, OpsInv, OpInv, MuInv, JanitorInv, FreshInv, Stable,
           Serving, Young, Down, TypeOK, PCs, TeardownPCs, BootPCs, Procs, AuthKinds,
           Reasons
<1>9. LockInv'
    BY DEF LockInv, DirInv, Alive, JanitorActive, OpsInv, OpInv, MuInv, Serving, Young,
           Down, TypeOK, PCs, TeardownPCs, BootPCs, Procs, AuthKinds, Reasons
<1>10. WorkInv'
    BY DEF WorkInv, OpsInv, OpInv, MuInv, JanitorInv, Serving, Young, Down, InUse, TypeOK,
           PCs, TeardownPCs, BootPCs, Procs, AuthKinds, Reasons
<1>11. CountInv' /\ NeverClosedUnderneath'
    BY DEF CountInv, InUse, NeverClosedUnderneath, InGate
<1>12. QED BY <1>1, <1>2, <1>3, <1>4, <1>5, <1>6, <1>7, <1>8, <1>9, <1>10, <1>11

LEMMA JanitorDrainedStep == ASSUME IInv, NEW e \in Engines, JanitorDrained(e) PROVE IInv'
<1> USE ConstantsAssumption, EngineSets DEF IInv, JanitorDrained, JanitorGo, Drained, depsVars, engineVars, dirVars, opVars, reqVars
<1>1. TypeOK'
    BY DEF TypeOK, PCs, TeardownPCs, BootPCs, Procs, AuthKinds, Reasons
<1>2. FreshInv'
    BY DEF FreshInv, InUse, MuInv, OpsInv, OpInv, Serving, Down, Stable, Young, TypeOK, PCs,
           TeardownPCs, BootPCs, Procs, AuthKinds, Reasons
<1>3. OpsInv'
    BY DEF OpsInv, OpInv, MuInv, Stable, Down, Serving, Young, InUse, TypeOK, PCs,
           TeardownPCs, BootPCs, Procs, AuthKinds, Reasons
<1>4. GateInv'
    BY DEF GateInv, OpsInv, OpInv, MuInv, Stable, Down, Serving, Young, TypeOK, PCs,
           TeardownPCs, BootPCs, Procs, AuthKinds, Reasons
<1>5. JanitorInv'
    <2>1. InUse(e) = {}
        BY DrainedEmpty DEF Drained
    <2>2. QED BY <2>1 DEF JanitorInv, InUse, TypeOK
<1>6. SeesOneEngine'
    BY DEF SeesOneEngine, GateInv, NeverClosedUnderneath, InGate, Abandoned, InUse, OpsInv,
           OpInv, Serving, Young, Down, TypeOK, PCs, TeardownPCs, BootPCs, Procs, AuthKinds,
           Reasons
<1>7. DirInv'
    BY DEF DirInv, Alive, JanitorActive, OpsInv, OpInv, MuInv, JanitorInv, FreshInv, Stable,
           Serving, Young, Down, TypeOK, PCs, TeardownPCs, BootPCs, Procs, AuthKinds,
           Reasons
<1>8. WorkInv'
    BY DEF WorkInv, OpsInv, OpInv, MuInv, JanitorInv, Serving, Young, Down, InUse, TypeOK,
           PCs, TeardownPCs, BootPCs, Procs, AuthKinds, Reasons
<1>9. MuInv' /\ CountInv' /\ NeverClosedUnderneath' /\ LockInv'
    BY DEF MuInv, CountInv, InUse, NeverClosedUnderneath, InGate, LockInv
<1>10. QED BY <1>1, <1>2, <1>3, <1>4, <1>5, <1>6, <1>7, <1>8, <1>9

LEMMA JanitorJoinStep == ASSUME IInv, NEW e \in Engines, JanitorJoin(e) PROVE IInv'
<1> USE ConstantsAssumption, EngineSets DEF IInv, JanitorJoin, JanitorGo, CloseJoin, depsVars, engineVars, dirVars, opVars, reqVars
<1>1. TypeOK'
    BY DEF TypeOK, PCs, TeardownPCs, BootPCs, Procs, AuthKinds, Reasons
<1>2. FreshInv'
    BY DEF FreshInv, InUse, MuInv, OpsInv, OpInv, Serving, Down, Stable, Young, TypeOK, PCs,
           TeardownPCs, BootPCs, Procs, AuthKinds, Reasons
<1>3. OpsInv'
    BY DEF OpsInv, OpInv, MuInv, Stable, Down, Serving, Young, InUse, TypeOK, PCs,
           TeardownPCs, BootPCs, Procs, AuthKinds, Reasons
<1>4. GateInv'
    BY DEF GateInv, OpsInv, OpInv, MuInv, Stable, Down, Serving, Young, TypeOK, PCs,
           TeardownPCs, BootPCs, Procs, AuthKinds, Reasons
<1>5. JanitorInv'
    BY DEF JanitorInv, InUse, OpsInv, OpInv, MuInv, Stable, Down, Serving, Young, TypeOK,
           PCs, TeardownPCs, BootPCs, Procs, AuthKinds, Reasons
<1>6. SeesOneEngine'
    BY DEF SeesOneEngine, GateInv, NeverClosedUnderneath, InGate, Abandoned, InUse, OpsInv,
           OpInv, Serving, Young, Down, TypeOK, PCs, TeardownPCs, BootPCs, Procs, AuthKinds,
           Reasons
<1>7. DirInv'
    BY DEF DirInv, Alive, JanitorActive, OpsInv, OpInv, MuInv, JanitorInv, FreshInv, Stable,
           Serving, Young, Down, TypeOK, PCs, TeardownPCs, BootPCs, Procs, AuthKinds,
           Reasons
<1>8. WorkInv'
    BY DEF WorkInv, OpsInv, OpInv, MuInv, JanitorInv, Serving, Young, Down, InUse, TypeOK,
           PCs, TeardownPCs, BootPCs, Procs, AuthKinds, Reasons
<1>9. MuInv' /\ CountInv' /\ NeverClosedUnderneath' /\ LockInv'
    BY DEF MuInv, CountInv, InUse, NeverClosedUnderneath, InGate, LockInv
<1>10. QED BY <1>1, <1>2, <1>3, <1>4, <1>5, <1>6, <1>7, <1>8, <1>9

LEMMA JanitorSDKStep == ASSUME IInv, NEW e \in Engines, JanitorSDK(e) PROVE IInv'
<1> USE ConstantsAssumption, EngineSets DEF IInv, JanitorSDK, JanitorGo, CloseSDK, depsVars, engineVars, dirVars, opVars, reqVars
<1>1. TypeOK'
    BY DEF TypeOK, PCs, TeardownPCs, BootPCs, Procs, AuthKinds, Reasons
<1>2. FreshInv'
    BY DEF FreshInv, InUse, MuInv, OpsInv, OpInv, Serving, Down, Stable, Young, TypeOK, PCs,
           TeardownPCs, BootPCs, Procs, AuthKinds, Reasons
<1>3. OpsInv'
    BY DEF OpsInv, OpInv, MuInv, Stable, Down, Serving, Young, InUse, TypeOK, PCs,
           TeardownPCs, BootPCs, Procs, AuthKinds, Reasons
<1>4. GateInv'
    BY DEF GateInv, OpsInv, OpInv, MuInv, Stable, Down, Serving, Young, TypeOK, PCs,
           TeardownPCs, BootPCs, Procs, AuthKinds, Reasons
<1>5. JanitorInv'
    BY DEF JanitorInv, InUse, OpsInv, OpInv, MuInv, Stable, Down, Serving, Young, TypeOK,
           PCs, TeardownPCs, BootPCs, Procs, AuthKinds, Reasons
<1>6. NeverClosedUnderneath'
    BY DEF NeverClosedUnderneath, InGate, InUse, GateInv, JanitorInv, OpsInv, OpInv,
           Serving, Young, TypeOK, PCs, TeardownPCs, BootPCs, Procs, AuthKinds, Reasons
<1>7. SeesOneEngine'
    BY DEF SeesOneEngine, GateInv, NeverClosedUnderneath, InGate, Abandoned, InUse, OpsInv,
           OpInv, Serving, Young, Down, TypeOK, PCs, TeardownPCs, BootPCs, Procs, AuthKinds,
           Reasons
<1>8. DirInv'
    BY DEF DirInv, Alive, JanitorActive, OpsInv, OpInv, MuInv, JanitorInv, FreshInv, Stable,
           Serving, Young, Down, TypeOK, PCs, TeardownPCs, BootPCs, Procs, AuthKinds,
           Reasons
<1>9. LockInv'
    BY DEF LockInv, DirInv, Alive, JanitorActive, OpsInv, OpInv, MuInv, Serving, Young,
           Down, TypeOK, PCs, TeardownPCs, BootPCs, Procs, AuthKinds, Reasons
<1>10. WorkInv'
    BY DEF WorkInv, OpsInv, OpInv, MuInv, JanitorInv, Serving, Young, Down, InUse, TypeOK,
           PCs, TeardownPCs, BootPCs, Procs, AuthKinds, Reasons
<1>11. MuInv' /\ CountInv'
    BY DEF MuInv, CountInv, InUse
<1>12. QED BY <1>1, <1>2, <1>3, <1>4, <1>5, <1>6, <1>7, <1>8, <1>9, <1>10, <1>11

LEMMA JanitorUnlockStep == ASSUME IInv, NEW e \in Engines, JanitorUnlock(e) PROVE IInv'
<1> USE ConstantsAssumption, EngineSets DEF IInv, JanitorUnlock, JanitorGo, LockRelease, depsVars, engineVars, dirVars, opVars, reqVars
<1>1. TypeOK'
    BY DEF TypeOK, PCs, TeardownPCs, BootPCs, Procs, AuthKinds, Reasons
<1>2. FreshInv'
    BY DEF FreshInv, InUse, MuInv, OpsInv, OpInv, Serving, Down, Stable, Young, TypeOK, PCs,
           TeardownPCs, BootPCs, Procs, AuthKinds, Reasons
<1>3. OpsInv'
    BY DEF OpsInv, OpInv, MuInv, Stable, Down, Serving, Young, InUse, TypeOK, PCs,
           TeardownPCs, BootPCs, Procs, AuthKinds, Reasons
<1>4. GateInv'
    BY DEF GateInv, OpsInv, OpInv, MuInv, Stable, Down, Serving, Young, TypeOK, PCs,
           TeardownPCs, BootPCs, Procs, AuthKinds, Reasons
<1>5. JanitorInv'
    BY DEF JanitorInv, InUse, OpsInv, OpInv, MuInv, Stable, Down, Serving, Young, TypeOK,
           PCs, TeardownPCs, BootPCs, Procs, AuthKinds, Reasons
<1>6. SeesOneEngine'
    BY DEF SeesOneEngine, GateInv, NeverClosedUnderneath, InGate, Abandoned, InUse, OpsInv,
           OpInv, Serving, Young, Down, TypeOK, PCs, TeardownPCs, BootPCs, Procs, AuthKinds,
           Reasons
<1>7. DirInv'
    BY DEF DirInv, Alive, JanitorActive, OpsInv, OpInv, MuInv, JanitorInv, FreshInv, Stable,
           Serving, Young, Down, TypeOK, PCs, TeardownPCs, BootPCs, Procs, AuthKinds,
           Reasons
<1>8. LockInv'
    BY DEF LockInv, JanitorInv, DirInv, Alive, JanitorActive, TypeOK
<1>9. WorkInv'
    BY DEF WorkInv, OpsInv, OpInv, MuInv, JanitorInv, Serving, Young, Down, InUse, TypeOK,
           PCs, TeardownPCs, BootPCs, Procs, AuthKinds, Reasons
<1>10. MuInv' /\ CountInv' /\ NeverClosedUnderneath'
    BY DEF MuInv, CountInv, InUse, NeverClosedUnderneath, InGate
<1>11. QED BY <1>1, <1>2, <1>3, <1>4, <1>5, <1>6, <1>7, <1>8, <1>9, <1>10

LEMMA JanitorReleaseStep == ASSUME IInv, NEW e \in Engines, JanitorRelease(e) PROVE IInv'
<1> USE ConstantsAssumption, EngineSets DEF IInv, JanitorRelease, JanitorGo, depsVars, engineVars, dirVars, opVars, reqVars
<1>1. TypeOK'
    <2>1. heldDirs[acct[e]] = 1 /\ acct[e] \in Accounts
        BY DEF DirInv, JanitorActive, Alive
    <2>2. QED BY <2>1 DEF TypeOK
<1>2. FreshInv'
    BY DEF FreshInv, InUse, MuInv, OpsInv, OpInv, Serving, Down, Stable, Young, TypeOK, PCs,
           TeardownPCs, BootPCs, Procs, AuthKinds, Reasons
<1>3. OpsInv'
    <2>1. heldDirs[acct[e]] = 1 /\ acct[e] \in Accounts
        BY DEF DirInv, JanitorActive, Alive
    <2>2. QED
        BY <2>1 DEF OpsInv, OpInv, MuInv, JanitorInv, Stable, Down, Serving, Young, InUse, TypeOK,
           Procs
<1>4. GateInv'
    BY DEF GateInv, OpsInv, OpInv, MuInv, Stable, Down, Serving, Young, TypeOK, PCs,
           TeardownPCs, BootPCs, Procs, AuthKinds, Reasons
<1>5. JanitorInv'
    BY DEF JanitorInv, InUse, OpsInv, OpInv, MuInv, Stable, Down, Serving, Young, TypeOK,
           PCs, TeardownPCs, BootPCs, Procs, AuthKinds, Reasons
<1>6. SeesOneEngine'
    BY DEF SeesOneEngine, GateInv, NeverClosedUnderneath, InGate, Abandoned, InUse, OpsInv,
           OpInv, Serving, Young, Down, TypeOK, PCs, TeardownPCs, BootPCs, Procs, AuthKinds,
           Reasons
<1>7. DirInv'
    BY DEF DirInv, Alive, JanitorActive, OpsInv, OpInv, MuInv, JanitorInv, FreshInv, Stable,
           Serving, Young, Down, TypeOK, PCs, TeardownPCs, BootPCs, Procs, AuthKinds,
           Reasons
<1>8. WorkInv'
    BY DEF WorkInv, OpsInv, OpInv, MuInv, JanitorInv, Serving, Young, Down, InUse, TypeOK,
           PCs, TeardownPCs, BootPCs, Procs, AuthKinds, Reasons
<1>9. MuInv' /\ CountInv' /\ NeverClosedUnderneath' /\ LockInv'
    BY DEF MuInv, CountInv, InUse, NeverClosedUnderneath, InGate, LockInv
<1>10. QED BY <1>1, <1>2, <1>3, <1>4, <1>5, <1>6, <1>7, <1>8, <1>9

LEMMA BtDecideStep == ASSUME IInv, NEW p \in Procs, BtDecide(p) PROVE IInv'
<1> USE ConstantsAssumption, EngineSets DEF IInv, BtDecide, Goto, depsVars, engineVars, dirVars, opVars, reqVars
<1>1. TypeOK'
    BY DEF TypeOK, PCs, TeardownPCs, BootPCs, Procs, AuthKinds, Reasons
<1>2. MuInv'
    BY DEF MuInv, OpsInv, OpInv, TypeOK, PCs, TeardownPCs, BootPCs, Procs, AuthKinds,
           Reasons
<1>3. OpsInv'
    BY DEF OpsInv, OpInv, MuInv, Stable, Down, Serving, Young, InUse, TypeOK, PCs,
           TeardownPCs, BootPCs, Procs, AuthKinds, Reasons
<1>4. LockInv'
    BY DEF LockInv, DirInv, Alive, JanitorActive, OpsInv, OpInv, MuInv, Serving, Young,
           Down, TypeOK, PCs, TeardownPCs, BootPCs, Procs, AuthKinds, Reasons
<1>5. WorkInv'
    BY DEF WorkInv, OpsInv, OpInv, MuInv, JanitorInv, Serving, Young, Down, InUse, TypeOK,
           PCs, TeardownPCs, BootPCs, Procs, AuthKinds, Reasons
<1>6. CountInv' /\ FreshInv' /\ GateInv' /\ JanitorInv' /\ NeverClosedUnderneath' /\ SeesOneEngine' /\ DirInv'
    BY DEF CountInv, InUse, FreshInv, GateInv, Serving, JanitorInv, NeverClosedUnderneath,
           InGate, SeesOneEngine, Abandoned, DirInv, Alive, JanitorActive
<1>7. QED BY <1>1, <1>2, <1>3, <1>4, <1>5, <1>6

LEMMA BtRefusedStep == ASSUME IInv, NEW p \in Procs, BtRefused(p) PROVE IInv'
<1> USE ConstantsAssumption, EngineSets DEF IInv, BtRefused, Goto, depsVars, engineVars, dirVars, opVars, reqVars
<1>1. TypeOK'
    BY DEF TypeOK, PCs, TeardownPCs, BootPCs, Procs, AuthKinds, Reasons
<1>2. MuInv'
    BY DEF MuInv, OpsInv, OpInv, TypeOK, PCs, TeardownPCs, BootPCs, Procs, AuthKinds,
           Reasons
<1>3. OpsInv'
    BY DEF OpsInv, OpInv, MuInv, Stable, Down, Serving, Young, InUse, TypeOK, PCs,
           TeardownPCs, BootPCs, Procs, AuthKinds, Reasons
<1>4. LockInv'
    BY DEF LockInv, DirInv, Alive, JanitorActive, OpsInv, OpInv, MuInv, Serving, Young,
           Down, TypeOK, PCs, TeardownPCs, BootPCs, Procs, AuthKinds, Reasons
<1>5. WorkInv'
    BY DEF WorkInv, OpsInv, OpInv, MuInv, JanitorInv, Serving, Young, Down, InUse, TypeOK,
           PCs, TeardownPCs, BootPCs, Procs, AuthKinds, Reasons
<1>6. CountInv' /\ FreshInv' /\ GateInv' /\ JanitorInv' /\ NeverClosedUnderneath' /\ SeesOneEngine' /\ DirInv'
    BY DEF CountInv, InUse, FreshInv, GateInv, Serving, JanitorInv, NeverClosedUnderneath,
           InGate, SeesOneEngine, Abandoned, DirInv, Alive, JanitorActive
<1>7. QED BY <1>1, <1>2, <1>3, <1>4, <1>5, <1>6

LEMMA BtLockStep == ASSUME IInv, NEW p \in Procs, BtLock(p) PROVE IInv'
<1> USE ConstantsAssumption, EngineSets DEF IInv, BtLock, Goto, depsVars, engineVars, dirVars, opVars, reqVars
<1>0. /\ made + 1 \in Engines /\ made + 1 \in EngineOrNil
      /\ sdk[made + 1] = "absent" /\ janitor[made + 1] = "none" /\ ~gateClosed[made + 1]
      /\ wg[made + 1] = 0 /\ InUse(made + 1) = {} /\ made + 1 # cur /\ made + 1 # eng
      /\ \A q \in Procs : opEng[q] # made + 1
    BY DEF FreshInv, TypeOK, Engines, EngineOrNil
<1>1. TypeOK'
    BY <1>0 DEF TypeOK, PCs, TeardownPCs, BootPCs, Procs
<1>2. MuInv'
    BY DEF MuInv, OpsInv, OpInv, TypeOK, PCs, TeardownPCs, BootPCs, Procs, AuthKinds,
           Reasons
<1>3. FreshInv'
    BY <1>0 DEF FreshInv, InUse, TypeOK, Engines, EngineOrNil
<1>4. OpsInv'
    <2>1. made + 1 # cur /\ acct'[made + 1] \in Accounts
        BY <1>0 DEF OpsInv, OpInv, TypeOK, BootPCs
    <2>2. QED
        BY <1>0, <2>1 DEF OpsInv, OpInv, MuInv, Stable, Down, Serving, Young, InUse, TypeOK, PCs,
           TeardownPCs, BootPCs, Procs
<1>5. JanitorInv'
    BY <1>0 DEF JanitorInv, InUse, TypeOK
<1>6. DirInv'
    <2>1. eng = 0 /\ heldDirs[target[p]] = 0 /\ target[p] \in Accounts
        BY DEF OpsInv, OpInv, Down, BootPCs
    <2>2. \A q \in Procs : opEng[q] = 0
        BY DEF OpsInv, OpInv, MuInv, BootPCs
    <2>3. \A e \in Engines : Alive(e) => JanitorActive(e) /\ acct[e] # target[p]
        BY <2>1, <2>2 DEF DirInv, Alive
    <2>4. \A e \in Engines : JanitorActive(e)' <=> JanitorActive(e)
        BY DEF JanitorActive
    <2>5. \A e \in Engines : Alive(e)' <=> JanitorActive(e) \/ e = made + 1
        BY <1>0, <2>1, <2>2 DEF Alive, JanitorActive, TypeOK
    <2>6. ~JanitorActive(made + 1)
        BY <1>0 DEF JanitorActive
    <2>7. \A e \in Engines : e # made + 1 => acct'[e] = acct[e]
        BY DEF TypeOK
    <2>8. acct'[made + 1] = target[p]
        BY <1>0 DEF TypeOK
    <2>9. \A e \in Engines : JanitorActive(e) => Alive(e)
        BY DEF Alive
    <2>10. QED BY <1>0, <2>1, <2>3, <2>4, <2>5, <2>6, <2>7, <2>8, <2>9 DEF DirInv
<1>7. LockInv'
    BY DEF LockInv, DirInv, Alive, JanitorActive, OpsInv, OpInv, MuInv, Serving, Young,
           Down, TypeOK, PCs, TeardownPCs, BootPCs, Procs, AuthKinds, Reasons
<1>8. WorkInv'
    BY DEF WorkInv, OpsInv, OpInv, MuInv, JanitorInv, Serving, Young, Down, InUse, TypeOK,
           PCs, TeardownPCs, BootPCs, Procs, AuthKinds, Reasons
<1>9. CountInv' /\ GateInv' /\ NeverClosedUnderneath' /\ SeesOneEngine'
    BY DEF CountInv, InUse, GateInv, Serving, NeverClosedUnderneath, InGate, SeesOneEngine,
           Abandoned
<1>10. QED BY <1>1, <1>2, <1>3, <1>4, <1>5, <1>6, <1>7, <1>8, <1>9

LEMMA BtSDKStep == ASSUME IInv, NEW p \in Procs, BtSDK(p) PROVE IInv'
<1> USE ConstantsAssumption, EngineSets DEF IInv, BtSDK, Goto, depsVars, engineVars, dirVars, opVars, reqVars
<1>1. TypeOK'
    <2>1. 1 \in 0 .. MaxWork
        OBVIOUS
    <2>2. QED BY <2>1 DEF TypeOK, PCs, TeardownPCs, BootPCs, Procs
<1>2. MuInv'
    BY DEF MuInv, OpsInv, OpInv, TypeOK, PCs, TeardownPCs, BootPCs, Procs, AuthKinds,
           Reasons
<1>3. FreshInv'
    BY DEF FreshInv, InUse, MuInv, OpsInv, OpInv, Serving, Down, Stable, Young, TypeOK, PCs,
           TeardownPCs, BootPCs, Procs, AuthKinds, Reasons
<1>4. OpsInv'
    BY DEF OpsInv, OpInv, MuInv, Stable, Down, Serving, Young, InUse, TypeOK, PCs,
           TeardownPCs, BootPCs, Procs, AuthKinds, Reasons
<1>5. GateInv'
    BY DEF GateInv, OpsInv, OpInv, MuInv, Stable, Down, Serving, Young, TypeOK, PCs,
           TeardownPCs, BootPCs, Procs, AuthKinds, Reasons
<1>6. JanitorInv'
    BY DEF JanitorInv, InUse, OpsInv, OpInv, MuInv, Stable, Down, Serving, Young, TypeOK,
           PCs, TeardownPCs, BootPCs, Procs, AuthKinds, Reasons
<1>7. NeverClosedUnderneath'
    BY DEF NeverClosedUnderneath, InGate, InUse, GateInv, JanitorInv, OpsInv, OpInv,
           Serving, Young, TypeOK, PCs, TeardownPCs, BootPCs, Procs, AuthKinds, Reasons
<1>8. DirInv'
    BY DEF DirInv, Alive, JanitorActive, OpsInv, OpInv, MuInv, JanitorInv, FreshInv, Stable,
           Serving, Young, Down, TypeOK, PCs, TeardownPCs, BootPCs, Procs, AuthKinds,
           Reasons
<1>9. LockInv'
    BY DEF LockInv, DirInv, Alive, JanitorActive, OpsInv, OpInv, MuInv, Serving, Young,
           Down, TypeOK, PCs, TeardownPCs, BootPCs, Procs, AuthKinds, Reasons
<1>10. WorkInv'
    BY DEF WorkInv, OpsInv, OpInv, MuInv, JanitorInv, Serving, Young, Down, InUse, TypeOK,
           PCs, TeardownPCs, BootPCs, Procs, AuthKinds, Reasons
<1>11. CountInv' /\ SeesOneEngine'
    BY DEF CountInv, InUse, SeesOneEngine, GateInv, InGate, Abandoned
<1>12. QED BY <1>1, <1>2, <1>3, <1>4, <1>5, <1>6, <1>7, <1>8, <1>9, <1>10, <1>11

LEMMA BtRestStep == ASSUME IInv, NEW p \in Procs, BtRest(p) PROVE IInv'
<1> USE ConstantsAssumption, EngineSets DEF IInv, BtRest, Goto, depsVars, engineVars, dirVars, opVars, reqVars
<1>1. TypeOK'
    BY DEF TypeOK, PCs, TeardownPCs, BootPCs, Procs, AuthKinds, Reasons
<1>2. MuInv'
    BY DEF MuInv, OpsInv, OpInv, TypeOK, PCs, TeardownPCs, BootPCs, Procs, AuthKinds,
           Reasons
<1>3. OpsInv'
    BY DEF OpsInv, OpInv, MuInv, Stable, Down, Serving, Young, InUse, TypeOK, PCs,
           TeardownPCs, BootPCs, Procs, AuthKinds, Reasons
<1>4. LockInv'
    BY DEF LockInv, DirInv, Alive, JanitorActive, OpsInv, OpInv, MuInv, Serving, Young,
           Down, TypeOK, PCs, TeardownPCs, BootPCs, Procs, AuthKinds, Reasons
<1>5. WorkInv'
    BY DEF WorkInv, OpsInv, OpInv, MuInv, JanitorInv, Serving, Young, Down, InUse, TypeOK,
           PCs, TeardownPCs, BootPCs, Procs, AuthKinds, Reasons
<1>6. CountInv' /\ FreshInv' /\ GateInv' /\ JanitorInv' /\ NeverClosedUnderneath' /\ SeesOneEngine' /\ DirInv'
    BY DEF CountInv, InUse, FreshInv, GateInv, Serving, JanitorInv, NeverClosedUnderneath,
           InGate, SeesOneEngine, Abandoned, DirInv, Alive, JanitorActive
<1>7. QED BY <1>1, <1>2, <1>3, <1>4, <1>5, <1>6

LEMMA BtFailStep == ASSUME IInv, NEW p \in Procs, BtFail(p) PROVE IInv'
<1> USE ConstantsAssumption, EngineSets DEF IInv, BtFail, Goto, depsVars, engineVars, dirVars, opVars, reqVars
<1>1. TypeOK'
    BY DEF TypeOK, PCs, TeardownPCs, BootPCs, Procs, AuthKinds, Reasons
<1>2. MuInv'
    BY DEF MuInv, OpsInv, OpInv, TypeOK, PCs, TeardownPCs, BootPCs, Procs, AuthKinds,
           Reasons
<1>3. OpsInv'
    BY DEF OpsInv, OpInv, MuInv, Stable, Down, Serving, Young, InUse, TypeOK, PCs,
           TeardownPCs, BootPCs, Procs, AuthKinds, Reasons
<1>4. LockInv'
    BY DEF LockInv, DirInv, Alive, JanitorActive, OpsInv, OpInv, MuInv, Serving, Young,
           Down, TypeOK, PCs, TeardownPCs, BootPCs, Procs, AuthKinds, Reasons
<1>5. WorkInv'
    BY DEF WorkInv, OpsInv, OpInv, MuInv, JanitorInv, Serving, Young, Down, InUse, TypeOK,
           PCs, TeardownPCs, BootPCs, Procs, AuthKinds, Reasons
<1>6. CountInv' /\ FreshInv' /\ GateInv' /\ JanitorInv' /\ NeverClosedUnderneath' /\ SeesOneEngine' /\ DirInv'
    BY DEF CountInv, InUse, FreshInv, GateInv, Serving, JanitorInv, NeverClosedUnderneath,
           InGate, SeesOneEngine, Abandoned, DirInv, Alive, JanitorActive
<1>7. QED BY <1>1, <1>2, <1>3, <1>4, <1>5, <1>6

LEMMA BfJoinStep == ASSUME IInv, NEW p \in Procs, BfJoin(p) PROVE IInv'
<1> USE ConstantsAssumption, EngineSets DEF IInv, BfJoin, Goto, CloseJoin, depsVars, engineVars, dirVars, opVars, reqVars
<1>1. TypeOK'
    BY DEF TypeOK, PCs, TeardownPCs, BootPCs, Procs, AuthKinds, Reasons
<1>2. MuInv'
    BY DEF MuInv, OpsInv, OpInv, TypeOK, PCs, TeardownPCs, BootPCs, Procs, AuthKinds,
           Reasons
<1>3. OpsInv'
    BY DEF OpsInv, OpInv, MuInv, Stable, Down, Serving, Young, InUse, TypeOK, PCs,
           TeardownPCs, BootPCs, Procs, AuthKinds, Reasons
<1>4. LockInv'
    BY DEF LockInv, DirInv, Alive, JanitorActive, OpsInv, OpInv, MuInv, Serving, Young,
           Down, TypeOK, PCs, TeardownPCs, BootPCs, Procs, AuthKinds, Reasons
<1>5. WorkInv'
    <2>1. opEng[p] # 0
        BY DEF OpsInv, OpInv, Young
    <2>2. \A e \in Engines : overdue'[e] <=> overdue[e] \/ (e = opEng[p] /\ wg[e] > 0)
        BY <2>1 DEF TypeOK
    <2>3. \A e \in Engines : wg[e] = 0 \/ wg[e] > 0
        BY DEF TypeOK
    <2>4. \A q \in Procs : q # p => pc[q] \notin {"td_sdk", "bf_sdk"}
        BY DEF MuInv, OpsInv, OpInv, TeardownPCs, BootPCs
    <2>5. QED BY <2>2, <2>3, <2>4 DEF WorkInv, TypeOK, Procs
<1>6. CountInv' /\ FreshInv' /\ GateInv' /\ JanitorInv' /\ NeverClosedUnderneath' /\ SeesOneEngine' /\ DirInv'
    BY DEF CountInv, InUse, FreshInv, GateInv, Serving, JanitorInv, NeverClosedUnderneath,
           InGate, SeesOneEngine, Abandoned, DirInv, Alive, JanitorActive
<1>7. QED BY <1>1, <1>2, <1>3, <1>4, <1>5, <1>6

LEMMA BfSDKStep == ASSUME IInv, NEW p \in Procs, BfSDK(p) PROVE IInv'
<1> USE ConstantsAssumption, EngineSets DEF IInv, BfSDK, Goto, CloseSDK, depsVars, engineVars, dirVars, opVars, reqVars
<1>1. TypeOK'
    BY DEF TypeOK, PCs, TeardownPCs, BootPCs, Procs, AuthKinds, Reasons
<1>2. MuInv'
    BY DEF MuInv, OpsInv, OpInv, TypeOK, PCs, TeardownPCs, BootPCs, Procs, AuthKinds,
           Reasons
<1>3. FreshInv'
    BY DEF FreshInv, InUse, MuInv, OpsInv, OpInv, Serving, Down, Stable, Young, TypeOK, PCs,
           TeardownPCs, BootPCs, Procs, AuthKinds, Reasons
<1>4. OpsInv'
    BY DEF OpsInv, OpInv, MuInv, Stable, Down, Serving, Young, InUse, TypeOK, PCs,
           TeardownPCs, BootPCs, Procs, AuthKinds, Reasons
<1>5. GateInv'
    BY DEF GateInv, OpsInv, OpInv, MuInv, Stable, Down, Serving, Young, TypeOK, PCs,
           TeardownPCs, BootPCs, Procs, AuthKinds, Reasons
<1>6. JanitorInv'
    BY DEF JanitorInv, InUse, OpsInv, OpInv, MuInv, Stable, Down, Serving, Young, TypeOK,
           PCs, TeardownPCs, BootPCs, Procs, AuthKinds, Reasons
<1>7. NeverClosedUnderneath'
    BY DEF NeverClosedUnderneath, InGate, InUse, GateInv, JanitorInv, OpsInv, OpInv,
           Serving, Young, TypeOK, PCs, TeardownPCs, BootPCs, Procs, AuthKinds, Reasons
<1>8. DirInv'
    BY DEF DirInv, Alive, JanitorActive, OpsInv, OpInv, MuInv, JanitorInv, FreshInv, Stable,
           Serving, Young, Down, TypeOK, PCs, TeardownPCs, BootPCs, Procs, AuthKinds,
           Reasons
<1>9. LockInv'
    BY DEF LockInv, DirInv, Alive, JanitorActive, OpsInv, OpInv, MuInv, Serving, Young,
           Down, TypeOK, PCs, TeardownPCs, BootPCs, Procs, AuthKinds, Reasons
<1>10. WorkInv'
    BY DEF WorkInv, OpsInv, OpInv, MuInv, JanitorInv, Serving, Young, Down, InUse, TypeOK,
           PCs, TeardownPCs, BootPCs, Procs, AuthKinds, Reasons
<1>11. CountInv' /\ SeesOneEngine'
    BY DEF CountInv, InUse, SeesOneEngine, GateInv, InGate, Abandoned
<1>12. QED BY <1>1, <1>2, <1>3, <1>4, <1>5, <1>6, <1>7, <1>8, <1>9, <1>10, <1>11

LEMMA BfUnlockStep == ASSUME IInv, NEW p \in Procs, BfUnlock(p) PROVE IInv'
<1> USE ConstantsAssumption, EngineSets DEF IInv, BfUnlock, Goto, LockRelease, depsVars, engineVars, dirVars, opVars, reqVars
<1>1. TypeOK'
    BY DEF TypeOK, PCs, TeardownPCs, BootPCs, Procs, AuthKinds, Reasons
<1>2. MuInv'
    BY DEF MuInv, OpsInv, OpInv, TypeOK, PCs, TeardownPCs, BootPCs, Procs, AuthKinds,
           Reasons
<1>3. FreshInv'
    BY DEF FreshInv, InUse, MuInv, OpsInv, OpInv, Serving, Down, Stable, Young, TypeOK, PCs,
           TeardownPCs, BootPCs, Procs, AuthKinds, Reasons
<1>4. OpsInv'
    BY DEF OpsInv, OpInv, MuInv, Stable, Down, Serving, Young, InUse, TypeOK, PCs,
           TeardownPCs, BootPCs, Procs, AuthKinds, Reasons
<1>5. JanitorInv'
    BY DEF JanitorInv, InUse, OpsInv, OpInv, MuInv, Stable, Down, Serving, Young, TypeOK,
           PCs, TeardownPCs, BootPCs, Procs, AuthKinds, Reasons
<1>6. DirInv'
    BY DEF DirInv, Alive, JanitorActive, OpsInv, OpInv, MuInv, JanitorInv, FreshInv, Stable,
           Serving, Young, Down, TypeOK, PCs, TeardownPCs, BootPCs, Procs, AuthKinds,
           Reasons
<1>7. LockInv'
    BY DEF LockInv, DirInv, Alive, JanitorActive, OpsInv, OpInv, MuInv, Serving, Young,
           Down, TypeOK, PCs, TeardownPCs, BootPCs, Procs, AuthKinds, Reasons
<1>8. WorkInv'
    BY DEF WorkInv, OpsInv, OpInv, MuInv, JanitorInv, Serving, Young, Down, InUse, TypeOK,
           PCs, TeardownPCs, BootPCs, Procs, AuthKinds, Reasons
<1>9. CountInv' /\ GateInv' /\ NeverClosedUnderneath' /\ SeesOneEngine'
    BY DEF CountInv, InUse, GateInv, Serving, NeverClosedUnderneath, InGate, SeesOneEngine,
           Abandoned
<1>10. QED BY <1>1, <1>2, <1>3, <1>4, <1>5, <1>6, <1>7, <1>8, <1>9

LEMMA PubFieldsStep == ASSUME IInv, NEW p \in Procs, PubFields(p) PROVE IInv'
<1> USE ConstantsAssumption, EngineSets DEF IInv, PubFields, Goto, depsVars, engineVars, dirVars, opVars, reqVars
<1>1. TypeOK'
    BY DEF TypeOK, PCs, TeardownPCs, BootPCs, Procs, AuthKinds, Reasons
<1>2. MuInv'
    BY DEF MuInv, OpsInv, OpInv, TypeOK, PCs, TeardownPCs, BootPCs, Procs, AuthKinds,
           Reasons
<1>3. FreshInv'
    BY DEF FreshInv, InUse, MuInv, OpsInv, OpInv, Serving, Down, Stable, Young, TypeOK, PCs,
           TeardownPCs, BootPCs, Procs, AuthKinds, Reasons
<1>4. OpsInv'
    BY DEF OpsInv, OpInv, MuInv, Stable, Down, Serving, Young, InUse, TypeOK, PCs,
           TeardownPCs, BootPCs, Procs, AuthKinds, Reasons
<1>5. GateInv'
    BY DEF GateInv, OpsInv, OpInv, MuInv, Stable, Down, Serving, Young, TypeOK, PCs,
           TeardownPCs, BootPCs, Procs, AuthKinds, Reasons
<1>6. JanitorInv'
    BY DEF JanitorInv, InUse, OpsInv, OpInv, MuInv, Stable, Down, Serving, Young, TypeOK,
           PCs, TeardownPCs, BootPCs, Procs, AuthKinds, Reasons
<1>7. SeesOneEngine'
    BY DEF SeesOneEngine, GateInv, NeverClosedUnderneath, InGate, Abandoned, InUse, OpsInv,
           OpInv, Serving, Young, Down, TypeOK, PCs, TeardownPCs, BootPCs, Procs, AuthKinds,
           Reasons
<1>8. DirInv'
    BY DEF DirInv, Alive, JanitorActive, OpsInv, OpInv, MuInv, JanitorInv, FreshInv, Stable,
           Serving, Young, Down, TypeOK, PCs, TeardownPCs, BootPCs, Procs, AuthKinds,
           Reasons
<1>9. LockInv'
    BY DEF LockInv, DirInv, Alive, JanitorActive, OpsInv, OpInv, MuInv, Serving, Young,
           Down, TypeOK, PCs, TeardownPCs, BootPCs, Procs, AuthKinds, Reasons
<1>10. WorkInv'
    BY DEF WorkInv, OpsInv, OpInv, MuInv, JanitorInv, Serving, Young, Down, InUse, TypeOK,
           PCs, TeardownPCs, BootPCs, Procs, AuthKinds, Reasons
<1>11. CountInv' /\ NeverClosedUnderneath'
    BY DEF CountInv, InUse, NeverClosedUnderneath, InGate
<1>12. QED BY <1>1, <1>2, <1>3, <1>4, <1>5, <1>6, <1>7, <1>8, <1>9, <1>10, <1>11

LEMMA PubGateStep == ASSUME IInv, NEW p \in Procs, PubGate(p) PROVE IInv'
<1> USE ConstantsAssumption, EngineSets DEF IInv, PubGate, Goto, depsVars, engineVars, dirVars, opVars, reqVars
<1>1. TypeOK'
    BY DEF TypeOK, PCs, TeardownPCs, BootPCs, Procs, AuthKinds, Reasons
<1>2. MuInv'
    BY DEF MuInv, OpsInv, OpInv, TypeOK, PCs, TeardownPCs, BootPCs, Procs, AuthKinds,
           Reasons
<1>3. FreshInv'
    BY DEF FreshInv, InUse, MuInv, OpsInv, OpInv, Serving, Down, Stable, Young, TypeOK, PCs,
           TeardownPCs, BootPCs, Procs, AuthKinds, Reasons
<1>4. OpsInv'
    BY DEF OpsInv, OpInv, MuInv, Stable, Down, Serving, Young, InUse, TypeOK, PCs,
           TeardownPCs, BootPCs, Procs, AuthKinds, Reasons
<1>5. GateInv'
    BY DEF GateInv, OpsInv, OpInv, MuInv, Stable, Down, Serving, Young, TypeOK, PCs,
           TeardownPCs, BootPCs, Procs, AuthKinds, Reasons
<1>6. LockInv'
    BY DEF LockInv, DirInv, Alive, JanitorActive, OpsInv, OpInv, MuInv, Serving, Young,
           Down, TypeOK, PCs, TeardownPCs, BootPCs, Procs, AuthKinds, Reasons
<1>7. WorkInv'
    BY DEF WorkInv, OpsInv, OpInv, MuInv, JanitorInv, Serving, Young, Down, InUse, TypeOK,
           PCs, TeardownPCs, BootPCs, Procs, AuthKinds, Reasons
<1>8. CountInv' /\ JanitorInv' /\ NeverClosedUnderneath' /\ SeesOneEngine' /\ DirInv'
    BY DEF CountInv, InUse, JanitorInv, NeverClosedUnderneath, InGate, SeesOneEngine,
           GateInv, Abandoned, DirInv, Alive, JanitorActive
<1>9. QED BY <1>1, <1>2, <1>3, <1>4, <1>5, <1>6, <1>7, <1>8

LEMMA PubReadyStep == ASSUME IInv, NEW p \in Procs, PubReady(p) PROVE IInv'
<1> USE ConstantsAssumption, EngineSets DEF IInv, PubReady, Goto, depsVars, engineVars, dirVars, opVars, reqVars
<1>1. TypeOK'
    BY DEF TypeOK, PCs, TeardownPCs, BootPCs, Procs, AuthKinds, Reasons
<1>2. MuInv'
    BY DEF MuInv, OpsInv, OpInv, TypeOK, PCs, TeardownPCs, BootPCs, Procs, AuthKinds,
           Reasons
<1>3. FreshInv'
    BY DEF FreshInv, InUse, MuInv, OpsInv, OpInv, Serving, Down, Stable, Young, TypeOK, PCs,
           TeardownPCs, BootPCs, Procs, AuthKinds, Reasons
<1>4. OpsInv'
    BY DEF OpsInv, OpInv, MuInv, Stable, Down, Serving, Young, InUse, TypeOK, PCs,
           TeardownPCs, BootPCs, Procs, AuthKinds, Reasons
<1>5. GateInv'
    BY DEF GateInv, OpsInv, OpInv, MuInv, Stable, Down, Serving, Young, TypeOK, PCs,
           TeardownPCs, BootPCs, Procs, AuthKinds, Reasons
<1>6. JanitorInv'
    BY DEF JanitorInv, InUse, OpsInv, OpInv, MuInv, Stable, Down, Serving, Young, TypeOK,
           PCs, TeardownPCs, BootPCs, Procs, AuthKinds, Reasons
<1>7. DirInv'
    BY DEF DirInv, Alive, JanitorActive, OpsInv, OpInv, MuInv, JanitorInv, FreshInv, Stable,
           Serving, Young, Down, TypeOK, PCs, TeardownPCs, BootPCs, Procs, AuthKinds,
           Reasons
<1>8. LockInv'
    BY DEF LockInv, DirInv, Alive, JanitorActive, OpsInv, OpInv, MuInv, Serving, Young,
           Down, TypeOK, PCs, TeardownPCs, BootPCs, Procs, AuthKinds, Reasons
<1>9. WorkInv'
    BY DEF WorkInv, OpsInv, OpInv, MuInv, JanitorInv, Serving, Young, Down, InUse, TypeOK,
           PCs, TeardownPCs, BootPCs, Procs, AuthKinds, Reasons
<1>10. CountInv' /\ NeverClosedUnderneath' /\ SeesOneEngine'
    BY DEF CountInv, InUse, NeverClosedUnderneath, InGate, SeesOneEngine, GateInv, Abandoned
<1>11. QED BY <1>1, <1>2, <1>3, <1>4, <1>5, <1>6, <1>7, <1>8, <1>9, <1>10

LEMMA InitIInv == Init => IInv
<1> SUFFICES ASSUME Init PROVE IInv
    OBVIOUS
<1> USE ConstantsAssumption, EngineSets DEF Init
<1>1. TypeOK
    <2>1. wg \in [Engines -> 0 .. MaxWork] /\ made \in EngineOrNil
        OBVIOUS
    <2>2. pc \in [Procs -> PCs] /\ kind \in [Procs -> AuthKinds \cup {"shutdown", "exit"}]
        BY DEF PCs, AuthKinds
    <2>3. QED BY <2>1, <2>2 DEF TypeOK, Reasons
<1>2. \A g : InUse(g) = {}
    BY DEF InUse
<1>3. CountInv
    BY <1>2, FS_EmptySet DEF CountInv
<1>4. MuInv /\ OpsInv
    BY DEF MuInv, OpsInv, OpInv, Stable, Down, TeardownPCs, BootPCs, Procs, AuthKinds
<1>5. FreshInv /\ GateInv /\ JanitorInv
    BY <1>2 DEF FreshInv, GateInv, JanitorInv, Procs
<1>6. NeverClosedUnderneath /\ SeesOneEngine
    BY DEF NeverClosedUnderneath, SeesOneEngine, InGate
<1>7. DirInv /\ LockInv /\ WorkInv
    BY DEF DirInv, LockInv, WorkInv, Alive, JanitorActive, Procs
<1>8. QED BY <1>1, <1>3, <1>4, <1>5, <1>6, <1>7 DEF IInv

\* No step of any goroutine breaks the invariant.
LEMMA NextIInv == IInv /\ [Next]_vars => IInv'
<1> SUFFICES ASSUME IInv, [Next]_vars PROVE IInv'
    OBVIOUS
<1>1. CASE \E r \in Requests : RequestStep(r)
    BY <1>1, ReadReadyStep, EnterStep, EnterRefusedStep, LeaveStep, StreamFinishStep,
       SpawnEngineStep DEF RequestStep
<1>2. CASE \E e \in Engines : JanitorStep(e) \/ WorkDone(e)
    BY <1>2, JanitorDrainedStep, JanitorJoinStep, JanitorSDKStep, JanitorUnlockStep,
       JanitorReleaseStep, WorkDoneStep DEF JanitorStep
<1>3. CASE \E p \in Procs : LockAuth(p) \/ TeardownStep(p)
    BY <1>3, LockAuthStep, TdReadyStep, TdReasonStep, TdCancelStep, TdCloseStep, TdDrainedStep,
       TdTimeoutStep, TdJoinStep, TdSDKStep, TdUnlockStep, TdClearStep, TdAbandonStep
       DEF TeardownStep
<1>4. CASE \E p \in Procs : BootStep(p)
    BY <1>4, BtDecideStep, BtRefusedStep, BtLockStep, BtSDKStep, BtRestStep, BtFailStep,
       BfJoinStep, BfSDKStep, BfUnlockStep, PubFieldsStep, PubGateStep, PubReadyStep DEF BootStep
<1>5. CASE \E c \in Controllers : StartOp(c)
    BY <1>5, AuthorizeStep, DeauthorizeStep DEF StartOp
<1>6. CASE Shutdown \/ HttpShutdown
    BY <1>6, ShutdownStep, HttpShutdownStep
<1>7. CASE UNCHANGED vars
    BY <1>7 DEF vars, depsVars, engineVars, dirVars, opVars, reqVars, IInv, TypeOK, MuInv, CountInv,
       FreshInv, OpsInv, OpInv, Stable, Down, Serving, Young, InUse, GateInv, JanitorInv,
       JanitorActive, Alive, DirInv, LockInv, WorkInv, NeverClosedUnderneath, SeesOneEngine,
       InGate, Abandoned
<1>8. QED BY <1>1, <1>2, <1>3, <1>4, <1>5, <1>6, <1>7 DEF Next, OpStep

THEOREM Inductive == Spec => []IInv
BY InitIInv, NextIInv, PTL DEF Spec

-----------------------------------------------------------------------------
(* What the invariant gives. *)

-----------------------------------------------------------------------------
\* The state stays well typed: in particular the gate's counters and the hold
\* counts of the dirs never go negative.
THEOREM TypeCorrect == Spec => []TypeOK
BY Inductive, PTL DEF IInv

\* A request keeps its engine: the SDK is never closed under a request admitted
\* to it, however late the request leaves, and unless its drain timed out it
\* reads the fields of that engine only.
THEOREM RequestsKeepTheirEngine == Spec => []RequestsKeepEngine
<1>1. IInv => RequestsKeepEngine
    BY DEF IInv, RequestsKeepEngine
<1>2. QED BY <1>1, Inductive, PTL

\* One open SDK per account dir, for every number of engines, requests and
\* auth handlers, with or without the OS lock.
THEOREM DirsExclusive == Spec => []OneEnginePerDir
<1>1. IInv => OneEnginePerDir
    BY DEF IInv, DirInv, OneEnginePerDir
<1>2. QED BY <1>1, Inductive, PTL

\* Goroutines are joined before their SDK closes, the two named exceptions
\* apart, and the instance lock is held for as long as the SDK is open.
THEOREM ReleasedInOrder == Spec => []TeardownOrdered
<1>1. IInv => LockCoversSDK
    BY DEF IInv, LockInv, LockCoversSDK
<1>2. IInv => WorkJoined
    BY DEF IInv, WorkInv, WorkJoined, TypeOK
<1>3. QED BY <1>1, <1>2, Inductive, PTL DEF TeardownOrdered

-----------------------------------------------------------------------------
(* The exit of the server.                                                 *)

\* Main is never one of the controllers, and under a deferred teardown it ends.
LEMMA ExitInvInit == Init => ExitInv
BY DEF Init, ExitInv, Procs

LEMMA ExitInvStep == IInv /\ ExitInv /\ [Next]_vars => ExitInv'
<1> SUFFICES ASSUME IInv, ExitInv, [Next]_vars PROVE ExitInv'
    OBVIOUS
<1> USE ConstantsAssumption DEF depsVars, engineVars, dirVars, opVars, reqVars
<1>0. pc \in [Procs -> PCs] /\ kind \in [Procs -> AuthKinds \cup {"shutdown", "exit"}]
    BY DEF IInv, TypeOK
<1>1. ASSUME NEW r \in Requests, RequestStep(r) PROVE ExitInv'
    BY <1>1 DEF ExitInv, RequestStep, ReadReady, Enter, EnterRefused, Leave, StreamFinish, SpawnEngine
<1>2. ASSUME NEW e \in Engines, JanitorStep(e) \/ WorkDone(e) PROVE ExitInv'
    BY <1>2 DEF ExitInv, JanitorStep, JanitorDrained, JanitorJoin, JanitorSDK, JanitorUnlock,
       JanitorRelease, WorkDone
<1>3. ASSUME NEW p \in Procs, OpStep(p) PROVE ExitInv'
    <2>1. UNCHANGED <<kind, httpTimedOut>> /\ \A q \in Procs \ {p} : pc'[q] = pc[q]
        BY <1>3, <1>0 DEF OpStep, LockAuth, TeardownStep, BootStep, Goto, TdReady, TdReason, TdCancel, TdClose,
           TdDrained, TdTimeout, TdJoin, TdSDK, TdUnlock, TdClear, TdAbandon, BtDecide, BtRefused,
           BtLock, BtSDK, BtRest, BtFail, BfJoin, BfSDK, BfUnlock, PubFields, PubGate, PubReady
    <2>2. pc[p] \notin {"idle", "http", "exited"}
        BY <1>3, <1>0 DEF OpStep, LockAuth, TeardownStep, BootStep, Goto, TdReady, TdReason, TdCancel, TdClose,
           TdDrained, TdTimeout, TdJoin, TdSDK, TdUnlock, TdClear, TdAbandon, BtDecide, BtRefused,
           BtLock, BtSDK, BtRest, BtFail, BfJoin, BfSDK, BfUnlock, PubFields, PubGate, PubReady
    <2>3. p \in Controllers => ~(kind[Main] = "exit" /\ ~httpTimedOut)
        BY <2>2 DEF ExitInv
    <2>4. pc'[p] = "exited" => kind[p] = "exit" /\ eng' = 0
        BY <1>3, <1>0 DEF OpStep, LockAuth, TeardownStep, BootStep, Goto, AfterTeardown, TdReady, TdReason, TdCancel, TdClose,
           TdDrained, TdTimeout, TdJoin, TdSDK, TdUnlock, TdClear, TdAbandon, BtDecide, BtRefused,
           BtLock, BtSDK, BtRest, BtFail, BfJoin, BfSDK, BfUnlock, PubFields, PubGate, PubReady
    <2>5. CASE p = Main
        BY <2>1, <2>4, <2>5 DEF ExitInv, Procs
    <2>6. CASE p \in Controllers
        BY <2>1, <2>3, <2>6 DEF ExitInv, Procs
    <2>7. QED BY <2>5, <2>6 DEF Procs
<1>4. ASSUME NEW c \in Controllers, StartOp(c) PROVE ExitInv'
    <2>1. Listening /\ UNCHANGED <<eng, httpTimedOut>> /\ pc'[Main] = pc[Main] /\ kind'[Main] = kind[Main]
        BY <1>4, <1>0 DEF StartOp, Authorize, Deauthorize, Procs
    <2>2. QED BY <2>1 DEF ExitInv, Listening
<1>5. CASE Shutdown
    BY <1>5, <1>0 DEF ExitInv, Shutdown, Procs
<1>6. CASE HttpShutdown
    BY <1>6, <1>0 DEF ExitInv, HttpShutdown, Procs
<1>7. CASE UNCHANGED vars
    BY <1>7 DEF ExitInv, vars
<1>8. QED BY <1>1, <1>2, <1>3, <1>4, <1>5, <1>6, <1>7 DEF Next

\* The server exits with every engine closed, or waiting for its straggler.
THEOREM ExitsClean == Spec => []NothingLeftAtExit
<1>1. IInv /\ ExitInv => NothingLeftAtExit
    <2> SUFFICES ASSUME IInv, ExitInv, pc[Main] = "exited", ~httpTimedOut,
                        NEW e \in Engines, sdk[e] = "open", ~Abandoned(e)
                 PROVE  FALSE
        BY DEF NothingLeftAtExit
    <2>1. eng = 0 /\ \A p \in Procs : pc[p] \in {"idle", "exited"}
        BY DEF ExitInv, Procs
    <2>2. \A p \in Procs : opEng[p] = 0
        BY <2>1 DEF IInv, MuInv, TeardownPCs, BootPCs
    <2>3. ~Alive(e)
        BY <2>1, <2>2, EngineSets DEF Alive, JanitorActive, Abandoned
    <2>4. QED BY <2>3 DEF IInv, DirInv
<1>2. QED BY <1>1, ExitInvInit, ExitInvStep, Inductive, PTL DEF Spec

-----------------------------------------------------------------------------
(* Why a stream was closed.                                                *)

LEMMA ReasonInvInit == Init => ReasonInv
BY DEF Init, ReasonInv, ReasonStored, TeardownPCs, Procs

\* An operation takes its steps alone: no other has authMu, or an engine in
\* hand, and if the current engine is cancelled, this one cancelled it.
LEMMA OperationAlone ==
    ASSUME IInv, ReasonInv, NEW p \in Procs, OpStep(p)
    PROVE  /\ \A q \in Procs \ {p} : pc[q] \notin TeardownPCs \cup BootPCs /\ pc'[q] = pc[q]
           /\ eng # 0 /\ cancelled[eng] => opEng[p] = eng /\ ReasonStored(p) /\ pc[p] # "td_cancel"
           /\ UNCHANGED <<rpc, frame, kind>>
<1>1. \A q \in Procs \ {p} : pc[q] \notin TeardownPCs \cup BootPCs
    <2>1. CASE LockAuth(p)
        <3>1. authMu = None /\ None \notin Procs
            BY <2>1, ConstantsAssumption DEF LockAuth, Procs
        <3>2. QED BY <3>1 DEF IInv, MuInv
    <2>2. CASE pc[p] \in TeardownPCs \cup BootPCs
        BY <2>2 DEF IInv, MuInv
    <2>3. QED BY <2>1, <2>2 DEF OpStep, TeardownStep, BootStep, TeardownPCs, BootPCs, TdReady, TdReason,
        TdCancel, TdClose, TdDrained, TdTimeout, TdJoin, TdSDK, TdUnlock, TdClear, TdAbandon, BtDecide,
        BtRefused, BtLock, BtSDK, BtRest, BtFail, BfJoin, BfSDK, BfUnlock, PubFields, PubGate, PubReady
<1>2. UNCHANGED <<rpc, frame, kind>> /\ \A q \in Procs \ {p} : pc'[q] = pc[q]
    BY DEF IInv, TypeOK, OpStep, LockAuth, TeardownStep, BootStep, Goto, reqVars, TdReady, TdReason,
       TdCancel, TdClose, TdDrained, TdTimeout, TdJoin, TdSDK, TdUnlock, TdClear, TdAbandon, BtDecide,
       BtRefused, BtLock, BtSDK, BtRest, BtFail, BfJoin, BfSDK, BfUnlock, PubFields, PubGate, PubReady
<1>3. QED BY <1>1, <1>2 DEF ReasonInv, ReasonStored

\* Hence only what the step does to its own engine and the current one counts.
LEMMA ReasonOp ==
    ASSUME IInv, ReasonInv, NEW p \in Procs, OpStep(p),
           \A e \in Engines : e > made' => ~cancelled'[e],
           pc'[p] \in {"bt_sdk", "bt_rest", "pub_fields"} => ~cancelled'[opEng'[p]],
           ReasonStored(p)' => closeReason'[opEng'[p]] = ReasonOf(kind[p]),
           eng' # 0 /\ cancelled'[eng'] => opEng'[p] = eng' /\ ReasonStored(p)' /\ pc'[p] # "td_cancel"
    PROVE  ReasonInv'
<1>1. ASSUME NEW q \in Procs
      PROVE  /\ pc'[q] \in {"bt_sdk", "bt_rest", "pub_fields"} => ~cancelled'[opEng'[q]]
             /\ ReasonStored(q)' => closeReason'[opEng'[q]] = ReasonOf(kind'[q])
    <2>1. CASE q = p
        BY <2>1, OperationAlone
    <2>2. CASE q # p
        BY <2>2, OperationAlone DEF ReasonStored, TeardownPCs, BootPCs
    <2>3. QED BY <2>1, <2>2
<1>2. \A r \in Requests : rpc'[r] # "idle" => frame'[r] = "none"
    BY OperationAlone DEF ReasonInv
<1>3. QED BY <1>1, <1>2 DEF ReasonInv

LEMMA ReasonTeardown ==
    ASSUME IInv, ReasonInv, NEW p \in Procs, TeardownStep(p) PROVE ReasonInv'
<1> USE EngineSets DEF depsVars, engineVars, dirVars, opVars, reqVars, Goto
<1>0. TypeOK /\ OpStep(p)
    BY DEF IInv, OpStep
<1>1. CASE TdReady(p) \/ TdClose(p) \/ TdDrained(p) \/ TdTimeout(p) \/ TdSDK(p) \/ TdUnlock(p)
    <2>1. UNCHANGED <<cancelled, closeReason, made, eng, opEng>>
        BY <1>1 DEF TdReady, TdClose, TdDrained, TdTimeout, TdSDK, TdUnlock, CloseSDK
    <2>2. pc'[p] \in TeardownPCs \ {"td_ready", "td_cancel"} /\ (ReasonStored(p) <=> ReasonStored(p)')
        BY <1>1, <1>0 DEF TdReady, TdClose, TdDrained, TdTimeout, TdSDK, TdUnlock, TypeOK,
           ReasonStored, TeardownPCs
    <2>3. QED BY <2>1, <2>2, <1>0, ReasonOp, OperationAlone DEF ReasonInv, TeardownPCs
<1>2. CASE TdReason(p)
    <2>1. opEng[p] = eng /\ eng \in Engines /\ ~ReasonStored(p)
        BY <1>2, <1>0 DEF TdReason, IInv, OpsInv, OpInv, Serving, TypeOK, ReasonStored
    <2>2. ~cancelled[eng] /\ UNCHANGED <<cancelled, made, eng, opEng>>
        BY <1>2, <2>1, <1>0, OperationAlone DEF TdReason
    <2>3. closeReason'[opEng[p]] = ReasonOf(kind[p]) /\ pc'[p] = "td_cancel"
        BY <1>2, <2>1, <1>0 DEF TdReason, TypeOK
    <2>4. QED BY <2>1, <2>2, <2>3, <1>0, ReasonOp DEF ReasonInv
<1>3. CASE TdCancel(p) \/ TdJoin(p)
    <2>1. opEng[p] = eng /\ eng \in Engines /\ ReasonStored(p) /\ eng <= made
        BY <1>3, <1>0 DEF TdCancel, TdJoin, IInv, OpsInv, OpInv, Serving, TypeOK, ReasonStored, TeardownPCs,
           FreshInv, Engines, EngineOrNil
    <2>2. UNCHANGED <<closeReason, made, eng, opEng>> /\ pc'[p] \in {"td_close", "td_sdk"}
        BY <1>3, <1>0 DEF TdCancel, TdJoin, CloseJoin, TypeOK
    <2>3. \A e \in Engines : e # eng => cancelled'[e] = cancelled[e]
        BY <1>3, <2>1, <1>0 DEF TdCancel, TdJoin, CloseJoin, TypeOK
    <2>4. \A e \in Engines : e > made' => ~cancelled'[e]
        BY <2>1, <2>2, <2>3, <1>0 DEF ReasonInv, TypeOK, Engines, EngineOrNil
    <2>5. ReasonStored(p)'
        BY <2>2 DEF ReasonStored, TeardownPCs
    <2>6. QED BY <2>1, <2>2, <2>4, <2>5, <1>0, ReasonOp DEF ReasonInv
<1>4. CASE TdClear(p) \/ TdAbandon(p)
    <2>1. eng' = 0 /\ UNCHANGED <<cancelled, made>>
        BY <1>4 DEF TdClear, TdAbandon
    <2>2. pc'[p] \in {"bt_decide", "http", "exited", "idle"}
        BY <1>4, <1>0 DEF TdClear, TdAbandon, AfterTeardown, TypeOK
    <2>3. QED BY <2>1, <2>2, <1>0, ReasonOp DEF ReasonInv, ReasonStored, TeardownPCs
<1>5. QED BY <1>1, <1>2, <1>3, <1>4 DEF TeardownStep

LEMMA ReasonBoot ==
    ASSUME IInv, ReasonInv, NEW p \in Procs, LockAuth(p) \/ BootStep(p) PROVE ReasonInv'
<1> USE EngineSets DEF depsVars, engineVars, dirVars, opVars, reqVars, Goto
<1>0. TypeOK /\ OpStep(p)
    BY DEF IInv, OpStep
<1>1. ~(eng # 0 /\ cancelled[eng])
    BY <1>0, OperationAlone DEF ReasonStored, TeardownPCs, LockAuth, BootStep, BtDecide, BtRefused, BtLock,
       BtSDK, BtRest, BtFail, BfJoin, BfSDK, BfUnlock, PubFields, PubGate, PubReady
<1>2. CASE LockAuth(p)
    <2>1. UNCHANGED <<cancelled, made, eng>>
        BY <1>2 DEF LockAuth
    <2>2. pc'[p] \in {"bt_decide", "idle", "http", "exited", "td_ready"}
        BY <1>2, <1>0 DEF LockAuth, AfterTeardown, TypeOK
    <2>3. QED BY <1>1, <2>1, <2>2, <1>0, ReasonOp DEF ReasonInv, ReasonStored, TeardownPCs
<1>3. CASE BtDecide(p) \/ BtRefused(p) \/ BtSDK(p) \/ BtRest(p) \/ BtFail(p) \/ BfSDK(p) \/ PubGate(p)
    <2>1. UNCHANGED <<cancelled, made, eng, opEng>>
        BY <1>3 DEF BtDecide, BtRefused, BtSDK, BtRest, BtFail, BfSDK, CloseSDK, PubGate
    <2>2. pc'[p] \in BootPCs \cup {"idle"} /\
          (pc'[p] \in {"bt_rest", "pub_fields"} => pc[p] \in {"bt_sdk", "bt_rest"}) /\ pc'[p] # "bt_sdk"
        BY <1>3, <1>0 DEF BtDecide, BtRefused, BtSDK, BtRest, BtFail, BfSDK, PubGate, TypeOK, BootPCs
    <2>3. QED BY <1>1, <2>1, <2>2, <1>0, ReasonOp DEF ReasonInv, ReasonStored, TeardownPCs, BootPCs
<1>4. CASE BtLock(p)
    <2>1. made' = made + 1 /\ opEng'[p] = made + 1 /\ made + 1 \in Engines /\ pc'[p] = "bt_sdk"
        BY <1>4, <1>0, ConstantsAssumption DEF BtLock, TypeOK, Engines, EngineOrNil
    <2>2. ~cancelled[made + 1] /\ UNCHANGED <<cancelled, eng>>
        BY <1>4, <2>1, <1>0 DEF BtLock, ReasonInv, TypeOK, Engines, EngineOrNil
    <2>3. \A e \in Engines : e > made' => ~cancelled'[e]
        BY <2>1, <2>2, <1>0 DEF ReasonInv, TypeOK, Engines, EngineOrNil
    <2>4. QED BY <1>1, <2>1, <2>2, <2>3, <1>0, ReasonOp DEF ReasonStored, TeardownPCs
<1>5. CASE BfJoin(p)
    <2>1. opEng[p] \in Engines /\ opEng[p] <= made /\ eng = 0
        BY <1>5, <1>0 DEF BfJoin, IInv, OpsInv, OpInv, Young, Down, TypeOK, FreshInv, Engines, EngineOrNil
    <2>2. UNCHANGED <<made, eng>> /\ pc'[p] = "bf_sdk"
        BY <1>5, <1>0 DEF BfJoin, CloseJoin, TypeOK
    <2>3. \A e \in Engines : e # opEng[p] => cancelled'[e] = cancelled[e]
        BY <1>5, <1>0 DEF BfJoin, CloseJoin, TypeOK
    <2>4. ASSUME NEW e \in Engines, e > made' PROVE ~cancelled'[e]
        <3>1. e # opEng[p] /\ e > made
            BY <2>1, <2>2, <2>4, <1>0 DEF TypeOK, Engines, EngineOrNil
        <3>2. QED BY <2>3, <3>1 DEF ReasonInv
    <2>5. QED BY <2>1, <2>2, <2>4, <1>0, ReasonOp DEF ReasonStored, TeardownPCs
<1>6. CASE PubFields(p)
    <2>1. ~cancelled[opEng[p]] /\ eng' = opEng[p] /\ pc'[p] = "pub_gate" /\ UNCHANGED <<cancelled, made>>
        BY <1>6, <1>0 DEF PubFields, ReasonInv, TypeOK
    <2>2. QED BY <2>1, <1>0, ReasonOp DEF ReasonInv, ReasonStored, TeardownPCs
<1>7. CASE BfUnlock(p) \/ PubReady(p)
    <2>1. UNCHANGED <<cancelled, made, eng>> /\ pc'[p] = "idle"
        BY <1>7, <1>0 DEF BfUnlock, PubReady, TypeOK
    <2>2. QED BY <1>1, <2>1, <1>0, ReasonOp DEF ReasonInv, ReasonStored, TeardownPCs
<1>8. QED BY <1>2, <1>3, <1>4, <1>5, <1>6, <1>7 DEF BootStep

LEMMA ReasonInvStep == IInv /\ ReasonInv /\ [Next]_vars => ReasonInv'
<1> SUFFICES ASSUME IInv, ReasonInv, [Next]_vars PROVE ReasonInv'
    OBVIOUS
<1> USE EngineSets DEF depsVars, engineVars, dirVars, opVars, reqVars
<1>0. TypeOK /\ MuInv
    BY DEF IInv
<1>1. ASSUME NEW r \in Requests, RequestStep(r) PROVE ReasonInv'
    <2>1. UNCHANGED <<cancelled, closeReason, made, eng, kind, pc, opEng>>
        BY <1>1 DEF RequestStep, ReadReady, Enter, EnterRefused, Leave, StreamFinish, SpawnEngine
    <2>2. \A q \in Requests : rpc'[q] # "idle" => frame'[q] = "none"
        BY <1>1, <1>0 DEF RequestStep, ReadReady, Enter, EnterRefused, Leave, StreamFinish, SpawnEngine,
           GateLeave, ReasonInv, TypeOK
    <2>3. QED BY <2>1, <2>2 DEF ReasonInv, ReasonStored
<1>2. ASSUME NEW e \in Engines, JanitorStep(e) \/ WorkDone(e) PROVE ReasonInv'
    <2>1. UNCHANGED <<closeReason, made, rpc, frame, eng, kind, pc, opEng>>
        BY <1>2 DEF JanitorStep, JanitorDrained, JanitorJoin, JanitorSDK, JanitorUnlock, JanitorRelease,
           WorkDone, CloseJoin, CloseSDK
    <2>2. CASE JanitorJoin(e)
        <3>1. e # eng /\ (\A p \in Procs : opEng[p] # e) /\ e <= made
            <4>1. janitor[e] = "join" /\ made \in EngineOrNil
                BY <2>2, <1>0 DEF JanitorJoin, JanitorGo, TypeOK
            <4>2. ~(e > made)
                BY <4>1 DEF IInv, FreshInv
            <4>3. QED BY <4>1, <4>2 DEF IInv, JanitorInv, Engines, EngineOrNil
        <3>2. \A f \in Engines : f # e => cancelled'[f] = cancelled[f]
            BY <2>2, <1>0 DEF JanitorJoin, CloseJoin, TypeOK
        <3>3. ASSUME NEW f \in Engines, f > made' PROVE ~cancelled'[f]
            <4>1. f # e /\ f > made
                BY <2>1, <3>1, <3>3, <1>0 DEF TypeOK, Engines, EngineOrNil
            <4>2. QED BY <3>2, <4>1 DEF ReasonInv
        <3>4. ASSUME NEW p \in Procs, pc[p] \in {"bt_sdk", "bt_rest", "pub_fields"}
              PROVE  cancelled'[opEng[p]] = cancelled[opEng[p]]
            BY <3>1, <3>2, <3>4, <1>0 DEF IInv, OpsInv, OpInv, Young, TypeOK
        <3>5. eng # 0 => cancelled'[eng] = cancelled[eng]
            BY <3>1, <3>2, <1>0 DEF TypeOK
        <3>6. QED BY <2>1, <3>3, <3>4, <3>5 DEF ReasonInv, ReasonStored
    <2>3. CASE JanitorDrained(e) \/ JanitorSDK(e) \/ JanitorUnlock(e) \/ JanitorRelease(e) \/ WorkDone(e)
        <3>1. cancelled' = cancelled
            BY <2>3 DEF JanitorDrained, JanitorSDK, JanitorUnlock, JanitorRelease, WorkDone, CloseSDK
        <3>2. QED BY <2>1, <3>1 DEF ReasonInv, ReasonStored
    <2>4. QED BY <1>2, <2>2, <2>3 DEF JanitorStep
<1>3. ASSUME NEW p \in Procs, OpStep(p) PROVE ReasonInv'
    BY <1>3, ReasonTeardown, ReasonBoot DEF OpStep
<1>4. CASE (\E c \in Controllers : StartOp(c)) \/ Shutdown \/ HttpShutdown
    <2>1. UNCHANGED <<cancelled, closeReason, made, rpc, frame, eng, opEng>>
        BY <1>4 DEF StartOp, Authorize, Deauthorize, Shutdown, HttpShutdown
    <2>2. \A p \in Procs : \/ pc'[p] = pc[p] /\ kind'[p] = kind[p]
                           \/ pc[p] \in {"idle", "serving", "http"} /\ pc'[p] = "want"
        BY <1>4, <1>0 DEF StartOp, Authorize, Deauthorize, Shutdown, HttpShutdown, TypeOK, Procs
    <2>3. QED BY <2>1, <2>2 DEF ReasonInv, ReasonStored, TeardownPCs
<1>5. CASE UNCHANGED vars
    BY <1>5 DEF vars, ReasonInv, ReasonStored
<1>6. QED BY <1>1, <1>2, <1>3, <1>4, <1>5 DEF Next

\* A stream ended by a teardown reports that teardown's reason: the one who
\* holds authMu with the stream's engine in hand.
THEOREM CloseReasonsHonest == Spec => HonestCloseReason
<1> DEFINE Honest == \A r \in Requests :
        InGate(r) /\ frame'[r] # "none" /\ ~Abandoned(rgen[r]) =>
            \E p \in Procs : authMu = p /\ opEng[p] = rgen[r] /\ frame'[r] = ReasonOf(kind[p])
<1>1. IInv /\ ReasonInv /\ [Next]_vars => [Honest]_vars
    <2> SUFFICES ASSUME IInv, ReasonInv, Next, NEW r \in Requests,
                        InGate(r), frame'[r] # "none", ~Abandoned(rgen[r])
                 PROVE  \E p \in Procs : authMu = p /\ opEng[p] = rgen[r] /\ frame'[r] = ReasonOf(kind[p])
        OBVIOUS
    <2>1. frame[r] = "none" /\ rpc[r] = "in" /\ TypeOK
        BY DEF ReasonInv, InGate, IInv
    <2>2. StreamFinish(r)
        <3>1. ~UNCHANGED frame
            BY <2>1
        <3>2. PICK q \in Requests : ReadReady(q) \/ StreamFinish(q)
            BY <3>1 DEF Next, RequestStep, Enter, EnterRefused, Leave, SpawnEngine, JanitorStep,
               JanitorDrained, JanitorJoin, JanitorSDK, JanitorUnlock, JanitorRelease, WorkDone, OpStep,
               LockAuth, TeardownStep, BootStep, TdReady, TdReason, TdCancel, TdClose, TdDrained, TdTimeout,
               TdJoin, TdSDK, TdUnlock, TdClear, TdAbandon, BtDecide, BtRefused, BtLock, BtSDK, BtRest,
               BtFail, BfJoin, BfSDK, BfUnlock, PubFields, PubGate, PubReady, StartOp, Authorize,
               Deauthorize, Shutdown, HttpShutdown, reqVars
        <3>3. q = r
            BY <2>1, <3>2 DEF ReadReady, StreamFinish, TypeOK
        <3>4. QED BY <2>1, <3>2, <3>3 DEF ReadReady
    <2>3. eng = rgen[r] /\ eng # 0
        BY <2>1 DEF IInv, SeesOneEngine, NeverClosedUnderneath, InGate
    <2>4. cancelled[eng] /\ frame'[r] = closeReason[eng]
        BY <2>1, <2>2, <2>3 DEF StreamFinish, TypeOK
    <2>5. PICK p \in Procs : opEng[p] = eng /\ ReasonStored(p)
        BY <2>3, <2>4 DEF ReasonInv
    <2>6. authMu = p /\ closeReason[opEng[p]] = ReasonOf(kind[p])
        BY <2>5, <2>3 DEF IInv, MuInv, ReasonInv
    <2>7. QED BY <2>3, <2>4, <2>5, <2>6
<1>2. QED BY <1>1, ReasonInvInit, ReasonInvStep, Inductive, PTL DEF Spec, HonestCloseReason

-----------------------------------------------------------------------------
(* Engine implements Sessions.                                             *)

\* The abstract state under the refinement mapping.
AbsDir == [e \in Engines |-> IF sdk[e] = "absent" THEN None ELSE acct[e]]
AbsUsers == [e \in Engines |-> InUse(e)]
AbsStep == Abstract!SNext \/ UNCHANGED Abstract!svars

\* Steps that touch neither an SDK, nor an account, nor a request's place in
\* the gate are invisible.
LEMMA Invisible == ASSUME UNCHANGED <<sdk, acct, rpc, rgen>> PROVE AbsStep
BY DEF AbsStep, Abstract!svars

\* Closing an SDK nobody uses is Close; closing one that never opened is not
\* seen.
LEMMA ClosingRefines ==
    ASSUME IInv, NEW e \in Engines, InUse(e) = {}, CloseSDK(e), UNCHANGED <<rpc, rgen>>
    PROVE  AbsStep
<1> USE DEF IInv, CloseSDK
<1>1. CASE sdk[e] = "open"
    <2>1. sdk' = [sdk EXCEPT ![e] = "closed"]
        BY <1>1 DEF TypeOK
    <2>2. AbsDir' = AbsDir /\ AbsUsers' = AbsUsers
        BY <2>1, <1>1 DEF AbsDir, AbsUsers, InUse, TypeOK
    <2>3. Abstract!Close(e)
        BY <1>1, <2>1, <2>2 DEF Abstract!Close, AbsDir, AbsUsers, InUse
    <2>4. QED BY <2>3 DEF AbsStep, Abstract!SNext
<1>2. CASE sdk[e] # "open"
    <2>1. sdk' = sdk
        BY <1>2 DEF TypeOK
    <2>2. QED BY <2>1, Invisible
<1>3. QED BY <1>1, <1>2

\* gate.leave is Part.
LEMMA LeavingRefines ==
    ASSUME IInv, NEW r \in Requests, rpc[r] = "in", GateLeave(r), UNCHANGED <<sdk, acct>>
    PROVE  AbsStep
<1> USE DEF IInv, GateLeave
<1>1. rgen[r] \in Engines
    BY EngineSets DEF NeverClosedUnderneath, InGate, TypeOK
<1>2. \A e \in Engines : InUse(e)' = IF e = rgen[r] THEN InUse(e) \ {r} ELSE InUse(e)
    BY EngineSets DEF InUse, TypeOK
<1>3. AbsUsers' = [AbsUsers EXCEPT ![rgen[r]] = @ \ {r}]
    BY <1>1, <1>2 DEF AbsUsers
<1>4. r \in AbsUsers[rgen[r]]
    BY <1>1 DEF AbsUsers, InUse
<1>5. PICK g \in Engines : g = rgen[r]
    BY <1>1
<1>6. Abstract!Part(g, r)
    BY <1>3, <1>4, <1>5 DEF Abstract!Part, AbsUsers, InUse
<1>7. QED BY <1>6 DEF AbsStep, Abstract!SNext

\* gate.enter is Join.
LEMMA EnteringRefines == ASSUME IInv, NEW r \in Requests, Enter(r) PROVE AbsStep
<1> USE DEF IInv, Enter, engineVars
<1>1. cur \in Engines /\ sdk[cur] = "open"
    BY EngineSets DEF GateInv, Serving, TypeOK
<1>2. \A e \in Engines : InUse(e)' = IF e = cur THEN InUse(e) \cup {r} ELSE InUse(e)
    BY DEF InUse, TypeOK
<1>3. AbsUsers' = [AbsUsers EXCEPT ![cur] = @ \cup {r}]
    BY <1>1, <1>2 DEF AbsUsers
<1>4. r \notin AbsUsers[cur]
    BY <1>1 DEF AbsUsers, InUse
<1>5. PICK g \in Engines : g = cur
    BY <1>1
<1>6. Abstract!Join(g, r)
    BY <1>1, <1>3, <1>4, <1>5 DEF Abstract!Join, AbsUsers, InUse
<1>7. QED BY <1>6 DEF AbsStep, Abstract!SNext

\* OpenSDK is Open: the dir of the booting engine is its own.
LEMMA OpeningRefines == ASSUME IInv, NEW p \in Procs, BtSDK(p) PROVE AbsStep
<1> USE DEF IInv, BtSDK, reqVars
<1>1. PICK e \in Engines : e = opEng[p] /\ sdk[e] = "absent"
    BY EngineSets DEF OpsInv, OpInv, Young, TypeOK
<1>2. PICK d \in Accounts : d = acct[e]
    BY <1>1 DEF Alive, DirInv
<1>3. \A t \in Engines : sdk[t] = "open" => acct[t] # d
    BY <1>1, <1>2 DEF Alive, DirInv
<1>4. sdk' = [sdk EXCEPT ![e] = "open"] /\ acct' = acct
    BY <1>1
<1>5. AbsDir' = [AbsDir EXCEPT ![e] = d]
    <2>1. \A t \in Engines : AbsDir'[t] = IF t = e THEN d ELSE AbsDir[t]
        BY <1>1, <1>2, <1>4 DEF AbsDir, TypeOK
    <2>2. QED BY <1>1, <2>1 DEF AbsDir
<1>6. AbsUsers' = AbsUsers
    BY DEF AbsUsers, InUse
<1>7. Abstract!Open(e, d)
    BY <1>1, <1>3, <1>4, <1>5, <1>6 DEF Abstract!Open, AbsDir, AbsUsers, InUse
<1>8. QED BY <1>7 DEF AbsStep, Abstract!SNext

\* newEngine names the account of an SDK that is not open yet.
LEMMA LockingRefines == ASSUME IInv, NEW p \in Procs, BtLock(p) PROVE AbsStep
<1> USE DEF IInv, BtLock, reqVars
<1>1. made + 1 \in Engines /\ sdk[made + 1] = "absent"
    BY ConstantsAssumption DEF FreshInv, TypeOK, Engines, EngineOrNil
<1>2. sdk' = sdk /\ AbsUsers' = AbsUsers
    BY DEF AbsUsers, InUse
<1>3. AbsDir' = AbsDir
    BY <1>1, <1>2 DEF AbsDir, TypeOK
<1>4. QED BY <1>2, <1>3 DEF AbsStep, Abstract!svars, AbsDir, AbsUsers, InUse

LEMMA RefinesInit == Init => Abstract!SInit
BY DEF Init, Abstract!SInit

LEMMA RefinesStep == IInv /\ [Next]_vars => [Abstract!SNext]_(Abstract!svars)
<1> SUFFICES ASSUME IInv, [Next]_vars PROVE AbsStep
    BY DEF AbsStep
<1> USE DEF vars, depsVars, engineVars, dirVars, opVars, reqVars
<1>1. ASSUME NEW r \in Requests, RequestStep(r) PROVE AbsStep
    <2>1. CASE ReadReady(r) \/ EnterRefused(r)
        <3>1. sdk' = sdk /\ acct' = acct /\ \A e \in Engines : InUse(e)' = InUse(e)
            BY <2>1 DEF IInv, TypeOK, ReadReady, EnterRefused, InUse
        <3>2. QED BY <3>1 DEF AbsStep, Abstract!svars, InUse
    <2>2. CASE Enter(r)
        BY <2>2, EnteringRefines
    <2>3. CASE Leave(r) \/ StreamFinish(r)
        BY <2>3, LeavingRefines DEF Leave, StreamFinish
    <2>4. CASE SpawnEngine(r)
        BY <2>4, Invisible DEF SpawnEngine
    <2>5. QED BY <1>1, <2>1, <2>2, <2>3, <2>4 DEF RequestStep
<1>2. ASSUME NEW e \in Engines, JanitorStep(e) \/ WorkDone(e) PROVE AbsStep
    <2>1. CASE JanitorSDK(e)
        <3>1. InUse(e) = {}
            BY <2>1 DEF IInv, JanitorInv, JanitorSDK, JanitorGo
        <3>2. QED BY <2>1, <3>1, ClosingRefines DEF JanitorSDK
    <2>2. CASE JanitorDrained(e) \/ JanitorJoin(e) \/ JanitorUnlock(e) \/ JanitorRelease(e) \/ WorkDone(e)
        BY <2>2, Invisible
        DEF JanitorDrained, JanitorJoin, JanitorUnlock, JanitorRelease, WorkDone, CloseJoin
    <2>3. QED BY <1>2, <2>1, <2>2 DEF JanitorStep
<1>3. ASSUME NEW p \in Procs, OpStep(p) PROVE AbsStep
    <2>1. CASE TdSDK(p) \/ BfSDK(p)
        <3>1. opEng[p] \in Engines /\ InUse(opEng[p]) = {}
            BY <2>1, EngineSets DEF IInv, OpsInv, OpInv, Serving, Young, TypeOK, TdSDK, BfSDK
        <3>2. QED BY <2>1, <3>1, ClosingRefines DEF TdSDK, BfSDK
    <2>2. CASE BtSDK(p)
        BY <2>2, OpeningRefines
    <2>3. CASE BtLock(p)
        BY <2>3, LockingRefines
    <2>4. CASE \/ LockAuth(p) \/ TdReady(p) \/ TdReason(p) \/ TdCancel(p) \/ TdClose(p) \/ TdDrained(p)
               \/ TdTimeout(p) \/ TdJoin(p) \/ TdUnlock(p) \/ TdClear(p) \/ TdAbandon(p)
        BY <2>4, Invisible DEF LockAuth, TdReady, TdReason, TdCancel, TdClose, TdDrained, TdTimeout,
           TdJoin, TdUnlock, TdClear, TdAbandon, CloseJoin
    <2>5. CASE \/ BtDecide(p) \/ BtRefused(p) \/ BtRest(p) \/ BtFail(p) \/ BfJoin(p) \/ BfUnlock(p)
               \/ PubFields(p) \/ PubGate(p) \/ PubReady(p)
        BY <2>5, Invisible DEF BtDecide, BtRefused, BtRest, BtFail, BfJoin, BfUnlock, PubFields,
           PubGate, PubReady, CloseJoin
    <2>6. QED BY <1>3, <2>1, <2>2, <2>3, <2>4, <2>5 DEF OpStep, TeardownStep, BootStep
<1>4. CASE (\E c \in Controllers : StartOp(c)) \/ Shutdown \/ HttpShutdown \/ UNCHANGED vars
    BY <1>4, Invisible DEF StartOp, Authorize, Deauthorize, Shutdown, HttpShutdown
<1>5. QED BY <1>1, <1>2, <1>3, <1>4 DEF Next

\* Every behaviour of the engine lifecycle is a behaviour of Sessions.
THEOREM EngineImplementsSessions == Spec => ImplementsSessions
BY RefinesInit, RefinesStep, Inductive, PTL DEF Spec, ImplementsSessions, Abstract!SSpec

----------------------------------------------------------------------------
(* RowWritten (PutRow): a row of an id that was asked for, if it makes the
   space active or will, and no tombstone of a derived one. *)
LEMMA RowWritten ==
  ASSUME RowsInv, NEW dev \in Devices, NEW id \in Ids, NEW st \in Statuses \ {"none"},
         PutRow(dev, id, st), asked \subseteq asked',
         st \in {"active", "joining"} => id \in asked', id \in Derived => st = "active"
  PROVE  RowsInv'
<1>1. /\ writes' = writes + 1 /\ writes' \in 0..MaxWrites
      /\ row' = [row EXCEPT ![dev] = [row[dev] EXCEPT ![id] = [st |-> st, at |-> writes']]]
  BY SpacesAssumption DEF PutRow, RowsInv
<1> DEFINE new == [st |-> st, at |-> writes']
<1>2. new \in Row /\ new.st = st
  BY <1>1 DEF Row
<1> HIDE DEF new, Row
<1>3. /\ row' \in [Devices -> [Ids -> Row]] /\ row'[dev][id] = new
      /\ \A d \in Devices, i \in Ids : d # dev \/ i # id => row'[d][i] = row[d][i]
  BY <1>1, <1>2 DEF RowsInv, new
<1>4. Wanted'
  BY <1>2, <1>3 DEF RowsInv, Wanted, St
<1>5. DerivedRows'
  BY <1>2, <1>3 DEF RowsInv, DerivedRows, St, Ids
<1> QED BY <1>1, <1>3, <1>4, <1>5 DEF RowsInv

(* RowsReceived (Receive): rows that travel stay what they were, and take
   no derived space's content with them. *)
LEMMA RowsReceived ==
  ASSUME RowsInv, ContentInv, NEW dev \in Devices, NEW from \in [Ids -> Devices],
         Receive(dev, from), UNCHANGED <<writes, asked>>
  PROVE  /\ RowsInv' /\ ContentInv'
         /\ \A d \in Devices : indexed[d] \cap Derived \subseteq indexed'[d]
<1> DEFINE newer == {id \in Ids : row[from[id]][id].at > row[dev][id].at}
           ended == {id \in newer : row[from[id]][id].st # "active"}
           there == [id \in Ids |-> IF id \in newer THEN row[from[id]][id] ELSE row[dev][id]]
<1>1. /\ row' = [row EXCEPT ![dev] = there]
      /\ stored' = [stored EXCEPT ![dev] = @ \ ended]
      /\ indexed' = [indexed EXCEPT ![dev] = @ \ ended]
  BY DEF Receive
<1>2. \A id \in Ids : there[id] = row[from[id]][id] \/ there[id] = row[dev][id]
  OBVIOUS
<1>3. row \in [Devices -> [Ids -> Row]] /\ \A id \in Ids : from[id] \in Devices
  BY DEF RowsInv
<1>4. ended \cap Derived = {}
  <2>1. ASSUME NEW id \in newer, id \in Derived PROVE row[from[id]][id].st = "active"
    <3>1. row[from[id]][id] \in Row /\ row[dev][id] \in Row /\ from[id] \in Devices
      BY <1>3
    <3>2. row[from[id]][id].at # 0
      BY <3>1, SpacesAssumption DEF Row
    <3> QED BY <2>1, <3>1, <3>2 DEF RowsInv, DerivedRows, St
  <2> QED BY <2>1
<1>5. there \in [Ids -> Row]
  <2> HIDE DEF Row
  <2> QED BY <1>3
<1> HIDE DEF newer, ended, there, Row
<1>6. /\ row' \in [Devices -> [Ids -> Row]]
      /\ \A d \in Devices, id \in Ids : \E e \in Devices : row'[d][id] = row[e][id]
  BY <1>1, <1>2, <1>3, <1>5
<1>7. Wanted' /\ DerivedRows'
  BY <1>6 DEF RowsInv, Wanted, DerivedRows, St, Ids
<1>8. RowsInv'
  BY <1>6, <1>7 DEF RowsInv
<1>9. ContentInv'
  BY <1>1 DEF ContentInv, NothingUnasked
<1>10. \A d \in Devices : indexed[d] \cap Derived \subseteq indexed'[d]
  BY <1>1, <1>4 DEF ContentInv
<1> QED BY <1>8, <1>9, <1>10

(* RowsStay: a step that writes no row. *)
LEMMA RowsStay ==
  ASSUME RowsInv, UNCHANGED rows, asked \subseteq asked' PROVE RowsInv'
  BY DEF RowsInv, rows, Wanted, DerivedRows, St

(* ContentStays: what a step brings to a device was asked for. *)
LEMMA ContentStays ==
  ASSUME ContentInv, asked' \subseteq Ids, asked \subseteq asked',
         stored' \in [Devices -> SUBSET Ids], indexed' \in [Devices -> SUBSET Ids],
         \A d \in Devices : stored'[d] \subseteq stored[d] \cup asked'
  PROVE  ContentInv'
  BY DEF ContentInv, NothingUnasked

(* PassesStay: a step outside the boot pass that drops no derived index. *)
LEMMA PassesStay ==
  ASSUME PassesInv, UNCHANGED passes,
         \A d \in Devices : indexed[d] \cap Derived \subseteq indexed'[d]
  PROVE  PassesInv'
  BY DEF PassesInv, passes, NoBlindRead

(* PassMoves (Pass): one entry of one pass changes its phase. *)
LEMMA PassMoves ==
  ASSUME PassesInv, NEW dev \in Devices, NEW id \in Derived, NEW from, NEW to \in Phases,
         Pass(dev, id, from, to), to = "registry" => id \in indexed'[dev],
         read' \subseteq Devices \X Derived,
         \A d \in Devices : indexed[d] \cap Derived \subseteq indexed'[d],
         \A d \in Devices, i \in Derived : <<d, i>> \in read' => i \in indexed'[d]
  PROVE  PassesInv'
<1>1. boot' = [boot EXCEPT ![dev] = [boot[dev] EXCEPT ![id] = to]]
  BY DEF Pass
<1> HIDE DEF Phases
<1>2. /\ boot' \in [Devices -> [Derived -> Phases]] /\ boot'[dev][id] = to
      /\ \A d \in Devices, i \in Derived : d # dev \/ i # id => boot'[d][i] = boot[d][i]
  BY <1>1 DEF PassesInv
<1> QED BY <1>2 DEF PassesInv, NoBlindRead

LEMMA InitSpacesInv == SpacesInit => SpacesInv
<1> SUFFICES ASSUME SpacesInit PROVE SpacesInv
  OBVIOUS
<1>1. [st |-> "none", at |-> 0] \in Row
  BY SpacesAssumption DEF Row, Statuses
<1> HIDE DEF Row
<1>2. RowsInv
  BY <1>1, SpacesAssumption DEF SpacesInit, RowsInv, Wanted, DerivedRows, St, Ids
<1>3. ContentInv /\ PassesInv /\ AclInv
  BY DEF SpacesInit, ContentInv, NothingUnasked, PassesInv, NoBlindRead, Phases, AclInv
<1> QED BY <1>2, <1>3 DEF SpacesInv

----------------------------------------------------------------------------
(* ActivateKeeps (Activate): an explicit call makes a space active, and is
   what asks for it. *)
LEMMA ActivateKeeps ==
  ASSUME SpacesInv, NEW dev \in Devices, NEW id \in Ids, Activate(dev, id),
         UNCHANGED <<acl, passes>>,
         indexed' \in {indexed, [indexed EXCEPT ![dev] = @ \cup {id}]}
  PROVE  SpacesInv'
<1>1. PutRow(dev, id, "active") /\ asked' = asked \cup {id}
      /\ stored' = [stored EXCEPT ![dev] = @ \cup {id}]
  BY DEF Activate
<1>2. RowsInv'
  BY <1>1, RowWritten DEF SpacesInv, Statuses
<1>3. ContentInv'
  <2>1. /\ stored' \in [Devices -> SUBSET Ids] /\ indexed' \in [Devices -> SUBSET Ids]
        /\ \A d \in Devices : stored'[d] \subseteq stored[d] \cup asked'
    BY <1>1 DEF SpacesInv, ContentInv
  <2> QED BY <1>1, <2>1, ContentStays DEF SpacesInv, ContentInv
<1>4. PassesInv'
  BY PassesStay DEF SpacesInv, ContentInv
<1> QED BY <1>2, <1>3, <1>4 DEF SpacesInv, AclInv, acl

(* WriteKeeps (PutRow): a row that does not make the space active, and takes
   no content of a derived one. *)
LEMMA WriteKeeps ==
  ASSUME SpacesInv, NEW dev \in Devices, NEW id \in Ids \ Derived, NEW st \in Statuses \ {"none"},
         PutRow(dev, id, st), asked' \in {asked, asked \cup {id}},
         st \in {"active", "joining"} => id \in asked', UNCHANGED passes, AclInv',
         stored' \in {stored, [stored EXCEPT ![dev] = @ \ {id}]}
             \/ (stored' = [stored EXCEPT ![dev] = @ \cup {id}] /\ id \in asked'),
         indexed' \in {indexed, [indexed EXCEPT ![dev] = @ \ {id}]}
  PROVE  SpacesInv'
<1>2. RowsInv'
  BY RowWritten DEF SpacesInv
<1>3. ContentInv'
  <2>1. /\ stored' \in [Devices -> SUBSET Ids] /\ indexed' \in [Devices -> SUBSET Ids]
        /\ \A d \in Devices : stored'[d] \subseteq stored[d] \cup asked'
    BY DEF SpacesInv, ContentInv
  <2> QED BY <2>1, ContentStays DEF SpacesInv, ContentInv
<1>4. PassesInv'
  BY PassesStay DEF SpacesInv, ContentInv
<1> QED BY <1>2, <1>3, <1>4 DEF SpacesInv

(* OwnKeeps (OwnAct): the account's own calls and what the SDK brings. *)
LEMMA OwnKeeps ==
  ASSUME SpacesInv, NEW dev \in Devices, NEW id \in Ids, OwnAct(dev, id) PROVE SpacesInv'
<1>s. /\ Statuses = {"joining", "one_to_one_pending", "invite_pending", "one_to_one_declined",
                     "invite_declined", "none", "active", "deleted", "withdrawn", "guest_revoked"}
  BY DEF Statuses, Pending, Declined
<1>d. id \in Derived => St(dev, id) \in {"none", "active"}
  BY DEF SpacesInv, RowsInv, DerivedRows
<1>k. UNCHANGED acl => AclInv'
  BY DEF SpacesInv, AclInv, acl
<1>1. CASE resolveSpace(dev, id) \/ spaceGet(dev, id)
  <2>1. Loaded(dev, id) /\ UNCHANGED <<rows, indexed, acl, passes, asked>>
    BY <1>1 DEF resolveSpace, spaceGet
  <2>2. ContentInv'
    <3>1. St(dev, id) = "active" => id \in asked
      BY DEF SpacesInv, RowsInv, Wanted
    <3>2. /\ stored' \in [Devices -> SUBSET Ids]
          /\ \A d \in Devices : stored'[d] \subseteq stored[d] \cup asked
      BY <2>1, <3>1 DEF Loaded, SpacesInv, ContentInv
    <3> QED BY <2>1, <3>2, ContentStays DEF SpacesInv, ContentInv
  <2> QED BY <2>1, <2>2, <1>k, RowsStay, PassesStay DEF SpacesInv, ContentInv
<1>2. CASE spaceCreate(dev, id) \/ derivedSpaceCreate(dev, id) \/ JoinGuest(dev, id)
           \/ spaceOneToOne(dev, id) \/ spaceOneToOneAccept(dev, id)
  BY <1>2, ActivateKeeps DEF spaceCreate, derivedSpaceCreate, JoinGuest, spaceOneToOne,
     spaceOneToOneAccept
<1>3. CASE spaceDelete(dev, id)
  <2>1. /\ id \in Ids \ Derived /\ PutRow(dev, id, "deleted") /\ UNCHANGED <<acl, passes, asked>>
        /\ stored' = [stored EXCEPT ![dev] = @ \ {id}]
        /\ indexed' = [indexed EXCEPT ![dev] = @ \ {id}]
    BY <1>3 DEF spaceDelete, isDerivedSpaceId
  <2> QED BY <2>1, <1>k, <1>s, WriteKeeps
<1>4. CASE aclCancelJoin(dev, id)
  <2>1. id \in Ids \ Derived /\ PutRow(dev, id, "withdrawn") /\ UNCHANGED <<local, passes, asked>>
        /\ chain' = [chain EXCEPT ![id] = "none"] /\ UNCHANGED <<invites, guests>>
    BY <1>4, SpacesAssumption DEF aclCancelJoin
  <2>2. AclInv'
    BY <2>1 DEF SpacesInv, AclInv
  <2> QED BY <2>1, <2>2, <1>s, WriteKeeps DEF local
<1>5. CASE SettleJoin(dev, id)
  <2>1. PICK st \in {"active", "withdrawn"} : PutRow(dev, id, st)
    BY <1>5 DEF SettleJoin
  <2>2. id \in Ids \ Derived /\ St(dev, id) = "joining" /\ UNCHANGED <<local, acl, passes, asked>>
    BY <1>5, SpacesAssumption DEF SettleJoin
  <2>3. id \in asked
    BY <2>2 DEF SpacesInv, RowsInv, Wanted
  <2> QED BY <2>1, <2>2, <2>3, <1>k, <1>s, WriteKeeps DEF local
<1>6. CASE InviteArrives(dev, id)
  <2>1. id \in Ids \ Derived /\ PutRow(dev, id, "invite_pending")
        /\ UNCHANGED <<local, acl, passes, asked>>
    BY <1>6, SpacesAssumption DEF InviteArrives
  <2> QED BY <2>1, <1>k, <1>s, WriteKeeps DEF local
<1>7. CASE spaceInviteAccept(dev, id)
  <2>1. id \in Ids \ Derived /\ PutRow(dev, id, "active") /\ UNCHANGED <<indexed, acl, passes>>
        /\ asked' = asked \cup {id}
        /\ stored' \in {stored, [stored EXCEPT ![dev] = @ \cup {id}]}
    BY <1>7, <1>d DEF spaceInviteAccept
  <2> QED BY <2>1, <1>k, <1>s, WriteKeeps
<1>8. CASE spaceInviteDecline(dev, id) \/ spaceOneToOneDecline(dev, id)
  <2>1. PICK st \in {"invite_declined", "one_to_one_declined"} : PutRow(dev, id, st)
    BY <1>8 DEF spaceInviteDecline, spaceOneToOneDecline
  <2>2. id \in Ids \ Derived /\ UNCHANGED <<local, acl, passes, asked>>
    BY <1>8, <1>d DEF spaceInviteDecline, spaceOneToOneDecline
  <2> QED BY <2>1, <2>2, <1>k, <1>s, WriteKeeps DEF local
<1>9. CASE spaceOneToOneRegisterIncoming(dev, id)
  <2>1. /\ id \in Direct /\ id \notin Derived
        /\ row' = [row EXCEPT ![dev] = [row[dev] EXCEPT ![id] =
                     [row[dev][id] EXCEPT !.st = "one_to_one_pending"]]]
        /\ UNCHANGED <<writes, local, acl, passes, asked>>
    BY <1>9, SpacesAssumption DEF spaceOneToOneRegisterIncoming
  <2> DEFINE new == [row[dev][id] EXCEPT !.st = "one_to_one_pending"]
  <2>2. row[dev][id] \in Row /\ row \in [Devices -> [Ids -> Row]]
    BY DEF SpacesInv, RowsInv
  <2>3. new \in Row /\ new.st = "one_to_one_pending"
    BY <2>2, <1>s DEF Row
  <2> HIDE DEF new, Row
  <2>4. /\ row' \in [Devices -> [Ids -> Row]] /\ row'[dev][id] = new
        /\ \A d \in Devices, i \in Ids : d # dev \/ i # id => row'[d][i] = row[d][i]
    BY <2>1, <2>2, <2>3 DEF new
  <2>5. Wanted'
    BY <2>1, <2>3, <2>4 DEF SpacesInv, RowsInv, Wanted, St
  <2>6. DerivedRows'
    BY <2>1, <2>4 DEF SpacesInv, RowsInv, DerivedRows, St, Ids
  <2>7. RowsInv'
    BY <2>1, <2>4, <2>5, <2>6 DEF SpacesInv, RowsInv
  <2>8. ContentInv' /\ PassesInv'
    BY <2>1, ContentStays, PassesStay DEF SpacesInv, ContentInv, local
  <2> QED BY <2>1, <2>7, <2>8, <1>k DEF SpacesInv
<1>10. CASE Sync(dev, id)
  <2>1. PICK other \in Devices : Receive(dev, [i \in Ids |-> IF i = id THEN other ELSE dev])
    BY <1>10 DEF Sync
  <2>2. [i \in Ids |-> IF i = id THEN other ELSE dev] \in [Ids -> Devices]
    OBVIOUS
  <2>3. UNCHANGED <<writes, acl, passes, asked>>
    BY <1>10 DEF Sync
  <2> QED BY <2>1, <2>2, <2>3, <1>k, RowsReceived, PassesStay DEF SpacesInv
<1> QED BY <1>1, <1>2, <1>3, <1>4, <1>5, <1>6, <1>7, <1>8, <1>9, <1>10 DEF OwnAct

(* AdoptKeeps (adoptDerivedSetup): the boot pass asks for nothing and reads
   only what is there. *)
LEMMA AdoptKeeps ==
  ASSUME SpacesInv, NEW dev \in Devices, NEW id \in Derived, adoptDerivedSetup(dev, id)
  PROVE  SpacesInv'
<1>k. UNCHANGED acl => AclInv'
  BY DEF SpacesInv, AclInv, acl
<1>r. ASSUME UNCHANGED rows, UNCHANGED asked PROVE RowsInv'
  BY <1>r, RowsStay DEF SpacesInv
<1>n. \A d \in Devices, i \in Derived : <<d, i>> \in read => i \in indexed[d]
  BY DEF SpacesInv, PassesInv, NoBlindRead
(* A step that only looks moves on to a phase other than the registry.      *)
<1>l. ASSUME NEW from, NEW to \in Phases \ {"registry"}, Pass(dev, id, from, to),
             UNCHANGED <<rows, indexed, acl, read, asked>>, ContentInv'
      PROVE  SpacesInv'
  <2>1. PassesInv'
    BY <1>l, <1>n, PassMoves DEF SpacesInv, PassesInv
  <2> QED BY <1>l, <1>k, <1>r, <2>1 DEF SpacesInv
<1>c. ASSUME UNCHANGED local, UNCHANGED asked PROVE ContentInv'
  BY <1>c DEF SpacesInv, ContentInv, NothingUnasked, local
<1>1. CASE ListCheck(dev, id) \/ ListAgain(dev, id) \/ Absent(dev, id) \/ WaitExpired(dev, id)
  <2>1. PICK from, to \in Phases \ {"registry"} : Pass(dev, id, from, to)
    BY <1>1 DEF ListCheck, ListAgain, Absent, WaitExpired, Phases
  <2>2. UNCHANGED <<rows, local, acl, read, asked>>
    BY <1>1 DEF ListCheck, ListAgain, Absent, WaitExpired
  <2> QED BY <2>1, <2>2, <1>l, <1>c DEF local
<1>2. CASE ListConverged(dev, id)
  <2>1. PICK newest \in [Ids -> Devices] : Receive(dev, newest)
    BY <1>2 DEF ListConverged
  <2>2. Pass(dev, id, "list", "converged") /\ UNCHANGED <<writes, acl, read, asked>>
    BY <1>2 DEF ListConverged
  <2>3. /\ RowsInv' /\ ContentInv'
        /\ \A d \in Devices : indexed[d] \cap Derived \subseteq indexed'[d]
    BY <2>1, <2>2, RowsReceived DEF SpacesInv
  <2>4. PassesInv'
    BY <2>2, <2>3, <1>n, PassMoves DEF SpacesInv, PassesInv, Phases
  <2> QED BY <2>2, <2>3, <2>4, <1>k DEF SpacesInv
<1>3. CASE Open(dev, id)
  <2>1. PICK to \in {"index", "done"} : Pass(dev, id, "open", to)
    BY <1>3 DEF Open
  <2>2. Loaded(dev, id) /\ UNCHANGED <<rows, indexed, acl, read, asked>>
    BY <1>3 DEF Open
  <2>3. id \in Ids /\ (St(dev, id) = "active" => id \in asked)
    BY DEF SpacesInv, RowsInv, Wanted, Ids
  <2>4. ContentInv'
    <3>1. /\ stored' \in [Devices -> SUBSET Ids]
          /\ \A d \in Devices : stored'[d] \subseteq stored[d] \cup asked
      BY <2>2, <2>3 DEF Loaded, SpacesInv, ContentInv
    <3> QED BY <2>2, <3>1, ContentStays DEF SpacesInv, ContentInv
  <2> QED BY <2>1, <2>2, <2>4, <1>l DEF Phases
<1>4. CASE IndexConverged(dev, id)
  <2>1. /\ Pass(dev, id, "index", "registry") /\ indexed' = [indexed EXCEPT ![dev] = @ \cup {id}]
        /\ UNCHANGED <<rows, stored, acl, read, asked>> /\ id \in Ids
    BY <1>4 DEF IndexConverged, Ids
  <2>2. /\ indexed' \in [Devices -> SUBSET Ids] /\ id \in indexed'[dev]
        /\ \A d \in Devices : indexed[d] \subseteq indexed'[d]
    BY <2>1 DEF SpacesInv, ContentInv
  <2>3. ContentInv'
    BY <2>1, <2>2, ContentStays DEF SpacesInv, ContentInv
  <2>4. PassesInv'
    BY <2>1, <2>2, <1>n, PassMoves DEF SpacesInv, PassesInv, Phases
  <2> QED BY <2>1, <2>3, <2>4, <1>k, <1>r DEF SpacesInv
<1>5. CASE ReadRegistry(dev, id)
  <2>1. /\ Pass(dev, id, "registry", "done") /\ read' = read \cup {<<dev, id>>}
        /\ UNCHANGED <<rows, local, acl, asked>>
    BY <1>5 DEF ReadRegistry
  <2>2. id \in indexed[dev]
    BY <2>1 DEF Pass, SpacesInv, PassesInv
  <2>3. PassesInv'
    <3>1. /\ read' \subseteq Devices \X Derived /\ UNCHANGED indexed
          /\ \A d \in Devices, i \in Derived : <<d, i>> \in read' => i \in indexed[d]
      BY <2>1, <2>2, <1>n DEF SpacesInv, PassesInv, local
    <3> QED BY <2>1, <3>1, PassMoves DEF SpacesInv, Phases
  <2> QED BY <2>1, <2>3, <1>k, <1>r, <1>c DEF SpacesInv
<1> QED BY <1>1, <1>2, <1>3, <1>4, <1>5 DEF adoptDerivedSetup

(* OwnerKeeps (OwnerAct, aclSelfRemove): membership moves only on the chain. *)
LEMMA OwnerKeeps ==
  ASSUME SpacesInv, NEW id \in Shared, OwnerAct(id) \/ \E dev \in Devices : aclSelfRemove(dev, id)
  PROVE  SpacesInv'
<1>1. UNCHANGED <<rows, local, passes, asked>>
  BY DEF OwnerAct, aclAccept, aclDecline, aclAdd, aclRemove, aclStopSharing, inviteCreate,
     inviteRevoke, guestKeyRevoke, aclSelfRemove, Chain
<1>2. AclInv'
  BY DEF OwnerAct, aclAccept, aclDecline, aclAdd, aclRemove, aclStopSharing, inviteCreate,
     inviteRevoke, guestKeyRevoke, aclSelfRemove, Chain, SpacesInv, AclInv
<1> QED BY <1>1, <1>2, RowsStay, ContentStays, PassesStay DEF SpacesInv, ContentInv, local

LEMMA NextSpacesInv == SpacesInv /\ [SpacesNext]_spaces => SpacesInv'
<1> SUFFICES ASSUME SpacesInv, [SpacesNext]_spaces PROVE SpacesInv'
  OBVIOUS
<1>1. CASE UNCHANGED spaces
  <2>1. UNCHANGED <<rows, local, acl, passes, asked>>
    BY <1>1 DEF spaces, rows, local, acl, passes
  <2>2. AclInv'
    BY <2>1 DEF SpacesInv, AclInv, acl
  <2> QED BY <2>1, <2>2, RowsStay, ContentStays, PassesStay DEF SpacesInv, ContentInv, local
<1>2. ASSUME NEW dev \in Devices, NEW id \in Shared, spaceJoin(dev, id) PROVE SpacesInv'
  <2>1. /\ id \in Ids \ Derived /\ PutRow(dev, id, "joining")
        /\ UNCHANGED <<local, invites, guests, passes>>
        /\ chain' = [chain EXCEPT ![id] = "requested"] /\ asked' = asked \cup {id}
    BY <1>2, SpacesAssumption DEF spaceJoin, Ids
  <2>2. AclInv'
    BY <2>1 DEF SpacesInv, AclInv
  <2>3. "joining" \in Statuses \ {"none"}
    BY DEF Statuses, Pending
  <2> QED BY <2>1, <2>2, <2>3, WriteKeeps DEF local
<1>3. ASSUME NEW dev \in Devices, spaceList(dev) PROVE SpacesInv'
  <2>1. /\ stored' = [stored EXCEPT ![dev] = @ \cup {id \in Ids : St(dev, id) = "active"}]
        /\ UNCHANGED <<rows, indexed, acl, passes, asked>>
    BY <1>3 DEF spaceList
  <2>2. /\ stored' \in [Devices -> SUBSET Ids]
        /\ \A d \in Devices : stored'[d] \subseteq stored[d] \cup asked
    BY <2>1 DEF SpacesInv, RowsInv, Wanted, ContentInv
  <2>3. ContentInv'
    BY <2>1, <2>2, ContentStays DEF SpacesInv, ContentInv
  <2>4. AclInv'
    BY <2>1 DEF SpacesInv, AclInv, acl
  <2> QED BY <2>1, <2>3, <2>4, RowsStay, PassesStay DEF SpacesInv, ContentInv
<1>4. CASE SpacesNext
  BY <1>2, <1>3, <1>4, OwnKeeps, OwnerKeeps, AdoptKeeps DEF SpacesNext
<1> QED BY <1>1, <1>4

(* SpaceListSound (spaceDelete, spaceJoin, bootstrapDerivedSetups): for any
   devices, spaces and writes, whatever order rows reach them in. *)
THEOREM SpaceListSound == SpacesSpec => []SpacesSound
<1>1. SpacesInit => SpacesInv
  BY InitSpacesInv
<1>2. SpacesInv /\ [SpacesNext]_spaces => SpacesInv'
  BY NextSpacesInv
<1>3. SpacesInv => SpacesSound
  BY DEF SpacesInv, RowsInv, Row, ContentInv, PassesInv, Phases, AclInv, SpacesSound,
     SpacesTypeOK, DerivedKept, DerivedRows
<1> QED BY <1>1, <1>2, <1>3, PTL DEF SpacesSpec

-----------------------------------------------------------------------------
(* The bundles installed in a space (see Bundles).                          *)

(* Claims are ordered, so that every set of them that has a winner keeps    *)
(* having one.                                                              *)
LEMMA WinnerOf ==
    ASSUME BundlesConstants, NEW claims \in SUBSET Roots, HasWinner(claims), claims # {}
    PROVE  /\ Winner(claims) \in claims
           /\ \A q \in claims : q # Winner(claims) => Beats(Winner(claims), q)
<1>1. PICK w \in claims : \A q \in claims : ~Beats(q, w)
    BY DEF HasWinner
<1>2. Winner(claims) \in claims /\ \A q \in claims : ~Beats(q, Winner(claims))
    BY <1>1 DEF Winner
<1>3. \A a, b \in Roots : a # b => Beats(a, b) \/ Beats(b, a)
    BY DEF Beats, Roots, BundlesConstants
<1> QED BY <1>2, <1>3

LEMMA WinnersJoin ==
    ASSUME BundlesConstants, NEW A \in SUBSET Roots, NEW B \in SUBSET Roots,
           HasWinner(A), HasWinner(B)
    PROVE  HasWinner(A \cup B)
<1>1. CASE A = {} \/ B = {}
    BY <1>1 DEF HasWinner
<1>2. CASE A # {} /\ B # {}
    <2>1. PICK a \in A : \A q \in A : ~Beats(q, a)
        BY <1>2 DEF HasWinner
    <2>2. PICK b \in B : \A q \in B : ~Beats(q, b)
        BY <1>2 DEF HasWinner
    <2>3. CASE Beats(a, b)
        <3>1. \A q \in Roots : Beats(q, a) => Beats(q, b)
            BY <2>3 DEF Beats, Roots, BundlesConstants
        <3> QED BY <2>1, <2>2, <3>1 DEF HasWinner
    <2>4. CASE ~Beats(a, b)
        <3>1. \A q \in Roots : Beats(q, b) \/ q = b \/ Beats(b, q)
            BY DEF Beats, Roots, BundlesConstants
        <3>2. \A q \in Roots : Beats(q, b) /\ ~Beats(q, a) /\ q # a => Beats(a, b)
            BY DEF Beats, Roots, BundlesConstants
        <3>3. \A q \in A \cup B : ~Beats(q, b)
            BY <2>1, <2>2, <2>4, <3>2
        <3> QED BY <3>3 DEF HasWinner
    <2> QED BY <2>3, <2>4
<1> QED BY <1>1, <1>2

LEMMA OneWinner ==
    ASSUME NEW r PROVE HasWinner({r})
BY DEF HasWinner, Beats

(* The derived root beats every other.                                      *)
LEMMA DerivedWins ==
    ASSUME BundlesConstants, NEW claims \in SUBSET Roots, HasWinner(claims), Canon \in claims
    PROVE  Winner(claims) = Canon
<1>1. Winner(claims) # Canon => Beats(Winner(claims), Canon)
    BY WinnerOf
<1> QED BY <1>1 DEF Beats

-----------------------------------------------------------------------------
(* What a step that leaves a part of the state alone keeps of the invariant. *)
LEMMA InstallsStay ==
    ASSUME BundlesInv, UNCHANGED <<minted, installed>> PROVE NoBlindFork'
BY DEF BundlesInv, NoBlindFork, AnswersHonest

LEMMA ResolvedStay ==
    ASSUME BundlesInv, \A d \in Members : reg[d] \subseteq reg'[d], UNCHANGED resolved
    PROVE  NothingUnmerged'
BY DEF BundlesInv, NothingUnmerged

LEMMA SightStays ==
    ASSUME BundlesInv, NEW d \in Members, call'[d] = call[d] \/ call'[d] = Idle,
           reg[d] \subseteq reg'[d], node.reg \subseteq node'.reg,
           RowLive(d) => RowLive(d)' \/ d \in Owners \/ node.reg \subseteq reg'[d]
    PROVE  Sighted(d)'
BY DEF BundlesInv, Sighted, Idle

LEMMA RowStays ==
    ASSUME NEW d, reg'[d] = reg[d], dead'[d] = dead[d] PROVE RowLive(d)' <=> RowLive(d)
BY DEF RowLive

LEMMA RootsStay ==
    ASSUME BundlesInv, UNCHANGED minted,
           \A d \in Members : call'[d] = call[d] \/ call'[d].at # "register"
    PROVE  OwnRoots'
BY DEF BundlesInv, OwnRoots

LEMMA ObserveTyped ==
    ASSUME BundlesInv, NEW d \in Members, NEW claims, NEW gone, Observe(d, claims, gone)
    PROVE  firstSeen' \in [Members -> [Roots -> {"no", "now", "past"}]]
BY DEF BundlesInv, BundlesTypeOK, Observe

LEMMA ForgetTyped ==
    ASSUME BundlesInv, NEW d \in Members, NEW rs, Forget(d, rs)
    PROVE  firstSeen' \in [Members -> [Roots -> {"no", "now", "past"}]]
BY DEF BundlesInv, BundlesTypeOK, Forget

(* A step that only dates losers and counts.                                *)
LEMMA DatesKeep ==
    ASSUME BundlesInv,
           firstSeen' \in [Members -> [Roots -> {"no", "now", "past"}]],
           retrying' \in [Members -> [Roots -> 0..RetryAttempts]], asks' \in 0..MaxAsks,
           UNCHANGED <<reg, dead, node, tree, synced, call, history, restarts>>
    PROVE  BundlesInv'
<1> USE DEF history
<1>1. BundlesTypeOK' /\ HistoryOK' /\ Whole'
    BY DEF BundlesInv, BundlesTypeOK, HistoryOK, Whole
<1>2. OwnRoots' /\ NothingUnmerged' /\ NoBlindFork'
    BY RootsStay, ResolvedStay, InstallsStay
<1>3. \A d \in Members : Sighted(d)'
    BY DEF BundlesInv, Sighted, RowLive
<1> QED BY <1>1, <1>2, <1>3 DEF BundlesInv

LEMMA GetKeeps ==
    ASSUME BundlesInv, NEW d \in Members, Get(d) PROVE BundlesInv'
<1>1. retrying' \in [Members -> [Roots -> 0..RetryAttempts]] /\ asks' \in 0..MaxAsks
    BY DEF Get, BundlesInv, BundlesTypeOK, bounds
<1> QED BY <1>1, ObserveTyped, DatesKeep DEF Get, bounds

LEMMA GraceKeeps ==
    ASSUME BundlesInv, NEW d \in Members, NEW r \in Roots, GracePasses(d, r) PROVE BundlesInv'
<1>1. firstSeen' \in [Members -> [Roots -> {"no", "now", "past"}]]
    BY DEF GracePasses, BundlesInv, BundlesTypeOK
<1>2. retrying' \in [Members -> [Roots -> 0..RetryAttempts]] /\ asks' \in 0..MaxAsks
    BY DEF GracePasses, BundlesInv, BundlesTypeOK, bounds
<1> QED BY <1>1, <1>2, DatesKeep DEF GracePasses, bounds

-----------------------------------------------------------------------------
(* The steps of a request.                                                  *)

(* A request that moves changes nothing but itself, the dates and bounds.   *)
LEMMA RequestKeeps ==
    ASSUME BundlesInv, NEW d \in Members,
           NEW to \in [at : {"idle", "wait", "mint"}, derived : BOOLEAN, declares : BOOLEAN,
                       base : SUBSET Roots, root : Roots, seen : SUBSET Roots],
           call' = [call EXCEPT ![d] = to], Sighted(d)',
           firstSeen' \in [Members -> [Roots -> {"no", "now", "past"}]],
           asks' \in 0..MaxAsks,
           UNCHANGED <<reg, dead, node, tree, synced, retrying, history, restarts>>
    PROVE  BundlesInv'
<1> USE DEF history
<1>1. BundlesTypeOK'
    BY DEF BundlesInv, BundlesTypeOK, HistoryOK
<1>2. HistoryOK' /\ Whole'
    BY DEF BundlesInv, HistoryOK, Whole, BundlesTypeOK
<1>3. \A e \in Members : e # d => call'[e] = call[e]
    BY DEF BundlesInv, HistoryOK
<1>4. call'[d] = to
    BY DEF BundlesInv, HistoryOK
<1>5. OwnRoots' /\ NothingUnmerged' /\ NoBlindFork'
    BY <1>3, <1>4, RootsStay, ResolvedStay, InstallsStay
<1>6. \A e \in Members : e # d => Sighted(e)'
    BY <1>3, SightStays, RowStays
<1> QED BY <1>1, <1>2, <1>5, <1>6 DEF BundlesInv

LEMMA Observed ==
    ASSUME BundlesInv, NEW d \in Members,
           IF RowLive(d) THEN Observe(d, reg[d], dead[d]) ELSE UNCHANGED firstSeen
    PROVE  firstSeen' \in [Members -> [Roots -> {"no", "now", "past"}]]
BY ObserveTyped DEF BundlesInv, BundlesTypeOK

(* Where a verdict takes a request.  It is about to create a root only over *)
(* a live install, or after the wait.                                       *)
LEMMA ProceedTo ==
    ASSUME BundlesInv, BundlesConstants, NEW d \in Members, NEW derived \in BOOLEAN,
           NEW declares \in BOOLEAN, NEW lacks \in BOOLEAN, NEW base \in SUBSET Roots, NEW absent \in {"wait", "mint"},
           Proceed(d, derived, declares, lacks, base, absent)
    PROVE  \E to \in [at : {"idle", "wait", "mint"}, derived : BOOLEAN, declares : BOOLEAN,
                      base : SUBSET Roots, root : Roots, seen : SUBSET Roots] :
              /\ call' = [call EXCEPT ![d] = to]
              /\ to.base = {} \/ to.base = base
              /\ to.at = "mint" /\ ~to.derived => RowLive(d) \/ absent = "mint"
              /\ to.at = "mint" => to.derived = derived
<1> DEFINE at == LET verdict == TryAdopt(d, derived)
                 IN IF verdict = "absent" THEN absent
                    ELSE IF verdict = "adopt" /\ ~Settled(d, lacks) THEN "mint" ELSE verdict
           to == IF at \in {"adopt", "refuse"} THEN Idle
                 ELSE [Idle EXCEPT !.at = at, !.derived = derived, !.declares = declares,
                                !.base = base]
<1>1. call' = [call EXCEPT ![d] = to]
    BY Zenon DEF Proceed
<1>2. at \in {"adopt", "refuse", "wait", "mint"}
    BY DEF TryAdopt
<1>3. at = "mint" => RowLive(d) \/ absent = "mint" 
    BY DEF TryAdopt
<1> HIDE DEF at
<1>4. Canon \in Roots
    BY DEF Roots
<1>5. to \in [at : {"idle", "wait", "mint"}, derived : BOOLEAN,
             declares : BOOLEAN, base : SUBSET Roots, root : Roots, seen : SUBSET Roots]
    BY <1>2, <1>4 DEF Idle
<1>6. /\ to.base = {} \/ to.base = base
      /\ to.at = "mint" => at = "mint" /\ to.derived = derived
    BY <1>2 DEF Idle
<1> HIDE DEF to
<1> QED BY <1>1, <1>3, <1>5, <1>6

LEMMA AskKeeps ==
    ASSUME BundlesInv, BundlesConstants, NEW d \in Members,
           NEW derived \in BOOLEAN, NEW declares \in BOOLEAN, NEW lacks \in BOOLEAN,
           Ask(d, derived, declares, lacks)
    PROVE  BundlesInv'
<1> DEFINE base == IF Installed(node.reg, node.dead) THEN node.reg ELSE {}
<1>1. /\ asks < MaxAsks /\ asks' = asks + 1
      /\ IF RowLive(d) THEN Observe(d, reg[d], dead[d]) ELSE UNCHANGED firstSeen
      /\ Proceed(d, derived, declares, lacks, base, "wait")
      /\ UNCHANGED <<reg, dead, node, tree, synced, retrying, history, restarts>>
    BY DEF Ask
<1>2. base \in SUBSET Roots /\ base \subseteq node.reg
    BY DEF BundlesInv, HistoryOK
<1> HIDE DEF base
<1>3. PICK to \in [at : {"idle", "wait", "mint"}, derived : BOOLEAN, declares : BOOLEAN,
                   base : SUBSET Roots, root : Roots, seen : SUBSET Roots] :
              /\ call' = [call EXCEPT ![d] = to]
              /\ to.base = {} \/ to.base = base
              /\ to.at = "mint" /\ ~to.derived => RowLive(d)
    BY <1>1, <1>2, ProceedTo
<1>4. call'[d] = to
    BY <1>3 DEF BundlesInv, HistoryOK
<1>5. Sighted(d)'
    BY <1>1, <1>2, <1>3, <1>4 DEF Sighted, RowLive
<1>6. asks' \in 0..MaxAsks
    BY <1>1 DEF BundlesInv, BundlesTypeOK, BundlesConstants
<1> QED BY <1>1, <1>3, <1>5, <1>6, Observed, RequestKeeps

LEMMA ConvergeKeeps ==
    ASSUME BundlesInv, BundlesConstants, NEW d \in Members,
           NEW expired \in BOOLEAN, NEW lacks \in BOOLEAN, Converge(d, expired, lacks)
    PROVE  BundlesInv'
<1>1. /\ ~expired => Converged(d)
      /\ UNCHANGED <<reg, dead, node, tree, synced, firstSeen, retrying, history, bounds>>
    BY DEF Converge
<1>2. /\ call[d].base \in SUBSET Roots /\ call[d].derived \in BOOLEAN
      /\ call[d].declares \in BOOLEAN
    BY DEF BundlesInv, HistoryOK
<1>3. call[d].base \subseteq node.reg
    BY DEF BundlesInv, Sighted
<1>4. firstSeen' \in [Members -> [Roots -> {"no", "now", "past"}]] /\ asks' \in 0..MaxAsks
    BY <1>1 DEF BundlesInv, BundlesTypeOK, bounds
<1>5. CASE expired /\ ~MayInstall(d)
    <2>1. call' = [call EXCEPT ![d] = Idle]
        BY <1>5 DEF Converge
    <2>2. /\ Idle \in [at : {"idle", "wait", "mint"}, derived : BOOLEAN, declares : BOOLEAN,
                       base : SUBSET Roots, root : Roots, seen : SUBSET Roots]
          /\ Idle.at # "mint" /\ Idle.base = {}
        BY DEF Idle, Roots
    <2>3. Sighted(d)'
        BY <2>1, <2>2 DEF Sighted, BundlesInv, HistoryOK
    <2> QED BY <1>1, <1>4, <2>1, <2>2, <2>3, RequestKeeps DEF bounds
<1>6. CASE ~(expired /\ ~MayInstall(d))
    <2>1. Proceed(d, call[d].derived, call[d].declares, lacks, call[d].base, "mint")
        BY <1>6 DEF Converge
    <2>2. PICK to \in [at : {"idle", "wait", "mint"}, derived : BOOLEAN, declares : BOOLEAN,
                       base : SUBSET Roots, root : Roots, seen : SUBSET Roots] :
              /\ call' = [call EXCEPT ![d] = to]
              /\ to.base = {} \/ to.base = call[d].base
              /\ to.at = "mint" => to.derived = call[d].derived
        BY <1>2, <2>1, ProceedTo
    <2>3. call'[d] = to
        BY <2>2 DEF BundlesInv, HistoryOK
    <2>4. ~call[d].derived /\ d \notin Owners => Converged(d)
        BY <1>1, <1>6 DEF MayInstall
    <2>5. Sighted(d)'
        BY <1>1, <1>3, <2>2, <2>3, <2>4 DEF Sighted, Converged
    <2> QED BY <1>1, <1>4, <2>2, <2>5, RequestKeeps DEF bounds
<1> QED BY <1>5, <1>6

LEMMA EndsKeeps ==
    ASSUME BundlesInv, NEW d \in Members, EnsureEnds(d) PROVE BundlesInv'
<1>1. /\ IF RowLive(d) THEN Observe(d, reg[d], dead[d]) ELSE UNCHANGED firstSeen
      /\ call' = [call EXCEPT ![d] = Idle]
      /\ UNCHANGED <<reg, dead, node, tree, synced, retrying, history, bounds>>
    BY DEF EnsureEnds
<1>2. /\ Idle \in [at : {"idle", "wait", "mint"}, derived : BOOLEAN, declares : BOOLEAN,
                   base : SUBSET Roots, root : Roots, seen : SUBSET Roots]
      /\ Idle.at # "mint" /\ Idle.base = {}
    BY DEF Idle, Roots
<1>3. Sighted(d)'
    BY <1>1, <1>2 DEF Sighted, BundlesInv, HistoryOK
<1>4. asks' \in 0..MaxAsks
    BY <1>1 DEF BundlesInv, BundlesTypeOK, bounds
<1> QED BY <1>1, <1>2, <1>3, <1>4, Observed, RequestKeeps DEF bounds

(* A claim of its own, and the end of the request.                          *)
LEMMA ClaimKeeps ==
    ASSUME BundlesInv, BundlesConstants, NEW d \in Members, NEW r \in Roots,
           NEW content \in {tree, [tree EXCEPT ![d][Canon] = "full"]},
           reg' = [reg EXCEPT ![d] = @ \cup {r}], tree' = content,
           call' = [call EXCEPT ![d] = Idle],
           firstSeen' \in [Members -> [Roots -> {"no", "now", "past"}]],
           UNCHANGED <<dead, node, synced, retrying, minted, resolved, bounds>>
    PROVE  /\ BundlesTypeOK' /\ Whole' /\ OwnRoots' /\ NothingUnmerged'
           /\ \A e \in Members : Sighted(e)'
           /\ call' \in [Members -> [at : {"idle", "wait", "mint", "register"}, derived : BOOLEAN, declares : BOOLEAN,
                                     base : SUBSET Roots, root : Roots, seen : SUBSET Roots]]
<1> USE DEF bounds
<1>1. reg' \in [Members -> SUBSET Roots] /\ \A e \in Members : reg[e] \subseteq reg'[e]
    BY DEF BundlesInv, BundlesTypeOK
<1>2. /\ tree' \in [Members -> [Roots -> {"none", "part", "full"}]]
      /\ \A e \in Members : \A q \in Roots : tree[e][q] = "full" => tree'[e][q] = "full"
    <2>1. Canon \in Roots /\ tree \in [Members -> [Roots -> {"none", "part", "full"}]]
        BY DEF BundlesInv, BundlesTypeOK, Roots
    <2>2. CASE tree' = tree
        BY <2>1, <2>2
    <2>3. CASE tree' = [tree EXCEPT ![d][Canon] = "full"]
        BY <2>1, <2>3
    <2> QED BY <2>2, <2>3
<1>3. /\ call' \in [Members -> [at : {"idle", "wait", "mint", "register"}, derived : BOOLEAN, declares : BOOLEAN,
                                base : SUBSET Roots, root : Roots, seen : SUBSET Roots]]
      /\ call'[d] = Idle /\ \A e \in Members : e # d => call'[e] = call[e]
    BY DEF BundlesInv, HistoryOK, Idle, Roots
<1>4. BundlesTypeOK'
    BY <1>1, <1>2, <1>3 DEF BundlesInv, BundlesTypeOK
<1>5. \A e \in Members : HasWinner(reg[e]) /\ reg[e] \in SUBSET Roots
    BY DEF BundlesInv, Whole, BundlesTypeOK
<1>6. HasWinner(reg[d] \cup {r})
    BY <1>5, WinnersJoin, OneWinner
<1>7. reg'[d] = reg[d] \cup {r} /\ \A e \in Members : e # d => reg'[e] = reg[e]
    BY DEF BundlesInv, BundlesTypeOK
<1>8. \A e \in Members : HasWinner(reg'[e])
    BY <1>5, <1>6, <1>7
<1>9. Whole'
    BY <1>2, <1>8 DEF BundlesInv, Whole, BundlesTypeOK
<1>10. OwnRoots' /\ NothingUnmerged'
    BY <1>1, <1>3, RootsStay, ResolvedStay DEF Idle
<1>11. \A e \in Members : e # d => Sighted(e)'
    BY <1>1, <1>3, <1>7, SightStays, RowStays
<1>12. Sighted(d)'
    BY <1>3 DEF Sighted, Idle
<1> QED BY <1>3, <1>4, <1>9, <1>10, <1>11, <1>12

LEMMA DerivedKeeps ==
    ASSUME BundlesInv, BundlesConstants, NEW d \in Members, EnsureDerived(d) PROVE BundlesInv'
<1>1. /\ reg' = [reg EXCEPT ![d] = @ \cup {Canon}]
      /\ tree' = [tree EXCEPT ![d][Canon] = "full"]
      /\ Observe(d, reg[d] \cup {Canon}, dead[d])
      /\ InstalledAnswer(d, Canon, reg[d] \cup {Canon}, Canon \notin reg[d])
      /\ call' = [call EXCEPT ![d] = Idle]
      /\ UNCHANGED <<dead, node, synced, retrying, minted, resolved, bounds>>
    BY DEF EnsureDerived
<1>2. Canon \in Roots
    BY DEF Roots
<1>3. /\ BundlesTypeOK' /\ Whole' /\ OwnRoots' /\ NothingUnmerged'
      /\ \A e \in Members : Sighted(e)'
      /\ call' \in [Members -> [at : {"idle", "wait", "mint", "register"}, derived : BOOLEAN,
                                declares : BOOLEAN, base : SUBSET Roots, root : Roots,
                                seen : SUBSET Roots]]
    BY <1>1, <1>2, ObserveTyped, ClaimKeeps
<1>4. installed' = installed
    <2>1. reg[d] \in SUBSET Roots /\ HasWinner(reg[d])
        BY DEF BundlesInv, BundlesTypeOK, Whole
    <2>2. HasWinner(reg[d] \cup {Canon})
        BY <1>2, <2>1, WinnersJoin, OneWinner
    <2>3. Winner(reg[d] \cup {Canon}) = Canon
        BY <1>2, <2>1, <2>2, DerivedWins
    <2> QED BY <1>1, <2>3 DEF InstalledAnswer, Answer
<1>5. HistoryOK' /\ NoBlindFork'
    BY <1>1, <1>3, <1>4, InstallsStay DEF BundlesInv, HistoryOK
<1> QED BY <1>3, <1>5 DEF BundlesInv

(* The answer of a registration names its own root, or, of a request that   *)
(* declares, a root that was not there when it created its own: that one    *)
(* beats every claim the device had.                                        *)
LEMMA RegisterKeeps ==
    ASSUME BundlesInv, BundlesConstants, NEW d \in Members, Register(d) PROVE BundlesInv'
<1> DEFINE r == call[d].root
           claims == reg[d] \cup {r}
           answer == [by |-> d, root |-> Winner(claims), callback |-> CallsBack(d),
                      knew |-> Winner(claims) \in call[d].seen]
<1>1. /\ reg' = [reg EXCEPT ![d] = @ \cup {r}]
      /\ Observe(d, claims, dead[d])
      /\ call' = [call EXCEPT ![d] = Idle]
      /\ call[d].at = "register"
      /\ InstalledAnswer(d, r, claims, TRUE)
      /\ UNCHANGED <<dead, node, tree, synced, retrying, minted, resolved, bounds>>
    BY DEF Register
<1>2. r \in Roots /\ call[d].derived \in BOOLEAN /\ call[d].declares \in BOOLEAN
    BY DEF BundlesInv, HistoryOK
<1>3. /\ BundlesTypeOK' /\ Whole' /\ OwnRoots' /\ NothingUnmerged'
      /\ \A e \in Members : Sighted(e)'
      /\ call' \in [Members -> [at : {"idle", "wait", "mint", "register"}, derived : BOOLEAN,
                                declares : BOOLEAN, base : SUBSET Roots, root : Roots,
                                seen : SUBSET Roots]]
    <2> HIDE DEF r
    <2> QED BY <1>1, <1>2, ObserveTyped, ClaimKeeps
<1>4. \/ installed' = installed
      \/ /\ installed' = installed \cup {answer}
         /\ ~CallsBack(d) /\ Winner(claims) # r
    BY <1>1 DEF InstalledAnswer, Answer
<1>5. \A q \in call[d].seen : Beats(r, q)
    BY <1>1 DEF BundlesInv, OwnRoots
<1> HIDE DEF r
<1>6. claims \in SUBSET Roots /\ HasWinner(claims) /\ claims # {} /\ r \in claims
    <2>1. reg[d] \in SUBSET Roots /\ HasWinner(reg[d])
        BY DEF BundlesInv, BundlesTypeOK, Whole
    <2> QED BY <1>2, <2>1, WinnersJoin, OneWinner
<1> HIDE DEF claims
<1>7. /\ Winner(claims) \in Roots
      /\ Winner(claims) # r => Winner(claims) \notin call[d].seen
    <2>1. /\ Winner(claims) \in Roots
          /\ Winner(claims) # r => Beats(Winner(claims), r)
        BY <1>6, WinnerOf
    <2>2. \A p, q \in Roots : ~(Beats(p, q) /\ Beats(q, p))
        BY DEF Beats, Roots, BundlesConstants
    <2> QED BY <1>2, <1>5, <2>1, <2>2
<1>8. CASE installed' = installed
    <2>1. HistoryOK' /\ NoBlindFork'
        BY <1>1, <1>3, <1>8, InstallsStay DEF BundlesInv, HistoryOK
    <2> QED BY <1>3, <2>1 DEF BundlesInv
<1>9. CASE /\ installed' = installed \cup {answer}
           /\ ~CallsBack(d) /\ Winner(claims) # r
    <2>1. /\ answer \in [by : Members, root : Roots, callback : BOOLEAN, knew : BOOLEAN]
          /\ ~answer.callback /\ ~answer.knew
        <3> DEFINE knew == Winner(claims) \in call[d].seen
        <3>0. CallsBack(d) \in BOOLEAN /\ knew \in BOOLEAN
            BY DEF CallsBack
        <3>1. CallsBack(d) = FALSE /\ knew = FALSE
            BY <1>7, <1>9, <3>0
        <3>2. answer = [by |-> d, root |-> Winner(claims), callback |-> FALSE, knew |-> FALSE]
            BY <3>1, Zenon
        <3> HIDE DEF answer, knew
        <3> QED BY <1>7, <3>2
    <2> HIDE DEF answer
    <2>2. HistoryOK'
        BY <1>1, <1>3, <1>9, <2>1 DEF BundlesInv, HistoryOK
    <2>3. NoBlindFork'
        BY <1>1, <1>9, <2>1 DEF BundlesInv, NoBlindFork, AnswersHonest
    <2> QED BY <1>3, <2>2, <2>3 DEF BundlesInv
<1> QED BY <1>4, <1>8, <1>9

(* A root is created once, and next to an install its creator knew of only  *)
(* by the owner.                                                            *)
LEMMA NewRootKeeps ==
    ASSUME BundlesInv, BundlesConstants, NEW d \in Members, NEW r \in Created, NewRoot(d, r)
    PROVE  BundlesInv'
<1> DEFINE base == IF Installed(call[d].base \cup reg[d], dead[d]) THEN call[d].base ELSE {}
           to == [call[d] EXCEPT !.at = "register", !.root = r, !.seen = reg[d]]
<1>1. /\ \A q \in reg[d] : r > q
      /\ call[d].at = "mint" /\ ~call[d].derived /\ ~RowLive(d) /\ minted[r] = NoMint
      /\ minted' = [minted EXCEPT ![r] = [by |-> {d}, base |-> base]]
      /\ tree' = [tree EXCEPT ![d][r] = "full"]
      /\ call' = [call EXCEPT ![d] = to]
      /\ UNCHANGED <<reg, dead, node, synced, firstSeen, retrying, installed, resolved, bounds>>
    <2>1. [call EXCEPT ![d].at = "register", ![d].root = r, ![d].seen = reg[d]]
            = [call EXCEPT ![d] = to]
        BY DEF BundlesInv, HistoryOK
    <2> QED BY <2>1 DEF NewRoot
<1>2. r \in Roots /\ r # Canon
    BY DEF Roots, BundlesConstants
<1>3. /\ base \in SUBSET Roots
      /\ to \in [at : {"idle", "wait", "mint", "register"}, derived : BOOLEAN, declares : BOOLEAN,
                 base : SUBSET Roots, root : Roots, seen : SUBSET Roots]
      /\ to.at = "register" /\ to.root = r /\ to.base = call[d].base
      /\ to.seen = reg[d] /\ to.derived = call[d].derived
    <2>1. base \in SUBSET Roots /\ reg[d] \in SUBSET Roots
        BY DEF BundlesInv, HistoryOK, BundlesTypeOK
    <2>2. call[d] \in [at : {"idle", "wait", "mint", "register"}, derived : BOOLEAN,
                       declares : BOOLEAN, base : SUBSET Roots, root : Roots, seen : SUBSET Roots]
        BY DEF BundlesInv, HistoryOK
    <2> HIDE DEF base
    <2> QED BY <1>2, <2>1, <2>2
<1>4. d \notin Owners => base = {}
    <2> SUFFICES ASSUME d \notin Owners PROVE base = {}
        OBVIOUS
    <2>1. call[d].base \cup reg[d] = reg[d]
        BY <1>1 DEF BundlesInv, Sighted
    <2> QED BY <1>1, <2>1 DEF RowLive
<1> HIDE DEF base, to
<1>5. call'[d] = to /\ \A e \in Members : e # d => call'[e] = call[e]
    BY <1>1 DEF BundlesInv, HistoryOK
<1>6. /\ minted'[r] = [by |-> {d}, base |-> base]
      /\ \A q \in Roots : q # r => minted'[q] = minted[q]
    BY <1>1, <1>2 DEF BundlesInv, HistoryOK
<1>7. /\ tree' \in [Members -> [Roots -> {"none", "part", "full"}]]
      /\ \A e \in Members : \A q \in Roots : tree[e][q] = "full" => tree'[e][q] = "full"
    BY <1>1, <1>2 DEF BundlesInv, BundlesTypeOK
<1>8. BundlesTypeOK'
    BY <1>1, <1>3, <1>5, <1>7 DEF BundlesInv, BundlesTypeOK, bounds
<1>9. HistoryOK'
    <2>1. minted' \in [Roots -> [by : SUBSET Members, base : SUBSET Roots]]
        BY <1>1, <1>3 DEF BundlesInv, HistoryOK
    <2>2. call' \in [Members -> [at : {"idle", "wait", "mint", "register"}, derived : BOOLEAN, declares : BOOLEAN,
                                 base : SUBSET Roots, root : Roots, seen : SUBSET Roots]]
        BY <1>1, <1>3 DEF BundlesInv, HistoryOK
    <2> QED BY <1>1, <2>1, <2>2 DEF BundlesInv, HistoryOK
<1>10. Whole'
    BY <1>1, <1>7 DEF BundlesInv, Whole, BundlesTypeOK
<1>11. OwnRoots'
    <2> SUFFICES ASSUME NEW e \in Members, call'[e].at = "register"
                 PROVE  /\ e \in minted'[call'[e].root].by /\ ~call'[e].derived
                        /\ \A q \in call'[e].seen : Beats(call'[e].root, q)
        BY DEF OwnRoots
    <2>1. CASE e = d
        <3>1. Canon \notin reg[d]
            <4>1. reg[d] \in SUBSET Roots /\ HasWinner(reg[d]) /\ Canon \notin dead[d]
                BY DEF BundlesInv, BundlesTypeOK, Whole, BundlesConstants
            <4>2. Canon \in reg[d] => RowLive(d)
                BY <4>1, DerivedWins DEF RowLive, Installed
            <4> QED BY <1>1, <4>2
        <3>2. \A q \in reg[d] : Beats(r, q)
            BY <1>1, <1>2, <3>1 DEF Beats, BundlesInv, BundlesTypeOK, Roots, BundlesConstants
        <3> QED BY <1>1, <1>3, <1>5, <1>6, <2>1, <3>2
    <2>2. CASE e # d
        <3>1. /\ call'[e] = call[e] /\ call[e].root \in Roots
              /\ e \in minted[call[e].root].by /\ ~call[e].derived
              /\ \A q \in call[e].seen : Beats(call[e].root, q)
            BY <1>5, <2>2 DEF BundlesInv, OwnRoots, HistoryOK
        <3>2. call[e].root # r
            BY <1>1, <3>1 DEF NoMint
        <3> QED BY <1>6, <3>1, <3>2
    <2> QED BY <2>1, <2>2
<1>12. NothingUnmerged'
    BY <1>1, ResolvedStay
<1>13. NoBlindFork'
    <2> SUFFICES ASSUME NEW q \in Created
                 PROVE  minted'[q].base # {} => minted'[q].by \subseteq Owners
        BY <1>1 DEF NoBlindFork, AnswersHonest, BundlesInv
    <2>1. CASE q = r
        BY <1>4, <1>6, <2>1
    <2>2. CASE q # r
        BY <1>6, <2>2 DEF BundlesInv, NoBlindFork, Roots
    <2> QED BY <2>1, <2>2
<1>14. \A e \in Members : e # d => Sighted(e)'
    BY <1>1, <1>5, SightStays, RowStays
<1>15. Sighted(d)'
    BY <1>1, <1>3, <1>5 DEF BundlesInv, Sighted
<1> QED BY <1>8, <1>9, <1>10, <1>11, <1>12, <1>13, <1>14, <1>15 DEF BundlesInv

-----------------------------------------------------------------------------
(* Resolve, uninstall and the network.                                      *)

(* Roots are dropped with their trees; the claims stay.                     *)
LEMMA DropKeeps ==
    ASSUME BundlesInv, NEW d \in Members, NEW gone \in SUBSET Created,
           dead' = [dead EXCEPT ![d] = @ \cup gone],
           tree' = [tree EXCEPT ![d] = [r \in Roots |-> IF r \in gone THEN "none" ELSE @[r]]],
           synced' = [synced EXCEPT ![d] = @ \ gone],
           firstSeen' \in [Members -> [Roots -> {"no", "now", "past"}]],
           retrying' \in [Members -> [Roots -> 0..RetryAttempts]], asks' \in 0..MaxAsks,
           RowLive(d) => RowLive(d)' \/ d \in Owners \/ node.reg \subseteq reg[d],
           UNCHANGED <<reg, node, call, minted, installed, restarts>>,
           resolved' = resolved \/ (HistoryOK' /\ NothingUnmerged')
    PROVE  BundlesInv'
<1>1. dead' \in [Members -> SUBSET Created]
    BY DEF BundlesInv, BundlesTypeOK
<1>2. tree' \in [Members -> [Roots -> {"none", "part", "full"}]]
    BY DEF BundlesInv, BundlesTypeOK
<1>3. synced' \in [Members -> SUBSET Roots]
    BY DEF BundlesInv, BundlesTypeOK
<1>4. BundlesTypeOK'
    BY <1>1, <1>2, <1>3 DEF BundlesInv, BundlesTypeOK
<1>5. \A e \in Members : \A r \in synced'[e] : tree'[e][r] = "full"
    <2> SUFFICES ASSUME NEW e \in Members, NEW r \in synced'[e] PROVE tree'[e][r] = "full"
        OBVIOUS
    <2>1. r \in synced[e] /\ r \in Roots /\ tree[e][r] = "full"
        BY DEF BundlesInv, BundlesTypeOK, Whole
    <2>2. CASE e = d
        <3>1. r \notin gone
            BY <2>2 DEF BundlesInv, BundlesTypeOK
        <3> QED BY <2>1, <2>2, <3>1 DEF BundlesInv, BundlesTypeOK
    <2> QED BY <2>1, <2>2 DEF BundlesInv, BundlesTypeOK
<1>6. Whole'
    BY <1>5 DEF BundlesInv, Whole
<1>7. OwnRoots' /\ NoBlindFork' /\ HistoryOK' /\ NothingUnmerged'
    BY RootsStay, InstallsStay, ResolvedStay DEF BundlesInv, HistoryOK
<1>8. Sighted(d)'
    BY SightStays
<1>9. \A e \in Members : e # d => dead'[e] = dead[e]
    BY DEF BundlesInv, BundlesTypeOK
<1>10. \A e \in Members : e # d => Sighted(e)'
    BY <1>9, RowStays, SightStays
<1> QED BY <1>4, <1>6, <1>7, <1>8, <1>10 DEF BundlesInv

(* A pass of Resolve deletes a loser that is whole here, or nothing.        *)
LEMMA ResolveKeeps ==
    ASSUME BundlesInv, BundlesConstants, NEW d \in Members, NEW r \in Roots, Resolve(d, r),
           retrying' \in [Members -> [Roots -> 0..RetryAttempts]], asks' \in 0..MaxAsks,
           UNCHANGED <<reg, node, call, minted, installed, restarts>>
    PROVE  BundlesInv'
<1>1. CASE Target(d, r) = "loser" /\ Ready(d, r)
    <2>1. /\ dead' = [dead EXCEPT ![d] = @ \cup {r}]
          /\ resolved' = resolved \cup {[root |-> r, held |-> tree[d][r]]}
          /\ tree' = [tree EXCEPT ![d][r] = "none"] /\ synced' = [synced EXCEPT ![d] = @ \ {r}]
          /\ Forget(d, {r}) /\ RowLive(d)
        BY <1>1 DEF Resolve
    <2>2. r \in reg[d] /\ r # RootOf(d)
        BY <1>1 DEF Target
    <2>3. reg[d] \in SUBSET Roots /\ HasWinner(reg[d])
        BY DEF BundlesInv, BundlesTypeOK, Whole
    <2>4. r # Canon
        BY <2>2, <2>3, DerivedWins DEF RootOf
    <2>5. RootOf(d) \in reg[d] /\ Beats(RootOf(d), r)
        BY <2>2, <2>3, WinnerOf DEF RootOf
    <2>6. tree[d][r] = "full"
        BY <1>1 DEF Ready, BundlesInv, Whole
    <2>7. tree' = [tree EXCEPT ![d] = [q \in Roots |-> IF q \in {r} THEN "none" ELSE @[q]]]
        <3>1. [tree[d] EXCEPT ![r] = "none"] = [q \in Roots |-> IF q \in {r} THEN "none" ELSE tree[d][q]]
            BY DEF BundlesInv, BundlesTypeOK
        <3>2. tree' = [tree EXCEPT ![d] = [tree[d] EXCEPT ![r] = "none"]]
            BY <2>1
        <3> QED BY <3>1, <3>2
    <2>8. RowLive(d)'
        <3>1. dead'[d] = dead[d] \cup {r}
            BY <2>1 DEF BundlesInv, BundlesTypeOK
        <3> QED BY <2>1, <2>2, <3>1 DEF RowLive, Installed, RootOf
    <2>9. HistoryOK'
        BY <2>1, <2>6 DEF BundlesInv, HistoryOK
    <2>10. NothingUnmerged'
        BY <2>1, <2>5, <2>6 DEF BundlesInv, NothingUnmerged
    <2>11. {r} \in SUBSET Created
        BY <2>4 DEF Roots
    <2>12. firstSeen' \in [Members -> [Roots -> {"no", "now", "past"}]]
        BY <2>1, ForgetTyped
    <2> QED BY <2>1, <2>7, <2>8, <2>9, <2>10, <2>11, <2>12, DropKeeps
<1>2. CASE ~(Target(d, r) = "loser" /\ Ready(d, r))
    <2>1. /\ UNCHANGED <<dead, resolved, tree, synced>>
          /\ IF Target(d, r) = "gone" THEN Forget(d, {r}) ELSE Observe(d, reg[d], dead[d])
        BY <1>2 DEF Resolve
    <2>2. firstSeen' \in [Members -> [Roots -> {"no", "now", "past"}]]
        BY <2>1, ForgetTyped, ObserveTyped
    <2>3. RowLive(d) => RowLive(d)'
        BY <2>1 DEF RowLive
    <2> QED BY <2>1, <2>2, <2>3, DatesKeep DEF history
<1> QED BY <1>1, <1>2

LEMMA BundleResolveKeeps ==
    ASSUME BundlesInv, BundlesConstants, NEW d \in Members, NEW r \in Roots, BundleResolve(d, r)
    PROVE  BundlesInv'
<1>1. retrying' \in [Members -> [Roots -> 0..RetryAttempts]]
    BY DEF BundlesInv, BundlesTypeOK, BundlesConstants, BundleResolve
<1>2. asks' \in 0..MaxAsks
    BY DEF BundlesInv, BundlesTypeOK, BundlesConstants, BundleResolve
<1> QED BY <1>1, <1>2, ResolveKeeps DEF BundleResolve

LEMMA RetryKeeps ==
    ASSUME BundlesInv, BundlesConstants, NEW d \in Members, NEW r \in Roots, RetryPass(d, r)
    PROVE  BundlesInv'
<1>1. retrying' \in [Members -> [Roots -> 0..RetryAttempts]]
    BY DEF BundlesInv, BundlesTypeOK, BundlesConstants, RetryPass
<1>2. asks' \in 0..MaxAsks /\ UNCHANGED <<reg, node, call, minted, installed, restarts>>
    BY DEF BundlesInv, BundlesTypeOK, RetryPass, bounds
<1>3. CASE RowLive(d)
    BY <1>1, <1>2, <1>3, ResolveKeeps DEF RetryPass
<1>4. CASE ~RowLive(d)
    <2>1. UNCHANGED <<dead, resolved, tree, synced, firstSeen>>
        BY <1>4 DEF RetryPass
    <2>2. firstSeen' \in [Members -> [Roots -> {"no", "now", "past"}]]
        BY <2>1 DEF BundlesInv, BundlesTypeOK
    <2> QED BY <1>1, <1>2, <2>1, <2>2, DatesKeep DEF history
<1> QED BY <1>3, <1>4

LEMMA UninstallKeeps ==
    ASSUME BundlesInv, BundlesConstants, NEW d \in Members, Uninstall(d) PROVE BundlesInv'
<1>1. /\ asks < MaxAsks /\ asks' = asks + 1
      /\ d \in Owners \/ Converged(d)
      /\ Canon \notin reg[d]
      /\ dead' = [dead EXCEPT ![d] = @ \cup reg[d]]
      /\ tree' = [tree EXCEPT ![d] = [r \in Roots |-> IF r \in reg[d] THEN "none" ELSE @[r]]]
      /\ synced' = [synced EXCEPT ![d] = @ \ reg[d]]
      /\ Forget(d, reg[d])
      /\ UNCHANGED <<reg, node, retrying, call, minted, installed, resolved, restarts>>
    BY DEF Uninstall, history
<1>2. reg[d] \in SUBSET Created
    BY <1>1 DEF BundlesInv, BundlesTypeOK, Roots
<1>3. /\ firstSeen' \in [Members -> [Roots -> {"no", "now", "past"}]]
      /\ retrying' \in [Members -> [Roots -> 0..RetryAttempts]] /\ asks' \in 0..MaxAsks
    BY <1>1, ForgetTyped DEF BundlesInv, BundlesTypeOK, BundlesConstants
<1>4. d \in Owners \/ node.reg \subseteq reg[d]
    BY <1>1 DEF Converged
<1> DEFINE gone == reg[d]
<1>5. /\ gone \in SUBSET Created
      /\ dead' = [dead EXCEPT ![d] = @ \cup gone]
      /\ tree' = [tree EXCEPT ![d] = [r \in Roots |-> IF r \in gone THEN "none" ELSE @[r]]]
      /\ synced' = [synced EXCEPT ![d] = @ \ gone]
    BY <1>1, <1>2
<1> HIDE DEF gone
<1>6. RowLive(d) => RowLive(d)' \/ d \in Owners \/ node.reg \subseteq reg[d]
    BY <1>4
<1>7. resolved' = resolved \/ (HistoryOK' /\ NothingUnmerged')
    BY <1>1
<1> QED BY <1>1, <1>3, <1>5, <1>6, <1>7, DropKeeps

(* What a device hears of was claimed somewhere, and drops no claim of its  *)
(* own.                                                                     *)
LEMMA PushKeeps ==
    ASSUME BundlesInv, BundlesConstants, NEW d \in Members, Push(d) PROVE BundlesInv'
<1>1. /\ node' = [reg |-> node.reg \cup reg[d], dead |-> node.dead \cup dead[d],
                  trees |-> node.trees \cup {r \in Roots : tree[d][r] = "full"}]
      /\ UNCHANGED <<reg, dead, tree, synced, firstSeen, retrying, call, history, bounds>>
    BY DEF Push
<1> USE DEF history, bounds
<1>2. /\ node.reg \in SUBSET Roots /\ HasWinner(node.reg)
      /\ reg[d] \in SUBSET Roots /\ HasWinner(reg[d])
    BY DEF BundlesInv, HistoryOK, BundlesTypeOK, Whole
<1>3. HasWinner(node'.reg) /\ node.reg \subseteq node'.reg
    BY <1>1, <1>2, WinnersJoin
<1>4. HistoryOK' /\ BundlesTypeOK'
    <2>1. node' \in [reg : SUBSET Roots, dead : SUBSET Created, trees : SUBSET Roots]
        BY <1>1 DEF BundlesInv, HistoryOK, BundlesTypeOK
    <2> QED BY <1>1, <2>1 DEF BundlesInv, HistoryOK, BundlesTypeOK
<1>5. Whole'
    BY <1>1, <1>3 DEF BundlesInv, Whole
<1>6. OwnRoots' /\ NothingUnmerged' /\ NoBlindFork'
    BY <1>1, RootsStay, ResolvedStay, InstallsStay
<1>7. \A e \in Members : Sighted(e)'
    BY <1>1, <1>3, RowStays, SightStays
<1> QED BY <1>4, <1>5, <1>6, <1>7 DEF BundlesInv

LEMMA PullKeeps ==
    ASSUME BundlesInv, BundlesConstants, NEW d \in Members, Pull(d) PROVE BundlesInv'
<1>1. /\ reg' = [reg EXCEPT ![d] = @ \cup node.reg]
      /\ dead' = [dead EXCEPT ![d] = @ \cup node.dead]
      /\ tree' = [tree EXCEPT ![d] = [r \in Roots |-> IF r \in node.dead THEN "none" ELSE @[r]]]
      /\ synced' = [synced EXCEPT ![d] = @ \ node.dead]
      /\ UNCHANGED <<node, firstSeen, retrying, call, history, bounds>>
    BY DEF Pull
<1> USE DEF history, bounds
<1>2. /\ node.reg \in SUBSET Roots /\ HasWinner(node.reg) /\ node.dead \in SUBSET Created
      /\ \A e \in Members : reg[e] \in SUBSET Roots /\ HasWinner(reg[e])
    BY DEF BundlesInv, HistoryOK, BundlesTypeOK, Whole
<1>3. /\ reg'[d] = reg[d] \cup node.reg
      /\ \A e \in Members : e # d => reg'[e] = reg[e] /\ dead'[e] = dead[e]
    BY <1>1 DEF BundlesInv, BundlesTypeOK
<1>4. \A e \in Members : HasWinner(reg'[e]) /\ reg[e] \subseteq reg'[e]
    BY <1>2, <1>3, WinnersJoin
<1>5. BundlesTypeOK'
    <2>1. reg' \in [Members -> SUBSET Roots] /\ dead' \in [Members -> SUBSET Created]
        BY <1>1, <1>2 DEF BundlesInv, BundlesTypeOK
    <2>2. tree' \in [Members -> [Roots -> {"none", "part", "full"}]]
        BY <1>1 DEF BundlesInv, BundlesTypeOK
    <2>3. synced' \in [Members -> SUBSET Roots]
        BY <1>1 DEF BundlesInv, BundlesTypeOK
    <2> QED BY <1>1, <2>1, <2>2, <2>3 DEF BundlesInv, BundlesTypeOK
<1>6. HistoryOK'
    BY <1>1 DEF BundlesInv, HistoryOK
<1>7. \A e \in Members : \A r \in synced'[e] : tree'[e][r] = "full"
    <2> SUFFICES ASSUME NEW e \in Members, NEW r \in synced'[e] PROVE tree'[e][r] = "full"
        OBVIOUS
    <2>1. r \in synced[e] /\ r \in Roots /\ tree[e][r] = "full" /\ (e = d => r \notin node.dead)
        BY <1>1 DEF BundlesInv, BundlesTypeOK, Whole
    <2> QED BY <1>1, <2>1 DEF BundlesInv, BundlesTypeOK
<1>8. Whole'
    BY <1>1, <1>4, <1>7 DEF BundlesInv, Whole
<1>9. OwnRoots' /\ NothingUnmerged' /\ NoBlindFork'
    BY <1>1, <1>4, RootsStay, ResolvedStay, InstallsStay
<1>10. \A e \in Members : Sighted(e)'
    BY <1>1, <1>3, <1>4, RowStays, SightStays
<1> QED BY <1>5, <1>6, <1>8, <1>9, <1>10 DEF BundlesInv

(* A step on the trees or the sync state of one device.                     *)
LEMMA TreesKeep ==
    ASSUME BundlesInv,
           tree' \in [Members -> [Roots -> {"none", "part", "full"}]],
           synced' \in [Members -> SUBSET Roots],
           firstSeen' \in [Members -> [Roots -> {"no", "now", "past"}]],
           \A d \in Members : \A r \in synced'[d] : tree'[d][r] = "full",
           UNCHANGED <<reg, dead, node, retrying, call, history, bounds>>
    PROVE  BundlesInv'
<1> USE DEF history, bounds
<1>1. BundlesTypeOK' /\ HistoryOK' /\ Whole'
    BY DEF BundlesInv, BundlesTypeOK, HistoryOK, Whole
<1>2. OwnRoots' /\ NothingUnmerged' /\ NoBlindFork'
    BY RootsStay, ResolvedStay, InstallsStay
<1>3. \A d \in Members : Sighted(d)'
    BY RowStays, SightStays
<1> QED BY <1>1, <1>2, <1>3 DEF BundlesInv

LEMMA ArriveKeeps ==
    ASSUME BundlesInv, NEW d \in Members, NEW r \in Roots, Arrive(d, r) PROVE BundlesInv'
<1>1. /\ tree[d][r] # "full"
      /\ tree' = [tree EXCEPT ![d][r] = IF @ = "none" THEN "part" ELSE "full"]
      /\ UNCHANGED <<reg, dead, node, synced, firstSeen, retrying, call, history, bounds>>
    BY DEF Arrive
<1>2. tree' \in [Members -> [Roots -> {"none", "part", "full"}]]
    BY <1>1 DEF BundlesInv, BundlesTypeOK
<1>3. \A e \in Members : \A q \in Roots : tree[e][q] = "full" => tree'[e][q] = "full"
    BY <1>1 DEF BundlesInv, BundlesTypeOK
<1>4. \A e \in Members : \A q \in synced'[e] : tree'[e][q] = "full"
    BY <1>1, <1>3 DEF BundlesInv, BundlesTypeOK, Whole
<1>5. /\ synced' \in [Members -> SUBSET Roots]
      /\ firstSeen' \in [Members -> [Roots -> {"no", "now", "past"}]]
    BY <1>1 DEF BundlesInv, BundlesTypeOK
<1> QED BY <1>1, <1>2, <1>4, <1>5, TreesKeep

LEMMA SettleKeeps ==
    ASSUME BundlesInv, NEW d \in Members, NEW r \in Roots, Settle(d, r) PROVE BundlesInv'
<1>1. /\ tree[d][r] = "full" /\ synced' = [synced EXCEPT ![d] = @ \cup {r}]
      /\ UNCHANGED <<reg, dead, node, tree, firstSeen, retrying, call, history, bounds>>
    BY DEF Settle
<1>2. /\ synced' \in [Members -> SUBSET Roots]
      /\ tree' \in [Members -> [Roots -> {"none", "part", "full"}]]
      /\ firstSeen' \in [Members -> [Roots -> {"no", "now", "past"}]]
    BY <1>1 DEF BundlesInv, BundlesTypeOK
<1>3. \A e \in Members : \A q \in synced'[e] : tree'[e][q] = "full"
    BY <1>1 DEF BundlesInv, BundlesTypeOK, Whole
<1> QED BY <1>1, <1>2, <1>3, TreesKeep

LEMMA RestartKeeps ==
    ASSUME BundlesInv, BundlesConstants, NEW d \in Members, Restart(d) PROVE BundlesInv'
<1>1. /\ restarts < MaxRestarts /\ restarts' = restarts + 1
      /\ synced' = [synced EXCEPT ![d] = {}] /\ Forget(d, Roots)
      /\ retrying' = [retrying EXCEPT ![d] = [r \in Roots |-> 0]]
      /\ call' = [call EXCEPT ![d] = Idle]
      /\ UNCHANGED <<reg, dead, node, tree, history, asks>>
    BY DEF Restart
<1> USE DEF history
<1>2. /\ synced' \in [Members -> SUBSET Roots]
      /\ retrying' \in [Members -> [Roots -> 0..RetryAttempts]]
      /\ restarts' \in 0..MaxRestarts
    BY <1>1 DEF BundlesInv, BundlesTypeOK, BundlesConstants
<1>3. call' \in [Members -> [at : {"idle", "wait", "mint", "register"}, derived : BOOLEAN, declares : BOOLEAN,
                             base : SUBSET Roots, root : Roots, seen : SUBSET Roots]]
    BY <1>1 DEF BundlesInv, HistoryOK, Idle, Roots
<1>4. call'[d] = Idle /\ \A e \in Members : e # d => call'[e] = call[e]
    BY <1>1 DEF BundlesInv, HistoryOK
<1>5. BundlesTypeOK'
    <2>1. \A e \in Members : call'[e].at \in {"idle", "wait", "mint", "register"}
        BY <1>3
    <2> QED BY <1>1, <1>2, <2>1, ForgetTyped DEF BundlesInv, BundlesTypeOK
<1>6. HistoryOK'
    BY <1>1, <1>3 DEF BundlesInv, HistoryOK
<1>7. Whole'
    BY <1>1 DEF BundlesInv, Whole, BundlesTypeOK
<1>8. OwnRoots' /\ NothingUnmerged' /\ NoBlindFork'
    BY <1>1, <1>4, RootsStay, ResolvedStay, InstallsStay DEF Idle
<1>9. \A e \in Members : Sighted(e)'
    BY <1>1, <1>4, RowStays, SightStays
<1> QED BY <1>5, <1>6, <1>7, <1>8, <1>9 DEF BundlesInv

-----------------------------------------------------------------------------
LEMMA InitBundlesInv == ASSUME BundlesConstants, BundlesInit PROVE BundlesInv
<1> USE DEF BundlesInit, BundlesConstants
<1>1. BundlesTypeOK
    BY DEF BundlesTypeOK, Idle
<1>2. HistoryOK
    BY DEF HistoryOK, Idle, NoMint, Roots
<1>3. Whole /\ OwnRoots /\ \A d \in Members : Sighted(d)
    BY DEF Whole, OwnRoots, Sighted, HasWinner, Idle
<1>4. NothingUnmerged /\ NoBlindFork
    BY DEF NothingUnmerged, NoBlindFork, AnswersHonest, NoMint, Roots
<1> QED BY <1>1, <1>2, <1>3, <1>4 DEF BundlesInv

LEMMA NextBundlesInv ==
    ASSUME BundlesConstants, BundlesInv, [BundlesNext]_bundles PROVE BundlesInv'
<1>1. ASSUME NEW d \in Members, Step(d) PROVE BundlesInv'
    BY <1>1, GetKeeps, AskKeeps, ConvergeKeeps, DerivedKeeps, RegisterKeeps, EndsKeeps,
       UninstallKeeps, PushKeeps, PullKeeps, RestartKeeps, GraceKeeps, NewRootKeeps,
       BundleResolveKeeps, RetryKeeps, ArriveKeeps, SettleKeeps DEF Step
<1>2. CASE UNCHANGED bundles
    <2>1. /\ retrying' \in [Members -> [Roots -> 0..RetryAttempts]] /\ asks' \in 0..MaxAsks
          /\ firstSeen' \in [Members -> [Roots -> {"no", "now", "past"}]]
        BY <1>2 DEF bundles, bounds, BundlesInv, BundlesTypeOK
    <2> QED BY <1>2, <2>1, DatesKeep DEF bundles, bounds
<1> QED BY <1>1, <1>2 DEF BundlesNext

(* For any number of members, roots, requests and restarts: a root that     *)
(* Resolve deletes has arrived whole and is beaten by a claim that stays,   *)
(* an answer that says "installed" names the root its call made, unless the *)
(* request declares and was overtaken after it made one, and a member other *)
(* than the owner forks no install published before it asked (bundles.go).  *)
THEOREM InstallsLoseNothing == BundlesSpec => []InstallsSound
<1> USE BundlesAssumption
<1>1. BundlesInit => BundlesInv
    BY InitBundlesInv
<1>2. BundlesInv /\ [BundlesNext]_bundles => BundlesInv'
    BY NextBundlesInv
<1>3. BundlesInv => InstallsSound
    BY DEF BundlesInv, InstallsSound
<1> QED BY <1>1, <1>2, <1>3, PTL DEF BundlesSpec

-----------------------------------------------------------------------------
(* The configuration.                                                     *)

(* What a layer may hold.                                                 *)
Holds(f, S) == DOMAIN f \subseteq DOMAIN S /\ \A k \in DOMAIN f : f[k] \in S[k]

(* The effective configuration of a boot: what the operator said of the   *)
(* network layers, defaults on the packaged network only, no key of a     *)
(* managed server's own.                                                  *)
Fit(c) ==
    /\ DOMAIN c = DOMAIN Defaults
    /\ c.global = Said("global") /\ c.global # "junk"
    /\ c.lan = Said("lan")
    /\ c.relaysDefaulted \in BOOLEAN
    /\ ~c.relaysDefaulted => c.relays = Said("relays")
    /\ c.nodeconf # "" => "prod" \notin {c.pushPeer, c.relays, c.pkarr, c.redeem}
    /\ c.mode = "managed" => c.account = "" /\ c.wallet = ""

ConfigInv ==
    /\ BootsAsTold
    /\ cfg = <<>> => running = <<>>
    /\ running = <<>> /\ cfg # <<>> /\ how # "client" => Fit(cfg[1])

(* The layers hold what they may, the file's when it is found.            *)
LEMMA LayersTyped ==
    ASSUME ConfigTypeOK
    PROVE  /\ Holds(set.file, Sayings.file) /\ Holds(set.env, Sayings.env)
           /\ Holds(set.flags, Sayings.flags) /\ Holds(set.options, Sayings.options)
           /\ Holds(fileLayer, Sayings.file)
<1>1. Layers = {"file", "env", "flags", "options"}
    BY DEF Layers, Sayings
<1>2. \A l \in Layers : Holds(set[l], Sayings[l])
    BY DEF ConfigTypeOK, Holds
<1>3. Holds(Empty, Sayings.file)
    BY DEF Empty, Holds
<1> QED BY <1>1, <1>2, <1>3 DEF fileLayer

(* The keys of the layers are keys of the defaults.                       *)
LEMMA Keys ==
    /\ DOMAIN Sayings.file \subseteq DOMAIN Defaults
    /\ DOMAIN Sayings.env \subseteq DOMAIN Defaults
    /\ DOMAIN Sayings.flags \subseteq DOMAIN Defaults
    /\ DOMAIN Sayings.options \subseteq DOMAIN Defaults
    /\ {"global", "lan", "relays", "nodeconf", "pushPeer", "pkarr", "redeem", "mode",
        "account", "wallet", "relaysDefaulted", "embedder", "pushAddrs"} \subseteq DOMAIN Defaults
BY DEF Sayings, Defaults

(* load: the layers, before the defaults of the network.                  *)
LEMMA LayeredReads ==
    ASSUME ConfigTypeOK, how # "embedded"
    PROVE  /\ DOMAIN Layered = DOMAIN Defaults
           /\ \A k \in {"global", "lan", "relays"} : Layered[k] = Said(k)
           /\ Layered.relaysDefaulted = FALSE
           /\ "prod" \notin {Layered.pushPeer, Layered.relays, Layered.pkarr, Layered.redeem}
<1> DEFINE e == applyEnv(set.env)
           top == Over(set.flags, e)
           low == Over(fileLayer, Defaults)
<1>1. /\ DOMAIN e \subseteq DOMAIN set.env
      /\ \A k \in DOMAIN set.env :
            k \in DOMAIN e <=> set.env[k] # "junk" \/ k \in {"mode", "global"}
      /\ \A k \in DOMAIN e : e[k] = set.env[k]
    BY DEF applyEnv
<1>2. /\ Holds(set.env, Sayings.env) /\ Holds(set.flags, Sayings.flags)
      /\ Holds(fileLayer, Sayings.file)
    BY LayersTyped
<1> HIDE DEF e
<1>3. /\ DOMAIN top = DOMAIN set.flags \cup DOMAIN e
      /\ \A k \in DOMAIN top : top[k] = IF k \in DOMAIN set.flags THEN set.flags[k] ELSE e[k]
      /\ DOMAIN low = DOMAIN fileLayer \cup DOMAIN Defaults
      /\ \A k \in DOMAIN low :
            low[k] = IF k \in DOMAIN fileLayer THEN fileLayer[k] ELSE Defaults[k]
    BY DEF Over
<1>4. Layered = Over(top, low)
    BY Zenon DEF Layered, e
<1> HIDE DEF top, low
<1>5. /\ DOMAIN Layered = DOMAIN top \cup DOMAIN low
      /\ \A k \in DOMAIN top \cup DOMAIN low :
            Layered[k] = IF k \in DOMAIN top THEN top[k] ELSE low[k]
    BY <1>4 DEF Over
<1>6. DOMAIN Layered = DOMAIN Defaults
    BY <1>1, <1>2, <1>3, <1>5, Keys DEF Holds
<1>7. \A k \in DOMAIN Defaults :
        Layered[k] = CASE k \in DOMAIN set.flags -> set.flags[k]
                       [] k \notin DOMAIN set.flags /\ k \in DOMAIN e -> set.env[k]
                       [] k \notin DOMAIN set.flags \cup DOMAIN e /\ k \in DOMAIN fileLayer ->
                            fileLayer[k]
                       [] OTHER -> Defaults[k]
    BY <1>1, <1>3, <1>5
<1>8. \A k \in {"global", "lan", "relays"} : Layered[k] = Said(k)
    <2> SUFFICES ASSUME NEW k \in {"global", "lan", "relays"} PROVE Layered[k] = Said(k)
        OBVIOUS
    <2>1. k \notin DOMAIN set.flags /\ k \in DOMAIN Defaults /\ Defaults[k] = "" /\ k # "mode"
        <3>1. k \notin DOMAIN set.flags
            BY <1>2 DEF Holds, Sayings
        <3>2. Defaults.global = "" /\ Defaults.lan = "" /\ Defaults.relays = ""
            BY DEF Defaults
        <3> QED BY <3>1, <3>2, Keys
    <2>2. Said(k) = IF k \in DOMAIN set.env /\ (set.env[k] # "junk" \/ k = "global")
                    THEN set.env[k]
                    ELSE IF k \in DOMAIN fileLayer THEN fileLayer[k] ELSE ""
        BY <2>1 DEF Said, Over
    <2>3. k \in DOMAIN e <=> k \in DOMAIN set.env /\ (set.env[k] # "junk" \/ k = "global")
        BY <1>1, <2>1
    <2> QED BY <1>7, <2>1, <2>2, <2>3
<1>9. Layered.relaysDefaulted = FALSE
    <2>1. "relaysDefaulted" \notin DOMAIN set.flags \cup DOMAIN e \cup DOMAIN fileLayer
        BY <1>1, <1>2 DEF Holds, Sayings
    <2> QED BY <1>7, <2>1, Keys DEF Defaults
<1>10. \A k \in {"pushPeer", "relays", "pkarr", "redeem"} : Layered[k] # "prod"
    <2> SUFFICES ASSUME NEW k \in {"pushPeer", "relays", "pkarr", "redeem"}
                 PROVE  Layered[k] # "prod"
        OBVIOUS
    <2>1. k \in DOMAIN Defaults /\ Defaults[k] # "prod"
        <3>1. /\ Defaults.pushPeer # "prod" /\ Defaults.relays # "prod"
              /\ Defaults.pkarr # "prod" /\ Defaults.redeem # "prod"
            BY DEF Defaults
        <3> QED BY <3>1, Keys
    <2>2. k \notin DOMAIN set.flags
        BY <1>2 DEF Holds, Sayings
    <2>3. k \in DOMAIN set.env => set.env[k] # "prod"
        BY <1>2 DEF Holds, Sayings
    <2>4. k \in DOMAIN fileLayer => fileLayer[k] # "prod"
        BY <1>2 DEF Holds, Sayings
    <2> QED BY <1>1, <1>7, <2>1, <2>2, <2>3, <2>4
<1> QED BY <1>6, <1>8, <1>9, <1>10

(* The defaults that ride on the packaged network change nothing on       *)
(* another, and nothing but the keys they are for.                        *)
LEMMA DefaultsRide ==
    ASSUME NEW c, DOMAIN c = DOMAIN Defaults
    PROVE  /\ DOMAIN ApplyPushDefaults(c) = DOMAIN Defaults
           /\ DOMAIN ApplyAccessDefaults(c) = DOMAIN Defaults
           /\ DOMAIN ApplyGlobalP2PDefaults(c) = DOMAIN Defaults
           /\ \A k \in DOMAIN Defaults :
                /\ k \notin {"pushPeer", "pushAddrs"} => ApplyPushDefaults(c)[k] = c[k]
                /\ k # "redeem" => ApplyAccessDefaults(c)[k] = c[k]
                /\ k \notin {"relaysDefaulted", "relays", "pkarr"} =>
                        ApplyGlobalP2PDefaults(c)[k] = c[k]
           /\ c.nodeconf # "" =>
                /\ ApplyPushDefaults(c) = c /\ ApplyAccessDefaults(c) = c
                /\ ApplyGlobalP2PDefaults(c) = c
           /\ c.nodeconf = "" =>
                LET d == ApplyGlobalP2PDefaults(c)
                IN  /\ d.relaysDefaulted = (c.relays = "")
                    /\ d.relays = IF c.relays = "" THEN "prod" ELSE c.relays
<1>1. {"nodeconf", "relays", "relaysDefaulted", "pkarr", "redeem", "pushPeer", "pushAddrs"}
        \subseteq DOMAIN c
    BY Keys
<1>2. DOMAIN ApplyPushDefaults(c) = DOMAIN Defaults
    BY DEF ApplyPushDefaults
<1>3. DOMAIN ApplyAccessDefaults(c) = DOMAIN Defaults
    BY DEF ApplyAccessDefaults
<1>4. DOMAIN ApplyGlobalP2PDefaults(c) = DOMAIN Defaults
    BY DEF ApplyGlobalP2PDefaults
<1>5. \A k \in DOMAIN Defaults :
        k \notin {"pushPeer", "pushAddrs"} => ApplyPushDefaults(c)[k] = c[k]
    BY DEF ApplyPushDefaults
<1>6. \A k \in DOMAIN Defaults : k # "redeem" => ApplyAccessDefaults(c)[k] = c[k]
    BY DEF ApplyAccessDefaults
<1>7. \A k \in DOMAIN Defaults :
        k \notin {"relaysDefaulted", "relays", "pkarr"} => ApplyGlobalP2PDefaults(c)[k] = c[k]
    BY DEF ApplyGlobalP2PDefaults
<1>8. c.nodeconf # "" =>
        /\ ApplyPushDefaults(c) = c /\ ApplyAccessDefaults(c) = c /\ ApplyGlobalP2PDefaults(c) = c
    BY DEF ApplyPushDefaults, ApplyAccessDefaults, ApplyGlobalP2PDefaults, UsesEmbeddedNodeconf
<1>9. c.nodeconf = "" =>
        /\ ApplyGlobalP2PDefaults(c).relaysDefaulted = (c.relays = "")
        /\ ApplyGlobalP2PDefaults(c).relays = IF c.relays = "" THEN "prod" ELSE c.relays
    BY <1>1 DEF ApplyGlobalP2PDefaults, UsesEmbeddedNodeconf
<1> QED BY <1>2, <1>3, <1>4, <1>5, <1>6, <1>7, <1>8, <1>9, Zenon

(* What a load that a boot follows comes to: the operator's own word, or  *)
(* a default on the packaged network.                                     *)
LEMMA LoadFits ==
    ASSUME ConfigTypeOK, how = "server", NEW c, Load(TRUE) = <<c>>
    PROVE  Fit(c)
<1> DEFINE a == ApplyPushDefaults(Layered)
           b == ApplyAccessDefaults(a)
           d == ApplyGlobalP2PDefaults(b)
<1>1. /\ DOMAIN Layered = DOMAIN Defaults
      /\ Layered.global = Said("global") /\ Layered.lan = Said("lan")
      /\ Layered.relays = Said("relays") /\ Layered.relaysDefaulted = FALSE
      /\ "prod" \notin {Layered.pushPeer, Layered.relays, Layered.pkarr, Layered.redeem}
    BY LayeredReads
<1>2. d = c /\ Layered.global # "junk" /\ validateMode(d)
    BY DEF Load
<1>3. /\ DOMAIN a = DOMAIN Defaults /\ (Layered.nodeconf # "" => a = Layered)
      /\ \A k \in DOMAIN Defaults : k \notin {"pushPeer", "pushAddrs"} => a[k] = Layered[k]
    BY <1>1, DefaultsRide
<1> HIDE DEF a
<1>4. /\ DOMAIN b = DOMAIN Defaults /\ (a.nodeconf # "" => b = a)
      /\ \A k \in DOMAIN Defaults : k # "redeem" => b[k] = a[k]
    BY <1>3, DefaultsRide
<1> HIDE DEF b
<1>5. /\ DOMAIN d = DOMAIN Defaults /\ (b.nodeconf # "" => d = b)
      /\ \A k \in DOMAIN Defaults : k \notin {"relaysDefaulted", "relays", "pkarr"} => d[k] = b[k]
      /\ b.nodeconf = "" =>
            /\ d.relaysDefaulted = (b.relays = "")
            /\ d.relays = IF b.relays = "" THEN "prod" ELSE b.relays
    BY <1>4, DefaultsRide
<1> HIDE DEF d
<1>6. /\ d.global = Layered.global /\ d.lan = Layered.lan /\ d.nodeconf = b.nodeconf
      /\ b.nodeconf = Layered.nodeconf /\ a.nodeconf = Layered.nodeconf
      /\ b.relays = Layered.relays /\ b.relaysDefaulted = Layered.relaysDefaulted
    BY <1>3, <1>4, <1>5, Keys
<1>7. d.mode = "managed" => d.account = "" /\ d.wallet = ""
    BY <1>2 DEF validateMode
<1>8. CASE Layered.nodeconf # ""
    <2>1. d = Layered
        BY <1>3, <1>4, <1>5, <1>6, <1>8
    <2> QED BY <1>1, <1>2, <1>7, <2>1 DEF Fit
<1>9. CASE Layered.nodeconf = ""
    <2>1. d.relaysDefaulted = (Layered.relays = "")
        BY <1>5, <1>6, <1>9
    <2>2. ~d.relaysDefaulted => d.relays = Layered.relays
        BY <1>5, <1>6, <1>9, <2>1
    <2> QED BY <1>1, <1>2, <1>5, <1>6, <1>7, <1>9, <2>1, <2>2 DEF Fit
<1> QED BY <1>8, <1>9

(* The same of an embedded host's options: no network layer but the       *)
(* switch itself, and no key.                                             *)
LEMMA OptionsFit ==
    ASSUME ConfigTypeOK, how = "embedded"
    PROVE  Fit(assembleConfig(set.options))
<1> DEFINE o == set.options
           given == [k \in DOMAIN o \ {"global"} |-> o[k]]
           plain == [Defaults EXCEPT !.embedder = "none"]
           base == Over(given, plain)
           a == ApplyPushDefaults(base)
           d == ApplyGlobalP2PDefaults(a)
           c == assembleConfig(o)
<1>1. Holds(o, Sayings.options)
    BY LayersTyped
<1>2. c = IF "global" \in DOMAIN o THEN [d EXCEPT !.global = o.global] ELSE d
    BY Zenon DEF assembleConfig
<1> HIDE DEF o, c
<1>3. /\ DOMAIN plain = DOMAIN Defaults /\ plain.global = "" /\ plain.lan = ""
      /\ plain.relays = "" /\ plain.relaysDefaulted = FALSE /\ plain.pkarr = ""
      /\ plain.redeem = "" /\ plain.pushPeer = "" /\ plain.account = "" /\ plain.wallet = ""
    BY DEF Defaults
<1> HIDE DEF plain
<1>4. /\ DOMAIN base = DOMAIN Defaults
      /\ \A k \in DOMAIN Defaults :
            base[k] = IF k \in DOMAIN o /\ k # "global" THEN o[k] ELSE plain[k]
    <2>1. DOMAIN o \subseteq DOMAIN Defaults
        BY <1>1, Keys DEF Holds
    <2> QED BY <1>3, <2>1 DEF Over
<1> HIDE DEF base
<1>5. {"lan", "relays", "relaysDefaulted", "pkarr", "redeem", "account", "wallet"}
        \cap DOMAIN o = {}
    BY <1>1 DEF Holds, Sayings
<1>6. /\ base.global = "" /\ base.lan = "" /\ base.relays = "" /\ base.relaysDefaulted = FALSE
      /\ base.pkarr = "" /\ base.redeem = "" /\ base.account = "" /\ base.wallet = ""
    BY <1>3, <1>4, <1>5, Keys
<1>7. base.pushPeer # "prod"
    <2>1. "pushPeer" \in DOMAIN o => o.pushPeer # "prod"
        BY <1>1 DEF Holds, Sayings
    <2> QED BY <1>3, <1>4, <2>1, Keys
<1>8. /\ DOMAIN a = DOMAIN Defaults /\ (base.nodeconf # "" => a = base)
      /\ \A k \in DOMAIN Defaults : k \notin {"pushPeer", "pushAddrs"} => a[k] = base[k]
    BY <1>4, DefaultsRide
<1> HIDE DEF a
<1>9. /\ DOMAIN d = DOMAIN Defaults /\ (a.nodeconf # "" => d = a)
      /\ \A k \in DOMAIN Defaults : k \notin {"relaysDefaulted", "relays", "pkarr"} => d[k] = a[k]
      /\ a.nodeconf = "" => d.relaysDefaulted = (a.relays = "")
    BY <1>8, DefaultsRide
<1> HIDE DEF d
<1>10. /\ d.nodeconf = a.nodeconf /\ a.nodeconf = base.nodeconf /\ a.relays = base.relays
       /\ d.global = "" /\ d.lan = "" /\ d.account = "" /\ d.wallet = ""
    BY <1>6, <1>8, <1>9, Keys
<1>11. /\ DOMAIN c = DOMAIN Defaults /\ \A k \in DOMAIN Defaults : k # "global" => c[k] = d[k]
       /\ c.global = IF "global" \in DOMAIN o THEN o.global ELSE ""
    BY <1>2, <1>9, <1>10, Keys
<1>12. c.global = Said("global") /\ c.global # "junk" /\ Said("lan") = ""
    <2>1. "global" \in DOMAIN o => o.global # "junk"
        BY <1>1 DEF Holds, Sayings, Bools
    <2>2. Said("global") = (IF "global" \in DOMAIN o THEN o.global ELSE "") /\ Said("lan") = ""
        BY <1>5 DEF Said, o
    <2> QED BY <1>11, <2>1, <2>2
<1>13. c.relaysDefaulted \in BOOLEAN /\ (~c.relaysDefaulted => c.relays = Said("relays"))
    <2>1. Said("relays") = ""
        BY <1>5 DEF Said, o
    <2>2. CASE a.nodeconf # ""
        BY <1>6, <1>8, <1>9, <1>10, <1>11, <2>1, <2>2, Keys
    <2>3. CASE a.nodeconf = ""
        BY <1>6, <1>9, <1>10, <1>11, <2>3, Keys
    <2> QED BY <2>2, <2>3
<1>14. c.nodeconf # "" => "prod" \notin {c.pushPeer, c.relays, c.pkarr, c.redeem}
    <2>1. c.nodeconf # "" => d = base
        BY <1>8, <1>9, <1>10, <1>11, Keys
    <2> QED BY <1>6, <1>7, <1>11, <2>1, Keys
<1> QED BY <1>10, <1>11, <1>12, <1>13, <1>14, Keys DEF Fit, c, o

(* A configuration, or what runs of it, is there or not.                  *)
LEMMA OneLong ==
    ASSUME NEW x PROVE Len(<<x>>) = 1 /\ Len(<<>>) = 0
<1>1. <<x>> \in Seq({x})
    OBVIOUS
<1> QED BY <1>1

(* Nothing is said before the first setting.                              *)
LEMMA InitConfig == ConfigInit => ConfigInv
<1> SUFFICES ASSUME ConfigInit PROVE ConfigInv
    OBVIOUS
<1>1. /\ how \in {"server", "client", "embedded"} /\ place \in {"home", "default", "alt"}
      /\ set = [l \in Layers |-> Empty] /\ cfg = <<>> /\ running = <<>> /\ failed = FALSE
    <2>1. place \in IF how = "embedded" THEN {"default"} ELSE {"home", "default", "alt"}
        BY Zenon DEF ConfigInit
    <2>2. place \in {"home", "default", "alt"}
        BY <2>1
    <2> QED BY <2>2, Zenon DEF ConfigInit
<1>2. DOMAIN Empty = {}
    BY DEF Empty
<1>3. /\ DOMAIN set = Layers /\ \A l \in Layers : DOMAIN set[l] \subseteq DOMAIN Sayings[l]
      /\ \A l \in Layers : \A k \in DOMAIN set[l] : set[l][k] \in Sayings[l][k]
    BY <1>1, <1>2
<1>4. Len(cfg) <= 1 /\ Len(running) <= Len(cfg)
    BY <1>1
<1>5. ConfigTypeOK
    BY <1>1, <1>3, <1>4, Zenon DEF ConfigTypeOK
<1> QED BY <1>1, <1>5 DEF ConfigInv, BootsAsTold, OptOutHonoured, NetworkPaired, ManagedKeyless

(* A setting, a load and a boot.                                          *)
LEMMA NextConfig == ConfigInv /\ [ConfigNext]_config => ConfigInv'
<1> SUFFICES ASSUME ConfigInv, [ConfigNext]_config PROVE ConfigInv'
    OBVIOUS
<1>1. /\ ConfigTypeOK /\ OptOutHonoured /\ NetworkPaired /\ ManagedKeyless
      /\ cfg = <<>> => running = <<>>
      /\ running = <<>> /\ cfg # <<>> /\ how # "client" => Fit(cfg[1])
    BY DEF ConfigInv, BootsAsTold
<1>2. ASSUME NEW l \in Layers, NEW k \in DOMAIN Sayings[l], NEW v \in Sayings[l][k], Say(l, k, v)
      PROVE  ConfigInv'
    <2>1. /\ cfg = <<>> /\ cfg' = <<>> /\ running' = <<>> /\ how' = how /\ place' = place
          /\ failed' = failed /\ set' = [set EXCEPT ![l] = Over([j \in {k} |-> v], set[l])]
        BY <1>1, <1>2 DEF Say
    <2>2. /\ DOMAIN set = Layers
          /\ \A m \in Layers : /\ DOMAIN set[m] \subseteq DOMAIN Sayings[m]
                                /\ \A j \in DOMAIN set[m] : set[m][j] \in Sayings[m][j]
        BY <1>1 DEF ConfigTypeOK
    <2>3. /\ DOMAIN set' = Layers
          /\ \A m \in Layers : set'[m] = IF m = l THEN Over([j \in {k} |-> v], set[l]) ELSE set[m]
        BY <2>1, <2>2
    <2>4. /\ DOMAIN Over([j \in {k} |-> v], set[l]) \subseteq DOMAIN Sayings[l]
          /\ \A i \in DOMAIN Over([j \in {k} |-> v], set[l]) :
                Over([j \in {k} |-> v], set[l])[i] \in Sayings[l][i]
        BY <2>2 DEF Over
    <2>5. /\ \A m \in Layers : DOMAIN set'[m] \subseteq DOMAIN Sayings[m]
          /\ \A m \in Layers : \A j \in DOMAIN set'[m] : set'[m][j] \in Sayings[m][j]
        BY <2>2, <2>3, <2>4
    <2>6. ConfigTypeOK'
        <3>1. Len(cfg') <= 1 /\ Len(running') <= Len(cfg')
            BY <2>1
        <3> QED BY <1>1, <2>1, <2>3, <2>5, <3>1 DEF ConfigTypeOK
    <2> QED BY <2>1, <2>6 DEF ConfigInv, BootsAsTold, OptOutHonoured, NetworkPaired, ManagedKeyless
<1>3. CASE LoadStep
    <2>1. /\ cfg' = Resolved /\ running = <<>> /\ running' = <<>> /\ how' = how /\ place' = place
          /\ set' = set /\ failed' \in BOOLEAN
        BY <1>1, <1>3 DEF LoadStep
    <2>2. Resolved = <<>> \/ \E c : Resolved = <<c>>
        BY DEF Resolved, Load
    <2>3. ASSUME how # "client", NEW c, Resolved = <<c>> PROVE Fit(c)
        <3>1. CASE how = "embedded"
            <4>1. c = assembleConfig(set.options)
                BY <2>3, <3>1 DEF Resolved
            <4> QED BY <1>1, <3>1, <4>1, OptionsFit
        <3>2. CASE how = "server"
            <4>1. Load(TRUE) = <<c>>
                BY <2>3, <3>2 DEF Resolved
            <4> QED BY <1>1, <3>2, <4>1, LoadFits
        <3> QED BY <1>1, <2>3, <3>1, <3>2 DEF ConfigTypeOK
    <2>4. how' # "client" /\ cfg' # <<>> => Fit(cfg'[1])
        BY <2>1, <2>2, <2>3
    <2>6. how' # "client" /\ cfg' # <<>> => Fit(cfg[1])'
        <3>1. \A k : Said(k)' = Said(k)
            BY <2>1 DEF Said, fileLayer, SearchDir, Over
        <3> QED BY <2>1, <2>4, <3>1 DEF Fit
    <2>7. ConfigTypeOK'
        <3>1. Len(cfg') <= 1 /\ Len(running') <= Len(cfg')
            <4>1. Len(cfg') = 0 \/ Len(cfg') = 1
                <5>1. CASE Resolved = <<>>
                    BY <2>1, <5>1, OneLong
                <5>2. CASE \E c : Resolved = <<c>>
                    <6>1. PICK c : Resolved = <<c>>
                        BY <5>2
                    <6>2. Len(<<c>>) = 1
                        BY OneLong
                    <6> QED BY <2>1, <6>1, <6>2, Zenon
                <5> QED BY <2>2, <5>1, <5>2
            <4>2. Len(running') = 0
                BY <2>1
            <4>3. \A a, b : (a = 0 \/ a = 1) /\ b = 0 => a <= 1 /\ b <= a
                OBVIOUS
            <4> QED BY <4>1, <4>2, <4>3, Zenon
        <3> QED BY <1>1, <2>1, <3>1, Zenon DEF ConfigTypeOK
    <2> QED BY <2>1, <2>6, <2>7
            DEF ConfigInv, BootsAsTold, OptOutHonoured, NetworkPaired, ManagedKeyless
<1>4. ASSUME NEW darwin \in BOOLEAN, HandOver(darwin) PROVE ConfigInv'
    <2> DEFINE c == cfg[1]
               c2 == [c EXCEPT !.nodeconf = IF c.nodeconf = "" THEN "prod" ELSE c.nodeconf]
               r == [network |-> IF c.nodeconf = "" THEN "prod" ELSE c.nodeconf,
                     push |-> IF PushActive(c) THEN c.pushPeer ELSE "",
                     relays |-> IF isEnabled(c) THEN c.relays ELSE "",
                     pkarr |-> IF isEnabled(c) THEN c.pkarr ELSE "",
                     redeem |-> c.redeem, managed |-> c.mode = "managed",
                     keyed |-> c.account # "" \/ c.wallet # "",
                     discovery |-> LocalDiscoveryEnabled(c, darwin)]
    <2>1. /\ cfg # <<>> /\ running = <<>> /\ how # "client"
          /\ how' = how /\ place' = place /\ set' = set /\ failed' \in BOOLEAN
        <3>1. /\ cfg # <<>> /\ running = <<>> /\ how # "client"
              /\ how' = how /\ place' = place /\ set' = set
            BY <1>4, Zenon DEF HandOver
        <3>2. failed' = TRUE \/ failed' = failed
            BY <1>4, Zenon DEF HandOver
        <3> QED BY <1>1, <3>1, <3>2, Zenon DEF ConfigTypeOK
    <2>2. Fit(c)
        BY <1>1, <2>1
    <2>3. \A k : Said(k)' = Said(k)
        BY <2>1 DEF Said, fileLayer, SearchDir, Over
    <2>4. CASE UNCHANGED <<cfg, running>>
        <3>1. ConfigTypeOK'
            BY <1>1, <2>1, <2>4, Zenon DEF ConfigTypeOK
        <3>2. Fit(cfg[1])'
            BY <2>2, <2>3, <2>4 DEF Fit
        <3> QED BY <2>1, <2>4, <3>1, <3>2
                DEF ConfigInv, BootsAsTold, OptOutHonoured, NetworkPaired, ManagedKeyless
    <2>5. CASE cfg' = <<c2>> /\ running' = <<r>>
        <3>1. ConfigTypeOK'
            <4>1. Len(cfg') <= 1 /\ Len(running') <= Len(cfg')
                <5>1. Len(<<c2>>) = 1 /\ Len(<<r>>) = 1
                    BY OneLong, Zenon
                <5>2. Len(cfg') = 1 /\ Len(running') = 1
                    BY <2>5, <5>1, Zenon
                <5> QED BY <5>2
            <4> QED BY <1>1, <2>1, <4>1, Zenon DEF ConfigTypeOK
        <3>2. running'[1] = r /\ running' # <<>> /\ cfg' # <<>>
            BY <2>5
        <3>3. OptOutHonoured'
            <4>1. r.relays # "" => /\ c.global # "" => c.global = "true"
                                   /\ c.global = "" =>
                                        /\ c.relays # ""
                                        /\ c.lan = "false" => ~c.relaysDefaulted
                BY DEF isEnabled
            <4>2. r.relays # "" =>
                    /\ Said("global") \notin {"false", "junk"}
                    /\ Said("lan") = "false" => Said("global") = "true" \/ Said("relays") # ""
                BY <2>2, <4>1 DEF Fit
            <4> HIDE DEF r
            <4> QED BY <2>3, <3>2, <4>2 DEF OptOutHonoured
        <3>4. NetworkPaired'
            <4>1. r.network # "prod" => "prod" \notin {r.push, r.relays, r.pkarr, r.redeem}
                BY <2>2 DEF Fit
            <4> HIDE DEF r
            <4> QED BY <3>2, <4>1 DEF NetworkPaired
        <3>5. ManagedKeyless'
            <4>1. r.managed => ~r.keyed
                BY <2>2 DEF Fit
            <4> HIDE DEF r
            <4> QED BY <3>2, <4>1 DEF ManagedKeyless
        <3> QED BY <3>1, <3>2, <3>3, <3>4, <3>5 DEF ConfigInv, BootsAsTold
    <2> QED BY <1>4, <2>4, <2>5 DEF HandOver
<1>5. CASE UNCHANGED config
    <2>1. /\ how' = how /\ place' = place /\ set' = set /\ cfg' = cfg /\ running' = running
          /\ failed' = failed
        BY <1>5 DEF config
    <2>2. \A k : Said(k)' = Said(k)
        BY <2>1 DEF Said, fileLayer, SearchDir, Over
    <2>3. ConfigTypeOK'
        BY <1>1, <2>1, Zenon DEF ConfigTypeOK
    <2>4. (Fit(cfg[1]))' <=> Fit(cfg[1])
        BY <2>1, <2>2 DEF Fit
    <2> QED BY <1>1, <2>1, <2>2, <2>3, <2>4
            DEF ConfigInv, BootsAsTold, OptOutHonoured, NetworkPaired, ManagedKeyless
<1> QED BY <1>2, <1>3, <1>4, <1>5 DEF ConfigNext

(* A boot runs as its operator said, in whatever layers and however much  *)
(* was said: no relay session after an opt-out, nothing of the packaged   *)
(* network on another, and no key of a managed server's own.              *)
THEOREM BootsHonoured == ConfigSpec => []BootsAsTold
<1>1. ConfigInit => ConfigInv
    BY InitConfig
<1>2. ConfigInv /\ [ConfigNext]_config => ConfigInv'
    BY NextConfig
<1>3. ConfigInv => BootsAsTold
    BY DEF ConfigInv
<1> QED BY <1>1, <1>2, <1>3, PTL DEF ConfigSpec
=============================================================================
