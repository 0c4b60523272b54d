--------------------------- MODULE LocalDiscovery ---------------------------
(***************************************************************************)
(* The local-discovery switch (local_discovery.go) against engine boots.   *)
(*                                                                         *)
(* PUT /v1/local-discovery stores the host's statement and forwards it to  *)
(* the live engine, entered through the gate, or else to the one booting.  *)
(* Each boot (engine.go) takes a snapshot of the statement for its config, *)
(* exposes its SDK as soon as it is open and applies the statement then    *)
(* and again once published.  The load of the statement and the call into  *)
(* the SDK are separate steps of every one of these threads.               *)
(***************************************************************************)
EXTENDS Naturals, FiniteSets, FiniteSetTheorems, TLAPS

CONSTANTS
    Puts,        \* the PUT /v1/local-discovery requests
    BootThread,  \* the thread holding authMu: boots and tears down
    Default,     \* the configured p2p.localDiscovery
    MaxEngines   \* bound: engines ever booted

Settings == {"on", "off"}

(* The default is one of the settings; PUTs and boots are different threads. *)
DiscoveryConstants ==
    /\ Default \in Settings /\ MaxEngines \in Nat
    /\ BootThread \notin Puts /\ IsFiniteSet(Puts)
ASSUME DiscoveryAssumption == DiscoveryConstants

VARIABLES
    statement,  \* d.localDiscovery: the host's last word, "none" before it
    said,       \* every value a PUT has stored (history)
    sdk,        \* d.sdk's engine while published, 0 otherwise
    ready,      \* d.ready
    bootingSDK, \* d.bootingSDK, 0 for nil
    setting,    \* setting[e]: what engine e's SDK was last told
    informed,   \* informed[e]: a PUT had returned when e's boot began (history)
    made,       \* engines booted so far
    closed,     \* the engines whose SDK is closed
    bpc,        \* where the boot thread is
    snapshot,   \* bootConfig's local-discovery value
    apc, value, target,  \* each thread's progress through applyLocalDiscovery
    used        \* the PUTs that have run

Threads == Puts \cup {BootThread}
Engines == 1..MaxEngines

booting == <<bpc, snapshot, made, closed, informed>>
apply == <<apc, value, target>>
discovery == <<statement, said, sdk, ready, bootingSDK, setting, booting, apply, used>>

DiscoveryTypeOK ==
    /\ statement \in Settings \cup {"none"} /\ said \subseteq Settings
    /\ sdk \in 0..MaxEngines /\ ready \in BOOLEAN
    /\ bootingSDK \in 0..MaxEngines
    /\ setting \in [Engines -> Settings] /\ informed \in [Engines -> BOOLEAN]
    /\ made \in 0..MaxEngines /\ closed \subseteq Engines
    /\ bpc \in {"idle", "open", "note", "rest", "publish", "applied", "clear", "drain"}
    /\ snapshot \in Settings
    /\ apc \in [Threads -> {"idle", "load", "enter", "inside", "booting"}]
    /\ value \in [Threads -> Settings] /\ target \in [Threads -> 0..MaxEngines]
    /\ used \subseteq Puts

DiscoveryInit ==
    /\ statement = "none" /\ said = {} /\ sdk = 0 /\ ready = FALSE
    /\ bootingSDK = 0
    /\ setting = [e \in Engines |-> Default] /\ informed = [e \in Engines |-> FALSE]
    /\ made = 0 /\ closed = {} /\ bpc = "idle" /\ snapshot = Default
    /\ apc = [t \in Threads |-> "idle"] /\ value = [t \in Threads |-> Default]
    /\ target = [t \in Threads |-> 0] /\ used = {}

-----------------------------------------------------------------------------
(* localDiscoverySet: store, then apply.                                    *)
Put(t, v) ==
    /\ t \notin used /\ apc[t] = "idle"
    /\ used' = used \cup {t}
    /\ statement' = v /\ said' = said \cup {v}
    /\ apc' = [apc EXCEPT ![t] = "load"]
    /\ UNCHANGED <<sdk, ready, bootingSDK, setting, booting, value, target>>

(* applyLocalDiscovery loads the statement; without one it returns.         *)
ApplyLoad(t) ==
    /\ apc[t] = "load"
    /\ IF statement = "none"
       THEN apc' = [apc EXCEPT ![t] = "idle"] /\ UNCHANGED value
       ELSE /\ value' = [value EXCEPT ![t] = statement]
            /\ apc' = [apc EXCEPT ![t] = "enter"]
    /\ UNCHANGED <<statement, said, sdk, ready, bootingSDK, setting, booting, target, used>>

(* enterGate, and failing that the booting SDK; with neither it returns.    *)
ApplyEnter(t) ==
    /\ apc[t] = "enter"
    /\ LET to == IF ready THEN sdk ELSE bootingSDK
       IN /\ target' = [target EXCEPT ![t] = to]
          /\ apc' = [apc EXCEPT ![t] = IF ready THEN "inside"
                                       ELSE IF to # 0 THEN "booting" ELSE "idle"]
    /\ UNCHANGED <<statement, said, sdk, ready, bootingSDK, setting, booting, value, used>>

(* SetLocalDiscoveryEnabled on the engine entered or the one booting.       *)
ApplySet(t) ==
    /\ apc[t] \in {"inside", "booting"}
    /\ setting' = [setting EXCEPT ![target[t]] = value[t]]
    /\ apc' = [apc EXCEPT ![t] = "idle"]
    /\ target' = [target EXCEPT ![t] = 0]
    /\ value' = [value EXCEPT ![t] = Default]
    /\ UNCHANGED <<statement, said, sdk, ready, bootingSDK, booting, used>>

-----------------------------------------------------------------------------
(* The boot thread, under authMu.                                           *)

(* bootConfig: the statement outranks the config default.                   *)
BootConfig == IF statement = "none" THEN Default ELSE statement

BootStart ==
    /\ bpc = "idle" /\ sdk = 0 /\ made < MaxEngines
    /\ snapshot' = BootConfig
    /\ informed' = [informed EXCEPT ![made + 1] =
                        \E t \in used : apc[t] = "idle"]
    /\ bpc' = "open"
    /\ UNCHANGED <<statement, said, sdk, ready, bootingSDK, setting, made, closed,
                   apply, used>>

(* OpenSDK with the snapshot, then noteBootingSDK: expose and apply.        *)
NoteBootingSDK ==
    /\ bpc = "open"
    /\ made' = made + 1
    /\ setting' = [setting EXCEPT ![made + 1] = snapshot]
    /\ bootingSDK' = made + 1
    /\ apc' = [apc EXCEPT ![BootThread] = "load"]
    /\ bpc' = "note"
    /\ UNCHANGED <<statement, said, sdk, ready, snapshot, closed, informed,
                   value, target, used>>

BootRest ==
    /\ bpc = "note" /\ apc[BootThread] = "idle"
    /\ bpc' = "publish"
    /\ UNCHANGED <<statement, said, sdk, ready, bootingSDK, setting, snapshot, made,
                   closed, informed, apply, used>>

(* A failed boot closes its SDK, then the pointer is cleared.               *)
BootFailed ==
    /\ bpc = "note" /\ apc[BootThread] = "idle"
    /\ closed' = closed \cup {made}
    /\ bpc' = "clear"
    /\ UNCHANGED <<statement, said, sdk, ready, bootingSDK, setting, snapshot, made,
                   informed, apply, used>>

(* Mutant of Publish: the booting pointer is cleared before ready flips and *)
(* the statement is not applied again.                                      *)
PublishWindow ==
    /\ bpc = "publish"
    /\ IF bootingSDK # 0
       THEN bootingSDK' = 0 /\ UNCHANGED <<sdk, ready, bpc>>
       ELSE sdk' = made /\ ready' = TRUE /\ bpc' = "clear" /\ UNCHANGED bootingSDK
    /\ UNCHANGED <<statement, said, setting, snapshot, made, closed, informed, apply, used>>

(* publishEngine: fields, ready, and the statement once more.               *)
Publish ==
    /\ bpc = "publish"
    /\ sdk' = made /\ ready' = TRUE
    /\ apc' = [apc EXCEPT ![BootThread] = "load"]
    /\ bpc' = "applied"
    /\ UNCHANGED <<statement, said, bootingSDK, setting, snapshot, made, closed,
                   informed, value, target, used>>

Published ==
    /\ bpc = "applied" /\ apc[BootThread] = "idle"
    /\ bpc' = "clear"
    /\ UNCHANGED <<statement, said, sdk, ready, bootingSDK, setting, snapshot, made,
                   closed, informed, apply, used>>

(* The deferred bootingSDK.Store(nil) of bootAccountLocked.                 *)
BootClear ==
    /\ bpc = "clear"
    /\ bootingSDK' = 0 /\ bpc' = "idle"
    /\ UNCHANGED <<statement, said, sdk, ready, setting, snapshot, made, closed,
                   informed, apply, used>>

(* Teardown: ready off, the gate drained, the SDK closed.                   *)
TeardownReady ==
    /\ bpc = "idle" /\ ready
    /\ ready' = FALSE /\ bpc' = "drain"
    /\ UNCHANGED <<statement, said, sdk, bootingSDK, setting, snapshot, made, closed,
                   informed, apply, used>>

TeardownClose ==
    /\ bpc = "drain" /\ \A t \in Threads : apc[t] # "inside"
    /\ closed' = closed \cup {sdk} /\ sdk' = 0 /\ bpc' = "idle"
    /\ UNCHANGED <<statement, said, ready, bootingSDK, setting, snapshot, made,
                   informed, apply, used>>

DiscoveryNext ==
    \/ \E t \in Puts, v \in Settings : Put(t, v)
    \/ \E t \in Threads : ApplyLoad(t) \/ ApplyEnter(t) \/ ApplySet(t)
    \/ BootStart \/ NoteBootingSDK \/ BootRest \/ BootFailed
    \/ Publish \/ Published \/ BootClear \/ TeardownReady \/ TeardownClose

DiscoverySpec == DiscoveryInit /\ [][DiscoveryNext]_discovery

-----------------------------------------------------------------------------
(* What GET /v1/local-discovery answers.                                    *)
LocalDiscoveryState == IF ready THEN setting[sdk] ELSE BootConfig

AtRest == bpc = "idle" /\ \A t \in Threads : apc[t] = "idle"

(* At rest a live engine runs with the host's last statement, or the config *)
(* default before there is one, whichever stage of its boot the statement   *)
(* met (local_discovery.go: the switch is applied at once).                 *)
StatementApplied ==
    AtRest => LocalDiscoveryState = BootConfig

(* An engine booted after the host has spoken is only ever told what the    *)
(* host has said: discovery configured on is not announced for a moment     *)
(* when the host had switched it off (nothing is sent on the LAN before the *)
(* host allows it).                                                         *)
OnlyWhatWasSaid ==
    \A e \in 1..made : informed[e] => setting[e] \in said

(* One PUT, at any stage of a boot or teardown, is what the engine at rest  *)
(* runs with (applyLocalDiscovery, and publishEngine's second apply).  Two  *)
(* overlapping PUTs may leave the engine with the older.  However many PUTs *)
(* there are, an engine booted after the host has spoken is only told what  *)
(* the host has said.                                                       *)
PutsHonoured ==
    /\ DiscoveryTypeOK
    /\ Cardinality(used) <= 1 => StatementApplied
    /\ OnlyWhatWasSaid

-----------------------------------------------------------------------------
(* The inductive invariant.                                                 *)

Applying == {"enter", "inside", "booting"}  \* past the load of the statement

(* Which engine each stage of a boot or teardown works on.                  *)
BootShape ==
    /\ bpc = "open" => made < MaxEngines
    /\ bpc \in {"open", "note", "publish"} => ~ready /\ sdk = 0
    /\ bpc \in {"note", "publish", "applied", "clear"} => made # 0 /\ bootingSDK = made
    /\ bpc = "applied" => ready
    /\ bpc = "drain" => ~ready /\ sdk # 0
    /\ ready => sdk = made /\ made # 0
    /\ apc[BootThread] # "idle" => bpc \in {"note", "applied"}

(* Every value on its way to an engine has been said by the host.           *)
Spoken ==
    /\ statement = "none" <=> used = {}
    /\ statement # "none" => statement \in said
    /\ \A t \in Threads : apc[t] \in Applying => value[t] \in said
    /\ bpc = "open" /\ informed[made + 1] => snapshot \in said

(* A live engine runs with what it should, or a thread that reaches it will *)
(* tell it so; with one PUT no thread carries an older value.               *)
Told(e) ==
    \/ setting[e] = BootConfig
    \/ \E t \in Threads : \/ apc[t] \in {"load", "enter"}
                          \/ apc[t] \in {"inside", "booting"} /\ target[t] = e
OnePut == \A t, u \in used : t = u
Converging ==
    OnePut =>
        /\ \A t \in Threads : apc[t] \in Applying => value[t] = statement
        /\ statement = "none" => snapshot = Default /\ \A e \in Engines : setting[e] = Default
        /\ bpc \in {"note", "publish", "applied"} \/ ready => Told(made)

DiscoveryInv == DiscoveryTypeOK /\ BootShape /\ Spoken /\ OnlyWhatWasSaid /\ Converging

-----------------------------------------------------------------------------
(* Proofs.                                                                  *)

(* The state stays well typed.                                              *)
LEMMA DiscoveryTypeStep ==
    ASSUME DiscoveryConstants, DiscoveryTypeOK, BootShape, [DiscoveryNext]_discovery
           PROVE DiscoveryTypeOK'
<1> USE DEF DiscoveryConstants, DiscoveryTypeOK, Settings, Threads, Engines, booting, apply
<1>1. ASSUME NEW t \in Puts, NEW v \in Settings, Put(t, v) PROVE DiscoveryTypeOK'
    BY <1>1 DEF Put
<1>2. ASSUME NEW t \in Threads, ApplyLoad(t) PROVE DiscoveryTypeOK'
    BY <1>2 DEF ApplyLoad
<1>3. ASSUME NEW t \in Threads, ApplyEnter(t) PROVE DiscoveryTypeOK'
    BY <1>3 DEF ApplyEnter
<1>4. ASSUME NEW t \in Threads, ApplySet(t) PROVE DiscoveryTypeOK'
    <2>1. setting' \in [Engines -> Settings]
        BY <1>4 DEF ApplySet
    <2>2. value' \in [Threads -> Settings] /\ target' \in [Threads -> 0..MaxEngines]
        BY <1>4 DEF ApplySet
    <2>3. apc' \in [Threads -> {"idle", "load", "enter", "inside", "booting"}]
        BY <1>4 DEF ApplySet
    <2> QED BY <1>4, <2>1, <2>2, <2>3 DEF ApplySet
<1>5. CASE BootStart
    BY <1>5 DEF BootStart, BootConfig
<1>6. CASE NoteBootingSDK
    <2>1. made + 1 \in 0..MaxEngines /\ made' = made + 1
        BY <1>6 DEF NoteBootingSDK, BootShape
    <2> QED BY <1>6, <2>1 DEF NoteBootingSDK
<1>7. CASE BootRest
    BY <1>7 DEF BootRest
<1>8. CASE BootFailed
    <2>1. made \in Engines
        BY <1>8 DEF BootFailed, BootShape
    <2> QED BY <1>8, <2>1 DEF BootFailed
<1>9. CASE Publish
    BY <1>9 DEF Publish
<1>10. CASE Published
    BY <1>10 DEF Published
<1>11. CASE BootClear
    BY <1>11 DEF BootClear
<1>12. CASE TeardownReady
    BY <1>12 DEF TeardownReady
<1>13. CASE TeardownClose
    <2>1. sdk \in Engines
        BY <1>13 DEF TeardownClose, BootShape
    <2> QED BY <1>13, <2>1 DEF TeardownClose
<1>14. CASE UNCHANGED discovery
    BY <1>14 DEF discovery
<1> QED BY <1>1, <1>2, <1>3, <1>4, <1>5, <1>6, <1>7, <1>8, <1>9, <1>10, <1>11, <1>12, <1>13,
           <1>14 DEF DiscoveryNext

(* Boots and teardowns work on the engine they should.                      *)
LEMMA ShapeStep ==
    ASSUME DiscoveryConstants, DiscoveryTypeOK, BootShape, [DiscoveryNext]_discovery
           PROVE BootShape'
<1> USE DEF DiscoveryConstants, DiscoveryTypeOK, BootShape, Threads, Engines, booting, apply
<1>1. ASSUME NEW t \in Puts, NEW v \in Settings, Put(t, v) PROVE BootShape'
    BY <1>1 DEF Put
<1>2. ASSUME NEW t \in Threads, ApplyLoad(t) PROVE BootShape'
    BY <1>2 DEF ApplyLoad
<1>3. ASSUME NEW t \in Threads, ApplyEnter(t) PROVE BootShape'
    BY <1>3 DEF ApplyEnter
<1>4. ASSUME NEW t \in Threads, ApplySet(t) PROVE BootShape'
    BY <1>4 DEF ApplySet
<1>5. CASE BootStart
    BY <1>5 DEF BootStart, BootConfig
<1>6. CASE NoteBootingSDK
    BY <1>6 DEF NoteBootingSDK
<1>7. CASE BootRest
    BY <1>7 DEF BootRest
<1>8. CASE BootFailed
    BY <1>8 DEF BootFailed
<1>9. CASE Publish
    BY <1>9 DEF Publish
<1>10. CASE Published
    BY <1>10 DEF Published
<1>11. CASE BootClear
    BY <1>11 DEF BootClear
<1>12. CASE TeardownReady
    BY <1>12 DEF TeardownReady
<1>13. CASE TeardownClose
    BY <1>13 DEF TeardownClose
<1>14. CASE UNCHANGED discovery
    BY <1>14 DEF discovery
<1> QED BY <1>1, <1>2, <1>3, <1>4, <1>5, <1>6, <1>7, <1>8, <1>9, <1>10, <1>11, <1>12, <1>13,
           <1>14 DEF DiscoveryNext

(* Nothing reaches an engine that the host has not said.                    *)
LEMMA SpokenStep ==
    ASSUME DiscoveryConstants, DiscoveryTypeOK, BootShape, Spoken, OnlyWhatWasSaid,
           [DiscoveryNext]_discovery PROVE (Spoken /\ OnlyWhatWasSaid)'
<1> USE DEF DiscoveryConstants, DiscoveryTypeOK, BootShape, Spoken, OnlyWhatWasSaid, Applying,
            Settings, Threads, Engines, booting, apply
<1>1. ASSUME NEW t \in Puts, NEW v \in Settings, Put(t, v) PROVE (Spoken /\ OnlyWhatWasSaid)'
    BY <1>1 DEF Put
<1>2. ASSUME NEW t \in Threads, ApplyLoad(t) PROVE (Spoken /\ OnlyWhatWasSaid)'
    BY <1>2 DEF ApplyLoad
<1>3. ASSUME NEW t \in Threads, ApplyEnter(t) PROVE (Spoken /\ OnlyWhatWasSaid)'
    BY <1>3 DEF ApplyEnter
<1>4. ASSUME NEW t \in Threads, ApplySet(t) PROVE (Spoken /\ OnlyWhatWasSaid)'
    BY <1>4 DEF ApplySet
<1>5. CASE BootStart
    BY <1>5 DEF BootStart, BootConfig
<1>6. CASE NoteBootingSDK
    BY <1>6 DEF NoteBootingSDK
<1>7. CASE BootRest
    BY <1>7 DEF BootRest
<1>8. CASE BootFailed
    BY <1>8 DEF BootFailed
<1>9. CASE Publish
    BY <1>9 DEF Publish
<1>10. CASE Published
    BY <1>10 DEF Published
<1>11. CASE BootClear
    BY <1>11 DEF BootClear
<1>12. CASE TeardownReady
    BY <1>12 DEF TeardownReady
<1>13. CASE TeardownClose
    BY <1>13 DEF TeardownClose
<1>14. CASE UNCHANGED discovery
    BY <1>14 DEF discovery
<1> QED BY <1>1, <1>2, <1>3, <1>4, <1>5, <1>6, <1>7, <1>8, <1>9, <1>10, <1>11, <1>12, <1>13,
           <1>14 DEF DiscoveryNext

(* A live engine has been told the statement, or is about to be.            *)
LEMMA ConvergingStep ==
    ASSUME DiscoveryConstants, DiscoveryTypeOK, BootShape, Spoken, Converging,
           [DiscoveryNext]_discovery PROVE Converging'
<1> USE DEF DiscoveryConstants, DiscoveryTypeOK, BootShape, Spoken, Converging, OnePut, Told,
            BootConfig, Applying, Settings, Threads, Engines, booting, apply
<1>1. ASSUME NEW t \in Puts, NEW v \in Settings, Put(t, v) PROVE Converging'
    BY <1>1 DEF Put
<1>2. ASSUME NEW t \in Threads, ApplyLoad(t) PROVE Converging'
    BY <1>2 DEF ApplyLoad
<1>3. ASSUME NEW t \in Threads, ApplyEnter(t) PROVE Converging'
    BY <1>3 DEF ApplyEnter
<1>4. ASSUME NEW t \in Threads, ApplySet(t) PROVE Converging'
    BY <1>4 DEF ApplySet
<1>5. CASE BootStart
    BY <1>5 DEF BootStart, BootConfig
<1>6. CASE NoteBootingSDK
    BY <1>6 DEF NoteBootingSDK
<1>7. CASE BootRest
    BY <1>7 DEF BootRest
<1>8. CASE BootFailed
    BY <1>8 DEF BootFailed
<1>9. CASE Publish
    BY <1>9 DEF Publish
<1>10. CASE Published
    BY <1>10 DEF Published
<1>11. CASE BootClear
    BY <1>11 DEF BootClear
<1>12. CASE TeardownReady
    BY <1>12 DEF TeardownReady
<1>13. CASE TeardownClose
    BY <1>13 DEF TeardownClose
<1>14. CASE UNCHANGED discovery
    BY <1>14 DEF discovery
<1> QED BY <1>1, <1>2, <1>3, <1>4, <1>5, <1>6, <1>7, <1>8, <1>9, <1>10, <1>11, <1>12, <1>13,
           <1>14 DEF DiscoveryNext

LEMMA InitDiscoveryInv == ASSUME DiscoveryConstants, DiscoveryInit PROVE DiscoveryInv
<1> USE DEF DiscoveryConstants, DiscoveryInit, Threads, Engines, Settings
<1>1. DiscoveryTypeOK
    <2>1. setting \in [Engines -> Settings] /\ informed \in [Engines -> BOOLEAN]
        OBVIOUS
    <2>2. /\ apc \in [Threads -> {"idle", "load", "enter", "inside", "booting"}]
          /\ value \in [Threads -> Settings] /\ target \in [Threads -> 0..MaxEngines]
        OBVIOUS
    <2> QED BY <2>1, <2>2 DEF DiscoveryTypeOK
<1>2. BootShape /\ Spoken /\ OnlyWhatWasSaid /\ Converging
    BY DEF BootShape, Spoken, OnlyWhatWasSaid, Converging, Applying
<1> QED BY <1>1, <1>2 DEF DiscoveryInv

(* At most one PUT has run.                                                 *)
LEMMA OnePutMeans ==
    ASSUME DiscoveryConstants, used \subseteq Puts, Cardinality(used) <= 1 PROVE OnePut
<1> SUFFICES ASSUME NEW t \in used, NEW u \in used, t # u PROVE FALSE
    BY DEF OnePut
<1>1. IsFiniteSet(used)
    BY FS_Subset DEF DiscoveryConstants
<1>2. Cardinality({t}) = 1 /\ IsFiniteSet({t})
    BY FS_Singleton
<1>3. Cardinality({t} \cup {u}) = 2
    BY <1>2, FS_AddElement
<1>4. Cardinality({t} \cup {u}) <= Cardinality(used)
    BY <1>1, FS_Subset
<1>5. Cardinality(used) \in Nat
    BY <1>1, FS_CardinalityType
<1> QED BY <1>3, <1>4, <1>5

(* For any number of PUTs, boots and teardowns: one PUT is what the engine   *)
(* at rest runs with, and an engine is told nothing the host has not said.   *)
THEOREM StatementsReachTheEngine == DiscoverySpec => []PutsHonoured
<1> USE DiscoveryAssumption
<1>1. DiscoveryInit => DiscoveryInv
    BY InitDiscoveryInv
<1>2. DiscoveryInv /\ [DiscoveryNext]_discovery => DiscoveryInv'
    BY DiscoveryTypeStep, ShapeStep, SpokenStep, ConvergingStep DEF DiscoveryInv
<1>3. DiscoveryInv => PutsHonoured
    <2> SUFFICES ASSUME DiscoveryInv, Cardinality(used) <= 1, AtRest
                 PROVE  LocalDiscoveryState = BootConfig
        BY DEF PutsHonoured, StatementApplied, DiscoveryInv
    <2>1. OnePut
        BY OnePutMeans DEF DiscoveryInv, DiscoveryTypeOK
    <2>2. ready => Told(made) /\ sdk = made
        BY <2>1 DEF DiscoveryInv, Converging, BootShape
    <2> QED BY <2>2 DEF LocalDiscoveryState, Told, AtRest
<1> QED BY <1>1, <1>2, <1>3, PTL DEF DiscoverySpec
=============================================================================
