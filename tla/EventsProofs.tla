---------------------------- MODULE EventsProofs ----------------------------
(***************************************************************************)
(* Proofs about the events path: FrameOrder of the reporter,               *)
(* SubscriptionsExact and NoForeignHandle of the bridge, ViewHonest and    *)
(* ProgressKept of the process view.  The bridge's counts are kept because an *)
(* actor holds each key once and never one it is about to register, and    *)
(* because what it holds from an earlier generation counts for nothing.    *)
(* The view stays the serving engine's because a closing engine has no     *)
(* request left and joins its other publishers before the view is reset.   *)
(***************************************************************************)
EXTENDS ProcReporter, ProcessView, EventsBridge, FiniteSetTheorems, SequenceTheorems, TLAPS

-----------------------------------------------------------------------------
(* The reporter: a work unit's frames are ordered, for any number of       *)
(* callers and frames.                                                      *)

(* A frame appended to an ordered log that has not ended leaves it ordered. *)
LEMMA AppendOrder ==
    ASSUME NEW phase \in Phases, frames \in Seq(Phases), FrameOrder, ~Ended,
           (phase = "started") <=> (frames = <<>>),
           frames' = Append(frames, phase)
    PROVE  /\ FrameOrder' /\ frames' # <<>> /\ frames' \in Seq(Phases)
           /\ Ended' <=> phase \in Terminals
<1>1. /\ Len(frames') = Len(frames) + 1 /\ Len(frames) \in Nat
      /\ frames'[Len(frames) + 1] = phase /\ frames' \in Seq(Phases)
      /\ \A i \in 1..Len(frames) : frames'[i] = frames[i]
      /\ frames = <<>> <=> Len(frames) = 0
  OBVIOUS
<1>2. \A i \in 1..Len(frames) : frames[i] \notin Terminals
  <2> SUFFICES ASSUME NEW i \in 1..Len(frames), frames[i] \in Terminals PROVE FALSE
    OBVIOUS
  <2> QED BY <1>1 DEF FrameOrder, Ended
<1>3. FrameOrder'
  <2> SUFFICES ASSUME NEW i \in 1..(Len(frames) + 1)
               PROVE  /\ (frames'[i] = "started") <=> (i = 1)
                      /\ frames'[i] \in Terminals => i = Len(frames) + 1
    BY <1>1 DEF FrameOrder
  <2>1. CASE i = Len(frames) + 1
    BY <2>1, <1>1
  <2>2. CASE i \in 1..Len(frames)
    BY <2>2, <1>1, <1>2 DEF FrameOrder
  <2> QED BY <2>1, <2>2, <1>1
<1> QED BY <1>1, <1>3 DEF Ended

(* A step that emits nothing and ends nothing keeps the log as it is.       *)
LEMMA SilentOrder ==
    ASSUME UNCHANGED frames
    PROVE  /\ FrameOrder' <=> FrameOrder
           /\ Ended' <=> Ended
BY DEF FrameOrder, Ended

LEMMA InitReporterInv == ReporterInit => ReporterInv
<1> SUFFICES ASSUME ReporterInit PROVE ReporterInv
  OBVIOUS
<1>1. ReporterTypeOK
  <2>1. frames \in Seq(Phases)
    BY DEF ReporterInit
  <2> QED BY <2>1, ReporterAssumption DEF ReporterInit, ReporterTypeOK
<1>2. FrameOrder /\ ~Ended
  <2>1. Len(frames) = 0
    BY DEF ReporterInit
  <2> QED BY <2>1 DEF ReporterInit, FrameOrder, Ended
<1>3. AnnouncedOnce
  BY DEF ReporterInit, AnnouncedOnce
<1>4. OneFinisher /\ OneTicker /\ Quiet
  BY <1>2 DEF ReporterInit, OneFinisher, OneTicker, Quiet, Finishing
<1> QED BY <1>1, <1>2, <1>3, <1>4 DEF ReporterInv

(* An emission of started or progress before the end, by whichever actor.   *)
LEMMA EmitStep ==
    ASSUME ReporterInv, ~Ended,
           \/ announced /\ EmitPhase("progress") /\ UNCHANGED announced
           \/ ~announced /\ announced' = TRUE /\ EmitPhase("started")
    PROVE  /\ FrameOrder' /\ AnnouncedOnce' /\ ~Ended' /\ frames' \in Seq(Phases)
<1>1. CASE announced /\ EmitPhase("progress") /\ UNCHANGED announced
  BY <1>1, AppendOrder DEF ReporterInv, ReporterTypeOK, AnnouncedOnce, EmitPhase, Phases,
        Terminals
<1>2. CASE ~announced /\ announced' = TRUE /\ EmitPhase("started")
  BY <1>2, AppendOrder DEF ReporterInv, ReporterTypeOK, AnnouncedOnce, EmitPhase, Phases,
        Terminals
<1> QED BY <1>1, <1>2

LEMMA NextReporterInv == ReporterInv /\ [ReporterNext]_reporter => ReporterInv'
<1> SUFFICES ASSUME ReporterInv, [ReporterNext]_reporter PROVE ReporterInv'
  OBVIOUS
<1>0. ReporterTypeOK /\ AnnouncedOnce /\ OneFinisher /\ OneTicker /\ Quiet /\ FrameOrder
  BY DEF ReporterInv
<1>1. ASSUME NEW c \in Callers, Begin(c) PROVE ReporterInv'
  <2> DEFINE fresh == ~worked /\ ~finished
  <2>1. CASE CanAnnounce(worked \/ fresh)
    <3>1. ~Ended
      BY <2>1, <1>0 DEF CanAnnounce, Quiet
    <3>2. FrameOrder' /\ AnnouncedOnce' /\ ~Ended' /\ frames' \in Seq(Phases)
      BY <2>1, <3>1, <1>1, EmitStep DEF Begin, CanAnnounce
    <3> QED BY <3>2, <2>1, <1>0, <1>1 DEF Begin, CanAnnounce, ReporterInv, ReporterTypeOK,
          OneFinisher,
            OneTicker, Quiet, Finishing, Goto
  <2>2. CASE ~CanAnnounce(worked \/ fresh)
    <3>1. UNCHANGED <<announced, frames>>
      BY <2>2, <1>1 DEF Begin
    <3>2. FrameOrder' /\ (Ended' <=> Ended) /\ AnnouncedOnce'
      BY <3>1, <1>0, SilentOrder DEF AnnouncedOnce
    <3> QED BY <3>1, <3>2, <1>0, <1>1 DEF Begin, ReporterInv, ReporterTypeOK, OneFinisher,
            OneTicker, Quiet, Finishing, Goto
  <2> QED BY <2>1, <2>2
<1>2. ASSUME NEW c \in Callers, Progress(c) PROVE ReporterInv'
  <2>1. ~Ended
    BY <1>0, <1>2 DEF Progress, Quiet
  <2>2. FrameOrder' /\ AnnouncedOnce' /\ ~Ended' /\ frames' \in Seq(Phases)
    BY <2>1, <1>2, EmitStep DEF Progress, CanAnnounce
  <2> QED BY <2>2, <1>0, <1>2 DEF Progress, CanAnnounce, ReporterInv, ReporterTypeOK, OneFinisher,
          OneTicker, Quiet, Finishing
<1>3. ASSUME Tick PROVE ReporterInv'
  <2>1. ~Ended
    BY <1>0, <1>3 DEF Tick, Quiet
  <2>2. FrameOrder' /\ AnnouncedOnce' /\ ~Ended' /\ frames' \in Seq(Phases)
    BY <2>1, <1>3, EmitStep DEF Tick, CanAnnounce
  <2> QED BY <2>2, <1>0, <1>3 DEF Tick, CanAnnounce, ReporterInv, ReporterTypeOK, OneFinisher,
          OneTicker, Quiet, Finishing
<1>4. ASSUME NEW c \in Callers, Terminal(c) PROVE ReporterInv'
  <2>1. ~Ended /\ finished /\ ticker # "running"
    BY <1>0, <1>4 DEF Terminal, OneFinisher, Quiet, Finishing
  <2>2. CASE announced
    <3>1. PICK t \in Terminals : EmitPhase(t)
      BY <2>2, <1>4 DEF Terminal
    <3>2. FrameOrder' /\ AnnouncedOnce' /\ Ended' /\ frames' \in Seq(Phases)
      BY <3>1, <2>1, <2>2, <1>0, <1>4, AppendOrder
         DEF Terminal, EmitPhase, ReporterTypeOK, AnnouncedOnce, Phases, Terminals
    <3> QED BY <3>2, <2>1, <1>0, <1>4 DEF Terminal, Goto, ReporterInv, ReporterTypeOK,
          OneFinisher,
            OneTicker, Quiet, Finishing
  <2>3. CASE ~announced
    <3>1. UNCHANGED frames /\ UNCHANGED announced
      BY <2>3, <1>4 DEF Terminal
    <3>2. FrameOrder' /\ (Ended' <=> Ended) /\ AnnouncedOnce'
      BY <3>1, <1>0, SilentOrder DEF AnnouncedOnce
    <3> QED BY <3>1, <3>2, <2>1, <1>0, <1>4 DEF Terminal, Goto, ReporterInv, ReporterTypeOK,
          OneFinisher,
            OneTicker, Quiet, Finishing
  <2> QED BY <2>2, <2>3
<1>5. ASSUME UNCHANGED <<announced, frames>>,
             \/ \E c \in Callers : SpawnTicker(c) \/ Finish(c) \/ StopTicker(c) \/ JoinTicker(c)
             \/ GateOpens \/ TickStops
      PROVE ReporterInv'
  <2>0. FrameOrder' /\ (Ended' <=> Ended) /\ AnnouncedOnce'
    BY <1>5, <1>0, SilentOrder DEF AnnouncedOnce
  <2>1. ASSUME NEW c \in Callers, SpawnTicker(c) PROVE ReporterInv'
    BY <2>0, <2>1, <1>0, <1>5 DEF SpawnTicker, Goto, ReporterInv, ReporterTypeOK, OneFinisher,
          OneTicker, Quiet, Finishing
  <2>2. ASSUME NEW c \in Callers, Finish(c) PROVE ReporterInv'
    BY <2>0, <2>2, <1>0, <1>5 DEF Finish, Goto, ReporterInv, ReporterTypeOK, OneFinisher,
          OneTicker, Quiet, Finishing
  <2>3. ASSUME NEW c \in Callers, StopTicker(c) PROVE ReporterInv'
    BY <2>0, <2>3, <1>0, <1>5 DEF StopTicker, Goto, ReporterInv, ReporterTypeOK, OneFinisher,
          OneTicker, Quiet, Finishing
  <2>4. ASSUME NEW c \in Callers, JoinTicker(c) PROVE ReporterInv'
    BY <2>0, <2>4, <1>0, <1>5 DEF JoinTicker, Goto, ReporterInv, ReporterTypeOK, OneFinisher,
          OneTicker, Quiet, Finishing
  <2>5. CASE GateOpens
    BY <2>0, <2>5, <1>0, <1>5 DEF GateOpens, ReporterInv, ReporterTypeOK, OneFinisher,
          OneTicker, Quiet, Finishing
  <2>6. CASE TickStops
    BY <2>0, <2>6, <1>0, <1>5 DEF TickStops, ReporterInv, ReporterTypeOK, OneFinisher,
          OneTicker, Quiet, Finishing
  <2> QED BY <1>5, <2>1, <2>2, <2>3, <2>4, <2>5, <2>6
<1>6. CASE UNCHANGED reporter
  <2>1. FrameOrder' /\ (Ended' <=> Ended)
    BY <1>6, <1>0, SilentOrder DEF reporter
  <2> QED BY <2>1, <1>0, <1>6 DEF reporter, ReporterInv, ReporterTypeOK, AnnouncedOnce,
        OneFinisher, OneTicker, Quiet, Finishing
<1>7. ASSUME NEW c \in Callers, SpawnTicker(c) \/ Finish(c) \/ StopTicker(c) \/ JoinTicker(c)
      PROVE UNCHANGED <<announced, frames>>
  BY <1>7 DEF SpawnTicker, Finish, StopTicker, JoinTicker
<1>8. GateOpens \/ TickStops => UNCHANGED <<announced, frames>>
  BY DEF GateOpens, TickStops
<1> QED BY <1>1, <1>2, <1>3, <1>4, <1>5, <1>6, <1>7, <1>8 DEF ReporterNext, CallerStep

(* The frames of a work unit are started, progress and one terminal frame   *)
(* with nothing after it, whoever calls the reporter and whenever the       *)
(* ticker fires (process_report.go).                                        *)
THEOREM FramesOrdered == ReporterSpec => []FrameOrder
<1>1. ReporterInv => FrameOrder
  BY DEF ReporterInv
<1> QED BY InitReporterInv, NextReporterInv, <1>1, PTL DEF ReporterSpec

-----------------------------------------------------------------------------
(* The bridge.                                                              *)

Active(a) == apc[a] \notin {"idle", "over"}

(* One generation per engine that was detached.                             *)
Lifecycle ==
    /\ published # 0 => published = made
    /\ published = 0 => down = "up"
    /\ IF published # 0 /\ down # "detached" THEN gen + 1 = made ELSE gen = made

(* What an actor holds, is acquiring and has still to acquire are distinct  *)
(* keys, and it wants something.                                            *)
ActorShape ==
    \A a \in Actors :
        /\ sdk[a] # 0 <=> Active(a)
        /\ Active(a) => want[a] # {}
        /\ apc[a] \in {"idle", "over", "ctx"} => held[a] = {}
        /\ apc[a] \in {"resolve", "register"} => key[a] \in Keys \ todo[a]
        /\ \A h \in held[a] :
            /\ h[1] \notin todo[a] /\ h[2] <= gen
            /\ apc[a] \in {"resolve", "register"} => h[1] # key[a]
        /\ a \in Engines => sdk[a] \in {0, a} /\ (a > made => apc[a] = "idle")

BridgeInv == BridgeTypeOK /\ Lifecycle /\ ActorShape /\ CountsExact

(* On time, every actor works against the published engine, and so does     *)
(* every scope.                                                             *)
OnTime ==
    /\ \A a \in Actors : sdk[a] # 0 => sdk[a] = published
    /\ down = "detached" => \A r \in Subscribers : sdk[r] = 0
    /\ \A k \in Keys : scope[k] # NoScope => scope[k].ps = published

(* Who holds a key in the present generation, and who of them a pattern is  *)
(* counted for.                                                             *)
Holders(k) == {a \in Actors : <<k, gen>> \in held[a]}
Counted(k, p) == {a \in Holders(k) : p \in want[a]}

(* A scope of any counts.                                                   *)
WideScopes == [ps : Engines, desired : [Patterns -> Nat],
               active : SUBSET Patterns, retry : BOOLEAN]

(* A scope whose counts are these holders'.                                 *)
Fits(sc, k) ==
    IF sc = NoScope THEN Holders(k) = {}
    ELSE Holders(k) # {} /\ \A p \in Patterns : sc.desired[p] = Cardinality(Counted(k, p))

LEMMA FiniteActors == IsFiniteSet(Actors) /\ \A S \in SUBSET Actors : IsFiniteSet(S)
<1>1. IsFiniteSet(Engines)
  BY BridgeAssumption, FS_Interval DEF Engines
<1>2. IsFiniteSet(Actors)
  BY <1>1, BridgeAssumption, FS_Union DEF Actors
<1>3. QED BY <1>2, FS_Subset

(* CountsExact says that every scope fits.                                  *)
LEMMA CountsFit ==
    /\ CountsExact <=> \A k \in Keys : Fits(scope[k], k)
    /\ CountsExact' <=> \A k \in Keys : Fits(scope[k], k)'
<1>1. CountsExact <=> \A k \in Keys : Fits(scope[k], k)
  BY Zenon DEF CountsExact, Fits, Holders, Counted
<1>2. CountsExact' <=> \A k \in Keys : Fits(scope[k], k)'
  BY Zenon DEF CountsExact, Fits, Holders, Counted
<1>3. QED BY <1>1, <1>2

(* A scope is told from none by its handle.                                 *)
LEMMA ScopeIsOne == \A sc \in WideScopes : sc # NoScope
<1> SUFFICES ASSUME NEW sc \in WideScopes PROVE sc.ps # NoScope.ps OBVIOUS
<1> QED BY BridgeAssumption DEF WideScopes, NoScope, Engines

(* Counts of holders are counts of actors.                                  *)
LEMMA ScopesNarrow ==
    ASSUME NEW sc \in WideScopes,
           \A p \in Patterns : \E S \in SUBSET Actors : sc.desired[p] = Cardinality(S)
    PROVE  sc \in Scopes
<1>1. \A p \in Patterns : sc.desired[p] \in 0..Cardinality(Actors)
  <2> SUFFICES ASSUME NEW p \in Patterns PROVE sc.desired[p] \in 0..Cardinality(Actors)
    OBVIOUS
  <2>1. PICK S \in SUBSET Actors : sc.desired[p] = Cardinality(S)
    OBVIOUS
  <2>2. Cardinality(S) \in Nat /\ Cardinality(Actors) \in Nat
        /\ Cardinality(S) <= Cardinality(Actors)
    BY FiniteActors, FS_CardinalityType, FS_Subset
  <2>3. QED BY <2>1, <2>2
<1>2. QED BY <1>1 DEF WideScopes, Scopes

LEMMA ScopesWiden == \A sc \in {NoScope} \cup Scopes : sc # NoScope => sc \in WideScopes
<1>1. Cardinality(Actors) \in Nat
  BY FiniteActors, FS_CardinalityType
<1>2. QED BY <1>1 DEF Scopes, WideScopes

(* A failed subscription touches no counts.                                 *)
LEMMA ResyncKeepsCounts ==
    ASSUME NEW sc \in WideScopes
    PROVE  /\ Resynced(sc) \in WideScopes /\ Resynced(sc).desired = sc.desired
           /\ Resynced(sc).ps = sc.ps
           /\ \A f \in ResyncFailed(sc) :
                f \in WideScopes /\ f.desired = sc.desired /\ f.ps = sc.ps
<1>1. MaximalPatterns(Desired(sc)) \subseteq Patterns
  BY DEF MaximalPatterns, Desired
<1>2. QED BY <1>1 DEF WideScopes, Resynced, ResyncFailed

LEMMA MoreCounts ==
    ASSUME NEW sc \in WideScopes, NEW ps \in SUBSET Patterns
    PROVE  /\ More(sc, ps) \in WideScopes /\ More(sc, ps).ps = sc.ps
           /\ \A p \in Patterns : More(sc, ps).desired[p] =
                IF p \in ps THEN sc.desired[p] + 1 ELSE sc.desired[p]
  BY DEF WideScopes, More

LEMMA FewerCounts ==
    ASSUME NEW sc \in WideScopes, NEW ps \in SUBSET Patterns
    PROVE  /\ Fewer(sc, ps) \in WideScopes /\ Fewer(sc, ps).ps = sc.ps
           /\ \A p \in Patterns : Fewer(sc, ps).desired[p] =
                IF p \in ps /\ sc.desired[p] > 0 THEN sc.desired[p] - 1 ELSE sc.desired[p]
  BY DEF WideScopes, Fewer

(* What a release leaves: nothing when nothing is wanted any more.          *)
LEMMA OutcomeShape ==
    ASSUME NEW sc \in WideScopes, NEW ps \in SUBSET Patterns,
           NEW out \in ReleaseOutcomes(sc, ps)
    PROVE  \/ out = NoScope /\ Desired(Fewer(sc, ps)) = {}
           \/ /\ out \in WideScopes /\ Desired(Fewer(sc, ps)) # {}
              /\ out.desired = Fewer(sc, ps).desired /\ out.ps = sc.ps
<1> DEFINE less == Fewer(sc, ps)
<1>1. less \in WideScopes /\ less.ps = sc.ps
  BY FewerCounts
<1>2. sc # NoScope
  BY ScopeIsOne
<1>3. CASE Desired(less) = {}
  BY <1>2, <1>3 DEF ReleaseOutcomes
<1>4. CASE Desired(less) # {}
  <2>1. out = Resynced(less) \/ \E f \in ResyncFailed(less) : out = [f EXCEPT !.retry = TRUE]
    BY <1>2, <1>4 DEF ReleaseOutcomes
  <2>2. CASE out = Resynced(less)
    BY <1>1, <1>4, <2>2, ResyncKeepsCounts
  <2>3. ASSUME NEW f \in ResyncFailed(less), out = [f EXCEPT !.retry = TRUE]
        PROVE  out \in WideScopes /\ out.desired = less.desired /\ out.ps = sc.ps
    <3>1. f \in WideScopes /\ f.desired = less.desired /\ f.ps = sc.ps
      BY <1>1, ResyncKeepsCounts
    <3>2. QED BY <2>3, <3>1 DEF WideScopes
  <2>4. QED BY <1>4, <2>1, <2>2, <2>3
<1>5. QED BY <1>3, <1>4

(* Nobody wants nothing: a scope nobody holds is the one with no counts.    *)
LEMMA HoldersWant ==
    ASSUME NEW k \in Keys, BridgeTypeOK, ActorShape
    PROVE  /\ Holders(k) = {} <=> \A p \in Patterns : Counted(k, p) = {}
           /\ \A p \in Patterns :
                /\ Cardinality(Counted(k, p)) \in Nat
                /\ Cardinality(Counted(k, p)) = 0 <=> Counted(k, p) = {}
<1>1. ASSUME NEW a \in Holders(k) PROVE \E p \in Patterns : a \in Counted(k, p)
  <2>1. a \in Actors /\ held[a] # {} /\ want[a] \subseteq Patterns
    BY <1>1 DEF Holders, BridgeTypeOK
  <2>2. want[a] # {}
    BY <2>1 DEF ActorShape, Active
  <2>3. PICK p \in want[a] : TRUE
    BY <2>2
  <2>4. QED BY <1>1, <2>1, <2>3 DEF Counted
<1>2. \A p \in Patterns : Counted(k, p) \subseteq Holders(k) /\ Counted(k, p) \subseteq Actors
  BY DEF Counted, Holders
<1>3. ASSUME NEW p \in Patterns
      PROVE  /\ Cardinality(Counted(k, p)) \in Nat
             /\ Cardinality(Counted(k, p)) = 0 <=> Counted(k, p) = {}
  <2>1. IsFiniteSet(Counted(k, p))
    BY <1>2, FiniteActors
  <2>2. QED BY <2>1, FS_CardinalityType, FS_EmptySet
<1>4. QED BY <1>1, <1>2, <1>3

(* A release of one actor leaves every scope fitting those who still hold   *)
(* it.                                                                      *)
LEMMA ReleaseFits ==
    ASSUME NEW a \in Actors, BridgeTypeOK, ActorShape, CountsExact, ActorShape',
           want' \in [Actors -> SUBSET Patterns],
           held' = [held EXCEPT ![a] = {}], gen' = gen,
           \A b \in Actors \ {a} : want'[b] = want[b],
           NEW k \in Keys, NEW out,
           IF k \in ReleaseKeys(a) THEN out \in ReleaseOutcomes(scope[k], want[a])
                                   ELSE out = scope[k]
    PROVE  /\ out \in {NoScope} \cup WideScopes
           /\ Fits(out, k)'
           /\ out # NoScope => scope[k] # NoScope /\ out.ps = scope[k].ps
<1>0. /\ scope[k] \in {NoScope} \cup WideScopes
      /\ want[a] \subseteq Patterns /\ held \in [Actors -> SUBSET (Keys \X (0..MaxPublished))]
      /\ want \in [Actors -> SUBSET Patterns]
  BY ScopesWiden DEF BridgeTypeOK
<1>1. k \in ReleaseKeys(a) <=> <<k, gen>> \in held[a]
  BY <1>0 DEF ReleaseKeys
<1>2. /\ Holders(k)' = Holders(k) \ {a}
      /\ \A p \in Patterns : Counted(k, p)' = Counted(k, p) \ {a}
  BY <1>0 DEF Holders, Counted
<1>3. Fits(scope[k], k)
  BY CountsFit
<1>4. CASE k \notin ReleaseKeys(a)
  <2>1. a \notin Holders(k)
    BY <1>1, <1>4 DEF Holders
  <2>2. Holders(k)' = Holders(k) /\ \A p \in Patterns : Counted(k, p)' = Counted(k, p)
    BY <1>2, <2>1 DEF Counted
  <2>3. QED BY <1>0, <1>3, <1>4, <2>2 DEF Fits
<1>5. CASE k \in ReleaseKeys(a)
  <2> DEFINE sc == scope[k]
             less == Fewer(sc, want[a])
  <2>1. a \in Holders(k) /\ sc # NoScope /\ sc \in WideScopes
    BY <1>0, <1>1, <1>3, <1>5 DEF Holders, Fits
  <2>2. ASSUME NEW p \in Patterns
        PROVE  less.desired[p] = Cardinality(Counted(k, p)')
    <3>0. less.desired[p] =
            IF p \in want[a] /\ sc.desired[p] > 0 THEN sc.desired[p] - 1 ELSE sc.desired[p]
      BY <1>0, <2>1, FewerCounts
    <3>1. sc.desired[p] = Cardinality(Counted(k, p)) /\ IsFiniteSet(Counted(k, p))
      BY <1>3, <2>1, FiniteActors DEF Fits, Counted, Holders
    <3>2. CASE p \in want[a]
      <4>1. a \in Counted(k, p)
        BY <2>1, <3>2 DEF Counted
      <4>2. /\ Cardinality(Counted(k, p) \ {a}) = Cardinality(Counted(k, p)) - 1
            /\ Cardinality(Counted(k, p)) \in Nat /\ Cardinality(Counted(k, p)) # 0
        BY <3>1, <4>1, FS_RemoveElement, FS_CardinalityType, FS_EmptySet
      <4>3. sc.desired[p] > 0 /\ Counted(k, p)' = Counted(k, p) \ {a}
        BY <1>2, <3>1, <4>2
      <4>4. less.desired[p] = sc.desired[p] - 1
        BY <3>0, <3>2, <4>3
      <4>5. QED BY <3>1, <4>2, <4>3, <4>4
    <3>3. CASE p \notin want[a]
      <4>1. Counted(k, p) \ {a} = Counted(k, p)
        BY <3>3 DEF Counted
      <4>2. QED BY <1>2, <3>0, <3>1, <3>3, <4>1
    <3>4. QED BY <3>2, <3>3
  <2>3. Holders(k)' = {} <=> Desired(less) = {}
    <3>1. ASSUME NEW p \in Patterns
          PROVE  /\ Cardinality(Counted(k, p)') \in Nat
                 /\ Cardinality(Counted(k, p)') = 0 <=> Counted(k, p)' = {}
      <4>1. IsFiniteSet(Counted(k, p)')
        BY <1>2, FiniteActors DEF Counted, Holders
      <4>2. QED BY <4>1, FS_CardinalityType, FS_EmptySet
    <3>2. ASSUME NEW b \in Holders(k)' PROVE \E p \in Patterns : b \in Counted(k, p)'
      <4>1. b \in Actors \ {a} /\ want[b] \subseteq Patterns /\ held[b] # {}
        BY <1>0, <1>2, <3>2 DEF Holders
      <4>2. PICK p \in want[b] : TRUE
        BY <4>1 DEF ActorShape, Active
      <4>3. QED BY <1>2, <3>2, <4>1, <4>2 DEF Counted
    <3>3. ASSUME NEW p \in Patterns PROVE Counted(k, p)' \subseteq Holders(k)'
      BY DEF Counted
    <3>4. Desired(less) = {} <=> \A p \in Patterns : Cardinality(Counted(k, p)') = 0
      BY <2>2, <3>1 DEF Desired
    <3>5. QED BY <3>1, <3>2, <3>3, <3>4
  <2>4. CASE out = NoScope /\ Desired(less) = {}
    BY <2>3, <2>4 DEF Fits
  <2>5. CASE /\ out \in WideScopes /\ Desired(less) # {}
             /\ out.desired = less.desired /\ out.ps = sc.ps
    BY <2>1, <2>2, <2>3, <2>5, ScopeIsOne DEF Fits
  <2>6. QED BY <1>0, <1>5, <2>1, <2>4, <2>5, OutcomeShape
<1>6. QED BY <1>4, <1>5

(* A release of everything an actor holds.                                  *)
LEMMA ReleaseStep ==
    ASSUME NEW a \in Actors, BridgeInv, ActorShape', ReleaseAll(a),
           want' \in [Actors -> SUBSET Patterns],
           held' = [held EXCEPT ![a] = {}], gen' = gen,
           \A b \in Actors \ {a} : want'[b] = want[b]
    PROVE  /\ scope' \in [Keys -> {NoScope} \cup Scopes] /\ CountsExact'
           /\ timers' \subseteq Keys \X (0..MaxPublished) /\ failures' \in 0..MaxFailures
           /\ \A k \in Keys : scope'[k] # NoScope =>
                scope[k] # NoScope /\ scope'[k].ps = scope[k].ps
<1> USE DEF BridgeInv
<1>1. PICK after \in [Keys -> UNION {ReleaseOutcomes(scope[k], want[a]) : k \in ReleaseKeys(a)}
                                \cup {scope[k] : k \in Keys}] :
        /\ \A k \in Keys : IF k \in ReleaseKeys(a)
                           THEN after[k] \in ReleaseOutcomes(scope[k], want[a])
                           ELSE after[k] = scope[k]
        /\ failures + Failed(after, ReleaseKeys(a)) <= MaxFailures
        /\ failures' = failures + Failed(after, ReleaseKeys(a))
        /\ scope' = after
        /\ timers' = timers \cup (Armed(scope, after) \X {TimerCtx})
  BY DEF ReleaseAll
<1>2. ASSUME NEW k \in Keys
      PROVE  /\ scope'[k] \in {NoScope} \cup WideScopes /\ Fits(scope[k], k)'
             /\ scope'[k] # NoScope => scope[k] # NoScope /\ scope'[k].ps = scope[k].ps
  <2>1. IF k \in ReleaseKeys(a) THEN scope'[k] \in ReleaseOutcomes(scope[k], want[a])
                                ELSE scope'[k] = scope[k]
    BY <1>1
  <2>2. \A out : (IF k \in ReleaseKeys(a) THEN out \in ReleaseOutcomes(scope[k], want[a])
                                          ELSE out = scope[k]) =>
            /\ out \in {NoScope} \cup WideScopes /\ Fits(out, k)'
            /\ out # NoScope => scope[k] # NoScope /\ out.ps = scope[k].ps
    BY ReleaseFits
  <2>3. QED BY <2>1, <2>2 DEF Fits
<1>3. CountsExact'
  BY <1>2, CountsFit
<1>4. scope' \in [Keys -> {NoScope} \cup Scopes]
  <2> SUFFICES ASSUME NEW k \in Keys, scope'[k] # NoScope PROVE scope'[k] \in Scopes
    BY <1>1, <1>2
  <2>1. \A p \in Patterns : scope'[k].desired[p] = Cardinality(Counted(k, p)')
    BY <1>2 DEF Fits
  <2>2. \A p \in Patterns : Counted(k, p)' \in SUBSET Actors
    BY DEF Counted, Holders
  <2>3. QED BY <1>2, <2>1, <2>2, ScopesNarrow
<1>5. timers' \subseteq Keys \X (0..MaxPublished)
  BY <1>1 DEF BridgeTypeOK, Armed, TimerCtx
<1>6. failures' \in 0..MaxFailures
  <2>1. /\ ReleaseKeys(a) \subseteq Keys
    BY DEF ReleaseKeys, BridgeTypeOK
  <2>2. Failed(after, ReleaseKeys(a)) \in Nat
    <3>1. IsFiniteSet({k \in ReleaseKeys(a) : after[k] # NoScope /\ ~InSync(after[k])})
      BY <2>1, BridgeAssumption, FS_Subset
    <3>2. QED BY <3>1, FS_CardinalityType DEF Failed
  <2>3. QED BY <1>1, <2>2, BridgeAssumption DEF BridgeTypeOK
<1>7. QED BY <1>2, <1>3, <1>4, <1>5, <1>6

(* The types of what acquisitions and teardowns assign outside the scopes.  *)
ActorTypes ==
    /\ published \in 0..MaxPublished /\ made \in 0..MaxPublished
    /\ down \in {"up", "cancelled", "detached"}
    /\ cancelled \in [Engines -> BOOLEAN] /\ gen \in 0..MaxPublished
    /\ apc \in [Actors -> {"idle", "ctx", "next", "resolve", "register",
                         "rollback", "held", "stored", "over"}]
    /\ sdk \in [Actors -> 0..MaxPublished] /\ want \in [Actors -> SUBSET Patterns]
    /\ todo \in [Actors -> SUBSET Keys] /\ key \in [Actors -> Keys \cup {NoKey}]
    /\ sawGen \in [Actors -> 0..MaxPublished]
    /\ held \in [Actors -> SUBSET (Keys \X (0..MaxPublished))]

Actored == ActorTypes /\ Lifecycle /\ ActorShape

LEMMA TypesAre ==
    BridgeTypeOK <=> /\ ActorTypes /\ failures \in 0..MaxFailures
                     /\ scope \in [Keys -> {NoScope} \cup Scopes]
                     /\ timers \subseteq Keys \X (0..MaxPublished)
  BY DEF BridgeTypeOK, ActorTypes

(* An actor is done, whatever it had.                                       *)
LEMMA OverStep ==
    ASSUME NEW a \in Actors, Actored, Over(a), apc[a] # "idle", UNCHANGED <<life, gen>>
    PROVE  Actored'
<1> USE BridgeAssumption DEF Actored, Engines, Actors, life
<1>1. ActorTypes'
  BY DEF ActorTypes, Over
<1>2. Lifecycle'
  BY DEF Lifecycle
<1>3. ActorShape'
  BY DEF ActorTypes, ActorShape, Over, Active
<1>4. QED BY <1>1, <1>2, <1>3

(* The steps of an acquisition.                                             *)
LEMMA AcquireActors ==
    ASSUME NEW a \in Actors, Actored, AcquireStep(a)
    PROVE  Actored'
<1> USE BridgeAssumption DEF Actored, Lifecycle, Engines, Actors, life, bridge
<1>1. CASE CtxCheck(a)
  <2>1. CASE cancelled[sdk[a]]
    BY <1>1, <2>1, OverStep DEF CtxCheck
  <2>2. CASE ~cancelled[sdk[a]]
    <3>1. ActorTypes'
      BY <1>1, <2>2 DEF CtxCheck, ActorTypes
    <3>2. ActorShape'
      BY <1>1, <2>2 DEF CtxCheck, ActorTypes, ActorShape, Active
    <3>3. QED BY <1>1, <3>1, <3>2 DEF CtxCheck
  <2>3. QED BY <2>1, <2>2
<1>2. CASE Acquired(a)
  BY <1>2 DEF Acquired, ActorTypes, ActorShape, Active
<1>3. CASE Resolve(a)
  BY <1>3 DEF Resolve, ActorTypes, ActorShape, Active
<1>4. CASE ResolveFails(a)
  BY <1>4 DEF ResolveFails, ActorTypes, ActorShape, Active
<1>5. ASSUME NEW k \in Keys, ReadGen(a, k) PROVE Actored'
  <2>1. ActorTypes'
    BY <1>5 DEF ReadGen, ActorTypes
  <2>2. ActorShape'
    BY <1>5 DEF ReadGen, ActorTypes, ActorShape, Active
  <2>3. QED BY <1>5, <2>1, <2>2 DEF ReadGen
<1>6. CASE Register(a)
  <2>1. ActorTypes'
    BY <1>6 DEF Register, ActorTypes, ActorShape
  <2>2. ActorShape'
    BY <1>6 DEF Register, ActorTypes, ActorShape, Active
  <2>3. QED BY <1>6, <2>1, <2>2 DEF Register
<1>7. CASE RegisterDetached(a)
  BY <1>7 DEF RegisterDetached, ActorTypes, ActorShape, Active
<1>8. CASE RegisterFails(a)
  BY <1>8 DEF RegisterFails, ActorTypes, ActorShape, Active
<1>9. CASE Rollback(a)
  <2>1. CASE a \in Engines /\ ~cancelled[a]
    <3>1. /\ apc[a] = "rollback" /\ apc' = [apc EXCEPT ![a] = "ctx"]
          /\ todo' = [todo EXCEPT ![a] = {Account}]
          /\ key' = [key EXCEPT ![a] = NoKey] /\ sawGen' = [sawGen EXCEPT ![a] = 0]
          /\ held' = [held EXCEPT ![a] = {}] /\ UNCHANGED <<sdk, want, life, gen>>
      BY <1>9, <2>1 DEF Rollback
    <3>2. ActorTypes'
      BY <3>1 DEF ActorTypes
    <3>3. ActorShape'
      BY <3>1 DEF ActorTypes, ActorShape, Active
    <3>4. QED BY <3>1, <3>2, <3>3
  <2>2. CASE ~(a \in Engines /\ ~cancelled[a])
    BY <1>9, <2>2, OverStep DEF Rollback
  <2>3. QED BY <2>1, <2>2
<1>10. QED BY <1>1, <1>2, <1>3, <1>4, <1>5, <1>6, <1>7, <1>8, <1>9 DEF AcquireStep

(* Every step.                                                              *)
LEMMA ActorStep ==
    ASSUME Actored, [BridgeNext]_bridgeVars
    PROVE  Actored'
<1> USE BridgeAssumption DEF Actored, Lifecycle, Engines, Actors, life, bridge, actor
<1>1. ASSUME NEW r \in Subscribers, NEW ks \in SUBSET Keys, NEW ps \in SUBSET Patterns,
             Subscribe(r, ks, ps)
      PROVE  Actored'
  BY <1>1 DEF Subscribe, ActorTypes, ActorShape, Active
<1>2. ASSUME NEW r \in Subscribers, Unsubscribe(r) PROVE Actored'
  BY <1>2, OverStep DEF Unsubscribe
<1>3. ASSUME NEW e \in Engines, HoldProcess(e) PROVE Actored'
  <2>1. CASE cancelled[e]
    BY <1>3, <2>1, OverStep DEF HoldProcess
  <2>2. CASE ~cancelled[e]
    BY <1>3, <2>2 DEF HoldProcess, ActorTypes, ActorShape, Active
  <2>3. QED BY <2>1, <2>2
<1>4. ASSUME NEW e \in Engines, JanitorClose(e) PROVE Actored'
  BY <1>4, OverStep DEF JanitorClose
<1>5. ASSUME NEW k \in Keys, NEW e \in 0..MaxPublished, RetryTimer(k, e) PROVE Actored'
  BY <1>5 DEF RetryTimer, ActorTypes, ActorShape, Active
<1>6. CASE Publish
  <2>1. made + 1 \in Engines /\ made + 1 \in Actors /\ made + 1 \notin Subscribers
    BY <1>6 DEF Publish, ActorTypes
  <2>2. ActorTypes'
    BY <1>6, <2>1 DEF Publish, ActorTypes
  <2>3. ActorShape'
    <3>1. ASSUME NEW a \in Actors, a # made + 1
          PROVE  /\ apc'[a] = apc[a] /\ sdk'[a] = sdk[a] /\ want'[a] = want[a]
                 /\ todo'[a] = todo[a]
      BY <1>6, <2>1, <3>1 DEF Publish, ActorTypes
    <3>2. /\ apc'[made + 1] = "ctx" /\ sdk'[made + 1] = made + 1 /\ want'[made + 1] # {}
          /\ held'[made + 1] = {}
      <4>1. apc[made + 1] = "idle"
        <5>1. made + 1 > made /\ made + 1 \in Engines /\ made + 1 \in Actors
          BY <2>1 DEF ActorTypes
        <5>2. \A a \in Actors : a \in Engines /\ a > made => apc[a] = "idle"
          BY DEF ActorShape
        <5>3. QED BY <5>1, <5>2
      <4>2. held[made + 1] = {}
        BY <2>1, <4>1 DEF ActorShape
      <4>3. QED BY <1>6, <2>1, <4>2 DEF Publish, ActorTypes
    <3>3. gen' = gen /\ held' = held /\ key' = key /\ made' = made + 1
      BY <1>6 DEF Publish
    <3>4. ASSUME NEW a \in Actors, a # made + 1 PROVE a \in Engines /\ a > made' => a > made
      BY <3>3 DEF ActorTypes
    <3>5. ASSUME NEW a \in Actors, a # made + 1
          PROVE  ActorShape!(a)'
      BY <3>1, <3>3, <3>4, <3>5 DEF ActorShape, Active
    <3>6. ASSUME NEW a \in Actors, a = made + 1
          PROVE  ActorShape!(a)'
      BY <2>1, <3>2, <3>3, <3>6 DEF Active
    <3>7. QED BY <3>5, <3>6 DEF ActorShape
  <2>4. QED BY <1>6, <2>2, <2>3 DEF Publish, ActorTypes
<1>7. CASE TeardownCancel
  BY <1>7 DEF TeardownCancel, ActorTypes, ActorShape, Active
<1>8. CASE Detach
  <2>1. gen + 1 = made /\ made \in 0..MaxPublished
    BY <1>8 DEF Detach, ActorTypes
  <2>2. ActorShape'
    BY <1>8, <2>1 DEF Detach, ActorTypes, ActorShape, Active
  <2>3. QED BY <1>8, <2>1, <2>2 DEF Detach, ActorTypes
<1>9. CASE TeardownClose
  <2>1. published \in Actors /\ apc[published] # "idle"
    BY <1>9 DEF TeardownClose, ActorTypes
  <2>2. ActorTypes' /\ Lifecycle'
    BY <1>9, <2>1 DEF TeardownClose, Over, ActorTypes
  <2>3. ActorShape'
    BY <1>9, <2>1 DEF TeardownClose, Over, ActorTypes, ActorShape, Active
  <2>4. QED BY <2>2, <2>3
<1>10. CASE TeardownAbandon
  BY <1>10 DEF TeardownAbandon, ActorTypes, ActorShape, Active
<1>11. CASE UNCHANGED bridgeVars
  BY <1>11 DEF bridgeVars, ActorTypes, ActorShape, Active
<1>12. QED BY <1>1, <1>2, <1>3, <1>4, <1>5, <1>6, <1>7, <1>8, <1>9, <1>10, <1>11, AcquireActors
          DEF BridgeNext

-----------------------------------------------------------------------------
(* The books: the scopes with their counts, and what a failed subscription  *)
(* leaves behind.                                                           *)
Books ==
    /\ scope \in [Keys -> {NoScope} \cup Scopes] /\ CountsExact
    /\ timers \subseteq Keys \X (0..MaxPublished) /\ failures \in 0..MaxFailures

(* A scope keeps its handle; a new one takes that of an actor at work.      *)
Handles ==
    \A k \in Keys : scope'[k] # NoScope =>
        \/ scope[k] # NoScope /\ scope'[k].ps = scope[k].ps
        \/ \E a \in Actors : sdk[a] # 0 /\ scope'[k].ps = sdk[a]

(* A step that moves nothing anybody holds.                                 *)
LEMMA NeutralStep ==
    ASSUME Books, UNCHANGED bridge,
           \A a \in Actors : held'[a] = held[a] /\ (held[a] # {} => want'[a] = want[a])
    PROVE  Books' /\ Handles
<1>1. ASSUME NEW k \in Keys PROVE Fits(scope[k], k)'
  <2>1. Holders(k)' = Holders(k)
    BY DEF Holders, bridge
  <2>2. \A p \in Patterns : Counted(k, p)' = Counted(k, p)
    BY <2>1 DEF Counted, Holders
  <2>3. Fits(scope[k], k) /\ scope' = scope
    BY CountsFit DEF Books, bridge
  <2>4. QED BY <2>1, <2>2, <2>3 DEF Fits
<1>2. QED BY <1>1, CountsFit DEF Books, Handles, bridge

(* A release, by an actor that is done with its keys.                       *)
LEMMA ReleaseBooks ==
    ASSUME NEW a \in Actors, BridgeInv, Actored', ReleaseAll(a), gen' = gen,
           held' = [held EXCEPT ![a] = {}], \A b \in Actors \ {a} : want'[b] = want[b]
    PROVE  Books' /\ Handles
<1>1. ActorShape' /\ want' \in [Actors -> SUBSET Patterns]
  BY DEF Actored, ActorTypes
<1>2. QED BY <1>1, ReleaseStep DEF Books, Handles

(* A change of one scope that its holders fit.                              *)
LEMMA OneScope ==
    ASSUME Books, BridgeTypeOK, NEW k \in Keys, NEW sc \in {NoScope} \cup WideScopes,
           scope' = [scope EXCEPT ![k] = sc], Fits(sc, k)',
           \A j \in Keys \ {k} : Holders(j)' = Holders(j)
                /\ \A p \in Patterns : Counted(j, p)' = Counted(j, p)
    PROVE  CountsExact' /\ scope' \in [Keys -> {NoScope} \cup Scopes]
<1>1. scope'[k] = sc /\ \A j \in Keys \ {k} : scope'[j] = scope[j]
  BY DEF Books
<1>2. ASSUME NEW j \in Keys PROVE Fits(scope[j], j)'
  <2>1. CASE j = k
    BY <1>1, <2>1 DEF Fits
  <2>2. CASE j # k
    BY <1>1, <2>2, CountsFit DEF Books, Fits
  <2>3. QED BY <2>1, <2>2
<1>3. sc # NoScope => sc \in Scopes
  <2> SUFFICES ASSUME sc # NoScope PROVE sc \in Scopes
    OBVIOUS
  <2>1. \A p \in Patterns : sc.desired[p] = Cardinality(Counted(k, p)')
    BY DEF Fits
  <2>2. \A p \in Patterns : Counted(k, p)' \in SUBSET Actors
    BY DEF Counted, Holders
  <2>3. QED BY <2>1, <2>2, ScopesNarrow
<1>4. QED BY <1>2, <1>3, CountsFit DEF Books

(* The scope an acquisition finds or makes counts the holders it has.       *)
LEMMA ScopeForFits ==
    ASSUME NEW a \in Actors, BridgeInv, Books, apc[a] = "register"
    PROVE  /\ key[a] \in Keys /\ want[a] \in SUBSET Patterns /\ want[a] # {}
           /\ ScopeFor(a) \in WideScopes
           /\ \A p \in Patterns : ScopeFor(a).desired[p] = Cardinality(Counted(key[a], p))
           /\ IF scope[key[a]] # NoScope THEN ScopeFor(a).ps = scope[key[a]].ps
                                         ELSE sdk[a] # 0 /\ ScopeFor(a).ps = sdk[a]
           /\ a \notin Holders(key[a])
<1>1. key[a] \in Keys /\ want[a] \in SUBSET Patterns /\ want[a] # {} /\ sdk[a] \in Engines
  <2>1. want[a] \in SUBSET Patterns /\ sdk[a] \in 0..MaxPublished
    BY DEF BridgeInv, BridgeTypeOK
  <2>2. key[a] \in Keys /\ want[a] # {} /\ sdk[a] # 0
    BY DEF BridgeInv, ActorShape, Active
  <2>3. QED BY <2>1, <2>2, BridgeAssumption DEF Engines
<1>2. a \notin Holders(key[a])
  BY DEF BridgeInv, ActorShape, Holders
<1>3. Fits(scope[key[a]], key[a])
  BY <1>1, CountsFit DEF Books
<1>4. CASE scope[key[a]] # NoScope
  <2>1. ScopeFor(a) = scope[key[a]] /\ ScopeFor(a) \in WideScopes
    BY <1>1, <1>4, ScopesWiden DEF ScopeFor, Books
  <2>2. QED BY <1>1, <1>2, <1>3, <1>4, <2>1 DEF Fits
<1>5. CASE scope[key[a]] = NoScope
  <2>1. ScopeFor(a) = [ps |-> sdk[a], desired |-> [p \in Patterns |-> 0], active |-> {},
                       retry |-> FALSE]
    BY <1>5 DEF ScopeFor
  <2>2. \A p \in Patterns : Counted(key[a], p) = {}
    BY <1>3, <1>5 DEF Fits, Counted
  <2>3. Cardinality({}) = 0
    BY FS_EmptySet
  <2>4. ScopeFor(a) \in WideScopes /\ ScopeFor(a).ps = sdk[a]
    BY <1>1, <2>1 DEF WideScopes
  <2>5. \A p \in Patterns : ScopeFor(a).desired[p] = Cardinality(Counted(key[a], p))
    BY <2>1, <2>2, <2>3
  <2>6. QED BY <1>1, <1>2, <1>5, <2>4, <2>5 DEF Engines
<1>6. QED BY <1>4, <1>5

(* A registration adds its actor to the holders of one scope.               *)
LEMMA RegisterBooks ==
    ASSUME NEW a \in Actors, BridgeInv, Books, Actored', Register(a)
    PROVE  Books' /\ Handles
<1>0. apc[a] = "register" /\ key[a] \in Keys
  BY ScopeForFits DEF Register
<1>1. PICK k, more, sc : /\ k \in Keys /\ k = key[a]
                         /\ more = More(ScopeFor(a), want[a]) /\ sc = Resynced(more)
  BY <1>0
<1>2. /\ want[a] \in SUBSET Patterns /\ want[a] # {} /\ ScopeFor(a) \in WideScopes
      /\ \A p \in Patterns : ScopeFor(a).desired[p] = Cardinality(Counted(k, p))
      /\ IF scope[k] # NoScope THEN ScopeFor(a).ps = scope[k].ps
                               ELSE sdk[a] # 0 /\ ScopeFor(a).ps = sdk[a]
      /\ a \notin Holders(k)
  BY <1>0, <1>1, ScopeForFits
<1>3. /\ more \in WideScopes /\ more.ps = ScopeFor(a).ps
      /\ \A p \in Patterns : more.desired[p] =
            IF p \in want[a] THEN ScopeFor(a).desired[p] + 1 ELSE ScopeFor(a).desired[p]
  BY <1>1, <1>2, MoreCounts
<1>4. sc \in WideScopes /\ sc.desired = more.desired /\ sc.ps = ScopeFor(a).ps
  BY <1>1, <1>3, ResyncKeepsCounts
<1>5. scope' = [scope EXCEPT ![k] = sc] /\ UNCHANGED <<gen, timers, failures, want>>
  BY <1>1 DEF Register
<1>6. held'[a] = held[a] \cup {<<k, gen>>} /\ \A b \in Actors \ {a} : held'[b] = held[b]
  BY <1>1 DEF Register, BridgeInv, BridgeTypeOK
<1>7. /\ Holders(k)' = Holders(k) \cup {a}
      /\ \A p \in Patterns : Counted(k, p)' =
            IF p \in want[a] THEN Counted(k, p) \cup {a} ELSE Counted(k, p)
  BY <1>5, <1>6 DEF Holders, Counted
<1>8. \A j \in Keys \ {k} : Holders(j)' = Holders(j)
            /\ \A p \in Patterns : Counted(j, p)' = Counted(j, p)
  BY <1>5, <1>6 DEF Holders, Counted
<1>9. ASSUME NEW p \in Patterns PROVE sc.desired[p] = Cardinality(Counted(k, p)')
  <2>1. sc.desired[p] = IF p \in want[a] THEN Cardinality(Counted(k, p)) + 1
                                         ELSE Cardinality(Counted(k, p))
    BY <1>2, <1>3, <1>4
  <2>2. IsFiniteSet(Counted(k, p)) /\ a \notin Counted(k, p)
    BY <1>2, FiniteActors DEF Counted, Holders
  <2>3. Cardinality(Counted(k, p) \cup {a}) = Cardinality(Counted(k, p)) + 1
    BY <2>2, FS_AddElement
  <2>4. QED BY <1>7, <2>1, <2>3
<1>10. Fits(sc, k)'
  <2>1. sc # NoScope
    BY <1>4, ScopeIsOne
  <2>2. Holders(k)' # {} /\ \A p \in Patterns : sc.desired[p] = Cardinality(Counted(k, p)')
    BY <1>7, <1>9
  <2>3. QED BY <2>1, <2>2 DEF Fits
<1>11. CountsExact' /\ scope' \in [Keys -> {NoScope} \cup Scopes]
  BY <1>1, <1>4, <1>5, <1>8, <1>10, OneScope DEF BridgeInv
<1>12. Handles
  BY <1>2, <1>4, <1>5 DEF Handles, Books
<1>13. QED BY <1>5, <1>11, <1>12 DEF Books

(* A subscription that fails leaves the counts as they were: what it added  *)
(* is taken back.                                                           *)
LEMMA RegisterFailsBooks ==
    ASSUME NEW a \in Actors, BridgeInv, Books, Actored', RegisterFails(a)
    PROVE  Books' /\ Handles
<1>0. apc[a] = "register" /\ key[a] \in Keys
  BY ScopeForFits DEF RegisterFails
<1>1. PICK k, more : k \in Keys /\ k = key[a] /\ more = More(ScopeFor(a), want[a])
  BY <1>0
<1>2. /\ want[a] \in SUBSET Patterns /\ want[a] # {} /\ ScopeFor(a) \in WideScopes
      /\ \A p \in Patterns : ScopeFor(a).desired[p] = Cardinality(Counted(k, p))
      /\ IF scope[k] # NoScope THEN ScopeFor(a).ps = scope[k].ps
                               ELSE sdk[a] # 0 /\ ScopeFor(a).ps = sdk[a]
  BY <1>0, <1>1, ScopeForFits
<1>3. /\ more \in WideScopes /\ more.ps = ScopeFor(a).ps
      /\ \A p \in Patterns : more.desired[p] =
            IF p \in want[a] THEN ScopeFor(a).desired[p] + 1 ELSE ScopeFor(a).desired[p]
  BY <1>1, <1>2, MoreCounts
<1>4. PICK partly \in ResyncFailed(more) : \E back \in ReleaseOutcomes(partly, want[a]) :
            LET after == [scope EXCEPT ![k] = back]
                bad == failures + 1 + Failed(after, {k})
            IN /\ bad <= MaxFailures
               /\ failures' = bad
               /\ scope' = after
               /\ timers' = timers \cup (Armed(scope, after) \X {TimerCtx})
  BY <1>1 DEF RegisterFails
<1>5. PICK back \in ReleaseOutcomes(partly, want[a]) :
            /\ failures + 1 + Failed([scope EXCEPT ![k] = back], {k}) <= MaxFailures
            /\ failures' = failures + 1 + Failed([scope EXCEPT ![k] = back], {k})
            /\ scope' = [scope EXCEPT ![k] = back]
            /\ timers' = timers \cup (Armed(scope, scope') \X {TimerCtx})
  BY <1>4
<1>6. UNCHANGED <<gen, want, held>>
  BY DEF RegisterFails
<1>7. partly \in WideScopes /\ partly.desired = more.desired /\ partly.ps = more.ps
  BY <1>3, ResyncKeepsCounts
<1>8. PICK less : /\ less = Fewer(partly, want[a])
                  /\ \A p \in Patterns : less.desired[p] = ScopeFor(a).desired[p]
  <2>1. \A p \in Patterns : Fewer(partly, want[a]).desired[p] =
            IF p \in want[a] /\ more.desired[p] > 0 THEN more.desired[p] - 1 ELSE more.desired[p]
    BY <1>2, <1>7, FewerCounts
  <2>2. \A p \in Patterns : ScopeFor(a).desired[p] \in Nat
    BY <1>2 DEF WideScopes
  <2>3. QED BY <1>3, <2>1, <2>2
<1>9. \/ back = NoScope /\ Desired(less) = {}
      \/ /\ back \in WideScopes /\ Desired(less) # {}
         /\ back.desired = less.desired /\ back.ps = ScopeFor(a).ps
  BY <1>2, <1>3, <1>7, <1>8, OutcomeShape
<1>10. Holders(k) = {} <=> Desired(less) = {}
  <2>1. \A p \in Patterns :
            /\ less.desired[p] = Cardinality(Counted(k, p)) /\ Cardinality(Counted(k, p)) \in Nat
            /\ Cardinality(Counted(k, p)) = 0 <=> Counted(k, p) = {}
    BY <1>1, <1>2, <1>8, HoldersWant DEF BridgeInv
  <2>2. Desired(less) = {} <=> \A p \in Patterns : Counted(k, p) = {}
    BY <2>1 DEF Desired
  <2>3. QED BY <1>1, <2>2, HoldersWant DEF BridgeInv
<1>11. Fits(back, k)
  BY <1>2, <1>8, <1>9, <1>10, ScopeIsOne DEF Fits
<1>12. \A j \in Keys : /\ Holders(j)' = Holders(j)
                       /\ \A p \in Patterns : Counted(j, p)' = Counted(j, p)
  BY <1>6 DEF Holders, Counted
<1>13. Fits(back, k)'
  BY <1>1, <1>11, <1>12 DEF Fits
<1>14. CountsExact' /\ scope' \in [Keys -> {NoScope} \cup Scopes]
  BY <1>1, <1>5, <1>9, <1>12, <1>13, OneScope DEF BridgeInv
<1>15. timers' \subseteq Keys \X (0..MaxPublished)
  BY <1>5 DEF Books, BridgeInv, BridgeTypeOK, Armed, TimerCtx
<1>16. failures' \in 0..MaxFailures
  <2>1. IsFiniteSet({j \in {k} : [scope EXCEPT ![k] = back][j] # NoScope
                                 /\ ~InSync([scope EXCEPT ![k] = back][j])})
    BY FS_Singleton, FS_Subset
  <2>2. Failed([scope EXCEPT ![k] = back], {k}) \in Nat
    BY <2>1, FS_CardinalityType DEF Failed
  <2>3. QED BY <1>5, <2>2, BridgeAssumption DEF Books
<1>17. Handles
  BY <1>2, <1>5, <1>9 DEF Handles, Books
<1>18. QED BY <1>14, <1>15, <1>16, <1>17 DEF Books

(* A retry touches no counts.                                               *)
LEMMA RetryBooks ==
    ASSUME NEW k \in Keys, NEW e \in 0..MaxPublished, BridgeInv, Books, RetryTimer(k, e)
    PROVE  Books' /\ Handles
<1>1. UNCHANGED <<gen, want, held>>
  BY DEF RetryTimer, actor
<1>2. \A j \in Keys : /\ Holders(j)' = Holders(j)
                      /\ \A p \in Patterns : Counted(j, p)' = Counted(j, p)
  BY <1>1 DEF Holders, Counted
<1>3. timers' \subseteq Keys \X (0..MaxPublished) /\ failures' \in 0..MaxFailures
  BY BridgeAssumption DEF RetryTimer, Books
<1>4. CASE scope' = scope
  <2>1. \A j \in Keys : Fits(scope[j], j)'
    BY <1>2, <1>4, CountsFit DEF Fits, Books
  <2>2. CountsExact'
    BY <2>1, CountsFit
  <2>3. QED BY <1>3, <1>4, <2>2 DEF Books, Handles
<1>5. CASE scope' # scope
  <2>1. scope[k] # NoScope /\ scope[k] \in WideScopes
    BY <1>5, ScopesWiden DEF RetryTimer, Books
  <2>2. PICK sc : /\ scope' = [scope EXCEPT ![k] = sc] /\ sc \in WideScopes
                  /\ sc.desired = scope[k].desired /\ sc.ps = scope[k].ps
    <3>1. CASE scope' = [scope EXCEPT ![k] = [Resynced(@) EXCEPT !.retry = FALSE]]
      <4>1. /\ Resynced(scope[k]) \in WideScopes /\ Resynced(scope[k]).ps = scope[k].ps
            /\ Resynced(scope[k]).desired = scope[k].desired
        BY <2>1, ResyncKeepsCounts
      <4>2. PICK sc : sc = [Resynced(scope[k]) EXCEPT !.retry = FALSE]
        OBVIOUS
      <4>3. sc \in WideScopes /\ sc.desired = scope[k].desired /\ sc.ps = scope[k].ps
        BY <4>1, <4>2 DEF WideScopes
      <4>4. QED BY <3>1, <4>2, <4>3
    <3>2. ASSUME NEW f \in ResyncFailed(scope[k]),
                 scope' = [scope EXCEPT ![k] = [f EXCEPT !.retry = TRUE]]
          PROVE  \E sc : /\ scope' = [scope EXCEPT ![k] = sc] /\ sc \in WideScopes
                         /\ sc.desired = scope[k].desired /\ sc.ps = scope[k].ps
      <4>1. f \in WideScopes /\ f.desired = scope[k].desired /\ f.ps = scope[k].ps
        BY <2>1, ResyncKeepsCounts
      <4>2. PICK sc : sc = [f EXCEPT !.retry = TRUE]
        OBVIOUS
      <4>3. sc \in WideScopes /\ sc.desired = scope[k].desired /\ sc.ps = scope[k].ps
        BY <4>1, <4>2 DEF WideScopes
      <4>4. QED BY <3>2, <4>2, <4>3
    <3>3. QED BY <1>5, <3>1, <3>2 DEF RetryTimer
  <2>3. Fits(sc, k)'
    BY <1>2, <2>1, <2>2, CountsFit, ScopeIsOne DEF Fits, Books
  <2>4. CountsExact' /\ scope' \in [Keys -> {NoScope} \cup Scopes]
    BY <1>2, <2>2, <2>3, OneScope DEF BridgeInv
  <2>5. Handles
    BY <2>1, <2>2 DEF Handles, Books
  <2>6. QED BY <1>3, <2>4, <2>5 DEF Books
<1>6. QED BY <1>4, <1>5

(* A detach drops every scope, and its generation nobody holds.             *)
LEMMA DetachBooks ==
    ASSUME BridgeInv, Books, Detach
    PROVE  Books' /\ \A k \in Keys : scope'[k] = NoScope
<1>1. \A k \in Keys : scope'[k] = NoScope
  BY DEF Detach
<1>2. ASSUME NEW k \in Keys PROVE Holders(k)' = {}
  <2>1. \A a \in Actors : <<k, gen + 1>> \notin held[a]
    BY DEF BridgeInv, BridgeTypeOK, ActorShape
  <2>2. QED BY <2>1 DEF Holders, Detach, actor
<1>3. \A k \in Keys : Fits(scope[k], k)'
  BY <1>1, <1>2 DEF Fits
<1>4. CountsExact'
  BY <1>3, CountsFit
<1>5. QED BY <1>1, <1>4 DEF Books, Detach

LEMMA InvIs == BridgeInv <=> Actored /\ Books
  BY TypesAre DEF BridgeInv, Actored, Books

(* Every step but a detach keeps the books, and the scopes their handles.   *)
LEMMA BooksStep ==
    ASSUME BridgeInv, [BridgeNext]_bridgeVars, Actored'
    PROVE  Books' /\ (Handles \/ Detach)
<1> USE DEF Actored
<1>0. Books /\ BridgeTypeOK /\ ActorShape /\ Actors = Subscribers \cup Engines
  BY InvIs DEF BridgeInv, Actors
<1>1. ASSUME NEW r \in Subscribers, NEW ks \in SUBSET Keys, NEW ps \in SUBSET Patterns,
             Subscribe(r, ks, ps)
      PROVE  Books' /\ Handles
  <2>1. held[r] = {} /\ want' = [want EXCEPT ![r] = ps] /\ held' = held
    BY <1>0, <1>1 DEF Subscribe, ActorShape
  <2>2. QED BY <1>0, <1>1, <2>1, NeutralStep DEF Subscribe, BridgeTypeOK
<1>2. ASSUME NEW r \in Subscribers, Unsubscribe(r) PROVE Books' /\ Handles
  BY <1>0, <1>2, ReleaseBooks DEF Unsubscribe, Over, BridgeTypeOK
<1>3. ASSUME NEW a \in Actors, CtxCheck(a) PROVE Books' /\ Handles
  <2>1. held[a] = {}
    BY <1>0, <1>3 DEF CtxCheck, ActorShape
  <2>2. \A b \in Actors : held'[b] = held[b] /\ (held[b] # {} => want'[b] = want[b])
    BY <1>0, <1>3, <2>1 DEF CtxCheck, Over, BridgeTypeOK
  <2>3. QED BY <1>0, <1>3, <2>2, NeutralStep DEF CtxCheck
<1>4. ASSUME NEW a \in Actors,
             \/ Acquired(a) \/ Resolve(a) \/ ResolveFails(a) \/ RegisterDetached(a)
             \/ \E k \in Keys : ReadGen(a, k)
      PROVE  Books' /\ Handles
  <2>1. UNCHANGED <<bridge, held, want>>
    BY <1>4 DEF Acquired, Resolve, ResolveFails, RegisterDetached, ReadGen
  <2>2. QED BY <1>0, <2>1, NeutralStep
<1>5. ASSUME NEW a \in Actors, Register(a) PROVE Books' /\ Handles
  BY <1>0, <1>5, RegisterBooks
<1>6. ASSUME NEW a \in Actors, RegisterFails(a) PROVE Books' /\ Handles
  BY <1>0, <1>6, RegisterFailsBooks
<1>7. ASSUME NEW a \in Actors, Rollback(a) PROVE Books' /\ Handles
  <2>1. /\ ReleaseAll(a) /\ gen' = gen /\ held' = [held EXCEPT ![a] = {}]
        /\ \A b \in Actors \ {a} : want'[b] = want[b]
    BY <1>0, <1>7 DEF Rollback, Over, BridgeTypeOK
  <2>2. QED BY <2>1, ReleaseBooks
<1>8. ASSUME NEW e \in Engines, HoldProcess(e) PROVE Books' /\ Handles
  <2>1. CASE cancelled[e]
    BY <1>0, <1>8, <2>1, ReleaseBooks DEF HoldProcess, Over, BridgeTypeOK
  <2>2. CASE ~cancelled[e]
    <3>1. UNCHANGED <<bridge, held, want>>
      BY <1>8, <2>2 DEF HoldProcess, bridge
    <3>2. QED BY <1>0, <3>1, NeutralStep
  <2>3. QED BY <2>1, <2>2
<1>9. ASSUME NEW e \in Engines, JanitorClose(e) PROVE Books' /\ Handles
  BY <1>0, <1>9, ReleaseBooks DEF JanitorClose, Over, BridgeTypeOK
<1>10. ASSUME NEW k \in Keys, NEW e \in 0..MaxPublished, RetryTimer(k, e)
       PROVE  Books' /\ Handles
  BY <1>0, <1>10, RetryBooks
<1>11. CASE Publish
  <2>1. made + 1 \in Actors /\ held[made + 1] = {}
    BY <1>0, <1>11, BridgeAssumption DEF Publish, BridgeTypeOK, ActorShape, Engines
  <2>2. \A b \in Actors : held'[b] = held[b] /\ (held[b] # {} => want'[b] = want[b])
    BY <1>0, <1>11, <2>1 DEF Publish, BridgeTypeOK
  <2>3. QED BY <1>0, <1>11, <2>2, NeutralStep DEF Publish
<1>12. CASE TeardownCancel \/ TeardownAbandon \/ UNCHANGED bridgeVars
  <2>1. UNCHANGED <<bridge, held, want>>
    BY <1>12 DEF TeardownCancel, TeardownAbandon, bridgeVars, bridge, actor
  <2>2. QED BY <1>0, <2>1, NeutralStep
<1>13. CASE Detach
  BY <1>0, <1>13, DetachBooks
<1>14. CASE TeardownClose
  <2>1. published \in Actors
    BY <1>0, <1>14, BridgeAssumption DEF TeardownClose, BridgeTypeOK, BridgeInv, Lifecycle,
          Engines
  <2>2. PICK e \in Actors : e = published
    BY <2>1
  <2>3. QED BY <1>0, <1>14, <2>2, ReleaseBooks DEF TeardownClose, Over, BridgeTypeOK
<1>15. QED BY <1>0, <1>1, <1>2, <1>3, <1>4, <1>5, <1>6, <1>7, <1>8, <1>9, <1>10, <1>11, <1>12,
              <1>13, <1>14 DEF BridgeNext, AcquireStep

LEMMA InitBridgeInv == BridgeInit => BridgeInv
<1> SUFFICES ASSUME BridgeInit PROVE BridgeInv OBVIOUS
<1>1. BridgeTypeOK
  BY BridgeAssumption DEF BridgeInit, BridgeTypeOK
<1>2. Lifecycle /\ ActorShape
  BY DEF BridgeInit, Lifecycle, ActorShape, Active
<1>3. CountsExact
  BY DEF BridgeInit, CountsExact
<1>4. QED BY <1>1, <1>2, <1>3 DEF BridgeInv

LEMMA NextBridgeInv == BridgeInv /\ [BridgeNext]_bridgeVars => BridgeInv'
<1> SUFFICES ASSUME BridgeInv, [BridgeNext]_bridgeVars PROVE BridgeInv' OBVIOUS
<1>1. Actored'
  BY InvIs, ActorStep
<1>2. Books'
  BY <1>1, BooksStep
<1>3. Actored' /\ Books' => BridgeInv'
  BY TypesAre DEF BridgeInv, Actored, Books, ActorTypes, BridgeTypeOK
<1>4. QED BY <1>1, <1>2, <1>3

(* The bridge's refcounts are exact in every reachable state, for any       *)
(* subscribers, keys and patterns, whatever fails (events_bridge.go).       *)
THEOREM BridgeCounts == BridgeSpec => []SubscriptionsExact
<1>1. BridgeInv => SubscriptionsExact
  BY DEF BridgeInv, SubscriptionsExact
<1>2. QED BY <1>1, InitBridgeInv, NextBridgeInv, PTL DEF BridgeSpec

-----------------------------------------------------------------------------
(* On time: drains and joins finish before their deadline.                  *)

(* Who an actor works against: only a subscription or a publication starts  *)
(* somebody, against the published engine.                                  *)
LEMMA WorkStep ==
    ASSUME BridgeInv, [BridgeNext]_bridgeVars, ~Publish, ~TeardownClose, ~TeardownAbandon
    PROVE  /\ published' = published
           /\ \A a \in Actors : sdk'[a] \in {0, sdk[a], published}
           /\ down' = "detached" =>
                \/ Detach
                \/ down = "detached" /\ \A a \in Actors : sdk'[a] \in {0, sdk[a]}
<1> USE DEF BridgeInv, BridgeTypeOK, life, actor, bridge
<1>1. ASSUME NEW r \in Subscribers, NEW ks \in SUBSET Keys, NEW ps \in SUBSET Patterns,
             Subscribe(r, ks, ps)
      PROVE  /\ UNCHANGED life /\ down = "up"
             /\ \A a \in Actors : sdk'[a] \in {sdk[a], published}
  BY <1>1 DEF Subscribe
<1>2. ASSUME NEW r \in Subscribers, Unsubscribe(r)
      PROVE  UNCHANGED life /\ \A a \in Actors : sdk'[a] \in {0, sdk[a]}
  BY <1>2 DEF Unsubscribe, Over
<1>3. ASSUME NEW a \in Actors, AcquireStep(a)
      PROVE  UNCHANGED life /\ \A b \in Actors : sdk'[b] \in {0, sdk[b]}
  BY <1>3 DEF AcquireStep, CtxCheck, Acquired, Resolve, ResolveFails, ReadGen, Register,
              RegisterDetached, RegisterFails, Rollback, Over
<1>4. ASSUME NEW e \in Engines, HoldProcess(e) \/ JanitorClose(e)
      PROVE  UNCHANGED life /\ \A a \in Actors : sdk'[a] \in {0, sdk[a]}
  BY <1>4 DEF HoldProcess, JanitorClose, Over
<1>5. ASSUME NEW k \in Keys, NEW e \in 0..MaxPublished, RetryTimer(k, e)
      PROVE  UNCHANGED <<life, sdk>>
  BY <1>5 DEF RetryTimer
<1>6. CASE TeardownCancel \/ Detach
  BY <1>6 DEF TeardownCancel, Detach
<1>7. CASE UNCHANGED bridgeVars
  BY <1>7 DEF bridgeVars
<1>8. QED BY <1>1, <1>2, <1>3, <1>4, <1>5, <1>6, <1>7 DEF BridgeNext

LEMMA InitOnTime == BridgeInit => OnTime
  BY DEF BridgeInit, OnTime

(* When nobody works, nobody holds, and there are no scopes.                *)
LEMMA IdleScopes ==
    ASSUME BridgeInv', \A a \in Actors : sdk'[a] = 0
    PROVE  \A k \in Keys : scope'[k] = NoScope
<1>1. \A a \in Actors : held'[a] = {}
  BY DEF BridgeInv, ActorShape, Active
<1>2. \A k \in Keys : Holders(k)' = {}
  BY <1>1 DEF Holders
<1>3. QED BY <1>2, CountsFit DEF BridgeInv, Fits

LEMMA NextOnTime ==
    ASSUME Timely, BridgeInv, OnTime, [BridgeNext]_bridgeVars, BridgeInv'
    PROVE  OnTime'
<1>0. Books' /\ (Handles \/ Detach) /\ Subscribers \subseteq Actors /\ Engines \subseteq Actors
  <2>1. Actored'
    BY DEF BridgeInv, BridgeTypeOK, Actored, ActorTypes
  <2>2. QED BY <2>1, BooksStep DEF Actors
<1>1. CASE Publish
  <2>1. published = 0 /\ published' = made + 1 /\ scope' = scope /\ down' = "up"
    BY <1>1 DEF Publish, bridge, BridgeInv, Lifecycle
  <2>2. \A a \in Actors : sdk[a] = 0
    BY <2>1 DEF OnTime
  <2>3. \A a \in Actors : sdk'[a] \in {0, made + 1}
    BY <1>1, <2>2 DEF Publish, BridgeInv, BridgeTypeOK
  <2>4. \A k \in Keys : scope[k] = NoScope
    BY <2>1, BridgeAssumption DEF OnTime, BridgeInv, BridgeTypeOK, Scopes, Engines
  <2>5. QED BY <2>1, <2>3, <2>4 DEF OnTime
<1>2. CASE TeardownClose
  <2>1. \A a \in Actors : sdk'[a] = 0
    <3>1. \A r \in Subscribers : sdk[r] = 0
      BY <1>2 DEF TeardownClose, OnTime
    <3>2. \A e \in Engines \ {published} : sdk[e] = 0
      BY <1>0 DEF OnTime, BridgeInv, ActorShape
    <3>3. \A a \in Actors : a # published => sdk'[a] = sdk[a]
      BY <1>2 DEF TeardownClose, Over, BridgeInv, BridgeTypeOK
    <3>4. published \in Actors => sdk'[published] = 0
      BY <1>2 DEF TeardownClose, Over, BridgeInv, BridgeTypeOK
    <3>5. QED BY <3>1, <3>2, <3>3, <3>4 DEF Actors
  <2>2. down' = "up"
    BY <1>2 DEF TeardownClose
  <2>3. QED BY <2>1, <2>2, IdleScopes DEF OnTime
<1>3. CASE TeardownAbandon
  BY <1>3 DEF TeardownAbandon
<1>4. CASE ~Publish /\ ~TeardownClose /\ ~TeardownAbandon
  <2>1. /\ published' = published
        /\ \A a \in Actors : sdk'[a] # 0 => sdk'[a] = published
        /\ down' = "detached" =>
                \/ Detach
                \/ down = "detached" /\ \A a \in Actors : sdk'[a] \in {0, sdk[a]}
    BY <1>4, WorkStep DEF OnTime
  <2>2. down' = "detached" => \A r \in Subscribers : sdk'[r] = 0
    <3>1. CASE Detach
      BY <1>0, <3>1 DEF Detach, Drained, OnTime, actor
    <3>2. CASE down = "detached" /\ \A a \in Actors : sdk'[a] \in {0, sdk[a]}
      BY <1>0, <3>2 DEF OnTime
    <3>3. QED BY <2>1, <3>1, <3>2
  <2>3. \A k \in Keys : scope'[k] # NoScope => scope'[k].ps = published
    <3>1. CASE Detach
      BY <3>1 DEF Detach
    <3>2. CASE Handles
      BY <3>2 DEF Handles, OnTime
    <3>3. QED BY <1>0, <3>1, <3>2
  <2>4. QED BY <2>1, <2>2, <2>3 DEF OnTime
<1>5. QED BY <1>1, <1>2, <1>3, <1>4

(* With timely drains and joins no acquisition that raced a detach leaves   *)
(* an old engine's pub/sub handle in the scopes of the one that serves      *)
(* (acquireScope, detach).                                                  *)
THEOREM OwnHandles ==
    ASSUME Timely
    PROVE  BridgeSpec => []NoForeignHandle
<1>1. BridgeInit => BridgeInv /\ OnTime
  BY InitBridgeInv, InitOnTime
<1>2. BridgeInv /\ OnTime /\ [BridgeNext]_bridgeVars => (BridgeInv /\ OnTime)'
  BY NextBridgeInv, NextOnTime
<1>3. OnTime => NoForeignHandle
  BY DEF OnTime, NoForeignHandle
<1>4. QED BY <1>1, <1>2, <1>3, PTL DEF BridgeSpec

-----------------------------------------------------------------------------
(* The process view.                                                        *)

(* The hub: its types, streams without a gap, and no channel closed twice.  *)
HubInv ==
    /\ subs \in [Subs -> Channel] /\ closes \in [Subs -> 0..1] /\ count \in 0..MaxEvents
    /\ StreamNoGap
    /\ \A s \in Subs : subs[s].open => closes[s] = 0

(* The view: its types, and a publisher is at work when it has a frame.     *)
DueSet == [Ids -> [done : SUBSET Values, total : SUBSET Values]]
RecordInv ==
    /\ serving \in {"none", "up", "draining", "closing"} /\ engine \in 0..MaxEngines
    /\ rows \in [RowKeys -> {NoRow} \cup RowSet]
    /\ pc \in [Publishers -> {"idle", "fanout", "tap", "network", "apply"}]
    /\ frame \in [Publishers -> {NoFrame} \cup Frames]
    /\ acked \in [Ids -> {Unknown} \cup (Values \X Values)] /\ due \in DueSet
    /\ \A p \in Publishers : pc[p] = "idle" <=> frame[p] = NoFrame
    /\ serving # "none" => engine > 0

(* On time, whatever is recorded or on its way is the serving engine's.     *)
Current ==
    /\ \A p \in Publishers : frame[p] # NoFrame => frame[p].by = engine /\ serving # "none"
    /\ \A k \in RowKeys : rows[k] # NoRow => rows[k].by = engine /\ serving # "none"
    /\ serving = "closing" => \A r \in Requests : frame[r] = NoFrame

(* The values in flight are values, and so is what one more frame adds.     *)
LEMMA InFlightTyped ==
    ASSUME RecordInv, NEW i \in Ids
    PROVE  InFlight(i) \subseteq Frames /\ Dones(i) \subseteq Values /\ Totals(i) \subseteq Values
<1>1. InFlight(i) \subseteq Frames
  BY DEF RecordInv, InFlight
<1>2. \A f \in Frames : f.done \in Values /\ f.total \in Values
  BY DEF Frames
<1>3. QED BY <1>1, <1>2 DEF Dones, Totals

LEMMA DueTyped ==
    ASSUME RecordInv, NEW k, NEW d \in Values, NEW t \in Values
    PROVE  DueWith(k, d, t) \in DueSet
BY DEF RecordInv, DueWith, DueSet

(* What applying a frame does to a row.                                     *)
LEMMA AppliedRows ==
    ASSUME RecordInv, NEW f \in Frames
    PROVE  /\ Applied(f) \in [RowKeys -> {NoRow} \cup RowSet]
           /\ \A k \in RowKeys :
                \/ Applied(f)[k] = NoRow
                \/ Applied(f)[k] = rows[k]
                \/ /\ k = f.key /\ f.type # "cancel" /\ Applied(f)[k].by = f.by
                   /\ Applied(f)[k].done = f.done /\ Applied(f)[k].total = f.total
<1> PICK row : row = [state |-> StateOf(f.type), done |-> f.done, total |-> f.total,
                      stale |-> FALSE, net |-> f.net, by |-> f.by]
  OBVIOUS
<1>1. f.key \in RowKeys /\ rows \in [RowKeys -> {NoRow} \cup RowSet]
  BY DEF RecordInv, Frames
<1>2. CASE f.type = "cancel"
  BY <1>1, <1>2 DEF Applied
<1>3. CASE f.type # "cancel"
  <2>1. row \in RowSet
    BY <1>3 DEF Frames, Types, StateOf, RowSet
  <2>2. Applied(f) = Swept([rows EXCEPT ![f.key] = row])
    BY <1>3 DEF Applied
  <2>3. [rows EXCEPT ![f.key] = row] \in [RowKeys -> {NoRow} \cup RowSet]
    BY <1>1, <2>1
  <2>4. \A k \in RowKeys : \/ Applied(f)[k] = NoRow
                           \/ Applied(f)[k] = [rows EXCEPT ![f.key] = row][k]
    BY <2>2 DEF Swept
  <2>5. Applied(f) \in [RowKeys -> {NoRow} \cup RowSet]
    BY <2>2, <2>3 DEF Swept
  <2>6. QED BY <1>1, <1>3, <2>4, <2>5
<1>4. QED BY <1>2, <1>3

(* Appending the next number to a stream's buffer.                          *)
LEMMA FannedChannel ==
    ASSUME NEW s \in Subs, HubInv, count < MaxEvents
    PROVE  /\ FannedOut(s) \in Channel
           /\ FannedOut(s).open => subs[s].open
           /\ \A n \in 1..Len(FannedOut(s).buf) : FannedOut(s).buf[n] = FannedOut(s).at + n
           /\ FannedOut(s).open => FannedOut(s).at + Len(FannedOut(s).buf) = count + 1
<1>1. /\ subs[s] \in Channel /\ count \in Nat /\ count + 1 \in 1..MaxEvents
      /\ \A n \in 1..Len(subs[s].buf) : subs[s].buf[n] = subs[s].at + n
      /\ subs[s].open => subs[s].at + Len(subs[s].buf) = count
  BY ViewAssumption DEF HubInv, StreamNoGap
<1>2. CASE ~subs[s].open
  BY <1>1, <1>2 DEF FannedOut
<1>3. CASE subs[s].open /\ Len(subs[s].buf) < Buffer
  <2>1. PICK b, m, x : /\ b = Append(subs[s].buf, count + 1)
                       /\ m = Len(subs[s].buf) /\ x = subs[s].at
    OBVIOUS
  <2>2. FannedOut(s) = [subs[s] EXCEPT !.buf = b]
    BY <1>3, <2>1 DEF FannedOut
  <2>3. /\ b \in Seq(1..MaxEvents) /\ Len(b) = m + 1 /\ b[m + 1] = count + 1
        /\ \A n \in 1..m : b[n] = subs[s].buf[n]
    BY <1>1, <2>1, AppendProperties, LenProperties DEF Channel
  <2>4. FannedOut(s) \in Channel /\ FannedOut(s).buf = b /\ FannedOut(s).at = x
    BY <1>1, <2>1, <2>2, <2>3 DEF Channel
  <2>5. m \in Nat /\ x \in Nat /\ x + m = count /\ \A n \in 1..m : b[n] = x + n
    BY <1>1, <1>3, <2>1, <2>3, LenProperties DEF Channel
  <2>6. \A n \in 1..(m + 1) : b[n] = x + n
    BY <1>1, <2>3, <2>5
  <2>7. x + (m + 1) = count + 1
    BY <2>5
  <2>8. QED BY <1>3, <2>3, <2>4, <2>6, <2>7
<1>4. CASE subs[s].open /\ ~(Len(subs[s].buf) < Buffer)
  BY <1>1, <1>4 DEF FannedOut, Channel
<1>5. QED BY <1>2, <1>3, <1>4

LEMMA InitHubInv == ViewInit => HubInv
<1> SUFFICES ASSUME ViewInit PROVE HubInv OBVIOUS
<1>1. NoSub \in Channel
  BY ViewAssumption DEF NoSub, Channel
<1>2. \A s \in Subs : subs[s] = NoSub /\ Len(subs[s].buf) = 0 /\ ~subs[s].open
  BY DEF ViewInit, NoSub
<1>3. QED BY <1>1, <1>2, ViewAssumption DEF ViewInit, HubInv, StreamNoGap

LEMMA InitRecordInv == ViewInit => RecordInv /\ Current
  BY ViewAssumption DEF ViewInit, RecordInv, Current, DueSet

(* The steps that touch the hub.                                            *)
LEMMA HubSteps ==
    ASSUME [ViewNext]_view
    PROVE  \/ UNCHANGED hub
           \/ \E p \in Publishers : Fanout(p)
           \/ \E s \in Subs : HubSubscribe(s) \/ Read(s) \/ HubUnsubscribe(s)
<1>1. ASSUME NEW r \in Requests, NEW i \in Ids, NEW net \in BOOLEAN, ProcessRegister(r, i, net)
      PROVE  UNCHANGED hub
  BY <1>1 DEF ProcessRegister
<1>2. ASSUME NEW r \in Requests, NEW i \in Ids, NEW d \in Values \cup {Keep},
             NEW t \in Values \cup {Keep}, ProcessProgress(r, i, d, t)
      PROVE  UNCHANGED hub
  BY <1>2 DEF ProcessProgress
<1>3. ASSUME NEW r \in Requests, NEW i \in Ids, NEW type, ProcessFinish(r, i, type)
      PROVE  UNCHANGED hub
  BY <1>3 DEF ProcessFinish
<1>4. ASSUME NEW r \in Requests, NEW k \in RowKeys, ProcessCancel(r, k) PROVE UNCHANGED hub
  BY <1>4 DEF ProcessCancel
<1>5. ASSUME NEW r \in Requests, NetworkPublish(r) \/ NetworkFails(r) \/ NetworkApply(r)
      PROVE  UNCHANGED hub
  BY <1>5 DEF NetworkPublish, NetworkFails, NetworkApply
<1>6. ASSUME NEW who, NEW i, NEW type, NEW d, RemoteFrame(who, i, type, d) \/ Report(i, type, d)
      PROVE  UNCHANGED hub
  BY <1>6 DEF RemoteFrame, Report, OtherFrame
<1>7. ASSUME NEW p \in Publishers, Tap(p) PROVE UNCHANGED hub
  BY <1>7 DEF Tap
<1>8. ASSUME NEW k \in RowKeys, Expire(k) PROVE UNCHANGED hub
  BY <1>8 DEF Expire
<1>9. CASE \/ List \/ Boot \/ TeardownStart \/ TeardownDrained \/ TeardownReset \/ TeardownTimeout
           \/ UNCHANGED view
  BY <1>9 DEF List, Boot, TeardownStart, TeardownDrained, TeardownReset, TeardownTimeout, view,
        hub
<1>10. QED BY <1>1, <1>2, <1>3, <1>4, <1>5, <1>6, <1>7, <1>8, <1>9 DEF ViewNext

LEMMA NextHubInv == HubInv /\ [ViewNext]_view => HubInv'
<1> SUFFICES ASSUME HubInv, [ViewNext]_view PROVE HubInv' OBVIOUS
<1>1. CASE UNCHANGED hub
  BY <1>1 DEF hub, HubInv, StreamNoGap
<1>2. ASSUME NEW p \in Publishers, Fanout(p) PROVE HubInv'
  <2>1. /\ count < MaxEvents /\ count' = count + 1 /\ subs' = [s \in Subs |-> FannedOut(s)]
        /\ closes' = [s \in Subs |->
                IF subs[s].open /\ ~FannedOut(s).open THEN closes[s] + 1 ELSE closes[s]]
    BY <1>2 DEF Fanout
  <2>2. \A s \in Subs :
            /\ subs'[s] \in Channel /\ (subs'[s].open => subs[s].open)
            /\ \A n \in 1..Len(subs'[s].buf) : subs'[s].buf[n] = subs'[s].at + n
            /\ subs'[s].open => subs'[s].at + Len(subs'[s].buf) = count + 1
    BY <2>1, FannedChannel
  <2>3. closes' \in [Subs -> 0..1] /\ \A s \in Subs : subs'[s].open => closes'[s] = 0
    BY <2>1, <2>2 DEF HubInv
  <2>4. subs' \in [Subs -> Channel] /\ count' \in 0..MaxEvents
    BY <2>1, <2>2, ViewAssumption DEF HubInv
  <2>5. StreamNoGap'
    BY <2>1, <2>2 DEF StreamNoGap
  <2>6. QED BY <2>3, <2>4, <2>5 DEF HubInv
<1>3. ASSUME NEW s \in Subs, HubSubscribe(s) PROVE HubInv'
  <2>1. PICK c : c = [live |-> TRUE, open |-> TRUE, at |-> count, buf |-> <<>>]
    OBVIOUS
  <2>2. c \in Channel /\ c.at = count /\ Len(c.buf) = 0
    BY <2>1 DEF Channel, HubInv
  <2>3. subs' = [subs EXCEPT ![s] = c] /\ closes[s] = 0 /\ UNCHANGED <<closes, count>>
    BY <1>3, <2>1 DEF HubSubscribe
  <2>4. \A n \in 1..Len(c.buf) : c.buf[n] = c.at + n
    BY <2>2
  <2>5. QED BY <2>2, <2>3, <2>4, ViewAssumption DEF HubInv, StreamNoGap
<1>4. ASSUME NEW s \in Subs, Read(s) PROVE HubInv'
  <2>1. PICK b, x, c : /\ b = subs[s].buf /\ x = subs[s].at
                       /\ c = [subs[s] EXCEPT !.at = Head(b), !.buf = Tail(b)]
    OBVIOUS
  <2>2. subs' = [subs EXCEPT ![s] = c] /\ b # <<>> /\ UNCHANGED <<closes, count>>
    BY <1>4, <2>1 DEF Read
  <2>3. PICK m : m = Len(b) - 1
    OBVIOUS
  <2>4. /\ b \in Seq(1..MaxEvents) /\ x \in Nat /\ subs[s] \in Channel
        /\ \A n \in 1..Len(b) : b[n] = x + n
        /\ subs[s].open => x + Len(b) = count
    BY <2>1 DEF HubInv, StreamNoGap, Channel
  <2>5. /\ Head(b) \in 1..MaxEvents /\ Tail(b) \in Seq(1..MaxEvents) /\ Len(b) \in Nat
        /\ Head(b) = b[1] /\ Len(Tail(b)) = m /\ m \in Nat /\ Len(b) = m + 1
        /\ \A n \in 1..m : Tail(b)[n] = b[n + 1]
    <3>1. /\ Head(b) \in 1..MaxEvents /\ Tail(b) \in Seq(1..MaxEvents)
          /\ Len(Tail(b)) = Len(b) - 1 /\ \A n \in 1..(Len(b) - 1) : Tail(b)[n] = b[n + 1]
      BY <2>2, <2>4, HeadTailProperties
    <3>2. Len(b) \in Nat /\ Len(b) # 0
      BY <2>2, <2>4, EmptySeq, LenProperties
    <3>3. Head(b) = b[1]
      BY <2>2, <2>4
    <3>4. QED BY <2>3, <3>1, <3>2, <3>3
  <2>6. Head(b) = x + 1 /\ \A n \in 1..m : Tail(b)[n] = (x + 1) + n
    BY <2>4, <2>5
  <2>7. /\ c \in Channel /\ c.at = x + 1 /\ Len(c.buf) = m /\ c.open = subs[s].open
        /\ \A n \in 1..m : c.buf[n] = (x + 1) + n
    <3>1. x + 1 \in 0..MaxEvents
      BY <2>4, <2>5, <2>6, ViewAssumption
    <3>2. PICK h, tl : h = Head(b) /\ tl = Tail(b)
      OBVIOUS
    <3>3. c = [subs[s] EXCEPT !.at = h, !.buf = tl]
      BY <2>1, <3>2
    <3>4. /\ h = x + 1 /\ tl \in Seq(1..MaxEvents) /\ Len(tl) = m
          /\ \A n \in 1..m : tl[n] = (x + 1) + n
      BY <2>5, <2>6, <3>2
    <3>5. c \in Channel /\ c.at = h /\ c.buf = tl /\ c.open = subs[s].open
      BY <2>4, <3>1, <3>3, <3>4 DEF Channel
    <3>6. QED BY <3>4, <3>5
  <2>8. c.open => c.at + Len(c.buf) = count
    BY <2>4, <2>5, <2>7
  <2>9. QED BY <2>2, <2>7, <2>8 DEF HubInv, StreamNoGap
<1>5. ASSUME NEW s \in Subs, HubUnsubscribe(s) PROVE HubInv'
  <2>1. PICK c : c = [subs[s] EXCEPT !.live = FALSE, !.open = FALSE]
    OBVIOUS
  <2>2. /\ subs' = [subs EXCEPT ![s] = c] /\ count' = count
        /\ closes' = [closes EXCEPT ![s] = IF subs[s].open THEN @ + 1 ELSE @]
    BY <1>5, <2>1 DEF HubUnsubscribe
  <2>3. c \in Channel /\ ~c.open /\ c.at = subs[s].at /\ c.buf = subs[s].buf
    BY <2>1 DEF HubInv, Channel
  <2>4. QED BY <2>2, <2>3 DEF HubInv, StreamNoGap
<1>6. QED BY <1>1, <1>2, <1>3, <1>4, <1>5, HubSteps

(* A request of the live engine hands over a frame.                         *)
LEMMA EmitRecords ==
    ASSUME NEW r \in Requests, NEW f \in Frames, RecordInv, MayStart(r), EmitFrame(r, f),
           f.by = engine, UNCHANGED serves,
           rows' \in [RowKeys -> {NoRow} \cup RowSet],
           acked' \in [Ids -> {Unknown} \cup (Values \X Values)], due' \in DueSet,
           \A k \in RowKeys : rows'[k] # NoRow => rows[k] # NoRow /\ rows'[k].by = rows[k].by
    PROVE  RecordInv' /\ (Current => Current')
<1>1. r \in Publishers /\ f # NoFrame /\ serving = "up" /\ engine' = engine /\ serving' = serving
  BY DEF Publishers, MayStart, Frames, NoFrame, Types, serves
<1>2. /\ frame' = [frame EXCEPT ![r] = f]
      /\ pc' = [pc EXCEPT ![r] = IF f.net THEN "network" ELSE "fanout"]
  BY DEF EmitFrame
<1>3. RecordInv'
  BY <1>1, <1>2 DEF RecordInv
<1>4. ASSUME Current PROVE Current'
  <2>1. \A p \in Publishers : frame'[p] # NoFrame => frame'[p].by = engine
    BY <1>1, <1>2, <1>4 DEF Current, RecordInv
  <2>2. \A k \in RowKeys : rows'[k] # NoRow => rows'[k].by = engine
    BY <1>4 DEF Current
  <2>3. QED BY <1>1, <2>1, <2>2 DEF Current
<1>5. QED BY <1>3, <1>4

(* A publisher applies its frame and is done.                               *)
LEMMA ApplyRecords ==
    ASSUME NEW p \in Publishers, RecordInv, pc[p] # "idle", rows' = Applied(frame[p]), Idle(p),
           UNCHANGED <<serves, history>>
    PROVE  RecordInv' /\ (Current => Current')
<1>1. frame[p] \in Frames
  BY DEF RecordInv
<1>2. /\ rows' \in [RowKeys -> {NoRow} \cup RowSet]
      /\ \A k \in RowKeys : \/ rows'[k] = NoRow \/ rows'[k] = rows[k]
                            \/ rows'[k].by = frame[p].by
  BY <1>1, AppliedRows
<1>3. /\ frame' = [frame EXCEPT ![p] = NoFrame] /\ pc' = [pc EXCEPT ![p] = "idle"]
      /\ serving' = serving /\ engine' = engine /\ acked' = acked /\ due' = due
  BY DEF Idle, serves, history
<1>4. RecordInv'
  BY <1>2, <1>3 DEF RecordInv
<1>5. ASSUME Current PROVE Current'
  <2>1. \A q \in Publishers : frame'[q] # NoFrame => frame'[q] = frame[q]
    BY <1>3 DEF RecordInv
  <2>2. frame[p].by = engine /\ serving # "none"
    BY <1>1, <1>5 DEF Current, RecordInv
  <2>3. \A k \in RowKeys : rows'[k] # NoRow => rows'[k].by = engine
    BY <1>2, <1>5, <2>2 DEF Current
  <2>4. \A r \in Requests : frame[r] = NoFrame => frame'[r] = NoFrame
    BY <1>3 DEF RecordInv, Publishers
  <2>5. QED BY <1>3, <1>5, <2>1, <2>2, <2>3, <2>4 DEF Current
<1>6. QED BY <1>4, <1>5

(* Somebody else's frame.                                                   *)
LEMMA OtherRecords ==
    ASSUME RecordInv, serving # "none", NEW p \in {Indexer, Dispatch}, NEW k \in RowKeys,
           NEW type \in OtherTypes, NEW d \in Values, NEW net \in BOOLEAN,
           OtherFrame(p, k, type, d, net)
    PROVE  RecordInv' /\ (Current => Current')
<1>0. p \in Publishers /\ p \notin Requests /\ engine \in 1..MaxEngines
  BY ViewAssumption DEF Publishers, RecordInv
<1>1. PICK f : f = [type |-> type, key |-> k, done |-> d, total |-> 0, net |-> net, by |-> engine]
  OBVIOUS
<1>2. f \in Frames /\ f.by = engine /\ f # NoFrame
  BY <1>0, <1>1, ViewAssumption DEF Frames, Types, Values, NoFrame
<1>3. /\ frame' = [frame EXCEPT ![p] = f] /\ pc' = [pc EXCEPT ![p] = "fanout"]
      /\ acked' = [i \in Ids |-> IF k = <<Own, i>> THEN Unknown ELSE acked[i]]
      /\ due' = DueWith(k, d, 0)
      /\ serving' = serving /\ engine' = engine /\ rows' = rows
  BY <1>1 DEF OtherFrame, serves
<1>4. due' \in DueSet /\ acked' \in [Ids -> {Unknown} \cup (Values \X Values)]
  BY <1>3, DueTyped, ViewAssumption DEF Values, RecordInv
<1>5. RecordInv'
  BY <1>0, <1>2, <1>3, <1>4 DEF RecordInv
<1>6. Current => Current'
  BY <1>0, <1>2, <1>3 DEF RecordInv, Current
<1>7. QED BY <1>5, <1>6

LEMMA NextRecords ==
    ASSUME RecordInv, [ViewNext]_view
    PROVE  RecordInv' /\ (DrainsTimely /\ Current => Current')
<1> USE DEF serves, history
<1>0. /\ Requests \subseteq Publishers
      /\ \A i \in Ids : <<Own, i>> \in RowKeys /\ <<Remote, i>> \in RowKeys
      /\ \A i \in IndexIds : <<Own, i>> \in RowKeys
      /\ Indexer \in Publishers /\ Dispatch \in Publishers
      /\ serving # "none" => engine \in 1..MaxEngines
  BY ViewAssumption DEF Publishers, RowKeys, RecordInv
<1>1. ASSUME NEW r \in Requests, NEW i \in Ids, NEW net \in BOOLEAN, ProcessRegister(r, i, net)
      PROVE  RecordInv' /\ (Current => Current')
  <2>1. PICK k, n : k = <<Own, i>> /\ n = net
    OBVIOUS
  <2>2. PICK f : f = [type |-> "started", key |-> k, done |-> 0, total |-> 0,
                      net |-> n, by |-> engine]
    OBVIOUS
  <2>3. k \in RowKeys /\ n \in BOOLEAN /\ engine \in 1..MaxEngines
    BY <1>0, <1>1, <2>1 DEF ProcessRegister, MayStart
  <2>4. f \in Frames /\ f.by = engine
    BY <2>2, <2>3, ViewAssumption DEF Frames, Types, Values
  <2>5. MayStart(r) /\ EmitFrame(r, f) /\ acked' = [acked EXCEPT ![i] = Unknown]
        /\ due' = DueWith(k, 0, 0) /\ UNCHANGED <<serves, rows>>
    BY <1>1, <2>1, <2>2 DEF ProcessRegister
  <2>6. due' \in DueSet
    BY <2>5, DueTyped, ViewAssumption DEF Values
  <2>7. QED BY <2>4, <2>5, <2>6, EmitRecords DEF RecordInv
<1>2. ASSUME NEW r \in Requests, NEW i \in Ids, NEW d \in Values \cup {Keep},
             NEW t \in Values \cup {Keep}, ProcessProgress(r, i, d, t)
      PROVE  RecordInv' /\ (Current => Current')
  <2>1. PICK k, row, f, was :
            /\ k = <<Own, i>> /\ row = MergedOwn(rows[k], d, t)
            /\ f = [type |-> "progress", key |-> k, done |-> row.done, total |-> row.total,
                    net |-> row.net, by |-> engine]
            /\ was = IF acked[i] = Unknown THEN <<rows[k].done, rows[k].total>> ELSE acked[i]
    OBVIOUS
  <2>2. k \in RowKeys /\ rows[k] \in RowSet /\ engine \in 1..MaxEngines
    BY <1>0, <1>2, <2>1 DEF ProcessProgress, MayStart, Live, RecordInv
  <2>3. row \in RowSet /\ row.by = rows[k].by
    BY <2>1, <2>2 DEF MergedOwn, Fold, RowSet, Keep
  <2>4. f \in Frames /\ f.by = engine
    BY <2>1, <2>2, <2>3 DEF Frames, RowSet, Types
  <2>5. /\ MayStart(r) /\ EmitFrame(r, f) /\ UNCHANGED serves
        /\ rows' = [rows EXCEPT ![k] = row]
        /\ acked' = IF OnlyProgress(i)
                    THEN [acked EXCEPT ![i] = <<Fold(d, was[1]), Fold(t, was[2])>>]
                    ELSE acked
        /\ due' = [due EXCEPT ![i] =
                [done |-> IF d = Keep THEN @.done ELSE {d} \cup Dones(i),
                 total |-> IF t = Keep THEN @.total ELSE {t} \cup Totals(i)]]
    BY <1>2, <2>1 DEF ProcessProgress
  <2>6. was \in Values \X Values
    BY <2>1, <2>2 DEF RowSet, RecordInv
  <2>7. Fold(d, was[1]) \in Values /\ Fold(t, was[2]) \in Values
    BY <2>6 DEF Fold, Keep
  <2>8. acked' \in [Ids -> {Unknown} \cup (Values \X Values)]
    BY <2>5, <2>7 DEF RecordInv
  <2>9. /\ rows' \in [RowKeys -> {NoRow} \cup RowSet] /\ rows[k] # NoRow
        /\ \A j \in RowKeys : rows'[j] # NoRow => rows[j] # NoRow /\ rows'[j].by = rows[j].by
    BY <2>2, <2>3, <2>5 DEF RecordInv, NoRow, RowSet
  <2>10. due' \in DueSet
    <3>1. Dones(i) \subseteq Values /\ Totals(i) \subseteq Values
      BY InFlightTyped
    <3>2. d # Keep => {d} \subseteq Values
      OBVIOUS
    <3>3. t # Keep => {t} \subseteq Values
      OBVIOUS
    <3>4. PICK a, b : /\ a = (IF d = Keep THEN due[i].done ELSE {d} \cup Dones(i))
                      /\ b = (IF t = Keep THEN due[i].total ELSE {t} \cup Totals(i))
      OBVIOUS
    <3>5. a \in SUBSET Values /\ b \in SUBSET Values
      BY <3>1, <3>2, <3>3, <3>4 DEF RecordInv, DueSet
    <3>6. due' = [due EXCEPT ![i] = [done |-> a, total |-> b]]
      BY <2>5, <3>4
    <3>7. QED BY <3>5, <3>6 DEF RecordInv, DueSet
  <2>11. QED BY <2>4, <2>5, <2>8, <2>9, <2>10, EmitRecords
<1>3. ASSUME NEW r \in Requests, NEW i \in Ids, NEW type \in {"done", "failed", "cancelled"},
             ProcessFinish(r, i, type)
      PROVE  RecordInv' /\ (Current => Current')
  <2>1. PICK k, row, f :
            /\ k = <<Own, i>> /\ row = rows[k]
            /\ f = [type |-> type, key |-> k, done |-> row.done, total |-> row.total,
                    net |-> row.net, by |-> engine]
    OBVIOUS
  <2>2. k \in RowKeys /\ row \in RowSet /\ engine \in 1..MaxEngines
    BY <1>0, <1>3, <2>1 DEF ProcessFinish, MayStart, Live, RecordInv
  <2>3. f \in Frames /\ f.by = engine
    BY <2>1, <2>2 DEF Frames, RowSet, Types
  <2>4. /\ MayStart(r) /\ EmitFrame(r, f) /\ UNCHANGED <<serves, rows, due>>
        /\ acked' = [acked EXCEPT ![i] = Unknown]
    BY <1>3, <2>1 DEF ProcessFinish
  <2>5. QED BY <2>3, <2>4, EmitRecords DEF RecordInv
<1>4. ASSUME NEW r \in Requests, NEW k \in RowKeys, ProcessCancel(r, k)
      PROVE  RecordInv' /\ (Current => Current')
  <2>1. PICK f : f = [type |-> "cancel", key |-> k, done |-> 0, total |-> 0,
                      net |-> rows[k].net, by |-> engine]
    OBVIOUS
  <2>2. rows[k] \in RowSet /\ engine \in 1..MaxEngines
    BY <1>0, <1>4 DEF ProcessCancel, MayStart, Live, RecordInv
  <2>3. f \in Frames /\ f.by = engine
    BY <2>1, <2>2, ViewAssumption DEF Frames, RowSet, Types, Values
  <2>4. MayStart(r) /\ EmitFrame(r, f) /\ UNCHANGED <<serves, rows, acked, due>>
    BY <1>4, <2>1 DEF ProcessCancel
  <2>5. QED BY <2>3, <2>4, EmitRecords DEF RecordInv
<1>5. ASSUME NEW r \in Requests, NetworkPublish(r) PROVE RecordInv' /\ (Current => Current')
  <2>1. frame[r] \in Frames /\ frame[r] # NoFrame /\ r # Dispatch
    BY <1>0, <1>5, ViewAssumption DEF NetworkPublish, RecordInv
  <2>2. QED BY <1>0, <1>5, <2>1 DEF NetworkPublish, RecordInv, Current
<1>6. ASSUME NEW r \in Requests, NetworkFails(r) PROVE RecordInv' /\ (Current => Current')
  BY <1>0, <1>6 DEF NetworkFails, Idle, RecordInv, Current
<1>7. ASSUME NEW r \in Requests, NetworkApply(r) PROVE RecordInv' /\ (Current => Current')
  BY <1>0, <1>7, ApplyRecords DEF NetworkApply
<1>8. ASSUME NEW p \in Publishers, Tap(p) PROVE RecordInv' /\ (Current => Current')
  BY <1>8, ApplyRecords DEF Tap
<1>9. ASSUME NEW type \in OtherTypes, NEW d \in Values, NEW who \in {Own, Remote}, NEW i \in Ids,
             RemoteFrame(who, i, type, d)
      PROVE  RecordInv' /\ (Current => Current')
  <2>1. PICK k \in RowKeys : k = <<who, i>>
    BY <1>0
  <2>2. serving # "none" /\ OtherFrame(Dispatch, k, type, d, TRUE)
    BY <1>9, <2>1 DEF RemoteFrame
  <2>3. QED BY <2>2, OtherRecords
<1>10. ASSUME NEW type \in OtherTypes, NEW d \in Values, NEW i \in IndexIds, Report(i, type, d)
       PROVE  RecordInv' /\ (Current => Current')
  <2>1. PICK k \in RowKeys : k = <<Own, i>>
    BY <1>0
  <2>2. serving # "none" /\ OtherFrame(Indexer, k, type, d, FALSE)
    BY <1>10, <2>1 DEF Report
  <2>3. QED BY <2>2, OtherRecords
<1>11. ASSUME NEW p \in Publishers, Fanout(p) PROVE RecordInv' /\ (Current => Current')
  BY <1>11 DEF Fanout, RecordInv, Current
<1>12. ASSUME NEW s \in Subs, HubSubscribe(s) \/ Read(s) \/ HubUnsubscribe(s)
       PROVE  RecordInv' /\ (Current => Current')
  BY <1>12 DEF HubSubscribe, Read, HubUnsubscribe, RecordInv, Current
<1>13. ASSUME NEW k \in RowKeys, Expire(k) PROVE RecordInv' /\ (Current => Current')
  <2>1. PICK yes, row : yes = TRUE /\ row = [rows[k] EXCEPT !.stale = yes]
    OBVIOUS
  <2>2. rows[k] # NoRow /\ row \in RowSet /\ row.by = rows[k].by
    <3>1. rows[k] # NoRow /\ rows[k] \in RowSet /\ yes \in BOOLEAN
      BY <1>13, <2>1 DEF Expire, Live, RecordInv
    <3>2. QED BY <2>1, <3>1 DEF RowSet
  <2>3. rows' = [rows EXCEPT ![k] = row] /\ UNCHANGED <<serves, pc, frame, acked, due>>
    BY <1>13, <2>1 DEF Expire
  <2>4. QED BY <2>2, <2>3 DEF RecordInv, Current
<1>14. CASE List
  BY <1>14 DEF List, Swept, RecordInv, Current
<1>15. CASE Boot
  BY <1>15, ViewAssumption DEF Boot, RecordInv, Current
<1>16. CASE TeardownStart \/ TeardownDrained
  BY <1>0, <1>16 DEF TeardownStart, TeardownDrained, RecordInv, Current
<1>17. CASE TeardownReset
  <2>1. due' \in DueSet
    BY <1>17, InFlightTyped DEF TeardownReset, DueSet
  <2>2. QED BY <1>17, <2>1 DEF TeardownReset, RecordInv, Current, Publishers
<1>18. CASE TeardownTimeout
  <2>1. due' \in DueSet
    BY <1>18, InFlightTyped DEF TeardownTimeout, DueSet
  <2>2. QED BY <1>18, <2>1 DEF TeardownTimeout, RecordInv
<1>19. CASE UNCHANGED view
  BY <1>19 DEF view, RecordInv, Current
<1>20. QED BY <1>1, <1>2, <1>3, <1>4, <1>5, <1>6, <1>7, <1>8, <1>9, <1>10, <1>11, <1>12, <1>13,
              <1>14, <1>15, <1>16, <1>17, <1>18, <1>19 DEF ViewNext, TeardownTimeout

(* The view and the streams are honest while drains beat their deadline:    *)
(* no row of another account, no gap in a stream and no channel closed      *)
(* twice (processes.go, reset; events_hub.go, fanout and unsubscribe).      *)
THEOREM ViewIsHonest ==
    ASSUME DrainsTimely
    PROVE  ViewSpec => []ViewHonest
<1>1. ViewInit => HubInv /\ RecordInv /\ Current
  BY InitHubInv, InitRecordInv
<1>2. HubInv /\ RecordInv /\ Current /\ [ViewNext]_view => (HubInv /\ RecordInv /\ Current)'
  BY NextHubInv, NextRecords
<1>3. HubInv /\ RecordInv /\ Current => ViewHonest
  BY DEF HubInv, RecordInv, Current, ViewHonest, ViewTypeOK, NoForeignRows, DueSet
<1>4. QED BY <1>1, <1>2, <1>3, PTL DEF ViewSpec

-----------------------------------------------------------------------------
(* Progress, under any number of requests and devices: what an own row      *)
(* shows, and what every frame in flight would make it show, is due.        *)
DueInv ==
    /\ \A i \in Ids : \A f \in InFlight(i) : f.done \in due[i].done /\ f.total \in due[i].total
    /\ ProgressKept

(* A frame more: what is due grows with it, and the rows stay.              *)
LEMMA DueGrows ==
    ASSUME RecordInv, DueInv, NEW p \in Publishers, NEW f, frame' = [frame EXCEPT ![p] = f],
           \A i \in Ids : due[i].done \subseteq due'[i].done /\ due[i].total \subseteq due'[i].total,
           \A i \in Ids : f.type # "cancel" /\ f.key = <<Own, i>> =>
                             f.done \in due'[i].done /\ f.total \in due'[i].total,
           rows' = rows
    PROVE  DueInv'
<1>1. ASSUME NEW i \in Ids, NEW g \in InFlight(i)'
      PROVE  g.done \in due'[i].done /\ g.total \in due'[i].total
  <2>1. PICK q \in Publishers : /\ g = frame'[q] /\ frame'[q].type # "cancel"
                                /\ frame'[q].key = <<Own, i>> /\ frame'[q] # NoFrame
    BY <1>1 DEF InFlight
  <2>2. CASE q = p
    <3>1. g = f
      BY <2>1, <2>2 DEF RecordInv
    <3>2. QED BY <2>1, <3>1
  <2>3. CASE q # p
    <3>1. g = frame[q]
      BY <2>1, <2>3 DEF RecordInv
    <3>2. g \in InFlight(i)
      BY <2>1, <3>1 DEF InFlight
    <3>3. g.done \in due[i].done /\ g.total \in due[i].total
      BY <3>2 DEF DueInv
    <3>4. QED BY <3>3
  <2>4. QED BY <2>2, <2>3
<1>2. ASSUME NEW i \in Ids, Live(<<Own, i>>)'
      PROVE  rows'[<<Own, i>>].done \in due'[i].done /\ rows'[<<Own, i>>].total \in due'[i].total
  <2>1. rows[<<Own, i>>].done \in due[i].done /\ rows[<<Own, i>>].total \in due[i].total
    BY <1>2 DEF DueInv, ProgressKept, Live
  <2>2. QED BY <2>1
<1>3. QED BY <1>1, <1>2 DEF DueInv, ProgressKept

LEMMA DueWithGrows ==
    ASSUME NEW k, NEW d, NEW t, NEW i \in Ids
    PROVE  /\ due[i].done \subseteq DueWith(k, d, t)[i].done
           /\ due[i].total \subseteq DueWith(k, d, t)[i].total
           /\ k = <<Own, i>> => d \in DueWith(k, d, t)[i].done /\ t \in DueWith(k, d, t)[i].total
<1>1. CASE k = <<Own, i>>
  <2>1. DueWith(k, d, t)[i] = [done |-> due[i].done \cup {d}, total |-> due[i].total \cup {t}]
    BY <1>1 DEF DueWith
  <2>2. QED BY <2>1
<1>2. CASE k # <<Own, i>>
  <2>1. DueWith(k, d, t)[i] = due[i]
    BY <1>2 DEF DueWith
  <2>2. QED BY <1>2, <2>1
<1>3. QED BY <1>1, <1>2

(* No frame more: a row shows what it did, or what a frame carried.         *)
LEMMA DueStays ==
    ASSUME RecordInv, DueInv, due' = due,
           \A p \in Publishers : frame'[p] = NoFrame \/ frame'[p] = frame[p],
           \A i \in Ids : Live(<<Own, i>>)' =>
                \/ /\ Live(<<Own, i>>) /\ rows'[<<Own, i>>].done = rows[<<Own, i>>].done
                   /\ rows'[<<Own, i>>].total = rows[<<Own, i>>].total
                \/ \E f \in InFlight(i) : /\ rows'[<<Own, i>>].done = f.done
                                           /\ rows'[<<Own, i>>].total = f.total
    PROVE  DueInv'
<1>1. \A i \in Ids : InFlight(i)' \subseteq InFlight(i)
  BY DEF InFlight
<1>2. QED BY <1>1 DEF DueInv, ProgressKept

(* A publisher applies its frame and is done.                               *)
LEMMA DueApplied ==
    ASSUME RecordInv, DueInv, NEW p \in Publishers, pc[p] # "idle", rows' = Applied(frame[p]),
           Idle(p), due' = due
    PROVE  DueInv'
<1>1. frame[p] \in Frames /\ frame[p] # NoFrame
  BY DEF RecordInv
<1>2. \A q \in Publishers : frame'[q] = NoFrame \/ frame'[q] = frame[q]
  BY DEF Idle, RecordInv
<1>3. ASSUME NEW i \in Ids, Live(<<Own, i>>)'
      PROVE  \/ /\ Live(<<Own, i>>) /\ rows'[<<Own, i>>].done = rows[<<Own, i>>].done
                /\ rows'[<<Own, i>>].total = rows[<<Own, i>>].total
             \/ \E f \in InFlight(i) : /\ rows'[<<Own, i>>].done = f.done
                                        /\ rows'[<<Own, i>>].total = f.total
  <2>1. <<Own, i>> \in RowKeys
    BY DEF RowKeys
  <2>2. \/ rows'[<<Own, i>>] = rows[<<Own, i>>]
        \/ /\ <<Own, i>> = frame[p].key /\ frame[p].type # "cancel"
           /\ rows'[<<Own, i>>].done = frame[p].done /\ rows'[<<Own, i>>].total = frame[p].total
    BY <1>1, <1>3, <2>1, AppliedRows DEF Live
  <2>3. <<Own, i>> = frame[p].key /\ frame[p].type # "cancel" => frame[p] \in InFlight(i)
    BY <1>1 DEF InFlight
  <2>4. QED BY <1>3, <2>2, <2>3 DEF Live
<1>4. QED BY <1>2, <1>3, DueStays

(* A progress call: what is due of a field it sets starts over.             *)
LEMMA DueProgress ==
    ASSUME RecordInv, DueInv, NEW r \in Requests, NEW i \in Ids, NEW d \in Values \cup {Keep},
           NEW t \in Values \cup {Keep}, ProcessProgress(r, i, d, t)
    PROVE  DueInv'
<1>1. PICK k, row, f :
          /\ k = <<Own, i>> /\ row = MergedOwn(rows[k], d, t)
          /\ f = [type |-> "progress", key |-> k, done |-> row.done, total |-> row.total,
                  net |-> row.net, by |-> engine]
  OBVIOUS
<1>2. k \in RowKeys /\ rows[k] \in RowSet /\ Live(k) /\ r \in Publishers
  BY <1>1 DEF ProcessProgress, Live, RecordInv, RowKeys, Publishers
<1>3. /\ row \in RowSet
      /\ row.done = Fold(d, rows[k].done) /\ row.total = Fold(t, rows[k].total)
  BY <1>1, <1>2 DEF MergedOwn, Fold, RowSet, Keep
<1>4. PICK a, b : /\ a = (IF d = Keep THEN due[i].done ELSE {d} \cup Dones(i))
                  /\ b = (IF t = Keep THEN due[i].total ELSE {t} \cup Totals(i))
  OBVIOUS
<1>5. /\ frame' = [frame EXCEPT ![r] = f] /\ rows' = [rows EXCEPT ![k] = row]
      /\ due' = [due EXCEPT ![i] = [done |-> a, total |-> b]]
  BY <1>1, <1>4 DEF ProcessProgress, EmitFrame
<1>6. row.done \in a /\ row.total \in b
  <2>1. rows[k].done \in due[i].done /\ rows[k].total \in due[i].total
    BY <1>1, <1>2 DEF DueInv, ProgressKept
  <2>2. QED BY <1>3, <1>4, <2>1 DEF Fold
<1>7. \A g \in InFlight(i) : g.done \in a /\ g.total \in b
  BY <1>4 DEF DueInv, Dones, Totals
<1>8. /\ due'[i].done = a /\ due'[i].total = b
      /\ \A j \in Ids \ {i} : due'[j] = due[j]
  BY <1>5 DEF RecordInv, DueSet
<1>9. f.key = k /\ f.done = row.done /\ f.total = row.total
  BY <1>1
<1>10. ASSUME NEW j \in Ids, NEW g \in InFlight(j)'
       PROVE  g.done \in due'[j].done /\ g.total \in due'[j].total
  <2>1. PICK q \in Publishers : /\ g = frame'[q] /\ frame'[q].type # "cancel"
                                /\ frame'[q].key = <<Own, j>> /\ frame'[q] # NoFrame
    BY <1>10 DEF InFlight
  <2>2. CASE q = r
    <3>1. g = f /\ j = i
      BY <1>1, <1>5, <1>9, <2>1, <2>2 DEF RecordInv
    <3>2. QED BY <1>6, <1>8, <1>9, <3>1
  <2>3. CASE q # r
    <3>1. g \in InFlight(j)
      BY <1>5, <2>1, <2>3 DEF RecordInv, InFlight
    <3>2. QED BY <1>7, <1>8, <3>1 DEF DueInv
  <2>4. QED BY <2>2, <2>3
<1>11. ASSUME NEW j \in Ids, Live(<<Own, j>>)'
       PROVE  rows'[<<Own, j>>].done \in due'[j].done /\ rows'[<<Own, j>>].total \in due'[j].total
  <2>1. <<Own, j>> \in RowKeys
    BY DEF RowKeys
  <2>2. CASE j = i
    <3>1. rows'[<<Own, j>>] = row
      BY <1>1, <1>2, <1>5, <2>2 DEF RecordInv
    <3>2. QED BY <1>6, <1>8, <2>2, <3>1
  <2>3. CASE j # i
    <3>1. rows'[<<Own, j>>] = rows[<<Own, j>>] /\ due'[j] = due[j]
      BY <1>1, <1>5, <1>8, <2>1, <2>3 DEF RecordInv
    <3>2. QED BY <1>11, <3>1 DEF DueInv, ProgressKept, Live
  <2>4. QED BY <2>2, <2>3
<1>12. QED BY <1>10, <1>11 DEF DueInv, ProgressKept

LEMMA NextDue ==
    ASSUME RecordInv, DueInv, [ViewNext]_view
    PROVE  DueInv'
<1> USE DEF history
<1>0. /\ Requests \subseteq Publishers /\ \A i \in Ids : <<Own, i>> \in RowKeys
      /\ Indexer \in Publishers /\ Dispatch \in Publishers
  BY DEF Publishers, RowKeys
<1>1. ASSUME NEW r \in Requests, NEW i \in Ids, NEW net \in BOOLEAN, ProcessRegister(r, i, net)
      PROVE  DueInv'
  <2>1. PICK k, f : /\ k = <<Own, i>>
                    /\ f = [type |-> "started", key |-> k, done |-> 0, total |-> 0,
                            net |-> net, by |-> engine]
    OBVIOUS
  <2>2. frame' = [frame EXCEPT ![r] = f] /\ due' = DueWith(k, 0, 0) /\ rows' = rows
    BY <1>1, <2>1 DEF ProcessRegister, EmitFrame
  <2>3. f.key = k /\ f.done = 0 /\ f.total = 0
    BY <2>1
  <2>4. QED BY <1>0, <2>2, <2>3, DueWithGrows, DueGrows
<1>2. ASSUME NEW r \in Requests, NEW i \in Ids, NEW d \in Values \cup {Keep},
             NEW t \in Values \cup {Keep}, ProcessProgress(r, i, d, t)
      PROVE  DueInv'
  BY <1>2, DueProgress
<1>3. ASSUME NEW r \in Requests, NEW i \in Ids, NEW type \in {"done", "failed", "cancelled"},
             ProcessFinish(r, i, type)
      PROVE  DueInv'
  <2>1. PICK k, f : /\ k = <<Own, i>>
                    /\ f = [type |-> type, key |-> k, done |-> rows[k].done,
                            total |-> rows[k].total, net |-> rows[k].net, by |-> engine]
    OBVIOUS
  <2>2. frame' = [frame EXCEPT ![r] = f] /\ due' = due /\ rows' = rows /\ Live(k)
    BY <1>3, <2>1 DEF ProcessFinish, EmitFrame
  <2>3. f.key = k /\ f.done = rows[k].done /\ f.total = rows[k].total
    BY <2>1
  <2>4. rows[k].done \in due[i].done /\ rows[k].total \in due[i].total
    BY <2>1, <2>2 DEF DueInv, ProgressKept
  <2>5. \A j \in Ids : f.key = <<Own, j>> => j = i
    BY <2>1, <2>3
  <2>6. QED BY <1>0, <2>2, <2>3, <2>4, <2>5, DueGrows
<1>4. ASSUME NEW r \in Requests, NEW k \in RowKeys, ProcessCancel(r, k) PROVE DueInv'
  <2>1. PICK f : f = [type |-> "cancel", key |-> k, done |-> 0, total |-> 0,
                      net |-> rows[k].net, by |-> engine]
    OBVIOUS
  <2>2. frame' = [frame EXCEPT ![r] = f] /\ due' = due /\ rows' = rows
    BY <1>4, <2>1 DEF ProcessCancel, EmitFrame
  <2>3. f.type = "cancel"
    BY <2>1
  <2>4. QED BY <1>0, <2>2, <2>3, DueGrows
<1>5. ASSUME NEW r \in Requests, NetworkPublish(r) PROVE DueInv'
  <2>1. /\ frame' = [frame EXCEPT ![Dispatch] = frame[r]] \/ frame' = frame
        /\ due' = due /\ rows' = rows
    BY <1>5 DEF NetworkPublish
  <2>2. CASE frame' = frame
    BY <2>1, <2>2, DueStays DEF Live
  <2>3. CASE frame' = [frame EXCEPT ![Dispatch] = frame[r]]
    <3>1. frame[r] # NoFrame
      BY <1>0, <1>5 DEF NetworkPublish, RecordInv
    <3>2. \A i \in Ids : frame[r].type # "cancel" /\ frame[r].key = <<Own, i>> =>
              frame[r].done \in due[i].done /\ frame[r].total \in due[i].total
      BY <1>0, <3>1 DEF DueInv, InFlight
    <3>3. QED BY <1>0, <2>1, <2>3, <3>2, DueGrows
  <2>4. QED BY <2>1, <2>2, <2>3
<1>6. ASSUME NEW r \in Requests, NetworkFails(r) PROVE DueInv'
  <2>1. /\ \A p \in Publishers : frame'[p] = NoFrame \/ frame'[p] = frame[p]
        /\ due' = due /\ rows' = rows
    BY <1>0, <1>6 DEF NetworkFails, Idle, RecordInv
  <2>2. QED BY <2>1, DueStays DEF Live
<1>7. ASSUME NEW r \in Requests, NetworkApply(r) PROVE DueInv'
  BY <1>0, <1>7, DueApplied DEF NetworkApply
<1>8. ASSUME NEW p \in Publishers, Tap(p) PROVE DueInv'
  BY <1>8, DueApplied DEF Tap
<1>9. ASSUME NEW p \in {Indexer, Dispatch}, NEW k, NEW type, NEW d \in Values, NEW net,
             OtherFrame(p, k, type, d, net)
      PROVE  DueInv'
  <2>1. PICK f : f = [type |-> type, key |-> k, done |-> d, total |-> 0, net |-> net, by |-> engine]
    OBVIOUS
  <2>2. frame' = [frame EXCEPT ![p] = f] /\ due' = DueWith(k, d, 0) /\ rows' = rows
    BY <1>9, <2>1 DEF OtherFrame
  <2>3. f.key = k /\ f.done = d /\ f.total = 0
    BY <2>1
  <2>4. QED BY <1>0, <2>2, <2>3, DueWithGrows, DueGrows
<1>10. ASSUME NEW type \in OtherTypes, NEW d \in Values, NEW who, NEW i,
              RemoteFrame(who, i, type, d) \/ Report(i, type, d)
       PROVE  DueInv'
  BY <1>9, <1>10 DEF RemoteFrame, Report
<1>11. ASSUME \/ \E p \in Publishers : Fanout(p)
              \/ \E s \in Subs : HubSubscribe(s) \/ Read(s) \/ HubUnsubscribe(s)
              \/ Boot \/ TeardownStart \/ TeardownDrained \/ UNCHANGED view
       PROVE  DueInv'
  <2>1. UNCHANGED <<frame, due, rows>>
    BY <1>11 DEF Fanout, HubSubscribe, Read, HubUnsubscribe, Boot, TeardownStart,
                 TeardownDrained, view
  <2>2. QED BY <2>1, DueStays DEF Live
<1>12. ASSUME NEW k \in RowKeys, Expire(k) PROVE DueInv'
  <2>1. PICK yes : yes = TRUE
    OBVIOUS
  <2>2. /\ rows' = [rows EXCEPT ![k].stale = yes] /\ UNCHANGED <<frame, due>>
    BY <1>12, <2>1 DEF Expire
  <2>3. \A j \in RowKeys : Live(j)' => rows'[j] = rows[j]
    BY <1>12, <2>1, <2>2 DEF Live, Expire, RecordInv, RowSet
  <2>4. QED BY <1>0, <2>2, <2>3, DueStays DEF Live
<1>13. CASE List
  <2>1. \A j \in RowKeys : Live(j)' => rows'[j] = rows[j]
    BY <1>13 DEF List, Swept, Live
  <2>2. UNCHANGED <<frame, due>>
    BY <1>13 DEF List
  <2>3. QED BY <1>0, <2>1, <2>2, DueStays DEF Live
<1>14. CASE TeardownReset \/ TeardownTimeout
  <2>1. /\ frame' = frame /\ \A k \in RowKeys : rows'[k] = NoRow
        /\ due' = [i \in Ids |-> [done |-> Dones(i), total |-> Totals(i)]]
    BY <1>14 DEF TeardownReset, TeardownTimeout
  <2>2. ASSUME NEW i \in Ids, NEW f \in InFlight(i)'
        PROVE  f.done \in due'[i].done /\ f.total \in due'[i].total
    <3>1. f \in InFlight(i)
      BY <2>1, <2>2 DEF InFlight
    <3>2. due'[i].done = Dones(i) /\ due'[i].total = Totals(i)
      BY <2>1
    <3>3. QED BY <3>1, <3>2 DEF Dones, Totals
  <2>3. ProgressKept'
    BY <1>0, <2>1 DEF ProgressKept, Live
  <2>4. QED BY <2>2, <2>3 DEF DueInv
<1>15. QED BY <1>1, <1>2, <1>3, <1>4, <1>5, <1>6, <1>7, <1>8, <1>10, <1>11, <1>12, <1>13, <1>14
           DEF ViewNext

(* However many requests, devices and reports publish progress of one row   *)
(* beside each other: a field never goes back to what it was before the     *)
(* last progress call that set it, except to what a frame then in flight,   *)
(* or a later one, carries (processes.go, mergeOwn; handlers_processes.go,  *)
(* processProgress).                                                        *)
THEOREM ProgressIsKept == ViewSpec => []ProgressKept
<1>1. ViewInit => RecordInv /\ DueInv
  <2>1. ViewInit => DueInv
    BY DEF ViewInit, DueInv, ProgressKept, InFlight, Live, RowKeys
  <2>2. QED BY <2>1, InitRecordInv
<1>2. RecordInv /\ DueInv /\ [ViewNext]_view => (RecordInv /\ DueInv)'
  BY NextRecords, NextDue
<1>3. DueInv => ProgressKept
  BY DEF DueInv
<1>4. QED BY <1>1, <1>2, <1>3, PTL DEF ViewSpec
=============================================================================
