----------------------------- MODULE EventTopics -----------------------------
(***************************************************************************)
(* The mapping of bus events and subscription filters to pub/sub topics    *)
(* and patterns (events_topics.go, events_hub.go): a dotted type becomes   *)
(* segments, the target always one more, self-owned types live under       *)
(* acc/ with the account as the tail.  Topics are sequences of segments.   *)
(*                                                                         *)
(* A state is an input: the filters of the live subscribers.               *)
(***************************************************************************)
EXTENDS Naturals, Sequences, FiniteSets, SequencesExt

CONSTANTS
    Segments,    \* type segments
    Targets,     \* event targets
    SelfOwned,   \* selfOwnedEventTypes, a set of types
    MaxEntries   \* bound: type entries in one filter

VARIABLE filters  \* the filters of the live subscribers

NoTarget == "-"
Me == "me"
Types == {<<x>> : x \in Segments} \cup {<<x, y>> : x, y \in Segments}
Entries == [kind : {"exact", "prefix"}, type : Types]
Events == [type : Types, target : Targets \cup {""}]
Filters == [types : {s \in SUBSET Entries : Cardinality(s) <= MaxEntries},
            targets : SUBSET Targets]

-----------------------------------------------------------------------------
(* typeFilterMatches: "a.b.*" accepts a.b and its subtree.                  *)
TypeFilterMatches(entry, typ) ==
    IF entry.kind = "prefix" THEN IsPrefix(entry.type, typ) ELSE entry.type = typ

(* eventFilter.matches, on the dimensions patterns are derived from.        *)
Matches(f, ev) ==
    /\ f.targets = {} \/ ev.target \in f.targets
    /\ f.types = {} \/ \E t \in f.types : TypeFilterMatches(t, ev.type)

(* eventTopic.                                                              *)
EventTopic(typ, target) ==
    LET seg == IF target = "" THEN NoTarget ELSE target
    IN IF typ \in SelfOwned THEN <<"acc", "ev">> \o typ \o <<seg, Me>>
       ELSE <<"ev">> \o typ \o <<seg>>

(* The patterns of one type entry.                                          *)
EntryPatterns(t, targets) ==
    IF t.kind = "prefix"
    THEN {<<"ev">> \o t.type \o <<">">>} \cup
         {<<"acc", "ev">> \o t.type \o <<">">> :
            so \in {s \in SelfOwned : TypeFilterMatches(t, s)}}
    ELSE IF t.type \in SelfOwned
    THEN {<<"acc", "ev">> \o t.type \o <<">">>}
    ELSE IF targets = {}
    THEN {<<"ev">> \o t.type \o <<"*">>}
    ELSE {<<"ev">> \o t.type \o <<x>> : x \in targets}

(* filterPatterns.                                                          *)
FilterPatterns(f) ==
    IF f.types = {}
    THEN {<<"ev", ">">>, <<"acc", "ev", ">">>}
    ELSE UNION {EntryPatterns(t, f.targets) : t \in f.types}

(* patternSubsumes: the segments are compared in order; > accepts whatever  *)
(* is left, provided something is, and * one segment but not a >.           *)
PatternSubsumes(a, b) ==
    \/ a = b
    \/ IF Last(a) = ">"
       THEN /\ Len(a) <= Len(b)
            /\ \A i \in 1..(Len(a) - 1) :
                IF a[i] = "*" THEN b[i] # ">" ELSE b[i] = a[i]
       ELSE /\ Len(a) = Len(b)
            /\ \A i \in 1..Len(a) :
                IF a[i] = "*" THEN b[i] # ">" ELSE b[i] = a[i]

(* Mutant of MaximalPatterns: nothing is dropped.                           *)
AllPatterns(set) == set

(* maximalPatterns.                                                         *)
MaximalPatterns(set) ==
    {p \in set : ~ \E q \in set : q # p /\ PatternSubsumes(q, p)}

(* deliver: a self-owned type is only trusted from its own namespace.       *)
Deliverable(topic, typ) == typ \in SelfOwned => topic[1] = "acc"

(* The SDK's pub/sub: a pattern's * stands for one segment, a final > for   *)
(* one or more.                                                             *)
Accepts(p, topic) ==
    /\ IF Last(p) = ">" THEN Len(topic) >= Len(p) ELSE Len(topic) = Len(p)
    /\ \A i \in 1..Len(p) : p[i] \in {"*", ">"} \/ p[i] = topic[i]

-----------------------------------------------------------------------------
Init == \E f, g \in Filters : filters = {f, g}
Next == UNCHANGED filters
Spec == Init /\ [][Next]_filters

(* What the bridge subscribes for the live filters of a scope.              *)
Cover == MaximalPatterns(UNION {FilterPatterns(f) : f \in filters})

(* An event some live filter accepts reaches the hub exactly once: one      *)
(* subscription matches its topic, not none and not two, and delivery does  *)
(* not drop it.                                                             *)
DeliveredOnce ==
    \A ev \in Events : (\E f \in filters : Matches(f, ev)) =>
        LET topic == EventTopic(ev.type, ev.target)
        IN /\ Cardinality({p \in Cover : Accepts(p, topic)}) = 1
           /\ Deliverable(topic, ev.type)
=============================================================================
