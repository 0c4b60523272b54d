--------------------------------- MODULE Uri ---------------------------------
(***************************************************************************)
(* any:// references (anyuri): parsing, rendering, the canonical form that *)
(* keys the link index, the strict forms of property values, and the       *)
(* scanner that finds references in text.                                  *)
(*                                                                         *)
(* A reference's text is its path segments, a parameter and a fragment.  A *)
(* segment is the sequence of its parts between periods: a kind slug and   *)
(* an id are one part, a space's id two, and a last segment may have been  *)
(* glued to the next sentence of the text.  The empty sequence is the      *)
(* empty string of a field that is not set.                                *)
(***************************************************************************)
EXTENDS Sequences, Naturals

CONSTANTS
    Ids,      \* object, record, property, identity and file ids, one part each
    SpaceIds  \* ids of spaces, two parts each

VARIABLES text, here  \* a reference as written; the space it is written in

vars == <<text, here>>

Absent == <<>>
Slugs == {<<"o">>, <<"u">>, <<"m">>, <<"s">>, <<"p">>, <<"f">>, <<"i">>}
Params == {"none", "variant", "other"}
Glued(seg) == Append(seg, "w")

Segments == Slugs \cup Ids \cup SpaceIds
Paths ==
    UNION {[1..n -> Segments] : n \in 1..3}
    \cup {<<k, s, i, d>> : k \in Slugs, s \in SpaceIds, i \in Ids, d \in Ids}
    \cup {<<k, s, i, d, r>> : k \in Slugs, s \in SpaceIds, i \in Ids, d \in Ids, r \in Ids}

Texts == [segs : Paths, param : Params, frag : BOOLEAN]

Init == text \in Texts /\ here \in SpaceIds
Next == UNCHANGED vars
Spec == Init /\ [][Next]_vars

-----------------------------------------------------------------------------
URI == [kind |-> Absent, spaceId |-> Absent, objectId |-> Absent, dataset |-> Absent,
        recordId |-> Absent, propId |-> Absent, identity |-> Absent, fileId |-> Absent,
        variant |-> FALSE, frag |-> FALSE, legacy |-> FALSE]

(* ErrInvalid and ErrKindUnknown.                                           *)
Invalid == [URI EXCEPT !.kind = <<"invalid">>]
UnknownKind == [URI EXCEPT !.kind = <<"unknown">>]
Fails(u) == u.kind \in {<<"invalid">>, <<"unknown">>}

isKindSlug(seg) == seg \in Slugs

(* The path of a kind after its slug, by how many segments it has.          *)
Typed(u, k, a) ==
    CASE k = <<"o">> /\ Len(a) = 2 -> [u EXCEPT !.spaceId = a[1], !.objectId = a[2]]
      [] k = <<"o">> /\ Len(a) = 4 -> [u EXCEPT !.spaceId = a[1], !.objectId = a[2],
                                            !.dataset = a[3], !.recordId = a[4]]
      [] k = <<"u">> /\ Len(a) = 1 -> [u EXCEPT !.identity = a[1]]
      [] k = <<"m">> /\ Len(a) = 2 -> [u EXCEPT !.spaceId = a[1], !.identity = a[2], !.legacy = TRUE]
      [] k = <<"s">> /\ Len(a) = 1 -> [u EXCEPT !.spaceId = a[1]]
      [] k = <<"p">> /\ Len(a) = 3 -> [u EXCEPT !.spaceId = a[1], !.objectId = a[2], !.propId = a[3]]
      [] k = <<"f">> /\ Len(a) = 2 -> [u EXCEPT !.spaceId = a[1], !.fileId = a[2]]
      [] OTHER -> Invalid

(* Parse: a first segment that is no slug is an id of the two bare forms.   *)
Parse(t) ==
    LET s == t.segs
        u == [URI EXCEPT !.frag = t.frag]
        full == Typed([u EXCEPT !.kind = s[1]], s[1], Tail(s))
    IN CASE isKindSlug(s[1]) /\ s[1] = <<"i">> -> UnknownKind
         [] isKindSlug(s[1]) /\ s[1] # <<"i">> ->
                IF s[1] = <<"f">> /\ ~Fails(full)
                THEN [full EXCEPT !.variant = (t.param = "variant")] ELSE full
         [] ~isKindSlug(s[1]) /\ Len(s) = 1 ->
                [u EXCEPT !.kind = <<"o">>, !.legacy = TRUE, !.objectId = s[1]]
         [] ~isKindSlug(s[1]) /\ Len(s) = 2 ->
                [u EXCEPT !.kind = <<"o">>, !.legacy = TRUE, !.spaceId = s[1], !.objectId = s[2]]
         [] OTHER -> Invalid

Written(u, segs) ==
    [segs |-> segs, param |-> IF u.variant THEN "variant" ELSE "none", frag |-> u.frag]

(* String.                                                                  *)
String(u) ==
    Written(u,
        IF u.kind = <<"o">> /\ u.legacy
        THEN IF u.spaceId = Absent THEN <<u.objectId>> ELSE <<u.spaceId, u.objectId>>
        ELSE CASE u.kind = <<"u">> -> <<<<"u">>, u.identity>>
               [] u.kind = <<"m">> -> <<<<"m">>, u.spaceId, u.identity>>
               [] u.kind = <<"s">> -> <<<<"s">>, u.spaceId>>
               [] u.kind = <<"p">> -> <<<<"p">>, u.spaceId, u.objectId, u.propId>>
               [] u.kind = <<"f">> -> <<<<"f">>, u.spaceId, u.fileId>>
               [] u.kind = <<"o">> /\ u.dataset = Absent -> <<<<"o">>, u.spaceId, u.objectId>>
               [] OTHER -> <<<<"o">>, u.spaceId, u.objectId, u.dataset, u.recordId>>)

IsPropertyValueRef(t) ==
    LET u == Parse(t)
    IN /\ u.kind = <<"o">> /\ u.legacy /\ u.spaceId = Absent /\ ~u.frag
       /\ String(u) = t

IsIdentityValueRef(t) ==
    LET u == Parse(t)
    IN u.kind = <<"u">> /\ ~u.frag /\ Len(u.identity) = 1 /\ String(u) = t

(* Mutant of Canonical: an identity keeps the space it was written in.      *)
CanonicalSpaced(u, space) ==
    LET sp == IF u.spaceId = Absent THEN space ELSE u.spaceId
        c == [URI EXCEPT !.kind = u.kind, !.spaceId = sp]
    IN CASE u.kind \in {<<"u">>, <<"m">>} -> [c EXCEPT !.identity = u.identity]
         [] u.kind = <<"o">> -> [c EXCEPT !.objectId = u.objectId, !.dataset = u.dataset,
                                      !.recordId = u.recordId]
         [] u.kind = <<"p">> -> [c EXCEPT !.objectId = u.objectId, !.propId = u.propId]
         [] u.kind = <<"f">> -> [c EXCEPT !.fileId = u.fileId]
         [] OTHER -> Invalid

(* The key form: global, typed, without parameter and fragment; a space is  *)
(* no target.                                                               *)
Canonical(u, space) ==
    LET sp == IF u.spaceId = Absent THEN space ELSE u.spaceId
        c == [URI EXCEPT !.kind = u.kind, !.spaceId = sp]
    IN CASE u.kind \in {<<"u">>, <<"m">>} -> [URI EXCEPT !.kind = <<"u">>, !.identity = u.identity]
         [] u.kind = <<"o">> -> [c EXCEPT !.objectId = u.objectId, !.dataset = u.dataset,
                                      !.recordId = u.recordId]
         [] u.kind = <<"p">> -> [c EXCEPT !.objectId = u.objectId, !.propId = u.propId]
         [] u.kind = <<"f">> -> [c EXCEPT !.fileId = u.fileId]
         [] OTHER -> Invalid

(* ObjectKey, or none.                                                      *)
ObjectKey(u) ==
    IF u.kind \in {<<"o">>, <<"p">>}
    THEN [URI EXCEPT !.kind = <<"o">>, !.spaceId = u.spaceId, !.objectId = u.objectId]
    ELSE Invalid

IsPart(u) == u.kind = <<"p">> \/ (u.kind = <<"o">> /\ u.recordId # Absent)

-----------------------------------------------------------------------------
(* The scanner, on the token of one reference.                              *)

Cut(seg) == IF seg = Absent THEN seg ELSE <<seg[1]>>

(* Mutant of shedGluedPeriod: the object id is cut, whatever the path.      *)
shedGluedPeriodObject(u) ==
    CASE u.kind = <<"o">> -> [u EXCEPT !.objectId = Cut(@)]
      [] u.kind \in {<<"u">>, <<"m">>} -> [u EXCEPT !.identity = Cut(@)]
      [] u.kind = <<"p">> -> [u EXCEPT !.propId = Cut(@)]
      [] u.kind = <<"f">> -> [u EXCEPT !.fileId = Cut(@)]
      [] OTHER -> u

(* The last id is cut at its first period; a space reference keeps its own. *)
shedGluedPeriod(u) ==
    CASE u.kind = <<"o">> /\ u.recordId # Absent -> [u EXCEPT !.recordId = Cut(@)]
      [] u.kind = <<"o">> /\ u.recordId = Absent -> [u EXCEPT !.objectId = Cut(@)]
      [] u.kind \in {<<"u">>, <<"m">>} -> [u EXCEPT !.identity = Cut(@)]
      [] u.kind = <<"p">> -> [u EXCEPT !.propId = Cut(@)]
      [] u.kind = <<"f">> -> [u EXCEPT !.fileId = Cut(@)]
      [] OTHER -> u

ExtractLinks(t) == IF Fails(Parse(t)) THEN Invalid ELSE shedGluedPeriod(Parse(t))

-----------------------------------------------------------------------------
Key(t, space) == Canonical(Parse(t), space)
Target(t) == ~Fails(Parse(t)) /\ ~Fails(Key(t, here))
Bare(segs) == [segs |-> segs, param |-> "none", frag |-> FALSE]
Ends(t) == t.segs[Len(t.segs)]
GluedText(t) == [t EXCEPT !.segs[Len(t.segs)] = Glued(@)]

(* The key of a reference is one reference itself: it reads back as it is   *)
(* and is its own key in every space, whatever was dropped on the way; the  *)
(* object it belongs to is named by a whole-object key of the same space.   *)
(* So the key a backlinks reader asks for is the key the edges carry        *)
(* (anyuri/links.go, Canonical; docs/13-index.md, "Canonical targets").     *)
KeysStable ==
    Target(text) =>
        LET c == Key(text, here)
        IN /\ Parse(String(c)) = c
           /\ \A other \in SpaceIds : Canonical(c, other) = c
           /\ Key([text EXCEPT !.param = "none", !.frag = FALSE], here) = c
           /\ ~Fails(ObjectKey(c)) =>
                 ~IsPart(ObjectKey(c)) /\ Canonical(ObjectKey(c), here) = ObjectKey(c)

(* The forms of one thing have one key: the bare, the global and the typed  *)
(* form of an object, and the two forms of an identity in any two spaces;   *)
(* and different things keep different ones.                                *)
FormsAgree ==
    LET s == text.segs
    IN /\ Len(s) = 1 /\ s[1] \in Ids =>
            /\ Key(text, here) = Key(Bare(<<here, s[1]>>), here)
            /\ Key(text, here) = Key(Bare(<<<<"o">>, here, s[1]>>), here)
            /\ \A i \in Ids \ {s[1]}, sp \in SpaceIds :
                 Key(Bare(<<sp, i>>), here) # Key(text, here)
       /\ Len(s) = 3 /\ s[1] = <<"m">> =>
            \A sp \in SpaceIds : Key(text, here) = Key(Bare(<<<<"u">>, s[3]>>), sp)

(* A reference the next sentence is glued to is still found, as the same    *)
(* target.                                                                  *)
GlueShed ==
    Target(text) /\ Ends(text) \in Ids =>
        Canonical(ExtractLinks(GluedText(text)), here) = Key(text, here)

(* The value forms are exactly one bare id, and an identity: nothing that   *)
(* carries a parameter, a fragment or a glued word is one of them.          *)
StrictForms ==
    /\ IsPropertyValueRef(text) <=>
         Len(text.segs) = 1 /\ ~isKindSlug(text.segs[1]) /\ text.param = "none" /\ ~text.frag
    /\ IsIdentityValueRef(text) <=>
         /\ Len(text.segs) = 2 /\ text.segs[1] = <<"u">> /\ Len(text.segs[2]) = 1
         /\ text.param = "none" /\ ~text.frag

(* References keep their meaning from text to key.                          *)
ReferencesKeep == KeysStable /\ FormsAgree /\ GlueShed /\ StrictForms
=============================================================================
