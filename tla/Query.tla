------------------------------- MODULE Query -------------------------------
(***************************************************************************)
(* A live query over one record: the stream that opens with a snapshot and *)
(* goes on with changes, and the shaper that renders records and change    *)
(* operations through the caller's projection and the server's own list of *)
(* withheld fields.                                                        *)
(*                                                                         *)
(* A record is a tree: <<"leaf", v>> or <<"obj", f>>, where f maps some of *)
(* the keys below a path to trees; Gone is the absence of a value.  A      *)
(* projection gives every path a mark: 1 include, -1 exclude, 0 none.      *)
(* Arrays, which the code descends element by element, are left out.       *)
(***************************************************************************)
EXTENDS Integers, Sequences, SequencesExt, FiniteSets

CONSTANTS Fields,    \* the paths of a record's fields
          Leaves,    \* the values of a leaf
          Withheld,  \* top-level keys the server may withhold
          Vers,      \* version maps, for the narrowing of versions
          Gone       \* no value

VARIABLES proj,    \* the projection of the request
          strip,   \* the keys the server withholds on this route
          doc,     \* the stored record
          stream,  \* "opening" | "committed" | "live" | "ended" | "refused"
          held,    \* the record as the client rebuilt it from the frames
          shown    \* the record the last frame carried

vars == <<proj, strip, doc, stream, held, shown>>

(* The keys that may follow a path. *)
Below(p) == {Last(q) : q \in {f \in Fields : Front(f) = p}}

Leaf(v) == <<"leaf", v>>
Obj(f)  == <<"obj", f>>
IsObj(v) == v # Gone /\ v[1] = "obj"

EmptyMap == [k \in {} |-> Gone]

(* All values that may stand at path p. *)
RECURSIVE Values(_)
Values(p) ==
    {Leaf(v) : v \in Leaves} \cup
    UNION {{Obj(f) : f \in {g \in [ks -> UNION {Values(p \o <<k>>) : k \in ks}] :
                              \A k \in ks : g[k] \in Values(p \o <<k>>)}} :
           ks \in SUBSET Below(p) \ {{}}}

Records == {v \in Values(<<>>) \cup {Obj(EmptyMap)} : IsObj(v)}

Get(v, k) == IF IsObj(v) /\ k \in DOMAIN v[2] THEN v[2][k] ELSE Gone

Drop(v, ks) == Obj([k \in DOMAIN v[2] \ ks |-> v[2][k]])

(* v with w at path p; the objects on the way are made when missing. *)
RECURSIVE Put(_, _, _)
Put(v, p, w) ==
    IF p = <<>> THEN w
    ELSE LET sub == Put(Get(v, Head(p)), Tail(p), w)
             old == IF IsObj(v) THEN v[2] ELSE EmptyMap
             ks  == DOMAIN old \cup {Head(p)}
             new == [k \in ks |-> IF k = Head(p) THEN sub ELSE old[k]]
         IN IF IsObj(v) \/ sub # Gone
            THEN Obj([k \in {j \in ks : new[j] # Gone} |-> new[k]])
            ELSE v

(* The leaves of v with their paths: what a reader can tell of it. *)
RECURSIVE Content(_, _)
Content(v, p) ==
    IF v = Gone THEN {}
    ELSE IF v[1] = "leaf" THEN {<<p, v[2]>>}
    ELSE UNION {Content(v[2][k], p \o <<k>>) : k \in DOMAIN v[2]}

----------------------------------------------------------------------------
(* The projection: seal's summaries of a node's subtree. *)

incBelow(p) == \E q \in Fields : IsPrefix(p, q) /\ proj[q] = 1
excBelow(p) == \E q \in Fields : IsPrefix(p, q) /\ proj[q] = -1
incChild(p) == \E q \in Fields : IsStrictPrefix(p, q) /\ proj[q] = 1

(* Include mode: start from nothing and add; otherwise carve. *)
userInclude == \E q \in Fields : proj[q] = 1

absent == \A q \in Fields : proj[q] = 0

RECURSIVE carveNode(_, _)
carveNode(v, p) ==
    IF ~IsObj(v) THEN v
    ELSE LET keep == {k \in DOMAIN v[2] : p \o <<k>> \in Fields => proj[p \o <<k>>] # -1}
         IN Obj([k \in keep |-> carveNode(v[2][k], p \o <<k>>)])

(* The deepest mark decides: with no inclusion below, the whole subtree but
   for the exclusions in it; otherwise only what is included. *)
RECURSIVE projectValue(_, _)
projectValue(v, p) ==
    IF ~incChild(p) THEN carveNode(v, p)
    ELSE IF ~IsObj(v) THEN Gone
    ELSE LET keep == {k \in DOMAIN v[2] : incBelow(p \o <<k>>)
                                          /\ projectValue(v[2][k], p \o <<k>>) # Gone}
         IN IF keep = {} THEN Gone
            ELSE Obj([k \in keep |-> projectValue(v[2][k], p \o <<k>>)])

projectRecord(d) ==
    IF absent THEN d
    ELSE IF ~userInclude THEN carveNode(d, <<>>)
    ELSE LET v == projectValue(d, <<>>) IN IF v = Gone THEN Obj(EmptyMap) ELSE v

(* recordShaper.record: the projection first, the withheld keys last. *)
shapeRecord(d) == Drop(projectRecord(d), strip)

----------------------------------------------------------------------------
(* Change operations.  An operation is [set |-> function from paths to
   values]; the value Gone stands for $unset. *)

(* opVerdict: the walk along the path.  It starts inside the projection in
   exclude mode and outside in include mode; a mark on the way switches. *)
RECURSIVE Walk(_, _, _)
Walk(p, i, inherited) ==
    LET here == SubSeq(p, 1, i)
    IN IF i > Len(p)
       THEN IF inherited THEN "keep" ELSE IF incBelow(p) THEN "narrow" ELSE "drop"
       ELSE IF here \notin Fields \/ ~(incBelow(here) \/ excBelow(here))
       THEN IF inherited THEN "verbatim" ELSE "drop"
       ELSE IF proj[here] = -1 /\ ~incBelow(here) THEN "drop"
       ELSE Walk(p, i + 1, IF proj[here] = 0 THEN inherited ELSE proj[here] = 1)

opVerdict(p) == IF absent THEN "verbatim" ELSE Walk(p, 1, ~userInclude)

(* Mutant of shapePayload: the payload of a kept path is sent whole. *)
shapePayloadWhole(p, v) ==
    IF opVerdict(p) \in {"verbatim", "keep"} \/ v = Gone THEN v ELSE projectValue(v, p)

(* A removal stays a removal; a value that narrows to nothing becomes one. *)
shapePayload(p, v) ==
    IF opVerdict(p) = "verbatim" \/ v = Gone THEN v ELSE projectValue(v, p)

(* Mutant of shapeOp: withheld keys are looked for as whole paths only. *)
shapeOpExact(op) ==
    LET kept == {p \in DOMAIN op : p \notin {<<k>> : k \in strip} /\ opVerdict(p) # "drop"}
    IN [p \in kept |-> shapePayload(p, op[p])]

(* recordShaper.op and multiFieldOp: every path of the operation is
   classified on its own. *)
shapeOp(op) ==
    LET kept == {p \in DOMAIN op : p[1] \notin strip /\ opVerdict(p) # "drop"}
    IN [p \in kept |-> shapePayload(p, op[p])]

(* A record after an operation, path by path in any order: the paths of one
   operation do not lie on one another. *)
Apply(v, op) == FoldSet(LAMBDA p, w : Put(w, p, op[p]), v, DOMAIN op)

Single == UNION {{[q \in {p} |-> w] : w \in Values(p) \cup {Gone}} : p \in Fields}

(* The multi-field form: one value or removal for each of two paths. *)
Multi == {[q \in {p, r} |-> IF q = p THEN v ELSE w] :
            p \in Fields, r \in Fields, v \in {Gone} \cup {Leaf(x) : x \in Leaves},
            w \in {Gone} \cup {Leaf(x) : x \in Leaves}}

Ops == Single \cup {op \in Multi : \A p, q \in DOMAIN op : p = q \/ ~IsPrefix(p, q)}

(* An operation reaches below objects only (external: how the store treats a
   path through a plain value). *)
RECURSIVE At(_, _)
At(v, p) == IF p = <<>> THEN v ELSE At(Get(v, Head(p)), Tail(p))

Fits(op) == \A p \in DOMAIN op, i \in 1..3 :
    i < Len(p) => At(doc, SubSeq(p, 1, i)) = Gone \/ IsObj(At(doc, SubSeq(p, 1, i)))

----------------------------------------------------------------------------
(* Versions.  A version map mirrors the record: <<"leaf", v>> holds for all
   below it, and a key "*" for every key not listed beside it. *)

RECURSIVE Version(_, _)
Version(ver, p) ==
    IF ver = Gone THEN Gone
    ELSE IF p = <<>> \/ ~IsObj(ver) THEN ver
    ELSE IF Head(p) \in DOMAIN ver[2] THEN Version(ver[2][Head(p)], Tail(p))
    ELSE Get(ver, "*")

(* Mutant of projectVer: the default is not carried along. *)
RECURSIVE projectVerBare(_, _)
projectVerBare(ver, p) ==
    IF ~IsObj(ver) THEN ver
    ELSE LET keep == {k \in DOMAIN ver[2] : incBelow(p \o <<k>>)}
         IN Obj([k \in keep |-> IF incChild(p \o <<k>>)
                                THEN projectVerBare(ver[2][k], p \o <<k>>) ELSE ver[2][k]])

RECURSIVE projectVer(_, _)
projectVer(ver, p) ==
    IF ~IsObj(ver) THEN ver
    ELSE LET keep == {k \in DOMAIN ver[2] : k = "*" \/ incBelow(p \o <<k>>)}
         IN Obj([k \in keep |-> IF k # "*" /\ incChild(p \o <<k>>)
                                THEN projectVer(ver[2][k], p \o <<k>>) ELSE ver[2][k]])

(* The map a record ships with: narrowed to the inclusions, then carved by
   the exclusions. *)
shapeVer(ver) == carveNode(projectVer(ver, <<>>), <<>>)

----------------------------------------------------------------------------
(* The stream.  The subscription is opened and its snapshot encoded on a
   goroutine of its own; a failure within the grace is answered as an
   error, after it the 200 is committed and a failure is a closing frame. *)

Init ==
    /\ proj \in [Fields -> {-1, 0, 1}]
    /\ strip \in {{}, Withheld}
    /\ doc \in {Obj(EmptyMap), CHOOSE r \in Records : \A k \in Below(<<>>) : Get(r, k) # Gone}
    /\ stream = "opening"
    /\ held = Gone
    /\ shown = Gone

GraceOver ==
    /\ stream = "opening"
    /\ stream' = "committed"
    /\ UNCHANGED <<proj, strip, doc, held, shown>>

OpenFails ==
    /\ stream \in {"opening", "committed"}
    /\ stream' = IF stream = "opening" THEN "refused" ELSE "ended"
    /\ UNCHANGED <<proj, strip, doc, held, shown>>

(* The ready and the snapshot frame. *)
streamQuerySubscribe ==
    /\ stream \in {"opening", "committed"}
    /\ stream' = "live"
    /\ held' = shapeRecord(doc)
    /\ shown' = shapeRecord(doc)
    /\ UNCHANGED <<proj, strip, doc>>

(* A change of the record reaches the client as one event: the whole record
   after it, and the operations that lead there. *)
subRecordsToAPI(op) ==
    /\ stream = "live"
    /\ Fits(op)
    /\ doc' = Apply(doc, op)
    /\ shown' = shapeRecord(doc')
    /\ held' = Apply(held, shapeOp(op))
    /\ UNCHANGED <<proj, strip, stream>>

(* The stream's end: hang-up, overflow, drift, the object's deletion or the
   engine's teardown. *)
StreamEnds ==
    /\ stream = "live"
    /\ stream' = "ended"
    /\ UNCHANGED <<proj, strip, doc, held, shown>>

Next ==
    \/ GraceOver
    \/ OpenFails
    \/ streamQuerySubscribe
    \/ stream = "live" /\ \E op \in Ops : subRecordsToAPI(op)
    \/ StreamEnds

Spec == Init /\ [][Next]_vars

----------------------------------------------------------------------------
(* Every variable keeps its type. *)
TypeOK ==
    /\ IsObj(doc)
    /\ stream \in {"opening", "committed", "live", "ended", "refused"}

(* No inclusion stands below another one. *)
Plain == \A p, q \in Fields : IsStrictPrefix(p, q) => ~(proj[p] = 1 /\ proj[q] = 1)

(* A client that follows the operations and one that takes the record of
   every frame hold the same values, whatever the projection cut away and
   however often the stream has gone on (recordShaper.op and record agree).
   It is stated for projections in which no inclusion narrows another. *)
MirrorAgrees == stream = "live" /\ Plain => Content(held, <<>>) = Content(shown, <<>>)

(* Nothing the server withholds is ever in the client's hands, by snapshot,
   record or operation, named in the projection or not. *)
NothingWithheld == \A k \in strip : Get(held, k) = Gone /\ Get(shown, k) = Gone

(* No exclusion stands above an inclusion. *)
Layered == \A p, q \in Fields : IsStrictPrefix(p, q) => ~(proj[p] = -1 /\ proj[q] = 1)

(* For every path the projection includes whole, the version map a record ships
   with answers as the whole one does (projectVer's contract).  It is stated
   for projections in which no exclusion stands above an inclusion, when the
   stream opens: the projection stays as it is from then on. *)
VersionsAgree ==
    stream = "opening" /\ Layered => \A ver \in Vers, p \in Fields :
        userInclude /\ ~excBelow(p) /\ projectValue(Put(Obj(EmptyMap), p, Leaf(0)), <<>>) # Gone
            => Version(shapeVer(ver), p) = Version(ver, p)
=============================================================================
