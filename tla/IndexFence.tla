----------------------------- MODULE IndexFence -----------------------------
(***************************************************************************)
(* The read-side fences of the server: which datasets of an index object a *)
(* read may name, which fields are withheld from their rows, and which     *)
(* queries are refused because their answer would depend on such a field.  *)
(*                                                                         *)
(* The tech space's index object carries the rows of the account's spaces  *)
(* (whose guest and invite keys are private) and the identities directory  *)
(* (whose keys are); the index object of a one-to-one space carries the    *)
(* key exchange.  A row is modelled by a public field, a secret one and a  *)
(* part of the secret one.                                                 *)
(***************************************************************************)
EXTENDS Naturals, Sequences

VARIABLE request  \* the request being served

----------------------------------------------------------------------------
(* Requests. *)

Routes == {"query", "spaceList", "aggregate", "datasetQuery", "history"}

Datasets == {"spaces", "profile", "bundles", "identities", "identityKeys", "records"}

Public == <<"name">>
Secret == <<"guestKey">>
Part   == <<"guestKey", "seed">>

Fields == {Public, Secret, Part}

(* A filter: nothing, a condition on one field, or a combinator over
   two filters. *)
Nothing == <<"none">>
Tests  == {<<"is", f, v>> : f \in Fields, v \in {0, 1}}
Some   == {<<"is", f, 1>> : f \in Fields}
Groups == {<<op, a, b>> : op \in {"$and", "$or", "$nor"}, a \in Some, b \in Some}
Nested == {<<op, a, b>> : op \in {"$and", "$or", "$nor"}, a \in Groups, b \in {<<"is", Public, 1>>}}

Filters == {Nothing} \cup Tests \cup Groups \cup Nested

Requests ==
    [route : Routes, tech : BOOLEAN, index : BOOLEAN, dataset : Datasets,
     filter : Filters, sort : {Nothing, Public, Secret, Part},
     projection : {{}, {Public}, {Secret}, {Public, Part}}]

----------------------------------------------------------------------------
(* Rows and answers (external: how the store evaluates a query). *)

Rows == [name : {0, 1}, key : {0, 1}]

Value(row, f) == IF f = Public THEN row.name ELSE row.key

RECURSIVE Matches(_, _)
Matches(filter, row) ==
    CASE filter[1] = "none" -> TRUE
      [] filter[1] = "is"   -> Value(row, filter[2]) = filter[3]
      [] filter[1] = "$and" -> Matches(filter[2], row) /\ Matches(filter[3], row)
      [] filter[1] = "$or"  -> Matches(filter[2], row) \/ Matches(filter[3], row)
      [] filter[1] = "$nor" -> ~Matches(filter[2], row) /\ ~Matches(filter[3], row)

(* The second of two rows comes first. *)
Swapped(sort, row, next) == sort # Nothing /\ Value(next, sort) < Value(row, sort)

----------------------------------------------------------------------------
(* The vets. *)

(* Withheld fields by dataset; a dataset that is not listed is refused. *)
techIndexDatasetPolicy ==
    [d \in {"spaces", "profile", "bundles"} |-> IF d = "spaces" THEN {Secret} ELSE {}]

(* The account's space list has its own, narrower table. *)
spaceListDatasetPolicy ==
    [d \in {"spaces", "profile"} |-> IF d = "spaces" THEN {Secret} ELSE {}]

(* Mutant of Hit: a part of a withheld field is another field. *)
HitExact(f, withheld) == f \in withheld

(* A path names a withheld field or lies below one. *)
Hit(f, withheld) ==
    \E w \in withheld : Len(w) <= Len(f) /\ SubSeq(f, 1, Len(w)) = w

(* Mutant of scanFilter: a negated group is not looked into. *)
RECURSIVE scanFilterFlat(_, _)
scanFilterFlat(filter, withheld) ==
    CASE filter[1] \in {"none", "$nor"} -> FALSE
      [] filter[1] = "is"               -> Hit(filter[2], withheld)
      [] OTHER -> scanFilterFlat(filter[2], withheld) \/ scanFilterFlat(filter[3], withheld)

(* Every combinator is entered. *)
RECURSIVE scanFilter(_, _)
scanFilter(filter, withheld) ==
    CASE filter[1] = "none" -> FALSE
      [] filter[1] = "is"   -> Hit(filter[2], withheld)
      [] OTHER -> scanFilter(filter[2], withheld) \/ scanFilter(filter[3], withheld)

queryTouchesFields(r, withheld) ==
    \/ scanFilter(r.filter, withheld)
    \/ r.sort # Nothing /\ Hit(r.sort, withheld)
    \/ \E f \in r.projection : Hit(f, withheld)

vetIndexDatasetRead(r, policy) ==
    /\ r.dataset \in DOMAIN policy
    /\ ~queryTouchesFields(r, policy[r.dataset])

(* The key exchange is served by no read. *)
identityKeysReadRefused(r) == r.dataset = "identityKeys"

(* Of the routes modelled here, those the tech space is served on. *)
techAllowedRoutes == {"query", "aggregate"}

techSpaceRouteGuard(r) == r.tech => r.route \in techAllowedRoutes

techIndexFence(r) == r.tech /\ r.index => vetIndexDatasetRead(r, techIndexDatasetPolicy)

perObjectReadVet(r) == ~identityKeysReadRefused(r) /\ techIndexFence(r)

(* An aggregate's output is the caller's, so nothing can be stripped from
   it: a dataset with withheld fields is refused whole. *)
spaceAggregate(r) ==
    /\ ~identityKeysReadRefused(r)
    /\ r.tech /\ r.index =>
         r.dataset \in {d \in DOMAIN techIndexDatasetPolicy : techIndexDatasetPolicy[d] = {}}

(* The account-level list names no space: it reads the tech index. *)
buildSpaceListQuery(r) == vetIndexDatasetRead(r, spaceListDatasetPolicy)

Served(r) ==
    /\ r.route # "spaceList" => techSpaceRouteGuard(r)
    /\ CASE r.route = "query"        -> perObjectReadVet(r)
         [] r.route = "aggregate"    -> spaceAggregate(r)
         [] r.route = "spaceList"    -> buildSpaceListQuery(r)
         [] r.route = "datasetQuery" -> ~identityKeysReadRefused(r)
         [] r.route = "history"      -> ~identityKeysReadRefused(r)

(* The fields cut from the rows of an answer. *)
Stripped(r) ==
    IF r.dataset = "spaces"
       /\ (r.route = "spaceList" \/ (r.route = "query" /\ r.tech /\ r.index))
    THEN {Secret} ELSE {}

----------------------------------------------------------------------------
(* Where the secret field really is one. *)
Private(r) ==
    \/ r.tech /\ r.index /\ r.dataset \in {"spaces", "identities"}
    \/ r.dataset = "identityKeys"

Shown(r, row) == IF Stripped(r) = {} THEN <<row.name, row.key>> ELSE <<row.name>>

(* The answer over two rows: which match, in what order, with what shown.
   An aggregate may compute anything from the rows it is given. *)
Answer(r, row, next) ==
    IF r.route = "aggregate" THEN <<row, next>>
    ELSE <<IF Matches(r.filter, row) THEN Shown(r, row) ELSE <<>>,
           IF Matches(r.filter, next) THEN Shown(r, next) ELSE <<>>,
           Swapped(r.sort, row, next)>>

Init == request \in {r \in Requests : r.route = "spaceList" => r.tech /\ r.index}

Next == UNCHANGED request

Spec == Init /\ [][Next]_request

----------------------------------------------------------------------------
(* Every variable keeps its type. *)
TypeOK == request.route \in Routes

(* No answer tells anything of a private field: whenever a request that
   reads private rows is served, two stores that differ only in the private
   field give the same answer, whatever the request filters, sorts or
   projects on and through whichever route it comes. *)
NothingTold ==
    Served(request) /\ Private(request) =>
        \A a, b \in Rows : \A k, l \in {0, 1} :
            Answer(request, a, b) = Answer(request, [a EXCEPT !.key = k], [b EXCEPT !.key = l])
=============================================================================
