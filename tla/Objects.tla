------------------------------ MODULE Objects ------------------------------
(***************************************************************************)
(* An object's row: the type and the collections it is filed under, the    *)
(* bin, and a property's value behind the descriptor gate (objectCreate,   *)
(* propertiesSet, propertiesSetType, the collection bindings and           *)
(* binBinding; checkDescriptorValue), and beside the gate (spaceModify).   *)
(* Handlers check against what the device holds and write afterwards; a    *)
(* property's slug moves in between, within its pinned kind.               *)
(*                                                                         *)
(* The SDK is external: a change applies whole, in one order on every      *)
(* device; it refuses a value of another kind than the property's, and on  *)
(* every path a type declaring a reserved module and a definition's row as *)
(* the source of a copy.                                                   *)
(***************************************************************************)
EXTENDS Integers, FiniteSets, Sequences

CONSTANTS
    Devices,
    Types, Collections, Carriers, \* ids the space resolves; types declaring a reserved module
    Strangers,                    \* ids it does not
    Kinds,                        \* the kinds of the property explored
    MaxChanges                    \* bound on the synced changes

VARIABLES
    kind, slug,   \* the property: its pinned kind, and its slug now
    log, have,    \* the object's changes in the order they apply; those each device holds
    pending,      \* the checked write of each device
    refused       \* history: slugs under which a value passed the gate and the SDK refused it

vars == <<kind, slug, log, have, pending, refused>>

Bin == "bin"
NoSlug == ""

-----------------------------------------------------------------------------
(* Values, by what the checks look at.                                      *)
Strings == [t : {"string"}, form : {"plain", "url", "email"}]
Arrays == [t : {"array"}, of : {"keys", "refs", "members", "blank"}, n : 0..2]
Numbers == [t : {"number"}, x : {-1, 0, 5, 6}]
Booleans == [t : {"boolean"}]
Instants == [t : {"datetime"}, midnight : BOOLEAN]
Periods == [t : {"object"}, from : 0..2, to : 0..2]      \* 0: the key is absent
Moneys == [t : {"object"}, keys : SUBSET {"amount", "currency", "more"}]
Geos == [t : {"object"}, lat : {-91, -90, 90, 91}, lng : {-181, -180, 180, 181}]
Values == UNION {Strings, Arrays, Numbers, Booleans, Instants, Periods, Moneys, Geos}
ConfigMax == 5

SlugsOf ==
    [string |-> {"text", "url", "email"}, array |-> {"choice", "relation", "member"},
     number |-> {"number", "rating"}, boolean |-> {"checkbox"},
     datetime |-> {"date", "datetime"}, object |-> {"period", "money", "geo"}]

CheckPeriodValue(v) ==
    /\ v \in Periods /\ (v.from # 0 \/ v.to # 0)
    /\ (v.from # 0 /\ v.to # 0) => v.from <= v.to
CheckMoneyValue(v) == v \in Moneys /\ v.keys = {"amount", "currency"}
CheckGeoValue(v) == v \in Geos /\ v.lat \in -90..90 /\ v.lng \in -180..180

(* Lists hold one element unless config.multiple says otherwise.            *)
CheckList(v, form, multiple) ==
    v \in Arrays /\ (v.n > 0 => v.of = form) /\ (v.n > 1 => multiple)

(* What a value must be for the slug of its property.                       *)
CheckDescriptorValue(s, multiple, v) ==
    CASE s = "text" -> v \in Strings
      [] s = "url" -> v \in Strings /\ v.form = "url"
      [] s = "email" -> v \in Strings /\ v.form = "email"
      [] s = "choice" -> CheckList(v, "keys", multiple)
      [] s = "relation" -> CheckList(v, "refs", multiple)
      [] s = "member" -> CheckList(v, "members", multiple)
      [] s = "number" -> v \in Numbers
      [] s = "rating" -> v \in Numbers /\ v.x \in 0..ConfigMax
      [] s = "checkbox" -> v \in Booleans
      [] s = "date" -> v \in Instants /\ v.midnight
      [] s = "datetime" -> v \in Instants
      [] s = "period" -> CheckPeriodValue(v)
      [] s = "money" -> CheckMoneyValue(v)
      [] s = "geo" -> CheckGeoValue(v)
      [] OTHER -> TRUE  \* a slug the server does not know

(* validateDescriptorValues: a property without a slug is not looked at.    *)
ValidateDescriptorValues(s, multiple, v) == s # NoSlug => CheckDescriptorValue(s, multiple, v)

(* The kinds of the values that pass under each slug.                       *)
Slugs == UNION {SlugsOf[k] : k \in DOMAIN SlugsOf} \cup {"custom", NoSlug}
Passing ==
    [s \in Slugs |-> {v.t : v \in {w \in Values :
        \E multiple \in BOOLEAN : ValidateDescriptorValues(s, multiple, w)}}]

-----------------------------------------------------------------------------
Idle == [op |-> "idle"]

TypeOK ==
    /\ kind \in Kinds /\ slug \in SlugsOf[kind] \cup {"custom", NoSlug}
    /\ Len(log) <= MaxChanges /\ have \in [Devices -> SUBSET (1..MaxChanges)]
    /\ refused \subseteq Slugs

Init ==
    /\ kind \in Kinds /\ slug = NoSlug
    /\ log = <<>> /\ have = [d \in Devices |-> {}] /\ pending = [d \in Devices |-> Idle]
    /\ refused = {}

Exists(d) == \E i \in have[d] : log[i].op = "create"
(* What a device shows of the object.                                       *)
Last(d, ops) ==
    LET s == {i \in have[d] : log[i].op \in ops}
    IN IF s = {} THEN Idle ELSE log[CHOOSE i \in s : \A j \in s : j <= i]
InBin(d) ==
    LET c == Last(d, {"create", "bin"})
    IN (c.op = "create" /\ Bin \in c.colls) \/ (c.op = "bin" /\ c.attach)
Stamped(d) ==
    LET s == {i \in have[d] : log[i].op \in {"bin", "stamps"} /\ log[i].stamps # "keep"}
    IN s # {} /\ log[CHOOSE i \in s : \A j \in s : j <= i].stamps = "set"
TypeOf(d) == Last(d, {"create", "type"}).type

Room == Len(log) + Cardinality({e \in Devices : pending[e] # Idle}) < MaxChanges
Pend(d, c) ==
    /\ pending[d] = Idle /\ Room
    /\ pending' = [pending EXCEPT ![d] = c] /\ UNCHANGED <<kind, slug, log, have, refused>>

(* Every type and collection named is resolved first; a type that declares  *)
(* a reserved module is carried by its own root only.                       *)
TypeAllowed(t) == t \in Types \ Carriers

(* A copy names no type and takes its source's, which nothing resolves; so  *)
(* may be collections, those of its source but the built-in markers.        *)
ObjectCreate(d, t, colls, copied) ==
    /\ log = <<>> /\ \A e \in Devices : pending[e] = Idle \/ pending[e].op # "create"
    /\ IF copied THEN t \notin Carriers ELSE TypeAllowed(t)
    /\ colls \subseteq Collections \cup (IF copied THEN Strangers ELSE {})
    /\ Pend(d, [op |-> "create", type |-> t, colls |-> colls, gated |-> ~copied])

SetType(d, t) ==
    Exists(d) /\ TypeAllowed(t) /\ Pend(d, [op |-> "type", type |-> t, gated |-> TRUE])

(* binBinding: the membership and its stamps are one change.                *)
(* Mutant of BinBinding: the move leaves the stamps to a later change.      *)
BinBindingBare(d, attach) ==
    Pend(d, [op |-> "bin", attach |-> attach, stamps |-> IF attach THEN "keep" ELSE "clear",
             gated |-> TRUE])
BinBinding(d, attach) ==
    Pend(d, [op |-> "bin", attach |-> attach, stamps |-> IF attach THEN "set" ELSE "clear",
             gated |-> TRUE])

(* Attach resolves the collection; detach repairs and does not.             *)
CollectionBinding(d, c, attach) ==
    /\ Exists(d) /\ (attach => c \in Collections)
    /\ IF c = Bin THEN BinBinding(d, attach)
       ELSE Pend(d, [op |-> "collection", c |-> c, attach |-> attach])

SetValue(d, t) ==
    Exists(d) /\ t \in Passing[slug] /\ Pend(d, [op |-> "value", slug |-> slug, fits |-> t = kind])

(* The stamps of a member are properties of the bin as any others, and its  *)
(* set route writes or unsets them alone.                                   *)
SetStamps(d, stamps) ==
    Exists(d) /\ InBin(d) /\ Pend(d, [op |-> "stamps", stamps |-> stamps, gated |-> FALSE])

(* POST /modify on the objects dataset passes any operations on: a type     *)
(* nobody resolved, a move without its stamps, a value under no check.      *)
ModifyType(d, t) ==
    Exists(d) /\ t \notin Carriers /\ Pend(d, [op |-> "type", type |-> t, gated |-> FALSE])
ModifyBin(d, attach, stamps) ==
    /\ Exists(d) /\ (stamps = "set" => attach)
    /\ Pend(d, [op |-> "bin", attach |-> attach, stamps |-> stamps, gated |-> FALSE])
ModifyValue(d, t) == Exists(d) /\ Pend(d, [op |-> "value", slug |-> NoSlug, fits |-> t = kind])

(* A descriptor patch moves the slug within the kind (Definitions).         *)
PatchSlug(s) ==
    /\ s \in SlugsOf[kind] \cup {"custom", NoSlug} /\ slug' = s
    /\ UNCHANGED <<kind, log, have, pending, refused>>

(* The SDK: a value of another kind is refused, everything else applies;    *)
(* which value a property holds is not followed.                            *)
Write(d) ==
    /\ pending[d] # Idle /\ pending' = [pending EXCEPT ![d] = Idle]
    /\ LET c == pending[d] IN
       IF c.op = "value"
       THEN /\ refused' = IF ~c.fits THEN refused \cup {c.slug} ELSE refused
            /\ UNCHANGED <<log, have>>
       ELSE /\ log' = Append(log, c) /\ have' = [have EXCEPT ![d] = @ \cup {Len(log) + 1}]
            /\ UNCHANGED refused
    /\ UNCHANGED <<kind, slug>>

Sync(d, i) ==
    /\ i \in 1..Len(log) /\ i \notin have[d] /\ (i > 1 => 1 \in have[d])
    /\ have' = [have EXCEPT ![d] = @ \cup {i}] /\ UNCHANGED <<kind, slug, log, pending, refused>>

Next ==
    \/ \E d \in Devices : pending[d] = Idle /\ Room /\
        \/ \E t \in Types \cup Strangers, colls \in SUBSET (Collections \cup Strangers),
              copied \in BOOLEAN : ObjectCreate(d, t, colls, copied)
        \/ \E t \in Types \cup Strangers : SetType(d, t) \/ ModifyType(d, t)
        \/ \E c \in Collections \cup Strangers, attach \in BOOLEAN : CollectionBinding(d, c, attach)
        \/ \E t \in DOMAIN SlugsOf : SetValue(d, t) \/ ModifyValue(d, t)
        \/ \E stamps \in {"set", "clear"} : SetStamps(d, stamps)
        \/ \E attach \in BOOLEAN, stamps \in {"set", "clear", "keep"} : ModifyBin(d, attach, stamps)
    \/ \E d \in Devices : Write(d) \/ (\E i \in 1..Len(log) : Sync(d, i))
    \/ \E s \in SlugsOf[kind] \cup {"custom", NoSlug} : PatchSlug(s)

Spec == Init /\ [][Next]_vars

-----------------------------------------------------------------------------
(* "A bin member never lacks its stamps and a restored object never keeps   *)
(* stale ones" (binBinding), whatever moves and restores of several devices *)
(* meet: the two agree on a device from a move or restore of the route till *)
(* another write reaches them, and before any for an object that was not    *)
(* created in the bin.                                                      *)
BinWhole ==
    \A d \in Devices : Exists(d) =>
        LET c == Last(d, {"create", "bin", "stamps"})
        IN (IF c.op = "create" THEN Bin \notin c.colls ELSE c.gated) => (InBin(d) <=> Stamped(d))

(* What passes the gate under a slug it knows is a value the SDK stores,    *)
(* though the slug may have moved since it was read.  An object carries no  *)
(* type that declares a reserved module, and one the space does not resolve *)
(* only if it was written raw or copied: the gate is no promise about what  *)
(* is stored (descriptor.go, "Known gap").                                  *)
GateSound ==
    /\ refused \subseteq {"custom", NoSlug}
    /\ \A d \in Devices : Exists(d) =>
        /\ TypeOf(d) \notin Carriers
        /\ TypeOf(d) \in Types \/ ~Last(d, {"create", "type"}).gated
=============================================================================
