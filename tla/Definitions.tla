---------------------------- MODULE Definitions ----------------------------
(***************************************************************************)
(* The definitions of a space - types, collections, parts, datasets, their *)
(* fields and the properties - as the HTTP handlers create, patch and      *)
(* remove them (handlers_types.go, handlers_typeparts.go,                  *)
(* handlers_typedatasets.go, handlers_collections.go), and the descriptor  *)
(* rules they share (descriptor.go).                                       *)
(*                                                                         *)
(* Every handler reads the definitions this device holds, checks the       *)
(* request, and then writes: in between the other requests and the changes *)
(* of other devices land.  The SDK is external: a change set that          *)
(* replicates in any order and applies in one order everywhere, ids that   *)
(* are the change's own, a kind pinned by the first write, one value per   *)
(* leaf, and a $set or $unset that replaces everything below its path.     *)
(***************************************************************************)
EXTENDS Naturals, FiniteSets, SequencesExt, TLC

CONSTANTS
    Devices,
    Requests, At,      \* requests, and the device each is served by
    Handles,           \* xKeys clients choose; Builtin are taken from the start
    Builtin,
    Bodies,            \* descriptors a create carries: leaf |-> value
    Seed,              \* definitions every device starts with
    MaxChanges         \* bound on the synced changes after them

VARIABLES
    log,     \* every synced change, in the order they apply
    have,    \* the changes each device holds
    req      \* the checked write of each request, before the SDK makes it

vars == <<log, have, req>>

-----------------------------------------------------------------------------
(* The descriptor: the kinds each known slug and link marker need, the      *)
(* leaves a body or a patch may carry and the containers above them.        *)
Kinds == {"string", "array"}
SlugKinds == [text |-> "string", choice |-> "array"]
LinkModeKinds == [link |-> "string", links |-> "array"]
Slugs == DOMAIN SlugKinds \cup {"custom"}
Modes == DOMAIN LinkModeKinds \cup {"none"}
Reserved == "validate"

Slug == <<"xFormat", "type">>
Links == <<"xFormat", "links">>
Options == {<<"xFormat", "options", o, "name">> : o \in {"a"}}
Leaves == {Slug, Links} \cup Options
Containers == {<<"xFormat">>, <<"xFormat", "options">>}
ReservedPath == <<"xFormat", Reserved>>
XKeyPath == <<"xKey">>
NamePath == <<"name">>
NoValue == "-"


(* Kind "" is a definition that declares none: nothing is checked.          *)
SlugKindMismatch(slug, kind) ==
    slug \in DOMAIN SlugKinds /\ kind # "" /\ SlugKinds[slug] # kind
LinkModeMismatch(mode, kind) ==
    mode \in DOMAIN LinkModeKinds /\ kind # "" /\ LinkModeKinds[mode] # kind

CheckDescriptorLeaf(path, v) ==
    CASE path = Slug -> v \in Slugs
      [] path = Links -> v \in Modes
      [] path = ReservedPath -> FALSE
      [] OTHER -> v # "object"

(* A whole descriptor, as create takes it.                                  *)
ValidateDescriptor(xf, kind) ==
    /\ \A p \in DOMAIN xf : xf[p] # NoValue => CheckDescriptorLeaf(p, xf[p])
    /\ Slug \in DOMAIN xf => ~SlugKindMismatch(xf[Slug], kind)
    /\ Links \in DOMAIN xf => ~LinkModeMismatch(xf[Links], kind)

(* The kind a field's descriptor is judged by: the wire's or its shape's,   *)
(* else the one its stamp implies.                                          *)
(* Mutant of FieldKind: a stamped field has none, and skips the check.      *)
FieldKindWire(kind, stamp) == kind
FieldKind(kind, stamp) == IF kind = "" /\ stamp THEN "string" ELSE kind

(* Which paths PATCH takes on each definition; a set names a leaf.          *)
(* Mutant of XformatPatchPath: a set may name a container too.              *)
XformatPatchPathAny(path, forSet) ==
    path \in Containers \cup Leaves \/ (path = ReservedPath /\ ~forSet)
XformatPatchPath(path, forSet) ==
    path \in Leaves \/ (path \in Containers \cup {ReservedPath} /\ ~forSet)

PatchPathToStorage(node, path, forSet) ==
    CASE path[1] = "xFormat" -> node \in {"property", "field"} /\ XformatPatchPath(path, forSet)
      [] path[1] = "xKey" -> node = "property"
      [] path[1] = "name" -> TRUE
      [] OTHER -> FALSE  \* kind, scope, key, module: pinned

PatchSetValue(path, v) ==
    v # "object" /\ (path[1] = "xFormat" => CheckDescriptorLeaf(path, v))

-----------------------------------------------------------------------------
(* What a device reads: the definitions it holds and no removal of them or  *)
(* of what they are declared under, and the last write of each leaf.        *)
Live(d, node) ==
    {i \in have[d] : /\ log[i].op = "create" /\ log[i].node = node
                     /\ \A j \in have[d] : log[j].op = "remove" => log[j].id \notin log[i].under \cup {i}}
Owners(d) == Live(d, "type") \cup Live(d, "collection")

Covers(c, p) == \E q \in DOMAIN c.set \cup c.unset : IsPrefix(q, p)
Value(d, i, p) ==
    LET writes == {j \in have[d] : log[j].op # "remove" /\ (j = i \/ (log[j].id = i /\ Covers(log[j], p)))}
        last == log[CHOOSE j \in writes : \A k \in writes : k <= j]
    IN IF p \in DOMAIN last.set THEN last.set[p] ELSE NoValue

Descriptor(d, i) == [p \in Leaves \cup {ReservedPath} |-> Value(d, i, p)]
XKey(d, i) == Value(d, i, XKeyPath)

-----------------------------------------------------------------------------
Idle == [op |-> "idle"]
Room == Len(log) - Len(Seed) + Cardinality({r \in Requests : req[r] # Idle}) < MaxChanges

TypeOK ==
    /\ Len(log) <= Len(Seed) + MaxChanges /\ have \in [Devices -> SUBSET (1..Len(log))]
    /\ \A i \in 1..Len(log) : log[i].op \in {"create", "patch", "remove"}

Init ==
    /\ log = Seed /\ have = [d \in Devices |-> DOMAIN Seed] /\ req = [r \in Requests |-> Idle]

Pend(r, c) ==
    /\ req[r] = Idle /\ Room /\ req' = [req EXCEPT ![r] = c] /\ UNCHANGED <<log, have>>

Creation(d, node, parent, under, kind, set) ==
    [op |-> "create", by |-> d, id |-> 0, node |-> node, kind |-> kind, set |-> set,
     unset |-> {}, parent |-> parent, under |-> under]
Create(r, d, node, parent, kind, set) ==
    Pend(r, Creation(d, node, parent,
                     IF parent = 0 THEN {} ELSE log[parent].under \cup {parent}, kind, set))

(* requireHandleFree: no type or collection has the handle, by xKey or id.  *)
RequireHandleFree(d, xKey) ==
    xKey \notin Builtin /\ \A i \in Owners(d) : XKey(d, i) # xKey

TypeCreate(r, d, xKey) ==
    RequireHandleFree(d, xKey) /\ Create(r, d, "type", 0, "", XKeyPath :> xKey)
CollectionCreate(r, d, xKey) ==
    RequireHandleFree(d, xKey) /\ Create(r, d, "collection", 0, "", XKeyPath :> xKey)

(* requireXKeyFree: unique among the owner's properties this device holds.  *)
RequireXKeyFree(d, owner, xKey, self) ==
    \A i \in Live(d, "property") \ {self} : log[i].parent = owner => XKey(d, i) # xKey

AddProperty(r, d, owner, kind, xf, xKey) ==
    /\ owner \in Owners(d) /\ ValidateDescriptor(xf, kind)
    /\ xKey # NoValue => RequireXKeyFree(d, owner, xKey, 0)
    /\ Create(r, d, "property", owner, kind, (XKeyPath :> xKey) @@ xf)

AddPart(r, d, type) == type \in Live(d, "type") /\ Create(r, d, "part", type, "", NamePath :> "n")
AddDataset(r, d, part) == part \in Live(d, "part") /\ Create(r, d, "dataset", part, "", NamePath :> "n")

(* The SDK pins the same kind for a stamp.                                  *)
AddDatasetField(r, d, dataset, kind, stamp, xf) ==
    /\ dataset \in Live(d, "dataset") /\ (kind = "" => stamp)
    /\ ValidateDescriptor(xf, FieldKind(kind, stamp))
    /\ Create(r, d, "field", dataset, IF kind = "" THEN "string" ELSE kind, xf)

(* PATCH: every path and value, then the three leaves with a rule of their  *)
(* own against the definition as this device holds it.                      *)
(* Mutant of PatchChecks: the link marker is not looked at.                 *)
PatchChecksSlug(d, i, set) ==
    /\ XKeyPath \in DOMAIN set => RequireXKeyFree(d, log[i].parent, set[XKeyPath], i)
    /\ Slug \in DOMAIN set => ~SlugKindMismatch(set[Slug], log[i].kind)
PatchChecks(d, i, set) ==
    /\ XKeyPath \in DOMAIN set => RequireXKeyFree(d, log[i].parent, set[XKeyPath], i)
    /\ Slug \in DOMAIN set => ~SlugKindMismatch(set[Slug], log[i].kind)
    /\ Links \in DOMAIN set => ~LinkModeMismatch(set[Links], log[i].kind)

Patch(r, d, i, set, unset) ==
    /\ DOMAIN set \cup unset # {}
    /\ \A p \in DOMAIN set : PatchPathToStorage(log[i].node, p, TRUE) /\ PatchSetValue(p, set[p])
    /\ \A p \in unset : PatchPathToStorage(log[i].node, p, FALSE)
    /\ PatchChecks(d, i, set)
    /\ Pend(r, [op |-> "patch", by |-> d, id |-> i, set |-> set, unset |-> unset])

PatchProperty(r, d, i, set, unset) == i \in Live(d, "property") /\ Patch(r, d, i, set, unset)
PatchDatasetField(r, d, i, set, unset) == i \in Live(d, "field") /\ Patch(r, d, i, set, unset)
PatchDataset(r, d, i, set) == i \in Live(d, "dataset") /\ Patch(r, d, i, set, {})
PatchPart(r, d, i, set) == i \in Live(d, "part") /\ Patch(r, d, i, set, {})
PatchType(r, d, i, set) == i \in Live(d, "type") /\ Patch(r, d, i, set, {})
PatchCollection(r, d, i, set) == i \in Live(d, "collection") /\ Patch(r, d, i, set, {})

Tombstone(r, d, i) == Pend(r, [op |-> "remove", by |-> d, id |-> i])
RemoveProperty(r, d, i) == i \in Live(d, "property") /\ Tombstone(r, d, i)
RemoveDatasetField(r, d, i) == i \in Live(d, "field") /\ Tombstone(r, d, i)
RemoveDataset(r, d, i) == i \in Live(d, "dataset") /\ Tombstone(r, d, i)
RemovePart(r, d, i) == i \in Live(d, "part") /\ Tombstone(r, d, i)

(* The SDK's write: a patch or removal of what is gone by now is refused.   *)
Written(c) ==
    \/ c.op = "create" /\ c.under \subseteq UNION {Live(c.by, n) : n \in {"type", "collection", "part", "dataset"}}
    \/ c.op # "create" /\ c.id \in Live(c.by, log[c.id].node)

Write(r) ==
    /\ req[r] # Idle /\ req' = [req EXCEPT ![r] = Idle]
    /\ IF Written(req[r])
       THEN /\ log' = Append(log, req[r])
            /\ have' = [have EXCEPT ![req[r].by] = @ \cup {Len(log) + 1}]
       ELSE UNCHANGED <<log, have>>

(* Replication, a change after those it is about.                           *)
Sync(d, i) ==
    /\ i \in 1..Len(log) /\ i \notin have[d]
    /\ \A j \in 1..i - 1 : j \in have[log[i].by] /\ log[j].by = log[i].by => j \in have[d]
    /\ log[i].op # "create" => log[i].id \in have[d]
    /\ log[i].op = "create" => log[i].under \subseteq have[d]
    /\ have' = [have EXCEPT ![d] = @ \cup {i}] /\ UNCHANGED <<log, req>>

Sets == [{XKeyPath} -> Handles] \cup [{Slug} -> Slugs \cup {"tags"}] \cup [{Links} -> Modes]
        \cup UNION {[{p} -> {"u", "object"}] : p \in Options \cup Containers \cup {ReservedPath}}
        \cup [{<<"kind">>} -> Kinds]

Next ==
    \/ \E r \in Requests : req[r] = Idle /\ Room /\ LET d == At[r] IN
        \/ \E h \in Handles : TypeCreate(r, d, h) \/ CollectionCreate(r, d, h)
        \/ \E o \in Owners(d), k \in Kinds, xf \in Bodies, h \in Handles \cup {NoValue} :
               AddProperty(r, d, o, k, xf, h)
        \/ \E t \in Live(d, "type") : AddPart(r, d, t)
        \/ \E p \in Live(d, "part") : AddDataset(r, d, p)
        \/ \E s \in Live(d, "dataset"), k \in Kinds \cup {""}, st \in BOOLEAN, xf \in Bodies :
               AddDatasetField(r, d, s, k, st, xf)
        \/ \E i \in Live(d, "property") :
               \/ \E set \in Sets : PatchProperty(r, d, i, set, {})
               \/ \E p \in Leaves \cup Containers : PatchProperty(r, d, i, <<>>, {p})
               \/ RemoveProperty(r, d, i)
        \/ \E i \in Live(d, "field") :
               \/ \E set \in Sets : PatchDatasetField(r, d, i, set, {})
               \/ \E p \in Leaves \cup Containers : PatchDatasetField(r, d, i, <<>>, {p})
               \/ RemoveDatasetField(r, d, i)
        \/ \E i \in DOMAIN log :
               \/ \E set \in {NamePath :> "m", <<"key">> :> "m"} :
                      \/ PatchDataset(r, d, i, set) \/ PatchPart(r, d, i, set)
                      \/ PatchType(r, d, i, set) \/ PatchCollection(r, d, i, set)
               \/ RemoveDataset(r, d, i) \/ RemovePart(r, d, i)
    \/ \E r \in Requests : Write(r)
    \/ \E d \in Devices, i \in 1..Len(log) : Sync(d, i)

Spec == Init /\ [][Next]_vars

-----------------------------------------------------------------------------
(* Whatever patches and creates of several clients meet in a definition, on *)
(* any device it carries a descriptor create would have accepted for its    *)
(* kind: the check against a definition that was read earlier still holds   *)
(* when the write lands, because the kind is pinned.                        *)
DescriptorsFit ==
    \A d \in Devices : \A i \in Live(d, "property") \cup Live(d, "field") :
        ValidateDescriptor(Descriptor(d, i), log[i].kind)

(* No client's set drops what another client wrote: a leaf goes only by a   *)
(* set of that leaf or an unset above it.                                   *)
LeavesKept ==
    \A d \in Devices : \A i \in Live(d, "property") \cup Live(d, "field") : \A p \in Leaves :
        LET writes == {i} \cup {j \in have[d] : log[j].op = "patch" /\ log[j].id = i}
            after(j) == {k \in writes : k > j /\ log[k].op = "patch"
                                        /\ (p \in DOMAIN log[k].set \/ \E q \in log[k].unset : IsPrefix(q, p))}
        IN \A j \in writes : p \in DOMAIN log[j].set /\ after(j) = {} => Value(d, i, p) = log[j].set[p]
=============================================================================
