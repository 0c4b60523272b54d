------------------------------- MODULE Spaces -------------------------------
(***************************************************************************)
(* The account's spaces as the server's handlers manage them, on several   *)
(* devices of one account: create, delete, join by invite or guest key,    *)
(* withdraw a join, one-to-one requests, direct-add invites, the closed    *)
(* registry of derived spaces and the boot pass that warms it, and the     *)
(* membership operations of the other account that owns a shared space.    *)
(*                                                                         *)
(* A space has a row in the account's tech space.  A row is a status and   *)
(* the moment it was written; rows travel between devices and the later    *)
(* write wins (external: the SDK).  A one-to-one request is a row of one   *)
(* device only, marked by moment 0.  The space's content is on a device    *)
(* when the id is in stored; its index, which carries the registry of      *)
(* bundles, when the id is in indexed.                                     *)
(***************************************************************************)
EXTENDS Naturals, FiniteSets

CONSTANTS Devices,   \* devices of the account
          Shared,    \* ids of spaces another account owns
          Direct,    \* ids of one-to-one spaces
          Derived,   \* ids the registry derives from the account keys
          Own,       \* ids the account may create
          MaxWrites, \* bound: rows written
          MaxSpaces  \* bound: ids that have a row

Ids == Shared \cup Direct \cup Derived \cup Own

(* An id is of one kind.                                                    *)
ASSUME SpacesAssumption ==
    /\ Shared \cap (Direct \cup Derived \cup Own) = {}
    /\ Direct \cap (Derived \cup Own) = {} /\ Derived \cap Own = {}
    /\ MaxWrites \in Nat

VARIABLES row,      \* row[dev][id]: what the device's space list holds
          writes,   \* rows written so far: the moment of the last write
          stored,   \* ids whose content the device holds
          indexed,  \* ids whose index the device has projected
          chain,    \* the account's standing on a shared space's ACL
          invites,  \* shared spaces with an invite that still stands
          guests,   \* shared spaces with a guest key that still stands
          boot,     \* boot[dev][id]: the boot pass over the derived registry
          read,     \* derived ids whose registry a boot pass has read
          asked     \* ids some explicit call of the account asked for

spaces == <<row, writes, stored, indexed, chain, invites, guests, boot, read,
          asked>>

rows   == <<row, writes>>
acl    == <<chain, invites, guests>>
local  == <<stored, indexed>>
passes == <<boot, read>>

Pending  == {"joining", "one_to_one_pending", "invite_pending"}
Declined == {"one_to_one_declined", "invite_declined"}

(* "deleted" is the tombstone of a delete; "withdrawn" is a row that reads
   deleted because its join request went away, and that a join revives. *)
Statuses == Pending \cup Declined \cup
            {"none", "active", "deleted", "withdrawn", "guest_revoked"}

St(dev, id) == row[dev][id].st

Known == {id \in Ids : \E dev \in Devices : St(dev, id) # "none"}

(* The row of id on dev is written now, and so is newer than every other. *)
PutRow(dev, id, st) ==
    /\ writes < MaxWrites
    /\ Cardinality(Known \cup {id}) <= MaxSpaces
    /\ writes' = writes + 1
    /\ row' = [row EXCEPT ![dev][id] = [st |-> st, at |-> writes + 1]]

SpacesInit ==
    /\ row = [dev \in Devices |-> [id \in Ids |-> [st |-> "none", at |-> 0]]]
    /\ writes = 0
    /\ stored = [dev \in Devices |-> {}]
    /\ indexed = [dev \in Devices |-> {}]
    /\ chain = [id \in Shared |-> "none"]
    /\ invites = Shared
    /\ guests = Shared
    /\ boot = [dev \in Devices |-> [id \in Derived |-> "bootstrap"]]
    /\ read = {}
    /\ asked = {}

----------------------------------------------------------------------------
(* Reads.  A space is loaded, pulled from the network if this device lacks
   it, by Service.Get, which refuses a row that is not active. *)

Loaded(dev, id) ==
    stored' = [stored EXCEPT ![dev] = @ \cup IF St(dev, id) = "active"
                                             THEN {id} ELSE {}]

(* Every per-space route begins with a Get of the id. *)
resolveSpace(dev, id) ==
    /\ Loaded(dev, id)
    /\ UNCHANGED <<rows, indexed, acl, passes, asked>>

(* GET /v1/spaces: the active rows, and only those, are loaded. *)
spaceList(dev) ==
    /\ stored' = [stored EXCEPT ![dev] = @ \cup {id \in Ids : St(dev, id) = "active"}]
    /\ UNCHANGED <<rows, indexed, acl, passes, asked>>

(* GET /v1/spaces/:id answers from the row unless it is active.  The Get
   that follows looks at the row again, so a row that changes in between is
   refused there: the two are one step. *)
spaceGet(dev, id) ==
    /\ St(dev, id) = "active"
    /\ resolveSpace(dev, id)

----------------------------------------------------------------------------
(* Create and delete. *)

Activate(dev, id) ==
    /\ PutRow(dev, id, "active")
    /\ stored' = [stored EXCEPT ![dev] = @ \cup {id}]
    /\ asked' = asked \cup {id}

spaceCreate(dev, id) ==
    /\ id \in Own
    /\ \A d \in Devices : St(d, id) = "none"
    /\ Activate(dev, id)
    /\ indexed' = [indexed EXCEPT ![dev] = @ \cup {id}]
    /\ UNCHANGED <<acl, passes>>

(* Mutant of isDerivedSpaceId: only a derived space with a row is known. *)
isDerivedSpaceIdRow(dev, id) == id \in Derived /\ St(dev, id) # "none"

(* The registry's ids are resolved at boot: no row is needed. *)
isDerivedSpaceId(dev, id) == id \in Derived

(* The tombstone is written and the local content dropped at once.  The SDK
   writes one for an id it has no row for, too. *)
spaceDelete(dev, id) ==
    /\ ~isDerivedSpaceId(dev, id)
    /\ St(dev, id) # "deleted"
    /\ PutRow(dev, id, "deleted")
    /\ stored' = [stored EXCEPT ![dev] = @ \ {id}]
    /\ indexed' = [indexed EXCEPT ![dev] = @ \ {id}]
    /\ UNCHANGED <<acl, passes, asked>>

(* POST /v1/spaces/derived/:name: refused on a tombstone, else idempotent. *)
derivedSpaceCreate(dev, id) ==
    /\ id \in Derived
    /\ St(dev, id) # "deleted"
    /\ Activate(dev, id)
    /\ indexed' = [indexed EXCEPT ![dev] = @ \cup {id}]
    /\ UNCHANGED <<acl, passes>>

----------------------------------------------------------------------------
(* Joining a shared space. *)

(* A guest token: no request and no approval.  A row of a member, or a
   tombstone, refuses it. *)
JoinGuest(dev, id) ==
    /\ id \in guests
    /\ St(dev, id) \in {"none", "withdrawn", "guest_revoked"}
    /\ Activate(dev, id)
    /\ UNCHANGED <<indexed, acl, passes>>

(* An invite token: a tombstone and a revoked invite refuse it; otherwise a
   request is posted and the row is joining. *)
spaceJoin(dev, id) ==
    /\ id \in invites
    /\ chain[id] = "none"
    /\ St(dev, id) \in {"none", "withdrawn"}
    /\ chain' = [chain EXCEPT ![id] = "requested"]
    /\ PutRow(dev, id, "joining")
    /\ asked' = asked \cup {id}
    /\ UNCHANGED <<local, invites, guests, passes>>

(* The withdrawal goes to the chain, from any device that shows the pending
   row: the row settles as withdrawn when no membership stands behind it,
   whoever ended the request; an accepted request is left alone. *)
aclCancelJoin(dev, id) ==
    /\ id \in Shared
    /\ St(dev, id) = "joining" /\ chain[id] # "member"
    /\ chain' = [chain EXCEPT ![id] = "none"]
    /\ PutRow(dev, id, "withdrawn")
    /\ UNCHANGED <<local, invites, guests, passes, asked>>

(* External: the SDK settles a joining row from the chain. *)
SettleJoin(dev, id) ==
    /\ id \in Shared
    /\ St(dev, id) = "joining"
    /\ chain[id] # "requested"
    /\ PutRow(dev, id, IF chain[id] = "member" THEN "active" ELSE "withdrawn")
    /\ UNCHANGED <<local, acl, passes, asked>>

----------------------------------------------------------------------------
(* The other account's side of a shared space: its membership handlers. *)

Chain(id, from, to) ==
    /\ chain[id] \in from
    /\ chain' = [chain EXCEPT ![id] = to]
    /\ UNCHANGED <<rows, local, invites, guests, passes, asked>>

aclAccept(id)  == Chain(id, {"requested"}, "member")
aclDecline(id) == Chain(id, {"requested"}, "none")
aclAdd(id)     == Chain(id, {"none", "requested"}, "member")
aclRemove(id)  == Chain(id, {"member"}, "none")

(* The invite goes, and every member with it. *)
aclStopSharing(id) ==
    /\ id \in invites
    /\ invites' = invites \ {id}
    /\ chain' = [chain EXCEPT ![id] = "none"]
    /\ UNCHANGED <<rows, local, guests, passes, asked>>

inviteCreate(id) ==
    /\ id \notin invites
    /\ invites' = invites \cup {id}
    /\ UNCHANGED <<rows, local, chain, guests, passes, asked>>

inviteRevoke(id) ==
    /\ id \in invites
    /\ invites' = invites \ {id}
    /\ UNCHANGED <<rows, local, chain, guests, passes, asked>>

(* A revoked guest key ends every copy that was joined with it. *)
guestKeyRevoke(id) ==
    /\ id \in guests
    /\ guests' = guests \ {id}
    /\ UNCHANGED <<rows, local, chain, invites, passes, asked>>

(* The account leaves by itself. *)
aclSelfRemove(dev, id) ==
    /\ id \in Shared
    /\ St(dev, id) = "active"
    /\ Chain(id, {"member"}, "none")

----------------------------------------------------------------------------
(* Direct-add invites: the account is a member already, and the row decides
   whether the space is loaded. *)

(* External: the inbox notifier writes the pending row. *)
InviteArrives(dev, id) ==
    /\ id \in Shared
    /\ chain[id] = "member"
    /\ St(dev, id) = "none"
    /\ PutRow(dev, id, "invite_pending")
    /\ UNCHANGED <<local, acl, passes, asked>>

(* Content that cannot be pulled yet is loaded in the background: 202. *)
spaceInviteAccept(dev, id) ==
    /\ St(dev, id) \in {"invite_pending", "invite_declined"}
    /\ PutRow(dev, id, "active")
    /\ asked' = asked \cup {id}
    /\ \/ stored' = [stored EXCEPT ![dev] = @ \cup {id}]
       \/ UNCHANGED stored
    /\ UNCHANGED <<indexed, acl, passes>>

spaceInviteDecline(dev, id) ==
    /\ St(dev, id) = "invite_pending"
    /\ PutRow(dev, id, "invite_declined")
    /\ UNCHANGED <<local, acl, passes, asked>>

----------------------------------------------------------------------------
(* One-to-one spaces. *)

(* A device-local row, written only where there is none. *)
spaceOneToOneRegisterIncoming(dev, id) ==
    /\ id \in Direct
    /\ St(dev, id) = "none"
    /\ Cardinality(Known \cup {id}) <= MaxSpaces
    /\ row' = [row EXCEPT ![dev][id].st = "one_to_one_pending"]
    /\ UNCHANGED <<writes, local, acl, passes, asked>>

(* Opening overrides a decline and a deletion. *)
spaceOneToOne(dev, id) ==
    /\ id \in Direct
    /\ St(dev, id) # "active"
    /\ Activate(dev, id)
    /\ UNCHANGED <<indexed, acl, passes>>

spaceOneToOneAccept(dev, id) ==
    /\ St(dev, id) = "one_to_one_pending"
    /\ Activate(dev, id)
    /\ UNCHANGED <<indexed, acl, passes>>

spaceOneToOneDecline(dev, id) ==
    /\ St(dev, id) = "one_to_one_pending"
    /\ PutRow(dev, id, "one_to_one_declined")
    /\ UNCHANGED <<local, acl, passes, asked>>

----------------------------------------------------------------------------
(* The boot pass over one derived id after the other: look in the local
   list, converge the list if it is not there, open, converge the index,
   read the registry.  A wait that expires ends the pass over the id until
   the next boot. *)

derivedSpaceListed(dev, id) == St(dev, id) \notin {"none", "deleted"}

Pass(dev, id, from, to) ==
    /\ boot[dev][id] = from
    /\ \A other \in Derived \ {id} : boot[dev][other] \in {"bootstrap", "done"}
    /\ boot' = [boot EXCEPT ![dev][id] = to]

(* Mutant of Absent: a space found nowhere is created. *)
AbsentCreates(dev, id) ==
    /\ Pass(dev, id, "converged", "open")
    /\ row' = [row EXCEPT ![dev][id] = [st |-> "active", at |-> writes]]
    /\ stored' = [stored EXCEPT ![dev] = @ \cup {id}]
    /\ UNCHANGED <<writes, indexed, acl, read, asked>>

(* Listed nowhere: nothing is created, the pass is over. *)
Absent(dev, id) ==
    /\ Pass(dev, id, "converged", "done")
    /\ UNCHANGED <<rows, local, acl, read, asked>>

ListCheck(dev, id) ==
    /\ Pass(dev, id, "bootstrap", IF derivedSpaceListed(dev, id) THEN "open" ELSE "list")
    /\ UNCHANGED <<rows, local, acl, read, asked>>

(* External: the row of every id reaches dev from the device from[id] when it
   is newer there; one that is no longer active takes the local content. *)
Receive(dev, from) ==
    LET newer == {id \in Ids : row[from[id]][id].at > row[dev][id].at}
        ended == {id \in newer : row[from[id]][id].st # "active"}
    IN /\ row' = [row EXCEPT ![dev] = [id \in Ids |-> IF id \in newer THEN row[from[id]][id]
                                                                      ELSE row[dev][id]]]
       /\ stored' = [stored EXCEPT ![dev] = @ \ ended]
       /\ indexed' = [indexed EXCEPT ![dev] = @ \ ended]

(* WaitListSynced brings every row; then the list is looked at again. *)
ListConverged(dev, id) ==
    /\ Pass(dev, id, "list", "converged")
    /\ \E newest \in [Ids -> Devices] :
        /\ \A i \in Ids, e \in Devices : row[newest[i]][i].at >= row[e][i].at
        /\ Receive(dev, newest)
    /\ UNCHANGED <<writes, acl, read, asked>>

ListAgain(dev, id) ==
    /\ derivedSpaceListed(dev, id)
    /\ Pass(dev, id, "converged", "open")
    /\ UNCHANGED <<rows, local, acl, read, asked>>

Open(dev, id) ==
    /\ Pass(dev, id, "open", IF St(dev, id) = "active" THEN "index" ELSE "done")
    /\ Loaded(dev, id)
    /\ UNCHANGED <<rows, indexed, acl, read, asked>>

(* Mutant of IndexConverged: a wait that expires goes on to the registry. *)
IndexConvergedLate(dev, id) ==
    /\ Pass(dev, id, "index", "registry")
    /\ \/ indexed' = [indexed EXCEPT ![dev] = @ \cup {id}]
       \/ UNCHANGED indexed
    /\ UNCHANGED <<rows, stored, acl, read, asked>>

IndexConverged(dev, id) ==
    /\ Pass(dev, id, "index", "registry")
    /\ indexed' = [indexed EXCEPT ![dev] = @ \cup {id}]
    /\ UNCHANGED <<rows, stored, acl, read, asked>>

WaitExpired(dev, id) ==
    /\ \E wait \in {"list", "index"} : Pass(dev, id, wait, "done")
    /\ UNCHANGED <<rows, local, acl, read, asked>>

ReadRegistry(dev, id) ==
    /\ Pass(dev, id, "registry", "done")
    /\ read' = read \cup {<<dev, id>>}
    /\ UNCHANGED <<rows, local, acl, asked>>

adoptDerivedSetup(dev, id) ==
    \/ ListCheck(dev, id)
    \/ ListConverged(dev, id)
    \/ ListAgain(dev, id)
    \/ ~derivedSpaceListed(dev, id) /\ Absent(dev, id)
    \/ Open(dev, id)
    \/ IndexConverged(dev, id)
    \/ WaitExpired(dev, id)
    \/ ReadRegistry(dev, id)

----------------------------------------------------------------------------
(* External: one synced row reaches a device. *)
Sync(dev, id) ==
    \E other \in Devices :
        /\ row[other][id].at > row[dev][id].at
        /\ Receive(dev, [i \in Ids |-> IF i = id THEN other ELSE dev])
        /\ UNCHANGED <<writes, acl, passes, asked>>

OwnAct(dev, id) ==
    \/ resolveSpace(dev, id)
    \/ spaceGet(dev, id)
    \/ spaceCreate(dev, id)
    \/ spaceDelete(dev, id)
    \/ derivedSpaceCreate(dev, id)
    \/ JoinGuest(dev, id)
    \/ aclCancelJoin(dev, id)
    \/ SettleJoin(dev, id)
    \/ InviteArrives(dev, id)
    \/ spaceInviteAccept(dev, id)
    \/ spaceInviteDecline(dev, id)
    \/ spaceOneToOneRegisterIncoming(dev, id)
    \/ spaceOneToOne(dev, id)
    \/ spaceOneToOneAccept(dev, id)
    \/ spaceOneToOneDecline(dev, id)
    \/ Sync(dev, id)

OwnerAct(id) ==
    \/ aclAccept(id)
    \/ aclDecline(id)
    \/ aclAdd(id)
    \/ aclRemove(id)
    \/ aclStopSharing(id)
    \/ inviteCreate(id)
    \/ inviteRevoke(id)
    \/ guestKeyRevoke(id)

SpacesNext ==
    \/ \E dev \in Devices, id \in Ids : OwnAct(dev, id)
    \/ \E dev \in Devices, id \in Shared : spaceJoin(dev, id) \/ aclSelfRemove(dev, id)
    \/ \E dev \in Devices : spaceList(dev)
    \/ \E dev \in Devices, id \in Derived : adoptDerivedSetup(dev, id)
    \/ \E id \in Shared : OwnerAct(id)

SpacesSpec == SpacesInit /\ [][SpacesNext]_spaces

----------------------------------------------------------------------------
(* Every variable keeps its type. *)
SpacesTypeOK ==
    /\ row \in [Devices -> [Ids -> [st : Statuses, at : 0..MaxWrites]]]
    /\ stored \in [Devices -> SUBSET Ids]
    /\ indexed \in [Devices -> SUBSET Ids]
    /\ chain \in [Shared -> {"none", "requested", "member"}]
    /\ boot \in [Devices -> [Derived -> {"bootstrap", "list", "converged", "open", "index",
                                          "registry", "done"}]]
    /\ read \subseteq Devices \X Derived
    /\ writes \in 0..MaxWrites /\ asked \subseteq Ids
    /\ invites \subseteq Shared /\ guests \subseteq Shared

(* A derived space is permanent: whatever the devices delete, and in
   whatever order rows reach them, no device ever holds a tombstone for an
   id of the registry, not even one deleted where it had no row yet
   (spaceDelete's registry check). *)
DerivedKept == \A dev \in Devices, id \in Derived : St(dev, id) # "deleted"

(* Nothing the account did not ask for is ever on a device: content is
   there only after some device made an explicit call for the space, and
   listing, reading, an invite or a request that arrives and the boot pass
   are not such calls (spaceList, spaceGet, bootstrapDerivedSetups). *)
NothingUnasked == \A dev \in Devices : stored[dev] \subseteq asked

(* The boot pass reads a registry only where the space's index is local: an
   index wait that expires ends the pass instead of reading an empty
   registry (adoptDerivedSetup). *)
NoBlindRead ==
    \A dev \in Devices, id \in Derived :
        <<dev, id>> \in read => id \in indexed[dev]

(* SpacesSound: a derived space is never deleted, nothing unasked for
   reaches a device, and the boot pass reads no registry it does not have. *)
SpacesSound == SpacesTypeOK /\ DerivedKept /\ NothingUnasked /\ NoBlindRead

----------------------------------------------------------------------------
(* The inductive invariant, in four parts. *)

Phases == {"bootstrap", "list", "converged", "open", "index", "registry", "done"}
Row == [st : Statuses, at : 0..MaxWrites]

(* A row that is active, or will be once a request is accepted, is of an id
   that was asked for; a derived id's row is active or was never written. *)
Wanted == \A dev \in Devices, id \in Ids : St(dev, id) \in {"active", "joining"} => id \in asked
DerivedRows ==
    \A dev \in Devices, id \in Derived :
        St(dev, id) = "active" \/ (St(dev, id) = "none" /\ row[dev][id].at = 0)
RowsInv ==
    /\ row \in [Devices -> [Ids -> Row]] /\ writes \in 0..MaxWrites
    /\ Wanted /\ DerivedRows

(* What is on a device was asked for. *)
ContentInv ==
    /\ stored \in [Devices -> SUBSET Ids] /\ indexed \in [Devices -> SUBSET Ids]
    /\ asked \subseteq Ids
    /\ NothingUnasked

(* A pass is at the registry only where the index is local. *)
PassesInv ==
    /\ boot \in [Devices -> [Derived -> Phases]] /\ read \subseteq Devices \X Derived
    /\ \A dev \in Devices, id \in Derived : boot[dev][id] = "registry" => id \in indexed[dev]
    /\ NoBlindRead

AclInv ==
    /\ chain \in [Shared -> {"none", "requested", "member"}]
    /\ invites \subseteq Shared /\ guests \subseteq Shared

SpacesInv == RowsInv /\ ContentInv /\ PassesInv /\ AclInv
=============================================================================
