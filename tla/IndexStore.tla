------------------------------ MODULE IndexStore ------------------------------
(***************************************************************************)
(* The index database of an account over its boots: the stamp in `_meta',  *)
(* the rebuild a refused database gets, and the in-place move of a space's *)
(* collection onto the layout with the object's name in its own full-text  *)
(* field (internal/indexer/store.go; internal/server/sdk.go openIndexer).  *)
(*                                                                         *)
(* A boot is a build with a chunk target and a configured dimension.  The  *)
(* worker, the embed loop and other writers of a space open its collection *)
(* at once; any-store gives them one write transaction at a time.          *)
(***************************************************************************)
EXTENDS Integers, FiniteSets

CONSTANTS Openers,      \* goroutines that open the space's collection
          Targets,      \* chunk targets of the builds that may run
          Dims,         \* index.vector.dim values, 0 = learn it
          Learned,      \* dimensions an embedder may answer with
          Records,      \* "name" is the object's name record
          MaxBoots, MaxWrites

VARIABLES
  db,      \* [meta, fts, docs, torn]: what is on disk
  proc,    \* the boot: down, refused, removed, opened, reopened, up, failed
  build,   \* chunk target of the running build
  mem,     \* Store: [dim, runes, cached, retry]
  op,      \* opener -> where it is in spaceColl
  lock,    \* opener that holds the write transaction
  tx,      \* the collection as the rewrite in flight sees it
  rewrites,
  boots, writes

vars == <<db, proc, build, mem, op, lock, tx, rewrites, boots, writes>>

CurrentSchema == 8
NoMeta == [schema |-> 0, dim |-> 0, pin |-> 0]
NoDoc == [field |-> "none", target |-> 0]
Nobody == "nobody"

Fresh == [meta |-> NoMeta, fts |-> "none", docs |-> [r \in Records |-> NoDoc], torn |-> FALSE]
Blank == [dim |-> 0, runes |-> 0, cached |-> FALSE, retry |-> FALSE]

(* A database an earlier build left: v6, or v7 with every doc in `data'. *)
Older ==
  {[meta |-> [schema |-> s, dim |-> 0, pin |-> t], fts |-> "old",
    docs |-> [r \in Records |-> [field |-> "data", target |-> t]], torn |-> FALSE]
     : s \in {6, 7}, t \in Targets}

Init ==
  /\ db \in {Fresh} \cup Older
  /\ proc = "down"
  /\ build \in Targets
  /\ mem = Blank
  /\ op = [o \in Openers |-> "idle"]
  /\ lock = Nobody
  /\ tx = [fts |-> "none", docs |-> [r \in Records |-> NoDoc]]
  /\ rewrites = 0
  /\ boots = 0
  /\ writes = 0

Coll == <<op, lock, tx, rewrites>>

-----------------------------------------------------------------------------
(* The boot *)

(* writeMeta records the schema, the dimension and the store's own chunk   *)
(* target, which is 0 until PinChunkRunes has supplied it.                 *)
Stamp(dim, runes) == [schema |-> CurrentSchema, dim |-> dim, pin |-> runes]

(* checkMeta refuses another schema or a contradicting dimension. *)
MetaRefused(meta, dim) ==
  /\ meta # NoMeta
  /\ \/ meta.schema \notin {CurrentSchema, CurrentSchema - 1}
     \/ dim # 0 /\ meta.dim # 0 /\ dim # meta.dim

(* Mutant of Carried: the restamp of a v7 database leaves the pin behind. *)
CarriedNever(meta) == 0

(* The chunk target checkMeta knows: a v7 restamp carries the stored one. *)
Carried(meta) == IF meta.schema = CurrentSchema - 1 THEN meta.pin ELSE 0

(* checkMeta on a database it accepts: the dimension is adopted from the   *)
(* side that knows it, and a stamp that differs is written.                *)
Checked(meta, dim) ==
  LET d == IF dim = 0 THEN meta.dim ELSE dim
  IN IF meta.schema = CurrentSchema /\ d = meta.dim THEN meta ELSE Stamp(d, Carried(meta))

(* OpenStore: a torn database (the quick check after an unclean shutdown)  *)
(* is refused like one this build cannot read.                             *)
OpenStore(target, dim) ==
  /\ proc = "down" /\ boots < MaxBoots
  /\ boots' = boots + 1
  /\ build' = target
  /\ IF db.torn \/ MetaRefused(db.meta, dim)
     THEN proc' = "refused" /\ mem' = [Blank EXCEPT !.dim = dim] /\ UNCHANGED db
     ELSE LET meta == Checked(db.meta, dim)
          IN /\ proc' = "opened"
             /\ mem' = [Blank EXCEPT !.dim = meta.dim, !.runes = Carried(db.meta)]
             /\ db' = [db EXCEPT !.meta = meta]
  /\ UNCHANGED <<Coll, writes>>

(* openIndexerWith: a refused database is removed and opened once more.    *)
(* removeIndexDB takes the WAL and the dirty sentinel along.               *)
RemoveIndexDB ==
  /\ proc = "refused"
  /\ proc' = "removed"
  /\ db' = Fresh
  /\ rewrites' = 0
  /\ UNCHANGED <<build, mem, op, lock, tx, boots, writes>>

Reopen ==
  /\ proc = "removed"
  /\ proc' = "reopened"
  /\ db' = [db EXCEPT !.meta = Checked(db.meta, mem.dim)]
  /\ UNCHANGED <<build, mem, Coll, boots, writes>>

(* PinChunkRunes: a database pinned to another target is refused, an       *)
(* unpinned one is adopted and pinned.  A second refusal fails the boot.   *)
PinChunkRunes ==
  /\ proc \in {"opened", "reopened"}
  /\ IF db.meta.pin \notin {0, build}
     THEN proc' = (IF proc = "opened" THEN "refused" ELSE "failed") /\ UNCHANGED <<db, mem>>
     ELSE /\ proc' = "up"
          /\ mem' = [mem EXCEPT !.runes = build]
          /\ db' = [db EXCEPT !.meta = Stamp(mem.dim, build)]
  /\ UNCHANGED <<build, Coll, boots, writes>>

(* EnsureDim, at the first successful embedding; another dimension than    *)
(* the known one fails the round and changes nothing.                      *)
EnsureDim(dim) ==
  /\ proc = "up" /\ mem.dim = 0 /\ lock = Nobody
  /\ db' = [db EXCEPT !.meta = Stamp(dim, mem.runes)]
  /\ mem' = [mem EXCEPT !.dim = dim]
  /\ UNCHANGED <<proc, build, Coll, boots, writes>>

(* The process ends at any point: an open transaction never commits, and   *)
(* an unclean end may leave the file torn.                                 *)
Crash ==
  /\ proc # "down"
  /\ proc' = "down"
  /\ mem' = Blank
  /\ op' = [o \in Openers |-> "idle"]
  /\ lock' = Nobody
  /\ db' \in {db, [db EXCEPT !.torn = TRUE]}
  /\ UNCHANGED <<build, tx, rewrites, boots, writes>>

-----------------------------------------------------------------------------
(* spaceColl: the write side opens a collection *)

Go(o, pc) == op' = [op EXCEPT ![o] = pc]

ftsLacksName(fts) == fts = "old"

(* A collection on the old layout queues for the rewrite, unless a failed  *)
(* one is left alone for ftsUpgradeBackoff.                                *)
SpaceColl(o) ==
  /\ proc = "up" /\ op[o] = "idle" /\ ~mem.cached
  /\ ~(ftsLacksName(db.fts) /\ mem.retry)
  /\ Go(o, IF ftsLacksName(db.fts) THEN "queue" ELSE "ensure")
  /\ UNCHANGED <<db, proc, build, mem, lock, tx, rewrites, boots, writes>>

(* Mutant of UpgradeFTS: the field list is not read again under the lock. *)
UpgradeFTSBlind(o) ==
  /\ op[o] = "queue" /\ lock = Nobody
  /\ Go(o, "drop") /\ lock' = o /\ tx' = [fts |-> db.fts, docs |-> db.docs]
  /\ UNCHANGED <<db, proc, build, mem, rewrites, boots, writes>>

(* upgradeFTS under the write lock: a caller whose context ended while it  *)
(* queued leaves, and the second one in finds the first one's work.        *)
UpgradeFTS(o) ==
  /\ op[o] = "queue" /\ lock = Nobody
  /\ \/ Go(o, "idle") /\ UNCHANGED <<lock, tx>>
     \/ ~ftsLacksName(db.fts) /\ Go(o, "ensure") /\ UNCHANGED <<lock, tx>>
     \/ /\ ftsLacksName(db.fts)
        /\ Go(o, "drop") /\ lock' = o /\ tx' = [fts |-> db.fts, docs |-> db.docs]
  /\ UNCHANGED <<db, proc, build, mem, rewrites, boots, writes>>

(* rewriteFTS: the index is dropped, the name's text moves to its field,   *)
(* the indexes are ensured, and all of it commits at once.                 *)
DropIndex(o) ==
  /\ op[o] = "drop"
  /\ tx' = [tx EXCEPT !.fts = "none"]
  /\ Go(o, "move")
  /\ UNCHANGED <<db, proc, build, mem, lock, rewrites, boots, writes>>

(* Mutant of MoveNames: the text stays where the old layout had it. *)
MoveNamesNot(o) ==
  /\ op[o] = "move"
  /\ Go(o, "commit")
  /\ UNCHANGED <<db, proc, build, mem, lock, tx, rewrites, boots, writes>>

MoveNames(o) ==
  /\ op[o] = "move"
  /\ tx' = [tx EXCEPT !.docs["name"] = IF @.field = "data" THEN [@ EXCEPT !.field = "name"] ELSE @]
  /\ Go(o, "commit")
  /\ UNCHANGED <<db, proc, build, mem, lock, rewrites, boots, writes>>

CommitRewrite(o) ==
  /\ op[o] = "commit"
  /\ db' = [db EXCEPT !.fts = "new", !.docs = tx.docs]
  /\ mem' = [mem EXCEPT !.cached = TRUE]
  /\ rewrites' = rewrites + 1
  /\ lock' = Nobody
  /\ Go(o, "idle")
  /\ UNCHANGED <<proc, build, tx, boots, writes>>

(* A rewrite that fails is rolled back; only a failure of its own, not its *)
(* context's end, starts the backoff.                                      *)
RewriteFails(o) ==
  /\ op[o] \in {"drop", "move", "commit"}
  /\ \E own \in BOOLEAN : mem' = [mem EXCEPT !.retry = @ \/ own]
  /\ lock' = Nobody
  /\ Go(o, "idle")
  /\ UNCHANGED <<db, proc, build, tx, rewrites, boots, writes>>

BackoffEnds ==
  /\ mem.retry
  /\ mem' = [mem EXCEPT !.retry = FALSE]
  /\ UNCHANGED <<db, proc, build, Coll, boots, writes>>

(* EnsureIndex on a collection that is new, or already on the layout. *)
EnsureIndex(o) ==
  /\ op[o] = "ensure" /\ lock = Nobody
  /\ db' = [db EXCEPT !.fts = "new"]
  /\ mem' = [mem EXCEPT !.cached = TRUE]
  /\ Go(o, "idle")
  /\ UNCHANGED <<proc, build, lock, tx, rewrites, boots, writes>>

(* ApplyPage lands a record's doc on the opened collection: the name in    *)
(* its field, on the boundary the running build chunks with.               *)
ApplyPage(r) ==
  /\ mem.cached /\ lock = Nobody /\ writes < MaxWrites
  /\ db' = [db EXCEPT !.docs[r] = [field |-> IF r = "name" THEN "name" ELSE "data",
                                   target |-> build]]
  /\ writes' = writes + 1
  /\ UNCHANGED <<proc, build, mem, Coll, boots>>

Next ==
  \/ \E t \in Targets, d \in Dims : OpenStore(t, d)
  \/ RemoveIndexDB \/ Reopen \/ PinChunkRunes \/ Crash \/ BackoffEnds
  \/ \E d \in Learned : EnsureDim(d)
  \/ \E o \in Openers :
       \/ SpaceColl(o) \/ UpgradeFTS(o) \/ DropIndex(o) \/ MoveNames(o)
       \/ CommitRewrite(o) \/ RewriteFails(o) \/ EnsureIndex(o)
  \/ \E r \in Records : ApplyPage(r)

Spec == Init /\ [][Next]_vars

-----------------------------------------------------------------------------
TypeOK ==
  /\ proc \in {"down", "refused", "removed", "opened", "reopened", "up", "failed"}
  /\ db.fts \in {"none", "old", "new"} /\ db.meta.pin \in Targets \cup {0}
  /\ op \in [Openers -> {"idle", "queue", "drop", "move", "commit", "ensure"}]
  /\ lock \in Openers \cup {Nobody}

Stored == {db.docs[r] : r \in Records} \ {NoDoc}

(* "mixing boundaries leaves the same text ranking differently by when it  *)
(* was last written" (store.go PinChunkRunes): once an index is up, every  *)
(* doc in it was written on the chunk target of the build that runs,       *)
(* through restamps, rebuilds, and boots that ended between the two, and   *)
(* one rebuild is always enough to come up.                                *)
OneBoundary ==
  /\ proc # "failed"
  /\ proc = "up" => \A d \in Stored : d.target = build

(* What spaceCollRead serves: the cached handle, or a collection whose     *)
(* full-text index carries the name field.                                 *)
Served == proc = "up" /\ (mem.cached \/ db.fts = "new")

(* A collection a read is served from has its name doc in the name field,  *)
(* whoever wrote it and whenever the rewrite was cut, and the rewrite runs *)
(* only over the old layout, once however many openers queued for it       *)
(* (store.go upgradeFTS, spaceCollRead).                                   *)
UpgradeSound ==
  /\ Served => db.docs["name"].field \in {"none", "name"} /\ db.fts = "new"
  /\ rewrites <= 1
  /\ \A o \in Openers : op[o] = "drop" => tx.fts = "old"
=============================================================================
