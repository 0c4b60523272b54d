---- MODULE Editor ----
(***************************************************************************)
(* An editor collection of one object: block records in a tree kept by     *)
(* nav.parentId and nav.pos, written one at a time (internal/editor/api.go *)
(* Create, Patch, Delete; handler.go the checks every replica applies),    *)
(* listed in document order (treeOrder), coalesced into the windows the    *)
(* index keeps (window.go, chunker.go), each with the links of its blocks  *)
(* (links.go).                                                             *)
(*                                                                         *)
(* A text is its length; a position is a number; a Create or a Patch looks *)
(* the collection up first and writes afterwards, so that another writer   *)
(* may come in between.                                                    *)
(***************************************************************************)
EXTENDS Integers, FiniteSets, SequencesExt

CONSTANTS Blocks,     \* ids of the blocks ever created, naturals
          Callers,    \* the requests in flight
          Sizes,      \* text lengths; 0 is no text
          Budget,     \* windowBudgetBytes
          MaxWrites   \* writes in all

Root == 0
Middle == 2

VARIABLES recs,     \* block -> [live, dead, parent, pos, heading, size]
          calls,    \* caller -> what it is doing
          writes    \* writes so far

vars == <<recs, calls, writes>>

NoBlock == [live |-> FALSE, dead |-> FALSE, parent |-> Root, pos |-> 0, heading |-> FALSE, size |-> 0]
Live == {b \in Blocks : recs[b].live}

Init ==
    /\ recs = [b \in Blocks |-> NoBlock]
    /\ calls = [c \in Callers |-> [at |-> "idle"]]
    /\ writes = 0

Become(c, r) == calls' = [calls EXCEPT ![c] = r]
Write(b, r) == recs' = [recs EXCEPT ![b] = r] /\ writes' = writes + 1

----------------------------------------------------------------------------
(* The handler's checks                                                    *)

(* validateCreatePayload: a nav, when the payload carries one, must have a *)
(* position; a payload without any passes.                                 *)
validateCreatePayload(nav, pos) == nav => pos > 0

(* validateSet: the allow-list of a patch.  The parent may be any id, of a *)
(* block or of none: the tree is what the replicas make of it.             *)
validateSet(field, v) == field = "pos" => v > 0

----------------------------------------------------------------------------
(* The writes                                                              *)

(* MaxPos and NextPos: past the parent's last child, or the middle.        *)
NextPos(p) ==
    LET kids == {b \in Live : recs[b].parent = p}
    IN IF kids = {} THEN Middle ELSE Max({recs[b].pos : b \in kids}) + 1

(* The id the next create derives.                                         *)
Fresh(b) == \A x \in Blocks : (recs[x].live \/ recs[x].dead) <=> x < b

(* Create: the tail of the parent looked up, then one upsert; two that     *)
(* raced share the position.                                               *)
CreateLookup(c, p) ==
    /\ calls[c].at = "idle" /\ writes < MaxWrites
    /\ p \in Live \cup {Root}
    /\ Become(c, [at |-> "create", parent |-> p, pos |-> NextPos(p)])
    /\ UNCHANGED <<recs, writes>>
CreateWrite(c, b, h, n) ==
    /\ calls[c].at = "create"
    /\ Fresh(b) /\ validateCreatePayload(TRUE, calls[c].pos)
    /\ Write(b, [NoBlock EXCEPT !.live = TRUE, !.parent = calls[c].parent, !.pos = calls[c].pos,
                             !.heading = h, !.size = n])
    /\ Become(c, [at |-> "idle"])

(* A create through the raw modify call, without nav: the record reads as  *)
(* a root block whose position is the empty string.                        *)
RawCreate(b, n) ==
    /\ writes < MaxWrites /\ Fresh(b) /\ validateCreatePayload(FALSE, 0)
    /\ Write(b, [NoBlock EXCEPT !.live = TRUE, !.size = n])
    /\ UNCHANGED calls

(* Patch: the block must be there, then the fields are set; a block        *)
(* deleted in between rejects the patch.                                   *)
PatchLookup(c, b) ==
    /\ calls[c].at = "idle" /\ writes < MaxWrites
    /\ b \in Live
    /\ Become(c, [at |-> "patch", block |-> b])
    /\ UNCHANGED <<recs, writes>>
PatchWrite(c) ==
    LET b == calls[c].block
        Rejected == ~recs[b].live /\ UNCHANGED <<recs, writes>>
        Moved(p) == recs[b].live /\ validateSet("parentId", p) /\ Write(b, [recs[b] EXCEPT !.parent = p])
        Placed(n) == recs[b].live /\ validateSet("pos", n) /\ Write(b, [recs[b] EXCEPT !.pos = n])
        Typed(n) == recs[b].live /\ Write(b, [recs[b] EXCEPT !.size = n])
    IN /\ calls[c].at = "patch"
       /\ Become(c, [at |-> "idle"])
       /\ \/ Rejected
          \/ \E p \in Blocks \cup {Root} : Moved(p)
          \/ \E n \in 1 .. Middle : Placed(n)
          \/ \E n \in Sizes : Typed(n)

(* Delete tombstones one block and leaves its children where they are.     *)
Delete(b) ==
    /\ writes < MaxWrites /\ b \in Live
    /\ Write(b, [NoBlock EXCEPT !.dead = TRUE])
    /\ UNCHANGED calls

----------------------------------------------------------------------------
(* List                                                                    *)

Children(p) ==
    SetToSortSeq({b \in Live : recs[b].parent = p},
                 LAMBDA a, b : recs[a].pos < recs[b].pos \/ (recs[a].pos = recs[b].pos /\ a < b))

(* The walk from a block down, depth first; at most as deep as there are   *)
(* blocks, a cycle being out of the root's reach.                          *)
RECURSIVE Walk(_)
Walk(p) == FlattenSeq([k \in 1 .. Len(Children(p)) |-> <<Children(p)[k]>> \o Walk(Children(p)[k])])

(* Mutant of Orphans: blocks without their parent are left out. *)
OrphansNone == <<>>

(* The blocks whose parent is not there, in the order they were read.       *)
Orphans == SetToSortSeq({b \in Live : recs[b].parent # Root /\ recs[b].parent \notin Live}, <)

treeOrder == Walk(Root) \o Orphans

----------------------------------------------------------------------------
(* Windows                                                                 *)

Start(b) == [ids |-> <<b>>, size |-> recs[b].size]

(* The text is joined by a newline between two members that have some.     *)
Joined(w, b) ==
    [ids |-> Append(w.ids, b),
     size |-> w.size + recs[b].size + (IF w.size > 0 /\ recs[b].size > 0 THEN 1 ELSE 0)]

(* Mutant of Breaks: the block that overflows is taken in first. *)
BreaksLate(w, b) == recs[b].heading \/ w.size > Budget

Breaks(w, b) == recs[b].heading \/ w.size + recs[b].size + 1 > Budget

Flush(acc) == IF acc.cur.size > 0 THEN Append(acc.out, acc.cur) ELSE acc.out

Windows ==
    LET order == treeOrder
        Take(acc, b) ==
            IF acc.cur.ids = <<>> THEN [acc EXCEPT !.cur = Start(b)]
            ELSE IF Breaks(acc.cur, b) THEN [out |-> Flush(acc), cur |-> Start(b)]
            ELSE [acc EXCEPT !.cur = Joined(acc.cur, b)]
    IN Flush(FoldLeft(Take, [out |-> <<>>, cur |-> [ids |-> <<>>, size |-> 0]], order))

(* windowEntries: the index holds one entry a window, keyed by its first   *)
(* block, with the links of every member.                                  *)
EntryKey(w) == Head(w.ids)

----------------------------------------------------------------------------
Next ==
    \/ \E c \in Callers, p \in Blocks \cup {Root} : CreateLookup(c, p)
    \/ \E c \in Callers, b \in Blocks, h \in BOOLEAN, n \in Sizes : CreateWrite(c, b, h, n)
    \/ \E b \in Blocks, n \in Sizes : RawCreate(b, n)
    \/ \E c \in Callers, b \in Blocks : PatchLookup(c, b)
    \/ \E c \in Callers : PatchWrite(c)
    \/ \E b \in Blocks : Delete(b)

Spec == Init /\ [][Next]_vars

----------------------------------------------------------------------------
(* TypeOK: records and calls are of their type. *)
TypeOK ==
    /\ \A b \in Blocks : recs[b].parent \in Blocks \cup {Root} /\ ~(recs[b].live /\ recs[b].dead)
    /\ \A c \in Callers : calls[c].at \in {"idle", "create", "patch"}

(* The chain of live parents from a block up ends at the root, at an orphan *)
(* (whose parent is not live), or not at all.                               *)
RECURSIVE Top(_, _)
Top(b, n) == IF n = 0 \/ recs[b].parent \notin Live THEN b ELSE Top(recs[b].parent, n - 1)
TopOf(b) == Top(b, Cardinality(Blocks))
InTree == {b \in Live : recs[TopOf(b)].parent = Root}
Orphaned == {b \in Live : recs[b].parent \notin Live \cup {Root}}

(* What the listing loses: the live blocks below an orphan (one delete of a *)
(* block with two levels below it makes them, and so does a create under an *)
(* orphan), and those in a cycle of moves or below one.                     *)
BelowOrphan == {b \in Live \ Orphaned : TopOf(b) \in Orphaned}
CutOff == {b \in Live : recs[TopOf(b)].parent \in Live}

(* BodyIndexed (api.go treeOrder; window.go Windows; chunker.go            *)
(* windowEntries): whatever moves, collisions and deletes led there, every *)
(* live block is listed once, parents before their children, but for those *)
(* below an orphan and in or below a cycle, which are in no listing and no *)
(* window (treeOrder appends the orphans "so callers don't lose them": it  *)
(* loses what hangs below them, and lists them in the order of their ids,  *)
(* not of their positions); every listed block that has text is in exactly *)
(* one window; no two windows share a key; no window runs past a heading,  *)
(* nor past its budget unless it is a single block.                        *)
BodyIndexed ==
    LET order == treeOrder
        wins == Windows
        Members(k) == ToSet(wins[k].ids)
    IN /\ Cardinality(ToSet(order)) = Len(order)
       /\ ToSet(order) = Live \ (BelowOrphan \cup CutOff)
       /\ \A b \in InTree : recs[b].parent # Root =>
            \E i, j \in 1 .. Len(order) : i < j /\ order[i] = recs[b].parent /\ order[j] = b
       /\ \A b \in Live : recs[b].size > 0 =>
            Cardinality({k \in 1 .. Len(wins) : b \in Members(k)}) =
                IF b \in BelowOrphan \cup CutOff THEN 0 ELSE 1
       /\ \A k, l \in 1 .. Len(wins) : k # l => EntryKey(wins[k]) # EntryKey(wins[l])
       /\ \A k \in 1 .. Len(wins) :
            /\ \A i \in 2 .. Len(wins[k].ids) : ~recs[wins[k].ids[i]].heading
            /\ wins[k].size > Budget =>
                 Cardinality({b \in Members(k) : recs[b].size > 0}) = 1
====
