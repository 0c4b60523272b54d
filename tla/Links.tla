-------------------------------- MODULE Links --------------------------------
(***************************************************************************)
(* The link index of one space (indexer/links_store.go, links.go, the link *)
(* side of worker.go, and the chunkers of internal/index): the edges found *)
(* in an object's records are kept in a store beside the text docs, behind *)
(* the same cursor, by an exact diff of what the chunkers report, across   *)
(* crashes and the backfill of an older layout; a reader of backlinks      *)
(* follows them through the links.updated signal.                          *)
(*                                                                         *)
(* An object has one record of the prop chunker (its row: streamed when    *)
(* the row changed, the collection's edges replaced), one of a reconciling *)
(* chunker (the whole set at every report), and the records of a streaming *)
(* one (those past the cursor), whose collection only a member of its      *)
(* owning type holds and whose declaration may be removed.  A record       *)
(* carries one canonical target or none (a tombstone, a cleared value).    *)
(* A page takes every change past the cursor; pages are SpaceIndex's.      *)
(***************************************************************************)
EXTENDS Naturals, FiniteSets

CONSTANTS
    Objects, Streamed,  \* objects; the records of the streaming chunker
    Targets, None,      \* canonical targets; no reference
    MaxChanges,         \* bound: changes applied by the SDK
    MaxBoots,           \* bound: starts of the worker
    QuietWrites,        \* records may be written without their object's row
    TornCold,           \* a run may end between the first page and its cursor
    Unreadable          \* an object may be unreadable during a backfill

VARIABLES
    rec,                \* rec[o][r]: [to, seq]
    member, rowSeq,     \* per object: the type attached; its row's applySeq
    objSeq, joined,     \* per object: its last change; when the type was attached
    gone,               \* deleted objects
    declared, removed,  \* the collection is declared; the axis at its removal
    seq,                \* the axis: applySeq of the last change
    edges, cursor, stamp, \* the store: edges, the cursor row and its links stamp
    pc, since, page,    \* the worker: its step, its cursor and its page
    stamped, failed,    \* linksStamped, linksBackfillFailed
    known,              \* the chunker has seen the collection declared
    boots,
    view                \* what a reader of each target's backlinks holds

sdk == <<rec, member, rowSeq, objSeq, joined, gone, declared, removed, seq>>
store == <<edges, cursor, stamp>>
worker == <<pc, since, page, stamped, failed, known, boots>>
vars == <<sdk, store, worker, view>>

Records == {"prop", "block"} \cup Streamed
Edge == Objects \X Records \X (Targets \cup {None})
Unread == [t \in Targets |-> <<>>]
NoPage == [last |-> 0, ups |-> {}, dels |-> {}, cleared |-> {}, touched |-> {}]

Layouts == {"none", "current"}

TypeOK ==
    /\ rec \in [Objects -> [Records -> [to : Targets \cup {None}, seq : Nat]]]
    /\ member \in [Objects -> BOOLEAN] /\ gone \subseteq Objects
    /\ edges \subseteq Edge /\ cursor \in 0..seq /\ stamp \in Layouts
    /\ pc \in {"down", "start", "backfill", "read", "apply", "signal", "cursor", "stamp", "idle"}

(* A space never indexed, or one indexed before the current layout: its     *)
(* edges, if it has any, carry keys no record's target has now.             *)
Init ==
    /\ \E t \in Targets : rec = [o \in Objects |-> [r \in Records |-> [to |-> t, seq |-> 1]]]
    /\ member = [o \in Objects |-> TRUE] /\ rowSeq = [o \in Objects |-> 1]
    /\ objSeq = rowSeq /\ joined = [o \in Objects |-> 0]
    /\ gone = {} /\ declared = TRUE /\ removed = 0 /\ seq = 1
    /\ \/ cursor = 0 /\ edges = {}
       \/ cursor = 1 /\ edges \in {{}, {<<o, "block", None>> : o \in Objects}}
    /\ stamp = "none" /\ boots = 0 /\ known = FALSE
    /\ pc = "down" /\ since = 0 /\ page = NoPage /\ stamped = FALSE /\ failed = FALSE
    /\ view = Unread

-----------------------------------------------------------------------------
(* The SDK.                                                                 *)

Applied(o) == seq < MaxChanges + 1 /\ o \notin gone /\ seq' = seq + 1
              /\ objSeq' = [objSeq EXCEPT ![o] = seq + 1]

(* A record is written, or deleted.  The row is stamped with the change     *)
(* that modified the object last; a device-local write stamps its record    *)
(* only.                                                                    *)
Write(o, r, t, quiet) ==
    /\ Applied(o) /\ t # rec[o][r].to
    /\ r \in Streamed => member[o] /\ declared
    /\ quiet => QuietWrites /\ r # "prop"
    /\ rec' = [rec EXCEPT ![o][r] = [to |-> t, seq |-> seq + 1]]
    /\ rowSeq' = IF quiet THEN rowSeq ELSE [rowSeq EXCEPT ![o] = seq + 1]
    /\ UNCHANGED <<member, joined, gone, declared, removed, store, worker, view>>

(* The owning type leaves the row, or is attached to it.                    *)
Retype(o) ==
    /\ Applied(o)
    /\ member' = [member EXCEPT ![o] = ~@] /\ rowSeq' = [rowSeq EXCEPT ![o] = seq + 1]
    /\ joined' = IF member[o] THEN joined ELSE [joined EXCEPT ![o] = seq + 1]
    /\ UNCHANGED <<rec, gone, declared, removed, store, worker, view>>

(* A deleted object is purged; the feed announces it once.                  *)
Delete(o) ==
    /\ Applied(o) /\ gone' = gone \cup {o}
    /\ UNCHANGED <<rec, member, rowSeq, joined, declared, removed, store, worker, view>>

(* The collection's declaration is removed.                                 *)
Undeclare ==
    /\ declared /\ seq < MaxChanges + 1
    /\ declared' = FALSE /\ removed' = seq + 1 /\ seq' = seq + 1
    /\ UNCHANGED <<rec, member, rowSeq, objSeq, joined, gone, store, worker, view>>

-----------------------------------------------------------------------------
(* What the chunkers report of an object past a cursor.                     *)

Holds(o) == declared /\ member[o]
RowIn(o, n) == rowSeq[o] > n

(* EvictDatasets: a collection the object cannot hold, or one retired since *)
(* the process started.                                                     *)
Evicted(o) ==
    {r \in Streamed : \/ declared /\ ~member[o]
                      \/ ~declared /\ known}

(* The records whose entries a stream past n carries.                       *)
Reported(o, n) ==
    {"block"} \cup (IF RowIn(o, n) THEN {"prop"} ELSE {})
              \cup {r \in Streamed : Holds(o) /\ rec[o][r].seq > n}

(* Mutant of Scope: a streamed tombstone keeps its edges.                   *)
ScopeLive(o, n) ==
    {"prop", "block"} \cup {r \in Reported(o, n) : rec[o][r].to # None}

(* planLinks: the records whose stored edges the report replaces.  The prop *)
(* chunker's collection is replaced by every run of it.                     *)
Scope(o, n) == {"prop", "block"} \cup Reported(o, n)

(* The edges of what is reported; a link to the source object itself is not *)
(* one.                                                                     *)
Found(o, n) ==
    {<<o, r, rec[o][r].to>> : r \in {q \in Reported(o, n) : rec[o][q].to \notin {None, o}}}

Of(o, S) == {e \in edges : e[1] = o /\ e[2] \in S}

(* diffLinks: against the stored edges, which are not read on the cold      *)
(* cursor.                                                                  *)
Stored(o, n) == IF n > 0 THEN Of(o, Records) ELSE {}
Dels(o, n) == (Stored(o, n) \cap Of(o, Scope(o, n))) \ Found(o, n)
Ups(o, n) == Found(o, n) \ Stored(o, n)

(* linkTargetKey and backlinkKey: what a target's readers ask for.          *)
Key(e) == e[3]
Backlinks(t) == {e \in edges : Key(e) = t}

-----------------------------------------------------------------------------
(* The worker.                                                              *)

Boot ==
    /\ pc = "down" /\ boots < MaxBoots
    /\ pc' = "start" /\ boots' = boots + 1
    /\ UNCHANGED <<sdk, store, since, page, stamped, failed, known, view>>

Crash ==
    /\ pc # "down" /\ boots < MaxBoots
    /\ pc \in {"signal", "cursor"} /\ since = 0 => TornCold
    /\ pc' = "down" /\ since' = 0 /\ page' = NoPage /\ stamped' = FALSE /\ failed' = FALSE
    /\ known' = FALSE /\ view' = Unread
    /\ UNCHANGED <<sdk, store, boots>>

(* Mutant of BackfillNeeded: any stamp on the row will do.                  *)
BackfillNeededStamped == cursor > 0 /\ stamp = "none" /\ edges = {}

BackfillNeeded == cursor > 0 /\ stamp # "current"

(* backfillLinks decides; ResetLinks drops the edges first.                 *)
BackfillLinks ==
    /\ pc = "start"
    /\ IF BackfillNeeded
       THEN edges' = {} /\ pc' = "backfill" /\ UNCHANGED stamped
       ELSE stamped' = (stamp = "current") /\ pc' = "read" /\ UNCHANGED edges
    /\ UNCHANGED <<sdk, cursor, stamp, since, page, failed, known, boots, view>>

(* backfillLinksPages: every object the feed knows, from the first change;  *)
(* an object that cannot be read is skipped.                                *)
BackfillPages ==
    /\ pc = "backfill" /\ pc' = "read" /\ known' = (known \/ declared)
    /\ \E skipped \in SUBSET (Objects \ gone) :
         /\ skipped # {} => Unreadable
         /\ edges' = edges \cup UNION {Ups(o, 0) : o \in Objects \ (gone \cup skipped)}
    /\ stamp' = "current" /\ stamped' = TRUE
    /\ UNCHANGED <<sdk, cursor, since, page, failed, boots, view>>

(* It fails with the edges of no page, or of every page, landed.            *)
BackfillFails ==
    /\ pc = "backfill" /\ pc' = "read" /\ failed' = TRUE
    /\ \/ UNCHANGED <<edges, known>>
       \/ edges' = edges \cup UNION {Ups(o, 0) : o \in Objects \ gone} /\ known' = (known \/ declared)
    /\ UNCHANGED <<sdk, cursor, stamp, since, page, stamped, boots, view>>

(* Mutant of Collected: a deleted object is left to its records.            *)
CollectedDeleted(n) == {o \in Objects : objSeq[o] > n} \ gone

Collected(n) == {o \in Objects : objSeq[o] > n}

(* advancePages up to the page: deleted objects are cleared whole, the      *)
(* others by what their chunkers report now.                                *)
Fetch ==
    /\ pc = "read" /\ since' = cursor
    /\ IF seq = cursor
       THEN pc' = "idle" /\ UNCHANGED <<page, known>>
       ELSE LET live == Collected(cursor) \ gone
                cleared == UNION ({Of(o, Records) : o \in Collected(cursor) \cap gone}
                                  \cup {Of(o, Evicted(o)) : o \in live})
                ups == UNION {Ups(o, cursor) : o \in live}
                dels == UNION {Dels(o, cursor) : o \in live}
            IN /\ pc' = "apply" /\ known' = (known \/ (declared /\ live # {}))
               /\ page' = [last |-> seq, ups |-> ups, dels |-> dels, cleared |-> cleared,
                           touched |-> {Key(e) : e \in ups \cup dels \cup cleared}]
    /\ UNCHANGED <<sdk, store, stamped, failed, boots, view>>

(* ApplyPage, one transaction: clears, then deletes, then writes; one that  *)
(* fails is retried from the cursor on record.                              *)
ApplyPage ==
    /\ pc = "apply"
    /\ \/ edges' = (edges \ (page.cleared \cup page.dels)) \cup page.ups /\ pc' = "signal"
       \/ pc' = "read" /\ UNCHANGED edges
    /\ UNCHANGED <<sdk, cursor, stamp, since, page, stamped, failed, known, boots, view>>

(* Mutant of OnLinks: only the targets of new edges are reported.           *)
OnLinksAppeared ==
    /\ pc = "signal" /\ pc' = "cursor"
    /\ view' = [t \in Targets |-> IF t \in {Key(e) : e \in page.ups} THEN <<>> ELSE view[t]]
    /\ UNCHANGED <<sdk, store, since, page, stamped, failed, known, boots>>

(* The touched targets are published; a reader of one drops what it holds.  *)
OnLinks ==
    /\ pc = "signal" /\ pc' = "cursor"
    /\ view' = [t \in Targets |-> IF t \in page.touched THEN <<>> ELSE view[t]]
    /\ UNCHANGED <<sdk, store, since, page, stamped, failed, known, boots>>

AdvanceCursor ==
    /\ pc = "cursor"
    /\ cursor' = page.last /\ page' = NoPage
    /\ pc' = IF stamped \/ failed THEN "read" ELSE "stamp"
    /\ UNCHANGED <<sdk, edges, stamp, since, stamped, failed, known, boots, view>>

StampLinksVersion ==
    /\ pc = "stamp" /\ pc' = "read" /\ stamp' = "current" /\ stamped' = TRUE
    /\ UNCHANGED <<sdk, edges, cursor, since, page, failed, known, boots, view>>

(* A change wakes the worker.                                               *)
Wake ==
    /\ pc = "idle" /\ seq > cursor /\ pc' = "read"
    /\ UNCHANGED <<sdk, store, since, page, stamped, failed, known, boots, view>>

(* A backlinks request; those during the worker's start read what the       *)
(* backfill replaces without a signal, and are left out.                    *)
Read(t) ==
    /\ pc \notin {"down", "start", "backfill"} /\ view[t] = <<>>
    /\ view' = [view EXCEPT ![t] = <<Backlinks(t)>>]
    /\ UNCHANGED <<sdk, store, worker>>

Next ==
    \/ \E o \in Objects, r \in Records, t \in Targets \cup {None}, quiet \in BOOLEAN :
         Write(o, r, t, quiet)
    \/ \E o \in Objects : Retype(o)
    \/ \E o \in Objects : Delete(o)
    \/ Undeclare \/ Boot \/ Crash
    \/ BackfillLinks \/ BackfillPages \/ BackfillFails
    \/ Fetch \/ ApplyPage \/ OnLinks \/ AdvanceCursor \/ StampLinksVersion \/ Wake
    \/ \E t \in Targets : Read(t)

Spec == Init /\ [][Next]_vars

-----------------------------------------------------------------------------
AtRest == pc = "idle" /\ seq = cursor

Carried(o) == {<<o, r, rec[o][r].to>> : r \in {q \in Records : rec[o][q].to \notin {None, o}}}

(* At rest no stored edge outlives what it was read from: every edge of an  *)
(* object is one its records carry, a deleted object has none, and neither  *)
(* has a collection the object cannot hold; the edges of a removed          *)
(* declaration are gone from the objects touched since, by the process that *)
(* saw it declared (docs/13-index.md, "Removal semantics").                 *)
EdgesSound ==
    AtRest =>
        \A o \in Objects :
            /\ o \in gone => Of(o, Records) = {}
            /\ Of(o, IF declared THEN Records ELSE Records \ Streamed) \subseteq Carried(o)
            /\ declared /\ ~member[o] => Of(o, Streamed) = {}
            /\ ~declared /\ known /\ objSeq[o] > removed => Of(o, Streamed) = {}

(* At rest, on the current layout, every reference is stored: the prop      *)
(* value, the reconciled record, and the streamed records written since     *)
(* their owner was attached last; a failed backfill keeps the stamp behind. *)
EdgesWhole ==
    AtRest /\ stamp = "current" =>
        \A o \in Objects \ gone : \A e \in Carried(o) :
            \/ e \in edges
            \/ e[2] \in Streamed
               /\ (~declared \/ ~member[o] \/ rec[o][e[2]].seq <= joined[o])

(* A reader that heard nothing of its target since it read holds what the   *)
(* store holds: the signal misses no edge that appeared or vanished.        *)
ReadersCurrent ==
    pc # "signal" => \A t \in Targets : view[t] \in {<<>>, <<Backlinks(t)>>}

(* Together: the link index follows the records and its readers follow it.  *)
LinksFollow == EdgesSound /\ EdgesWhole /\ ReadersCurrent
=============================================================================
