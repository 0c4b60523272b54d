------------------------------ MODULE SpaceIndex ------------------------------
(***************************************************************************)
(* One space's index (indexer/worker.go, store.go, embed_backfill.go): the *)
(* alignment at the worker's start, the advance loop that mirrors the      *)
(* SDK's change feed into the store page by page behind a cursor, the      *)
(* sweep for docs indexed without an embedder, and the embed loop beside   *)
(* them, across crashes, rebuilt and restored SDK stores, and runs with    *)
(* and without an embedder.                                                *)
(*                                                                         *)
(* An object is one doc: its content is a version, 0 when it is deleted or *)
(* was never there.  The vector of a doc is the version it was computed    *)
(* from.  The cursor row [seq, gen, embed] is all zero when absent.  The   *)
(* link sink, the full-text layout and chunking are left out.              *)
(***************************************************************************)
EXTENDS Naturals, FiniteSets, FiniteSetsExt

CONSTANTS
    Objects,      \* objects of the space
    Batch,        \* BatchLimit
    MaxChanges,   \* bound: changes the SDK applies
    MaxBoots,     \* bound: starts of the worker
    AlignFaults,  \* what may fail in the alignment: "cursor", "gen", "max", "drop";
                  \* "first": reads may fail before a generation is on record too;
                  \* "cut": a run may end before a drop it began is through
    MayRebuild,   \* the SDK store may be rebuilt between runs
    MayRestore,   \* the SDK store may be restored from a backup between runs
    Embedders,    \* the settings a run may have
    TornRuns      \* the settings of runs that may end between a page and its cursor

ASSUME IndexAssumption ==
    /\ IsFiniteSet(Objects) /\ Batch \in Nat \ {0} /\ MaxChanges \in Nat /\ MaxBoots \in Nat
    /\ AlignFaults \subseteq {"cursor", "gen", "max", "drop", "first", "cut"}
    /\ MayRebuild \in BOOLEAN /\ MayRestore \in BOOLEAN
    /\ Embedders \subseteq BOOLEAN /\ TornRuns \subseteq BOOLEAN

VARIABLES
    source,            \* the SDK store: [gen, ver, seq, max]
    backup,         \* a copy of it
    changes, boots, \* bounds
    restored,       \* the SDK came up on the copy; nothing applied since
    docs, row,      \* the index store: docs and the cursor row
    pc, emb, wgen,  \* the worker: its step, the embedder, w.generation
    cur, page, last, \* the advance's cursor, its page and that page's last seq
    dirty,          \* a change was signalled
    batch,          \* the texts of the embed round in flight
    torn,           \* history: a page has landed and its cursor has not
    aligned         \* history: this start's alignment did all it had to

store == <<docs, row>>
feed == <<source, backup, changes, restored>>
index == <<feed, boots, store, pc, emb, wgen, cur, page, last, dirty, batch, torn, aligned>>

NoDoc == [ver |-> 0, vec |-> 0, pend |-> FALSE]
NoPage == [o \in {} |-> 0]
NoRow == [seq |-> 0, gen |-> 0, embed |-> 0]
Empty == [gen |-> 1, ver |-> [o \in Objects |-> 0], seq |-> [o \in Objects |-> 0], max |-> 0]
Up == pc # "down"

(* The worker has subscribed and its loops run.                             *)
Started == pc \notin {"down", "align", "dropdocs", "droprow", "reset"}

Versions == 0..MaxChanges
SourceStores ==
    {s \in [gen : 1..2, ver : [Objects -> Versions], seq : [Objects -> Nat], max : Nat] :
        \A o \in Objects : s.seq[o] <= s.max /\ (s.seq[o] = 0 => s.ver[o] = 0)}
Docs == [ver : Versions, vec : Versions, pend : BOOLEAN]
Rows == {r \in [seq : Nat, gen : 0..2, embed : Nat] : r.embed <= r.seq}

(* A page or a batch: a version for each object of it.                      *)
Texts(t) == DOMAIN t \subseteq Objects /\ \A o \in DOMAIN t : t[o] \in Versions

IndexTypeOK ==
    /\ source \in SourceStores /\ backup \in SourceStores
    /\ changes \in Versions /\ boots \in 0..MaxBoots /\ restored \in BOOLEAN
    /\ docs \in [Objects -> Docs] /\ row \in Rows
    /\ pc \in {"down", "align", "dropdocs", "droprow", "reset", "sweep", "stamp",
               "read", "fetch", "collect", "apply", "advance", "idle"}
    /\ emb \in BOOLEAN /\ wgen \in 0..2 /\ cur \in Nat /\ last \in Nat
    /\ Texts(page) /\ Texts(batch)
    /\ dirty \in BOOLEAN /\ torn \in BOOLEAN /\ aligned \in BOOLEAN

IndexInit ==
    /\ source = Empty /\ backup = Empty /\ changes = 0 /\ boots = 0 /\ restored = FALSE
    /\ docs = [o \in Objects |-> NoDoc] /\ row = NoRow
    /\ pc = "down" /\ emb = FALSE /\ wgen = 0 /\ cur = 0 /\ page = NoPage /\ last = 0
    /\ dirty = FALSE /\ batch = NoPage /\ torn = FALSE /\ aligned = FALSE

-----------------------------------------------------------------------------
(* The SDK.                                                                 *)

(* A change to an object, or its deletion; a subscribed worker is told.     *)
Change(o, v) ==
    /\ changes < MaxChanges /\ ~restored
    /\ changes' = changes + 1
    /\ source' = [source EXCEPT !.ver[o] = v, !.seq[o] = source.max + 1, !.max = source.max + 1]
    /\ dirty' = (dirty \/ Started)
    /\ UNCHANGED <<backup, restored, boots, store, pc, emb, wgen, cur, page, last, batch, torn,
                   aligned>>

Backup ==
    /\ MayRestore /\ backup # source
    /\ backup' = source
    /\ UNCHANGED <<source, changes, restored, boots, store, pc, emb, wgen, cur, page, last, dirty,
                   batch, torn, aligned>>

(* An older store under the same generation, beneath an index that had      *)
(* caught up.  Nothing new is applied to it before the alignment has read   *)
(* its axis.                                                                *)
Restore ==
    /\ MayRestore /\ pc = "down" /\ source # backup /\ row.seq = source.max
    /\ source' = backup /\ restored' = TRUE
    /\ UNCHANGED <<backup, changes, boots, store, pc, emb, wgen, cur, page, last, dirty, batch,
                   torn, aligned>>

(* The store is rebuilt: a new generation, the live objects renumbered.     *)
Rebuild ==
    /\ MayRebuild /\ pc = "down" /\ source.gen = 1
    /\ LET live == {o \in Objects : source.ver[o] > 0}
       IN \E s \in [Objects -> 0..Cardinality(live)] :
            /\ \A o \in Objects : s[o] = 0 <=> o \notin live
            /\ \A o, p \in live : s[o] = s[p] => o = p
            /\ source' = [source EXCEPT !.gen = 2, !.seq = s, !.max = Cardinality(live)]
    /\ UNCHANGED <<backup, changes, restored, boots, store, pc, emb, wgen, cur, page, last, dirty,
                   batch, torn, aligned>>

-----------------------------------------------------------------------------
(* The worker's start, and the end of a run at any moment.  A drop that is  *)
(* cut leaves the old cursor over an empty index, and only "cut" allows it. *)

Boot(e) ==
    /\ pc = "down" /\ boots < MaxBoots
    /\ boots' = boots + 1
    /\ pc' = "align" /\ emb' = e /\ wgen' = 0
    /\ UNCHANGED <<feed, store, cur, page, last, dirty, batch, torn, aligned>>

Crash ==
    /\ Up /\ boots < MaxBoots
    /\ torn => emb \in TornRuns
    /\ pc \in {"dropdocs", "droprow"} => "cut" \in AlignFaults
    /\ pc' = "down" /\ emb' = FALSE /\ wgen' = 0 /\ cur' = 0 /\ page' = NoPage /\ last' = 0
    /\ dirty' = FALSE /\ batch' = NoPage /\ aligned' = FALSE /\ torn' = FALSE
    /\ UNCHANGED <<feed, boots, store>>

(* The sweep runs only with an embedder and a lagging embed field.          *)
AfterAlign == IF emb /\ row.embed # row.seq THEN "sweep" ELSE "read"

(* alignIndex's two triggers.                                               *)
Reindex ==
    \/ row.gen # 0 /\ row.gen # source.gen
    \/ row.seq > source.max

MayFail(read) == read \in AlignFaults /\ (row.gen # 0 \/ "first" \in AlignFaults)

(* alignIndex with its reads; one that fails leaves everything alone.  The  *)
(* epoch is stamped on a row that has none.                                 *)
AlignIndex ==
    /\ pc = "align"
    /\ \/ /\ MayFail("cursor")
          /\ wgen' = 0 /\ pc' = AfterAlign /\ aligned' = FALSE /\ UNCHANGED row
       \/ /\ MayFail("gen")
          /\ wgen' = row.gen /\ pc' = AfterAlign /\ aligned' = FALSE /\ UNCHANGED row
       \/ /\ MayFail("max") /\ row.seq > 0 /\ (row.gen = 0 \/ row.gen = source.gen)
          /\ wgen' = source.gen /\ pc' = AfterAlign /\ aligned' = FALSE /\ UNCHANGED row
       \/ /\ Reindex
          /\ wgen' = source.gen /\ pc' = "dropdocs" /\ UNCHANGED <<row, aligned>>
       \/ /\ ~Reindex
          /\ wgen' = source.gen /\ pc' = AfterAlign /\ aligned' = TRUE
          /\ row' = IF row.seq > 0 /\ row.gen = 0 THEN [row EXCEPT !.gen = source.gen] ELSE row
    /\ restored' = FALSE
    /\ UNCHANGED <<source, backup, changes, boots, docs, emb, cur, page, last, dirty, batch,
                   torn>>

(* DropSpace: the docs first, the cursor row last; each may fail, and the   *)
(* worker goes on with what is left.                                        *)
DropDocs ==
    /\ pc = "dropdocs"
    /\ \/ docs' = [o \in Objects |-> NoDoc] /\ pc' = "droprow"
       \/ "drop" \in AlignFaults /\ pc' = AfterAlign /\ UNCHANGED docs
    /\ UNCHANGED <<feed, boots, row, emb, wgen, cur, page, last, dirty, batch, torn, aligned>>

DropRow ==
    /\ pc = "droprow"
    /\ \/ row' = NoRow /\ pc' = "reset"
       \/ "drop" \in AlignFaults /\ pc' = AfterAlign /\ UNCHANGED row
    /\ UNCHANGED <<feed, boots, docs, emb, wgen, cur, page, last, dirty, batch, torn, aligned>>

Merged(seq) == [row EXCEPT !.seq = seq, !.gen = IF wgen # 0 THEN wgen ELSE @]

(* The reset, which may fail too: an absent row reads as cursor zero.       *)
Reset ==
    /\ pc = "reset"
    /\ row' = Merged(0) \/ UNCHANGED row
    /\ pc' = "read" /\ aligned' = TRUE
    /\ UNCHANGED <<feed, boots, docs, emb, wgen, cur, page, last, dirty, batch, torn>>

-----------------------------------------------------------------------------
(* backfillPending.                                                         *)

Unmarked == {o \in Objects : docs[o].ver > 0 /\ docs[o].vec = 0 /\ ~docs[o].pend}
Mark(S) == docs' = [o \in Objects |-> IF o \in S THEN [docs[o] EXCEPT !.pend = TRUE] ELSE docs[o]]

(* The sweep marks every doc that has neither vector nor mark; one that     *)
(* fails has marked some.                                                   *)
Sweep ==
    /\ pc = "sweep"
    /\ \/ Mark(Unmarked) /\ pc' = "stamp"
       \/ \E S \in SUBSET Unmarked : Mark(S) /\ pc' = "read"
    /\ UNCHANGED <<feed, boots, row, emb, wgen, cur, page, last, dirty, batch, torn, aligned>>

StampEmbed ==
    /\ pc = "stamp"
    /\ row' = [row EXCEPT !.embed = row.seq] \/ UNCHANGED row
    /\ pc' = "read"
    /\ UNCHANGED <<feed, boots, docs, emb, wgen, cur, page, last, dirty, batch, torn, aligned>>

-----------------------------------------------------------------------------
(* advancePages.                                                            *)

ReadCursor ==
    /\ pc = "read"
    /\ cur' = row.seq /\ pc' = "fetch"
    /\ UNCHANGED <<feed, boots, store, emb, wgen, page, last, dirty, batch, torn, aligned>>

Changed == {o \in Objects : source.seq[o] > cur}

(* The first Batch changes past the cursor.                                 *)
FirstPage == {o \in Changed : Cardinality({p \in Changed : source.seq[p] < source.seq[o]}) < Batch}

Fetch ==
    /\ pc = "fetch"
    /\ IF Changed = {}
       THEN pc' = "idle" /\ UNCHANGED <<page, last>>
       ELSE /\ pc' = "collect" /\ page' = [o \in FirstPage |-> 0]
            /\ last' = Max({source.seq[o] : o \in FirstPage})
    /\ UNCHANGED <<feed, boots, store, emb, wgen, cur, dirty, batch, torn, aligned>>

(* collectObject reads the objects of the page, as they are now.            *)
Collect ==
    /\ pc = "collect"
    /\ page' = [o \in DOMAIN page |-> source.ver[o]]
    /\ pc' = "apply"
    /\ UNCHANGED <<feed, boots, store, emb, wgen, cur, last, dirty, batch, torn, aligned>>

(* A doc after the page: removed, left alone because its text is the stored *)
(* one, or written anew, to be embedded if the store marks docs.  On the    *)
(* cold cursor the streaming chunkers write blind, the reconciling do not.  *)
Landed(o, blind) ==
    IF page[o] = 0 THEN NoDoc
    ELSE IF ~blind /\ docs[o].ver = page[o] THEN docs[o]
    ELSE [ver |-> page[o], vec |-> 0, pend |-> emb]

(* One transaction; one that fails is retried from the cursor on record.    *)
ApplyPage ==
    /\ pc = "apply"
    /\ \/ \E blind \in BOOLEAN :
            /\ blind => cur = 0
            /\ docs' = [o \in Objects |->
                          IF o \in DOMAIN page THEN Landed(o, blind) ELSE docs[o]]
            /\ pc' = "advance" /\ torn' = TRUE
       \/ pc' = "read" /\ UNCHANGED <<docs, torn>>
    /\ UNCHANGED <<feed, boots, row, emb, wgen, cur, page, last, dirty, batch, aligned>>

(* Mutant of CursorRow: the row is replaced, with its generation.           *)
CursorRowReplaced(seq) ==
    [seq |-> seq, gen |-> wgen, embed |-> IF emb /\ row.embed = row.seq THEN seq ELSE row.embed]

(* Mutant of CursorRow: a page landed with an embedder vouches for all.     *)
CursorRowVouches(seq) ==
    [Merged(seq) EXCEPT !.embed = IF emb THEN seq ELSE @]

(* AdvanceCursor merges: a generation on record stays unless the worker has *)
(* one, and the embed field moves only while it is caught up.               *)
CursorRow(seq) ==
    [Merged(seq) EXCEPT !.embed = IF emb /\ row.embed = row.seq THEN seq ELSE @]

AdvanceCursor ==
    /\ pc = "advance"
    /\ \/ /\ row' = CursorRow(last) /\ cur' = last /\ torn' = FALSE
          /\ pc' = IF Cardinality(DOMAIN page) < Batch THEN "idle" ELSE "fetch"
       \/ pc' = "read" /\ UNCHANGED <<row, cur, torn>>
    /\ page' = NoPage /\ last' = 0
    /\ UNCHANGED <<feed, boots, docs, emb, wgen, dirty, batch, aligned>>

(* A signal, and those that came with it, start one advance.                *)
Wake ==
    /\ pc = "idle" /\ dirty
    /\ dirty' = FALSE /\ pc' = "read"
    /\ UNCHANGED <<feed, boots, store, emb, wgen, cur, page, last, batch, torn, aligned>>

-----------------------------------------------------------------------------
(* The embed loop, beside the advance.                                      *)

Pending == {o \in Objects : docs[o].pend}

(* drainRounds reads the pending docs and their texts ...                   *)
EmbedRound ==
    /\ Started /\ emb /\ batch = NoPage /\ Pending # {}
    /\ batch' = [o \in Pending |-> docs[o].ver]
    /\ UNCHANGED <<feed, boots, store, pc, emb, wgen, cur, page, last, dirty, torn, aligned>>

(* ... and lands the vectors that came back on the docs still there.        *)
SetVectors ==
    /\ batch # NoPage
    /\ \E S \in SUBSET DOMAIN batch :
         docs' = [o \in Objects |->
                    IF o \in S /\ docs[o].ver > 0
                    THEN [docs[o] EXCEPT !.vec = batch[o], !.pend = FALSE] ELSE docs[o]]
    /\ batch' = NoPage
    /\ UNCHANGED <<feed, boots, row, pc, emb, wgen, cur, page, last, dirty, torn, aligned>>

-----------------------------------------------------------------------------
Advance == ReadCursor \/ Fetch \/ Collect \/ ApplyPage \/ AdvanceCursor \/ Wake

IndexNext ==
    \/ \E o \in Objects, v \in 0..MaxChanges : v \in {0, changes + 1} /\ Change(o, v)
    \/ Backup \/ Restore \/ Rebuild
    \/ \E e \in Embedders : Boot(e)
    \/ Crash
    \/ AlignIndex \/ DropDocs \/ DropRow \/ Reset \/ Sweep \/ StampEmbed
    \/ Advance \/ EmbedRound \/ SetVectors

IndexSpec == IndexInit /\ [][IndexNext]_index

-----------------------------------------------------------------------------
(* Properties.                                                              *)

(* alignIndex "decides, once per worker, whether the persisted index still  *)
(* describes the SDK store it was built from, and starts over when it does  *)
(* not" (worker.go:104): a worker at rest, whose alignment failed in        *)
(* nothing, has every object of the space in its index as it is.  Whatever  *)
(* crashed between page and cursor, was rebuilt or restored underneath, or  *)
(* changed while a page was being landed, the cursor skipped nothing.       *)
IndexMatches ==
    pc = "idle" /\ ~dirty /\ aligned => \A o \in Objects : docs[o].ver = source.ver[o]

(* "The cursor row's embed field is the cursor up to which every doc the    *)
(* upsert rule embeds carries a vector or the pending mark"                 *)
(* (embed_backfill.go:12): at rest, a field that agrees with the cursor     *)
(* vouches for every doc.                                                   *)
EmbedVouches ==
    /\ IndexTypeOK
    /\ pc = "idle" /\ emb /\ row.embed = row.seq => Unmarked = {}

(* "a re-written doc goes back to pending until re-embedded"                *)
(* (store.go:815): a doc that is not pending has the vector of its text.    *)
VectorCurrent ==
    \A o \in Objects : docs[o].vec # 0 /\ ~docs[o].pend => docs[o].vec = docs[o].ver
=============================================================================
