----------------------------- MODULE LocalStore -----------------------------
(***************************************************************************)
(* The device-local collections (localstore/, handlers_local.go): the      *)
(* naming fence between them and the SDK's collections in the same file,   *)
(* requests that write in chunks, and export and import.                   *)
(*                                                                         *)
(* any-store is external: one writer, read transactions that see a         *)
(* snapshot, and a collection's handle that fails once it was dropped.     *)
(***************************************************************************)
EXTENDS Naturals, Sequences, SequencesExt, FiniteSets, TLC

CONSTANTS
    Clients,
    Refs,         \* refs used: [scope, spaceId, name], strings as sequences
    SdkNames,     \* the SDK's collections
    SinkNames,    \* raw names clients put into $out and $merge
    Ids, Vals,    \* documents: an id and a value
    Batches,      \* the documents of a request
    Chunk,        \* documents per write transaction
    MaxRequests   \* bound: requests

VARIABLES
    db,        \* collections by storage name
    gone,      \* space ids that are gone
    requests,  \* requests started
    req,       \* the request of each client
    files      \* finished exports, with what the store held when they began

vars == <<db, gone, requests, req, files>>

-----------------------------------------------------------------------------
(* Names: sequences of characters.                                          *)
Sep == "_"
Tagged(seg) == <<"l", Sep, seg, Sep>>
HasPrefix(s, p) == Len(p) <= Len(s) /\ SubSeq(s, 1, Len(p)) = p
From(s, i) == SubSeq(s, i, Len(s))

(* strings.Cut at the first separator: the parts, or <<>> without one.      *)
Cut(s) ==
    LET at == {i \in DOMAIN s : s[i] = Sep}
    IN IF at = {} THEN <<>>
       ELSE LET i == CHOOSE i \in at : \A j \in at : i <= j
            IN <<SubSeq(s, 1, i - 1), From(s, i + 1)>>

ValidName(n) == n # <<>> /\ n[1] # Sep
ValidSpaceId(s) == s # <<>> /\ Sep \notin Range(s)

(* ParseRef: the refs that may be addressed.                                *)
ParseRef(ref) ==
    /\ ValidName(ref.name)
    /\ \/ ref.scope = "account" /\ ref.spaceId = <<>>
       \/ ref.scope = "space" /\ ValidSpaceId(ref.spaceId)

StorageName(ref) ==
    IF ref.scope = "space" THEN Tagged("s") \o ref.spaceId \o <<Sep>> \o ref.name
    ELSE Tagged("a") \o ref.name

(* Mutant of ParseStorageName: the name is what follows the last separator. *)
ParseStorageNameLast(s) ==
    LET at == {i \in DOMAIN s : s[i] = Sep}
        i == CHOOSE i \in at : \A j \in at : j <= i
    IN IF HasPrefix(s, Tagged("a"))
       THEN {r \in {[scope |-> "account", spaceId |-> <<>>, name |-> From(s, 5)]} : ParseRef(r)}
       ELSE IF HasPrefix(s, Tagged("s")) /\ i > 5
       THEN {r \in {[scope |-> "space", spaceId |-> SubSeq(s, 5, i - 1), name |-> From(s, i + 1)]} :
                ParseRef(r)}
       ELSE {}

(* ParseStorageName: the ref as a singleton, or nothing.                    *)
ParseStorageName(s) ==
    LET parts == Cut(From(s, 5))
        ref == IF HasPrefix(s, Tagged("a"))
               THEN {[scope |-> "account", spaceId |-> <<>>, name |-> From(s, 5)]}
               ELSE IF HasPrefix(s, Tagged("s")) /\ parts # <<>>
               THEN {[scope |-> "space", spaceId |-> parts[1], name |-> parts[2]]}
               ELSE {}
    IN {r \in ref : ParseRef(r)}

(* List: by prefix, then by what parses.                                    *)
ListPrefix(scope, spaceId) ==
    CASE scope = "account" -> Tagged("a")
      [] scope = "space" -> Tagged("s") \o (IF spaceId = <<>> THEN <<>> ELSE spaceId \o <<Sep>>)
      [] OTHER -> <<"l", Sep>>

List(scope, spaceId) ==
    UNION {ParseStorageName(n) : n \in {k \in DOMAIN db : HasPrefix(k, ListPrefix(scope, spaceId))}}

-----------------------------------------------------------------------------
Idle == [op |-> "idle"]
Doc == [home : Refs, id : Ids, val : Vals]
Coll(gen, docs) == [gen |-> gen, docs |-> docs]

TypeOK ==
    /\ gone \subseteq {r.spaceId : r \in Refs} /\ requests \in 0..MaxRequests
    /\ DOMAIN req = Clients /\ SdkNames \subseteq DOMAIN db
    /\ \A n \in DOMAIN db \ SdkNames : db[n].docs \subseteq Doc

(* A store in use: some collections, empty or with a document.              *)
Init ==
    /\ \E here \in SUBSET Refs :
        \E full \in SUBSET here :
            db = [n \in SdkNames \cup {StorageName(r) : r \in here} |->
                    Coll(1, {[home |-> r, id |-> i, val |-> v] :
                                r \in {x \in full : StorageName(x) = n},
                                i \in {CHOOSE i \in Ids : TRUE}, v \in {CHOOSE v \in Vals : TRUE}})]
    /\ gone = {} /\ requests = 0
    /\ req = [c \in Clients |-> Idle] /\ files = {}

Exists(n) == n \in DOMAIN db
Handle(n) == db[n].gen
Live(r) == Exists(r.name) /\ Handle(r.name) = r.gen

Put(docs, doc) == {d \in docs : d.id # doc.id} \cup {doc}
WithDocs(n, docs) == [db EXCEPT ![n].docs = docs]
WithColl(n) ==
    IF Exists(n) THEN db
    ELSE [k \in DOMAIN db \cup {n} |-> IF k = n THEN Coll(requests' + 1, {}) ELSE db[k]]
Without(n) == [k \in DOMAIN db \ {n} |-> db[k]]

(* localSpaceCheck: nothing new in a space that is gone.                    *)
SpaceOk(ref) == ref.scope = "space" => ref.spaceId \notin gone

Start(c) == req[c] = Idle /\ requests < MaxRequests /\ requests' = requests + 1
Finish(c) == req' = [req EXCEPT ![c] = Idle]

(* localCollectionsEnsure and Ensure; localCollectionsDrop.                 *)
Ensure(c, ref) ==
    /\ Start(c) /\ SpaceOk(ref) /\ ~Exists(StorageName(ref))
    /\ db' = WithColl(StorageName(ref))
    /\ UNCHANGED <<gone, req, files>>

Drop(c, ref) ==
    /\ Start(c) /\ Exists(StorageName(ref)) /\ db' = Without(StorageName(ref))
    /\ UNCHANGED <<gone, req, files>>

(* resolveLocal, then localInsert and localUpsert a chunk at a time: a      *)
(* chunk that fails rolls back, those before it stay.                       *)
Request(c, op, name, docs) ==
    req' = [req EXCEPT ![c] = [op |-> op, name |-> name, gen |-> Handle(name), docs |-> docs]]

Write(c, ref, op, docs) ==
    /\ Start(c) /\ SpaceOk(ref) /\ Exists(StorageName(ref))
    /\ Request(c, op, StorageName(ref), [i \in DOMAIN docs |-> [home |-> ref] @@ docs[i]])
    /\ UNCHANGED <<db, gone, files>>

(* localUpdate: the change and the read back in one transaction.            *)
Update(c, ref, id, val, upsert) ==
    LET n == StorageName(ref)
    IN /\ Start(c) /\ SpaceOk(ref) /\ Exists(n)
       /\ upsert \/ (\E d \in db[n].docs : d.id = id)
       /\ db' = WithDocs(n, Put(db[n].docs, [home |-> ref, id |-> id, val |-> val]))
       /\ UNCHANGED <<gone, req, files>>

(* localDelete by filter: the ids first, then chunks.                       *)
DeleteBy(c, ref, val) ==
    LET n == StorageName(ref)
    IN /\ Start(c) /\ Exists(n)
       /\ Request(c, "delete", n, SetToSeq({d \in db[n].docs : d.val = val}))
       /\ UNCHANGED <<db, gone, files>>

Head_(r) == {r.docs[i] : i \in 1..(IF Len(r.docs) < Chunk THEN Len(r.docs) ELSE Chunk)}
Tail_(r) == SubSeq(r.docs, Chunk + 1, Len(r.docs))
WriteOps == {"insert", "upsert", "delete"}

(* localWriteChunks, and the chunks of localDelete.                         *)
WriteChunk(c) ==
    LET r == req[c]
        ids == {d.id : d \in Head_(r)}
        kept == {d \in db[r.name].docs : d.id \notin ids}
        clash == r.op = "insert" /\ \E d \in db[r.name].docs : d.id \in ids
    IN /\ r.op \in WriteOps
       /\ IF ~Live(r) \/ clash \/ r.docs = <<>> THEN Finish(c) /\ UNCHANGED db
          ELSE /\ db' = WithDocs(r.name, IF r.op = "delete" THEN kept ELSE kept \cup Head_(r))
               /\ req' = [req EXCEPT ![c].docs = Tail_(r)]
       /\ UNCHANGED <<gone, requests, files>>

(* localPipelineTargets: a raw name that parses, in a living space, of a    *)
(* collection that exists.                                                  *)
SinkTarget(sink) == {r \in ParseStorageName(sink) : SpaceOk(r) /\ Exists(StorageName(r))}

(* localAggregate with $out or $merge writes where the raw name says.       *)
Aggregate(c, ref, sink) ==
    /\ Start(c) /\ Exists(StorageName(ref)) /\ StorageName(ref) # sink
    /\ \E target \in SinkTarget(sink) :
        db' = WithDocs(sink, {[d EXCEPT !.home = target] : d \in db[StorageName(ref)].docs})
    /\ UNCHANGED <<gone, req, files>>

-----------------------------------------------------------------------------
(* localExport: every collection of the store, resolved again and counted   *)
(* in one read transaction, then written section by section.                *)
Moment == [n \in DOMAIN db \ SdkNames |-> db[n].docs]

Export(c) ==
    /\ Start(c)
    /\ LET refs == SetToSeq(List("", <<>>))
       IN /\ refs # <<>>
          /\ req' = [req EXCEPT ![c] =
                [op |-> "export", snap |-> Moment, refs |-> refs, next |-> 1,
                 counts |-> [i \in DOMAIN refs |-> Cardinality(db[StorageName(refs[i])].docs)],
                 stream |-> <<>>]]
    /\ UNCHANGED <<db, gone, files>>

(* Mutant of ExportSection: the section reads the store as it is now.       *)
ExportSectionLive(c) ==
    LET r == req[c]
        name == StorageName(r.refs[r.next])
        docs == IF Exists(name) THEN db[name].docs ELSE {}
    IN /\ r.op = "export" /\ r.next <= Len(r.refs)
       /\ IF Cardinality(docs) # r.counts[r.next] THEN Finish(c)
          ELSE req' = [req EXCEPT ![c].next = @ + 1, ![c].stream = @ \o SetToSeq(docs)]
       /\ UNCHANGED <<db, gone, requests, files>>

(* exportSection, and the refusal when it does not have its count.          *)
ExportSection(c) ==
    LET r == req[c]
        docs == r.snap[StorageName(r.refs[r.next])]
    IN /\ r.op = "export" /\ r.next <= Len(r.refs)
       /\ IF Cardinality(docs) # r.counts[r.next] THEN Finish(c)
          ELSE req' = [req EXCEPT ![c].next = @ + 1, ![c].stream = @ \o SetToSeq(docs)]
       /\ UNCHANGED <<db, gone, requests, files>>

ExportDone(c) ==
    LET r == req[c]
    IN /\ r.op = "export" /\ r.next > Len(r.refs) /\ Finish(c)
       /\ files' = {[refs |-> r.refs, counts |-> r.counts, stream |-> r.stream, moment |-> r.snap]}
       /\ UNCHANGED <<db, gone, requests>>

(* localImport: no space check.  Each collection is ensured and takes its   *)
(* count of documents off the stream, a chunk at a time.                    *)
Import(c, f, len) ==
    /\ Start(c) /\ f \in files /\ len \in 0..Len(f.stream)
    /\ req' = [req EXCEPT ![c] = [op |-> "import", refs |-> f.refs, counts |-> f.counts, next |-> 1,
                                  done |-> 0, stream |-> SubSeq(f.stream, 1, len), gen |-> 0]]
    /\ UNCHANGED <<db, gone, files>>

ImportEnsure(c) ==
    LET r == req[c]
    IN /\ r.op = "import" /\ r.gen = 0
       /\ IF r.next > Len(r.refs) THEN Finish(c) /\ UNCHANGED <<db, requests>>
          ELSE LET n == StorageName(r.refs[r.next])
               IN /\ requests' = requests /\ db' = WithColl(n)
                  /\ req' = [req EXCEPT ![c].gen = db'[n].gen]
       /\ UNCHANGED <<gone, files>>

(* importSection, one transaction: a stream that ends rolls it back.        *)
ImportChunk(c) ==
    LET r == req[c]
        name == StorageName(r.refs[r.next])
        left == r.counts[r.next] - r.done
        n == IF left < Chunk THEN left ELSE Chunk
        docs == {r.stream[i] : i \in 1..n}
        ids == {d.id : d \in docs}
    IN /\ r.op = "import" /\ r.gen # 0
       /\ IF left = 0
          THEN req' = [req EXCEPT ![c].next = @ + 1, ![c].done = 0, ![c].gen = 0] /\ UNCHANGED db
          ELSE IF Len(r.stream) < n \/ ~Exists(name) \/ Handle(name) # r.gen
          THEN Finish(c) /\ UNCHANGED db
          ELSE /\ db' = WithDocs(name, {d \in db[name].docs : d.id \notin ids} \cup docs)
               /\ req' = [req EXCEPT ![c].done = @ + n, ![c].stream = From(@, n + 1)]
       /\ UNCHANGED <<gone, requests, files>>

SpaceGone(ref) ==
    /\ ref.scope = "space" /\ ref.spaceId \notin gone /\ gone' = gone \cup {ref.spaceId}
    /\ UNCHANGED <<db, requests, req, files>>

Next ==
    \/ \E c \in Clients, ref \in Refs :
        \/ Ensure(c, ref) \/ Drop(c, ref)
        \/ \E s \in Batches : Write(c, ref, "insert", s) \/ Write(c, ref, "upsert", s)
        \/ \E id \in Ids, v \in Vals, u \in BOOLEAN : Update(c, ref, id, v, u)
        \/ \E v \in Vals : DeleteBy(c, ref, v)
        \/ \E n \in SinkNames : Aggregate(c, ref, n)
    \/ \E c \in Clients :
        \/ WriteChunk(c) \/ Export(c) \/ ExportSection(c) \/ ExportDone(c)
        \/ \E f \in files : \E len \in 0..Len(f.stream) : Import(c, f, len)
        \/ ImportEnsure(c) \/ ImportChunk(c)
    \/ \E ref \in Refs : SpaceGone(ref)

Spec == Init /\ [][Next]_vars

-----------------------------------------------------------------------------
(* "nothing in this package can address an untagged one" (localstore.go:9): *)
(* the SDK's collections stay as they are; a document is found where it was *)
(* addressed to, whoever wrote, copied or imported it; and every collection *)
(* is listed under its own scope and space and no other.                    *)
LocalFenced ==
    /\ \A n \in SdkNames : db[n] = Coll(1, {})
    /\ \A r \in Refs : Exists(StorageName(r)) => \A d \in db[StorageName(r)].docs : d.home = r
    /\ \A r \in Refs : Exists(StorageName(r)) =>
        \A q \in Refs :
            r \in List(q.scope, q.spaceId) <=> q.scope = r.scope /\ q.spaceId = r.spaceId

(* A finished export holds exactly what every collection held at one and    *)
(* the same moment: "one snapshot, so a dump is consistent across           *)
(* collections" (export.go:11), and its counts delimit its sections.        *)
ExportOneMoment ==
    \A f \in files :
        /\ \A r \in Range(f.refs) :
            {d \in Range(f.stream) : d.home = r} = f.moment[StorageName(r)]
        /\ Len(f.stream) = FoldSeq(LAMBDA x, y : x + y, 0, f.counts)
=============================================================================
