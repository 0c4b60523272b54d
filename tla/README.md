# A TLA+ development of the Any server

`any` is a local-first database server: one process per machine that boots an
account on the any-sync SDK, serves an HTTP API on localhost, keeps a search
index beside the SDK's store, and runs a language model in a child process to
embed the indexed text.  This directory models what the server itself decides:
what runs concurrently, fails half-way or outlives a crash, what two devices of
an account make of each other's writes, and the algorithms whose results other
parts rely on.  TLC checks it on small instances; TLAPS proves the central
results for instances of any size.

`PROJECT.json` lists the components, the runs, the mutants that show each
property can fail, the source lines behind each definition, the findings and
the hazards.

## 1. Inventory

Paths are under `internal/`.

| component | state | operations | hard behaviour |
|---|---|---|---|
| engine lifecycle (`server/engine.go`, `gate.go`, `held.go`, auth verbs, shutdown) | the published engine, the gate's generations and counters, `authMu`, held dirs | login, switch, logout, shutdown, entering and leaving the gate, engine goroutines | a drain that times out abandons its engine to a janitor while requests still run on it |
| account directory (`engine.go` boot, `pidlock.go`, `networkpin.go`, `devicekey.go`, `running.go`) | directory, lock inode, keys, pin, data | boot step by step, failed boot, CLI probe | two processes, crashes between steps, removal of the directory |
| local discovery switch (`local_discovery.go`) | the host's statement, what each SDK was told | PUT, boot, publication | load and set are separate steps of several threads |
| configuration (`config/`, `embedded` assembly, `server/sdk.go`) | layers of keys, the pinned network | defaults, file, environment, flags, validation, boot | defaults that ride on the network another layer chose |
| embedded server (`embedded/`, `mobile/`) | the handle, the drain channel | Start, Stop, StopNow | Start while the last run drains; no instance lock |
| events bridge and topics (`events_bridge.go`, `events_topics.go`) | per scope: refcounted patterns, subscriptions, handle, retry flag | acquire, release, detach, retry | two engines overlap; subscriptions fail; overlapping patterns deliver twice |
| event hub and process view (`events_hub.go`, `processes.go`) | subscribers' buffers, rows | publish, tap, fold, expire, reset | fan-out and tap are two steps |
| process reporter (`indexer/process_report.go`) | announced, finished, the ticker | begin, progress, finish, tick | any goroutine in any order; a join under a mutex would deadlock |
| sync status stream (`handlers_sync_status.go`) | a bounded channel, the response and its lock | callback, pump, keepalive, end | four goroutines end one response |
| push (`push/`) | modes, last topics, token in file, memory and node | sync round, set and revoke a token | a space that cannot be read, a forward in flight |
| spaces and membership (`handlers_spaces.go`, `derivedspaces.go`, `derivedsetup.go`, ACL handlers) | rows of the account's spaces, per device | create, join, withdraw, delete, one-to-one, boot pass | rows of other devices arrive late |
| bundles and catalog (`bundles/`, `catalog/`, their handlers) | claimed roots, installed usecases | ensure, resolve, uninstall, setup | devices that install before they hear of each other; bounded waits |
| definitions and objects (type, dataset, property, collection handlers, `descriptor.go`) | definitions and rows as one device holds them | create, patch, remove, bind, set | checked on one read, written later, on two devices |
| queries and fences (`handlers_query_subscribe.go`, `projection*.go`, `techspace.go`) | a stream: snapshot, then changes | open, change, end | operations and records shaped by different code must agree |
| local store (`localstore/`, `handlers_local.go`) | collections in the SDK's file | write in chunks, drop, export, import | a naming fence; an export beside writers |
| chat (`chat/`) | messages and unread sets, per device | send, edit, delete, react, read | every replica checks and stamps by itself |
| editor (`editor/`) | a tree of blocks | create, patch, move, delete | concurrent moves make cycles and orphans |
| markdown (`markdown/`) | none; versions of a body | split, render, join, diff, save, edit, append | round trips must be stable; saves race block writes |
| files (`handlers_files.go`, `files_mime.go`, the avatar) | rows, cached bytes, the network copy | attach, serve, variants, offload, delete | a row looked up again after its bytes were opened |
| indexer supervisor (`indexer/indexer.go`) | workers, opens in flight, retries, align locks | bootstrap, deltas, open, retry, drop, Close | opens overtaken by drops, a list read outside the lock |
| space index worker (`indexer/worker.go`, `store.go`, `embed_backfill.go`) | docs, the cursor row, the stamp, the advance | align, sweep, advance, embed, upgrade | crashes between writes, rebuilt or restored SDK stores |
| link index (`indexer/links_store.go`, `links.go`) and `anyuri` | edges, layout stamp | page, backfill, read | a report replaces a record or a collection; one key per reference |
| search (`indexer.go` Search, `rrf.go`, `handlers_search.go`) | one request's legs | probe, legs, fuse, group | budgets, batches, a space that changes meanwhile |
| local embedder supervisor (`indexer/embed_worker.go`) | the child, the slot, the queue | embed docs, embed query, set threads, Close | callers that leave, children that hang, Close racing a spawn |
| model download (`indexer/embed_local_download.go`) | the `.part`, the model file | attempt, stream, verify, install, Close | crashes, a server that ignores ranges, an abandoned engine and the next on one file |

The engine lifecycle owns the rest: a login boots an account directory as the
configuration says, opens the SDK, starts the indexer, the push service and the
bridge, and publishes; a teardown closes the gate, waits, joins the engine's
goroutines and closes the SDK and the lock.  An embedded host runs the same
server between Start and Stop.  The indexer supervisor runs one space index
worker per space; a worker reads what the editor, the chat and the object
handlers wrote through the SDK, cuts it into docs and edges, reports through a
process reporter whose frames go to the hub and, through its tap, to the process
view, and embeds through the embedder supervisor, whose model the download
installs.  The bridge carries events of other devices to the hub.  Queries and
searches read what the others wrote, through projections and fences.

## 2. Plan

Done first: `Engine` with its abstract specification `Sessions` and the proofs
of both; the components an engine's boots and teardowns overlap with; the
indexer from the outside in.  Then, from the plan of that stage: streams and
subscriptions (`Query`, `IndexFence`, `StatusStream`, `Push`, `Chat`),
multi-step writes (`Bundles`, `Catalog`, `Spaces`, `LocalStore`,
`Definitions`, `Objects`, `Files`), the search and link side of the index
(`Search`, `IndexStore`, `Links`, `Uri`), the text algorithms (`MarkdownText`,
`Markdown`, `Editor`, `ChatPayload`), and the host (`Embedded`, `Config`).

Left:

1. Proofs: `ShapesApart` of `Catalog`, the refinement of the index (2).
2. Abstract specifications: an index that is a function of the space at rest,
   which `SpaceIndex` implements; a slot queue for `EmbedWorker`.
3. Arrays inside queried records, the notification queue of the push service,
   the lexid allocator of the editor.

## 3. Modules and runs

A component module is closed: its constants say how many actors there are and
which faults may happen, and every bound on a counter is one of them.  A step is
a critical section, an atomic system call, a store transaction or one change of
the SDK; time is abstract (a timer or a deadline fires at some moment).  The SDK
and any-store are external: modelled from how the code uses and describes them,
and marked so in the map.  The map names the steps of the code; where an external
step or a helper, or a step whose lines another entry already covers, would only
repeat them, it has no entry of its own.

`Engine` is checked as it stands.  The MC modules each take the modules of one
subsystem, the ones with a proved invariant by EXTENDS (so that a run checks the
very definition the theorem names) and the others by INSTANCE, several times where
different faults are of interest, and explore one of these *systems* per
behaviour: `on`, chosen initially from the constant `Systems`, names it, and the
variables of the others stay as they were.
The components of one MC module share no state (what one relies on in the other
is stated as an assumption of its actions), so a product of them would only
multiply states.  A property of one system is guarded by `on`; a property of an
MC module joins what its components promise (and their type invariants), so that
it names one question a reader would ask.

| run | systems and bounds | what it shows |
|---|---|---|
| `engine_safety` | two accounts, two requests, one auth handler, shutdown, OS lock | `RequestsKeepEngine`, `TeardownOrdered` |
| `engine_mobile` | no OS lock, one account pinned to another network | `NothingLeftAtExit`, `HonestCloseReason`, `ImplementsSessions`, `EngineSettles` |
| `account` | `servers`: two processes and a probe; `solo`: one process, any boot step fails; `discovery`: two PUTs, two engines; `spaces`: two devices, one space of each kind, two writes; `bundles`: an owner's and a writer's device, two created roots and the derived one, a background retry, three requests or two and a restart; `orders`: every requirement graph of three usecases; `catalog`: three bundles, their supersedes shapes, two setups and an uninstall; `search`: six docs of three objects, every mode, one change meanwhile; `store`: three boots, two chunk targets, two openers; `links`: one object with a record of each shape, two changes, two boots; `uri`: every text of up to four segments; `config`: three settings in any layers | `OneInstance`, `RunsAsOnDisk`, `SoloKeys`, `PutsHonoured`, `SpacesSound`, `InstallsSound`, `SetupsSound`, `StoresSound`, `BootsAsTold` |
| `events` | `requests`: two on one scope; `scopes`: one on two, drains may time out; `repair`: failing subscriptions; `topics`: every pair of filters; `reporter`; `rows`: one row, two requests that register, report progress and finish it beside each other and beside another device; `engines`: rows under two accounts; `streams`: a small buffer | `SubscriptionsExact`, `DeliverySound`, `FrameOrder`, `ViewHonest`, `ProgressKept`, `EventsSettle` |
| `embedding` | `download`: a model of two blocks, three engines one after another, three faults; `shared`: two engines, the first of which may be left to the janitor, and one fault; `frames`: docs and a query, faults, a new spec; `closing`; `busy`: queries that keep coming | `InstalledVerified`, `ChildSound`, `EmbedderSettles` |
| `indexing` | `two spaces`, `one space` (supervisor); `crashes`, `rebuilds`, `restores`, `embedder`, `drops` (one space's index: three starts, three changes; two of each with failing drops); `body`: three blocks, four writes | `WorkersSound`, `IndexMatches`, `EmbedVouches`, `BodyIndexed`, `IndexerSettles` |
| `content` | `chat`: two accounts on three devices, two messages, three changes, or two and a reading; `payload`: every size of every field; `store`: two clients, three requests; `definitions`: two devices, two requests on a seeded type; `objects`: two devices, three changes, through the gate, copied or written raw; `values`: a property of each of the six kinds under every slug it may have; `query`: every projection and change of a small record; `fence`: every filter and sort; `text`: every text of four lines over nine line classes; `markdown`: three savers and one block writer; `files`: three files, variants under one name, four steps | `ChatAgrees`, `LocalStoreSound`, `SchemaKept`, `ReadsHonest`, `MarkdownStable`, `SavesExact`, `FilesHonest` |
| `platform` | `push`: two spaces with a chat each, or two chats of one space; `token`: two tokens, three calls, a restart; `stream`: a buffer of two, five statuses; `embedded`: two threads, three runs | `SyncsHonest`, `EmbeddedSafe`, `PlatformSettles` |
| `account_removed`, `process_reverted`, `indexing_drop`, `indexing_stale` | one system each | a violation (section 6) |

### Engine, Sessions

`Engine` numbers engines in boot order, and the gate generation opened for an
engine has its number.  Every statement of `teardownEngineLocked`,
`bootEngine` and `publishEngine` that another goroutine can observe is a step
of its own (`TdReady`, `TdReason`, ..., `PubReady`); `JanitorDrained` to
`JanitorRelease` are the goroutine an abandoned engine is left to; `ReadReady`
and `Enter` are the two checks of the guard.  `Sessions` is what the lifecycle
promises: sessions open one per directory, close only when unused, and never
open again.

Two engines are enough for every overlap the properties speak of: an abandoned
engine and its successor.  `RequestsKeepEngine` has the SDK stay open under every
request, stragglers included; the fields of `deps` are promised to requests
whose drain did not time out only.  `TeardownOrdered` names the two exceptions
the code has: a join that timed out, and work a straggler attached to the next
engine.  `HonestCloseReason` says that a stream reads the reason its own engine
closed for, `EngineSettles` that operations finish and that held directories are
released.

### AccountDir, LocalDiscovery

One directory and the processes that boot it.  The lock is held on an inode,
so removing the directory and creating it again gives a second lock.  Crashes
happen at every step.  The system `solo` leaves out faults of the key read and
the probes: a key that could not be read is not an orphan, and a probe may
recreate `server.lock`.  In `servers` a boot fails at its pin or its keys; with a
failure further on, the removal of the directory breaks `OneInstance`
(`account_removed`).

Load and set of the discovery statement are separate steps of every PUT and of
the boot.  `PutsHonoured` says that one PUT, at whatever stage of a boot or a
teardown, is what the engine at rest runs with; of two overlapping PUTs the older
can win, so with two it only says that an engine is told nothing the host did not
say.

### Config, Embedded

A layer of `Config` is a function from the keys it sets to values; `Say` lets an
operator set up to three keys anywhere, `LoadStep` goes through the code's order
of layers and defaults, `Boot` hands over to the SDK.  `BootsAsTold` is about
what nobody said: no relay session after an opt-out, no production service on
another network, no key of its own in a managed server.

`Embedded` has the handle and the drain channel under their mutex, and each run
as an actor that boots, serves, drains and returns.  A run that ends by itself
may do so at any time.  `Overlap` lets a Start run beside a graceful Stop; it is
`FALSE`: a host that starts while its graceful stop runs is out of what the
package promises (section 6).

### Spaces

Rows of the account's spaces on two devices; the later write wins when rows
travel.  One space of each kind: shared by another account, direct (one-to-one),
derived, own.  The boot pass is `spaceList` to the registry read, with both of
its bounded waits.

### Bundles, Catalog

`Bundles` follows one bundle id: claims are add-only, trees arrive change by
change, and each step of ensure, resolve and uninstall is one action per device,
so that a sync may come between any two.  A claim beats another if it is the
derived root or has the higher id; `NothingUnmerged` asks for a claim that beats
each resolved root, `NoBlindFork` is about who creates a root beside an install
that was published before the request, and about who is told `installed`
(`AnswersHonest`): a request that declares a type or a collection
answers with the root registered in the end (`InstalledAnswer`), which may be
another's that came in after it had made its own; any other request is told so of
the root it made only.  So of two answers that name one created root both may say
`installed`, if one is such a request's.  `Catalog` checks that validation accepts
what compilation relies on (every requirement graph of three usecases), then a
setup with its bounded wait: `ShapesApart` holds unless a wait expired or the old
shape was uninstalled, which the code accepts.

### Search, IndexStore, Links, Uri

`Search` is one request, its budgets scaled down so that every cut happens:
batches of two rows, rescue after three, a leg of four.  `PageSound` holds while
the space changes; `PageWhole` compares the page with that of a reader of the
whole index when nothing changed.  `IndexStore` is the database over its boots:
the stamp, the rebuild after a refusal, and the move to the two-field layout with
two openers.  `Links` is the link side of a page: what each shape of chunker
replaces, crashes between edges and cursor, the backfill, and a reader.  Its
constants `QuietWrites`, `TornCold` and `Unreadable` are `FALSE`: section 6 says
what they admit.  `Uri` relates every reference text to its key.

### EventsBridge, EventTopics, ProcReporter, ProcessView

`EventsBridge` has the three parts of an acquisition (generation read, handle
resolved, registered) as steps, and the teardown with its two deadlines;
`Timely` says that they are met, which the check that no foreign handle is
registered assumes.  A pattern of the bridge is the set of topics it matches;
`EventTopics` shows, for every pair of filters over two
segments and two targets, what `EventsBridge` assumes of patterns: the generated
ones nest or are disjoint, so the maximal ones deliver once (`DeliverySound`).  The reporter's
frames end in the rows of the view, beside those of requests and of the account's
other devices.  `ProgressKept` says what the fold under the lock gives concurrent
progress calls: a field never goes back behind the last call that set it, except to
what a frame already in flight then, or published later, carries.  That the row is
what the last call answered (`AckedKept`) is more than the code gives
(`process_reverted`).

### EmbedWorker, ModelDownload

The slot is a Go channel: blocked senders queue in order.  A child crashes,
hangs or answers at any moment.  `ModelDownload` keeps the file as written through
process crashes; power loss is not modelled, the code does not sync.  The models
directory is every engine's.  Closing an engine joins its download (`Joined`), but
one that is abandoned with a straggler (`Abandon`) is closed by its janitor at any
later time (`JanitorCloses`), and till then its download and the next engine's write
one `.part`, each at its own offset and with its own hash.  What they install may be
wrong; `contested` says that a download that ran beside an abandoned engine's
installed the file, and `InstalledVerified` is about the others (section 6).  That a
download ends in an install is asked of `download` only: two writers can spoil each
other's file for ever.
`FrameFaultDemotes` is about frames: a child that dies in its handshake only
delays the next try.  `UrgentExact` says that the counter a doc frame yields to
counts a query once from its call for the slot until it has released or given it
up, at whatever stage its caller leaves.

### SpaceIndex, IndexSupervisor

One space.  An object is one doc, its content a version, a vector the version
it was computed from.  The SDK store is the feed: `ver`, `seq`, `max` and the
generation.  The constants say what may happen: which reads of the alignment
may fail, whether the store is rebuilt (a new generation, the live objects
renumbered) or restored, which runs have an embedder, which may end between a
page and its cursor.  `IndexMatches` says that the index at rest is the space,
`EmbedVouches` that an embed field that agrees with the cursor vouches for every
doc.  Where they stop holding is stated once, as the hypotheses of their theorems
(`Recoverable` of `IndexingProofs`, and that a run without an embedder does not
end between a page and its cursor), and the instances keep to them: over a store that may be rebuilt, reads of the alignment fail once an
epoch is on record, a run may end in the middle of a drop (`"cut"`), but a drop
does not fail (`indexing_drop` shows what happens then) and no page lands before
a first cursor that never follows; over one that may be restored nothing fails
before the old index is dropped.  A restore is beneath a caught-up index and
aligned before new changes: `cursor > MaxApplySeq` is all the code has to notice
it.  `drops` has the failing drop for `EmbedVouches`, which does not mind; with
two starts no alignment after it succeeds, so `IndexMatches` promises nothing
there.

The supervisor has the bootstrap, the one dispatch goroutine, the opens and
Close.  A section under `mu` is a step.  A store write checks its context as it
begins and holds the store's writer until it commits, so it is a step as well: a
stopped worker writes nothing more.  Opens live in numbered slots; there are as
many as the boot list, the deltas and the failures can ask for, so a spawn always
finds one.

### Chat, ChatPayload

Changes reach a device in any order that respects causality.  `b1` is a client
that does not check authors before it writes, so that the handler's own check is
exercised.  `ReplicasAgree` exempts the mentions of a reply whose target was
deleted, which the handler documents.  An account is the set of its devices, and a
text the identities it links to.  `ChatPayload` compares, for every size of
every field, what the HTTP layer accepts, what Send builds and what the handler
applies.

### LocalStore, Definitions, Objects

`LocalStore` keeps names as sequences of letters and separators: the fence is a
fact about how a name is put together and parsed, so here the conversion is
modelled.  In `Definitions` and `Objects` a request reads what its device holds,
checks, and writes in a later step; changes apply in one order everywhere, ids
are the change's own.  Beside the gate, `Objects` has the writes that no check of the
server sees: `POST /modify` on the objects dataset (`ModifyType`, `ModifyBin`,
`ModifyValue`), a copy, which takes its source's type and collections unresolved,
and the set route on the bin's stamps (`SetStamps`).  `GateSound` and `BinWhole` are
about the gate: what it lets through is stored, and what an object carries went
through it, was copied or was written raw.  That a carrier's type is on no object is
the SDK's refusal, on every path.

### Query, IndexFence

A record is a tree of two keys, one with two keys below it, and a projection
marks every path.  `MirrorAgrees` is stated for projections in which no inclusion
narrows another, `VersionsAgree` for those in which no exclusion stands above an
inclusion (section 6).  `IndexFence` compares, for every request through every
route, the answers over two stores that differ in a private field only.

### MarkdownText, Markdown, Editor, Files

A text is a sequence of line classes and newlines; four lines are enough for a
construct, its continuation, a blank run and a neighbour.  `Markdown` has savers
that read, plan and write, and a block writer in between; `Precondition` is the
sequence the write is made on, and the last attempt of an unconditional save has
none.  `Editor` (a system of the `indexing` run, since what it cuts is indexed) lists
the tree after moves and deletes that race a block's creation and cuts it into
windows of a budget of four.  One caller has its lookup and its write as two steps,
beside raw creates and deletes of others at any moment.  `BodyIndexed` names the live
blocks that the listing loses: those below an orphan (`BelowOrphan`) and those in or
below a cycle (`CutOff`).  `Files` separates the opening of a variant's bytes
from the lookup of its row.

### Push, StatusStream

`Push` has two halves, the topics and the token, that share no state.  `harsh` records that a round was partial or that the node applied a replacement
whose answer was an error: the code keeps a hash it then trusts, so `Converges`
is about the other behaviours.  A forward of a token is sent, lands and returns in
separate steps.  In `StatusStream` the callback never blocks, the pump and the
ticker share the response's lock, and `StreamReturn` sets `done` under it.

## 4. Bounds and fairness

Every passing run explores its instance completely.  Two engines, processes,
devices, spaces or objects are the least that give an overlap; three starts,
writes or deltas the least that give a drop and a return, or a crash, a rebuild
and one more start; limits of the code (batches, buffers, budgets) are scaled
down to two to four so that they are reached and passed.  `SYMMETRY` is used only
where no temporal property is checked; elsewhere interchangeable process ids are
taken in order.  Deadlock is not checked: every one of these systems may rest (a
server nobody talks to, an index that is caught up, a unit that has finished).

Fairness is weak fairness of goroutines that are runnable, of timers and of
system calls that return, given to the system whose liveness is checked.  Strong
fairness is assumed where Go gives it: `authMu` and the response lock of a status
stream, since Go's mutex hands itself to a starved waiter, and the `select`s that
end such a stream, since a Go select among ready cases is random.  Nothing is
assumed of handlers when operations must finish (`EngineSettles`): a request may
stay for ever; the release of held directories assumes that requests return in
the end (`HandlersReturn`).  `IndexerSettles` assumes that lists and opens fail a
bounded number of times, `EmbedderSettles` the same of the model server's answers
and that query callers stay in the queue from some time on (a query given up in
the queue takes no turn, so docs can yield to such callers without end),
`EventsSettle` of subscriptions, `PlatformSettles` of the push node.  A run of the
embedded server comes up or fails, and a cancelled one returns: Echo's graceful
shutdown is bounded.

## 5. What is proved

TLAPS checks these theorems for every value of the constants: any number of
engines, requests, processes, spaces, calls or files, and any bound.  Each rests on
an inductive invariant that TLC also checked on the small instances.  A proof is
one lemma for each part of the invariant, which goes through the actions, or
through kinds of steps when many actions look alike to that part.

**The engine lifecycle** (`EngineProofs`, from `ConstantsAssumption`).

* `TypeCorrect`, `RequestsKeepTheirEngine`, `DirsExclusive`, `ReleasedInOrder`.
  None is inductive: that a request never runs on a closed SDK needs that the gate
  counts exactly the requests inside (`CountInv`), that one operation at a time
  holds `authMu` (`MuInv`), what each operation knows of its engine between lock
  and unlock (`OpsInv`, one clause per step), that the gate is open for the serving
  engine only (`GateInv`), that unborn engines are untouched (`FreshInv`) and what
  a janitor may rely on (`JanitorInv`).  `DirInv`, `LockInv` and `WorkInv` do the
  same for directories, the lock and goroutines.
* `ExitsClean`: once every handler returned within the HTTP shutdown nobody
  starts an operation again, and the deferred teardown leaves no engine to serve
  (`ExitInv`).
* `CloseReasonsHonest`, an action property: a cancelled engine that is still the
  current one is in the hands of the teardown that cancelled it, and that one
  stored its reason first (`ReasonInv`).
* `EngineImplementsSessions`: opening, entering, leaving and closing are the
  visible steps of `Sessions`, every other step is a stutter.

**The account directory** (`AccountDir`, from `ConstantsAssumption`).

* `OneHolderPerLockFile`, with every fault, crash and removal allowed: the inode a
  process works under is locked by it, whatever the name `server.lock` stands
  for by then (`LockInv`).
* `ServersExclusive` and `BootsAsRecorded` have the hypothesis `[]NothingRemoved`:
  the code does remove the directory of a failed first boot after it released the
  lock, and then `OneInstance` is false (`account_removed`).  Without a removal
  every process has opened the same inode, and what the holder read of the pin
  and the keys is what the directory holds (`DiskInv`).
* `RemovedOnlyByLateFailures` says when the hypothesis holds: as long as boots
  fail at their keys or their pin only.

**Local discovery** (`LocalDiscovery`, `StatementsReachTheEngine`, from
`DiscoveryAssumption`: `BootThread` is no PUT, and the PUTs are finitely many).
`Converging` is the heart: an engine that does not run with the statement yet has
a thread on its way to set it, and with one PUT every such thread carries that
PUT's value.

**The embedded server** (`PlatformProofs`, `OneStoppableEngine`, from
`EmbeddedConstants`).  `~Overlap` is the library's contract (section 6).  One
thread is between drain and listener and the handle is free for it (`OneCall`),
and a run on the directory belongs to the handle, to the drain channel or to that
thread (`Owned`).

**Push and status streams** (`PlatformProofs`, `SyncsAreHonest`, from the
assumptions of the three modules: their bounds are numbers, the channel has room,
muted chats are chats, and no token is the empty one).  One theorem, since one run
checks the three systems; they share no variable.

* The push sync (`PushIInv`): the cache and every space the round has done have an
  entry for each chat and say of a muted one that it is (`Faithful`), so a space
  whose chats cannot be read is sent from the cache or left out, and from faithful
  entries `SpaceTopics` makes topics that leave a muted chat out
  (`MutedAreSilent`).  It does not say what the node holds of other chats.
* The push token (`TokenIInv`): a forward that is out carries the stored token or
  one that is retired, and a retired one is never set again; so a late success
  finds its token stored only if that very forward has made it current.
* The status stream (`StreamIInv`): the lock is held by whoever writes, and the
  fence goes up only under it (`Locked`).  While the pump loops every status is
  written, in hand, in the channel or dropped, and none of the first three is ahead
  of its place by more than was dropped (`Counted`); with room for one status the
  channel cannot be empty after a drop, so the next status taken announces it.

**The indexer's supervision** (`IndexingProofs`, `OneWorkerPerSpace`,
from `IndexSupervisorAssumption`).  A registered open is that
open of that space and a registered worker a running one (`Registered`); loops
that run are the registered worker's, or those of a worker a drop has just
forgotten (`Running`); between lock and release there is one open of a space or
its drop (`Locked`); of a dropped space nothing is left that could write
(`GoneQuiet`, `Dropping`).  That no unlisted space comes back needs the feed:
the last change of a space still to come tells whether it is listed, and an
unlisted space with nothing to come is idle and not in the list bootstrap will
hand over (`Following`).  The store is closed only with no open, worker or drop
left, since Close waits for all three (`Closed`).

**One space's index** (`IndexingProofs`, from `IndexAssumption`, which only gives
the constants their types).

* `RestIsTheSpace` (`IndexMatches`), under `Recoverable`: where the store may be
  rebuilt any read may fail once a generation is on record and a run may end
  inside the drop; where it may be restored nothing fails before the drop is
  through; where it is neither, anything may.  Both may not happen to one store.
  A row is `Trusted` when its generation is the store's or none and no drop is
  under way.  A trusted row has skipped nothing (`Synced`), and at a page in
  flight the same holds of its last seq once it has landed (`Pages`), because
  everything between the cursor and that seq is on the page (`FirstPageFacts`:
  ChangedSince's page is a prefix of the changes, and one that is not full is all
  of them) and what was collected before a later change has a seq past the page.
  The generation a worker stamps is the row's own, or the store's over a row that
  has none, so that an untrusted row never becomes a trusted one (`Epoch`); a
  cursor past the axis is that of a restore the alignment has yet to see (`Axis`).
* `RowVouches` (`EmbedVouches`), whatever fails: a field that agrees with the
  cursor has nothing unmarked, a landed page of a run without an embedder excepted
  until its cursor has left the field behind (`Vouching`).

**The events path** (`EventsProofs`, from the assumptions of its three modules).

* `FramesOrdered` (`FrameOrder`): the invariant ties the frames so far to
  `announced` and `finished`, and a ticker past its stop to no more frames.
* `BridgeCounts` (`SubscriptionsExact`), whatever fails or is late.  Counts are
  exact because an actor holds a key once and never the one it is about to
  register, and what it holds of an earlier generation counts for nothing.
* `OwnHandles` (`NoForeignHandle`), if drains and joins beat their deadlines: an
  acquisition under way belongs to an actor the teardown waits for, so that the
  handle it resolved is the serving engine's.
* `ViewIsHonest` (`ViewHonest`), if drains beat their deadline: rows, records and
  publishers are of the serving engine, since a closing one has no request left
  and joins its other publishers before the view is reset; a stream's sequence
  has no gap and its channel is closed once, which needs no such hypothesis.
* `ProgressIsKept` (`ProgressKept`), however many requests, reports and devices
  publish frames of one row: the history `due` holds what each field of an own row
  may show since the last progress call that set it, that is the call's own value
  and what the frames then in flight carried, and grows with every later frame.  The
  invariant (`DueInv`) adds that a frame in flight carries nothing that is not in
  it, so that a tap, which applies a frame outside the lock, stays within it.

**The embedder's supervisor** (`EmbeddingProofs`, `ChildIsSound`, from
`WorkerAssumption`).  Who works on a child owns the slot
(`SlotOwned`); a live process is the supervisor's child or in the hands of the
owner, never both (`ProcOwned`); a stream carries the frame of the call that
waits and nothing else until its process is reaped (`WireOwned`); a fault that has
not demoted the run yet is being dealt with (`Demoted`); a Close that queues has
killed what the owner waits for (`Closes`).  The counter that makes doc frames
yield is exact because whoever the slot is handed to was blocked on it, and is
in the queue once (`Queued`); an unanswered frame is one of those left to send
(`FramesDue`), so what is left never drops below zero.

**The model download** (`EmbeddingProofs`, `VerifiedInstall`, from
`DownloadAssumption`).  A download that runs is the present engine's or an abandoned
one's, since Close joins every other (`Runners`); two at work at once are both
marked (`Overlaps`).  A file is open only while a download streams to it
(`OpenFiles`).  An unmarked download has hashed what is in the `.part` (`HashIsFile`),
so a verified hash is a verified file; and nobody has a file open that such a
download installed (`Settled`), so it stays as it was verified.

**The space list** (`EngineProofs`, `SpaceListSound`, from `SpacesAssumption`: an
id is of one kind).  A row that is active, or will be once a request is accepted,
is of an id some device asked for (`Wanted`), so what a row lets a device load was
asked for, in whatever order rows travel.  A derived space's row is active or was
never written (`DerivedRows`): no path but an explicit create writes one, and
delete looks at the id and not at the row.  Its content therefore never leaves,
and a pass that has converged the index still has it when it reads the registry.

**Bundles** (`EngineProofs`, `InstallsLoseNothing`, from `BundlesAssumption`: ids
are numbers, the derived root is no created one, owners may write).  What a device
holds as synced is whole (`Whole`), and every set of claims has a winner, which
beats each loser (`WinnerOf`); claims are never dropped, so a root that was
resolved stays beaten.  A root that is being registered is its creator's own
(`OwnRoots`), and what the device knew when it answered is in its history, so that
an answer `installed` is never about a claim it had (`AnswersHonest`).  `Sighted` is the heart of `NoBlindFork`: a member other than the
owner that is about to create a root knows every claim the node had when it asked,
or its row is live, and neither a pull, nor a resolve, nor its own uninstall
(which waits for the node) takes that away.  A created root counts as a blind fork
only if, by the deletions its creator knew of, one of the installs was still live.

**The configuration** (`EngineProofs`, `BootsHonoured`, which needs no assumption).
The run tries three settings at a time, the theorem any number.  A load comes to a
configuration that says of the network layers what the operator said last, has a
default of the packaged network only when it is on it, and passed the validation
of its mode (`Fit`): by cases over what the layers may hold, once for the server's
layers (`LoadFits`) and once for a host's options (`OptionsFit`).  Nothing changes
a configuration before the boot hands it over, so the invariant carries `Fit` from
the load to the boot.

**Chat** (`ContentProofs`, `ChatConverges`, from `ChatAssumption`: texts link to
accounts, ids are numbers, the mentions array has room for one).  Convergence is
proved from what a record is and not from how it came about: every record is a
function of the set of changes its device has applied, whatever their order.  It
is live when its creation is in that set; its text is the one of the newest edit by
the creator, or the creation's (`Wrote`); an account's reaction is that of its
newest toggle (`Reacted`); it is deleted when the author's delete is in the set
(`Deleted`, `Alive`).  `Replica` says so of a device, and holds after a delivery
because a change comes after the creation it names (`LogOK`, from the causal
order of the SDK) and a field keeps its write of the highest version.  Mentions
are left out of that function, since the record replied to may not be there yet;
they are derived from the record as it stands (`Mentioned`).  An unread entry is
of an applied change nobody has read, of a live message, and the entry of a
creation has no key, so that no edit and no reaction replaces it (`Badges`).

**Files** (`ContentProofs`, `DownloadsAreHonest`, from `FilesAssumption`).  The type decided
at attach is proved honest by cases over what the sniffer may find, so it holds
for any declared header and any name.  An id is listed once in its life, and a
variant's original is listed and no variant itself (`RowsInv`), so deleting a file
with its variants leaves no orphan; an open download holds a row that the request
led to and, while it is listed, still leads to (`Holds`), so a single listed
variant is found again when the headers are written.

Short proofs stand in the component's own module.  `EmbeddedConstants` is a
hypothesis of its theorem and no assumption of the module, since `Overlap` may be
`TRUE`; its run satisfies it.

Only model-checked: liveness (the prover has no fairness); the action property
`SavesExact` and the safety properties of the components not named above; and
what the recursive definitions and folds of `EventTopics`, `MarkdownText`,
`Markdown`, `Editor`, `Query`, `Search` and `LocalStore` compute (induction over
data is out of the prover's reach).

## 6. Findings

Four runs expect a violation; `PROJECT.json` quotes what the code disagrees with.

* `account_removed`: the directory of a failed first boot is removed after its
  lock was released, lock file included.
* `process_reverted`: an acknowledged progress value is reverted by an older tap.
* `indexing_drop`: a failed DropSpace lets the new epoch be stamped on the old
  cursor.
* `indexing_stale`: a doc rewritten while its text is embedded keeps the vector
  of the old text.

Reading the code for the models showed further places where a comment or a doc
promises more than the code does.  The properties above are stated with these
exceptions, and no run is about them.

Server and indexer:

* `routes.go:124` "never a nil sdk": a straggler of a timed-out drain reads
  `d.sdk` after the next teardown cleared it.
* `engine.go:757` "its work is dropped": a straggler's work is attached to the
  next engine once that is published.
* `networkpin.go:13`: the SDK writes before the pin does; a crash in between
  leaves data no pin guards.
* `running.go:18` "proof of life": the probe takes the lock it tests, so two
  probes can meet each other.
* `local_discovery.go:44` "applied at once": of two overlapping PUTs the older
  can be set last.
* `events_bridge.go:51`: the generation is read after the only ctx check, so a
  straggler can seed the next engine's scope with its handle.
* `engine.go:568-583`: an engine left to the janitor keeps its model download
  (`embed_local_download.go:61`, a context of its own that only its index's Close
  cancels) beside the next engine's, on one `.part`: the older one verifies, the
  newer one truncates the file, and the older one renames it into place.  No fault
  is needed.  A second server under the same root can meet the first the same way.
* `embed_worker.go:92` "when a child dies abnormally": only a broken frame
  demotes.
* `worker.go:118`: an alignment read that fails before any epoch is on record
  leaves a cursor without one, and a rebuild goes unnoticed.  A page that landed
  before a first cursor, beneath a store then rebuilt, leaves docs of objects the
  new store never heard of.
* `worker.go:109-111` "restored from backup": a drop cut between the docs and the
  row (`store.go:1106`), or a read that fails, leaves the old cursor in place, and
  once the axis has passed it nothing is noticed: the objects before it are
  missing for good.
* `embed_backfill.go:12`: a run without an embedder that ends between a page and
  its cursor leaves unmarked docs that the next run's embed field passes over.
* `indexer/store.go:299`: with a configured dimension that changes between boots,
  a restamp cut by a crash can leave docs of two chunk targets (`OneBoundary`
  holds for a dimension that is only learned).
* `Links` with `QuietWrites`: a record written without its object's row
  (`docs/03-api.md:2267` names such writes) can miss the link index.
  `TornCold`: `diffLinks` takes the store to be empty on a cold cursor
  (`worker.go:537`), so a run that ends between the first page and its cursor
  leaves edges nobody removes.  `Unreadable`: a backfill passes over an object it
  cannot read and stamps the layout, and gives no signal.
* `website/10-search/hybrid.md:91` "down-weight the FTS leg when its BM25 scores
  are flat/weak": a perfectly flat leg has confidence 0, which `fuseRRF`
  (`rrf.go:67`) reads as no weight given, so the leg counts in full.
* `docs/04-events.md:289-291`: the `lagged` frame precedes older statuses that
  are still buffered.
* `embedded.go:10-14`: the drain channel covers a hard stop only, so with a Start
  beside a graceful Stop two runs can boot (`Overlap`); a run that ends by itself leaves the handle set, so that the next
  Start is refused until a Stop.  `assembleConfig` never applies the access
  defaults the command line applies, so an embedded host has no invite service.

Content:

* `push.go:421` "Nothing to change server-side.": the hash tells what was asked
  for last, not what the node holds after a replacement that failed halfway.
* `bundles.go:494-499`: a declaring request may be answered `installed` for a root
  another device created, which the comment there calls a weakness.
* `catalog.go:531`: validation resolves a default type or a relation within what
  a usecase requires; an uninstall later leaves it pointing at nothing.
* Two requests on one device can create one handle twice: the check is made on an
  earlier read (`Definitions`).
* An object created straight in the bin has no stamps; the set route on the bin's
  stamps, and a raw modify, part them from the membership (`Objects`).
* The gate is no promise about what is stored: raw `POST /modify` on the objects
  dataset (`handlers_modify.go:25-53`) writes a type, a collection or a value with no
  check (`descriptor.go:39-40` calls the values' half a known gap), and a copy takes a
  type that nobody resolved.
* `projection.go:582`: a wide operation and its parts are not always shaped
  alike; a projection that excludes a path and includes one below it gets the
  version of neither.
* `docs/29-client-model.md:458` "re-PUTting what GET returned writes nothing": a
  list item at an indent followed by text at that indent is read back as one
  block; an edit next to a single leading blank line widens past it.
* Two saves that insert at one place can take the same position; the last
  attempt of an unconditional edit lands on a body it did not read (`Markdown`).
* `editor/api.go` `treeOrder`: the orphans are appended "so callers don't lose them"
  (`api.go:420-421`), but what hangs below an orphan is in no listing and no window
  after one delete of its grandparent (`docs/03-api.md:1704-1706` says of a deleted
  block's children that they stay, as orphans the `/blocks` routes still reach), and
  neither is a cycle nor what hangs below one.  Orphans come as they were read, not
  "in pos order" (`api.go:394-396`).
* `findVariantInfo` (`handlers_files.go:219`): a variant deleted between open and
  lookup is served with the original's type, or with that of another variant of
  the same name; of two variants of one name Open and the lookup may each find
  their own.

## 7. Not modelled

The device registry is a pass-through to the SDK.  Embedder selection is one
choice at boot, and the remote embedders one HTTP request with a small circuit
breaker.  The command line and the HTTP client print one or two requests; the
probe and stop of a running server are in `AccountDir`.  `internal/server/docs`
is generated, and is a quarter of the repository's lines of Go.  `internal/api`
declares JSON bodies.  Of the components marked *partly* in `PROJECT.json`, the
note says which operations are left out: they are reads, formats, or operations
of the shape of one that is modelled.
