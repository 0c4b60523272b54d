----------------------------- MODULE ProcessView -----------------------------
(***************************************************************************)
(* The event hub (events_hub.go) and the process view behind it            *)
(* (processes.go), fed by the process endpoints (handlers_processes.go),   *)
(* the indexer's reports (engine.go) and the SDK's dispatch goroutine      *)
(* (events_bridge.go).                                                     *)
(*                                                                         *)
(* A publish fans out to the subscribers under the hub's lock, then runs   *)
(* the tap, which folds the event into the view under the registry's lock: *)
(* two steps, and another publisher's may come between them.  Network      *)
(* publishes loop back through the dispatch goroutine when an interest     *)
(* covers the topic, and are applied once more by the handler.             *)
(*                                                                         *)
(* A row is keyed by its publisher's identity and id: own rows are those of *)
(* the account, whose other devices publish too; Remote stands for every   *)
(* other identity.  Counters are small numbers; kind,    *)
(* title, target and message fold as the counters do and are left out.     *)
(* Time is abstract: a row nobody updates turns stale at some moment.      *)
(***************************************************************************)
EXTENDS Naturals, Sequences

CONSTANTS
    Requests,     \* HTTP requests on the process endpoints
    Subs,         \* SSE subscribers
    Ids,          \* process ids clients choose
    IndexIds,     \* process ids of the indexer
    OtherTypes,   \* bound: the frames remote publishers and the indexer send
    MaxValue,     \* bound: counter values
    Buffer,       \* eventSubBuffer
    MaxEvents,    \* bound: events fanned out
    MaxEngines,   \* bound: engines published
    DrainsTimely  \* drains beat their deadline

Types == {"started", "progress", "done", "failed", "cancelled", "cancel"}

Own == "own"
Remote == "remote"
Indexer == "indexer"
Dispatch == "dispatch"
Keep == MaxValue + 1

Publishers == Requests \cup {Indexer, Dispatch}
Values == 0..MaxValue
RowKeys == ({Own, Remote} \X Ids) \cup ({Own} \X IndexIds)

(* The requests are neither the indexer nor the dispatch goroutine.         *)
ASSUME ViewAssumption ==
    /\ MaxValue \in Nat /\ Buffer \in Nat /\ MaxEvents \in Nat /\ MaxEngines \in Nat
    /\ DrainsTimely \in BOOLEAN /\ OtherTypes \subseteq Types
    /\ Indexer \notin Requests /\ Dispatch \notin Requests

VARIABLES
    serving,   \* "none", "up", "draining" or "closing"
    engine,    \* the engine's number
    rows,      \* rows[k]: the view
    subs,      \* subs[s]: a subscriber's channel
    closes,    \* closes[s]: times its channel was closed
    count,     \* events fanned out so far
    pc, frame, \* where each publisher is and what it publishes
    acked,     \* history: the values acknowledged for each own row
    due        \* history: the values the fields of an own row may show: the last a
               \* progress call set, and those of the frames in flight then or later

history == <<acked, due>>
view == <<serving, engine, rows, subs, closes, count, pc, frame, history>>
hub == <<subs, closes, count>>
serves == <<serving, engine>>

NoRow == [state |-> "none"]
NoFrame == [type |-> "none"]
Unknown == <<>>

Frames == [type : Types, key : RowKeys, done : Values, total : Values,
           net : BOOLEAN, by : 1..MaxEngines]
RowSet == [state : {"running", "done", "failed", "cancelled"}, done : Values,
           total : Values, stale : BOOLEAN, net : BOOLEAN, by : 1..MaxEngines]
Channel == [live : BOOLEAN, open : BOOLEAN, at : 0..MaxEvents, buf : Seq(1..MaxEvents)]
NoSub == [live |-> FALSE, open |-> FALSE, at |-> 0, buf |-> <<>>]

ViewTypeOK ==
    /\ serving \in {"none", "up", "draining", "closing"} /\ engine \in 0..MaxEngines
    /\ rows \in [RowKeys -> {NoRow} \cup RowSet]
    /\ subs \in [Subs -> Channel] /\ closes \in [Subs -> 0..1]
    /\ count \in 0..MaxEvents
    /\ pc \in [Publishers -> {"idle", "fanout", "tap", "network", "apply"}]
    /\ frame \in [Publishers -> {NoFrame} \cup Frames]
    /\ acked \in [Ids -> {Unknown} \cup (Values \X Values)]
    /\ due \in [Ids -> [done : SUBSET Values, total : SUBSET Values]]

ViewInit ==
    /\ serving = "none" /\ engine = 0
    /\ rows = [k \in RowKeys |-> NoRow]
    /\ subs = [s \in Subs |-> NoSub] /\ closes = [s \in Subs |-> 0]
    /\ count = 0
    /\ pc = [p \in Publishers |-> "idle"] /\ frame = [p \in Publishers |-> NoFrame]
    /\ acked = [i \in Ids |-> Unknown] /\ due = [i \in Ids |-> [done |-> {}, total |-> {}]]

-----------------------------------------------------------------------------
(* The registry.                                                            *)

(* A live entry: get, mergeOwn and byId do not see an expired one.          *)
Live(k) == rows[k] # NoRow /\ ~rows[k].stale

Swept(rs) == [k \in RowKeys |-> IF rs[k] # NoRow /\ rs[k].stale THEN NoRow ELSE rs[k]]

StateOf(type) == IF type \in {"started", "progress"} THEN "running" ELSE type

(* apply: started makes the row anew, anything else overwrites it; a cancel *)
(* directive is no state; then the expired rows are swept.                  *)
Applied(f) ==
    IF f.type = "cancel" THEN rows
    ELSE Swept([rows EXCEPT ![f.key] =
            [state |-> StateOf(f.type), done |-> f.done, total |-> f.total,
             stale |-> FALSE, net |-> f.net, by |-> f.by]])

Fold(request, stored) == IF request = Keep THEN stored ELSE request

(* No update has come for longer than the row's TTL.                        *)
Expire(k) ==
    /\ Live(k)
    /\ rows' = [rows EXCEPT ![k].stale = TRUE]
    /\ UNCHANGED <<serves, hub, pc, frame, history>>

(* processesList: the view, swept.                                          *)
List ==
    /\ serving = "up" /\ rows # Swept(rows)
    /\ rows' = Swept(rows)
    /\ UNCHANGED <<serves, hub, pc, frame, history>>

-----------------------------------------------------------------------------
(* The hub.                                                                 *)

HubSubscribe(s) ==
    /\ serving = "up" /\ ~subs[s].live /\ closes[s] = 0
    /\ subs' = [subs EXCEPT ![s] = [live |-> TRUE, open |-> TRUE, at |-> count, buf |-> <<>>]]
    /\ UNCHANGED <<serves, rows, closes, count, pc, frame, history>>

(* The SSE loop takes the next event from the channel.                      *)
Read(s) ==
    /\ subs[s].buf # <<>>
    /\ subs' = [subs EXCEPT ![s].at = Head(subs[s].buf), ![s].buf = Tail(@)]
    /\ UNCHANGED <<serves, rows, closes, count, pc, frame, history>>

(* Mutant of Unsubscribe: the channel is closed whether or not an overflow  *)
(* closed it.                                                               *)
HubUnsubscribeTwice(s) ==
    /\ subs[s].live
    /\ subs' = [subs EXCEPT ![s].live = FALSE, ![s].open = FALSE]
    /\ closes' = [closes EXCEPT ![s] = @ + 1]
    /\ UNCHANGED <<serves, rows, count, pc, frame, history>>

(* unsubscribe, when the SSE request ends: a no-op on the hub if an         *)
(* overflow has already dropped the subscriber.                             *)
HubUnsubscribe(s) ==
    /\ subs[s].live
    /\ subs' = [subs EXCEPT ![s].live = FALSE, ![s].open = FALSE]
    /\ closes' = [closes EXCEPT ![s] = IF subs[s].open THEN @ + 1 ELSE @]
    /\ UNCHANGED <<serves, rows, count, pc, frame, history>>

(* Mutant of FannedOut: a full buffer loses the event and keeps the         *)
(* subscriber.                                                              *)
FannedOutLossy(s) ==
    IF subs[s].open /\ Len(subs[s].buf) < Buffer
    THEN [subs[s] EXCEPT !.buf = Append(@, count + 1)]
    ELSE subs[s]

(* What fanout does to one subscriber: send, or close and drop.             *)
FannedOut(s) ==
    IF ~subs[s].open THEN subs[s]
    ELSE IF Len(subs[s].buf) < Buffer
         THEN [subs[s] EXCEPT !.buf = Append(@, count + 1)]
         ELSE [subs[s] EXCEPT !.open = FALSE]

(* publish, first half: the fan-out, under the hub's lock.                  *)
Fanout(p) ==
    /\ pc[p] = "fanout" /\ count < MaxEvents
    /\ subs' = [s \in Subs |-> FannedOut(s)]
    /\ closes' = [s \in Subs |->
            IF subs[s].open /\ ~FannedOut(s).open THEN closes[s] + 1 ELSE closes[s]]
    /\ count' = count + 1
    /\ pc' = [pc EXCEPT ![p] = "tap"]
    /\ UNCHANGED <<serves, rows, frame, history>>

Idle(p) ==
    /\ pc' = [pc EXCEPT ![p] = "idle"]
    /\ frame' = [frame EXCEPT ![p] = NoFrame]

(* publish, second half: the tap.                                           *)
Tap(p) ==
    /\ pc[p] = "tap"
    /\ rows' = Applied(frame[p])
    /\ Idle(p)
    /\ UNCHANGED <<serves, hub, history>>

-----------------------------------------------------------------------------
(* The process endpoints: a request of the live engine decides its frame    *)
(* and hands it to publishScoped.                                           *)

EmitFrame(r, f) ==
    /\ frame' = [frame EXCEPT ![r] = f]
    /\ pc' = [pc EXCEPT ![r] = IF f.net THEN "network" ELSE "fanout"]

(* The frames of an own row that some publisher has in hand, their values,  *)
(* and what one more frame adds to the values the row may show.             *)
InFlight(i) ==
    {frame[p] : p \in {q \in Publishers :
                          /\ frame[q] # NoFrame /\ frame[q].type # "cancel"
                          /\ frame[q].key = <<Own, i>>}}
Dones(i) == {f.done : f \in InFlight(i)}
Totals(i) == {f.total : f \in InFlight(i)}
DueWith(k, d, t) ==
    [i \in Ids |-> IF k = <<Own, i>>
                   THEN [done |-> due[i].done \cup {d}, total |-> due[i].total \cup {t}]
                   ELSE due[i]]

MayStart(r) == pc[r] = "idle" /\ serving = "up"

(* processRegister.                                                         *)
ProcessRegister(r, i, net) ==
    /\ MayStart(r)
    /\ EmitFrame(r, [type |-> "started", key |-> <<Own, i>>, done |-> 0, total |-> 0,
                net |-> net, by |-> engine])
    /\ acked' = [acked EXCEPT ![i] = Unknown]
    /\ due' = DueWith(<<Own, i>>, 0, 0)
    /\ UNCHANGED <<serves, hub, rows>>

(* Mutant of MergedOwn: absent fields are zeroed.                           *)
MergedOwnZero(row, d, t) ==
    [row EXCEPT !.state = "running", !.done = Fold(d, 0), !.total = Fold(t, 0)]

(* mergeOwn's fold of a request into a row.                                 *)
MergedOwn(row, d, t) ==
    [row EXCEPT !.state = "running", !.done = Fold(d, row.done), !.total = Fold(t, row.total)]

(* No publish of the row is under way but this device's progress calls.     *)
OnlyProgress(i) ==
    \A q \in Publishers : frame[q] # NoFrame /\ frame[q].key = <<Own, i>> =>
        /\ frame[q].type \in {"progress", "cancel"}
        /\ q \in Requests \/ \E r \in Requests : frame[r] = frame[q]

(* processProgress: the row is folded under the registry's lock, the frame  *)
(* is the snapshot.  A row that is not live is answered 404.                *)
ProcessProgress(r, i, d, t) ==
    /\ MayStart(r) /\ Live(<<Own, i>>)
    /\ LET row == MergedOwn(rows[<<Own, i>>], d, t)
           was == IF acked[i] = Unknown
                  THEN <<rows[<<Own, i>>].done, rows[<<Own, i>>].total>> ELSE acked[i]
       IN /\ rows' = [rows EXCEPT ![<<Own, i>>] = row]
          /\ EmitFrame(r, [type |-> "progress", key |-> <<Own, i>>, done |-> row.done,
                      total |-> row.total, net |-> row.net, by |-> engine])
          /\ acked' = IF OnlyProgress(i)
                      THEN [acked EXCEPT ![i] = <<Fold(d, was[1]), Fold(t, was[2])>>]
                      ELSE acked
          /\ due' = [due EXCEPT ![i] =
                [done |-> IF d = Keep THEN @.done ELSE {d} \cup Dones(i),
                 total |-> IF t = Keep THEN @.total ELSE {t} \cup Totals(i)]]
    /\ UNCHANGED <<serves, hub>>

(* processFinish reads the row and emits its terminal frame.                *)
ProcessFinish(r, i, type) ==
    /\ MayStart(r) /\ Live(<<Own, i>>)
    /\ LET row == rows[<<Own, i>>]
       IN EmitFrame(r, [type |-> type, key |-> <<Own, i>>, done |-> row.done,
                   total |-> row.total, net |-> row.net, by |-> engine])
    /\ acked' = [acked EXCEPT ![i] = Unknown]
    /\ UNCHANGED <<serves, hub, rows, due>>

(* processCancel: a directive to the owner.  Without an identity the id     *)
(* must name one live row.                                                  *)
ProcessCancel(r, k) ==
    /\ MayStart(r) /\ Live(k)
    /\ EmitFrame(r, [type |-> "cancel", key |-> k, done |-> 0, total |-> 0,
                net |-> rows[k].net, by |-> engine])
    /\ UNCHANGED <<serves, hub, rows, history>>

(* publishNetworkEvent: when an interest covers the topic the SDK loops the *)
(* event back through hub and tap before Publish returns.                   *)
NetworkPublish(r) ==
    /\ pc[r] = "network"
    /\ \/ /\ pc[Dispatch] = "idle"
          /\ pc' = [pc EXCEPT ![r] = "apply", ![Dispatch] = "fanout"]
          /\ frame' = [frame EXCEPT ![Dispatch] = frame[r]]
       \/ /\ pc' = [pc EXCEPT ![r] = "apply"]
          /\ UNCHANGED frame
    /\ UNCHANGED <<serves, hub, rows, history>>

(* A failed publish is answered with its error and applied nowhere.         *)
NetworkFails(r) ==
    /\ pc[r] = "network"
    /\ Idle(r)
    /\ acked' = [i \in Ids |-> IF frame[r].key = <<Own, i>> THEN Unknown ELSE acked[i]]
    /\ UNCHANGED <<serves, hub, rows, due>>

(* The loopback is synchronous: the handler applies after it.               *)
NetworkApply(r) ==
    /\ pc[r] = "apply" /\ frame[Dispatch] # frame[r]
    /\ rows' = Applied(frame[r])
    /\ Idle(r)
    /\ UNCHANGED <<serves, hub, history>>

-----------------------------------------------------------------------------
(* Other publishers.                                                        *)

(* A frame put forward by somebody else; of an own row, it ends what the    *)
(* progress calls of this device can count on.                              *)
OtherFrame(p, k, type, d, net) ==
    /\ pc[p] = "idle"
    /\ frame' = [frame EXCEPT ![p] =
            [type |-> type, key |-> k, done |-> d, total |-> 0, net |-> net, by |-> engine]]
    /\ pc' = [pc EXCEPT ![p] = "fanout"]
    /\ acked' = [i \in Ids |-> IF k = <<Own, i>> THEN Unknown ELSE acked[i]]
    /\ due' = DueWith(k, d, 0)
    /\ UNCHANGED <<serves, hub, rows>>

(* A message of another member, or of another device of the account,        *)
(* reaches deliver.                                                         *)
RemoteFrame(who, i, type, d) ==
    /\ serving # "none" /\ OtherFrame(Dispatch, <<who, i>>, type, d, TRUE)

(* The indexer's hook: dropped once the engine is done (indexerProcessFor). *)
Report(i, type, d) ==
    /\ serving = "up" /\ OtherFrame(Indexer, <<Own, i>>, type, d, FALSE)

-----------------------------------------------------------------------------
(* The engine.                                                              *)

Boot ==
    /\ serving = "none" /\ engine < MaxEngines
    /\ serving' = "up" /\ engine' = engine + 1
    /\ UNCHANGED <<rows, hub, pc, frame, history>>

(* ready and done flip, the gate closes.                                    *)
TeardownStart ==
    /\ serving = "up"
    /\ serving' = "draining"
    /\ UNCHANGED <<engine, rows, hub, pc, frame, history>>

(* The requests have left; closeResources begins.                           *)
TeardownDrained ==
    /\ serving = "draining" /\ \A r \in Requests : pc[r] = "idle"
    /\ serving' = "closing"
    /\ UNCHANGED <<engine, rows, hub, pc, frame, history>>

(* Mutant of TeardownReset: the view is reset before the indexer and the    *)
(* SDK are joined.                                                          *)
TeardownResetUnjoined ==
    /\ serving = "closing"
    /\ serving' = "none"
    /\ rows' = [k \in RowKeys |-> NoRow]
    /\ acked' = [i \in Ids |-> Unknown]
    /\ due' = [i \in Ids |-> [done |-> Dones(i), total |-> Totals(i)]]
    /\ UNCHANGED <<engine, hub, pc, frame>>

(* closeResources has joined the indexer and the SDK; the view is reset.    *)
TeardownReset ==
    /\ serving = "closing" /\ pc[Indexer] = "idle" /\ pc[Dispatch] = "idle"
    /\ serving' = "none"
    /\ rows' = [k \in RowKeys |-> NoRow]
    /\ acked' = [i \in Ids |-> Unknown]
    /\ due' = [i \in Ids |-> [done |-> Dones(i), total |-> Totals(i)]]
    /\ UNCHANGED <<engine, hub, pc, frame>>

(* The drain timed out: the view is reset while stragglers still publish.   *)
TeardownTimeout ==
    /\ ~DrainsTimely /\ serving = "draining"
    /\ serving' = "none"
    /\ rows' = [k \in RowKeys |-> NoRow]
    /\ acked' = [i \in Ids |-> Unknown]
    /\ due' = [i \in Ids |-> [done |-> Dones(i), total |-> Totals(i)]]
    /\ UNCHANGED <<engine, hub, pc, frame>>

-----------------------------------------------------------------------------
ViewNext ==
    \/ \E r \in Requests, i \in Ids :
        \/ \E net \in BOOLEAN : ProcessRegister(r, i, net)
        \/ \E d, t \in Values \cup {Keep} : ProcessProgress(r, i, d, t)
        \/ \E type \in {"done", "failed", "cancelled"} : ProcessFinish(r, i, type)
    \/ \E r \in Requests, k \in RowKeys : ProcessCancel(r, k)
    \/ \E r \in Requests : NetworkPublish(r) \/ NetworkFails(r) \/ NetworkApply(r)
    \/ \E type \in OtherTypes, d \in Values :
        \/ \E who \in {Own, Remote}, i \in Ids : RemoteFrame(who, i, type, d)
        \/ \E i \in IndexIds : Report(i, type, d)
    \/ \E p \in Publishers : Fanout(p) \/ Tap(p)
    \/ \E s \in Subs : HubSubscribe(s) \/ Read(s) \/ HubUnsubscribe(s)
    \/ \E k \in RowKeys : Expire(k)
    \/ List \/ Boot \/ TeardownStart \/ TeardownDrained \/ TeardownReset \/ TeardownTimeout

ViewSpec == ViewInit /\ [][ViewNext]_view

-----------------------------------------------------------------------------
(* Properties.                                                              *)

(* A subscriber's stream has no gap: what it has read and what waits in its *)
(* buffer are consecutive events, up to the last one published while its    *)
(* channel is open.  An event it misses is always announced by the close    *)
(* (events_hub.go).                                                         *)
StreamNoGap ==
    \A s \in Subs :
        /\ \A n \in 1..Len(subs[s].buf) : subs[s].buf[n] = subs[s].at + n
        /\ subs[s].open => subs[s].at + Len(subs[s].buf) = count

(* While an engine serves, the view holds only rows its own publishers      *)
(* recorded: nothing of the previous account outlives the reset.            *)
NoForeignRows ==
    serving = "up" => \A k \in RowKeys : rows[k] # NoRow => rows[k].by = engine

(* The view and the streams behind it are honest: no row of another account *)
(* (processes.go, reset), no gap in a stream, and no channel closed twice   *)
(* (events_hub.go, unsubscribe), part of the types.                         *)
ViewHonest == ViewTypeOK /\ StreamNoGap /\ NoForeignRows

(* Concurrent progress calls do not revert each other's acknowledged        *)
(* values: with no publish of the row in flight it holds, field by field,   *)
(* the last value a progress call set (processes.go, mergeOwn).             *)
AckedKept ==
    \A i \in Ids :
        /\ \A p \in Publishers : frame[p] = NoFrame \/ frame[p].key # <<Own, i>>
        /\ acked[i] # Unknown
        /\ Live(<<Own, i>>)
        => <<rows[<<Own, i>>].done, rows[<<Own, i>>].total>> = acked[i]

(* What the fold under the lock does guarantee, whatever requests and       *)
(* devices publish beside each other: a field of an own row never goes back *)
(* to what it was before the last progress call that set it, except to what *)
(* a frame carried that was already in flight when that call folded, and to *)
(* what a register, a report or another device publishes after it           *)
(* (processes.go, mergeOwn).                                                *)
ProgressKept ==
    \A i \in Ids :
        Live(<<Own, i>>) =>
            /\ rows[<<Own, i>>].done \in due[i].done
            /\ rows[<<Own, i>>].total \in due[i].total
=============================================================================
