----------------------------- MODULE MCContent -----------------------------
(* Instances of what users write and read, explored one at a time: a chat   *)
(* of two accounts on three devices and the bodies its requests carry; two  *)
(* clients of the local store; the definitions and the objects of a space   *)
(* on two devices; a record's subscription and the requests the space index *)
(* is fenced from; the text of a markdown body, a body three callers write; *)
(* the files attached to an object.  A system that is not explored keeps    *)
(* its first state.                                                         *)
EXTENDS Files, Chat, TLC

CONSTANTS
    Systems,  \* those explored
    None      \* no value

VARIABLES
    on,                                                    \* the system explored
    request, outcome,                                      \* ChatPayload
    db, gone, requests, req, files,                        \* LocalStore
    defLog, defHave, defReq,                               \* Definitions
    kind, slug, objLog, have, pending, refused,            \* Objects
    proj, strip, doc, stream, held, shown,                 \* Query
    asked,                                                 \* IndexFence
    text,                                                  \* MarkdownText
    past, calls, told, others                              \* Markdown

payload == <<request, outcome>>
store == <<db, gone, requests, req, files>>
definitions == <<defLog, defHave, defReq>>
objects == <<kind, slug, objLog, have, pending, refused>>
query == <<proj, strip, doc, stream, held, shown>>
markdown == <<past, calls, told, others>>

-----------------------------------------------------------------------------
Payload == INSTANCE ChatPayload WITH Absent <- None

(* The sinks: the SDK's collection, the storage names of both refs, and the *)
(* prefix of a space's.                                                     *)
Collections ==
    {[scope |-> "account", spaceId |-> <<>>, name |-> <<"b">>],
     [scope |-> "space", spaceId |-> <<"a">>, name |-> <<"b", "_", "c">>]}
Sinks == {<<"l", "i">>, <<"l", "_", "a", "_", "b">>,
          <<"l", "_", "s", "_", "a", "_", "b", "_", "c">>, <<"l", "_", "s", "_", "a">>}
Store == INSTANCE LocalStore WITH
    Clients <- {"c1", "c2"}, Refs <- Collections, SdkNames <- {<<"l", "i">>}, SinkNames <- Sinks,
    Ids <- {1, 2}, Vals <- {1, 2}, Batches <- {<<[id |-> 2, val |-> 2], [id |-> 1, val |-> 2]>>},
    Chunk <- 1, MaxRequests <- 3

(* A type with a part, a dataset under the part, and an array property with *)
(* one option, made on the other device.                                    *)
OptionA == <<"xFormat", "options", "a", "name">>
Made(d, node, parent, under, k, leaves) ==
    [op |-> "create", by |-> d, id |-> 0, node |-> node, kind |-> k, set |-> leaves,
     unset |-> {}, parent |-> parent, under |-> under]
Descriptors ==
    {<<"xFormat", "type">> :> "choice", <<"xFormat", "links">> :> "link"}
Shared ==
    <<Made("d1", "type", 0, {}, "", <<"xKey">> :> "t"),
      Made("d1", "part", 1, {1}, "", <<"name">> :> "n"),
      Made("d1", "dataset", 2, {1, 2}, "", <<"name">> :> "n"),
      Made("d2", "property", 1, {1}, "array",
           (<<"xKey">> :> "p") @@ (<<"xFormat", "type">> :> "choice") @@ (OptionA :> "n"))>>
ServedBy == [r1 |-> "d1", r2 |-> "d2"]
Defs == INSTANCE Definitions WITH
    log <- defLog, have <- defHave, req <- defReq,
    Devices <- {"d1", "d2"}, Requests <- {"r1", "r2"}, At <- ServedBy, Handles <- {"h"},
    Builtin <- {"bin"}, Bodies <- Descriptors, Seed <- Shared, MaxChanges <- 2

(* An object filed, moved and copied while its property has no slug; and    *)
(* the values of a property of every kind.                                  *)
Objs == INSTANCE Objects WITH
    log <- objLog,
    Devices <- {"d1", "d2"}, Types <- {"page", "root"}, Carriers <- {"root"},
    Collections <- {"bin"}, Strangers <- {"x"}, Kinds <- {"array"}, MaxChanges <- 3
Props == INSTANCE Objects WITH
    log <- objLog,
    Devices <- {"d1", "d2"}, Types <- {"page"}, Carriers <- {}, Collections <- {},
    Strangers <- {}, Kinds <- {"string", "array", "number", "boolean", "datetime", "object"},
    MaxChanges <- 2

(* Records with two keys, one of them with two keys below it, and version   *)
(* maps that name their parts singly or by the default.                     *)
Node(f) == <<"obj", f>>
Leaf(v) == <<"leaf", v>>
Below == "a" :> Node(("x" :> Leaf(3)) @@ ("*" :> Leaf(2)))
Keys == {<<"a">>, <<"b">>, <<"a", "x">>, <<"a", "y">>}
Versions == {Leaf(1), Node("*" :> Leaf(1)), Node(("a" :> Leaf(2)) @@ ("*" :> Leaf(1))),
             Node(Below @@ ("*" :> Leaf(1))), Node(Below @@ ("b" :> Leaf(5)))}
Records == INSTANCE Query WITH
    Fields <- Keys, Leaves <- {1, 2}, Withheld <- {"a"}, Vers <- Versions, Gone <- None
Fence == INSTANCE IndexFence WITH request <- asked

Body == INSTANCE MarkdownText WITH
    Classes <- {"h", "r", "f", "q", "l", "m", "t", "i", "j"}, MaxLines <- 4

(* One writer saves the whole body or edits a quote, one saves on the       *)
(* version it read, one appends.                                            *)
Para(t) == <<"p", 0, t>>
Ask(op, c) == [op |-> op, content |-> c, quote |-> Para("a"), by |-> Para("b")]
Block(pos, t, parent) ==
    [alive |-> TRUE, parent |-> parent, pos |-> pos, kind |-> "p", level |-> 0, text |-> t]
Calls == [s |-> {Ask("set", <<Para("b"), Para("a1")>>), Ask("edit", <<>>),
                 Ask("set", <<Para("a1"), Para(""), Para("b")>>)},
          v |-> {Ask("ifVersion", <<<<"h", 1, "a">>, Para("b")>>)},
          a |-> {Ask("append", <<Para("a")>>)}]
Blocks == <<Block(64, "a", 0), Block(80, "b", 0), Block(64, "c", 1)>>
Saves == INSTANCE Markdown WITH
    Writers <- {"s", "v", "a"}, Asks <- Calls, Words <- {"a1"}, Alike <- {{"a", "a1"}},
    Seed <- Blocks, MaxBlocks <- 7, MaxOthers <- 1

-----------------------------------------------------------------------------
MCInit ==
    /\ on \in Systems
    /\ ChatInit /\ Defs!Init /\ FilesInit
    /\ IF on = "payload" THEN Payload!Init ELSE request = None /\ outcome = None
    /\ Store!Init /\ (on # "store" => db = [n \in {<<"l", "i">>} |-> db[n]])
    /\ IF on = "values" THEN Props!Init ELSE Objs!Init
    /\ IF on = "query" THEN Records!Init
       ELSE /\ proj = None /\ strip = None /\ doc = None /\ stream = None
            /\ held = None /\ shown = None
    /\ IF on = "fence" THEN Fence!Init ELSE asked = None
    /\ IF on = "text" THEN Body!Init ELSE text = None
    /\ IF on = "markdown" THEN Saves!Init
       ELSE /\ past = None /\ told = None /\ others = None
            /\ calls = [w \in {"s", "v", "a"} |-> [at |-> "idle"]]

(* Bound: a chat that is read has at most two changes.                      *)
FewReadings == readings = 0 \/ Len(log) <= 2

MCNext ==
    /\ UNCHANGED on
    /\ IF on = "chat" THEN ChatNext /\ FewReadings' ELSE UNCHANGED chat
    /\ IF on = "payload" THEN Payload!Next ELSE UNCHANGED payload
    /\ IF on = "store" THEN Store!Next ELSE UNCHANGED store
    /\ IF on = "definitions" THEN Defs!Next ELSE UNCHANGED definitions
    /\ CASE on = "objects" -> Objs!Next /\ UNCHANGED slug
         [] on = "values" -> Props!Next
         [] OTHER -> UNCHANGED objects
    /\ IF on = "query" THEN Records!Next ELSE UNCHANGED query
    /\ IF on = "fence" THEN Fence!Next ELSE UNCHANGED asked
    /\ IF on = "text" THEN Body!Next ELSE UNCHANGED text
    /\ IF on = "markdown" THEN Saves!Next ELSE UNCHANGED markdown
    /\ IF on = "files" THEN FilesNext ELSE UNCHANGED attached

MCSpec ==
    MCInit /\ [][MCNext]_<<on, chat, payload, store, definitions, objects, query, asked, text,
                           markdown, attached>>

-----------------------------------------------------------------------------
(* No request reaches a collection of the SDK or of another scope, and an   *)
(* export holds one moment of the store (see LocalStore).                   *)
LocalStoreSound ==
    on = "store" => Store!TypeOK /\ Store!LocalFenced /\ Store!ExportOneMoment

(* A definition carries a descriptor create would accept for its kind and   *)
(* no set drops another client's leaf, whatever two devices write at once;  *)
(* a value the gate passes is one the SDK stores, and an object is in the   *)
(* bin exactly when it has the bin's stamps; a message the HTTP layer       *)
(* accepts is one the handler applies (see Definitions, Objects,            *)
(* ChatPayload).                                                            *)
SchemaKept ==
    /\ on = "definitions" => Defs!TypeOK /\ Defs!DescriptorsFit /\ Defs!LeavesKept
    /\ on = "objects" => Objs!TypeOK /\ Objs!GateSound /\ Objs!BinWhole
    /\ on = "values" => Props!TypeOK /\ Props!GateSound
    /\ on = "payload" => Payload!ChecksAgree

(* A subscription never carries what its route withholds, the operations    *)
(* and the records it sends agree, versions narrow as the record does, and  *)
(* no route's answer depends on a private field of the space index (see     *)
(* Query, IndexFence).                                                      *)
ReadsHonest ==
    /\ on = "query" =>
        Records!TypeOK /\ Records!NothingWithheld /\ Records!MirrorAgrees /\ Records!VersionsAgree
    /\ on = "fence" => Fence!TypeOK /\ Fence!NothingTold

(* Saving back what was read rewrites no block, and an edit that deletes a  *)
(* whole block leaves exactly the others (see MarkdownText).                *)
MarkdownStable == on = "text" => Body!SavedIsStable /\ Body!DeletionExact

(* A version names one body for ever, a save leaves exactly the content     *)
(* asked for or lands on no state it did not read, and keeps the styles     *)
(* and nested blocks markdown does not express (see Markdown).              *)
SavesExact ==
    /\ [](on = "markdown" => Saves!TypeOK /\ Saves!VersionVouches)
    /\ Saves!SaveExact /\ Saves!ForeignKept
=============================================================================
