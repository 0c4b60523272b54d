-------------------------------- MODULE Chat --------------------------------
(***************************************************************************)
(* Chat messages on the devices of several accounts: the operations of     *)
(* chat/api.go, the handler that validates and stamps every change on      *)
(* every replica (chat/handler.go), and read tracking (chat/reading.go).   *)
(*                                                                         *)
(* The SDK is external: changes are delivered in causal order, a field     *)
(* keeps its write of the highest version, a deleted record stays deleted, *)
(* and the unread set follows the verdicts of classifyRead.                *)
(***************************************************************************)
EXTENDS Naturals, Sequences

CONSTANTS
    Accounts,     \* the accounts, each the set of its devices
    Trusting,     \* devices whose client leaves the author check to peers
    AgentDevices, \* devices an agent writes from, under the owner's key
    Msgs, NoMsg,  \* message ids, 1..n
    Linked,       \* the accounts texts link to
    MaxText,      \* bound: links in a text
    MaxMentions,  \* the cap of the mentions array
    MaxChanges,   \* bound: changes written
    MaxReads      \* bound: readings

(* There is room for a mention, and a reply to nothing is to no message.    *)
ChatConstants ==
    /\ Linked \subseteq Accounts /\ Msgs \subseteq Nat /\ NoMsg \notin Msgs
    /\ MaxMentions \in Nat \ {0}
    /\ MaxText \in Nat /\ MaxChanges \in Nat /\ MaxReads \in Nat
ASSUME ChatAssumption == ChatConstants

Devices == UNION Accounts
AccountOf(d) == CHOOSE a \in Accounts : d \in a

(* A message text is the identities it links to, in order and once each.    *)
Texts == {t \in UNION {[1..n -> Linked] : n \in 0..MaxText} :
              \A i, j \in DOMAIN t : t[i] = t[j] => i = j}

VARIABLES
    log,      \* the changes, in version order
    applied,  \* the changes each device has applied
    rec,      \* the message records of each device
    unread,   \* the unread entries of each device
    seen,     \* the changes each device knows its account has read
    readings

chat == <<log, applied, rec, unread, seen, readings>>

Changes == DOMAIN log
NoRecord == [live |-> FALSE, creator |-> {}, born |-> 0, text |-> <<>>, mentions |-> <<>>,
             ver |-> 0, reply |-> NoMsg, agent |-> FALSE, deleted |-> FALSE,
             on |-> {}, rver |-> [a \in Accounts |-> 0]]
NoKey == <<>>

SeqRange(s) == {s[i] : i \in DOMAIN s}

ChatTypeOK ==
    /\ Len(log) \in 0..MaxChanges
    /\ applied \in [Devices -> SUBSET Changes] /\ seen \in [Devices -> SUBSET Changes]
    /\ \A d \in Devices, m \in Msgs :
        /\ SeqRange(rec[d][m].mentions) \subseteq Accounts
        /\ Len(rec[d][m].mentions) <= MaxMentions
    /\ \A d \in Devices : \A e \in unread[d] : e.ch \in applied[d] /\ e.msg \in Msgs
    /\ readings \in 0..MaxReads

ChatInit ==
    /\ log = <<>> /\ applied = [d \in Devices |-> {}]
    /\ rec = [d \in Devices |-> [m \in Msgs |-> NoRecord]]
    /\ unread = [d \in Devices |-> {}] /\ seen = [d \in Devices |-> {}] /\ readings = 0

-----------------------------------------------------------------------------
(* The handler.                                                             *)

(* deriveMentions: the text's identities up to the cap, and the author of   *)
(* the message replied to, who displaces the last of them when it is full.  *)
DeriveMentions(records, text, reply) ==
    LET ids == SubSeq(text, 1, IF Len(text) > MaxMentions THEN MaxMentions ELSE Len(text))
        room == SubSeq(ids, 1, IF Len(ids) = MaxMentions THEN MaxMentions - 1 ELSE Len(ids))
        author == IF reply # NoMsg /\ records[reply].live THEN records[reply].creator ELSE {}
    IN IF author = {} \/ author \subseteq SeqRange(ids) THEN ids
       ELSE Append(room, CHOOSE a \in author : TRUE)

(* BeforeCreate, with stampCreate: the creator is the signer.               *)
BeforeCreate(records, v, c) ==
    [NoRecord EXCEPT !.live = TRUE, !.creator = {c.by}, !.born = v, !.text = c.text, !.ver = v,
                     !.reply = c.reply, !.agent = c.done,
                     !.mentions = DeriveMentions(records, c.text, c.reply)]

IsAuthor(before, by) == before.live /\ before.creator = {by}

(* Mutant of TextEdit: the mentions of the old text stay when the new one   *)
(* has none.                                                                *)
TextEditKeeps(records, v, c) ==
    LET before == records[c.msg]
        ids == DeriveMentions(records, c.text, before.reply)
    IN IF IsAuthor(before, c.by) /\ v > before.ver
       THEN [before EXCEPT !.text = c.text, !.ver = v, !.mentions = IF ids = <<>> THEN @ ELSE ids]
       ELSE before

(* validateTextEdit: only by the author; the newest text and its mentions.  *)
TextEdit(records, v, c) ==
    LET before == records[c.msg]
    IN IF IsAuthor(before, c.by) /\ v > before.ver
       THEN [before EXCEPT !.text = c.text, !.ver = v,
                           !.mentions = DeriveMentions(records, c.text, before.reply)]
       ELSE before

(* validateReactionToggle: a slot belongs to the change's signer.           *)
ReactionToggle(records, v, c) ==
    LET before == records[c.msg]
    IN IF before.live /\ v > before.rver[c.by]
       THEN [before EXCEPT !.on = IF c.kind = "react" THEN @ \cup {c.by} ELSE @ \ {c.by},
                           !.rver[c.by] = v]
       ELSE before

(* BeforeDelete: only by the author; a tombstone carries nothing.           *)
BeforeDelete(records, c) ==
    IF IsAuthor(records[c.msg], c.by) THEN [NoRecord EXCEPT !.deleted = TRUE]
    ELSE records[c.msg]

Applied(records, v, c) ==
    CASE c.kind = "create" -> BeforeCreate(records, v, c)
      [] c.kind = "edit" -> TextEdit(records, v, c)
      [] c.kind \in {"react", "unreact"} -> ReactionToggle(records, v, c)
      [] c.kind = "delete" -> BeforeDelete(records, c)

-----------------------------------------------------------------------------
(* Read tracking.                                                           *)
MentionsSelf(post, self) == self \in SeqRange(post.mentions)

(* Mutant of ClassifyRead: a create shares the key of the text's edits.     *)
ClassifyReadKeyed(self, c, post) ==
    [track |-> c.kind \in {"create", "react"} \/ (c.kind = "edit" /\ MentionsSelf(post, self)),
     key |-> IF c.kind \in {"edit", "create"} THEN <<"mention", c.msg>>
             ELSE IF c.kind \in {"react", "unreact"} THEN <<"reaction", c.msg, c.by>> ELSE NoKey,
     tags |-> IF c.kind = "react" THEN {"reaction"}
              ELSE (IF c.kind = "create" THEN {"message"} ELSE {})
                   \cup (IF MentionsSelf(post, self) THEN {"mention"} ELSE {}),
     audience |-> c.kind # "react" \/ post.creator = {self},
     self |-> c.kind = "create" /\ post.agent]

(* classifyRead's verdict on an applied change: what it tracks, the key it  *)
(* supersedes, and whether the account's own change counts.                 *)
ClassifyRead(self, c, post) ==
    [track |-> c.kind \in {"create", "react"} \/ (c.kind = "edit" /\ MentionsSelf(post, self)),
     key |-> CASE c.kind = "edit" -> <<"mention", c.msg>>
               [] c.kind \in {"react", "unreact"} -> <<"reaction", c.msg, c.by>>
               [] OTHER -> NoKey,
     tags |-> IF c.kind = "react" THEN {"reaction"}
              ELSE (IF c.kind = "create" THEN {"message"} ELSE {})
                   \cup (IF MentionsSelf(post, self) THEN {"mention"} ELSE {}),
     audience |-> c.kind # "react" \/ post.creator = {self},
     self |-> c.kind = "create" /\ post.agent]

(* How the SDK keeps the unread set from the verdicts.                      *)
Tracked(d, v, c, post) ==
    LET self == AccountOf(d)
        verdict == ClassifyRead(self, c, post)
        kept == {e \in unread[d] : /\ verdict.key = NoKey \/ e.key # verdict.key
                                   /\ post.live \/ e.msg # c.msg}
        counts == /\ verdict.track /\ verdict.audience /\ post.live /\ v \notin seen[d]
                  /\ c.by # self \/ verdict.self
    IN kept \cup (IF counts THEN {[ch |-> v, msg |-> c.msg, tags |-> verdict.tags,
                                   key |-> verdict.key]} ELSE {})

-----------------------------------------------------------------------------
(* A device applies a change once it has those before it.                   *)
ApplyOn(d, v, c) ==
    LET post == Applied(rec[d], v, c)
        touched == c.kind = "create" \/ rec[d][c.msg].live
    IN /\ rec' = [rec EXCEPT ![d][c.msg] = post]
       /\ unread' = IF touched THEN [unread EXCEPT ![d] = Tracked(d, v, c, post)] ELSE unread
       /\ applied' = [applied EXCEPT ![d] = @ \cup {v}]

Deliver(d, v) ==
    /\ v \notin applied[d] /\ log[v].past \subseteq applied[d]
    /\ ApplyOn(d, v, log[v])
    /\ UNCHANGED <<log, seen, readings>>

(* A write is applied where it is made.                                     *)
Write(d, kind, m, text, reply, done) ==
    LET v == Len(log) + 1
        c == [kind |-> kind, by |-> AccountOf(d), msg |-> m, text |-> text, reply |-> reply,
              done |-> done, past |-> applied[d]]
    IN /\ v <= MaxChanges
       /\ log' = Append(log, c) /\ ApplyOn(d, v, c)
       /\ UNCHANGED <<seen, readings>>

(* Send, by a person or, with done, by an agent that ends its run.  The ids *)
(* come from the change, so each is new; they are used in order.            *)
Creates(v, m) == log[v].kind = "create" /\ log[v].msg = m
Unused(m) == \A v \in Changes : ~Creates(v, m)

Send(d, m, text, reply, done) ==
    /\ Unused(m) /\ \A q \in Msgs : Unused(q) => m <= q
    /\ done => d \in AgentDevices
    /\ reply \in {NoMsg} \cup {r \in Msgs : rec[d][r].live}
    /\ Write(d, "create", m, text, reply, done)

(* Edit and Delete, after requireAuthor.                                    *)
RequireAuthor(d, m) == rec[d][m].live /\ (d \in Trusting \/ IsAuthor(rec[d][m], AccountOf(d)))

Edit(d, m, text) == RequireAuthor(d, m) /\ Write(d, "edit", m, text, NoMsg, FALSE)

Delete(d, m) == RequireAuthor(d, m) /\ Write(d, "delete", m, <<>>, NoMsg, FALSE)

(* ToggleReaction: add or remove by what the record says now.               *)
ToggleReaction(d, m) ==
    /\ rec[d][m].live
    /\ Write(d, IF AccountOf(d) \in rec[d][m].on THEN "unreact" ELSE "react", m, <<>>, NoMsg, FALSE)

(* MarkRead and MarkReadUpTo.                                               *)
Mark(d, changes) ==
    /\ readings < MaxReads /\ readings' = readings + 1
    /\ seen' = [seen EXCEPT ![d] = @ \cup changes]
    /\ unread' = [unread EXCEPT ![d] = {e \in @ : e.ch \notin changes}]
    /\ UNCHANGED <<log, applied, rec>>

ReadAll(d) == Mark(d, applied[d])

Read(d, m) == rec[d][m].live /\ Mark(d, {v \in applied[d] : v <= rec[d][m].born})

(* ReadReactions: the unread reactions of a message and their ancestry.     *)
ReadReactions(d, m) ==
    LET ids == {e.ch : e \in {x \in unread[d] : x.msg = m /\ "reaction" \in x.tags}}
    IN /\ ids # {}
       /\ Mark(d, ids \cup UNION {log[v].past : v \in ids})

(* The account's read position reaches its other devices.                   *)
SyncRead(d, e) ==
    /\ d # e /\ AccountOf(d) = AccountOf(e) /\ ~(seen[d] \subseteq seen[e])
    /\ seen' = [seen EXCEPT ![e] = @ \cup (seen[d] \cap Changes)]
    /\ unread' = [unread EXCEPT ![e] = {x \in @ : x.ch \notin seen[d]}]
    /\ UNCHANGED <<log, applied, rec, readings>>

ChatNext ==
    \/ \E d \in Devices, m \in Msgs :
        \/ \E t \in Texts, r \in Msgs \cup {NoMsg}, f \in BOOLEAN : Send(d, m, t, r, f)
        \/ \E t \in Texts : Edit(d, m, t)
        \/ Delete(d, m) \/ ToggleReaction(d, m)
        \/ Read(d, m) \/ ReadReactions(d, m)
    \/ \E d \in Devices : ReadAll(d) \/ (\E v \in Changes : Deliver(d, v))
    \/ \E d, e \in Devices : SyncRead(d, e)

ChatSpec == ChatInit /\ [][ChatNext]_chat

-----------------------------------------------------------------------------
(* The author of a live message that m replies to, when it is live here.    *)
ReplyAuthor(d, m) ==
    LET r == rec[d][m].reply IN IF r # NoMsg /\ rec[d][r].live THEN rec[d][r].creator ELSE {}

(* Replicas that applied the same changes show the same message, whatever   *)
(* the order; the mentions of every record follow from its text, and name   *)
(* the author replied to even when the text fills the array.  The mentions  *)
(* of a reply whose target was deleted may differ (handler.go:604).  A text *)
(* was written by the message's creator, whatever peers send.               *)
ReplicasAgree ==
    /\ \A d \in Devices, m \in Msgs :
        rec[d][m].live => rec[d][m].creator = {log[rec[d][m].ver].by}
    /\ \A d, e \in Devices : d # e /\ applied[d] = applied[e] =>
        \A m \in Msgs : [rec[d][m] EXCEPT !.mentions = rec[e][m].mentions] = rec[e][m]
    /\ \A d \in Devices, m \in Msgs :
        LET r == rec[d][m]
        IN r.live /\ (r.reply = NoMsg \/ rec[d][r.reply].live) =>
            /\ r.mentions = DeriveMentions(rec[d], r.text, r.reply)
            /\ ReplyAuthor(d, m) \subseteq SeqRange(r.mentions)

(* A message of somebody else, or an agent's last one, is unread on every   *)
(* device of the account from the time it is applied until it is read on    *)
(* some device or deleted: no edit and no reaction clears it.  A reaction   *)
(* badges the author of the message only, and not the reactor.              *)
UnreadExact ==
    \A d \in Devices :
        /\ \A v \in applied[d] \ seen[d] :
            LET c == log[v]
            IN c.kind = "create" /\ rec[d][c.msg].live /\ (c.by # AccountOf(d) \/ c.done) =>
                \E e \in unread[d] : e.ch = v /\ "message" \in e.tags
        /\ \A e \in unread[d] :
            /\ e.ch \notin seen[d] /\ rec[d][e.msg].live
            /\ "reaction" \in e.tags =>
                rec[d][e.msg].creator = {AccountOf(d)} /\ log[e.ch].by # AccountOf(d)

(* What a chat promises its members.                                        *)
ChatAgrees == ChatTypeOK /\ ReplicasAgree /\ UnreadExact
=============================================================================
