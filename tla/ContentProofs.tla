---------------------------- MODULE ContentProofs ----------------------------
(***************************************************************************)
(* Proofs about what users write: the replicas of a chat and their unread  *)
(* sets, and the downloads of files.                                       *)
(***************************************************************************)
EXTENDS Files, Chat, SequenceTheorems, TLAPS

-----------------------------------------------------------------------------
(* Chat: the inductive invariant.                                           *)

Kinds == {"create", "edit", "react", "unreact", "delete"}
Change == [kind : Kinds, by : Accounts, msg : Msgs, text : Texts, reply : Msgs \cup {NoMsg},
           done : BOOLEAN, past : SUBSET Nat]
Message == [live : BOOLEAN, creator : SUBSET Accounts, born : Nat, text : Texts,
            mentions : Seq(Accounts), ver : Nat, reply : Msgs \cup {NoMsg}, agent : BOOLEAN,
            deleted : BOOLEAN, on : SUBSET Accounts, rver : [Accounts -> Nat]]

(* A change that names a message, or replies to one, comes after the change *)
(* that created it, on every device; a message is created once.             *)
LogOK ==
    /\ log \in Seq(Change)
    /\ \A v \in Changes :
        /\ log[v].past \subseteq Changes
        /\ log[v].kind # "create" => \E w \in log[v].past : Creates(w, log[v].msg)
        /\ log[v].kind = "create" /\ log[v].reply # NoMsg =>
               \E w \in log[v].past : Creates(w, log[v].reply)
    /\ \A v, w \in Changes, m \in Msgs : Creates(v, m) /\ Creates(w, m) => v = w
    /\ \A d \in Devices : \A v \in applied[d] : log[v].past \subseteq applied[d]

(* What the changes a device has applied make of a message: its creation,   *)
(* the newest text of its creator, each account's newest reaction.          *)
Wrote(v, m, r) ==
    log[v].msg = m /\ log[v].kind \in {"create", "edit"} /\ {log[v].by} = r.creator
Reacted(v, m, a) == log[v].msg = m /\ log[v].kind \in {"react", "unreact"} /\ log[v].by = a
Deleted(v, m) ==
    /\ log[v].msg = m /\ log[v].kind = "delete"
    /\ \E w \in log[v].past : Creates(w, m) /\ log[w].by = log[v].by

Alive(A, m, r) ==
    /\ r.born \in A /\ Creates(r.born, m)
    /\ r.creator = {log[r.born].by}
    /\ r.reply = log[r.born].reply /\ r.agent = log[r.born].done
    /\ r.ver \in A /\ Wrote(r.ver, m, r) /\ r.text = log[r.ver].text
    /\ \A v \in A : Wrote(v, m, r) => v <= r.ver
    /\ \A a \in Accounts :
        /\ r.rver[a] # 0 => r.rver[a] \in A /\ Reacted(r.rver[a], m, a)
        /\ \A v \in A : Reacted(v, m, a) => v <= r.rver[a]
        /\ a \in r.on <=> (r.rver[a] # 0 /\ log[r.rver[a]].kind = "react")

Replica(A, m, r) ==
    /\ (\E w \in A : Creates(w, m)) <=> (r.live \/ r.deleted)
    /\ (\E v \in A : Deleted(v, m)) <=> r.deleted
    /\ IF r.live THEN ~r.deleted /\ Alive(A, m, r)
       ELSE r = [NoRecord EXCEPT !.deleted = r.deleted]

(* The mentions of a message whose reply target is there, or that has none. *)
Mentioned(R, r) ==
    r.live /\ (r.reply = NoMsg \/ R[r.reply].live) =>
        r.mentions = DeriveMentions(R, r.text, r.reply)

(* The records R of a device that has applied A.                            *)
Shows(A, R) ==
    /\ R \in [Msgs -> Message]
    /\ \A m \in Msgs : /\ Replica(A, m, R[m])
                       /\ SeqRange(R[m].mentions) \subseteq Accounts
                       /\ Len(R[m].mentions) <= MaxMentions
                       /\ Mentioned(R, R[m])

(* Its unread entries U, when it knows that S was read: that of a create    *)
(* has no key, so no later verdict takes it.                                *)
Badges(A, S, R, U, self) ==
    /\ \A e \in U :
        /\ e.ch \in A \ S /\ e.msg = log[e.ch].msg /\ R[e.msg].live
        /\ "reaction" \in e.tags => R[e.msg].creator = {self} /\ log[e.ch].by # self
    /\ \A v \in A \ S :
        LET c == log[v]
        IN c.kind = "create" /\ R[c.msg].live /\ (c.by # self \/ c.done) =>
            \E e \in U : e.ch = v /\ e.msg = c.msg /\ "message" \in e.tags /\ e.key = NoKey

DevicesOK ==
    /\ rec = [d \in Devices |-> rec[d]] /\ unread = [d \in Devices |-> unread[d]]
    /\ \A d \in Devices : /\ Shows(applied[d], rec[d])
                          /\ Badges(applied[d], seen[d], rec[d], unread[d], AccountOf(d))

ChatInv == ChatTypeOK /\ LogOK /\ DevicesOK

(* A device belongs to an account.                                          *)
LEMMA AccountTyped ==
    ASSUME NEW d \in Devices PROVE AccountOf(d) \in Accounts
BY DEF Devices, AccountOf

(* A text is a sequence of accounts.                                        *)
LEMMA TextTyped ==
    ASSUME ChatConstants, NEW t \in Texts
    PROVE  t \in Seq(Accounts) /\ SeqRange(t) \subseteq Accounts
<1>1. PICK n \in 0..MaxText : t \in [1..n -> Linked]
    BY DEF Texts
<1>2. n \in Nat /\ t \in [1..n -> Accounts]
    BY <1>1 DEF ChatConstants
<1>3. t \in Seq(Accounts)
    BY <1>2
<1> QED BY <1>2, <1>3 DEF SeqRange

(* What deriveMentions stamps fits, and leaves the author replied to in.    *)
LEMMA Derives ==
    ASSUME ChatConstants, NEW records, NEW text \in Texts, NEW reply \in Msgs \cup {NoMsg},
           reply # NoMsg /\ records[reply].live =>
               \E a \in Accounts : records[reply].creator = {a}
    PROVE  LET D == DeriveMentions(records, text, reply)
           IN /\ D \in Seq(Accounts) /\ Len(D) <= MaxMentions /\ SeqRange(D) \subseteq Accounts
              /\ reply # NoMsg /\ records[reply].live => records[reply].creator \subseteq SeqRange(D)
<1> DEFINE ids == SubSeq(text, 1, IF Len(text) > MaxMentions THEN MaxMentions ELSE Len(text))
           room == SubSeq(ids, 1, IF Len(ids) = MaxMentions THEN MaxMentions - 1 ELSE Len(ids))
           author == IF reply # NoMsg /\ records[reply].live THEN records[reply].creator ELSE {}
           D == DeriveMentions(records, text, reply)
<1>1. text \in Seq(Accounts) /\ MaxMentions \in Nat \ {0}
    BY TextTyped DEF ChatConstants
<1>2. ids \in Seq(Accounts) /\ Len(ids) <= MaxMentions
    <2>1. CASE Len(text) > MaxMentions
        BY <1>1, <2>1
    <2>2. CASE ~(Len(text) > MaxMentions)
        BY <1>1, <2>2
    <2> QED BY <2>1, <2>2
<1>3. D = IF author = {} \/ author \subseteq SeqRange(ids) THEN ids
          ELSE Append(room, CHOOSE a \in author : TRUE)
    BY Zenon DEF DeriveMentions
<1> HIDE DEF ids, D
<1>4. room \in Seq(Accounts) /\ Len(room) <= MaxMentions - 1
    <2>1. CASE Len(ids) = MaxMentions
        BY <1>1, <1>2, <2>1
    <2>2. CASE Len(ids) # MaxMentions
        BY <1>1, <1>2, <2>2
    <2> QED BY <2>1, <2>2
<1>5. author = {} \/ \E a \in Accounts : author = {a}
    OBVIOUS
<1> HIDE DEF room, author
<1>6. D \in Seq(Accounts) /\ Len(D) <= MaxMentions /\ author \subseteq SeqRange(D)
    <2>1. CASE author = {} \/ author \subseteq SeqRange(ids)
        BY <1>2, <1>3, <2>1
    <2>2. CASE ~(author = {} \/ author \subseteq SeqRange(ids))
        <3>1. PICK a \in Accounts : author = {a}
            BY <1>5, <2>2
        <3>2. D = Append(room, a)
            BY <1>3, <2>2, <3>1
        <3>3. D \in Seq(Accounts) /\ Len(D) = Len(room) + 1 /\ D[Len(room) + 1] = a
            BY <1>4, <3>2
        <3>4. Len(room) + 1 \in DOMAIN D
            BY <1>4, <3>3
        <3> QED BY <1>1, <1>4, <3>1, <3>3, <3>4 DEF SeqRange
    <2> QED BY <2>1, <2>2
<1>7. SeqRange(D) \subseteq Accounts
    BY <1>6 DEF SeqRange
<1>8. reply # NoMsg /\ records[reply].live => author = records[reply].creator
    BY DEF author
<1> QED BY <1>6, <1>7, <1>8 DEF D

(* The mentions depend on the target only by whether it is there, and whose *)
(* it is.                                                                   *)
LEMMA DerivesAlike ==
    ASSUME NEW records, NEW others, NEW text, NEW reply,
           reply # NoMsg => /\ others[reply].live = records[reply].live
                            /\ others[reply].creator = records[reply].creator
    PROVE  DeriveMentions(others, text, reply) = DeriveMentions(records, text, reply)
<1> DEFINE author(recs) == IF reply # NoMsg /\ recs[reply].live THEN recs[reply].creator ELSE {}
<1>1. author(others) = author(records)
    OBVIOUS
<1> DEFINE ids == SubSeq(text, 1, IF Len(text) > MaxMentions THEN MaxMentions ELSE Len(text))
           room == SubSeq(ids, 1, IF Len(ids) = MaxMentions THEN MaxMentions - 1 ELSE Len(ids))
           Made(x) == IF x = {} \/ x \subseteq SeqRange(ids) THEN ids
                      ELSE Append(room, CHOOSE a \in x : TRUE)
<1>2. DeriveMentions(others, text, reply) = Made(author(others))
    BY Zenon DEF DeriveMentions
<1>3. DeriveMentions(records, text, reply) = Made(author(records))
    BY Zenon DEF DeriveMentions
<1> HIDE DEF author, Made
<1> QED BY <1>1, <1>2, <1>3, Zenon

(* What each kind of change makes of a message, with D derived from it.     *)
CreateOf(r, v, c, D) ==
    /\ r \in Message
    /\ r.live /\ r.creator = {c.by} /\ r.born = v /\ r.text = c.text /\ r.ver = v
    /\ r.reply = c.reply /\ r.agent = c.done /\ ~r.deleted /\ r.on = {}
    /\ \A a \in Accounts : r.rver[a] = 0
    /\ r.mentions = D
EditOf(b, r, v, c, D) ==
    IF IsAuthor(b, c.by) /\ v > b.ver
    THEN /\ r \in Message
         /\ r.live = b.live /\ r.creator = b.creator /\ r.born = b.born
         /\ r.text = c.text /\ r.ver = v
         /\ r.reply = b.reply /\ r.agent = b.agent /\ r.deleted = b.deleted
         /\ r.on = b.on /\ r.rver = b.rver /\ r.mentions = D
    ELSE r = b
ReactOf(b, r, v, c) ==
    IF b.live /\ v > b.rver[c.by]
    THEN /\ r \in Message
         /\ r.live = b.live /\ r.creator = b.creator /\ r.born = b.born
         /\ r.text = b.text /\ r.ver = b.ver
         /\ r.reply = b.reply /\ r.agent = b.agent /\ r.deleted = b.deleted
         /\ r.on = IF c.kind = "react" THEN b.on \cup {c.by} ELSE b.on \ {c.by}
         /\ r.rver = [b.rver EXCEPT ![c.by] = v]
         /\ r.mentions = b.mentions
    ELSE r = b

(* BeforeCreate on a typed change.                                          *)
LEMMA CreateMakes ==
    ASSUME NEW records, NEW v \in Nat, NEW c \in Change, c.kind = "create",
           NEW D \in Seq(Accounts), D = DeriveMentions(records, c.text, c.reply),
           NEW r, r = Applied(records, v, c)
    PROVE  CreateOf(r, v, c, D)
<1>1. r = [NoRecord EXCEPT !.live = TRUE, !.creator = {c.by}, !.born = v, !.text = c.text,
                           !.ver = v, !.reply = c.reply, !.agent = c.done, !.mentions = D]
    BY Zenon DEF Applied, BeforeCreate
<1>2. c.by \in Accounts /\ c.text \in Texts /\ c.reply \in Msgs \cup {NoMsg} /\ c.done \in BOOLEAN
    BY DEF Change
<1>3. {c.by} \in SUBSET Accounts /\ {} \in SUBSET Accounts
    BY <1>2
<1> DEFINE Z == [a \in Accounts |-> 0]
<1>4. Z \in [Accounts -> Nat] /\ \A a \in Accounts : Z[a] = 0
    OBVIOUS
<1>5. r = [live |-> TRUE, creator |-> {c.by}, born |-> v, text |-> c.text, mentions |-> D,
           ver |-> v, reply |-> c.reply, agent |-> c.done, deleted |-> FALSE, on |-> {},
           rver |-> Z]
    BY <1>1 DEF NoRecord
<1> HIDE DEF Z
<1>6. r \in Message
    BY <1>2, <1>3, <1>4, <1>5 DEF Message
<1> QED BY <1>4, <1>5, <1>6 DEF CreateOf

(* TextEdit on a typed record.                                              *)
LEMMA EditMakes ==
    ASSUME NEW records, NEW v \in Nat, NEW c \in Change, c.kind = "edit",
           NEW b \in Message, b = records[c.msg],
           NEW D \in Seq(Accounts), D = DeriveMentions(records, c.text, b.reply),
           NEW r, r = Applied(records, v, c)
    PROVE  EditOf(b, r, v, c, D)
<1>1. r = TextEdit(records, v, c)
    BY DEF Applied
<1>2. r = IF IsAuthor(b, c.by) /\ v > b.ver
          THEN [b EXCEPT !.text = c.text, !.ver = v, !.mentions = D] ELSE b
    BY <1>1, Zenon DEF TextEdit
<1>3. c.text \in Texts
    BY DEF Change
<1>4. IF IsAuthor(b, c.by) /\ v > b.ver
      THEN /\ r \in Message
           /\ r.live = b.live /\ r.creator = b.creator /\ r.born = b.born
           /\ r.text = c.text /\ r.ver = v
           /\ r.reply = b.reply /\ r.agent = b.agent /\ r.deleted = b.deleted
           /\ r.on = b.on /\ r.rver = b.rver /\ r.mentions = D
      ELSE r = b
  <2>1. CASE IsAuthor(b, c.by) /\ v > b.ver
    <3>1. r = [b EXCEPT !.text = c.text, !.ver = v, !.mentions = D]
        BY <1>2, <2>1, Zenon
    <3>2. r \in Message
        BY <3>1, <1>3 DEF Message
    <3> QED BY <3>1, <3>2, <2>1 DEF Message
  <2>2. CASE ~(IsAuthor(b, c.by) /\ v > b.ver)
      BY <1>2, <2>2, Zenon
  <2> QED BY <2>1, <2>2, Zenon
<1> QED BY <1>4, Zenon DEF EditOf

(* ReactionToggle on a typed record.                                        *)
LEMMA ReactMakes ==
    ASSUME NEW records, NEW v \in Nat, NEW c \in Change, c.kind \in {"react", "unreact"},
           NEW b \in Message, b = records[c.msg],
           NEW r, r = Applied(records, v, c)
    PROVE  ReactOf(b, r, v, c)
<1>1. r = ReactionToggle(records, v, c)
    BY DEF Applied
<1>2. c.by \in Accounts
    BY DEF Change
<1> DEFINE on == IF c.kind = "react" THEN b.on \cup {c.by} ELSE b.on \ {c.by}
           rver == [b.rver EXCEPT ![c.by] = v]
<1>3. b.on \subseteq Accounts /\ b.rver \in [Accounts -> Nat]
    BY DEF Message
<1>4. on \in SUBSET Accounts /\ rver \in [Accounts -> Nat]
    BY <1>2, <1>3
<1>5. IF b.live /\ v > b.rver[c.by] THEN r = [b EXCEPT !.on = on, !.rver = rver] ELSE r = b
    BY <1>1, <1>3, Zenon DEF ReactionToggle, on, rver
<1> HIDE DEF on, rver
<1>6. IF b.live /\ v > b.rver[c.by]
      THEN /\ r \in Message
           /\ r.live = b.live /\ r.creator = b.creator /\ r.born = b.born
           /\ r.text = b.text /\ r.ver = b.ver
           /\ r.reply = b.reply /\ r.agent = b.agent /\ r.deleted = b.deleted
           /\ r.on = on /\ r.rver = rver /\ r.mentions = b.mentions
      ELSE r = b
    BY <1>3, <1>4, <1>5 DEF Message
<1> QED BY <1>6, Zenon DEF on, rver, ReactOf

(* BeforeDelete takes the record of its author, or nothing.                 *)
LEMMA DeleteMakes ==
    ASSUME NEW records, NEW v, NEW c \in Change, c.kind = "delete"
    PROVE  Applied(records, v, c) = IF IsAuthor(records[c.msg], c.by)
                                    THEN [NoRecord EXCEPT !.deleted = TRUE] ELSE records[c.msg]
BY DEF Applied, BeforeDelete

(* A record that is not there yet, and one that no longer is.               *)
LEMMA EmptyTyped ==
    ASSUME ChatConstants
    PROVE  /\ NoRecord \in Message /\ [NoRecord EXCEPT !.deleted = TRUE] \in Message
           /\ ~NoRecord.live /\ ~NoRecord.deleted
           /\ [NoRecord EXCEPT !.deleted = FALSE] = NoRecord
           /\ LET r == [NoRecord EXCEPT !.deleted = TRUE] IN ~r.live /\ r.deleted
<1>1. <<>> \in Texts
    <2>1. <<>> \in [1..0 -> Linked] /\ 0 \in 0..MaxText
        BY DEF ChatConstants
    <2> QED BY <2>1 DEF Texts
<1>2. <<>> \in Seq(Accounts)
    OBVIOUS
<1> DEFINE Z == [a \in Accounts |-> 0]
<1>3. Z \in [Accounts -> Nat]
    OBVIOUS
<1>4. NoRecord = [live |-> FALSE, creator |-> {}, born |-> 0, text |-> <<>>, mentions |-> <<>>,
                  ver |-> 0, reply |-> NoMsg, agent |-> FALSE, deleted |-> FALSE,
                  on |-> {}, rver |-> Z]
    BY DEF NoRecord
<1> DEFINE E == <<>>
<1>5. E \in Texts /\ E \in Seq(Accounts)
    BY <1>1, <1>2
<1>6. NoRecord = [live |-> FALSE, creator |-> {}, born |-> 0, text |-> E, mentions |-> E,
                  ver |-> 0, reply |-> NoMsg, agent |-> FALSE, deleted |-> FALSE,
                  on |-> {}, rver |-> Z]
    BY <1>4
<1> HIDE DEF Z, E
<1>7. NoRecord \in Message
    BY <1>3, <1>5, <1>6 DEF Message
<1> QED BY <1>6, <1>7 DEF Message

(* A change of the past is what it was when the log grows.                  *)
LEMMA LogKept ==
    ASSUME LogOK, \A w \in Changes : w \in Changes' /\ log'[w] = log[w],
           NEW m, NEW r, NEW w \in Changes
    PROVE  /\ Creates(w, m)' <=> Creates(w, m)
           /\ Wrote(w, m, r)' <=> Wrote(w, m, r)
           /\ \A a \in Accounts : Reacted(w, m, a)' <=> Reacted(w, m, a)
           /\ Deleted(w, m)' <=> Deleted(w, m)
<1>1. log'[w] = log[w] /\ log[w].past \subseteq Changes
    BY DEF LogOK
<1>2. \A u \in log[w].past : log'[u] = log[u]
    BY <1>1
<1> QED BY <1>1, <1>2 DEF Creates, Wrote, Reacted, Deleted

(* What a device shows of the changes it has outlives the log's growth.     *)
LEMMA ReplicaKept ==
    ASSUME LogOK, \A w \in Changes : w \in Changes' /\ log'[w] = log[w],
           NEW A \in SUBSET Changes, NEW m, NEW r, Replica(A, m, r)
    PROVE  Replica(A, m, r)'
<1>1. \A w \in A : /\ Creates(w, m)' <=> Creates(w, m)
                   /\ Wrote(w, m, r)' <=> Wrote(w, m, r)
                   /\ \A a \in Accounts : Reacted(w, m, a)' <=> Reacted(w, m, a)
                   /\ Deleted(w, m)' <=> Deleted(w, m)
                   /\ log'[w] = log[w]
    BY LogKept
<1>2. r.live => Alive(A, m, r)'
    <2> SUFFICES ASSUME Alive(A, m, r) PROVE Alive(A, m, r)'
        BY DEF Replica
    <2>1. /\ r.born \in A /\ Creates(r.born, m)
          /\ r.creator = {log[r.born].by}
          /\ r.reply = log[r.born].reply /\ r.agent = log[r.born].done
          /\ r.ver \in A /\ Wrote(r.ver, m, r) /\ r.text = log[r.ver].text
          /\ \A v \in A : Wrote(v, m, r) => v <= r.ver
        BY DEF Alive
    <2>2. \A a \in Accounts :
            /\ r.rver[a] # 0 => r.rver[a] \in A /\ Reacted(r.rver[a], m, a)
            /\ \A v \in A : Reacted(v, m, a) => v <= r.rver[a]
            /\ a \in r.on <=> (r.rver[a] # 0 /\ log[r.rver[a]].kind = "react")
        BY DEF Alive
    <2>3. /\ r.born \in A /\ Creates(r.born, m)'
          /\ r.creator = {log'[r.born].by}
          /\ r.reply = log'[r.born].reply /\ r.agent = log'[r.born].done
          /\ r.ver \in A /\ Wrote(r.ver, m, r)' /\ r.text = log'[r.ver].text
          /\ \A v \in A : Wrote(v, m, r)' => v <= r.ver
        BY <1>1, <2>1
    <2>4. \A a \in Accounts :
            /\ r.rver[a] # 0 => r.rver[a] \in A /\ Reacted(r.rver[a], m, a)'
            /\ \A v \in A : Reacted(v, m, a)' => v <= r.rver[a]
            /\ a \in r.on <=> (r.rver[a] # 0 /\ log'[r.rver[a]].kind = "react")
        BY <1>1, <2>2
    <2> QED BY <2>3, <2>4 DEF Alive
<1>3. /\ (\E w \in A : Creates(w, m)') <=> (r.live \/ r.deleted)
      /\ (\E v \in A : Deleted(v, m)') <=> r.deleted
    BY <1>1 DEF Replica
<1> QED BY <1>2, <1>3 DEF Replica

(* A change that makes nothing of a record leaves what its replica says.    *)
LEMMA ReplicaSame ==
    ASSUME NEW A, NEW v, NEW m, NEW r, Replica(A, m, r)',
           Creates(v, m)' => r.live \/ r.deleted,
           Deleted(v, m)' => r.deleted,
           r.live /\ Wrote(v, m, r)' => v <= r.ver,
           r.live => \A a \in Accounts : Reacted(v, m, a)' => v <= r.rver[a]
    PROVE  Replica(A \cup {v}, m, r)'
<1>1. r.live => Alive(A \cup {v}, m, r)'
    BY DEF Replica, Alive
<1> QED BY <1>1 DEF Replica

(* A change of one message leaves the replicas of the others.               *)
LEMMA ReplicaOther ==
    ASSUME NEW A, NEW v, NEW m, NEW r, Replica(A, m, r)', log'[v].msg # m
    PROVE  Replica(A \cup {v}, m, r)'
<1>1. /\ ~Creates(v, m)' /\ ~Deleted(v, m)' /\ ~Wrote(v, m, r)'
      /\ \A a \in Accounts : ~Reacted(v, m, a)'
    BY DEF Creates, Deleted, Wrote, Reacted
<1> QED BY <1>1, ReplicaSame

(* The changes a device has of a message come after its creation.           *)
LEMMA BornFirst ==
    ASSUME LogOK', NEW A \in SUBSET Changes', \A u \in A : log'[u].past \subseteq A,
           NEW u \in A, NEW m,
           \/ log'[u].msg = m
           \/ log'[u].kind = "create" /\ log'[u].reply = m /\ m # NoMsg
    PROVE  \E w \in A : Creates(w, m)'
<1>1. u \in Changes' /\ log'[u].past \subseteq A
    OBVIOUS
<1>2. CASE log'[u].msg = m /\ log'[u].kind # "create"
    <2>1. \E w \in log'[u].past : log'[w].kind = "create" /\ log'[w].msg = m
        BY <1>1, <1>2 DEF LogOK, Creates
    <2> QED BY <1>1, <2>1 DEF Creates
<1>3. CASE log'[u].msg = m /\ log'[u].kind = "create"
    BY <1>3 DEF Creates
<1>4. CASE log'[u].kind = "create" /\ log'[u].reply = m /\ m # NoMsg
    <2>1. \E w \in log'[u].past : log'[w].kind = "create" /\ log'[w].msg = m
        BY <1>1, <1>4 DEF LogOK, Creates
    <2> QED BY <1>1, <2>1 DEF Creates
<1> QED BY <1>2, <1>3, <1>4

(* A created message is new to a device that has not applied its change.    *)
LEMMA BornNew ==
    ASSUME LogOK', NEW A \in SUBSET Changes', \A u \in A : log'[u].past \subseteq A,
           NEW v \in Changes' \ A, NEW m \in Msgs, Creates(v, m)', m # NoMsg
    PROVE  /\ ~\E w \in A : Creates(w, m)'
           /\ \A u \in A : log'[u].msg # m
           /\ \A u \in A : log'[u].kind = "create" => log'[u].reply # m
<1>1. \A w \in Changes' : Creates(w, m)' => w = v
    BY DEF LogOK
<1>2. ~\E w \in A : Creates(w, m)'
    BY <1>1
<1>3. \A u \in A : log'[u].msg # m /\ ~(log'[u].kind = "create" /\ log'[u].reply = m)
    BY <1>2, BornFirst
<1> QED BY <1>2, <1>3

(* What a change makes of the record of its message.                        *)
LEMMA CreateStep ==
    ASSUME ChatConstants, LogOK',
           NEW A \in SUBSET Changes', \A u \in A : log'[u].past \subseteq A,
           NEW v \in Changes' \ A, NEW c \in Change, log'[v] = c, c.kind = "create", v \in Nat,
           NEW D, NEW m, m = c.msg, NEW r, CreateOf(r, v, c, D)
    PROVE  r \in Message /\ Replica(A \cup {v}, m, r)'
<1> DEFINE B == A \cup {v}
<1>1. /\ r \in Message
      /\ r.live /\ r.creator = {c.by} /\ r.born = v /\ r.text = c.text /\ r.ver = v
      /\ r.reply = c.reply /\ r.agent = c.done /\ ~r.deleted /\ r.on = {}
      /\ \A a \in Accounts : r.rver[a] = 0
    BY DEF CreateOf
<1>2. m \in Msgs /\ m # NoMsg /\ Creates(v, m)'
    BY DEF Change, ChatConstants, Creates
<1>3. \A u \in A : log'[u].msg # m
    BY <1>2, BornNew, Zenon
<1>5. Creates(v, m)' /\ ~Deleted(v, m)' /\ Wrote(v, m, r)' /\ \A a \in Accounts : ~Reacted(v, m, a)'
    BY <1>1 DEF Creates, Deleted, Wrote, Reacted
<1>6. \A u \in A : ~Creates(u, m)' /\ ~Deleted(u, m)' /\ ~Wrote(u, m, r)'
                   /\ \A a \in Accounts : ~Reacted(u, m, a)'
    BY <1>3 DEF Creates, Deleted, Wrote, Reacted
<1>7. /\ r.born \in B /\ Creates(r.born, m)'
      /\ r.creator = {log'[r.born].by}
      /\ r.reply = log'[r.born].reply /\ r.agent = log'[r.born].done
      /\ r.ver \in B /\ Wrote(r.ver, m, r)' /\ r.text = log'[r.ver].text
      /\ \A u \in B : Wrote(u, m, r)' => u <= r.ver
    BY <1>1, <1>5, <1>6
<1>8. \A a \in Accounts :
        /\ r.rver[a] # 0 => r.rver[a] \in B /\ Reacted(r.rver[a], m, a)'
        /\ \A u \in B : Reacted(u, m, a)' => u <= r.rver[a]
        /\ a \in r.on <=> (r.rver[a] # 0 /\ log'[r.rver[a]].kind = "react")
    BY <1>1, <1>5, <1>6
<1>9. Alive(B, m, r)'
    BY <1>7, <1>8 DEF Alive
<1>10. Replica(B, m, r)'
    BY <1>1, <1>5, <1>6, <1>9 DEF Replica
<1> QED BY <1>1, <1>10

(* Versions count the changes.                                              *)
LEMMA Versions ==
    ASSUME LogOK'
    PROVE  Changes' \subseteq Nat \ {0}
<1>1. log' \in Seq(Change)
    BY DEF LogOK
<1>2. DOMAIN log' = 1..Len(log') /\ Len(log') \in Nat
    BY <1>1
<1> QED BY <1>2 DEF Changes

(* An edit moves the text to the newest one its author wrote.               *)
LEMMA EditStep ==
    ASSUME LogOK', NEW A \in SUBSET Changes',
           NEW v \in Changes' \ A, NEW c \in Change, log'[v] = c, c.kind = "edit", v \in Nat,
           c.past \subseteq A,
           NEW D, NEW m, m = c.msg, NEW b \in Message, Replica(A, m, b)',
           NEW r, EditOf(b, r, v, c, D)
    PROVE  r \in Message /\ Replica(A \cup {v}, m, r)'
<1> DEFINE B == A \cup {v}
<1>1. ~Creates(v, m)' /\ ~Deleted(v, m)' /\ \A a \in Accounts : ~Reacted(v, m, a)'
    BY DEF Creates, Deleted, Reacted
<1>2. CASE IsAuthor(b, c.by) /\ v > b.ver
    <2>1. b.live /\ b.creator = {c.by}
        BY <1>2 DEF IsAuthor
    <2>2. Alive(A, m, b)' /\ ~b.deleted
        BY <2>1 DEF Replica
    <2>3. /\ r \in Message
          /\ r.live = b.live /\ r.creator = b.creator /\ r.born = b.born
          /\ r.text = c.text /\ r.ver = v
          /\ r.reply = b.reply /\ r.agent = b.agent /\ r.deleted = b.deleted
          /\ r.on = b.on /\ r.rver = b.rver
        BY <1>2 DEF EditOf
    <2>4. Wrote(v, m, r)' /\ \A u \in A : Wrote(u, m, r)' <=> Wrote(u, m, b)'
        BY <2>1, <2>3 DEF Wrote
    <2>5. \A u \in A : Wrote(u, m, b)' => u < v
        <3>1. b.ver \in Nat /\ A \subseteq Nat
            BY Versions DEF Message
        <3>2. \A u \in A : Wrote(u, m, b)' => u <= b.ver
            BY <2>2 DEF Alive
        <3> QED BY <1>2, <3>1, <3>2
    <2>6. /\ b.born \in A /\ Creates(b.born, m)'
          /\ b.creator = {log'[b.born].by}
          /\ b.reply = log'[b.born].reply /\ b.agent = log'[b.born].done
        BY <2>2 DEF Alive
    <2>7. \A a \in Accounts :
            /\ b.rver[a] # 0 => b.rver[a] \in A /\ Reacted(b.rver[a], m, a)'
            /\ \A u \in A : Reacted(u, m, a)' => u <= b.rver[a]
            /\ a \in b.on <=> (b.rver[a] # 0 /\ log'[b.rver[a]].kind = "react")
        BY <2>2 DEF Alive
    <2>8. /\ r.born \in B /\ Creates(r.born, m)'
          /\ r.creator = {log'[r.born].by}
          /\ r.reply = log'[r.born].reply /\ r.agent = log'[r.born].done
        BY <2>3, <2>6
    <2>9. /\ r.ver \in B /\ Wrote(r.ver, m, r)' /\ r.text = log'[r.ver].text
          /\ \A u \in B : Wrote(u, m, r)' => u <= r.ver
        BY <2>3, <2>4, <2>5
    <2>10. \A a \in Accounts :
            /\ r.rver[a] # 0 => r.rver[a] \in B /\ Reacted(r.rver[a], m, a)'
            /\ \A u \in B : Reacted(u, m, a)' => u <= r.rver[a]
            /\ a \in r.on <=> (r.rver[a] # 0 /\ log'[r.rver[a]].kind = "react")
        BY <1>1, <2>3, <2>7
    <2>11. Alive(B, m, r)'
        BY <2>8, <2>9, <2>10 DEF Alive
    <2>12. r.live /\ ~r.deleted
        BY <2>1, <2>2, <2>3
    <2>13. (\E w \in B : Creates(w, m)') /\ ~\E w \in B : Deleted(w, m)'
        BY <1>1, <2>1, <2>2 DEF Replica
    <2> QED BY <2>3, <2>11, <2>12, <2>13 DEF Replica
<1>3. CASE ~(IsAuthor(b, c.by) /\ v > b.ver)
    <2>1. r = b
        BY <1>3 DEF EditOf
    <2>2. b.live /\ Wrote(v, m, b)' => v <= b.ver
        BY <1>3 DEF Wrote, IsAuthor, Message
    <2> QED BY <1>1, <2>1, <2>2, ReplicaSame
<1> QED BY <1>2, <1>3

(* A toggle moves its signer's slot, and that slot only.                    *)
LEMMA ReactStep ==
    ASSUME LogOK', NEW A \in SUBSET Changes',
           NEW v \in Changes' \ A, NEW c \in Change, log'[v] = c, c.kind \in {"react", "unreact"},
           v \in Nat \ {0}, c.past \subseteq A,
           NEW m, m = c.msg, NEW b \in Message, Replica(A, m, b)', NEW r, ReactOf(b, r, v, c)
    PROVE  r \in Message /\ Replica(A \cup {v}, m, r)'
<1> DEFINE B == A \cup {v}
<1>1. /\ ~Creates(v, m)' /\ ~Deleted(v, m)' /\ ~Wrote(v, m, b)' /\ ~Wrote(v, m, r)'
      /\ \A a \in Accounts : Reacted(v, m, a)' <=> a = c.by
    BY DEF Creates, Deleted, Wrote, Reacted
<1>2. CASE b.live /\ v > b.rver[c.by]
    <2>1. Alive(A, m, b)' /\ ~b.deleted
        BY <1>2 DEF Replica
    <2>2. /\ r \in Message
          /\ r.live = b.live /\ r.creator = b.creator /\ r.born = b.born
          /\ r.text = b.text /\ r.ver = b.ver
          /\ r.reply = b.reply /\ r.agent = b.agent /\ r.deleted = b.deleted
        BY <1>2 DEF ReactOf
    <2>3. /\ r.on = IF c.kind = "react" THEN b.on \cup {c.by} ELSE b.on \ {c.by}
          /\ r.rver = [b.rver EXCEPT ![c.by] = v]
        BY <1>2 DEF ReactOf
    <2>4. \A u \in B : Wrote(u, m, r)' <=> Wrote(u, m, b)'
        BY <2>2 DEF Wrote
    <2>5. /\ b.born \in A /\ Creates(b.born, m)'
          /\ b.creator = {log'[b.born].by}
          /\ b.reply = log'[b.born].reply /\ b.agent = log'[b.born].done
          /\ b.ver \in A /\ Wrote(b.ver, m, b)' /\ b.text = log'[b.ver].text
          /\ \A u \in A : Wrote(u, m, b)' => u <= b.ver
        BY <2>1 DEF Alive
    <2>6. \A a \in Accounts :
            /\ b.rver[a] # 0 => b.rver[a] \in A /\ Reacted(b.rver[a], m, a)'
            /\ \A u \in A : Reacted(u, m, a)' => u <= b.rver[a]
            /\ a \in b.on <=> (b.rver[a] # 0 /\ log'[b.rver[a]].kind = "react")
        BY <2>1 DEF Alive
    <2>7. /\ r.born \in B /\ Creates(r.born, m)'
          /\ r.creator = {log'[r.born].by}
          /\ r.reply = log'[r.born].reply /\ r.agent = log'[r.born].done
          /\ r.ver \in B /\ Wrote(r.ver, m, r)' /\ r.text = log'[r.ver].text
          /\ \A u \in B : Wrote(u, m, r)' => u <= r.ver
        BY <1>1, <2>2, <2>4, <2>5
    <2>8. c.by \in Accounts /\ b.rver \in [Accounts -> Nat] /\ A \subseteq Nat
        BY Versions DEF Change, Message
    <2>9. r.rver[c.by] = v /\ \A a \in Accounts \ {c.by} : r.rver[a] = b.rver[a]
        BY <2>3, <2>8
    <2>10. ASSUME NEW a \in Accounts
           PROVE  /\ r.rver[a] # 0 => r.rver[a] \in B /\ Reacted(r.rver[a], m, a)'
                  /\ \A u \in B : Reacted(u, m, a)' => u <= r.rver[a]
                  /\ a \in r.on <=> (r.rver[a] # 0 /\ log'[r.rver[a]].kind = "react")
        <3>1. CASE a = c.by
            <4>1. \A u \in A : Reacted(u, m, a)' => u <= v
                <5>1. \A u \in A : Reacted(u, m, a)' => u <= b.rver[c.by]
                    BY <2>6, <3>1
                <5>2. b.rver[c.by] \in Nat
                    BY <2>8
                <5>3. \A u \in A : u \in Nat
                    BY <2>8
                <5>4. SUFFICES ASSUME NEW u \in A, Reacted(u, m, a)' PROVE u <= v
                    OBVIOUS
                <5>5. u \in Nat /\ u <= b.rver[c.by] /\ b.rver[c.by] < v
                    BY <1>2, <5>1, <5>2, <5>3, <5>4
                <5> QED BY <5>2, <5>5
            <4>2. c.by \in r.on <=> c.kind = "react"
                BY <2>3
            <4> QED BY <1>1, <2>9, <3>1, <4>1, <4>2
        <3>2. CASE a # c.by
            <4>1. a \in r.on <=> a \in b.on
                BY <2>3, <3>2
            <4> QED BY <1>1, <2>6, <2>9, <3>2, <4>1
        <3> QED BY <3>1, <3>2
    <2>11. Alive(B, m, r)'
        BY <2>7, <2>10 DEF Alive
    <2>12. r.live /\ ~r.deleted
        BY <1>2, <2>1, <2>2
    <2>13. (\E w \in B : Creates(w, m)') /\ ~\E w \in B : Deleted(w, m)'
        BY <1>1, <1>2, <2>1 DEF Replica
    <2> QED BY <2>2, <2>11, <2>12, <2>13 DEF Replica
<1>3. CASE ~(b.live /\ v > b.rver[c.by])
    <2>1. r = b
        BY <1>3 DEF ReactOf
    <2>2. c.by \in Accounts /\ b.rver[c.by] \in Nat
        BY DEF Change, Message
    <2>3. b.live => \A a \in Accounts : Reacted(v, m, a)' => v <= b.rver[a]
        BY <1>1, <1>3, <2>2
    <2> QED BY <1>1, <2>1, <2>3, ReplicaSame
<1> QED BY <1>2, <1>3

(* A delete by the author ends the message, and nobody else's does.         *)
LEMMA DeleteStep ==
    ASSUME ChatConstants, LogOK', NEW A \in SUBSET Changes',
           NEW v \in Changes' \ A, NEW c \in Change, log'[v] = c, c.kind = "delete",
           c.past \subseteq A,
           NEW m, m = c.msg, NEW b \in Message, Replica(A, m, b)',
           NEW r, r = IF IsAuthor(b, c.by) THEN [NoRecord EXCEPT !.deleted = TRUE] ELSE b
    PROVE  r \in Message /\ Replica(A \cup {v}, m, r)'
<1> DEFINE B == A \cup {v}
<1>1. ~Creates(v, m)' /\ ~Wrote(v, m, b)' /\ \A a \in Accounts : ~Reacted(v, m, a)'
    BY DEF Creates, Wrote, Reacted
<1>2. b.live => /\ b.born \in A /\ Creates(b.born, m)' /\ b.creator = {log'[b.born].by}
                /\ \A w \in Changes' : Creates(w, m)' => w = b.born
    <2> SUFFICES ASSUME b.live PROVE
                /\ b.born \in A /\ Creates(b.born, m)' /\ b.creator = {log'[b.born].by}
                /\ \A w \in Changes' : Creates(w, m)' => w = b.born
        OBVIOUS
    <2>1. b.born \in A /\ Creates(b.born, m)' /\ b.creator = {log'[b.born].by}
        BY DEF Replica, Alive
    <2>2. m \in Msgs
        BY DEF Change
    <2>3. \A w, u \in Changes' : Creates(w, m)' /\ Creates(u, m)' => w = u
        BY <2>2 DEF LogOK
    <2> QED BY <2>1, <2>3
<1>3. \E w \in c.past : Creates(w, m)'
    BY DEF LogOK, Creates
<1>4. CASE IsAuthor(b, c.by)
    <2>1. b.live /\ b.creator = {c.by}
        BY <1>4 DEF IsAuthor
    <2>2. Deleted(v, m)'
        <3>1. PICK w \in c.past : Creates(w, m)'
            BY <1>3
        <3>2. w = b.born
            BY <1>2, <2>1, <3>1
        <3>3. log'[w].by = c.by
            BY <1>2, <2>1, <3>2
        <3> QED BY <3>1, <3>3 DEF Deleted
    <2>3. r = [NoRecord EXCEPT !.deleted = TRUE] /\ r \in Message /\ ~r.live /\ r.deleted
        BY <1>4, EmptyTyped
    <2>4. r = [NoRecord EXCEPT !.deleted = r.deleted]
        BY <2>3 DEF NoRecord
    <2>5. \E w \in B : Creates(w, m)'
        BY <1>2, <2>1
    <2> QED BY <2>2, <2>3, <2>4, <2>5 DEF Replica
<1>5. CASE ~IsAuthor(b, c.by)
    <2>1. r = b
        BY <1>5
    <2>2. Deleted(v, m)' => b.deleted
        <3>1. SUFFICES ASSUME Deleted(v, m)', b.live PROVE FALSE
            <4>1. b.live \/ b.deleted
                BY <1>3 DEF Replica
            <4> QED BY <3>1, <4>1
        <3>2. PICK w \in c.past : Creates(w, m)' /\ log'[w].by = c.by
            BY <3>1 DEF Deleted
        <3>3. w = b.born
            BY <1>2, <3>1, <3>2
        <3> QED BY <1>2, <1>5, <3>1, <3>2, <3>3 DEF IsAuthor
    <2> QED BY <1>1, <2>1, <2>2, ReplicaSame
<1> QED BY <1>4, <1>5

(* What an applied change leaves a device to go by, in records R.           *)
Makes(R, v, c, r) ==
    /\ r \in Message
    /\ SeqRange(r.mentions) \subseteq Accounts /\ Len(r.mentions) <= MaxMentions
    /\ c.kind = "create" =>
        /\ ~R[c.msg].live /\ r.live /\ r.creator = {c.by} /\ r.agent = c.done
        /\ r.mentions = DeriveMentions(R, r.text, r.reply)
    /\ c.kind # "create" /\ r.live =>
        /\ R[c.msg].live /\ r.creator = R[c.msg].creator /\ r.reply = R[c.msg].reply
        /\ \/ r.mentions = R[c.msg].mentions /\ r.text = R[c.msg].text
           \/ r.mentions = DeriveMentions(R, r.text, r.reply)

(* A live message has one creator, an account.                              *)
LEMMA Creators ==
    ASSUME LogOK', NEW A \in SUBSET Changes', NEW m, NEW r, Replica(A, m, r)', r.live
    PROVE  \E a \in Accounts : r.creator = {a}
<1>1. r.born \in A /\ r.creator = {log'[r.born].by}
    BY DEF Replica, Alive
<1>2. log'[r.born] \in Change
    <2>1. log' \in Seq(Change) /\ r.born \in DOMAIN log'
        BY <1>1 DEF LogOK, Changes
    <2> QED BY <2>1
<1>3. log'[r.born].by \in Accounts
    BY <1>2 DEF Change
<1> QED BY <1>1, <1>3

(* Whatever the change, the record of its message is what the changes make. *)
LEMMA MessageStep ==
    ASSUME ChatConstants, LogOK',
           NEW A \in SUBSET Changes', \A u \in A : log'[u].past \subseteq A,
           NEW v \in Changes' \ A, NEW c \in Change, log'[v] = c, c.past \subseteq A,
           NEW R \in [Msgs -> Message], \A n \in Msgs : Replica(A, n, R[n])',
           \A n \in Msgs : /\ SeqRange(R[n].mentions) \subseteq Accounts
                           /\ Len(R[n].mentions) <= MaxMentions,
           NEW m, m = c.msg, NEW r, r = Applied(R, v, c)
    PROVE  Makes(R, v, c, r) /\ Replica(A \cup {v}, m, r)'
<1> DEFINE b == R[m]
<1>1. /\ c.by \in Accounts /\ m \in Msgs /\ c.text \in Texts /\ c.reply \in Msgs \cup {NoMsg}
      /\ c.kind \in Kinds
    BY DEF Change
<1>2. b \in Message /\ b.reply \in Msgs \cup {NoMsg}
    BY <1>1 DEF Message
<1>3. v \in Nat \ {0}
    BY Versions
<1>4. ASSUME NEW t \in Texts, NEW q \in Msgs \cup {NoMsg}
      PROVE  LET D == DeriveMentions(R, t, q)
             IN D \in Seq(Accounts) /\ Len(D) <= MaxMentions /\ SeqRange(D) \subseteq Accounts
    <2>1. q # NoMsg /\ R[q].live => \E a \in Accounts : R[q].creator = {a}
        BY Creators
    <2> QED BY <2>1, Derives
<1>5. Replica(A, m, b)' /\ SeqRange(b.mentions) \subseteq Accounts /\ Len(b.mentions) <= MaxMentions
    BY <1>1
<1> HIDE DEF b
<1>6. CASE c.kind = "create"
    <2> DEFINE D == DeriveMentions(R, c.text, c.reply)
    <2>1. D \in Seq(Accounts) /\ Len(D) <= MaxMentions /\ SeqRange(D) \subseteq Accounts
        BY <1>1, <1>4
    <2>2. CreateOf(r, v, c, D)
        BY <1>3, <1>6, <2>1, CreateMakes
    <2>3. r \in Message /\ Replica(A \cup {v}, m, r)'
        <3> HIDE DEF D
        <3> QED BY <1>3, <1>6, <2>2, CreateStep
    <2>4. ~b.live
        <3>1. ~\E w \in A : Creates(w, m)'
            <4>1. Creates(v, m)' /\ m # NoMsg
                BY <1>1, <1>6 DEF Creates, ChatConstants
            <4> QED BY <1>1, <4>1, BornNew
        <3> QED BY <1>5, <3>1 DEF Replica
    <2>5. r.live /\ r.creator = {c.by} /\ r.agent = c.done /\ r.mentions = D
          /\ r.text = c.text /\ r.reply = c.reply
        BY <2>2 DEF CreateOf
    <2>6. r.mentions = DeriveMentions(R, r.text, r.reply)
        BY <2>5
    <2> HIDE DEF D
    <2> QED BY <1>6, <2>1, <2>3, <2>4, <2>5, <2>6 DEF Makes, b
<1>7. CASE c.kind = "edit"
    <2> DEFINE D == DeriveMentions(R, c.text, b.reply)
    <2>1. D \in Seq(Accounts) /\ Len(D) <= MaxMentions /\ SeqRange(D) \subseteq Accounts
        BY <1>1, <1>2, <1>4
    <2>2. EditOf(b, r, v, c, D)
        BY <1>2, <1>3, <1>7, <2>1, EditMakes DEF b
    <2>3. r \in Message /\ Replica(A \cup {v}, m, r)'
        <3> HIDE DEF D
        <3> QED BY <1>2, <1>3, <1>5, <1>7, <2>2, EditStep
    <2>4. CASE IsAuthor(b, c.by) /\ v > b.ver
        <3>1. /\ b.live /\ r.creator = b.creator /\ r.reply = b.reply /\ r.text = c.text
              /\ r.mentions = D
            BY <2>2, <2>4 DEF EditOf, IsAuthor
        <3>2. r.mentions = DeriveMentions(R, r.text, r.reply)
            BY <3>1
        <3> HIDE DEF D
        <3> QED BY <1>7, <2>1, <2>3, <3>1, <3>2 DEF Makes, b
    <2>5. CASE ~(IsAuthor(b, c.by) /\ v > b.ver)
        <3>1. r = b
            BY <2>2, <2>5 DEF EditOf
        <3> QED BY <1>5, <1>7, <2>3, <3>1 DEF Makes, b
    <2> QED BY <2>4, <2>5
<1>8. CASE c.kind \in {"react", "unreact"}
    <2>1. ReactOf(b, r, v, c)
        BY <1>2, <1>3, <1>8, ReactMakes DEF b
    <2>2. r \in Message /\ Replica(A \cup {v}, m, r)'
        BY <1>2, <1>3, <1>5, <1>8, <2>1, ReactStep
    <2>3. /\ r.live = b.live /\ r.creator = b.creator /\ r.reply = b.reply
          /\ r.text = b.text /\ r.mentions = b.mentions
        BY <2>1 DEF ReactOf
    <2> QED BY <1>5, <1>8, <2>2, <2>3 DEF Makes, b
<1>9. CASE c.kind = "delete"
    <2>1. r = IF IsAuthor(b, c.by) THEN [NoRecord EXCEPT !.deleted = TRUE] ELSE b
        BY <1>9, DeleteMakes DEF b
    <2>2. r \in Message /\ Replica(A \cup {v}, m, r)'
        BY <1>2, <1>5, <1>9, <2>1, DeleteStep
    <2>3. CASE IsAuthor(b, c.by)
        <3>1. ~r.live /\ r.mentions = <<>>
            BY <2>1, <2>3 DEF NoRecord
        <3>2. SeqRange(r.mentions) \subseteq Accounts /\ Len(r.mentions) <= MaxMentions
            BY <3>1 DEF SeqRange, ChatConstants
        <3> QED BY <1>9, <2>2, <3>1, <3>2 DEF Makes
    <2>4. CASE ~IsAuthor(b, c.by)
        <3>1. r = b
            BY <2>1, <2>4
        <3> QED BY <1>5, <1>9, <2>2, <3>1 DEF Makes, b
    <2> QED BY <2>3, <2>4
<1> QED BY <1>1, <1>6, <1>7, <1>8, <1>9 DEF Kinds

(* A message replies to one created before it.                              *)
LEMMA RepliesBack ==
    ASSUME ChatConstants, LogOK',
           NEW A \in SUBSET Changes', \A u \in A : log'[u].past \subseteq A,
           NEW v \in Changes' \ A, NEW m \in Msgs, Creates(v, m)', log'[v].past \subseteq A,
           NEW n, NEW x, Replica(A \cup {v}, n, x)', x.live, x.reply # NoMsg
    PROVE  x.reply # m
<1>1. PICK w \in A \cup {v} : log'[w].kind = "create" /\ log'[w].reply = x.reply
    BY DEF Replica, Alive, Creates
<1>2. m # NoMsg
    BY DEF ChatConstants
<1>3. CASE w \in A
    BY <1>1, <1>2, <1>3, BornNew
<1>4. CASE w = v
    <2>1. SUFFICES ASSUME x.reply = m PROVE FALSE
        OBVIOUS
    <2>2. \E u \in log'[v].past : log'[u].kind = "create" /\ log'[u].msg = m
        BY <1>1, <1>2, <1>4, <2>1 DEF LogOK, Creates
    <2>3. \E u \in A : Creates(u, m)'
        BY <2>2 DEF Creates
    <2> QED BY <1>2, <2>3, BornNew
<1> QED BY <1>3, <1>4

(* A change arrives at a device that has everything before it.              *)
Arrives(A, v, c) ==
    /\ A \in SUBSET Changes /\ \A u \in A : log[u].past \subseteq A
    /\ v \in Changes \ A /\ c \in Change /\ log[v] = c /\ c.past \subseteq A

(* What a device's records are after a change arrives.                      *)
LEMMA DeviceStep ==
    ASSUME ChatConstants, LogOK', NEW A, NEW v, NEW c, Arrives(A, v, c)', NEW R, Shows(A, R)',
           NEW m, m = c.msg, NEW r, r = Applied(R, v, c), NEW Q, Q = [R EXCEPT ![m] = r]
    PROVE  Makes(R, v, c, r) /\ Shows(A \cup {v}, Q)'
<1> USE DEF Arrives, Shows
<1>0. m \in Msgs
    BY DEF Change
<1>1. Makes(R, v, c, r) /\ Replica(A \cup {v}, m, r)'
    BY <1>0, MessageStep
<1>2. r \in Message /\ SeqRange(r.mentions) \subseteq Accounts /\ Len(r.mentions) <= MaxMentions
    BY <1>1 DEF Makes
<1>3. Q \in [Msgs -> Message] /\ Q[m] = r /\ \A n \in Msgs \ {m} : Q[n] = R[n]
    BY <1>0, <1>2
<1>4. \A n \in Msgs : Replica(A \cup {v}, n, Q[n])'
    <2>1. \A n \in Msgs \ {m} : Replica(A \cup {v}, n, R[n])'
        BY ReplicaOther
    <2> QED BY <1>1, <1>3, <2>1
<1>5. \A n \in Msgs : SeqRange(Q[n].mentions) \subseteq Accounts /\ Len(Q[n].mentions) <= MaxMentions
    BY <1>2, <1>3
<1>6. ASSUME NEW n \in Msgs, Q[n].live, Q[n].reply = NoMsg \/ Q[Q[n].reply].live
      PROVE  Q[n].mentions = DeriveMentions(Q, Q[n].text, Q[n].reply)
    <2> DEFINE x == Q[n]
               q == x.reply
    <2>1. x \in Message /\ q \in Msgs \cup {NoMsg}
        BY <1>3 DEF Message
    <2>2. c.kind = "create" /\ q # NoMsg => q # m
        <3>1. SUFFICES ASSUME c.kind = "create", q # NoMsg PROVE q # m
            OBVIOUS
        <3>2. Creates(v, m)' /\ Replica(A \cup {v}, n, x)' /\ x.live
            BY <1>4, <1>6, <3>1 DEF Creates
        <3> HIDE DEF x
        <3> QED BY <1>0, <3>1, <3>2, RepliesBack
    <2>3. q # NoMsg => R[q].live /\ R[q].live = Q[q].live /\ R[q].creator = Q[q].creator
        <3>1. SUFFICES ASSUME q # NoMsg
                       PROVE R[q].live /\ R[q].live = Q[q].live /\ R[q].creator = Q[q].creator
            OBVIOUS
        <3>2. CASE q # m
            BY <1>3, <1>6, <2>1, <3>1, <3>2
        <3>3. CASE q = m
            <4>1. c.kind # "create" /\ r.live
                BY <1>3, <1>6, <2>2, <3>1, <3>3
            <4>2. R[m].live /\ r.creator = R[m].creator
                BY <1>1, <4>1 DEF Makes
            <4>3. R[m] \in Message /\ r.live = TRUE /\ R[m].live = TRUE
                BY <1>0, <1>2, <4>1, <4>2 DEF Message
            <4> QED BY <1>3, <3>3, <4>2, <4>3
        <3> QED BY <3>2, <3>3
    <2> HIDE DEF x, q
    <2>4. DeriveMentions(Q, x.text, q) = DeriveMentions(R, x.text, q)
        <3>1. q # NoMsg => Q[q].live = R[q].live /\ Q[q].creator = R[q].creator
            BY <2>3
        <3> DEFINE t == x.text
        <3> HIDE DEF t
        <3>2. DeriveMentions(Q, t, q) = DeriveMentions(R, t, q)
            BY ONLY <3>1, DerivesAlike
        <3> QED BY <3>2 DEF t
    <2>5. x.mentions = DeriveMentions(R, x.text, q)
        <3>1. CASE n # m
            <4>1. x = R[n] /\ Mentioned(R, R[n])
                BY <1>3, <3>1 DEF x
            <4> QED BY <1>6, <2>3, <4>1 DEF Mentioned, x, q
        <3>2. CASE n = m
            <4>1. x = r
                BY <1>3, <3>2 DEF x
            <4>2. CASE c.kind = "create"
                BY <1>1, <4>1, <4>2 DEF Makes, q
            <4>3. CASE c.kind # "create"
                <5>1. /\ R[m].live /\ q = R[m].reply
                      /\ \/ x.mentions = R[m].mentions /\ x.text = R[m].text
                         \/ x.mentions = DeriveMentions(R, x.text, q)
                    BY <1>1, <1>6, <4>1, <4>3 DEF Makes, q, x
                <5>2. R[m].mentions = DeriveMentions(R, R[m].text, q)
                    BY <1>0, <2>3, <5>1 DEF Mentioned
                <5> QED BY <5>1, <5>2
            <4> QED BY <4>2, <4>3
        <3> QED BY <3>1, <3>2
    <2> QED BY <2>4, <2>5 DEF x, q
<1>7. \A n \in Msgs : Mentioned(Q, Q[n])
    BY <1>6 DEF Mentioned
<1> QED BY <1>1, <1>3, <1>4, <1>5, <1>7

(* Replicas of the same changes differ in mentions only.                    *)
LEMMA Agree ==
    ASSUME LogOK, NEW A \in SUBSET Changes, NEW m \in Msgs, NEW r \in Message, NEW s \in Message,
           Replica(A, m, r), Replica(A, m, s)
    PROVE  [r EXCEPT !.mentions = s.mentions] = s
<1>1. r.deleted = s.deleted /\ r.live = s.live
    BY DEF Replica, Message
<1>2. CASE ~r.live
    <2>1. r = [NoRecord EXCEPT !.deleted = r.deleted] /\ s = [NoRecord EXCEPT !.deleted = s.deleted]
        BY <1>1, <1>2 DEF Replica
    <2>2. r = s
        BY <1>1, <2>1
    <2> QED BY <2>2 DEF Message
<1>3. CASE r.live
    <2>1. Alive(A, m, r) /\ Alive(A, m, s)
        BY <1>1, <1>3 DEF Replica
    <2>2. r.born = s.born
        BY <2>1 DEF Alive, LogOK
    <2>3. r.creator = s.creator /\ r.reply = s.reply /\ r.agent = s.agent
        BY <2>1, <2>2 DEF Alive
    <2>4. r.ver = s.ver
        <3>1. \A u \in A : Wrote(u, m, r) <=> Wrote(u, m, s)
            BY <2>3 DEF Wrote
        <3>2. /\ r.ver \in A /\ Wrote(r.ver, m, r) /\ \A u \in A : Wrote(u, m, r) => u <= r.ver
              /\ s.ver \in A /\ Wrote(s.ver, m, s) /\ \A u \in A : Wrote(u, m, s) => u <= s.ver
            BY <2>1 DEF Alive
        <3>3. r.ver <= s.ver /\ s.ver <= r.ver
            BY <3>1, <3>2
        <3> QED BY <3>3 DEF Message
    <2>5. r.text = s.text
        BY <2>1, <2>4 DEF Alive
    <2>6. \A a \in Accounts : r.rver[a] = s.rver[a]
        <3> SUFFICES ASSUME NEW a \in Accounts PROVE r.rver[a] = s.rver[a]
            OBVIOUS
        <3>1. /\ r.rver[a] # 0 => r.rver[a] \in A /\ Reacted(r.rver[a], m, a)
              /\ \A u \in A : Reacted(u, m, a) => u <= r.rver[a]
              /\ s.rver[a] # 0 => s.rver[a] \in A /\ Reacted(s.rver[a], m, a)
              /\ \A u \in A : Reacted(u, m, a) => u <= s.rver[a]
            BY <2>1 DEF Alive
        <3>2. (r.rver[a] # 0 => r.rver[a] <= s.rver[a]) /\ (s.rver[a] # 0 => s.rver[a] <= r.rver[a])
            BY <3>1
        <3>3. r.rver[a] \in Nat /\ s.rver[a] \in Nat
            BY DEF Message
        <3> QED BY <3>2, <3>3
    <2>7. r.rver = s.rver
        <3>1. r.rver \in [Accounts -> Nat] /\ s.rver \in [Accounts -> Nat]
            BY DEF Message
        <3> QED BY <2>6, <3>1
    <2>8. r.on = s.on
        <3>1. \A a \in Accounts : a \in r.on <=> a \in s.on
            BY <2>1, <2>7 DEF Alive
        <3>2. r.on \subseteq Accounts /\ s.on \subseteq Accounts
            BY DEF Message
        <3> QED BY <3>1, <3>2
    <2> QED BY <1>1, <2>2, <2>3, <2>4, <2>5, <2>7, <2>8 DEF Message
<1> QED BY <1>2, <1>3

(* What a verdict keeps of the unread set, and adds to it.                  *)
LEMMA VerdictsTold ==
    ASSUME NEW self, NEW c, NEW post, NEW V, V = ClassifyRead(self, c, post)
    PROVE  /\ c.kind = "create" => V.track /\ V.key = NoKey /\ "message" \in V.tags /\ V.audience
           /\ V.self <=> (c.kind = "create" /\ post.agent)
           /\ "reaction" \in V.tags => c.kind = "react"
           /\ c.kind = "react" => (V.audience => post.creator = {self})
<1>1. /\ V.track = (c.kind \in {"create", "react"} \/ (c.kind = "edit" /\ MentionsSelf(post, self)))
      /\ V.key = CASE c.kind = "edit" -> <<"mention", c.msg>>
               [] c.kind \in {"react", "unreact"} -> <<"reaction", c.msg, c.by>>
               [] OTHER -> NoKey
      /\ V.tags = IF c.kind = "react" THEN {"reaction"}
              ELSE (IF c.kind = "create" THEN {"message"} ELSE {})
                   \cup (IF MentionsSelf(post, self) THEN {"mention"} ELSE {})
      /\ V.audience = (c.kind # "react" \/ post.creator = {self})
      /\ V.self = (c.kind = "create" /\ post.agent)
    BY Zenon DEF ClassifyRead
<1>2. c.kind = "create" => V.key = NoKey
    BY <1>1
<1>3. c.kind = "create" => "message" \in V.tags
    BY <1>1
<1>4. "reaction" \in V.tags => c.kind = "react"
    BY <1>1
<1>5. c.kind = "create" => V.track /\ V.audience
    BY <1>1
<1> QED BY <1>1, <1>2, <1>3, <1>4, <1>5, Zenon

(* An entry is kept with its message unless its key is superseded, and a    *)
(* create's entry has no key.                                               *)
LEMMA TrackedIs ==
    ASSUME NEW d, NEW v, NEW c, NEW post, NEW self, self = AccountOf(d),
           NEW W, W = Tracked(d, v, c, post)
    PROVE  /\ \A x \in W : \/ x \in unread[d] /\ (post.live \/ x.msg # c.msg)
                           \/ /\ x.ch = v /\ x.msg = c.msg /\ post.live /\ v \notin seen[d]
                              /\ "reaction" \in x.tags => post.creator = {self} /\ c.by # self
           /\ \A x \in unread[d] : x.key = NoKey /\ (post.live \/ x.msg # c.msg) => x \in W
           /\ /\ c.kind = "create" /\ post.live /\ v \notin seen[d] /\ (c.by # self \/ post.agent)
              => \E x \in W : x.ch = v /\ x.msg = c.msg /\ "message" \in x.tags /\ x.key = NoKey
<1> DEFINE V == ClassifyRead(self, c, post)
           new == [ch |-> v, msg |-> c.msg, tags |-> V.tags, key |-> V.key]
           kept == {e \in unread[d] : /\ V.key = NoKey \/ e.key # V.key
                                      /\ post.live \/ e.msg # c.msg}
           counts == /\ V.track /\ V.audience /\ post.live /\ v \notin seen[d]
                     /\ c.by # self \/ V.self
<1>1. W = kept \cup (IF counts THEN {new} ELSE {})
    BY Zenon DEF Tracked
<1>2. /\ c.kind = "create" => V.track /\ V.key = NoKey /\ "message" \in V.tags /\ V.audience
      /\ V.self <=> (c.kind = "create" /\ post.agent)
      /\ "reaction" \in V.tags => c.kind = "react"
      /\ c.kind = "react" => (V.audience => post.creator = {self})
    BY VerdictsTold
<1>3. new.ch = v /\ new.msg = c.msg /\ new.tags = V.tags /\ new.key = V.key
    BY Zenon
<1> HIDE DEF V, new
<1>4. ASSUME counts, "reaction" \in new.tags PROVE post.creator = {self} /\ c.by # self
    BY <1>2, <1>3, <1>4
<1>5. \A x \in W : x \in kept \/ (counts /\ x = new)
    BY <1>1
<1>6. \A x \in W : \/ x \in unread[d] /\ (post.live \/ x.msg # c.msg)
                   \/ /\ x.ch = v /\ x.msg = c.msg /\ post.live /\ v \notin seen[d]
                      /\ "reaction" \in x.tags => post.creator = {self} /\ c.by # self
    BY <1>3, <1>4, <1>5
<1>7. \A x \in unread[d] : x.key = NoKey /\ (post.live \/ x.msg # c.msg) => x \in W
    BY <1>1, Zenon
<1>8. /\ c.kind = "create" /\ post.live /\ v \notin seen[d] /\ (c.by # self \/ post.agent)
      => \E x \in W : x.ch = v /\ x.msg = c.msg /\ "message" \in x.tags /\ x.key = NoKey
    <2>1. SUFFICES ASSUME c.kind = "create", post.live, v \notin seen[d], c.by # self \/ post.agent
                   PROVE  \E x \in W : x.ch = v /\ x.msg = c.msg /\ "message" \in x.tags /\ x.key = NoKey
        OBVIOUS
    <2>2. counts
        BY <1>2, <2>1
    <2>3. new \in W
        BY <1>1, <2>2
    <2> QED BY <1>2, <1>3, <2>1, <2>3, Zenon
<1> QED BY <1>6, <1>7, <1>8

(* A change of the past is what it was, for records and badges alike.       *)
LEMMA DeviceKept ==
    ASSUME LogOK, \A w \in Changes : w \in Changes' /\ log'[w] = log[w],
           NEW A \in SUBSET Changes, NEW S, NEW R, NEW U, NEW self,
           Shows(A, R), Badges(A, S, R, U, self)
    PROVE  Shows(A, R)' /\ Badges(A, S, R, U, self)'
<1>1. \A m \in Msgs : Replica(A, m, R[m])'
    <2>1. \A m \in Msgs : Replica(A, m, R[m])
        BY DEF Shows
    <2> QED BY <2>1, ReplicaKept
<1>2. Shows(A, R)'
    BY <1>1 DEF Shows
<1>3. \A w \in A : log'[w] = log[w]
    OBVIOUS
<1>4. Badges(A, S, R, U, self)'
    BY <1>3 DEF Badges
<1> QED BY <1>2, <1>4

(* The unread set of the device a change arrives at.                        *)
LEMMA UnreadStep ==
    ASSUME ChatConstants, LogOK', NEW A, NEW v, NEW c, Arrives(A, v, c)', NEW R, Shows(A, R)',
           NEW m, m = c.msg, NEW r, Makes(R, v, c, r), NEW Q, Q = [R EXCEPT ![m] = r],
           NEW d, NEW S, S = seen[d], NEW U, U = unread[d], NEW self, self = AccountOf(d),
           Badges(A, S, R, U, self)',
           NEW W, W = IF c.kind = "create" \/ R[m].live THEN Tracked(d, v, c, r) ELSE U
    PROVE  Badges(A \cup {v}, S, Q, W, self)'
<1> DEFINE touched == c.kind = "create" \/ R[m].live
<1>a. /\ m \in Msgs /\ A \in SUBSET Changes' /\ v \in Changes' \ A /\ log'[v] = c
      /\ \A u \in A : log'[u].past \subseteq A
    BY DEF Arrives, Change
<1>b. Q[m] = r /\ \A n \in Msgs \ {m} : Q[n] = R[n]
    BY <1>a DEF Shows
<1>c. \A u \in A : log'[u].msg \in Msgs
    <2>1. log' \in Seq(Change) /\ \A u \in A : u \in DOMAIN log'
        BY <1>a DEF LogOK, Changes
    <2>2. \A u \in A : log'[u] \in Change
        BY <2>1
    <2> QED BY <2>2 DEF Change
<1>1. \A e \in U : /\ e.ch \in A \ S /\ e.msg = log'[e.ch].msg /\ R[e.msg].live /\ e.msg \in Msgs
                   /\ "reaction" \in e.tags => R[e.msg].creator = {self} /\ log'[e.ch].by # self
    BY <1>c DEF Badges
<1>2. \A u \in A \ S :
        log'[u].kind = "create" /\ R[log'[u].msg].live /\ (log'[u].by # self \/ log'[u].done) =>
            \E e \in U : e.ch = u /\ e.msg = log'[u].msg /\ "message" \in e.tags /\ e.key = NoKey
    BY DEF Badges
<1>3. /\ c.kind = "create" => ~R[m].live /\ r.live /\ r.creator = {c.by} /\ r.agent = c.done
      /\ c.kind # "create" /\ r.live => R[m].live /\ r.creator = R[m].creator
    BY DEF Makes
<1>4. c.kind = "create" => \A u \in A : log'[u].msg # m
    <2>1. SUFFICES ASSUME c.kind = "create" PROVE \A u \in A : log'[u].msg # m
        OBVIOUS
    <2>2. Creates(v, m)' /\ m # NoMsg
        BY <1>a, <2>1 DEF Creates, ChatConstants
    <2> QED BY <1>a, <2>2, BornNew
<1>5. ~touched => W = U /\ c.kind # "create" /\ ~R[m].live /\ ~r.live
    BY <1>3
<1>6. touched => W = Tracked(d, v, c, r)
    OBVIOUS
<1>7. touched => /\ \A x \in W : \/ x \in U /\ (r.live \/ x.msg # m)
                                 \/ /\ x.ch = v /\ x.msg = m /\ r.live /\ v \notin S
                                    /\ "reaction" \in x.tags => r.creator = {self} /\ c.by # self
                 /\ \A x \in U : x.key = NoKey /\ (r.live \/ x.msg # m) => x \in W
                 /\ /\ c.kind = "create" /\ r.live /\ v \notin S /\ (c.by # self \/ r.agent)
                    => \E x \in W : x.ch = v /\ x.msg = m /\ "message" \in x.tags /\ x.key = NoKey
    <2> HIDE DEF touched
    <2> QED BY <1>6, TrackedIs
<1> HIDE DEF touched
<1>8. ASSUME NEW x \in U, r.live \/ x.msg # m
      PROVE  /\ x.ch \in (A \cup {v}) \ S /\ x.msg = log'[x.ch].msg /\ Q[x.msg].live
             /\ "reaction" \in x.tags => Q[x.msg].creator = {self} /\ log'[x.ch].by # self
    <2>1. CASE x.msg # m
        BY <1>1, <1>b, <2>1
    <2>2. CASE x.msg = m
        <3>1. r.live /\ R[m].live
            BY <1>1, <1>8, <2>2
        <3>2. r.creator = R[m].creator
            BY <1>3, <3>1
        <3> QED BY <1>1, <1>b, <2>2, <3>1, <3>2
    <2> QED BY <2>1, <2>2
<1>9. ASSUME NEW e \in W
      PROVE  /\ e.ch \in (A \cup {v}) \ S /\ e.msg = log'[e.ch].msg /\ Q[e.msg].live
             /\ "reaction" \in e.tags => Q[e.msg].creator = {self} /\ log'[e.ch].by # self
    <2>1. CASE ~touched
        <3>1. e \in U /\ e.msg # m
            BY <1>1, <1>5, <2>1
        <3> QED BY <1>8, <3>1
    <2>2. CASE touched
        <3>1. CASE e \in U /\ (r.live \/ e.msg # m)
            BY <1>8, <3>1
        <3>2. CASE /\ e.ch = v /\ e.msg = m /\ r.live /\ v \notin S
                   /\ "reaction" \in e.tags => r.creator = {self} /\ c.by # self
            BY <1>a, <1>b, <3>2
        <3> QED BY <1>7, <2>2, <3>1, <3>2
    <2> QED BY <2>1, <2>2
<1>10. ASSUME NEW u \in (A \cup {v}) \ S,
              log'[u].kind = "create", Q[log'[u].msg].live, log'[u].by # self \/ log'[u].done
       PROVE  \E e \in W : e.ch = u /\ e.msg = log'[u].msg /\ "message" \in e.tags /\ e.key = NoKey
    <2>1. CASE u = v
        <3>1. c.kind = "create" /\ r.live /\ v \notin S /\ (c.by # self \/ r.agent)
            BY <1>3, <1>10, <1>a, <1>b, <2>1
        <3>2. touched
            BY <3>1 DEF touched
        <3>3. \E x \in W : x.ch = v /\ x.msg = m /\ "message" \in x.tags /\ x.key = NoKey
            BY <1>7, <3>1, <3>2
        <3> QED BY <1>a, <2>1, <3>3
    <2>2. CASE u # v
        <3> DEFINE n == log'[u].msg
        <3>1. u \in A \ S /\ n \in Msgs
            BY <1>c, <2>2
        <3>2. R[n].live /\ (n = m => r.live)
            <4>1. CASE n = m
                BY <1>3, <1>4, <1>10, <1>b, <3>1, <4>1
            <4>2. CASE n # m
                BY <1>10, <1>b, <3>1, <4>2
            <4> QED BY <4>1, <4>2
        <3>3. PICK e \in U : e.ch = u /\ e.msg = n /\ "message" \in e.tags /\ e.key = NoKey
            BY <1>2, <1>10, <3>1, <3>2
        <3>4. e \in W
            <4>1. CASE touched
                BY <1>7, <3>2, <3>3, <4>1
            <4>2. CASE ~touched
                BY <1>5, <4>2
            <4> QED BY <4>1, <4>2
        <3> QED BY <3>3, <3>4
    <2> QED BY <2>1, <2>2
<1> QED BY <1>9, <1>10 DEF Badges

(* A change applied on a device.                                            *)
LEMMA ApplyStep ==
    ASSUME ChatConstants, ChatTypeOK, LogOK, DevicesOK, LogOK',
           \A w \in Changes : w \in Changes' /\ log'[w] = log[w],
           NEW d \in Devices, NEW v \in Changes', v \notin applied[d],
           NEW c \in Change, log'[v] = c, c.past \subseteq applied[d],
           ApplyOn(d, v, c), seen' = seen
    PROVE  DevicesOK' /\ applied' \in [Devices -> SUBSET Changes']
<1>1. /\ applied \in [Devices -> SUBSET Changes]
      /\ rec = [e \in Devices |-> rec[e]] /\ unread = [e \in Devices |-> unread[e]]
    BY DEF ChatTypeOK, DevicesOK
<1>2. PICK A, R, U, m, S, self :
        A = applied[d] /\ R = rec[d] /\ U = unread[d] /\ m = c.msg /\ S = seen[d] /\ self = AccountOf(d)
    OBVIOUS
<1>3. PICK r, Q : r = Applied(R, v, c) /\ Q = [R EXCEPT ![m] = r]
    OBVIOUS
<1>4. PICK W : W = IF c.kind = "create" \/ R[m].live THEN Tracked(d, v, c, r) ELSE U
    OBVIOUS
<1>5. A \in SUBSET Changes
    BY <1>1, <1>2
<1>6. /\ rec' = [rec EXCEPT ![d] = Q] /\ applied' = [applied EXCEPT ![d] = A \cup {v}]
      /\ unread' = [unread EXCEPT ![d] = W] \/ (unread' = unread /\ W = U)
    <2>1. /\ rec' = [rec EXCEPT ![d][c.msg] = Applied(rec[d], v, c)]
          /\ unread' = IF c.kind = "create" \/ rec[d][c.msg].live
                       THEN [unread EXCEPT ![d] = Tracked(d, v, c, Applied(rec[d], v, c))] ELSE unread
          /\ applied' = [applied EXCEPT ![d] = @ \cup {v}]
        BY Zenon DEF ApplyOn
    <2> QED BY <1>1, <1>2, <1>3, <1>4, <2>1
<1>7. Arrives(A, v, c)'
    <2>1. A \in SUBSET Changes' /\ v \in Changes' \ A /\ \A u \in A : log'[u].past \subseteq A
        BY <1>2, <1>5 DEF LogOK
    <2> QED BY <1>2, <2>1 DEF Arrives
<1>8. Shows(A, R)' /\ Badges(A, S, R, U, self)'
    <2>1. Shows(A, R) /\ Badges(A, S, R, U, self)
        BY <1>2 DEF DevicesOK
    <2> QED BY <1>5, <2>1, DeviceKept
<1>9. Makes(R, v, c, r) /\ Shows(A \cup {v}, Q)'
    BY <1>2, <1>3, <1>7, <1>8, DeviceStep
<1>10. Badges(A \cup {v}, S, Q, W, self)'
    <2>1. ChatConstants /\ LogOK'
        OBVIOUS
    <2>2. /\ U = unread[d] /\ m = c.msg /\ S = seen[d] /\ self = AccountOf(d)
          /\ Q = [R EXCEPT ![m] = r]
        BY <1>2, <1>3
    <2>3. Makes(R, v, c, r)
        BY <1>9
    <2> QED BY ONLY <1>4, <1>7, <1>8, <2>1, <2>2, <2>3, UnreadStep
<1>11. applied'[d] = A \cup {v} /\ rec'[d] = Q /\ unread'[d] = W /\ seen'[d] = S
    <2>1. applied'[d] = A \cup {v} /\ rec'[d] = Q
        BY <1>1, <1>6
    <2> QED BY <1>1, <1>2, <1>6, <2>1
<1>12. ASSUME NEW e \in Devices \ {d}
       PROVE  applied'[e] = applied[e] /\ rec'[e] = rec[e] /\ unread'[e] = unread[e]
    BY <1>1, <1>6
<1>13. applied' \in [Devices -> SUBSET Changes']
    <2>1. A \cup {v} \in SUBSET Changes'
        BY <1>5
    <2>2. applied \in [Devices -> SUBSET Changes']
        BY <1>1
    <2> QED BY <1>6, <2>1, <2>2
<1>14. rec' = [e \in Devices |-> rec'[e]] /\ unread' = [e \in Devices |-> unread'[e]]
    BY <1>1, <1>6
<1>15. ASSUME NEW e \in Devices
       PROVE  /\ Shows(applied[e], rec[e])'
              /\ Badges(applied[e], seen[e], rec[e], unread[e], AccountOf(e))'
    <2>1. CASE e = d
        <3>1. Shows(A \cup {v}, Q)' /\ Badges(A \cup {v}, S, Q, W, self)' /\ AccountOf(e) = self
            BY <1>2, <1>9, <1>10, <2>1
        <3> QED BY <1>11, <2>1, <3>1
    <2>2. CASE e # d
        <3>1. PICK B, T, X, V, a :
                B = applied[e] /\ T = seen[e] /\ X = rec[e] /\ V = unread[e] /\ a = AccountOf(e)
            OBVIOUS
        <3>2. Shows(B, X) /\ Badges(B, T, X, V, a) /\ B \in SUBSET Changes
            BY <1>1, <3>1 DEF DevicesOK
        <3>3. Shows(B, X)' /\ Badges(B, T, X, V, a)'
            BY <3>2, DeviceKept
        <3>4. B = applied'[e] /\ T = seen'[e] /\ X = rec'[e] /\ V = unread'[e]
            BY <1>12, <2>2, <3>1
        <3> QED BY <3>1, <3>3, <3>4
    <2> QED BY <2>1, <2>2
<1> QED BY <1>13, <1>14, <1>15 DEF DevicesOK

(* Empty devices show the empty log.                                        *)
LEMMA ChatInitially ==
    ASSUME ChatConstants, ChatInit PROVE ChatInv
<1>1. log = <<>> /\ log \in Seq(Change) /\ Changes = {} /\ Len(log) = 0
    BY DEF ChatInit, Changes
<1>2. \A d \in Devices : applied[d] = {} /\ seen[d] = {} /\ unread[d] = {}
    BY DEF ChatInit
<1>3. \A d \in Devices, m \in Msgs : rec[d][m] = NoRecord
    BY DEF ChatInit
<1>4. /\ NoRecord \in Message /\ ~NoRecord.live /\ ~NoRecord.deleted
      /\ [NoRecord EXCEPT !.deleted = FALSE] = NoRecord
    BY EmptyTyped
<1>5. SeqRange(NoRecord.mentions) \subseteq Accounts /\ Len(NoRecord.mentions) <= MaxMentions
    <2>1. NoRecord.mentions = <<>>
        BY DEF NoRecord
    <2> QED BY <2>1 DEF SeqRange, ChatConstants
<1>6. ChatTypeOK
    <2>1. applied \in [Devices -> SUBSET Changes] /\ seen \in [Devices -> SUBSET Changes]
        BY DEF ChatInit
    <2>2. Len(log) \in 0..MaxChanges /\ readings \in 0..MaxReads
        BY <1>1 DEF ChatInit, ChatConstants
    <2> QED BY <1>2, <1>3, <1>5, <2>1, <2>2 DEF ChatTypeOK
<1>7. LogOK
    BY <1>1, <1>2 DEF LogOK
<1>8. Replica({}, 0, NoRecord) /\ \A m \in Msgs : Replica({}, m, NoRecord)
    <2>1. NoRecord.deleted = FALSE
        BY DEF NoRecord
    <2> QED BY <1>4, <2>1 DEF Replica
<1>9. ASSUME NEW d \in Devices
      PROVE  /\ Shows(applied[d], rec[d])
             /\ Badges(applied[d], seen[d], rec[d], unread[d], AccountOf(d))
    <2>1. rec[d] \in [Msgs -> Message] /\ applied[d] = {}
        BY <1>2, <1>4 DEF ChatInit
    <2>2. \A m \in Msgs : Mentioned(rec[d], rec[d][m])
        BY <1>3, <1>4 DEF Mentioned
    <2>3. Shows(applied[d], rec[d])
        BY <1>3, <1>5, <1>8, <2>1, <2>2 DEF Shows
    <2>4. Badges(applied[d], seen[d], rec[d], unread[d], AccountOf(d))
        BY <1>2 DEF Badges
    <2> QED BY <2>3, <2>4
<1>10. DevicesOK
    <2>1. rec = [d \in Devices |-> rec[d]] /\ unread = [d \in Devices |-> unread[d]]
        BY DEF ChatInit
    <2> QED BY <1>9, <2>1 DEF DevicesOK
<1> QED BY <1>6, <1>7, <1>10 DEF ChatInv

(* The types follow from the devices' records.                              *)
LEMMA ChatTypes ==
    ASSUME DevicesOK', LogOK', Len(log') \in 0..MaxChanges, readings' \in 0..MaxReads,
           applied' \in [Devices -> SUBSET Changes'], seen' \in [Devices -> SUBSET Changes']
    PROVE  ChatTypeOK'
<1>1. \A d \in Devices : \A e \in unread'[d] : e.ch \in applied'[d] /\ e.msg = log'[e.ch].msg
    BY DEF DevicesOK, Badges
<1>2. \A d \in Devices : \A e \in unread'[d] : log'[e.ch] \in Change
    <2>1. \A d \in Devices : \A e \in unread'[d] : e.ch \in DOMAIN log'
        BY <1>1 DEF Changes
    <2>2. log' \in Seq(Change)
        BY DEF LogOK
    <2> QED BY <2>1, <2>2
<1>3. \A d \in Devices : \A e \in unread'[d] : e.ch \in applied'[d] /\ e.msg \in Msgs
    BY <1>1, <1>2 DEF Change
<1>4. \A d \in Devices, m \in Msgs :
        /\ SeqRange(rec'[d][m].mentions) \subseteq Accounts
        /\ Len(rec'[d][m].mentions) <= MaxMentions
    BY DEF DevicesOK, Shows
<1> QED BY <1>3, <1>4 DEF ChatTypeOK

(* What a chat promises follows from the invariant.                         *)
LEMMA ChatPromises ==
    ASSUME ChatConstants, ChatInv PROVE ChatAgrees
<1>1. ChatTypeOK /\ LogOK /\ DevicesOK
    BY DEF ChatInv
<1>2. /\ applied \in [Devices -> SUBSET Changes]
      /\ \A d \in Devices : /\ Shows(applied[d], rec[d])
                            /\ Badges(applied[d], seen[d], rec[d], unread[d], AccountOf(d))
    BY <1>1 DEF ChatTypeOK, DevicesOK
<1>3. \A d \in Devices, m \in Msgs : rec[d][m] \in Message /\ Replica(applied[d], m, rec[d][m])
    BY <1>2 DEF Shows
<1>4. \A d \in Devices, m \in Msgs :
        rec[d][m].live => rec[d][m].creator = {log[rec[d][m].ver].by}
    BY <1>3 DEF Replica, Alive, Wrote
<1>5. ASSUME NEW d \in Devices, NEW e \in Devices, applied[d] = applied[e], NEW m \in Msgs
      PROVE  [rec[d][m] EXCEPT !.mentions = rec[e][m].mentions] = rec[e][m]
    BY <1>1, <1>2, <1>3, <1>5, Agree
<1>6. ASSUME NEW d \in Devices, NEW m \in Msgs, rec[d][m].live,
             rec[d][m].reply = NoMsg \/ rec[d][rec[d][m].reply].live
      PROVE  /\ rec[d][m].mentions = DeriveMentions(rec[d], rec[d][m].text, rec[d][m].reply)
             /\ ReplyAuthor(d, m) \subseteq SeqRange(rec[d][m].mentions)
    <2> DEFINE R == rec[d]
               t == R[m].text
               q == R[m].reply
    <2>1. R[m].mentions = DeriveMentions(R, t, q)
        BY <1>2, <1>6 DEF Shows, Mentioned
    <2>2. t \in Texts /\ q \in Msgs \cup {NoMsg}
        BY <1>3 DEF Message
    <2>3. q # NoMsg /\ R[q].live => \E a \in Accounts : R[q].creator = {a}
        <3>1. SUFFICES ASSUME q # NoMsg, R[q].live PROVE \E a \in Accounts : R[q].creator = {a}
            OBVIOUS
        <3>2. R[q].born \in Changes /\ R[q].creator = {log[R[q].born].by}
            <4>1. Replica(applied[d], q, R[q])
                BY <1>3, <2>2, <3>1
            <4>2. PICK x, A : x = R[q] /\ A = applied[d]
                OBVIOUS
            <4>3. Replica(A, q, x) /\ x.live /\ A \in SUBSET Changes
                BY <1>2, <3>1, <4>1, <4>2
            <4>4. x.born \in A /\ x.creator = {log[x.born].by}
                BY <4>3 DEF Replica, Alive
            <4> QED BY <4>2, <4>3, <4>4
        <3>3. log \in Seq(Change) /\ R[q].born \in DOMAIN log
            BY <1>1, <3>2 DEF LogOK, Changes
        <3>4. log[R[q].born] \in Change
            BY <3>3
        <3> QED BY <3>2, <3>4 DEF Change
    <2>4. ReplyAuthor(d, m) = IF q # NoMsg /\ R[q].live THEN R[q].creator ELSE {}
        BY Zenon DEF ReplyAuthor
    <2> HIDE DEF R, t, q
    <2>5. q # NoMsg /\ R[q].live => R[q].creator \subseteq SeqRange(DeriveMentions(R, t, q))
        BY <2>2, <2>3, Derives
    <2> QED BY <2>1, <2>4, <2>5 DEF R, t, q
<1>7. ReplicasAgree
    BY <1>4, <1>5, <1>6 DEF ReplicasAgree
<1>8. UnreadExact
    BY <1>2 DEF UnreadExact, Badges
<1> QED BY <1>1, <1>7, <1>8 DEF ChatAgrees

(* The empty text is a text.                                                *)
LEMMA EmptyText ==
    ASSUME ChatConstants PROVE <<>> \in Texts
<1>1. <<>> \in [1..0 -> Linked] /\ 0 \in 0..MaxText
    BY DEF ChatConstants
<1> QED BY <1>1 DEF Texts

(* Every write is an entry whose past is what its device has applied.       *)
LEMMA WriteStep ==
    ASSUME ChatConstants, ChatInv, NEW d \in Devices, NEW kind \in Kinds, NEW m \in Msgs,
           NEW text \in Texts, NEW reply \in Msgs \cup {NoMsg}, NEW done \in BOOLEAN,
           Write(d, kind, m, text, reply, done),
           kind = "create" => Unused(m) /\ (reply # NoMsg => rec[d][reply].live),
           kind # "create" => rec[d][m].live
    PROVE  ChatInv'
<1>1. ChatTypeOK /\ LogOK /\ DevicesOK
    BY DEF ChatInv
<1>2. PICK v, A : v = Len(log) + 1 /\ A = applied[d]
    OBVIOUS
<1>3. PICK c : c = [kind |-> kind, by |-> AccountOf(d), msg |-> m, text |-> text, reply |-> reply,
                    done |-> done, past |-> A]
    OBVIOUS
<1>4. /\ v <= MaxChanges /\ log' = Append(log, c) /\ ApplyOn(d, v, c)
      /\ seen' = seen /\ readings' = readings
    BY <1>2, <1>3, Zenon DEF Write
<1>5. /\ log \in Seq(Change) /\ Changes = 1..Len(log) /\ Len(log) \in Nat
      /\ applied \in [Devices -> SUBSET Changes] /\ seen \in [Devices -> SUBSET Changes]
    BY <1>1 DEF LogOK, ChatTypeOK, Changes
<1>6. A \in SUBSET Changes /\ A \subseteq Nat
    BY <1>2, <1>5
<1>7. c \in Change /\ c.kind = kind /\ c.msg = m /\ c.reply = reply /\ c.past = A
    <2>1. AccountOf(d) \in Accounts
        BY AccountTyped
    <2> QED BY <1>3, <1>6, <2>1 DEF Change
<1>8. /\ log' \in Seq(Change) /\ Len(log') = v /\ Changes' = Changes \cup {v} /\ v \notin Changes
      /\ log'[v] = c /\ \A w \in Changes : log'[w] = log[w]
    <2>1. log' \in Seq(Change) /\ Len(log') = v
        BY <1>2, <1>4, <1>5, <1>7
    <2>2. Changes' = 1..v
        BY <2>1 DEF Changes
    <2>3. Changes' = Changes \cup {v} /\ v \notin Changes
        BY <1>2, <1>5, <2>2
    <2>4. log'[v] = c /\ \A w \in 1..Len(log) : log'[w] = log[w]
        BY <1>2, <1>4, <1>5, <1>7
    <2> QED BY <1>5, <2>1, <2>3, <2>4
<1>9. \A w \in Changes : \A n : Creates(w, n)' <=> Creates(w, n)
    BY <1>8 DEF Creates
<1>10. \A n \in Msgs : rec[d][n].live => \E w \in A : Creates(w, n)'
    <2> SUFFICES ASSUME NEW n \in Msgs, rec[d][n].live PROVE \E w \in A : Creates(w, n)'
        OBVIOUS
    <2>1. Replica(A, n, rec[d][n])
        BY <1>1, <1>2 DEF DevicesOK, Shows
    <2>2. PICK x : x = rec[d][n]
        OBVIOUS
    <2>3. \E w \in A : Creates(w, n)
        BY <2>1, <2>2 DEF Replica
    <2> QED BY <1>6, <1>9, <2>3
<1>11. applied' = [applied EXCEPT ![d] = A \cup {v}]
    BY <1>2, <1>4 DEF ApplyOn
<1>12. LogOK'
    <2>1. ASSUME NEW w \in Changes'
          PROVE  /\ log'[w].past \subseteq Changes'
                 /\ \A n : log'[w].kind # "create" /\ log'[w].msg = n =>
                       \E u \in log'[w].past : Creates(u, n)'
                 /\ \A n : log'[w].kind = "create" /\ log'[w].reply = n /\ n # NoMsg =>
                       \E u \in log'[w].past : Creates(u, n)'
        <3>1. CASE w = v
            BY <1>6, <1>7, <1>8, <1>10, <3>1
        <3>2. CASE w # v
            <4>1. w \in Changes /\ log'[w] = log[w]
                BY <1>8, <3>2
            <4>2. /\ log[w].past \subseteq Changes
                  /\ log[w].kind # "create" => \E u \in log[w].past : Creates(u, log[w].msg)
                  /\ log[w].kind = "create" /\ log[w].reply # NoMsg =>
                         \E u \in log[w].past : Creates(u, log[w].reply)
                BY <1>1, <4>1 DEF LogOK
            <4> QED BY <1>8, <1>9, <4>1, <4>2
        <3> QED BY <3>1, <3>2
    <2>2. \A w \in Changes' :
            /\ log'[w].kind # "create" => \E u \in log'[w].past : Creates(u, log[w].msg)'
            /\ log'[w].kind = "create" /\ log'[w].reply # NoMsg =>
                   \E u \in log'[w].past : Creates(u, log[w].reply)'
        BY <2>1 DEF Creates
    <2>3. \A w, u \in Changes', n \in Msgs : Creates(w, n)' /\ Creates(u, n)' => w = u
        <3>1. Creates(v, m)' => \A u \in Changes : ~Creates(u, m)
            BY <1>7, <1>8 DEF Creates, Unused
        <3>2. \A n : Creates(v, n)' => n = m
            BY <1>7, <1>8 DEF Creates
        <3>3. \A w, u \in Changes, n \in Msgs : Creates(w, n) /\ Creates(u, n) => w = u
            BY <1>1 DEF LogOK
        <3> QED BY <1>8, <1>9, <3>1, <3>2, <3>3
    <2>4. \A e \in Devices : \A w \in applied'[e] : log'[w].past \subseteq applied'[e]
        <3>1. \A e \in Devices : \A w \in applied[e] : w \in Changes /\ log[w].past \subseteq applied[e]
            BY <1>1, <1>5 DEF LogOK
        <3>2. \A e \in Devices : applied[e] \subseteq applied'[e]
            BY <1>2, <1>5, <1>11
        <3>3. \A e \in Devices : \A w \in applied'[e] : w \in applied[e] \/ (e = d /\ w = v)
            BY <1>2, <1>5, <1>11
        <3>4. c.past \subseteq applied'[d]
            BY <1>2, <1>7, <3>2
        <3> QED BY <1>8, <3>1, <3>2, <3>3, <3>4
    <2> QED BY <1>8, <2>1, <2>2, <2>3, <2>4 DEF LogOK, Creates
<1>13. DevicesOK' /\ applied' \in [Devices -> SUBSET Changes']
    <2>1. \A w \in Changes : w \in Changes' /\ log'[w] = log[w]
        BY <1>8
    <2>2. v \in Changes' /\ v \notin applied[d] /\ c.past \subseteq applied[d]
        BY <1>2, <1>6, <1>7, <1>8
    <2> QED BY <1>1, <1>4, <1>7, <1>8, <1>12, <2>1, <2>2, ApplyStep
<1>14. ChatTypeOK'
    <2>1. Len(log') \in 0..MaxChanges
        BY <1>2, <1>4, <1>5, <1>8 DEF ChatConstants
    <2>2. readings' \in 0..MaxReads /\ seen' \in [Devices -> SUBSET Changes']
        BY <1>1, <1>4, <1>5, <1>8 DEF ChatTypeOK
    <2> QED BY <1>12, <1>13, <2>1, <2>2, ChatTypes
<1> QED BY <1>12, <1>13, <1>14 DEF ChatInv

(* A change delivered after those it names.                                 *)
LEMMA DeliverStep ==
    ASSUME ChatConstants, ChatInv, NEW d \in Devices, NEW v \in Changes, Deliver(d, v)
    PROVE  ChatInv'
<1>1. ChatTypeOK /\ LogOK /\ DevicesOK
    BY DEF ChatInv
<1>2. PICK c, A : c = log[v] /\ A = applied[d]
    OBVIOUS
<1>3. /\ v \notin A /\ c.past \subseteq A /\ ApplyOn(d, v, c)
      /\ log' = log /\ seen' = seen /\ readings' = readings
    BY <1>2 DEF Deliver
<1>4. /\ log \in Seq(Change) /\ Changes' = Changes
      /\ applied \in [Devices -> SUBSET Changes] /\ seen \in [Devices -> SUBSET Changes]
    BY <1>1, <1>3 DEF LogOK, ChatTypeOK, Changes
<1>5. c \in Change
    BY <1>2, <1>4 DEF Changes
<1>6. applied' = [applied EXCEPT ![d] = A \cup {v}]
    BY <1>2, <1>3 DEF ApplyOn
<1>7. LogOK'
    <2>1. \A e \in Devices : \A w \in applied[e] : log[w].past \subseteq applied[e]
        BY <1>1 DEF LogOK
    <2>2. \A e \in Devices : applied[e] \subseteq applied'[e]
        BY <1>2, <1>4, <1>6
    <2>3. \A e \in Devices : \A w \in applied'[e] : w \in applied[e] \/ (e = d /\ w = v)
        BY <1>2, <1>4, <1>6
    <2>4. \A e \in Devices : \A w \in applied'[e] : log'[w].past \subseteq applied'[e]
        BY <1>2, <1>3, <2>1, <2>2, <2>3
    <2>5. \A w, n : Creates(w, n)' <=> Creates(w, n)
        BY <1>3 DEF Creates
    <2> QED BY <1>1, <1>3, <1>4, <2>4, <2>5 DEF LogOK, Creates
<1>8. DevicesOK' /\ applied' \in [Devices -> SUBSET Changes']
    <2>1. \A w \in Changes : w \in Changes' /\ log'[w] = log[w]
        BY <1>3, <1>4
    <2>2. v \in Changes' /\ v \notin applied[d] /\ c.past \subseteq applied[d] /\ log'[v] = c
        BY <1>2, <1>3, <1>4
    <2> QED BY <1>1, <1>3, <1>5, <1>7, <2>1, <2>2, ApplyStep
<1>9. ChatTypeOK'
    <2>1. Len(log') \in 0..MaxChanges /\ readings' \in 0..MaxReads
          /\ seen' \in [Devices -> SUBSET Changes']
        BY <1>1, <1>3, <1>4 DEF ChatTypeOK
    <2> QED BY <1>7, <1>8, <2>1, ChatTypes
<1> QED BY <1>7, <1>8, <1>9 DEF ChatInv

(* Reading moves no replica: the badges lose what was read.                 *)
LEMMA ReadingStep ==
    ASSUME ChatConstants, ChatInv, UNCHANGED <<log, applied, rec>>,
           NEW d \in Devices, NEW X \in SUBSET Changes,
           seen' = [seen EXCEPT ![d] = @ \cup X],
           NEW Y, X = Y \cap Changes,
           unread' = [unread EXCEPT ![d] = {e \in @ : e.ch \notin Y}],
           readings' \in 0..MaxReads
    PROVE  ChatInv'
<1>1. ChatTypeOK /\ LogOK /\ DevicesOK
    BY DEF ChatInv
<1>2. /\ log' = log /\ applied' = applied /\ rec' = rec /\ Changes' = Changes
      /\ applied \in [Devices -> SUBSET Changes] /\ seen \in [Devices -> SUBSET Changes]
      /\ rec = [e \in Devices |-> rec[e]] /\ unread = [e \in Devices |-> unread[e]]
    BY <1>1 DEF ChatTypeOK, DevicesOK, Changes
<1>3. LogOK'
    BY <1>1, <1>2 DEF LogOK, Creates
<1>4. ASSUME NEW e \in Devices
      PROVE  /\ Shows(applied[e], rec[e])'
             /\ Badges(applied[e], seen[e], rec[e], unread[e], AccountOf(e))'
    <2>1. PICK A, S, R, U, a :
            A = applied[e] /\ S = seen[e] /\ R = rec[e] /\ U = unread[e] /\ a = AccountOf(e)
        OBVIOUS
    <2>2. Shows(A, R) /\ Badges(A, S, R, U, a) /\ A \in SUBSET Changes
        BY <1>1, <1>2, <2>1 DEF DevicesOK
    <2>3. Shows(A, R)' /\ Badges(A, S, R, U, a)'
        BY <1>1, <1>2, <2>2, DeviceKept
    <2>4. A = applied'[e] /\ R = rec'[e]
        BY <1>2, <2>1
    <2>5. CASE e # d
        <3>1. S = seen'[e] /\ U = unread'[e]
            BY <1>2, <2>1, <2>5
        <3> QED BY <2>1, <2>3, <2>4, <3>1
    <2>6. CASE e = d
        <3>1. PICK T, V : T = S \cup X /\ V = {x \in U : x.ch \notin Y}
            OBVIOUS
        <3>2. T = seen'[e] /\ V = unread'[e]
            BY <1>2, <2>1, <2>6, <3>1
        <3>3. Badges(A, T, R, V, a)'
            BY <2>2, <2>3, <3>1 DEF Badges
        <3> QED BY <2>1, <2>3, <2>4, <3>2, <3>3
    <2> QED BY <2>5, <2>6
<1>5. DevicesOK'
    <2>1. rec' = [e \in Devices |-> rec'[e]] /\ unread' = [e \in Devices |-> unread'[e]]
        BY <1>2
    <2> QED BY <1>4, <2>1 DEF DevicesOK
<1>6. ChatTypeOK'
    <2>1. Len(log') \in 0..MaxChanges /\ applied' \in [Devices -> SUBSET Changes']
          /\ seen' \in [Devices -> SUBSET Changes']
        BY <1>1, <1>2 DEF ChatTypeOK
    <2> QED BY <1>3, <1>5, <2>1, ChatTypes
<1> QED BY <1>3, <1>5, <1>6 DEF ChatInv

(* MarkRead, MarkReadUpTo and ReadReactions.                                *)
LEMMA MarkStep ==
    ASSUME ChatConstants, ChatInv, NEW d \in Devices, NEW X \in SUBSET Changes, Mark(d, X)
    PROVE  ChatInv'
<1>1. readings \in 0..MaxReads /\ MaxReads \in Nat
    BY DEF ChatInv, ChatTypeOK, ChatConstants
<1>2. readings' \in 0..MaxReads
    BY <1>1 DEF Mark
<1>3. X = X \cap Changes
    OBVIOUS
<1>4. /\ seen' = [seen EXCEPT ![d] = @ \cup X]
      /\ unread' = [unread EXCEPT ![d] = {e \in @ : e.ch \notin X}]
      /\ UNCHANGED <<log, applied, rec>>
    BY DEF Mark
<1> QED BY <1>2, <1>3, <1>4, ReadingStep

(* Every step keeps the invariant, by cases.                                *)
LEMMA ChatSteps ==
    ASSUME ChatConstants, ChatInv, [ChatNext]_chat PROVE ChatInv'
<1>1. /\ applied \in [Devices -> SUBSET Changes] /\ Changes \subseteq Changes
      /\ \A d \in Devices : \A e \in unread[d] : e.ch \in applied[d]
      /\ \A v \in Changes : log[v].past \subseteq Changes
    BY DEF ChatInv, ChatTypeOK, LogOK
<1>2. <<>> \in Texts /\ NoMsg \in Msgs \cup {NoMsg}
    BY EmptyText
<1>3. ASSUME NEW d \in Devices, NEW m \in Msgs, NEW t \in Texts, NEW q \in Msgs \cup {NoMsg},
             NEW f \in BOOLEAN, Send(d, m, t, q, f)
      PROVE  ChatInv'
    <2>1. Unused(m) /\ (q # NoMsg => rec[d][q].live) /\ Write(d, "create", m, t, q, f)
        BY <1>3 DEF Send
    <2>2. "create" \in Kinds
        BY DEF Kinds
    <2> QED BY <2>1, <2>2, WriteStep
<1>4. ASSUME NEW d \in Devices, NEW m \in Msgs, NEW t \in Texts, Edit(d, m, t)
      PROVE  ChatInv'
    <2>1. rec[d][m].live /\ Write(d, "edit", m, t, NoMsg, FALSE)
        BY <1>4 DEF Edit, RequireAuthor
    <2>2. "edit" \in Kinds /\ "edit" # "create"
        BY DEF Kinds
    <2> QED BY <1>2, <2>1, <2>2, WriteStep
<1>5. ASSUME NEW d \in Devices, NEW m \in Msgs, Delete(d, m)
      PROVE  ChatInv'
    <2>1. rec[d][m].live /\ Write(d, "delete", m, <<>>, NoMsg, FALSE)
        BY <1>5 DEF Delete, RequireAuthor
    <2>2. "delete" \in Kinds /\ "delete" # "create"
        BY DEF Kinds
    <2> QED BY <1>2, <2>1, <2>2, WriteStep
<1>6. ASSUME NEW d \in Devices, NEW m \in Msgs, ToggleReaction(d, m)
      PROVE  ChatInv'
    <2>1. PICK k : k = IF AccountOf(d) \in rec[d][m].on THEN "unreact" ELSE "react"
        OBVIOUS
    <2>2. rec[d][m].live /\ Write(d, k, m, <<>>, NoMsg, FALSE)
        BY <1>6, <2>1, Zenon DEF ToggleReaction
    <2>3. k \in Kinds /\ k # "create"
        BY <2>1 DEF Kinds
    <2> QED BY <1>2, <2>2, <2>3, WriteStep
<1>7. ASSUME NEW d \in Devices, NEW m \in Msgs, Read(d, m)
      PROVE  ChatInv'
    <2>1. PICK X : X = {v \in applied[d] : v <= rec[d][m].born}
        OBVIOUS
    <2>2. X \in SUBSET Changes /\ Mark(d, X)
        BY <1>1, <1>7, <2>1 DEF Read
    <2> QED BY <2>2, MarkStep
<1>8. ASSUME NEW d \in Devices, NEW m \in Msgs, ReadReactions(d, m)
      PROVE  ChatInv'
    <2> DEFINE ids == {e.ch : e \in {x \in unread[d] : x.msg = m /\ "reaction" \in x.tags}}
    <2>1. PICK X : X = ids \cup UNION {log[v].past : v \in ids}
        OBVIOUS
    <2>2. ids \subseteq Changes
        BY <1>1
    <2>3. Mark(d, X)
        BY <1>8, <2>1, Zenon DEF ReadReactions
    <2>4. X \in SUBSET Changes
        BY <1>1, <2>1, <2>2
    <2> QED BY <2>3, <2>4, MarkStep
<1>9. ASSUME NEW d \in Devices, ReadAll(d)
      PROVE  ChatInv'
    <2>1. PICK X : X = applied[d]
        OBVIOUS
    <2>2. X \in SUBSET Changes /\ Mark(d, X)
        BY <1>1, <1>9, <2>1 DEF ReadAll
    <2> QED BY <2>2, MarkStep
<1>10. ASSUME NEW d \in Devices, NEW v \in Changes, Deliver(d, v)
       PROVE  ChatInv'
    BY <1>10, DeliverStep
<1>11. ASSUME NEW d \in Devices, NEW e \in Devices, SyncRead(d, e)
       PROVE  ChatInv'
    <2>1. PICK X, Y : Y = seen[d] /\ X = Y \cap Changes
        OBVIOUS
    <2>2. /\ seen' = [seen EXCEPT ![e] = @ \cup X]
          /\ unread' = [unread EXCEPT ![e] = {x \in @ : x.ch \notin Y}]
          /\ UNCHANGED <<log, applied, rec>>
        BY <1>11, <2>1 DEF SyncRead
    <2>3. readings' \in 0..MaxReads
        BY <1>11 DEF SyncRead, ChatInv, ChatTypeOK
    <2>4. X \in SUBSET Changes
        BY <2>1
    <2> QED BY <2>1, <2>2, <2>3, <2>4, ReadingStep
<1>12. CASE UNCHANGED chat
    <2>1. /\ log' = log /\ applied' = applied /\ rec' = rec /\ unread' = unread /\ seen' = seen
          /\ readings' = readings
        BY <1>12 DEF chat
    <2>2. ChatTypeOK' <=> ChatTypeOK
        BY <2>1 DEF ChatTypeOK, Changes
    <2>3. LogOK' <=> LogOK
        BY <2>1 DEF LogOK, Creates, Changes
    <2>4. DevicesOK'
        BY <2>1 DEF ChatInv, DevicesOK, Shows, Badges, Replica, Alive, Creates, Deleted, Wrote, Reacted
    <2> QED BY <2>2, <2>3, <2>4 DEF ChatInv
<1>13. CASE ChatNext
    BY <1>3, <1>4, <1>5, <1>6, <1>7, <1>8, <1>9, <1>10, <1>11, <1>13 DEF ChatNext
<1> QED BY <1>12, <1>13

(* Devices that applied the same changes show the same chat, and a message  *)
(* is unread until it is read or deleted.                                   *)
THEOREM ChatConverges == ChatSpec => []ChatAgrees
<1>1. ChatInit => ChatInv
    BY ChatInitially, ChatAssumption
<1>2. ChatInv /\ [ChatNext]_chat => ChatInv'
    BY ChatSteps, ChatAssumption
<1>3. ChatInv => ChatAgrees
    BY ChatPromises, ChatAssumption
<1> QED BY <1>1, <1>2, <1>3, PTL DEF ChatSpec

----------------------------------------------------------------------------
(* Files: the inductive invariant.                                          *)

(* An id is listed once in its life; a variant's original is listed and no  *)
(* variant; an open download holds a row that the file and the variant      *)
(* asked for led to, and still lead to while listed.                        *)
RowsInv ==
    /\ live \cap deleted = {}
    /\ \A f \in live : rows[f].of # 0 => rows[f].of \in live /\ rows[rows[f].of].of = 0

Holds(r) ==
    /\ reads[r].file \in Files /\ reads[r].row \in live \cup deleted
    /\ reads[r].variant = "" => reads[r].row = reads[r].file
    /\ reads[r].variant # "" /\ reads[r].row \in live =>
         rows[reads[r].row].of = reads[r].file /\ rows[reads[r].row].variant = reads[r].variant
ReadsInv == \A r \in Readers : reads[r].at = "open" => Holds(r)

AnswersHonest == \A a \in answers : a.doubts = {} => a.headers = a.bytes
FilesInv == FilesTypeOK /\ RowsInv /\ ReadsInv /\ AnswersHonest

(* NamedType (ByName): a name replaces a type by the one of its extension.  *)
LEMMA NamedType ==
  ASSUME NEW e, NEW m
  PROVE  /\ ByName(e, m) = m \/ (e \in DOMAIN textByExt /\ ByName(e, m) = textByExt[e])
         /\ ByName(e, m) = "text/html" => m = "text/html" \/ e = "html"
<1>1. /\ DOMAIN textByExt = {"md", "html", "svg"}
      /\ textByExt["md"] = "text/markdown" /\ textByExt["svg"] = "image/svg+xml"
  BY DEF textByExt
<1>2. CASE e \notin DOMAIN textByExt
  <2>1. ByName(e, m) = m
    BY <1>2 DEF ByName
  <2> QED BY <2>1
<1>3. CASE e \in DOMAIN textByExt
  <2>1. ByName(e, m) = textByExt[e]
    BY <1>3 DEF ByName
  <2>2. textByExt[e] = "text/html" => e = "html"
    BY <1>1, <1>3
  <2> QED BY <1>3, <2>1, <2>2
<1> QED BY <1>2, <1>3

(* MimeTyped (resolveMime): a row holds a type that was declared, sniffed   *)
(* or named.                                                                *)
LEMMA MimeTyped == ASSUME NEW u \in Uploads PROVE resolveMime(u) \in MimeTypes
<1> DEFINE declared == mediaType(u.header)
           sniffed == Sniffed[u.content]
<1>1. {declared, sniffed, "text/plain", ""} \subseteq MimeTypes
  BY DEF Uploads, MimeTypes, mediaType
<1>2. \A m \in MimeTypes : ByName(u.ext, m) \in MimeTypes
  BY NamedType DEF MimeTypes
<1>3. WeakBinary(u.ext, u.content) \in MimeTypes
  BY <1>1, <1>2 DEF WeakBinary
<1> QED BY <1>1, <1>2, <1>3 DEF resolveMime

(* Verdicts (http.DetectContentType and the sniffer, as Sniffed has them):  *)
(* the contents and what each is.                                           *)
LEMMA Verdicts ==
  /\ DOMAIN Sniffed = {"png", "pdf", "html", "plain", "json", "svg", "bytecode",
                        "pycText", "none", "empty"}
  /\ Sniffed["png"] = "image/png" /\ Sniffed["pdf"] = "application/pdf"
  /\ Sniffed["bytecode"] = "application/x-bytecode.python"
  /\ Sniffed["pycText"] = "application/x-bytecode.python"
  /\ Sniffed["none"] = "" /\ Sniffed["empty"] = ""
  BY DEF Sniffed

(* BinaryStays (resolveMime): without a declared type, an image or a PDF    *)
(* is never stored as text, whatever its name.                              *)
LEMMA BinaryStays ==
  ASSUME NEW u \in Uploads, mediaType(u.header) = "", u.content \in {"png", "pdf"}
  PROVE  resolveMime(u) \notin TextTypes
<1>1. Sniffed[u.content] \in {"image/png", "application/pdf"}
  BY Verdicts
<1>2. resolveMime(u) = Sniffed[u.content]
  BY <1>1 DEF resolveMime, Textual, weakBinaryTypes
<1> QED BY <1>1, <1>2 DEF TextTypes

(* PagesNamed (resolveMime): without a declared type, only text that is     *)
(* named a page is stored as one.                                           *)
LEMMA PagesNamed ==
  ASSUME NEW u \in Uploads, mediaType(u.header) = "",
         resolveMime(u) = "text/html"
  PROVE  u.ext = "html" /\ u.content \in Textual \cup {"pycText", "bytecode"}
<1> DEFINE sniffed == Sniffed[u.content]
<1>1. u.content \in DOMAIN Sniffed /\ u.content \notin {"empty", "none"}
  BY FilesAssumption DEF Uploads, resolveMime
<1>2. CASE u.content \in Textual
  <2>1. \E m : m # "text/html" /\ resolveMime(u) = ByName(u.ext, m)
    BY <1>1, <1>2 DEF resolveMime, weakTextTypes
  <2> QED BY <2>1, <1>2, NamedType
<1>3. CASE u.content \in {"png", "pdf"}
  BY <1>3, BinaryStays DEF TextTypes
<1>4. CASE u.content \in {"pycText", "bytecode"}
  <2>1. sniffed = "application/x-bytecode.python"
    BY <1>4, Verdicts
  <2>2. resolveMime(u) = WeakBinary(u.ext, u.content)
    BY <2>1, <1>4 DEF resolveMime, Textual, weakBinaryTypes
  <2>3. \E m : m # "text/html" /\ (resolveMime(u) = m \/ resolveMime(u) = ByName(u.ext, m))
    BY <2>1, <2>2 DEF WeakBinary
  <2> QED BY <2>3, <1>4, NamedType
<1> QED BY <1>1, <1>2, <1>3, <1>4, Verdicts DEF Textual

(* IconsRaster (serveIcon): whatever avatar is stored, it is served as an   *)
(* image or as bytes.                                                       *)
LEMMA IconsRaster ==
  ASSUME NEW c PROVE serveIcon(c) \in avatarTypes \cup {"application/octet-stream"}
  BY DEF serveIcon, imageType

(* An object with nothing attached and no download open.                    *)
LEMMA InitFilesInv == FilesInit => FilesInv
<1> SUFFICES ASSUME FilesInit PROVE FilesInv
  OBVIOUS
<1>1. NoRow \in [of : Files \cup {0}, variant : {"", Thumb}, mime : MimeTypes] /\ NoRow.of = 0
  BY DEF NoRow, MimeTypes
<1>2. /\ NoRead \in [at : {"idle", "open"}, file : Files \cup {0}, variant : {"", Thumb},
                     row : Files \cup {0}]
      /\ NoRead.at = "idle"
  BY DEF NoRead
<1>3. FilesTypeOK
  <2>1. /\ rows = [f \in Files |-> NoRow] /\ reads = [r \in Readers |-> NoRead]
        /\ live = {} /\ deleted = {} /\ local = {} /\ durable = {} /\ answers = {}
        /\ owner = TRUE /\ icon = "" /\ steps = 0
    BY DEF FilesInit
  <2>2. MaxSteps \in Nat
    BY FilesAssumption, Zenon
  <2>3. 0 \in 0..MaxSteps
    BY <2>2
  <2> QED BY <1>1, <1>2, <2>1, <2>3 DEF FilesTypeOK
<1>4. RowsInv /\ AnswersHonest
  BY DEF FilesInit, RowsInv, AnswersHonest
<1>5. ReadsInv
  BY <1>2 DEF FilesInit, ReadsInv
<1> QED BY <1>3, <1>4, <1>5 DEF FilesInv

(* Attaching, listing, opening, serving, offloading and deleting keep it.    *)
LEMMA NextFilesInv == FilesInv /\ [FilesNext]_attached => FilesInv'
<1> SUFFICES ASSUME FilesInv, [FilesNext]_attached PROVE FilesInv'
  OBVIOUS
<1> USE DEF FilesInv
<1> DEFINE Row == [of : Files \cup {0}, variant : {"", Thumb}, mime : MimeTypes]
<1>t. rows \in [Files -> Row] /\ 0 \notin Files
  BY FilesAssumption DEF FilesTypeOK
<1>s. ASSUME Tick PROVE steps' \in 0..MaxSteps
  <2>1. steps \in 0..MaxSteps /\ MaxSteps \in Nat
    BY FilesAssumption, Zenon DEF FilesTypeOK
  <2>2. steps < MaxSteps /\ steps' = steps + 1
    BY <1>s DEF Tick
  <2> QED BY <2>1, <2>2
(* What a step may do to rows, downloads and answers, one fact per kind.    *)
<1>a. ASSUME UNCHANGED <<rows, live, deleted>> PROVE RowsInv' /\ (UNCHANGED reads => ReadsInv')
  BY <1>a DEF RowsInv, ReadsInv, Holds
<1>b. ASSUME UNCHANGED answers PROVE AnswersHonest'
  BY <1>b DEF AnswersHonest
<1>1. CASE UNCHANGED attached
  BY <1>1, <1>a, <1>b DEF attached, FilesTypeOK
<1>2. ASSUME NEW f \in Files, NEW u \in Uploads, NEW o \in Files \cup {0}, NEW v \in {"", Thumb},
             fileAttach(f, u, o, v)
      PROVE  FilesInv'
  <2> DEFINE new == [of |-> o, variant |-> v, mime |-> resolveMime(u)]
  <2>1. new \in Row /\ new.of = o
    BY MimeTyped
  <2>2. /\ f \notin live \cup deleted /\ (o # 0 => o \in live /\ rows[o].of = 0)
        /\ rows' = [rows EXCEPT ![f] = new] /\ live' = live \cup {f} /\ local' = local \cup {f}
        /\ UNCHANGED <<deleted, durable, owner, reads, icon, answers>> /\ Tick
    BY <1>2 DEF fileAttach
  <2> HIDE DEF new, Row
  <2>3. /\ rows' \in [Files -> Row] /\ rows'[f] = new /\ \A g \in Files \ {f} : rows'[g] = rows[g]
    BY <2>1, <2>2, <1>t
  <2>4. FilesTypeOK'
    BY <2>2, <2>3, <1>s DEF FilesTypeOK, Row
  <2>5. RowsInv'
    <3>1. live \subseteq Files
      BY DEF FilesTypeOK
    <3>2. live' \cap deleted' = {}
      BY <2>2 DEF RowsInv
    <3>3. rows'[f].of = o /\ (o # 0 => o \in live' /\ rows'[o].of = 0)
      BY <2>1, <2>2, <2>3, <3>1
    <3>4. ASSUME NEW g \in live, rows[g].of # 0
          PROVE  rows'[g].of \in live' /\ rows'[rows'[g].of].of = 0
      <4>1. rows'[g] = rows[g]
        BY <2>2, <2>3, <3>1
      <4>2. PICK p \in live : p = rows[g].of /\ rows[p].of = 0
        BY <3>4 DEF RowsInv
      <4>3. rows'[p] = rows[p] /\ p \in live'
        BY <2>2, <2>3, <3>1
      <4> QED BY <4>1, <4>2, <4>3
    <3>5. ASSUME NEW g \in live PROVE rows'[g].of = rows[g].of
      BY <2>2, <2>3, <3>1
    <3> QED BY <2>2, <3>2, <3>3, <3>4, <3>5 DEF RowsInv
  <2>6. ReadsInv'
    <3>1. live \cup deleted \subseteq Files
      BY DEF FilesTypeOK
    <3>2. ASSUME NEW g \in live \cup deleted
          PROVE  rows'[g] = rows[g] /\ (g \in live <=> g \in live')
      BY <2>2, <2>3, <3>1
    <3>3. ASSUME NEW r \in Readers, Holds(r) PROVE Holds(r)'
      BY <2>2, <3>2, <3>3 DEF Holds
    <3> QED BY <2>2, <3>3 DEF ReadsInv
  <2> QED BY <2>2, <2>4, <2>5, <2>6, <1>b
<1>3. ASSUME NEW S \in SUBSET live, Removed(S),
             UNCHANGED <<local, durable, reads, icon, answers>>,
             \A g \in live : rows[g].of \in S => g \in S,
             owner' \in BOOLEAN, Tick
      PROVE  FilesInv'
  <2>1. live \subseteq Files
    BY DEF FilesTypeOK
  <2>2. NoRow \in Row
    BY DEF NoRow, MimeTypes
  <2> HIDE DEF Row
  <2>3. /\ rows' \in [Files -> Row] /\ \A g \in Files \ S : rows'[g] = rows[g]
        /\ live' = live \ S /\ deleted' = deleted \cup S
    BY <1>3, <1>t, <2>2 DEF Removed
  <2>4. FilesTypeOK'
    BY <1>3, <2>1, <2>3, <1>s DEF FilesTypeOK, Row
  <2>5. RowsInv'
    BY <1>3, <2>1, <2>3, <1>t DEF RowsInv
  <2>6. ReadsInv'
    BY <1>3, <2>1, <2>3 DEF ReadsInv, Holds, FilesTypeOK
  <2> QED BY <1>3, <2>4, <2>5, <2>6, <1>b
<1>4. ASSUME NEW f \in Files, fileDelete(f)
      PROVE  FilesInv'
  <2> DEFINE S == {f} \cup {g \in live : rows[g].of = f}
  <2>1. S \in SUBSET live /\ \A g \in live : rows[g].of \in S => g \in S
    BY <1>4, <1>t DEF fileDelete, RowsInv, FilesTypeOK
  <2>2. /\ Removed(S) /\ Tick /\ owner' \in BOOLEAN
        /\ UNCHANGED <<local, durable, reads, icon, answers>>
    BY <1>4 DEF fileDelete, FilesTypeOK
  <2> HIDE DEF S
  <2> QED BY <2>1, <2>2, <1>3
<1>5. CASE OwnerDeleted
  BY <1>5, <1>3 DEF OwnerDeleted
<1>6. ASSUME UNCHANGED <<rows, live, deleted, reads, answers, owner>>, steps' \in 0..MaxSteps,
             local' \cup durable' \subseteq Files, icon' \in Avatars \cup {""}
      PROVE  FilesInv'
  BY <1>6, <1>a, <1>b DEF FilesTypeOK
<1>7. ASSUME NEW f \in Files, Backup(f) \/ filePin(f) \/ fileOffload(f) PROVE FilesInv'
  <2>1. /\ UNCHANGED <<rows, live, deleted, reads, answers, owner, icon>>
        /\ steps' \in 0..MaxSteps
        /\ local' \cup durable' \subseteq local \cup durable \cup {f}
    BY <1>7, <1>s DEF Backup, filePin, fileOffload, FilesTypeOK
  <2> QED BY <2>1, <1>6 DEF FilesTypeOK
<1>8. ASSUME NEW S \in SUBSET Files, fileCacheFree(S) PROVE FilesInv'
  BY <1>8, <1>6, <1>s DEF fileCacheFree, FilesTypeOK
<1>9. CASE accountIconDelete \/ \E c \in Avatars : accountIconPut(c) \/ ContactIcon(c)
  BY <1>9, <1>6, <1>s DEF accountIconPut, ContactIcon, accountIconDelete, FilesTypeOK
<1>10. ASSUME NEW r \in Readers, NEW f \in Files, NEW v \in {"", Thumb}, fileContentOpen(r, f, v)
       PROVE  FilesInv'
  <2>1. PICK g \in Served(f, v) :
           reads' = [reads EXCEPT ![r] = [at |-> "open", file |-> f, variant |-> v, row |-> g]]
    BY <1>10 DEF fileContentOpen
  <2>2. /\ UNCHANGED <<rows, live, deleted, local, durable, owner, icon, answers>> /\ Tick
        /\ f \in live
    BY <1>10 DEF fileContentOpen
  <2>3. g \in live /\ (v = "" => g = f) /\ (v # "" => rows[g].of = f /\ rows[g].variant = v)
    BY <2>1, <2>2 DEF Served, Siblings
  <2>4. FilesTypeOK'
    BY <2>1, <2>2, <2>3, <1>s DEF FilesTypeOK
  <2>5. ReadsInv'
    BY <2>1, <2>2, <2>3 DEF ReadsInv, Holds, FilesTypeOK
  <2> QED BY <2>2, <2>4, <2>5, <1>a, <1>b
<1>11. ASSUME NEW r \in Readers, fileContentServe(r) PROVE FilesInv'
  <2> DEFINE file == reads[r].file
             row == reads[r].row
             variant == reads[r].variant
             answer(h) == [bytes |-> row, headers |-> h, type |-> ContentType(rows[h].mime),
                           doubts |-> Doubts(file, variant, row)]
  <2>1. /\ UNCHANGED <<rows, live, deleted, local, durable, owner, icon, steps>>
        /\ reads' = [reads EXCEPT ![r] = NoRead] /\ reads[r].at = "open"
        /\ \/ UNCHANGED answers
           \/ file \in live /\ \E h \in HeaderRow(r) : answers' = answers \cup {answer(h)}
    BY <1>11 DEF fileContentServe
  <2>2. Holds(r)
    BY <2>1 DEF ReadsInv
  <2>3. ReadsInv'
    BY <2>1 DEF ReadsInv, Holds, FilesTypeOK, NoRead
  <2>4. ASSUME NEW h \in HeaderRow(r)
        PROVE  h \in Files /\ row \in Files /\ (answer(h).doubts = {} => h = row)
    <3>1. h \in Files /\ row \in Files
      BY <2>2, <2>4 DEF HeaderRow, Siblings, Holds, FilesTypeOK
    <3>2. ASSUME Doubts(file, variant, row) = {} PROVE h = row
      <4>1. row \in live /\ (variant # "" => Siblings(file, variant) \ {row} = {})
        BY <3>2 DEF Doubts
      <4>2. CASE variant = ""
        BY <4>2, <2>2, <2>4 DEF HeaderRow, Holds
      <4>3. CASE variant # ""
        BY <4>1, <4>3, <2>2, <2>4 DEF HeaderRow, Holds, Siblings
      <4> QED BY <4>2, <4>3
    <3> QED BY <3>1, <3>2
  <2>5. AnswersHonest'
    BY <2>1, <2>4 DEF AnswersHonest
  <2>6. FilesTypeOK'
    <3>1. reads' \in [Readers -> [at : {"idle", "open"}, file : Files \cup {0},
                                  variant : {"", Thumb}, row : Files \cup {0}]]
      BY <2>1 DEF FilesTypeOK, NoRead
    <3>2. \A a \in answers' : {a.bytes, a.headers} \subseteq Files
      <4>1. ASSUME NEW h \in HeaderRow(r) PROVE answer(h).bytes = row /\ answer(h).headers = h
        OBVIOUS
      <4> HIDE DEF answer
      <4>2. \/ answers' = answers
            \/ \E x : x.bytes \in Files /\ x.headers \in Files /\ answers' = answers \cup {x}
        BY <2>1, <2>4, <4>1
      <4> QED BY <4>2 DEF FilesTypeOK
    <3> QED BY <2>1, <3>1, <3>2 DEF FilesTypeOK
  <2> QED BY <2>1, <2>3, <2>5, <2>6, <1>a
<1>12. ASSUME NEW f \in Files, NEW u \in Uploads,
              fileAttach(f, u, 0, "") \/ \E g \in Files : fileAttach(f, u, g, Thumb)
       PROVE  FilesInv'
  BY <1>2, <1>12
<1>13. CASE FilesNext
  <2> HIDE DEF FilesInv
  <2> QED BY <1>4, <1>5, <1>7, <1>8, <1>9, <1>10, <1>11, <1>12, <1>13 DEF FilesNext
<1> QED BY <1>1, <1>13

(* DownloadsAreHonest (fileContent, resolveMime, serveIcon): FilesHonest,   *)
(* for any files, uploads, variants and number of downloads and operations. *)
THEOREM DownloadsAreHonest == FilesSpec => []FilesHonest
<1>2. FilesInit => FilesInv
  BY InitFilesInv
<1>3. FilesInv /\ [FilesNext]_attached => FilesInv'
  BY NextFilesInv
<1>4. FilesInv => FilesHonest
  BY BinaryStays, PagesNamed, IconsRaster
     DEF FilesInv, FilesHonest, ServedHonest, AnswersHonest, RowsInv
<1> QED BY <1>2, <1>3, <1>4, PTL DEF FilesSpec
=============================================================================
