---- MODULE Markdown ----
(***************************************************************************)
(* Whole-body writes over a collection of editor blocks: Set, with or      *)
(* without the version the caller edited from, EditContent and Append      *)
(* (internal/markdown/api.go, diff.go, edit.go, version.go), while other   *)
(* writers create, patch and delete single blocks of the same collection   *)
(* (internal/editor/api.go).                                               *)
(*                                                                         *)
(* A block is a paragraph or a heading.  Its "level" is a style key the    *)
(* markdown expresses for headings only: on a paragraph it is indentation  *)
(* that a client keeps there.  A position is a number, AllocateRun picks   *)
(* numbers strictly between two others, and a run that has no room left    *)
(* stands for the error of the lexid allocator.                            *)
(***************************************************************************)
EXTENDS Integers, FiniteSets, SequencesExt

CONSTANTS Writers,      \* the markdown calls in flight
          Asks,          \* what each of them may ask: [op, content, quote, by]
          Words,         \* texts of a block; "" is the empty one
          Alike,         \* the pairs of texts similarity finds close enough
          Seed,          \* the blocks the object has at first
          MaxBlocks,     \* blocks ever created
          MaxOthers      \* single-block writes of other clients

maxWriteAttempts == 3
Root == 0
Middle == 64
Step == 16

VARIABLES past,     \* _applySeq -> the records then, id -> [alive, parent, pos,
                    \*   kind, level, text]; the last are the current ones
          calls,    \* writer -> where its call is and the read it works from
          told,     \* history: the versions handed out, each with its body
          others    \* single-block writes so far

vars == <<past, calls, told, others>>

seq == Len(past)
blocks == past[seq]
Ids == 1 .. Len(blocks)
TopLevel(bs) == {b \in 1 .. Len(bs) : bs[b].alive /\ bs[b].parent = Root}

(* The top-level ids in document order; ties of position keep the order    *)
(* the query answers in.                                                   *)
listTopLevel(bs) ==
    SetToSortSeq(TopLevel(bs), LAMBDA a, b : \/ bs[a].pos < bs[b].pos
                                             \/ (bs[a].pos = bs[b].pos /\ a < b))

(* A rendered block: kind, level if it is a heading, text.                 *)
RenderBlock(b) == <<b.kind, IF b.kind = "h" THEN b.level ELSE 0, b.text>>
Empty == <<"p", 0, "">>
Document(bs) == LET ids == listTopLevel(bs) IN [k \in 1 .. Len(ids) |-> RenderBlock(bs[ids[k]])]

formatVersion(n, content) == <<n, content>>

----------------------------------------------------------------------------
(* Diff: anchors by longest common subsequence, then each gap by           *)
(* similarity, best pairs first, none crossing another                     *)

Lcs(a, b) ==
    LET dp[i \in 0 .. Len(a), j \in 0 .. Len(b)] ==
            IF i = 0 \/ j = 0 THEN 0
            ELSE IF a[i] = b[j] THEN dp[i - 1, j - 1] + 1
            ELSE IF dp[i - 1, j] >= dp[i, j - 1] THEN dp[i - 1, j] ELSE dp[i, j - 1]
    IN dp

lcsByHash(a, b) ==
    LET dp == Lcs(a, b)
        back[i \in 0 .. Len(a), j \in 0 .. Len(b)] ==
            IF i = 0 \/ j = 0 THEN {}
            ELSE IF a[i] = b[j] THEN {<<i, j>>} \cup back[i - 1, j - 1]
            ELSE IF dp[i - 1, j] >= dp[i, j - 1] THEN back[i - 1, j] ELSE back[i, j - 1]
    IN back[Len(a), Len(b)]

(* Two pairs <<old, new>> that would put the later block first.            *)
Crosses(p, q) == (p[1] < q[1]) # (p[2] < q[2])

Score(a, b) == IF a = b THEN 2 ELSE IF {a[3], b[3]} \in Alike THEN 1 ELSE 0

(* The pairs of a gap, taken greedily in the order of Pairs.               *)
Taken(pairs, start) ==
    FoldLeft(LAMBDA acc, p :
               IF \E q \in acc : q[1] = p[1] \/ q[2] = p[2] \/ Crosses(p, q)
               THEN acc ELSE acc \cup {p}, start, pairs)

(* The pairs of the gap that are updates: those similar enough, then what  *)
(* is left, position by position, where one side is an empty paragraph.    *)
fillGap(old, new, oLo, oHi, nLo, nHi) ==
    LET by(p, q) == \/ Score(old[p[1]], new[p[2]]) > Score(old[q[1]], new[q[2]])
                    \/ /\ Score(old[p[1]], new[p[2]]) = Score(old[q[1]], new[q[2]])
                       /\ p[1] < q[1] \/ (p[1] = q[1] /\ p[2] < q[2])
        alike == Taken(SetToSortSeq({p \in (oLo .. oHi) \X (nLo .. nHi) :
                                        Score(old[p[1]], new[p[2]]) > 0}, by), {})
        leftOld == SetToSortSeq({o \in oLo .. oHi : \A p \in alike : p[1] # o}, <)
        leftNew == SetToSortSeq({n \in nLo .. nHi : \A p \in alike : p[2] # n}, <)
        shorter == IF Len(leftOld) < Len(leftNew) THEN Len(leftOld) ELSE Len(leftNew)
        blank == SelectSeq([k \in 1 .. shorter |-> <<leftOld[k], leftNew[k]>>],
                           LAMBDA p : old[p[1]] = Empty \/ new[p[2]] = Empty)
    IN Taken(blank, alike)

(* The plan: new index -> the old index it keeps or updates, 0 to insert.  *)
Diff(old, new) ==
    LET anchors == lcsByHash(old, new)
        ends    == anchors \cup {<<Len(old) + 1, Len(new) + 1>>}
        starts  == anchors \cup {<<0, 0>>}
        Before(e) == CHOOSE s \in starts : /\ s[1] < e[1]
                                           /\ \A t \in starts : t[1] < e[1] => t[1] <= s[1]
        updates == UNION {fillGap(old, new, Before(e)[1] + 1, e[1] - 1,
                                  Before(e)[2] + 1, e[2] - 1) : e \in ends}
    IN [n \in 1 .. Len(new) |->
          IF \E p \in anchors \cup updates : p[2] = n
          THEN (CHOOSE p \in anchors \cup updates : p[2] = n)[1] ELSE 0]

----------------------------------------------------------------------------
(* Positions                                                               *)

NoRoom == <<>>

(* AllocateRun: n positions strictly between prev and next, 0 standing for *)
(* no bound on that side.                                                  *)
(* Mutant of AllocateRun: the run is laid out past prev, whatever follows. *)
AllocateRunPast(prev, next, n) == [k \in 1 .. n |-> prev + k * Step]

AllocateRun(prev, next, n) ==
    CASE n = 0                  -> <<>>
      [] prev = 0 /\ next = 0   -> [k \in 1 .. n |-> Middle + (k - 1) * Step]
      [] prev # 0 /\ next = 0   -> [k \in 1 .. n |-> prev + k * Step]
      [] OTHER -> LET half[k \in 0 .. n] ==
                          IF k = 0 THEN prev ELSE (half[k - 1] + next) \div 2
                  IN IF prev < half[1] /\ half[n] > half[n - 1] /\ half[n] < next
                     THEN [k \in 1 .. n |-> half[k]] ELSE NoRoom

(* allocateInsertPositions: a run of inserts shares its neighbours, kept   *)
(* or updated blocks of the read bs.                                       *)
RunOf(plan, n) ==
    <<Max({k \in 0 .. n : k > 0 => plan[k] # 0}),
      Min({k \in n .. Len(plan) + 1 : k <= Len(plan) => plan[k] # 0})>>
allocateInsertPositions(bs, plan) ==
    LET pos(k) == IF k \in 1 .. Len(plan) THEN bs[listTopLevel(bs)[plan[k]]].pos ELSE 0
    IN [n \in {m \in 1 .. Len(plan) : plan[m] = 0} |->
          LET r   == RunOf(plan, n)
              run == AllocateRun(pos(r[1]), pos(r[2]), r[2] - r[1] - 1)
          IN IF run = NoRoom THEN 0 ELSE run[n - r[1]]]

----------------------------------------------------------------------------
(* The change a write makes                                                *)

(* Mutant of buildUpdateRecord: the new block replaces the record's fields. *)
buildUpdateRecordWhole(now, old, new) ==
    [now EXCEPT !.kind = new[1], !.text = new[3], !.level = new[2]]

(* A field is written where the new block differs from the one read; the   *)
(* style key belongs to the markdown when either kind is a heading.        *)
buildUpdateRecord(now, old, new) ==
    [now EXCEPT !.kind  = IF old.kind # new[1] THEN new[1] ELSE @,
                !.text  = IF old.text # new[3] THEN new[3] ELSE @,
                !.level = IF "h" \in {old.kind, new[1]} /\ old.level # new[2] THEN new[2] ELSE @]

buildCreateRecord(new, pos) ==
    [alive |-> TRUE, parent |-> Root, pos |-> pos, kind |-> new[1], level |-> new[2], text |-> new[3]]

(* applyDiff of the plan for new against the read bs, on the current       *)
(* records: kept blocks are not written, paired ones are updated unless    *)
(* they have been deleted since, the other old ones are deleted and the    *)
(* inserts created.                                                        *)
Change(bs, new, plan, positions) ==
    LET ids == listTopLevel(bs)
        Becomes(b) ==
            LET o == CHOOSE x \in 1 .. Len(ids) : ids[x] = b
                n == {m \in 1 .. Len(plan) : plan[m] = o}
            IN IF ~blocks[b].alive THEN blocks[b]
               ELSE IF n = {} THEN [blocks[b] EXCEPT !.alive = FALSE]
               ELSE IF \A m \in n : RenderBlock(bs[b]) = new[m] THEN blocks[b]
               ELSE buildUpdateRecord(blocks[b], bs[b], new[CHOOSE m \in n : TRUE])
        created == SetToSortSeq(DOMAIN positions, <)
    IN [b \in Ids |-> IF b \in TopLevel(bs) THEN Becomes(b) ELSE blocks[b]]
         \o [k \in 1 .. Len(created) |-> buildCreateRecord(new[created[k]], positions[created[k]])]

----------------------------------------------------------------------------
Calls == [w \in Writers |-> {[at |-> "idle", attempt |-> 0, read |-> 0, from |-> 0, pos |-> 0,
                              ask |-> q] : q \in Asks[w]}]

Init ==
    /\ past = <<Seed>>
    /\ calls \in {f \in [Writers -> UNION {Calls[w] : w \in Writers}] : \A w \in Writers : f[w] \in Calls[w]}
    /\ told = {} /\ others = 0

Land(new) == past' = Append(past, new)
Version(n) == formatVersion(n, Document(past[n]))

(* Get: the client of a conditional Set reads the document it will edit.   *)
Get(w) ==
    /\ calls[w].ask.op = "ifVersion" /\ calls[w].at = "idle"
    /\ calls' = [calls EXCEPT ![w].at = "read", ![w].from = seq]
    /\ told' = told \cup {<<Version(seq), Document(blocks)>>}
    /\ UNCHANGED <<past, others>>

(* applyEdits: the one occurrence of the quoted block replaced, or no      *)
(* write at all.                                                           *)
Edited(doc, call) ==
    LET hits == {k \in 1 .. Len(doc) : doc[k] = call.quote}
    IN IF Cardinality(hits) = 1 THEN <<ReplaceAt(doc, CHOOSE k \in hits : TRUE, call.by)>> ELSE <<>>

(* The content a call wants in place of the document it read at n.         *)
Wanted(w, n) ==
    IF calls[w].ask.op = "edit" THEN Edited(Document(past[n]), calls[w].ask) ELSE <<calls[w].ask.content>>

(* The refusals a caller is told of and nothing is written for: an edit    *)
(* whose quote is not there once, a document that has moved on from the    *)
(* version of a conditional Set.                                           *)
Refused(w) ==
    \/ Wanted(w, seq) = <<>>
    \/ calls[w].ask.op = "ifVersion" /\ Version(calls[w].from) # Version(seq)

(* readDocument, and the closure's checks on what was read.                *)
Read(w) ==
    /\ calls[w].ask.op # "append"
    /\ calls[w].at \in {"read"} \cup (IF calls[w].ask.op = "ifVersion" THEN {} ELSE {"idle"})
    /\ calls' = [calls EXCEPT ![w] =
         IF Refused(w) THEN [@ EXCEPT !.at = "done"]
         ELSE [@ EXCEPT !.at = "write", !.attempt = @ + 1, !.read = seq]]
    /\ UNCHANGED <<past, told, others>>

(* Mutant of Precondition: only the blocks read must still be there. *)
PreconditionBlocks(w) == TopLevel(past[calls[w].read]) \subseteq TopLevel(blocks)

(* IfUnchangedSince, which the last attempt of a caller that asked for no  *)
(* condition does without.                                                 *)
Precondition(w) ==
    \/ calls[w].ask.op # "ifVersion" /\ calls[w].attempt = maxWriteAttempts
    \/ seq = calls[w].read

(* One attempt of writer w against its read: nothing to write, no room for *)
(* an insert, the change landed, or the race lost and the read redone.     *)
Write(w) ==
    LET bs   == past[calls[w].read]
        new  == Wanted(w, calls[w].read)[1]
        plan == Diff(Document(bs), new)
        positions == allocateInsertPositions(bs, plan)
        quiet == Document(bs) = new
        room  == \A n \in DOMAIN positions : positions[n] # 0
        Tell(v) == told' = IF calls[w].ask.op = "edit" THEN told ELSE told \cup {<<v, new>>}
        Done == calls' = [calls EXCEPT ![w].at = "done"]
    IN /\ calls[w].at = "write"
       /\ UNCHANGED others
       /\ \/ quiet /\ Done /\ Tell(Version(calls[w].read)) /\ UNCHANGED past
          \/ ~quiet /\ ~room /\ Done /\ UNCHANGED <<past, told>>
          \/ /\ ~quiet /\ room /\ Precondition(w)
             /\ Len(Change(bs, new, plan, positions)) <= MaxBlocks
             /\ Land(Change(bs, new, plan, positions))
             /\ Done /\ Tell(formatVersion(seq + 1, new))
          \/ /\ ~quiet /\ room /\ ~Precondition(w)
             /\ calls' = [calls EXCEPT ![w].at = IF calls[w].attempt = maxWriteAttempts
                                                 THEN "done" ELSE "read"]
             /\ UNCHANGED <<past, told>>

(* Append looks the tail up and then writes past it, on no condition.      *)
MaxPos == IF TopLevel(blocks) = {} THEN 0 ELSE Max({blocks[b].pos : b \in TopLevel(blocks)})
AppendTail(w) ==
    /\ calls[w].ask.op = "append" /\ calls[w].at = "idle"
    /\ calls' = [calls EXCEPT ![w].at = "append", ![w].pos = MaxPos]
    /\ UNCHANGED <<past, told, others>>
AppendWrite(w) ==
    LET content == calls[w].ask.content
        run == AllocateRun(calls[w].pos, 0, Len(content))
    IN /\ calls[w].at = "append"
       /\ Len(blocks) + Len(content) <= MaxBlocks
       /\ Land(blocks \o [k \in 1 .. Len(content) |-> buildCreateRecord(content[k], run[k])])
       /\ calls' = [calls EXCEPT ![w].at = "done"]
       /\ UNCHANGED <<told, others>>

(* The default position of a created block: past its siblings.             *)
NextPos == IF MaxPos = 0 THEN Middle ELSE MaxPos + Step

(* Single-block writes of other clients and devices: a patch of the text   *)
(* or of a style key, a delete, a nested or a top-level create.            *)
OtherWrite ==
    /\ others < MaxOthers /\ others' = others + 1
    /\ UNCHANGED <<calls, told>>
    /\ \/ \E b \in Ids, t \in Words : blocks[b].alive /\ Land([blocks EXCEPT ![b].text = t])
       \/ \E b \in Ids : blocks[b].alive /\ Land([blocks EXCEPT ![b].level = 1 - @])
       \/ \E b \in Ids : blocks[b].alive /\ Land([blocks EXCEPT ![b].alive = FALSE])
       \/ \E p \in {Root} \cup Ids, t \in Words :
             /\ Len(blocks) < MaxBlocks
             /\ Land(Append(blocks, [buildCreateRecord(<<"p", 0, t>>, NextPos) EXCEPT !.parent = p]))

Next == OtherWrite \/ \E w \in Writers : Get(w) \/ Read(w) \/ Write(w) \/ AppendTail(w) \/ AppendWrite(w)
Spec == Init /\ [][Next]_vars

----------------------------------------------------------------------------
(* TypeOK: calls are at a step, reads are of a state there was. *)
TypeOK ==
    /\ \A w \in Writers : /\ calls[w].at \in {"idle", "read", "write", "append", "done"}
                          /\ calls[w].read \in 0 .. seq /\ calls[w].from \in 0 .. seq
    /\ Len(blocks) <= MaxBlocks

(* A step in which writer w's change landed.                               *)
Landed(w) == calls[w].at = "write" /\ past' # past /\ calls'[w].at = "done"

(* SaveExact (api.go Set, applyDiff, allocateInsertPositions): a save that *)
(* landed on the state it was computed from leaves exactly the content     *)
(* asked for, block by block and in order, whatever was kept, updated,     *)
(* inserted and deleted to get there; only the last attempt of a caller    *)
(* that set no condition lands on any other state; and a conditional save  *)
(* never reverts what came after the version its caller edited from.       *)
SaveExact ==
    [][\A w \in Writers : Landed(w) =>
         /\ calls[w].read = seq => Document(blocks') = Wanted(w, seq)[1]
         /\ calls[w].read # seq => calls[w].ask.op # "ifVersion" /\ calls[w].attempt = maxWriteAttempts
         /\ calls[w].ask.op = "ifVersion" => Document(blocks) = Document(past[calls[w].from])]_vars

(* VersionVouches (version.go formatVersion, Set's reported version): a    *)
(* version that a read or a save handed out names one body for ever, the   *)
(* one its caller was told, so a later conditional save that quotes it     *)
(* overwrites nothing its caller has not seen.                             *)
VersionVouches ==
    \A t \in told : \A n \in 1 .. seq : Version(n) = t[1] => Document(past[n]) = t[2]

(* ForeignKept (api.go buildUpdateRecord, markdownStyleKeys): the style of *)
(* a paragraph that the markdown does not express survives every save that *)
(* updates the paragraph, and a save touches no nested block.              *)
ForeignKept ==
    [][\A w \in Writers : Landed(w) =>
         \A b \in Ids :
           /\ blocks[b].parent # Root => blocks'[b] = blocks[b]
           /\ blocks[b].kind = "p" /\ blocks'[b].kind = "p"
                => blocks'[b].level = blocks[b].level]_vars
====
