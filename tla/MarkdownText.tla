---- MODULE MarkdownText ----
(***************************************************************************)
(* The markdown text of an object's body: how Split cuts it into blocks,   *)
(* what ParseBlock followed by RenderBlock makes of each, how Join puts    *)
(* them together again, and how a targeted edit is resolved against the    *)
(* text (internal/markdown: split.go, convert.go, join.go, match.go).      *)
(*                                                                         *)
(* A text is a sequence of tokens: "n" is a newline, any other token is    *)
(* the whole of one non-blank line, of which only the class is kept:       *)
(*   h an ATX heading        u a row of "="      r a row of "-"            *)
(*   f a code fence          q a quote line      x html or table           *)
(*   l a list item at column 0, m one at column 2                          *)
(*   t other text at column 0, i at column 2, j at column 4                *)
(***************************************************************************)
EXTENDS Integers, SequencesExt

CONSTANTS Classes,  \* the line classes of the texts enumerated
          MaxLines  \* the longest text, in lines

VARIABLE text       \* the text a caller saved

LineOf(line) == IF line = "" THEN <<>> ELSE <<line>>

(* strings.Join(lines, "\n") over lines, "" being the empty line.          *)
Lines2Text(lines) ==
    IF lines = <<>> THEN <<>>
    ELSE FoldLeft(LAMBDA acc, l : acc \o <<"n">> \o LineOf(l), LineOf(Head(lines)), Tail(lines))

(* strings.Split(text, "\n").                                              *)
Text2Lines(s) ==
    LET Cut(acc, tok) == IF tok = "n" THEN Append(acc, "") ELSE [acc EXCEPT ![Len(acc)] = tok]
    IN FoldLeft(Cut, <<"">>, s)

----------------------------------------------------------------------------
(* Split                                                                   *)

(* splitLines: a last empty line is the terminator of the one before it.   *)
splitLines(s) ==
    LET ls == Text2Lines(s) IN IF Last(ls) = "" THEN Front(ls) ELSE ls

Indent(l) == CASE l \in {"m", "i"} -> 2 [] l = "j" -> 4 [] OTHER -> 0
isListItemLine(l) == l \in {"l", "m"}
contIndent(l) == Indent(l) + 2
isSetextUnderline(l) == l \in {"u", "r"}
looksLikeAnyOpener(l) == l \in {"f", "h", "q", "l", "m", "x"}

(* The index just past the run of lines from k on that satisfy Holds.      *)
RunEnd(ls, k, Holds(_)) ==
    Min({e \in k .. Len(ls) + 1 : e <= Len(ls) => ~Holds(ls[e])})

(* The end e of a block at a, less the blank lines it ends in.             *)
TrimBlanks(ls, a, e) == Max({k \in a + 1 .. e : k > a + 1 => ls[k - 1] # ""})

(* Every consume function answers the index just past the block at a.      *)
consumeFence(ls, a) ==
    LET closers == {k \in a + 1 .. Len(ls) : ls[k] = "f"}
    IN IF closers # {} THEN Min(closers) + 1 ELSE TrimBlanks(ls, a, Len(ls) + 1)

consumeBlockquote(ls, a) == RunEnd(ls, a + 1, LAMBDA l : l = "q")

RECURSIVE ItemEnd(_, _, _)
ItemEnd(ls, cont, k) ==
    IF k > Len(ls) THEN k
    ELSE IF ls[k] = ""
         THEN IF k + 1 <= Len(ls) /\ ls[k + 1] # "" /\ Indent(ls[k + 1]) >= cont
              THEN ItemEnd(ls, cont, k + 1) ELSE k
         ELSE IF Indent(ls[k]) >= cont THEN ItemEnd(ls, cont, k + 1) ELSE k
consumeListItem(ls, a) == TrimBlanks(ls, a, ItemEnd(ls, contIndent(ls[a]), a + 1))

consumeUntilBlank(ls, a) == RunEnd(ls, a + 1, LAMBDA l : l # "")

consumeParagraph(ls, a) == RunEnd(ls, a + 1, LAMBDA l : l # "" /\ ~looksLikeAnyOpener(l))

isSetext(ls, a) ==
    a + 1 <= Len(ls) /\ isSetextUnderline(ls[a + 1]) /\ ~looksLikeAnyOpener(ls[a])

BlockEnd(ls, a) ==
    CASE ls[a] = "f"            -> consumeFence(ls, a)
      [] ls[a] = "h"            -> a + 1
      [] isSetext(ls, a)        -> a + 2
      [] ls[a] = "q"            -> consumeBlockquote(ls, a)
      [] isListItemLine(ls[a])  -> consumeListItem(ls, a)
      [] ls[a] = "x"            -> consumeUntilBlank(ls, a)
      [] OTHER                  -> consumeParagraph(ls, a)

(* The empty paragraphs a run of n blank lines stands for.                 *)
(* Mutant of appendEmpties: no line of the run pays for the separator. *)
appendEmptiesAll(n, afterContent) == [k \in 1 .. n |-> <<>>]

appendEmpties(n, afterContent) ==
    [k \in 1 .. (IF afterContent /\ n > 0 THEN n - 1 ELSE n) |-> <<>>]

RECURSIVE SplitFrom(_, _, _, _)
SplitFrom(ls, a, blanks, sawContent) ==
    IF a > Len(ls) THEN appendEmpties(blanks, FALSE)
    ELSE IF ls[a] = "" THEN SplitFrom(ls, a + 1, blanks + 1, sawContent)
    ELSE LET e == BlockEnd(ls, a)
         IN appendEmpties(blanks, sawContent) \o <<SubSeq(ls, a, e - 1)>>
              \o SplitFrom(ls, e, 0, TRUE)

(* The blocks of a text, each the sequence of its lines; the empty         *)
(* paragraph is the empty one.                                             *)
Split(s) == IF s = <<>> THEN <<>> ELSE SplitFrom(splitLines(s), 1, 0, FALSE)

----------------------------------------------------------------------------
(* ParseBlock, then RenderBlock                                            *)

(* The lines of the code between the fences; one empty line is no text.    *)
parseFencedCode(b) ==
    LET end  == IF Len(b) >= 2 /\ Last(b) = "f" THEN Len(b) - 1 ELSE Len(b)
        body == SubSeq(b, 2, end)
    IN IF body = <<"">> THEN <<>> ELSE body

(* A continuation line moved left by what the item's own marker moves.     *)
Shifted(l, n) ==
    CASE n # 0 /\ l = "j" -> "i"
      [] n # 0 /\ l = "m" -> "l"
      [] n # 0 /\ l = "i" -> "t"
      [] OTHER -> l

(* No line is moved left of the column the marker leaves for it.           *)
alignContinuation(b) ==
    LET shift == contIndent(b[1]) - 2
    IN [k \in 1 .. Len(b) - 1 |->
          IF Indent(b[k + 1]) - 2 >= shift THEN Shifted(b[k + 1], shift) ELSE b[k + 1]]

(* The block as the server renders it once it has parsed it.               *)
Canonical(b) ==
    CASE b = <<>>                                -> <<>>
      [] Len(b) = 2 /\ isSetext(b, 1)            -> <<"h">>
      [] b[1] = "f"                              -> <<"f">> \o parseFencedCode(b) \o <<"f">>
      [] isListItemLine(b[1])                    -> <<"l">> \o alignContinuation(b)
      [] OTHER                                   -> b
Rendered(s) == LET b == Split(s) IN [k \in 1 .. Len(b) |-> Canonical(b[k])]

----------------------------------------------------------------------------
(* Join                                                                    *)

Newlines(n) == [k \in 1 .. n |-> "n"]

(* Mutant of TrailingEmpties: the terminator splitLines eats is not paid. *)
TrailingEmptiesBare(n) == Newlines(n)

TrailingEmpties(n) == IF n > 0 THEN Newlines(n + 1) ELSE <<>>

Join(blocks) ==
    LET content == {k \in 1 .. Len(blocks) : blocks[k] # <<>>}
        first   == Min(content)
        Step(acc, k) ==
            IF blocks[k] = <<>> THEN [acc EXCEPT !.gap = @ + 1]
            ELSE [out |-> acc.out \o Newlines(2 + acc.gap) \o Lines2Text(blocks[k]), gap |-> 0]
        rest == [k \in 1 .. Len(blocks) - first |-> first + k]
        done == FoldLeft(Step, [out |-> Newlines(first - 1) \o Lines2Text(blocks[first]), gap |-> 0], rest)
    IN IF content = {} THEN Newlines(Len(blocks))
       ELSE done.out \o TrailingEmpties(done.gap)

----------------------------------------------------------------------------
(* Targeted edits: every edit is a span of the original text               *)

countNewlinesBefore(s, at) ==
    Max({n \in 0 .. at : \A k \in 1 .. n : s[at - k + 1] = "n"})
countNewlinesAfter(s, at) ==
    Max({n \in 0 .. Len(s) - at : \A k \in 1 .. n : s[at + k] = "n"})

(* Mutant of widenBlockDeletion: the separator of a deleted block stays. *)
widenBlockDeletionNot(s, start, end) == <<start, end>>

(* Offsets count the tokens before them, as the code's count bytes.        *)
widenBlockDeletion(s, start, end) ==
    LET left  == countNewlinesBefore(s, start)
        right == countNewlinesAfter(s, end)
        atBlockStart == start = 0 \/ left >= 2
        atBlockEnd   == end = Len(s) \/ right >= 2 \/ end + right = Len(s)
        asked == IF right = 0 /\ end = Len(s) THEN 1 ELSE 2
        want  == Min({asked, left + right})
        fromLeft == Min({want, left})
    IN IF atBlockStart /\ atBlockEnd
       THEN <<start - fromLeft, end + want - fromLeft>> ELSE <<start, end>>

(* applyEdits with one edit that quotes the tokens start + 1 .. end and    *)
(* replaces them by nothing.                                               *)
Deleted(s, start, end) ==
    LET w == widenBlockDeletion(s, start, end)
    IN SubSeq(s, 1, w[1]) \o SubSeq(s, w[2] + 1, Len(s))

(* Where block k starts and ends in the text Join makes of the blocks.     *)
EndOf(blocks, k)   == Len(Join(SubSeq(blocks, 1, k)))
StartOf(blocks, k) == EndOf(blocks, k) - Len(Lines2Text(blocks[k]))

----------------------------------------------------------------------------
Texts == {Lines2Text(ls) : ls \in UNION {[1 .. n -> Classes \cup {""}] : n \in 1 .. MaxLines}}

Init == text \in Texts
Next == UNCHANGED text
Spec == Init /\ [][Next]_text

(* ReputWritesNothing (docs/29-client-model.md, "re-PUTting what GET       *)
(* returned writes nothing"): the document a read renders after a save is  *)
(* parsed by the next save into the very blocks it was rendered from.      *)
ReputWritesNothing == Rendered(Join(Rendered(text))) = Rendered(text)

(* Block k + 1 is indented far enough to read as part of the list item     *)
(* before it, whose marker the rendering has moved to column 0.            *)
RunsInto(b, k) ==
    /\ b[k] # <<>> /\ b[k + 1] # <<>>
    /\ isListItemLine(b[k][1]) /\ Indent(b[k + 1][1]) >= contIndent(b[k][1])

(* SavedIsStable (split.go, "Split(Join(Split(x))) == Split(x)", and the   *)
(* canonical forms of convert.go): splitting what Join wrote finds the     *)
(* same blocks, and a client that saves back the document it has just read *)
(* never rewrites, merges or splits a block, unless a list item was        *)
(* written at an indent and text at that indent follows it (RunsInto).     *)
SavedIsStable ==
    LET b == Rendered(text)
    IN /\ Split(Join(Split(text))) = Split(text)
       /\ (\A k \in 1 .. Len(b) - 1 : ~RunsInto(b, k)) => ReputWritesNothing

(* Block k can go without its neighbours running into one list item, it is *)
(* not the document's only content, and it does not follow a single blank  *)
(* line that opens the document.                                           *)
Removable(b, k) ==
    /\ b[k] # <<>>
    /\ \E o \in 1 .. Len(b) : o # k /\ b[o] # <<>>
    /\ ~(k = 2 /\ b[1] = <<>>)
    /\ \A o \in 1 .. Len(b) - 1 : ~RunsInto(b, o)
    /\ \A o \in 1 .. Len(b) - 2 : ~RunsInto(RemoveAt(b, k), o)

(* DeletionExact (match.go widenBlockDeletion): an edit that quotes one    *)
(* whole block of the document and replaces it by nothing leaves exactly   *)
(* the other blocks, with no empty paragraph in its place, wherever the    *)
(* block may be removed at all (Removable).                                *)
DeletionExact ==
    LET b == Rendered(text)
        s == Join(b)
    IN \A k \in 1 .. Len(b) :
         Removable(b, k) => Rendered(Deleted(s, StartOf(b, k), EndOf(b, k))) = RemoveAt(b, k)
====
