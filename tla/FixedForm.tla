----------------------------- MODULE FixedForm -----------------------------
(***************************************************************************)
(* Fixed form: the statements of a file and the lines of a statement.  A   *)
(* line is what its first six columns make of it (mark) and its text from  *)
(* column 7 on.                                                            *)
(***************************************************************************)
EXTENDS SourceText

CONSTANTS
  LineWidth,   \* the columns 7 to 72
  BreakFrom    \* a comma or blank before this position is no place to break

Kind(line) == IF line.mark = "cont" THEN "code" ELSE line.mark

\* Mutant: a blank stands for every line break.
JoinWithBlank(joined, text) == StripInlineComment(joined) \o <<" ">> \o text

(* A continuation is joined tight where the head ends inside a literal,    *)
(* with a blank elsewhere, and the head's comment is dropped first.        *)
Join(joined, text) ==
  LET head == StripInlineComment(joined)
  IN  IF EndsInString(head) THEN head \o text ELSE head \o <<" ">> \o text

(* A continuation belongs to the code just before it; after a comment, a   *)
(* blank line or a directive it is a statement without a head.             *)
FixedStatements(phys) ==
  LET scan[i \in 0..Len(phys)] ==
        IF i = 0 THEN <<>>
        ELSE LET done == scan[i - 1]
                 n == Len(done)
             IN  IF phys[i].mark = "cont" /\ n > 0 /\ done[n].kind = "code"
                 THEN [done EXCEPT ![n].lines = Append(@, phys[i]),
                                   ![n].joined = Join(@, phys[i].text)]
                 ELSE Append(done, [kind   |-> Kind(phys[i]),
                                    lines  |-> <<phys[i]>>,
                                    joined |-> phys[i].text])
      all == scan[Len(phys)]
  IN  [s \in DOMAIN all |->
        IF Len(all[s].lines) > 1
        THEN [all[s] EXCEPT !.joined = StripInlineComment(@)] ELSE all[s]]

\* Mutant: the comment does not keep a line whole.
FitsMargin(text) == Len(text) <= LineWidth \/ StartsWith(text, "!")

StaysWhole(text) ==
  \/ Len(text) <= LineWidth
  \/ StartsWith(text, "!")
  \/ InlineBang(text) <= LineWidth

(* Where the line that starts at cell s ends: after the last comma or      *)
(* blank of its second half, before the last cell that is in no literal,   *)
(* or at the margin.                                                       *)
FixedBreak(text, safe, s) ==
  LET last     == s + LineWidth - 1
      spaces   == {i \in (s + BreakFrom)..last : i \in safe /\ text[i] \in {",", " "}}
      anywhere == {i \in s..(last - 1) : i + 1 \in safe}
  IN  IF spaces # {} THEN Max(spaces)
      ELSE IF anywhere # {} THEN Max(anywhere) ELSE last

FixedChunks(text) ==
  LET safe == Outside(text)
      cut[s \in 1..Len(text) + 1] ==
        IF Len(text) - s < LineWidth THEN <<SubSeq(text, s, Len(text))>>
        ELSE LET e == FixedBreak(text, safe, s)
             IN  <<SubSeq(text, s, e)>> \o cut[e + 1]
  IN  cut[1]

ReformatFixed(mark, text) ==
  LET chunks == IF StaysWhole(text) THEN <<text>> ELSE FixedChunks(text)
  IN  [c \in DOMAIN chunks |->
        [mark |-> IF c = 1 THEN mark ELSE "cont", text |-> chunks[c]]]
=============================================================================
