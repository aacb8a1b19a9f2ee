------------------------------ MODULE FreeForm ------------------------------
(***************************************************************************)
(* Free form: the statements of a file, whose lines go on after "&", and   *)
(* the lines of a statement.  A line is its kind (mark) and its text.      *)
(***************************************************************************)
EXTENDS SourceText

CONSTANTS
  FreeWidth,   \* the columns of a line
  Indent       \* the blanks before the "&" of a continuation

(* The code of a line, whether it goes on and whether inside a literal.    *)
Piece(text) ==
  LET stripped == RStrip(SubSeq(text, 1, InlineBang(text) - 1))
      before   == SubSeq(stripped, 1, Len(stripped) - 1)
      inside   == EndsInString(before)
  IN  IF stripped # <<>> /\ Last(stripped) = "&"
      THEN [code |-> IF inside THEN before ELSE RStrip(before),
            goesOn |-> TRUE, inString |-> inside]
      ELSE [code |-> text, goesOn |-> FALSE, inString |-> FALSE]

ResumesAt(text) == StartsWith(text, "&")
Content(text) == IF ResumesAt(text) THEN Tail(LStrip(text)) ELSE text

FuseFree(joined, inString, text) ==
  LET code == Piece(Content(text)).code
  IN  IF inString THEN joined \o code
      ELSE IF ResumesAt(text) THEN RStrip(joined) \o LStrip(code)
      ELSE RStrip(joined) \o <<" ">> \o Strip(code)

NewStatement(state, line) ==
  LET piece == Piece(line.text)
      code  == line.mark = "code"
  IN  [done |-> Append(state.done,
                  [kind |-> line.mark, lines |-> <<line>>,
                   joined |-> IF code THEN piece.code ELSE line.text]),
       goesOn   |-> code /\ piece.goesOn,
       inString |-> code /\ piece.inString]

(* A comment between the lines of a statement is kept with it and adds     *)
(* nothing to it; a blank line or a directive ends the statement.          *)
Absorb(state, line) ==
  LET n == Len(state.done)
      joined == IF line.mark = "comment" THEN state.done[n].joined
                ELSE FuseFree(state.done[n].joined, state.inString, line.text)
      on == IF line.mark = "comment" THEN TRUE ELSE Piece(Content(line.text)).goesOn
  IN  [done     |-> [state.done EXCEPT ![n].lines = Append(@, line), ![n].joined = joined],
       goesOn   |-> on,
       inString |-> IF line.mark = "comment" THEN state.inString
                    ELSE on /\ EndsInString(joined)]

FreeStatements(phys) ==
  LET scan[i \in 0..Len(phys)] ==
        IF i = 0 THEN [done |-> <<>>, goesOn |-> FALSE, inString |-> FALSE]
        ELSE LET state == scan[i - 1]
             IN  IF state.goesOn /\ phys[i].mark \in {"code", "comment"}
                 THEN Absorb(state, phys[i]) ELSE NewStatement(state, phys[i])
  IN  scan[Len(phys)].done

ContPrefix == [b \in 1..Indent |-> " "] \o <<"&">>

(* Where the line that starts at cell s ends: the last comma or blank that *)
(* leaves room for " &", else the first one beyond, else nowhere.          *)
FreeBreak(text, safe, s) ==
  LET room   == IF s = 1 THEN FreeWidth ELSE FreeWidth - Len(ContPrefix)
      last   == s + room - 3
      spaces == {i \in safe : text[i] \in {",", " "}}
      within == {i \in spaces : s + 2 <= i /\ i <= last}
      beyond == {i \in spaces : last < i}
  IN  IF Len(text) - s < room THEN Len(text)
      ELSE IF within # {} THEN Max(within)
      ELSE IF beyond # {} THEN Min(beyond) ELSE Len(text)

FreeChunks(text) ==
  LET safe == Outside(text)
      cut[s \in 1..Len(text) + 1] ==
        IF s > Len(text) THEN <<>>
        ELSE LET e == FreeBreak(text, safe, s)
             IN  <<SubSeq(text, s, e)>> \o cut[e + 1]
  IN  cut[1]

(* A line that cannot be brought under the limit stays as it is.           *)
ReformatFree(text) ==
  LET chunks == FreeChunks(text)
      lines  == [c \in DOMAIN chunks |->
                  (IF c = 1 THEN RStrip(chunks[c]) ELSE ContPrefix \o Strip(chunks[c]))
                  \o (IF c < Len(chunks) THEN <<" ", "&">> ELSE <<>>)]
  IN  IF \/ Len(text) <= FreeWidth
         \/ InlineBang(text) <= FreeWidth
         \/ Len(chunks) = 1
         \/ \E c \in DOMAIN lines : Len(lines[c]) > FreeWidth
      THEN <<[mark |-> "code", text |-> text]>>
      ELSE [c \in DOMAIN lines |-> [mark |-> "code", text |-> lines[c]]]
=============================================================================
