----------------------------- MODULE SourceText -----------------------------
(***************************************************************************)
(* The quote-aware scanners every text pass of the migrator stands on.  A  *)
(* text is a sequence of cells; a cell is a quote, a blank, a comma, "!",  *)
(* "&" or one token.                                                       *)
(***************************************************************************)
EXTENDS Integers, Sequences, SequencesExt

Quotes == {"'", "\""}

(* The quote that is open after each cell, "" where none is.  A doubled    *)
(* quote closes the literal and opens it again at the next cell.           *)
OpenQuotes(text) ==
  LET scan[i \in 0..Len(text)] ==
        IF i = 0 THEN <<>>
        ELSE LET so_far == scan[i - 1]
                 before == IF i = 1 THEN "" ELSE so_far[i - 1]
             IN  Append(so_far,
                        IF before = "" /\ text[i] \in Quotes THEN text[i]
                        ELSE IF before = text[i] THEN "" ELSE before)
  IN  scan[Len(text)]

(* The positions outside every literal; the quotes themselves are not.     *)
Outside(text) ==
  LET open == OpenQuotes(text)
  IN  {i \in DOMAIN text : open[i] = "" /\ text[i] \notin Quotes}

EndsInString(text) == text # <<>> /\ Last(OpenQuotes(text)) # ""

(* The first "!" outside a literal, one past the end where there is none.  *)
InlineBang(text) ==
  Min({i \in Outside(text) : text[i] = "!"} \cup {Len(text) + 1})

RStrip(text) == SubSeq(text, 1, Max({0} \cup {i \in DOMAIN text : text[i] # " "}))
LStrip(text) ==
  SubSeq(text, Min({Len(text) + 1} \cup {i \in DOMAIN text : text[i] # " "}), Len(text))
Strip(text) == LStrip(RStrip(text))
StartsWith(text, cell) == LStrip(text) # <<>> /\ Head(LStrip(text)) = cell

HasComment(text) == InlineBang(text) <= Len(text)
StripInlineComment(text) ==
  IF ~HasComment(text) THEN text ELSE RStrip(SubSeq(text, 1, InlineBang(text) - 1))

(* A token pass: every cell outside the literals by what it becomes.       *)
Rewrite(text, becomes) ==
  LET out == Outside(text)
  IN  FlattenSeq([i \in DOMAIN text |->
        IF i \in out /\ text[i] \in DOMAIN becomes THEN becomes[text[i]]
        ELSE <<text[i]>>])
=============================================================================
