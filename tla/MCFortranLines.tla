--------------------------- MODULE MCFortranLines ---------------------------
(***************************************************************************)
(* Files of two statements: an output statement of three items, or a list  *)
(* of two INTRINSIC names, broken in every way between its items, then a   *)
(* second output statement.  Source lines fit the margin; what does not is *)
(* filled to column 72 and goes on inside its literal, as old code does.   *)
(***************************************************************************)
EXTENDS FortranLines

CONSTANTS
  Comment,      \* how many cells a comment within the first statement has
  LastComments  \* those the comment behind the second one may have

Items == {<<"r">>, <<"k">>, <<"m">>, <<"r", "n">>,
          <<"'", "!", "a", " ", "'">>, <<"\"", "'", " ", "a", "\"">>,
          <<"'", "a", "'", "'", "a", "'">>}
LastItems == {<<"r">>, <<"k">>, <<"\"", "a", "'", " ", "\"">>}
Breaks == {"none", "blank", "line", "tail", "comment", "pp"}

(* A comment of n cells after the "!", of two words where it is long.      *)
CommentOf(n) == <<"!">> \o [c \in 1..n |-> IF c = 4 THEN " " ELSE "c"]
CommentText  == CommentOf(Comment)
Line(mark, text) == [mark |-> mark, text |-> text]

(* A statement is its head and the items, with a break before all but the  *)
(* first: a sequence of texts and breaks laid out over lines.              *)
Grow(lines, text) == [lines EXCEPT ![Len(lines)].text = @ \o text]
Lead(f, amp) == IF f = "fixed" THEN Line("cont", <<>>)
                ELSE Line("code", IF amp THEN <<" ", "&">> ELSE <<" ">>)
End(f) == IF f = "fixed" THEN <<>> ELSE <<" ", "&">>

Broken(f, lines, brk) ==
  CASE brk = "none"    -> lines
    [] brk = "blank"   -> Grow(lines, <<" ">>)
    [] brk = "line"    -> Append(Grow(lines, End(f)), Lead(f, TRUE))
    [] brk = "tail"    -> Append(Grow(lines, End(f) \o <<" ">> \o CommentText), Lead(f, FALSE))
    [] brk = "comment" -> Grow(lines, End(f)) \o <<Line("comment", CommentText), Lead(f, FALSE)>>
    [] brk = "pp"      -> Grow(lines, End(f)) \o <<Line("pp", <<"#">>), Lead(f, FALSE)>>

LayOut(f, head, first, b1, second, b2, third) ==
  LET one == <<Line("code", head \o first \o <<",">>)>>
      two == Grow(Broken(f, one, b1), second \o <<",">>)
  IN  Grow(Broken(f, two, b2), third)

(* The code of a line without its comment fits, or is filled to the margin *)
(* and continued.                                                          *)
Filled(line) ==
  LET code == SubSeq(line.text, 1, InlineBang(line.text) - 1)
  IN  IF Len(code) <= LineWidth THEN <<line>>
      ELSE <<Line(line.mark, SubSeq(line.text, 1, LineWidth)),
             Line("cont", SubSeq(line.text, LineWidth + 1, Len(line.text)))>>

(* No code past column 72, and no doubled quote broken over two lines.     *)
WellFilled(lines) ==
  /\ \A l \in DOMAIN lines :
       Len(lines[l].text) <= LineWidth \/ InlineBang(lines[l].text) <= LineWidth
  /\ \A l \in 1..(Len(lines) - 1) :
       lines[l].text # <<>> /\ lines[l + 1].text # <<>> =>
         Last(lines[l].text) \notin Quotes \/ Head(lines[l + 1].text) # Last(lines[l].text)

(* The second statement: an unformatted record, in fixed form with a       *)
(* comment line inside; its own comment starts at the margin, is short or  *)
(* goes on far beyond it, and the code before it grows or does not.        *)
Second(f, grows, n) ==
  IF f = "fixed"
  THEN <<Line("code", <<"u", " ", "r", ",">>), Line("comment", CommentText),
         Line("cont", (IF grows THEN <<"r", ",", "k", "k">> ELSE <<"r", ",", "n", "n">>)
                        \o <<"n", "n">> \o CommentOf(n))>>
  ELSE <<Line("code", <<"u", " ", "r", ",", "k", ",", "k">>
                        \o (IF grows THEN <<",", "m">> ELSE <<>>) \o CommentOf(n))>>

FileOf(f, lines, grows, n) ==
  (IF f = "fixed" THEN FlattenSeq([l \in DOMAIN lines |-> Filled(lines[l])]) ELSE lines)
  \o Second(f, grows, n)

WriteFiles(f, breaks) ==
  {FileOf(f, LayOut(f, <<h, " ">>, i1, b1, i2, b2, i3), h = "w", n) :
     h \in {"w", "u"}, i1 \in Items, b1 \in breaks, i2 \in Items, b2 \in breaks, i3 \in LastItems,
     n \in LastComments}

NameFiles(f) ==
  {FileOf(f, LayOut(f, <<"i", " ">>, <<n1>>, b1, <<n2>>, b2, <<n3>>), n1 = n2, n) :
     n1 \in {"n", "o"}, n2 \in {"n", "o"}, n3 \in {"n", "o"},
     b1 \in {"none", "blank", "line"}, b2 \in {"none", "blank", "line"},
     n \in LastComments}

(* Free form, a literal that goes on over an "&". *)
LiteralFiles ==
  {FileOf("free", Grow(Broken("free",
     <<Line("code", <<"u", " ", "'", "a", " ", "&">>),
       Line("code", <<" ", "&">> \o rest \o <<"'", ",">>)>>, brk), last), TRUE, n) :
     rest \in {<<"a">>, <<" ", "a">>, <<" ">>}, brk \in Breaks \ {"pp"},
     last \in {<<"m">>, <<"n">>, <<"n", ",", "m", ",", "m", ",", "m">>},
     n \in LastComments}

MCSources ==
  [fixed |-> {l \in WriteFiles("fixed", Breaks) \cup NameFiles("fixed") : WellFilled(l)},
   free  |-> WriteFiles("free", Breaks \ {"pp"}) \cup NameFiles("free") \cup LiteralFiles]
=============================================================================
