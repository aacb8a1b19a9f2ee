---------------------------- MODULE FortranLines ----------------------------
(***************************************************************************)
(* One Fortran file on its way through the statement passes: the main      *)
(* migration, the MPI names, the INTRINSIC lists.  Each pass cuts the file *)
(* into statements, rewrites them as one text and writes lines again.      *)
(*                                                                         *)
(* Cells: "k" is what the main migration rewrites (a type, a literal, a    *)
(* routine name), "m" an MPI name, "w" and "u" the heads of a formatted    *)
(* and an unformatted WRITE, "r" a variable of the new type, "i" the word  *)
(* INTRINSIC, "o" a name the target overloads, "n" and "a" other tokens,   *)
(* "c" the text of a comment.                                              *)
(***************************************************************************)
EXTENDS FixedForm, FreeForm

CONSTANTS
  Sources   \* [fixed, free: the sets of files in that form]

VARIABLES
  form, stage,
  phys,     \* the lines
  want,     \* what a compiler is to read in them
  pushed    \* ghost: a statement grew until its comment began past the margin
            \* and was broken there
vars == <<form, stage, phys, want, pushed>>

Promoted == [k |-> <<"K", "K">>]
Renamed  == [m |-> <<"M", "M">>]
Narrowed == [r |-> <<"D", "r">>]

-----------------------------------------------------------------------------
(* Formatted output. *)

(* The items of an output list that starts after cell from and are just a  *)
(* reference to a variable of the new type.                                *)
PureItems(text, from) ==
  LET stmtEnd == InlineBang(text)
      out     == Outside(text)
      commas  == {i \in out : text[i] = ","}
      alone(i) == LET left  == Max({from} \cup {j \in commas : j < i})
                      right == Min({stmtEnd} \cup {j \in commas : j > i})
                  IN  Strip(SubSeq(text, left + 1, right - 1)) = <<text[i]>>
  IN  {i \in out : from < i /\ i < stmtEnd /\ text[i] \in DOMAIN Narrowed /\ alone(i)}

NarrowItems(text, from) ==
  LET items == PureItems(text, from)
  IN  FlattenSeq([i \in DOMAIN text |->
        IF i \in items THEN Narrowed[text[i]] ELSE <<text[i]>>])

OpensList(text) == StartsWith(text, "w")
ListStart(text) == Min({i \in DOMAIN text : text[i] = "w"})

NarrowOutput(text) ==
  IF OpensList(text) THEN NarrowItems(text, ListStart(text)) ELSE text

-----------------------------------------------------------------------------
(* The passes over one statement. *)

MainPass(text) == Rewrite(text, Promoted)
MpiPass(text)  == Rewrite(text, Renamed)

IntrinsicPass(text) ==
  LET names == SelectSeq(Tail(LStrip(text)), LAMBDA c : c \notin {" ", ",", "o"})
      list  == [j \in DOMAIN names |->
                 IF j = 1 THEN <<names[j]>> ELSE <<",", " ", names[j]>>]
  IN  IF ~StartsWith(text, "i") THEN text
      ELSE IF names = <<>> THEN <<>> ELSE <<"i", " ">> \o FlattenSeq(list)

-----------------------------------------------------------------------------
(* A statement as it is written: its own lines where nothing changed.      *)
Headless(stmt) == stmt.lines[1].mark = "cont"

\* Mutant: an open list is never closed.
MainFixedNeverCloses(stmt, open) ==
  LET s == MainPass(stmt.joined)
  IN  IF Headless(stmt)
      THEN [text |-> IF open THEN NarrowItems(s, 0) ELSE s, open |-> open]
      ELSE [text |-> NarrowOutput(s), open |-> open \/ OpensList(s)]

(* The statement after the main migration, and whether an output list is   *)
(* open behind it.                                                         *)
MainFixed(stmt, open) ==
  LET s == MainPass(stmt.joined)
  IN  IF Headless(stmt)
      THEN [text |-> IF open THEN NarrowItems(s, 0) ELSE s, open |-> open]
      ELSE [text |-> NarrowOutput(s), open |-> OpensList(s)]

WriteFixed(stmt, text) ==
  IF stmt.kind # "code" \/ (Len(stmt.lines) > 1 /\ text = stmt.joined) THEN stmt.lines
  ELSE ReformatFixed(stmt.lines[1].mark, text)

(* One turn of the loop: the statement with the text it becomes.           *)
Migrated(done, stmt) ==
  LET keep(text, open) == [out  |-> Append(done.out, [stmt |-> stmt, text |-> text]),
                           open |-> open]
      follow(new)      == keep(new.text, new.open)
  IN  IF stmt.kind = "code" THEN follow(MainFixed(stmt, done.open))
      ELSE keep(stmt.joined, done.open)

MigratedFixed(lines) ==
  FoldLeft(Migrated, [out |-> <<>>, open |-> FALSE], FixedStatements(lines)).out

(* Free form is migrated line by line. *)
MigrateFreeForm(lines) ==
  [l \in DOMAIN lines |->
    IF lines[l].mark # "code" THEN lines[l]
    ELSE [lines[l] EXCEPT !.text = NarrowOutput(MainPass(@))]]

Statements(f, lines) == IF f = "fixed" THEN FixedStatements(lines) ELSE FreeStatements(lines)
Reflow(f, mark, text) == IF f = "fixed" THEN ReformatFixed(mark, text) ELSE ReformatFree(text)

(* The passes are known by name, as the callers' lists hold them.          *)
LocalPass(pass, text) == IF pass = "mpi" THEN MpiPass(text) ELSE IntrinsicPass(text)
Rewritten(pass, stmt) ==
  [stmt |-> stmt,
   text |-> IF stmt.kind = "code" THEN LocalPass(pass, stmt.joined) ELSE stmt.joined]

RewrittenAll(pass, stmts) == [s \in DOMAIN stmts |-> Rewritten(pass, stmts[s])]

WriteLocal(f, stmt, text) ==
  IF text = stmt.joined THEN stmt.lines
  ELSE IF text = <<>> THEN <<>> ELSE Reflow(f, stmt.lines[1].mark, text)

(* The comment of a text begins past the margin, so nothing keeps the text *)
(* whole, and the last line it is broken into is a part of the comment.    *)
Margin(f) == IF f = "fixed" THEN LineWidth ELSE FreeWidth
BreaksComment(f, text) ==
  /\ HasComment(text) /\ Margin(f) < InlineBang(text)
  /\ ~HasComment(Last(Reflow(f, "code", text)).text)

(* What an action does with the statements of the file and their texts.    *)
WriteMigrated(new) ==
  /\ phys' = FlattenSeq([s \in DOMAIN new |-> WriteFixed(new[s].stmt, new[s].text)])
  /\ pushed' = \E s \in DOMAIN new : /\ new[s].stmt.kind = "code"
                                      /\ BreaksComment("fixed", new[s].text)

ApplyLocalPass(new) ==
  /\ phys' = FlattenSeq([s \in DOMAIN new |-> WriteLocal(form, new[s].stmt, new[s].text)])
  /\ pushed' = (pushed \/ \E s \in DOMAIN new : /\ new[s].text # new[s].stmt.joined
                                                /\ BreaksComment(form, new[s].text))

-----------------------------------------------------------------------------
(* What a compiler reads: cells marked as part of a literal or not, ";"    *)
(* where a statement starts and "#" where a directive stands.              *)

Code(c) == [cell |-> c, lit |-> FALSE]
IsWord(x) == ~x.lit /\ x.cell \notin {" ", ",", ";", "#"} \cup Quotes

(* Outside a literal a blank counts only between two words, and in fixed   *)
(* form not at all.                                                        *)
Emit(f, read, x) ==
  LET after == IF read = <<>> THEN Code(";") ELSE Last(read)
  IN  IF x = Code(" ")
      THEN IF f = "free" /\ IsWord(after) THEN Append(read, x) ELSE read
      ELSE IF after = Code(" ") /\ ~IsWord(x) THEN Append(Front(read), x)
      ELSE Append(read, x)

(* The cells of a line from cell i on, read with a literal open or not.    *)
(* In free form an "&" that nothing but blanks or a comment follows is no  *)
(* text: the statement goes on.                                            *)
ReadCells(f, state, text) ==
  LET rest(i)  == LStrip(SubSeq(text, i + 1, Len(text)))
      scan[i \in 0..Len(text)] ==
        IF i = 0 THEN [state EXCEPT !.goesOn = FALSE, !.stop = FALSE]
        ELSE LET st == scan[i - 1]
                 c  == text[i]
                 lone == f = "free" /\ c = "&"
                         /\ (rest(i) = <<>> \/ (st.quote = "" /\ Head(rest(i)) = "!"))
             IN  IF st.stop THEN st
                 ELSE IF lone THEN [st EXCEPT !.goesOn = TRUE, !.stop = TRUE]
                 ELSE IF st.quote # ""
                 THEN [st EXCEPT !.read = Emit(f, @, [cell |-> c, lit |-> c # st.quote]),
                                 !.quote = IF c = @ THEN "" ELSE @]
                 ELSE IF c = "!" THEN [st EXCEPT !.stop = TRUE]
                 ELSE [st EXCEPT !.read = Emit(f, @, Code(c)),
                                 !.quote = IF c \in Quotes THEN c ELSE ""]
  IN  scan[Len(text)]

(* Columns beyond the margin do not exist; a shorter line is padded.       *)
Columns(text) == [i \in 1..LineWidth |-> IF i <= Len(text) THEN text[i] ELSE " "]

(* A line of code starts a statement unless the one before goes on; where  *)
(* it does, in free form, the line resumes it at an "&" or after a blank.  *)
Entered(f, state, line) ==
  IF line.mark = "cont" \/ (state.goesOn /\ ResumesAt(line.text)) THEN state
  ELSE IF state.goesOn THEN [state EXCEPT !.read = Emit(f, @, Code(" "))]
  ELSE [state EXCEPT !.read = Emit(f, @, Code(";")), !.quote = ""]

ReadLine(f, state, line) ==
  LET cells == IF f = "fixed" THEN Columns(line.text)
               ELSE IF state.goesOn THEN Content(line.text) ELSE line.text
  IN  CASE line.mark \in {"comment", "blank"} -> state
        [] line.mark = "pp" -> [state EXCEPT !.read = Emit(f, @, Code("#"))]
        [] OTHER -> ReadCells(f, Entered(f, state, line), cells)

Reading(f, lines) ==
  LET scan[i \in 0..Len(lines)] ==
        IF i = 0 THEN [read |-> <<>>, quote |-> "", goesOn |-> FALSE, stop |-> FALSE]
        ELSE ReadLine(f, scan[i - 1], lines[i])
  IN  Emit(f, scan[Len(lines)].read, Code(";"))

-----------------------------------------------------------------------------
(* What each pass is to make of a reading. *)

RewriteReading(read, becomes) ==
  FlattenSeq([i \in DOMAIN read |->
    IF read[i].lit \/ read[i].cell \notin DOMAIN becomes THEN <<read[i]>>
    ELSE [j \in DOMAIN becomes[read[i].cell] |-> Code(becomes[read[i].cell][j])]])

(* The nearest cell on a side of cell i that is not a directive.           *)
Neighbour(read, i, step) ==
  LET beyond == {j \in DOMAIN read : read[j] # Code("#") /\ (IF step < 0 THEN j < i ELSE j > i)}
  IN  read[IF step < 0 THEN Max(beyond) ELSE Min(beyond)].cell

StatementHead(read, i) == read[Max({j \in 1..i : read[j] = Code(";")}) + 1]

FormattedItems(read) ==
  {i \in DOMAIN read : /\ read[i] = Code("r")
                       /\ StatementHead(read, i) = Code("w")
                       /\ Neighbour(read, i, -1) \in {"w", ","}
                       /\ Neighbour(read, i, 1) \in {";", ","}}

NarrowReading(read) ==
  LET items == FormattedItems(read)
  IN  FlattenSeq([i \in DOMAIN read |->
        IF i \in items THEN <<Code("D"), read[i]>> ELSE <<read[i]>>])

(* An INTRINSIC list without the overloaded names, and no statement where  *)
(* no name is left.                                                        *)
NamesOf(stmt) == SelectSeq(Tail(stmt), LAMBDA x : x.cell \notin {" ", ",", "o"})
IntrinsicReading(f, read) ==
  LET starts == {i \in DOMAIN read : read[i] = Code(";")}
      stmt(i) == SubSeq(read, i + 1, Min({j \in starts : j > i} \cup {Len(read) + 1}) - 1)
      list(i) == LET names == NamesOf(stmt(i))
                 IN  FlattenSeq([j \in DOMAIN names |->
                       IF j = 1 THEN <<names[j]>> ELSE <<Code(","), names[j]>>])
      kept(i) == IF stmt(i) = <<>> \/ Head(stmt(i)) # Code("i") THEN <<Code(";")>> \o stmt(i)
                 ELSE IF list(i) = <<>> THEN <<>>
                 ELSE <<Code(";"), Code("i")>>
                      \o (IF f = "free" THEN <<Code(" ")>> ELSE <<>>) \o list(i)
  IN  FlattenSeq([i \in DOMAIN read |-> IF i \in starts THEN kept(i) ELSE <<>>])

-----------------------------------------------------------------------------
Init ==
  /\ form \in {"fixed", "free"}
  /\ phys \in Sources[form]
  /\ want = Reading(form, phys)
  /\ stage = 0
  /\ pushed = FALSE

MigrateFixed ==
  /\ stage = 0 /\ form = "fixed"
  /\ WriteMigrated(MigratedFixed(phys))
  /\ want' = RewriteReading(NarrowReading(want), Promoted)
  /\ stage' = 1
  /\ UNCHANGED form

MigrateFree ==
  /\ stage = 0 /\ form = "free"
  /\ phys' = MigrateFreeForm(phys)
  /\ want' = RewriteReading(want, Promoted)
  /\ stage' = 1
  /\ UNCHANGED <<form, pushed>>

RewriteMpiNames ==
  /\ stage = 1
  /\ ApplyLocalPass(RewrittenAll("mpi", Statements(form, phys)))
  /\ want' = RewriteReading(want, Renamed)
  /\ stage' = 2
  /\ UNCHANGED form

StripIntrinsics ==
  /\ stage = 2
  /\ ApplyLocalPass(RewrittenAll("intrinsics", Statements(form, phys)))
  /\ want' = IntrinsicReading(form, want)
  /\ stage' = 3
  /\ UNCHANGED form

Next == MigrateFixed \/ MigrateFree \/ RewriteMpiNames \/ StripIntrinsics
Spec == Init /\ [][Next]_vars

-----------------------------------------------------------------------------
(* The narrowing wrappers a reading shows, by the statement they are in.   *)
Wrappers(read) == {i \in DOMAIN read : read[i] = Code("D")}
WithoutWrappers(read) == SelectSeq(read, LAMBDA x : x # Code("D"))

(* After every pass a compiler reads the statements the source had, each   *)
(* with exactly the tokens the passes are for replaced: no literal gains   *)
(* or loses a blank, no comment swallows what follows it, no token is lost *)
(* over a line break (fixedform.py, logical_lines.py).  Only where a       *)
(* comment was broken is there more to read: see CommentsStayComments.     *)
StatementsKeepTheirMeaning ==
  ~pushed => WithoutWrappers(Reading(form, phys)) = WithoutWrappers(want)

(* In fixed form every plain item of the new type in a formatted list is   *)
(* narrowed exactly once, in whatever fragment of the statement it stands, *)
(* and nothing in an unformatted record or any other statement is          *)
(* (io_narrow.py's module docstring).                                      *)
FormattedItemsAreNarrowed ==
  LET read  == Reading(form, phys)
      plain == FormattedItems(WithoutWrappers(read))
  IN  form = "fixed" /\ stage > 0 =>
        /\ Cardinality(Wrappers(read)) = Cardinality(plain)
        /\ \A i \in Wrappers(read) : /\ StatementHead(read, i) = Code("w")
                                     /\ read[i + 1] = Code("r")

ReadsComment == Code("c") \in Range(Reading(form, phys))

(* A part of a comment is read as code only if a statement grew until the  *)
(* comment began past the margin: a comment that begins before it is never *)
(* broken, however long it is, and the others are dropped with their line  *)
(* break or stay on their line (fixedform.py:22-32, logical_lines.py:165). *)
CommentsStayComments == ReadsComment => pushed
=============================================================================
