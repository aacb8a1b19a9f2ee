----------------------------- MODULE FortranFile -----------------------------
(***************************************************************************)
(* The whole-file passes over one fixed-form source for a target whose     *)
(* numbers are derived types (multifloats): migrate_file_to_string and     *)
(* migrate_fixed_form of fortran_migrator.py, with decls.py, params.py,    *)
(* use_inject.py, renames.py, keepkind.py and the end of mpi.py.           *)
(*                                                                         *)
(* A derived type has no constant expressions, so a PARAMETER or DATA      *)
(* constant becomes an assignment in front of the first executable         *)
(* statement of its procedure, or, where the target's module supplies it   *)
(* by name, an import.  The passes run in one order, each on the text the  *)
(* last one left, and hand each other lists of names and of assignments.   *)
(***************************************************************************)
EXTENDS FileLines

CONSTANTS
    Sources,          \* the files, each with the lines its manifest protects
    SourceKind,       \* the native kind of the file's half: 4, 8, or 0
    UseWindow,        \* how far an existing USE is looked for (20 lines)
    MarkerWindow      \* how far above a statement function its marker is (12 lines)

ASSUME FileAssumption == SourceKind \in {0, 4, 8} /\ UseWindow \in Nat /\ MarkerWindow \in Nat

\* The target's module has the names the passes count on; the sentinel of a
\* protected line is no name.
ASSUME ModuleAssumption ==
    /\ {"real64x2", "cmplx64x2", "dble", "int", "real"} \subseteq ModuleNames
    /\ ModuleNames \cup MpiTokens \cup Known \cup {"MPI_FLOAT64X2"} \subseteq Name
    /\ KnownConstants \in [Known -> Name] /\ "none" \in Number
    /\ "kept_dble" \notin Name

\* The lines that open and close a procedure, a prototype or a block of them.
Structural(l) == l.k \in {"header", "end", "interface", "endinterface"}
NothingBetween(t, h, e) == \A j \in h + 1 .. e - 1 : ~Structural(t[j])

\* An interface block holds prototypes, each a header with its END, and
\* procedures follow each other.
WellFormed(t) ==
    /\ \A h \in Lines(t, "header") : InInterface(t, h) =>
          \E e \in Lines(t, "end") : h < e /\ NothingBetween(t, h, e)
    /\ \A e \in Lines(t, "end") : InInterface(t, e) =>
          \E h \in Lines(t, "header") : h < e /\ NothingBetween(t, h, e)
    /\ \A h \in Procedures(t) :
          \E e \in Lines(t, "end") :
             /\ h < e /\ ~InInterface(t, e)
             /\ \A j \in h + 1 .. e - 1 : t[j].k \in {"header", "end"} => InInterface(t, j)

ConstantsInProcedures(t) ==
    \A i \in DOMAIN t : t[i].k \in {"param", "data"} =>
        \E h \in Procedures(t) : h < i /\ i < NextEnd(t, h)

\* A source is written without the target's module and without sentinels.
ASSUME SourceAssumption ==
    \A f \in Sources :
        /\ f.text \in Seq(LineType) /\ f.kept \subseteq Nat
        /\ WellFormed(f.text) /\ ConstantsInProcedures(f.text)
        /\ \A l \in ToSet(f.text) :
              /\ l.ty \notin {"module", "mpi", "kept"}
              /\ l.rf \cap ({"kept_dble"} \cup MpiTokens) = {}
              /\ ItemNames(l) \cap {"real64x2", "cmplx64x2"} = {}
              /\ IsComment(l) \/ IsDirective(l) => l.ty = "none"
              /\ l.k \in {"decl", "param", "external"} => l.it # <<>>

\* What the walk takes for a statement function: it has one plain argument,
\* and between it and a marker not far above stand only comments and such
\* functions, none of them continued.
IsStatementFunction(t, k) ==
    /\ t[k].k = "stmtfn"
    /\ \E m \in Lines(t, "marker") :
          /\ m < k /\ k <= m + MarkerWindow
          /\ \A j \in m .. k : IsComment(t[j]) \/ t[j].k = "stmtfn"

\* What configuration c compiles of the file is a file itself.  No header is
\* left out above a line that is compiled, and an END that closes a procedure
\* closes one in every configuration.
Compiles(t, c) ==
    LET on == Active(t, c)
        v  == Preprocess(t, c)
    IN  /\ WellFormed(v) /\ Ordered(v)
        /\ \A h \in Lines(t, "header"), i \in on : h < i /\ NothingBetween(t, h, i) => h \in on
        /\ \A e \in Lines(t, "end") \cap on :
              InInterface(v, Cardinality({j \in on : j <= e})) => InInterface(t, e)

VARIABLES
    source,           \* the file as it was read
    kept,             \* the line numbers the keep-kind manifest names
    text,             \* the file as the passes have made it
    removed,          \* known constants dropped from declarations
    extra,            \* assignments still to be placed, with their scopes
    stage             \* the last pass that has run

vars == <<source, kept, text, removed, extra, stage>>

-----------------------------------------------------------------------------
(* Keep-kind protection: a sentinel no pass matches stands for the double  *)
(* precision of a protected line.                                          *)

Masked(l) == [l EXCEPT !.ty = IF @ = "real8" THEN "kept" ELSE @,
                       !.rf = {IF n = "dble" THEN "kept_dble" ELSE n : n \in @}]
Protect(t, lines) == [i \in DOMAIN t |-> IF i \in lines THEN Masked(t[i]) ELSE t[i]]
Unmasked(l) == [l EXCEPT !.ty = IF @ = "kept" THEN "real8" ELSE @,
                         !.rf = {IF n = "kept_dble" THEN "dble" ELSE n : n \in @}]
Restore(t) == [i \in DOMAIN t |-> Unmasked(t[i])]

-----------------------------------------------------------------------------
(* Declarations of names the target supplies.                              *)

\* What strip_known_constants_from_decls takes from a declaration: bare
\* known names, unless the type or any declaration of the file is COMPLEX
\* or an item of the statement has an initialiser.
Strippable(l, t) ==
    IF \/ l.k # "decl" \/ l.ty \notin {"real4", "real8", "treal"}
       \/ \E x \in ToSet(l.it) : HasInitialiser(x)
    THEN {}
    ELSE {x.n : x \in {x \in ToSet(l.it) : x.v = Bare}} \cap (Known \ ComplexNames(t))

WithoutItems(l, ns) == [l EXCEPT !.it = ItemsIn(@, {x \in ToSet(@) : x.n \notin ns})]

Stripped(l, t) ==
    LET left == WithoutItems(l, Strippable(l, t))
    IN  IF l.k = "decl" /\ left.it = <<>> THEN <<>> ELSE <<left>>

StripKnown(t) == FlattenSeq([i \in DOMAIN t |-> Stripped(t[i], t)])

-----------------------------------------------------------------------------
(* PARAMETER and DATA statements become assignments.                       *)

Assign(x) == [Line("assign") EXCEPT !.it = <<x>>]
Guard(c) == [Line("if") EXCEPT !.cond = c]

\* A slip: an #elif forgets the branches above it.
GuardStackForgets(st, l) ==
    IF st = <<>> /\ l.k # "if" THEN st ELSE
    CASE l.k = "if"   -> Append(st, [wrap |-> l.cond, history |-> l.cond])
      [] l.k = "elif" -> SetTop(st, [wrap |-> l.cond, history |-> l.cond])
      [] l.k = "else" -> SetTop(st, [Top(st) EXCEPT !.wrap = Config \ Top(st).history])
      [] l.k = "endif" -> SubSeq(st, 1, Len(st) - 1)
      [] OTHER -> st

\* The stack of open preprocessor blocks: each has the condition that holds
\* where the scan stands and those of the branches before it.
GuardStack(st, l) ==
    IF st = <<>> /\ l.k # "if" THEN st ELSE
    CASE l.k = "if"   -> Append(st, [wrap |-> l.cond, history |-> l.cond])
      [] l.k = "elif" -> SetTop(st, [wrap |-> l.cond \ Top(st).history,
                                     history |-> Top(st).history \cup l.cond])
      [] l.k = "else" -> SetTop(st, [Top(st) EXCEPT !.wrap = Config \ Top(st).history])
      [] l.k = "endif" -> SubSeq(st, 1, Len(st) - 1)
      [] OTHER -> st

Guarded(x, st) ==
    [i \in DOMAIN st |-> Guard(st[i].wrap)] \o <<Assign(x)>> \o [i \in DOMAIN st |-> Line("endif")]

\* An INTEGER constant with a complex value is declared with the wrong type.
CombinedType(l) ==
    IF l.ty = "integer" /\ \E x \in ToSet(l.it) : x.v.lit = "complex" THEN "tcomplex" ELSE l.ty

\* A protected declaration has no type the conversion knows.
Convertible(l) ==
    l.ty = "none" \/ (CombinedType(l) \notin {"integer", "kept"} /\ \A x \in ToSet(l.it) : IsFpValue(x.v))

CarriesComplex(x, l, t) ==
    x.v.lit = "complex" \/ IsComplex(CombinedType(l)) \/ x.n \in ComplexNames(t)

FoldsAway(x, l, t) == IsFpValue(x.v) /\ x.n \in Known /\ ~CarriesComplex(x, l, t)
BecomesAssignment(x, l, t) == IsFpValue(x.v) /\ ~FoldsAway(x, l, t)

Assigned(l, t) == ItemsIn(l.it, {x \in ToSet(l.it) : BecomesAssignment(x, l, t)})
FoldedNames(l, t) == {x.n : x \in {x \in ToSet(l.it) : FoldsAway(x, l, t)}}

BareItems(s) == [i \in DOMAIN s |-> Item(s[i].n, Bare)]

\* What stays of the statement: the constants that are not floating point,
\* a declaration of those that are now assigned, or a comment.
ParameterRest(l, t) ==
    LET assigned == Assigned(l, t)
        others   == ItemsIn(l.it, {x \in ToSet(l.it) : ~IsFpValue(x.v)})
    IN  IF l.ty # "none" THEN IF assigned = <<>> THEN <<>>
                          ELSE <<[Line("decl") EXCEPT !.ty = CombinedType(l), !.it = BareItems(assigned)]>>
        ELSE IF others # <<>> THEN <<[l EXCEPT !.it = others]>>
        ELSE IF assigned # <<>> THEN <<Line("comment")>> ELSE <<>>

NewAssignments(l, t, sc, st) ==
    [i \in DOMAIN Assigned(l, t) |-> [scope |-> sc, ls |-> Guarded(Assigned(l, t)[i], st)]]

\* The guards at each line of the scan.
GuardStacks(t) ==
    LET st[i \in 0 .. Len(t)] == IF i = 0 THEN <<>> ELSE GuardStack(st[i - 1], t[i]) IN st

\* convert_parameter_stmts: the text, the assignments, the folded names.
ConvertParameters(t) ==
    LET converts(l) == l.k = "param" /\ Convertible(l)
        st == GuardStacks(t)
    IN  [out |-> FlattenSeq([i \in DOMAIN t |->
                   IF converts(t[i]) THEN ParameterRest(t[i], t) ELSE <<t[i]>>]),
         extra |-> FlattenSeq([i \in DOMAIN t |->
                   IF converts(t[i]) THEN NewAssignments(t[i], t, Scope(t, i), st[i]) ELSE <<>>]),
         folded |-> UNION {FoldedNames(l, t) : l \in {l \in ToSet(t) : converts(l)}}]

IsFpData(l) == l.k = "data" /\ \E x \in ToSet(l.it) : IsFpValue(x.v)

\* convert_data_stmts: every value of the statement is assigned, at every
\* call and under no guard, but for the names the target supplies.
ConvertData(t) ==
    LET assigned(l) == WithoutItems(l, Known).it
        rest(l) == IF ~IsFpData(l) THEN <<l>> ELSE IF assigned(l) = <<>> THEN <<>> ELSE <<Line("comment")>>
        extras(i) == LET s == assigned(t[i])
                     IN  [j \in DOMAIN s |-> [scope |-> Scope(t, i), ls |-> <<Assign(s[j])>>]]
    IN  [out |-> FlattenSeq([i \in DOMAIN t |-> rest(t[i])]),
         extra |-> FlattenSeq([i \in DOMAIN t |-> IF IsFpData(t[i]) THEN extras(i) ELSE <<>>]),
         folded |-> Known \cap UNION {ItemNames(l) : l \in {l \in ToSet(t) : IsFpData(l)}}]

\* A constant of which a pass makes an assignment.
AssignsSome(l, t) ==
    \/ l.k = "param" /\ Convertible(l) /\ \E x \in ToSet(l.it) : BecomesAssignment(x, l, t)
    \/ IsFpData(l) /\ \E x \in ToSet(l.it) : x.n \notin Known

\* A compiler accepts the source in every configuration.  A procedure with a
\* statement function the walk would stop at has no constant that is assigned.
ASSUME CompilerAssumption ==
    \A f \in Sources :
        /\ \A i \in Lines(f.text, "interface") : InInterface(f.text, i)
        /\ \A k \in DOMAIN f.text : f.text[k].k \in FunctionKinds =>
              \/ IsStatementFunction(f.text, k)
              \/ \A i \in DOMAIN f.text : AssignsSome(f.text[i], f.text) => Scope(f.text, i) # Scope(f.text, k)
        /\ \A c \in Config : Compiles(f.text, c)

-----------------------------------------------------------------------------
(* The module and the assignments are put in their places.                 *)

BareUse == [Line("use") EXCEPT !.ty = "module"]

HasUseNearby(t, i) ==
    \E k \in i .. i + UseWindow - 1 : k \in DOMAIN t /\ t[k].k \in {"use", "useonly"} /\ t[k].ty = "module"

\* One past the header and the directives that follow it.
AfterHeader(t, h) ==
    FirstOf({k \in h + 1 .. Len(t) + 1 : k > Len(t) \/ ~IsDirective(t[k])})

\* A slip: the walk does not know interface blocks.
InDeclBlockNoInterface(t, k) ==
    \/ IsComment(t[k]) \/ IsDirective(t[k])
    \/ t[k].k \in {"decl", "use", "useonly", "param", "data", "external", "continued", "interface", "header"}
    \/ IsStatementFunction(t, k)

\* Lines the walk to the first executable statement steps over.
InDeclBlock(t, k) ==
    \/ IsComment(t[k]) \/ IsDirective(t[k])
    \/ t[k].k \in {"decl", "use", "useonly", "param", "data", "external", "continued"}
    \/ InInterface(t, k) \/ t[k].k = "endinterface"
    \/ IsStatementFunction(t, k)

WalkDeclBlock(t, i) ==
    FirstOf({k \in i .. Len(t) + 1 : k > Len(t) \/ ~InDeclBlock(t, k)})

ExtrasOfAll(e, sc) == FlattenSeq([i \in DOMAIN e |-> e[i].ls])
ExtrasOf(e, sc) == FlattenSeq([i \in DOMAIN e |-> IF e[i].scope = sc THEN e[i].ls ELSE <<>>])

\* insert_use_multifloats: a USE behind every header, prototypes included,
\* and the assignments of a procedure behind its declarations.
InsertUse(t, e) ==
    LET useAt(i) == IF \E h \in Lines(t, "header") : AfterHeader(t, h) = i /\ ~HasUseNearby(t, i)
                    THEN <<BareUse>> ELSE <<>>
        assignAt(i) == FlattenSeq([s \in 1 .. Cardinality(Procedures(t)) |->
            IF \E h \in Procedures(t) : Scope(t, h) = s /\ WalkDeclBlock(t, AfterHeader(t, h)) = i
            THEN ExtrasOf(e, s) ELSE <<>>])
    IN  FlattenSeq([i \in 1 .. Len(t) + 1 |->
            useAt(i) \o assignAt(i) \o (IF i \in DOMAIN t THEN <<t[i]>> ELSE <<>>)])

-----------------------------------------------------------------------------
(* Line by line: types are promoted, folded names become the module's.     *)

Promoted(ty) ==
    CASE ty = "real8" /\ SourceKind \in {0, 8} -> "treal"
      [] ty = "complex8" /\ SourceKind \in {0, 8} -> "tcomplex"
      [] ty = "real4" /\ SourceKind \in {0, 4} -> "treal"
      [] OTHER -> ty

RenameKnown(ns, rs) == {IF n \in rs THEN KnownConstants[n] ELSE n : n \in ns}
RenamedItem(x, rs) == [x EXCEPT !.v.of = RenameKnown(@, rs)]

\* A literal is wrapped in the constructor of the target's type.
Constructors(v) == CASE v.lit = "real" -> {"real64x2"}
                     [] v.lit = "complex" -> {"real64x2", "cmplx64x2"}
                     [] OTHER -> {}

\* replace_known_constants: the left-hand side of an assignment keeps its
\* name, and so does the rest of that statement where it is the same name.
ReplaceKnown(l, rs) ==
    CASE l.k = "exec" -> [l EXCEPT !.rf = RenameKnown(@, rs)]
      [] l.k = "assign" -> [l EXCEPT !.it = [i \in DOMAIN @ |-> RenamedItem(@[i], rs \ {@[i].n})],
                                     !.rf = @ \cup UNION {Constructors(x.v) : x \in ToSet(l.it)}]
      [] OTHER -> l

\* replace_type_decls, with what its filter drops from a plain list.
ReplaceTypeDecls(l, complex) ==
    LET p == [l EXCEPT !.ty = Promoted(@)]
    IN  IF p.k = "decl" /\ p.ty = "treal" /\ \A x \in ToSet(p.it) : x.v = Bare
        THEN WithoutItems(p, Known \ complex) ELSE p

MigrateLines(t, rs, complex) ==
    LET migrated(l) == ReplaceKnown(ReplaceTypeDecls(l, complex), rs)
        keeps(l) == l.k # "decl" \/ migrated(l).it # <<>>
    IN  FlattenSeq([i \in DOMAIN t |-> IF keeps(t[i]) THEN <<migrated(t[i])>> ELSE <<>>])

-----------------------------------------------------------------------------
(* The bare USE gets the list of names its procedure refers to.            *)

ProcLines(t, h) == {t[i] : i \in h .. NextEnd(t, h)}

\* What later rewrites will call: dble for a protected line and in INT of a
\* real, real in INT of a complex.
Predicted(ls, referenced) ==
    (IF "kept_dble" \in referenced \/ ("int" \in referenced /\ "real64x2" \in referenced)
     THEN {"dble"} ELSE {})
      \cup (IF "int" \in referenced /\ \E l \in ls : l.k = "decl" /\ IsComplex(l.ty) THEN {"real"} ELSE {})

OnlyList(ls) ==
    LET referenced == UNION {Identifiers(l) : l \in ls}
    IN  ((referenced \cup Predicted(ls, referenced)) \cap PublicNames) \ DeclaredNames(ls)

\* A slip: only the first USE of a procedure is given its list.
SpecializedOnce(t, u) ==
    LET hs == {h \in Procedures(t) : h < u /\ u <= NextEnd(t, h)}
        only == OnlyList(ProcLines(t, FirstOf(hs)))
    IN  IF hs = {} THEN <<t[u]>>
        ELSE IF only = {} \/ InInterface(t, u) THEN <<>>
        ELSE <<[t[u] EXCEPT !.k = "useonly", !.rf = only]>>

\* The first procedure whose lines hold the USE decides.
Specialized(t, u) ==
    LET hs == {h \in Procedures(t) : h < u /\ u <= NextEnd(t, h)}
        only == OnlyList(ProcLines(t, FirstOf(hs)))
    IN  IF hs = {} THEN <<t[u]>>
        ELSE IF only = {} THEN <<>>
        ELSE <<[t[u] EXCEPT !.k = "useonly", !.rf = only]>>

SpecializeUse(t) ==
    FlattenSeq([i \in DOMAIN t |-> IF t[i] = BareUse THEN Specialized(t, i) ELSE <<t[i]>>])

-----------------------------------------------------------------------------
(* After the driver has returned.                                          *)

TargetHandle(n) == IF n = "MPI_DOUBLE_PRECISION" THEN "MPI_FLOAT64X2" ELSE n
RewriteHandles(t) ==
    [i \in DOMAIN t |-> [t[i] EXCEPT !.rf = {TargetHandle(n) : n \in @}]]

\* insert_use_multifloats_mpi_f, prototypes counted against their ENDs.
MpiUse == [Line("use") EXCEPT !.ty = "mpi"]
InsertMpiUse(t) ==
    LET needs(h) == \E i \in AfterHeader(t, h) .. MatchingEnd(t, h) : t[i].rf \cap MpiTokens # {}
        useAt(i) == IF \E h \in Lines(t, "header") : AfterHeader(t, h) = i /\ needs(h)
                    THEN <<MpiUse>> ELSE <<>>
    IN  FlattenSeq([i \in DOMAIN t |-> useAt(i) \o <<t[i]>>])

\* The rounding of a workspace length is the identity on the target.
StripRoundup(t) ==
    LET called(l) == l.k = "exec" /\ "ROUNDUP_LWORK" \in l.rf
        orphan(l) == l.k = "external" \/ (l.k = "decl" /\ l.ty = "real4")
        strip(l) == IF called(l) THEN [l EXCEPT !.rf = @ \ {"ROUNDUP_LWORK"}]
                    ELSE IF orphan(l) THEN WithoutItems(l, {"ROUNDUP_LWORK"}) ELSE l
        gone(l) == orphan(l) /\ strip(l).it = <<>>
    IN  IF \A l \in ToSet(t) : "ROUNDUP_LWORK" \notin Identifiers(l) THEN t
        ELSE FlattenSeq([i \in DOMAIN t |-> IF gone(t[i]) THEN <<>> ELSE <<strip(t[i])>>])

-----------------------------------------------------------------------------
(* The passes, in the order the driver runs them.                          *)

Init ==
    /\ \E f \in Sources : source = f.text /\ kept = f.kept
    /\ text = source /\ removed = {} /\ extra = <<>> /\ stage = "read"

Pass(from, to) == stage = from /\ stage' = to /\ UNCHANGED <<source, kept>>

ApplyKeepKind ==
    /\ Pass("read", "protected")
    /\ text' = Protect(text, kept)
    /\ UNCHANGED <<removed, extra>>

StripKnownConstants ==
    /\ Pass("protected", "stripped")
    /\ text' = StripKnown(text)
    /\ removed' = UNION {Strippable(l, text) : l \in ToSet(text)}
    /\ UNCHANGED extra

ConvertParameterStmts ==
    /\ Pass("stripped", "parameters")
    /\ LET r == ConvertParameters(text)
       IN  text' = r.out /\ extra' = r.extra /\ removed' = removed \cup r.folded

ConvertDataStmts ==
    /\ Pass("parameters", "data")
    /\ LET r == ConvertData(text)
       IN  text' = r.out /\ extra' = extra \o r.extra /\ removed' = removed \cup r.folded

InsertUseModule ==
    /\ Pass("data", "placed")
    /\ text' = InsertUse(text, extra) /\ extra' = <<>>
    /\ UNCHANGED removed

MigrateEachLine ==
    /\ Pass("placed", "promoted")
    /\ text' = MigrateLines(text, removed, ComplexNames(Protect(source, kept)))
    /\ UNCHANGED <<removed, extra>>

SpecializeUseModule ==
    /\ Pass("promoted", "specialized")
    /\ text' = SpecializeUse(text)
    /\ UNCHANGED <<removed, extra>>

RestoreKeepKind ==
    /\ Pass("specialized", "restored")
    /\ text' = Restore(text)
    /\ UNCHANGED <<removed, extra>>

RewriteMpiHandles ==
    /\ Pass("restored", "handles")
    /\ text' = RewriteHandles(text)
    /\ UNCHANGED <<removed, extra>>

InsertMpiModule ==
    /\ Pass("handles", "mpi")
    /\ text' = InsertMpiUse(text)
    /\ UNCHANGED <<removed, extra>>

StripRoundupLwork ==
    /\ Pass("mpi", "done")
    /\ text' = StripRoundup(text)
    /\ UNCHANGED <<removed, extra>>

Finished == stage = "done" /\ UNCHANGED vars

Next ==
    \/ ApplyKeepKind \/ StripKnownConstants \/ ConvertParameterStmts \/ ConvertDataStmts
    \/ InsertUseModule \/ MigrateEachLine \/ SpecializeUseModule \/ RestoreKeepKind
    \/ RewriteMpiHandles \/ InsertMpiModule \/ StripRoundupLwork \/ Finished

Spec == Init /\ [][Next]_vars

-----------------------------------------------------------------------------
(* Correctness.                                                            *)

\* The migration a reader of the source would ask for: working precision
\* becomes the target's, protected lines and the other kinds stay.
Wanted(l, protected) ==
    LET ty == IF protected /\ l.ty = "real8" THEN l.ty
              ELSE IF l.ty = "real8" /\ SourceKind # 4 THEN "treal"
              ELSE IF l.ty = "complex8" /\ SourceKind # 4 THEN "tcomplex"
              ELSE IF l.ty = "real4" /\ SourceKind # 8 THEN "treal"
              ELSE IF l.ty = "integer" /\ \E x \in ToSet(l.it) : x.v.lit = "complex" THEN "tcomplex"
              ELSE l.ty
    IN  [l EXCEPT !.ty = ty, !.rf = {TargetHandle(n) : n \in @ \ {"ROUNDUP_LWORK"}}]

WantedText == [i \in DOMAIN source |-> Wanted(source[i], i \in kept)]

\* "The multifloats migrator must NOT fold such names" (params.py:71-73):
\* convert_data_stmts folds a known name of a DATA statement without asking
\* whether it is declared COMPLEX anywhere in the file (345-347).
ComplexIsFolded ==
    \E l \in ToSet(source) : l.k = "data" /\ ItemNames(l) \cap Known \cap ComplexNames(source) # {}

\* ReferencesKeepTheirMeaning: in every preprocessor configuration each
\* executable statement of each procedure sees, under the names it now
\* uses, values of the promoted types that equal the ones the source gave
\* it: a folded constant is the module's and imported, a converted one has
\* been assigned in its own procedure under its own guard, a local that
\* shadows a generic is not imported, a protected variable is still double.
\* Files in which a name has a DATA value and is COMPLEX elsewhere are
\* excepted (ComplexIsFolded).
ReferencesKeepTheirMeaning ==
    stage = "done" /\ ~ComplexIsFolded =>
        \A c \in Config : Reading(Preprocess(text, c), {})
                          = Reading(Preprocess(WantedText, c), ModuleNames \cup MpiTokens)

\* SpecificationsComeFirst: in every configuration the USE statements of a
\* procedure or prototype precede its declarations and these its
\* executable statements; a prototype has none.
SpecificationsComeFirst == \A c \in Config : Ordered(Preprocess(text, c))

\* PrototypesSeeTheirTypes: a prototype inherits nothing from the procedure
\* around it; the target type of each of its arguments is imported in it.
PrototypesSeeTheirTypes ==
    stage = "done" =>
        \A h \in Prototypes(text) :
            LET ls == ToSet(PrototypeLines(text, h))
            IN  UNION {TypeName(l.ty) : l \in ls} \subseteq Imports(ls)

ProcedureText(t, s) ==
    LET h == CHOOSE h \in Procedures(t) : Scope(t, h) = s IN SubSeq(t, h, NextEnd(t, h))

Involved(l) ==
    \/ Wanted(l, FALSE) # l
    \/ Identifiers(l) \cap (PublicNames \cup Known \cup MpiTokens \cup {"ROUNDUP_LWORK"}) # {}
    \/ \E x \in ToSet(l.it) : IsFpValue(x.v)

\* OtherProceduresAreUntouched: a procedure of the file that has no number of
\* the working precision comes out as it went in, with no import ("dead
\* weight") and no assignment of its neighbours.
OtherProceduresAreUntouched ==
    stage = "done" =>
        \A s \in 1 .. Cardinality(Procedures(source)) :
            (\A l \in ToSet(ProcedureText(source, s)) : ~Involved(l))
              => ProcedureText(text, s) = ProcedureText(source, s)
=============================================================================
