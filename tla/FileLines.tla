------------------------------ MODULE FileLines ------------------------------
(***************************************************************************)
(* A Fortran source file as the whole-file passes of the migrator see it:  *)
(* a sequence of statements, each reduced to its kind, the type it         *)
(* declares, the names it declares or gives a value to, the names it       *)
(* refers to and, for a preprocessor line, the configurations in which its *)
(* condition holds.  How a statement is laid out on lines is the subject   *)
(* of FortranLines.                                                        *)
(*                                                                         *)
(* The second half is what a preprocessor and a compiler make of such a    *)
(* file; it is the measure the passes of FortranFile are checked against.  *)
(***************************************************************************)
EXTENDS Naturals, Sequences, FiniteSets, SequencesExt

CONSTANTS
    Name,             \* the identifiers of a file
    Number,           \* the ways its constants are computed
    Config,           \* the preprocessor configurations a file is built in
    KnownConstants,   \* the names the target supplies, and as what
    SuppliedValue,    \* the value of each constant of the target's module
    ModuleNames,      \* the other public names of the module: types, generics
    MpiTokens         \* the handles the target's MPI module declares

Line(k) == [k |-> k, ty |-> "none", it |-> <<>>, rf |-> {}, cond |-> {}]
Value(lit, of, num) == [lit |-> lit, of |-> of, num |-> num]
Item(n, v) == [n |-> n, v |-> v]
Bare  == Value("none", {}, "none")
Array == Value("array", {}, "none")

\* A statement as the passes read it.  Statement functions are kept line by
\* line: "stmtfn" begins one of a single plain argument, "otherfn" any other,
\* "continued" goes on with either; a blank line is a comment.
Kinds == {"header", "end", "interface", "endinterface", "use", "useonly", "decl", "param", "data", "external", "marker",
          "comment", "stmtfn", "otherfn", "continued", "assign", "exec", "if", "elif", "else", "endif"}
FunctionKinds == {"stmtfn", "otherfn"}
Types == {"none", "integer", "real4", "real8", "complex8", "kept", "treal", "tcomplex", "module", "mpi", "omp"}
ItemType == [n : Name, v : [lit : {"none", "array", "int", "real", "complex"}, of : SUBSET Name, num : Number]]
LineType == [k : Kinds, ty : Types, it : Seq(ItemType), rf : SUBSET (Name \cup {"kept_dble"}), cond : SUBSET Config]

HasInitialiser(x) == x.v.lit \notin {"none", "array"}

Known == DOMAIN KnownConstants
Supplied == {KnownConstants[n] : n \in Known}
PublicNames == ModuleNames \cup Supplied

IsDirective(l) == l.k \in {"if", "elif", "else", "endif"}
IsComment(l)   == l.k \in {"comment", "marker"}
ItemsIn(s, S)  == FlattenSeq([i \in DOMAIN s |-> IF s[i] \in S THEN <<s[i]>> ELSE <<>>])
ItemNames(l)   == {x.n : x \in ToSet(l.it)}
TypeName(ty) == CASE ty = "treal" -> {"real64x2"}
                  [] ty = "tcomplex" -> {"cmplx64x2"}
                  [] OTHER -> {}
IsComplex(ty) == ty \in {"complex8", "tcomplex"}

-----------------------------------------------------------------------------
(* The scans the passes share.                                             *)

Lines(t, k) == {i \in DOMAIN t : t[i].k = k}

\* Interface blocks declare prototypes: what they hold is no procedure.
InInterface(t, i) ==
    Cardinality({j \in Lines(t, "interface") : j <= i})
      > Cardinality({j \in Lines(t, "endinterface") : j <= i})

Procedures(t) == {i \in Lines(t, "header") : ~InInterface(t, i)}

\* The scope of a line: how many procedure headers stand above it.
Scope(t, i) == Cardinality({h \in Procedures(t) : h <= i})

FirstOf(S) == CHOOSE i \in S : \A j \in S : i <= j

\* The next END that closes no prototype.
NextEnd(t, h) ==
    LET ends == {e \in Lines(t, "end") : e >= h /\ ~InInterface(t, e)}
    IN  IF ends = {} THEN Len(t) ELSE FirstOf(ends)

\* The END of a header, the headers and ENDs between them paired.
MatchingEnd(t, h) ==
    LET open(k) == Cardinality({i \in Lines(t, "header") : h <= i /\ i <= k})
                     - Cardinality({i \in Lines(t, "end") : h <= i /\ i <= k})
        ends == {e \in Lines(t, "end") : e > h /\ open(e) = 0}
    IN  IF ends = {} THEN Len(t) ELSE FirstOf(ends)

\* The names a declaration anywhere in the file makes COMPLEX.
DeclaresComplex(l) == l.k \in {"decl", "param"} /\ IsComplex(l.ty)
ComplexNames(t) == UNION {ItemNames(l) : l \in {l \in ToSet(t) : DeclaresComplex(l)}}

\* The names the lines of a procedure declare, an INTEGER PARAMETER included.
DeclaredNames(ls) ==
    UNION {ItemNames(l) : l \in {l \in ls : l.k = "decl" \/ (l.k = "param" /\ l.ty # "none")}}

\* The identifiers of a line that is no comment; the keyword REAL is also
\* the name of a generic of the module.
Identifiers(l) ==
    IF IsComment(l) \/ IsDirective(l) THEN {}
    ELSE l.rf \cup ItemNames(l) \cup (IF l.ty = "real4" THEN {"real"} ELSE TypeName(l.ty))
           \cup UNION {x.v.of : x \in ToSet(l.it)}

\* A numeric token with a point or an exponent, or a name known to be one.
IsFpValue(v) == v.lit \in {"real", "complex"} \/ v.of \cap Known # {}

-----------------------------------------------------------------------------
(* What the preprocessor leaves of a file in configuration c.              *)

Top(st) == st[Len(st)]
SetTop(st, f) == [st EXCEPT ![Len(st)] = f]
Directive(st, l, c) ==
    CASE l.k = "if"    -> Append(st, [on |-> c \in l.cond, done |-> c \in l.cond])
      [] l.k = "elif"  -> SetTop(st, [on |-> ~Top(st).done /\ c \in l.cond,
                                      done |-> Top(st).done \/ c \in l.cond])
      [] l.k = "else"  -> SetTop(st, [on |-> ~Top(st).done, done |-> TRUE])
      [] l.k = "endif" -> SubSeq(st, 1, Len(st) - 1)
      [] OTHER -> st

\* The blocks open at each line, and of each whether its branch is read and
\* whether one of its branches has been.
Branches(t, c) ==
    LET st[i \in 0 .. Len(t)] == IF i = 0 THEN <<>> ELSE Directive(st[i - 1], t[i], c) IN st

\* The lines a configuration compiles.
Active(t, c) ==
    LET st == Branches(t, c)
    IN  {i \in DOMAIN t : ~IsDirective(t[i]) /\ \A b \in DOMAIN st[i] : st[i][b].on}

Preprocess(t, c) ==
    LET on == Active(t, c) IN FlattenSeq([i \in DOMAIN t |-> IF i \in on THEN <<t[i]>> ELSE <<>>])

-----------------------------------------------------------------------------
(* What the compiler makes of it: each name of a procedure denotes a type, *)
(* a value and what the value was computed from.                           *)

\* The statements of a procedure, its interface blocks apart.
Statements(t, h) ==
    LET own(i) == ~InInterface(t, i) /\ t[i].k # "endinterface"
    IN  FlattenSeq([j \in 1 .. NextEnd(t, h) - h |->
                      IF own(h + j) THEN <<t[h + j]>> ELSE <<>>])

Imports(ls) ==
    UNION {IF l.k = "useonly" THEN l.rf ELSE IF l.ty = "mpi" THEN MpiTokens ELSE PublicNames
              : l \in {l \in ls : l.k \in {"use", "useonly"} /\ l.ty \in {"module", "mpi"}}}

\* A name at the head of a procedure.
AtEntry(imports) ==
    [n \in Name |-> IF n \in Supplied /\ n \in imports THEN <<"treal", SuppliedValue[n], {}>>
                    ELSE IF n \in imports THEN <<"module", n, {}>>
                    ELSE <<"undeclared", n, {}>>]

Declared(env, l, imports) ==
    [n \in Name |-> IF n \notin ItemNames(l) THEN env[n]
                    ELSE IF n \in imports \/ ~(TypeName(l.ty) \subseteq imports)
                    THEN <<"rejected", n, {}>>
                    ELSE <<l.ty, n, {}>>]

Given(env, l, imports) ==
    [n \in Name |-> IF n \notin ItemNames(l) THEN env[n]
                    ELSE LET x == CHOOSE x \in ToSet(l.it) : x.n = n
                         IN  IF ~HasInitialiser(x) THEN env[n]
                             ELSE IF ~(l.rf \subseteq imports) THEN <<"rejected", n, {}>>
                             ELSE <<env[n][1], x.v.num, {env[r] : r \in x.v.of}>>]

\* What the executable statements of a procedure see of the names they use.
Seen(ls, imports) ==
    LET step(a, l) ==
          CASE l.k = "decl" \/ (l.k = "param" /\ l.ty # "none")
                 -> [a EXCEPT !.env = Given(Declared(a.env, l, imports), l, imports)]
            [] l.k \in {"data", "assign"} \/ (l.k = "param" /\ l.ty = "none")
                 -> [a EXCEPT !.env = Given(a.env, l, imports)]
            [] l.k = "exec" -> [a EXCEPT !.out = Append(a.out, {a.env[n] : n \in l.rf})]
            [] OTHER -> a
    IN  FoldLeft(step, [env |-> AtEntry(imports), out |-> <<>>], ls).out

\* The procedures of a file in order, each with what its statements see.
\* "given" are names visible without a USE, unless declared otherwise.
Reading(t, given) ==
    LET seen(h) == LET ls == Statements(t, h)
                   IN  Seen(ls, (given \ DeclaredNames(ToSet(ls))) \cup Imports(ToSet(ls)))
    IN  [s \in 1 .. Cardinality(Procedures(t)) |->
           seen(CHOOSE h \in Procedures(t) : Scope(t, h) = s)]
-----------------------------------------------------------------------------
(* The order it demands of the statements of a procedure or prototype.     *)

Phase(l) == IF l.k \in {"use", "useonly"} THEN 1
            ELSE IF l.k \in {"exec", "assign"} THEN 3 ELSE 2

InOrder(ls) == \A i, j \in DOMAIN ls :
    i < j /\ ~IsComment(ls[i]) /\ ~IsComment(ls[j]) => Phase(ls[i]) <= Phase(ls[j])

PrototypeLines(t, h) == SubSeq(t, h + 1, MatchingEnd(t, h) - 1)
Prototypes(t) == {h \in Lines(t, "header") : InInterface(t, h)}

Ordered(t) ==
    /\ \A h \in Procedures(t) : InOrder(SubSeq(Statements(t, h), 1, Len(Statements(t, h)) - 1))
    /\ \A h \in Prototypes(t) : /\ InOrder(PrototypeLines(t, h))
                                /\ \A l \in ToSet(PrototypeLines(t, h)) : Phase(l) < 3
=============================================================================
