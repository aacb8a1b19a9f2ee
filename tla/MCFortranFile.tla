---------------------------- MODULE MCFortranFile ----------------------------
(* Files of two procedures in the shapes the LAPACK and MUMPS sources have. *)
EXTENDS FortranFile

CONSTANT GuardedStart    \* may a procedure's first statement be under an #if?

MCName == {"ONE", "ZERO", "EPS", "X", "N", "T", "S", "A", "DD_ONE", "DD_ZERO", "sum", "dble", "int",
           "real", "real64x2", "cmplx64x2", "MPI_DOUBLE_PRECISION", "MPI_FLOAT64X2", "ROUNDUP_LWORK"}
MCNumber == {"none", "1.", "0.", ".1", ".2", ".3", "7", "(1.,0.)", "half", "run"}
MCConfig == {"m", "n", "o"}
MCKnownConstants == [ONE |-> "DD_ONE", ZERO |-> "DD_ZERO"]
MCSuppliedValue == [DD_ONE |-> "1.", DD_ZERO |-> "0."]
MCModuleNames == {"real64x2", "cmplx64x2", "sum", "dble", "int", "real"}
MCMpiTokens == {"MPI_FLOAT64X2"}

R(num) == Value("real", {}, num)
BareList(ns) == [i \in DOMAIN ns |-> Item(ns[i], Bare)]
Decl(ty, ns) == [Line("decl") EXCEPT !.ty = ty, !.it = BareList(ns)]
Param(its) == [Line("param") EXCEPT !.it = its]
Combined(ty, its) == [Param(its) EXCEPT !.ty = ty]
Exec(ns) == [Line("exec") EXCEPT !.rf = ns]
If(c) == [Line("if") EXCEPT !.cond = c]
Elif(c) == [Line("elif") EXCEPT !.cond = c]

One == Item("ONE", R("1."))
Eps(v) == Item("EPS", v)
N7 == Item("N", Value("int", {}, "7"))

\* How a procedure declares its constants.
Constants(c) ==
    CASE c = "none" -> <<Decl("integer", <<"N">>)>>
      [] c = "folded" -> <<Decl("real8", <<"ONE", "X">>), Param(<<One>>)>>
      [] c = "mixed" -> <<Decl("real8", <<"ONE", "EPS">>), Decl("integer", <<"N">>),
                          Param(<<One, Eps(R(".1")), N7>>)>>
      [] c = "derived" -> <<Decl("real8", <<"EPS", "ONE", "ZERO">>), Param(<<One, Item("ZERO", R("0."))>>),
                            Param(<<Eps(Value("none", {"ONE"}, "half"))>>)>>
      [] c = "combined" -> <<Combined("real8", <<One, Eps(R(".1"))>>), Combined("integer", <<N7>>)>>
      [] c = "complex" -> <<Decl("complex8", <<"ONE">>), Param(<<One>>)>>
      [] c = "cmplxone" -> <<Combined("complex8", <<One>>)>>
      [] c = "protected" -> <<Combined("real8", <<Item("T", R(".1"))>>), Decl("real8", <<"ONE">>), Param(<<One>>)>>
      [] c = "integer" -> <<Combined("integer", <<Item("ONE", Value("complex", {}, "(1.,0.)"))>>)>>
      [] c = "data" -> <<Decl("real8", <<"ONE", "EPS">>), [Param(<<One, Eps(R(".1"))>>) EXCEPT !.k = "data"]>>
      [] c = "branches" -> <<Decl("real8", <<"EPS">>), If({"m"}), Param(<<Eps(R(".1"))>>), Elif({"m", "n"}),
                             Param(<<Eps(R(".2"))>>), Line("else"), Param(<<Eps(R(".3"))>>), Line("endif")>>
      [] c = "nested" -> <<Decl("real8", <<"EPS">>), If({"m", "n"}), If({"m"}), Param(<<Eps(R(".1"))>>), Line("else"),
                           Param(<<Eps(R(".2"))>>), Line("endif"), Line("endif")>>

\* What else stands in the declarations, before and behind the constants.
Before(s) ==
    CASE s = "omp" -> <<Line("comment"), If({"m"}), [Line("use") EXCEPT !.ty = "omp"], Line("endif")>>
      [] OTHER -> <<>>
Prototype == <<Line("interface"), Line("header"), Decl("real8", <<"A">>), Line("end"),
               Line("header"), Decl("integer", <<"A">>), Line("end"), Line("endinterface")>>
Comments(n) == [i \in 1 .. n |-> Line("comment")]
Behind(s) ==
    CASE s = "prototype" -> Prototype
      [] s = "branch" -> <<If({"m"})>> \o Prototype \o <<Line("endif")>>
      [] s = "kept" -> <<Decl("real8", <<"T">>), Decl("real8", <<"X">>)>>
      [] s = "local" -> <<Decl("real8", <<"sum">>), Decl("real4", <<"S">>)>>
      [] s = "function" -> <<Line("marker"), Line("stmtfn"), Line("comment"), Line("stmtfn")>>
      [] s = "far" -> <<Line("marker"), Line("stmtfn")>> \o Comments(MarkerWindow - 2) \o <<Line("stmtfn"), Line("continued")>>
      [] s = "farther" -> <<Line("marker")>> \o Comments(MarkerWindow) \o <<Line("stmtfn")>>
      [] s = "below" -> <<Line("marker"), Decl("real8", <<"S">>), Line("stmtfn")>>
      [] s = "other" -> <<Line("marker"), Line("otherfn"), Line("continued")>>
      [] s = "next" -> <<Line("marker"), Line("stmtfn"), Line("continued"), Line("stmtfn")>>
      [] OTHER -> <<>>

Statement(b, ns) ==
    CASE b = "assigned" -> <<Exec(ns), [Line("assign") EXCEPT !.it = <<Item("X", Value("none", {"ONE"}, "run"))>>],
                             Line("comment"), Exec({"X"})>>
      [] b = "generic" -> <<Exec(ns \cup {"sum"}), Exec({"int", "X"})>>
      [] b = "mpi" -> <<Exec(ns), Exec({"MPI_DOUBLE_PRECISION", "ROUNDUP_LWORK", "X"})>>
      [] b = "guarded" -> <<If({"m"}), Exec({"X"}), Line("endif"), Exec(ns)>>
      [] OTHER -> <<Exec(ns)>>

NamesUsed(c, s) ==
    (DeclaredNames(ToSet(Constants(c) \o Behind(s))) \ {"A"})
    \cup (IF s = "kept" THEN {"dble"} ELSE {})

Procedure(c, s, b) ==
    <<Line("header")>> \o Before(s) \o (IF b = "mpi" THEN <<[Line("external") EXCEPT !.it = BareList(<<"ROUNDUP_LWORK">>)]>> ELSE <<>>)
      \o Constants(c) \o Behind(s) \o Statement(b, NamesUsed(c, s)) \o <<Line("end")>>

ComplexWays == {"complex", "cmplxone"}
\* One name has one meaning in a file, but for a COMPLEX one beside a REAL.
Compatible(c1, c2) ==
    "integer" \in {c1, c2} => {c1, c2} \subseteq {"integer", "none", "branches"}
UsesOne(c) == c \notin {"none", "branches", "nested"}

Starts == IF GuardedStart THEN {"guarded"} ELSE {"plain", "assigned", "generic", "mpi"}
Ways == {"none", "folded", "mixed", "derived", "combined", "complex", "cmplxone", "protected", "integer", "data", "branches", "nested"}
\* Behind these stands a statement function the walk would stop at.
Unseen == {"below", "farther", "other", "next"}
Specs == {"plain", "prototype", "branch", "kept", "local", "function", "far", "omp"} \cup Unseen

Kept(t) == {i \in DOMAIN t : "T" \in ItemNames(t[i]) \/ "T" \in t[i].rf}
\* A procedure may be compiled in one configuration only.
Optional(p) == <<If({"m"})>> \o p \o <<Line("endif")>>
File(p, q) == [text |-> p \o q, kept |-> Kept(p \o q)]
MCSources ==
    {File(IF x[6] THEN Optional(Procedure(x[1], x[2], x[3])) ELSE Procedure(x[1], x[2], x[3]),
          Procedure(x[4], x[5], "plain")) :
       x \in {x \in Ways \X Specs \X Starts \X Ways \X {"plain", "prototype"} \X BOOLEAN :
                 /\ Compatible(x[1], x[4])
                 /\ x[3] = "assigned" => UsesOne(x[1])
                 /\ x[2] = "prototype" \/ x[5] = "plain"
                 /\ x[2] \in Unseen => x[1] \in {"none", "folded"} /\ x[4] \notin ComplexWays
                 /\ x[1] = "protected" => x[2] # "kept"
                 /\ x[6] => x[2] \in {"plain", "prototype"} /\ x[3] = "plain"}}
=============================================================================
