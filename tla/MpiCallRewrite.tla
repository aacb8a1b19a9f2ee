--------------------------- MODULE MpiCallRewrite ---------------------------
(***************************************************************************)
(* The MPI part of the Fortran migration (codegen/migrator/fortran/mpi.py):*)
(* the datatype tokens of a source file are renamed to those of the target *)
(* and, inside every complete call of a reduction that mentions one of     *)
(* them, the stock operation is renamed to the custom one.                 *)
(*                                                                         *)
(* A source file is a sequence of tokens (names and parentheses).  Both    *)
(* passes replace one token by one token, so they are functions on         *)
(* sequences that keep the length.                                         *)
(***************************************************************************)
EXTENDS Integers, Sequences, FiniteSets

(* The values the target files give to the c_mpi_ fields.  A target that   *)
(* says nothing of an operation keeps the stock one.                       *)
Families == {"kind10", "kind16", "multifloats"}

StockOps == {"MPI_SUM", "MPI_MAX", "MPI_MIN"}

c_mpi_real ==
  [kind10      |-> "MPI_LONG_DOUBLE",
   kind16      |-> "MPI_REAL16",
   multifloats |-> "MPI_FLOAT64X2"]

c_mpi_complex ==
  [kind10      |-> "MPI_C_LONG_DOUBLE_COMPLEX",
   kind16      |-> "MPI_COMPLEX32",
   multifloats |-> "MPI_COMPLEX64X2"]

c_mpi_op_real ==
  [kind10      |-> [o \in StockOps |-> o],
   kind16      |-> [MPI_SUM |-> "MPI_QQ_SUM", MPI_MAX |-> "MPI_QQ_AMX", MPI_MIN |-> "MPI_QQ_AMN"],
   multifloats |-> [MPI_SUM |-> "MPI_MM_SUM", MPI_MAX |-> "MPI_MM_AMX", MPI_MIN |-> "MPI_MM_AMN"]]

c_mpi_op_complex ==
  [kind10      |-> [o \in StockOps |-> o],
   kind16      |-> [MPI_SUM |-> "MPI_XX_SUM", MPI_MAX |-> "MPI_XX_AMX", MPI_MIN |-> "MPI_XX_AMN"],
   multifloats |-> [MPI_SUM |-> "MPI_WW_SUM", MPI_MAX |-> "MPI_WW_AMX", MPI_MIN |-> "MPI_WW_AMN"]]

SourceReals     == {"MPI_DOUBLE_PRECISION", "MPI_REAL"}
SourceComplexes == {"MPI_DOUBLE_COMPLEX", "MPI_COMPLEX"}

(* Whole-word renaming of the two precisions of each type to the target's. *)
RewriteDatatypes(f, src) ==
  [p \in DOMAIN src |->
     IF src[p] \in SourceComplexes THEN c_mpi_complex[f]
     ELSE IF src[p] \in SourceReals THEN c_mpi_real[f]
     ELSE src[p]]

ReduceHeads ==
  {"MPI_REDUCE", "MPI_ALLREDUCE", "MPI_IALLREDUCE", "MPI_REDUCE_SCATTER"}

(* How many parentheses opened in i..j of src are still open at j.         *)
Depth(src, i, j) ==
  Cardinality({k \in i .. j : src[k] = "("}) - Cardinality({k \in i .. j : src[k] = ")"})

\* Mutant: a pattern that follows the parentheses down to one nested level.
EndsShallow(src, i, j) ==
  /\ Depth(src, i + 1, j) = 0
  /\ \A k \in i + 1 .. j - 1 : Depth(src, i + 1, k) \in 1 .. 2

(* The call whose name is at i ends at j: the balanced scan from the       *)
(* opening parenthesis comes back to depth 0 at j, and not before.         *)
EndsAt(src, i, j) ==
  /\ Depth(src, i + 1, j) = 0
  /\ \A k \in i + 1 .. j - 1 : Depth(src, i + 1, k) > 0

Complete(src) ==
  {c \in (DOMAIN src) \X (DOMAIN src) :
     /\ src[c[1]] \in ReduceHeads
     /\ c[1] + 1 < c[2]
     /\ src[c[1] + 1] = "("
     /\ EndsAt(src, c[1], c[2])}

(* A name inside a call that has been rewritten is not looked at again.    *)
ReduceCalls(src) ==
  {c \in Complete(src) :
     \A d \in Complete(src) : ~ (d[1] < c[1] /\ c[1] <= d[2])}

TokensOf(src, c) == {src[p] : p \in c[1] .. c[2]}

(* The custom operation for the stock operation o in a call with the given *)
(* tokens: a complex datatype in the call wins over a real one, an         *)
(* operation the target leaves stock stays, and so does every call that    *)
(* mentions neither datatype of the target.                                *)
RewriteOp(f, tokens, o) ==
  LET complex == c_mpi_complex[f] \in tokens
      real    == c_mpi_real[f] \in tokens
  IN  IF complex /\ c_mpi_op_complex[f][o] # o THEN c_mpi_op_complex[f][o]
      ELSE IF real /\ c_mpi_op_real[f][o] # o THEN c_mpi_op_real[f][o]
      ELSE o

RewriteReduceOps(f, src) ==
  [p \in DOMAIN src |->
     IF src[p] \in StockOps
       THEN LET around == {c \in ReduceCalls(src) : p \in c[1] .. c[2]}
            IN  IF around = {} THEN src[p]
                ELSE RewriteOp(f, TokensOf(src, CHOOSE c \in around : TRUE), src[p])
       ELSE src[p]]

(* The two passes in the order of _apply_local_passes.                     *)
MigrateMpi(f, src) == RewriteReduceOps(f, RewriteDatatypes(f, src))

(* What the compiled call passes to the library.                           *)
Datatypes(f) == {c_mpi_real[f], c_mpi_complex[f], "MPI_INTEGER"}
OpNames(f) ==
  StockOps \cup {c_mpi_op_real[f][o] : o \in StockOps}
           \cup {c_mpi_op_complex[f][o] : o \in StockOps}

CallOf(f, src, c) ==
  [dt |-> CHOOSE t \in TokensOf(src, c) : t \in Datatypes(f),
   op |-> CHOOSE t \in TokensOf(src, c) : t \in OpNames(f)]
=============================================================================
