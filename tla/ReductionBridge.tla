--------------------------- MODULE ReductionBridge --------------------------
(***************************************************************************)
(* The user-defined reduction operations of src/quad-mpi and               *)
(* src/multifloats-mpi: the elements, the six callbacks, and the handles a *)
(* process holds before and after the one-time registration.               *)
(*                                                                         *)
(* A component of an element is an integer or NaN, which is no integer;    *)
(* the real operations see elements whose imaginary part is 0.             *)
(***************************************************************************)
EXTENDS Integers, Sequences, FiniteSets, MpiCallRewrite

CONSTANT NaN

ASSUME NaNAssumption == NaN \notin Int

Plus(x, y)    == IF NaN \in {x, y} THEN NaN ELSE x + y
Greater(x, y) == NaN \notin {x, y} /\ x > y

(* fabsq and mf_abs.                                                       *)
Abs(x) == IF Greater(0, x) THEN -x ELSE x

(* xcabs1 and mf_cabs1; on a real element it is the magnitude.             *)
Cabs1(z) == Plus(Abs(z.re), Abs(z.im))

\* Mutant: the second operand is overwritten, not added to.
SumOverwrites(a, b) == a

SumFn(a, b) == [re |-> Plus(b.re, a.re), im |-> Plus(b.im, a.im)]
\* Mutant: the values are compared, not their magnitudes.
AmxSigned(a, b) == IF Greater(a.re, b.re) THEN a ELSE b

AmxFn(a, b) == IF Greater(Cabs1(a), Cabs1(b)) THEN a ELSE b
AmnFn(a, b) == IF Greater(Cabs1(b), Cabs1(a)) THEN a ELSE b

Combine(kind, a, b) ==
  IF kind = "SUM" THEN SumFn(a, b)
  ELSE IF kind = "AMX" THEN AmxFn(a, b)
  ELSE AmnFn(a, b)

(* The callback MPI calls: it walks both buffers and leaves the            *)
(* combination in the second one.                                          *)
Callback(kind, in, inout) ==
  [i \in DOMAIN inout |-> Combine(kind, in[i], inout[i])]

(* The alignment a callback needs of its buffers.  The quad callbacks copy *)
(* every element through an aligned local; the multifloats ones            *)
(* dereference structures of doubles in place.                             *)
\* Mutant: the quad callbacks dereference MPI's buffers as __float128.
NeedsOwnAlignment(f) == IF f = "kind16" THEN 16 ELSE 8

NeedsAlignment(f) == IF f = "kind16" THEN 1 ELSE 8

(* The operations a bridge registers: [data, kind] names the callback.     *)
KindOf == [MPI_SUM |-> "SUM", MPI_MAX |-> "AMX", MPI_MIN |-> "AMN"]

RegisteredOps(f) ==
  {[name |-> c_mpi_op_real[f][o], data |-> "real", kind |-> KindOf[o]] : o \in StockOps}
  \cup
  {[name |-> c_mpi_op_complex[f][o], data |-> "complex", kind |-> KindOf[o]] : o \in StockOps}

HasBridge(f) == f \in {"kind16", "multifloats"}

(* EP_MPI_OP_COMMUTE: only Intel MPI is told that the operations do not    *)
(* commute.                                                                *)
\* Mutant: the operations commute under every MPI.
CommuteAlways(lib) == TRUE

Commute(lib) == lib # "intel"
=============================================================================
