---------------------------- MODULE SequentialMpi ---------------------------
(***************************************************************************)
(* The single-process MPI a sequential build links: the C stubs of         *)
(* src/mpiseq and libseq's mpi.f with the cases that libseq_patch.py adds. *)
(*                                                                         *)
(* A derived datatype is the integer tag 0x10000000 or-ed with its size in *)
(* bytes; a predefined one is its name.  Both are records here, with the   *)
(* name "derived" for the former.                                          *)
(***************************************************************************)
EXTENDS Integers, Sequences, FiniteSets, Functions

MPISEQ_DTYPE_TAG == 268435456          \* 0x10000000
SizeField        == 16777216           \* one more than 0x00FFFFFF

Named(t)   == [name |-> t, handle |-> 0]
Derived(h) == [name |-> "derived", handle |-> h]

(* MPISEQ_DTYPE_TAG | bytes.                                               *)
MPISEQ_DTYPE_SENTINEL(bytes) ==
  IF (bytes \div MPISEQ_DTYPE_TAG) % 2 = 1 THEN bytes ELSE bytes + MPISEQ_DTYPE_TAG

PredefinedBytes ==
  [MPI_BYTE |-> 1, MPI_CHAR |-> 1, MPI_SHORT |-> 2, MPI_INT |-> 4, MPI_INTEGER |-> 4,
   MPI_LONG |-> 8, MPI_LONG_LONG_INT |-> 8, MPI_INTEGER8 |-> 8, MPI_FLOAT |-> 4,
   MPI_REAL |-> 4, MPI_DOUBLE |-> 8, MPI_DOUBLE_PRECISION |-> 8, MPI_REAL8 |-> 8,
   MPI_LONG_DOUBLE |-> 16, MPI_REAL16 |-> 16, MPI_COMPLEX |-> 8,
   MPI_DOUBLE_COMPLEX |-> 16, MPI_COMPLEX32 |-> 32, MPI_C_LONG_DOUBLE_COMPLEX |-> 32]

(* mpiseq_base_type_bytes: 0 for a handle it does not know.                *)
BaseTypeBytes(t) ==
  IF t.name \in DOMAIN PredefinedBytes THEN PredefinedBytes[t.name]
  ELSE IF t.name = "derived" /\ t.handle \div SizeField = MPISEQ_DTYPE_TAG \div SizeField
    THEN t.handle % SizeField
  ELSE 0

TypeContiguous(count, old) == Derived(MPISEQ_DTYPE_SENTINEL(count * BaseTypeBytes(old)))

\* Mutant: the length of a block is left out.
VectorOfOnes(count, block, old) ==
  Derived(MPISEQ_DTYPE_SENTINEL(count * BaseTypeBytes(old)))

TypeVector(count, block, old) ==
  Derived(MPISEQ_DTYPE_SENTINEL(count * block * BaseTypeBytes(old)))

TypeIndexed(blocks, old) ==
  Derived(MPISEQ_DTYPE_SENTINEL(FoldFunction(+, 0, blocks) * BaseTypeBytes(old)))

TypeCreateStruct(blocks, types) ==
  Derived(MPISEQ_DTYPE_SENTINEL(
    FoldFunction(+, 0, [i \in DOMAIN blocks |-> blocks[i] * BaseTypeBytes(types[i])])))

(* MPI_Type_match_size for the sizes it knows; any other aborts.           *)
Matches ==
  {[class |-> "integer", size |-> 4,  type |-> "MPI_INT"],
   [class |-> "integer", size |-> 8,  type |-> "MPI_LONG_LONG_INT"],
   [class |-> "integer", size |-> 2,  type |-> "MPI_SHORT"],
   [class |-> "real",    size |-> 4,  type |-> "MPI_FLOAT"],
   [class |-> "real",    size |-> 8,  type |-> "MPI_DOUBLE"],
   [class |-> "real",    size |-> 16, type |-> "MPI_LONG_DOUBLE"],
   [class |-> "complex", size |-> 8,  type |-> "MPI_COMPLEX"],
   [class |-> "complex", size |-> 16, type |-> "MPI_DOUBLE_COMPLEX"],
   [class |-> "complex", size |-> 32, type |-> "MPI_C_LONG_DOUBLE_COMPLEX"]}

(***************************************************************************)
(* libseq's mpi.f: the datatypes MUMPS_COPY dispatches on, the helpers the *)
(* file defines (how many times), and whether the fallthrough the patch    *)
(* looks for is there.                                                     *)
(***************************************************************************)
UpstreamCases ==
  {"MPI_INTEGER", "MPI_LOGICAL", "MPI_REAL", "MPI_DOUBLE_PRECISION", "MPI_REAL8",
   "MPI_COMPLEX", "MPI_DOUBLE_COMPLEX", "MPI_2DOUBLE_PRECISION", "MPI_2INTEGER",
   "MPI_INTEGER8"}

PatchCases ==
  {"MPI_REAL16", "MPI_COMPLEX32", "MPI_LONG_DOUBLE", "MPI_C_LONG_DOUBLE_COMPLEX",
   "268435472", "268435488"}

PchkStubs == {"pchk1mat", "globchk"}

Upstream ==
  [cases   |-> UpstreamCases,
   defined |-> [n \in UpstreamCases \cup PatchCases \cup PchkStubs |->
                  IF n \in UpstreamCases THEN 1 ELSE 0],
   anchor  |-> TRUE]

AddDefinitions(file, names) ==
  [file EXCEPT !.defined = [n \in DOMAIN @ |-> IF n \in names THEN @[n] + 1 ELSE @[n]]]

(* patch_libseq_mpi_f: the cases go in before the fallthrough unless the   *)
(* file already mentions one, the helpers and the descriptor stubs are     *)
(* appended unless the file already defines one.                           *)
PatchDispatch(file) ==
  IF "MPI_REAL16" \notin file.cases /\ file.anchor
    THEN [file EXCEPT !.cases = @ \cup PatchCases] ELSE file
PatchHelpers(file) ==
  IF file.defined["MPI_REAL16"] = 0 THEN AddDefinitions(file, PatchCases) ELSE file
PatchPchk(file) ==
  IF file.defined["pchk1mat"] = 0 THEN AddDefinitions(file, PchkStubs) ELSE file
PatchLibseq(file) == PatchPchk(PatchHelpers(PatchDispatch(file)))

(* The case MUMPS_COPY takes for a datatype, or "none".                    *)
CaseOf(file, t) ==
  LET name == IF t.name # "derived" THEN t.name
              ELSE IF t.handle = 268435472 THEN "268435472"
              ELSE IF t.handle = 268435488 THEN "268435488" ELSE "none"
  IN  IF name \in file.cases THEN name ELSE "none"

(* The bytes one element of the copy moves in each helper.                 *)
CopiedBytes ==
  [case \in UpstreamCases \cup PatchCases |->
     IF case \in {"MPI_INTEGER", "MPI_LOGICAL", "MPI_REAL"} THEN 4
     ELSE IF case \in {"MPI_DOUBLE_PRECISION", "MPI_REAL8", "MPI_COMPLEX", "MPI_2INTEGER",
                       "MPI_INTEGER8"} THEN 8
     ELSE IF case \in {"MPI_COMPLEX32", "MPI_C_LONG_DOUBLE_COMPLEX", "268435488"} THEN 4 * 8
     ELSE 2 * 8]

SeqReduce(file, t, inPlace, send, recv) ==
  IF inPlace THEN [outcome |-> "done", recv |-> recv]
  ELSE IF CaseOf(file, t) = "none" THEN [outcome |-> "stop", recv |-> recv]
  ELSE [outcome |-> "done", recv |-> send]
=============================================================================
