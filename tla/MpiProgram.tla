------------------------------ MODULE MpiProgram ----------------------------
(***************************************************************************)
(* A migrated program that reduces extended data.  Its calls are those of  *)
(* a source file after the MPI part of the migration (MpiCallRewrite); it  *)
(* is linked with Intel MPI, with another MPI, or, on one process, with    *)
(* the sequential library (SequentialMpi); every process registers the     *)
(* custom operations of the bridge (ReductionBridge) when BLACS starts or  *)
(* when the program asks for it.                                           *)
(*                                                                         *)
(* The real MPI is external.  It may combine the contributions in any      *)
(* order when the operation was declared commutative, and by any           *)
(* bracketing of the rank order otherwise; it may hand the callback        *)
(* buffers of any alignment in Alignments; it rejects a null operation and *)
(* a datatype it did not make; it has no kernel for a quad reduction with  *)
(* a stock operation.                                                      *)
(***************************************************************************)
EXTENDS ReductionBridge, SequentialMpi, SequencesExt

CONSTANTS N,              \* processes of a parallel run
          Sources,        \* source files: sequences of tokens
          Buffers,        \* Buffers[d]: what a process may contribute to a call on d
          Alignments,     \* of the buffers MPI hands to a callback
          Leaves, Counts, \* from which the C side derives datatypes
          MaxTypes,       \* how many derived datatypes a run builds
          MaxBytes        \* and how large they get

ASSUME NAssumption == N \in Nat \ {0}

HasNaN(z) == NaN \in {z.re, z.im}

(* Buffers of elements, of one length for a kind of data.                  *)
ASSUME BuffersAssumption ==
  \A d \in {"real", "complex", "integer"} : \A b, c \in Buffers[d] :
    /\ DOMAIN b = DOMAIN c
    /\ \A i \in DOMAIN b : {b[i].re, b[i].im} \ {NaN} \subseteq Int

(* Every MPI aligns what it hands to a callback to 8 bytes, and none to    *)
(* more for certain.                                                       *)
ASSUME AlignmentsAssumption == \A al \in Alignments : al \in Nat /\ al % 8 = 0

ASSUME TypesAssumption ==
  Leaves \subseteq DOMAIN PredefinedBytes /\ Counts \subseteq Nat /\ MaxBytes \in Nat

VARIABLES fam, lib, program,  \* the target, the library, the calls to make
          up, registered,     \* the processes after MPI_Init, and after the bridge's init
          pc,                 \* the place of the call the program is at, and 0 after the last
          contrib,            \* what the processes that entered it contributed
          parts,              \* the partial results once all have entered
          outcome, result,    \* how it ended and what it left
          types               \* the datatypes a sequential program has derived

vars == <<fam, lib, program, up, registered, pc, contrib, parts, outcome, result,
          types>>

Ranks == IF lib = "seq" THEN {1} ELSE 1 .. N

(* The reductions the compiler sees in a file: a name, and its arguments up *)
(* to the first parenthesis that balances the one they begin with.         *)
Balanced(src, i, j) ==
  Cardinality({k \in i .. j : src[k] = "("}) = Cardinality({k \in i .. j : src[k] = ")"})

Compiled(src) ==
  {c \in (DOMAIN src) \X (DOMAIN src) :
     /\ src[c[1]] \in ReduceHeads
     /\ c[1] + 1 < c[2]
     /\ src[c[1] + 1] = "("
     /\ Balanced(src, c[1] + 1, c[2])
     /\ \A k \in c[1] + 1 .. c[2] - 1 : ~ Balanced(src, c[1] + 1, k)}

SourceDatatypes == SourceReals \cup SourceComplexes \cup {"MPI_INTEGER"}

(* A reduction names one datatype and one stock operation and no other     *)
(* reduction, and no file has a name of a target in it yet.                *)
ASSUME SourcesAssumption ==
  \A src \in Sources :
    /\ src \in Seq(STRING)
    /\ \A f \in Families, i \in DOMAIN src :
         src[i] \notin {c_mpi_real[f], c_mpi_complex[f]} \cup (OpNames(f) \ StockOps)
    /\ \A c \in Compiled(src) :
         /\ \E t \in SourceDatatypes : TokensOf(src, c) \cap SourceDatatypes = {t}
         /\ \E o \in StockOps : TokensOf(src, c) \cap StockOps = {o}
         /\ \A i \in c[1] + 1 .. c[2] : src[i] \notin ReduceHeads

(* What a call was in the source.                                          *)
WasCall(src, c) ==
  [dt |-> CHOOSE t \in TokensOf(src, c) : t \in SourceDatatypes,
   op |-> CHOOSE t \in TokensOf(src, c) : t \in StockOps]

(* The calls of a source file at the places of their names: what each one  *)
(* was in the source, and what it is in the migrated file.                 *)
Program(f, src) ==
  [k \in {c[1] : c \in Compiled(src)} |->
     LET c == CHOOSE d \in Compiled(src) : d[1] = k
     IN  [was |-> WasCall(src, c), now |-> CallOf(f, MigrateMpi(f, src), c)]]

(* The first of the calls after the place k, and 0 when there is none.     *)
Following(calls, k) ==
  LET later == {j \in DOMAIN calls : j > k}
  IN  IF later = {} THEN 0 ELSE Min(later)

Data(was) == IF was.dt \in SourceComplexes THEN "complex"
             ELSE IF was.dt \in SourceReals THEN "real" ELSE "integer"

Call == program[pc].now

(* The staged mpi.f the sequential library is built from.                  *)
libseq == PatchLibseq(Upstream)

Init ==
  /\ fam \in Families
  /\ lib \in {"intel", "other", "seq"}
  /\ program \in {Program(fam, s) : s \in Sources}
  /\ up = {} /\ registered = {}
  /\ pc = Following(program, 0)
  /\ contrib = <<>> /\ parts = {} /\ outcome = "none" /\ result = <<>>
  /\ types = <<>>

(* An MPI error, a fault or a STOP ends the program.                       *)
Running == outcome \in {"none", "done"}

(* MPI_Init by the program itself.                                         *)
MpiInit(r) ==
  /\ Running /\ r \notin up
  /\ up' = up \cup {r}
  /\ UNCHANGED <<fam, lib, program, registered, pc, contrib, parts, outcome, result,
                 types>>

(* blacs_pinfo: MPI_Init unless it is up (the sequential library says it   *)
(* always is), then the bridge's init, which registers only the first time.*)
BlacsPinfo(r) ==
  /\ Running
  /\ up' = IF lib = "seq" THEN up ELSE up \cup {r}
  /\ registered' = IF HasBridge(fam) THEN registered \cup {r} ELSE registered
  /\ UNCHANGED <<fam, lib, program, pc, contrib, parts, outcome, result, types>>

(* CALL quad_mpi_init or multifloats_mpi_init in a program that has called *)
(* MPI_Init.                                                               *)
BridgeInit(r) ==
  /\ Running
  /\ HasBridge(fam)
  /\ r \in up
  /\ registered' = registered \cup {r}
  /\ UNCHANGED <<fam, lib, program, up, pc, contrib, parts, outcome, result, types>>

(* What the real library makes of a call: the operation and the datatype   *)
(* are looked up through the handles the process holds at the call.        *)
CustomOps == IF HasBridge(fam) THEN RegisteredOps(fam) ELSE {}
IsCustomOp(o) == \E c \in CustomOps : c.name = o
Accepts(r) ==
  IF IsCustomOp(Call.op) \/ Call.dt \in {"MPI_FLOAT64X2", "MPI_COMPLEX64X2"}
    THEN IF r \notin registered THEN "error"
         ELSE IF ~ IsCustomOp(Call.op) THEN "error"
         ELSE IF Call.dt = "MPI_INTEGER" THEN "garbage" ELSE "none"
  ELSE IF Call.dt \in {"MPI_REAL16", "MPI_COMPLEX32"} THEN "fault"
  ELSE "none"

(* A process enters the reduction of a parallel run.                       *)
Enter(r) ==
  /\ lib # "seq" /\ r \in up /\ outcome = "none"
  /\ pc \in DOMAIN program /\ r \notin DOMAIN contrib
  /\ \E b \in Buffers[Data(program[pc].was)] :
       contrib' = [q \in DOMAIN contrib \cup {r} |-> IF q = r THEN b ELSE contrib[q]]
  /\ outcome' = Accepts(r)
  /\ parts' = IF DOMAIN contrib' = Ranks
                THEN {[ranks |-> {q}, val |-> contrib'[q]] : q \in Ranks} ELSE parts
  /\ UNCHANGED <<fam, lib, program, up, registered, pc, result, types>>

(* What the library's own kernel does for a stock operation (external).    *)
StockCombine(o, a, b) ==
  IF o = "MPI_SUM" THEN SumFn(a, b)
  ELSE IF o = "MPI_MAX" THEN IF Greater(a.re, b.re) THEN a ELSE b
  ELSE IF Greater(b.re, a.re) THEN a ELSE b

Apply(a, b) ==
  IF IsCustomOp(Call.op)
    THEN Callback((CHOOSE c \in CustomOps : c.name = Call.op).kind, a, b)
    ELSE [i \in DOMAIN b |-> StockCombine(Call.op, a[i], b[i])]

(* The library combines two partial results in buffers of some alignment.  *)
CombineParts(p, q) ==
  /\ outcome = "none" /\ p # q
  /\ \/ ~ IsCustomOp(Call.op) \/ Commute(lib)
     \/ \A i \in p.ranks, j \in q.ranks, k \in 1 .. N :
          i < j /\ (i < k /\ k < j => k \in p.ranks \cup q.ranks)
  /\ \E al \in Alignments :
       LET fault == IsCustomOp(Call.op) /\ al % NeedsAlignment(fam) # 0
           rest  == parts \ {p, q}
           both  == [ranks |-> p.ranks \cup q.ranks, val |-> Apply(p.val, q.val)]
       IN  /\ parts' = rest \cup {both}
           /\ outcome' = IF fault THEN "fault" ELSE IF rest = {} THEN "done" ELSE "none"
           /\ result' = IF rest = {} /\ ~ fault THEN both.val ELSE result
  /\ UNCHANGED <<fam, lib, program, up, registered, pc, contrib, types>>

(* The datatype handle a sequential program holds: the custom datatypes    *)
(* have the library's own encoding before the init, and what               *)
(* MPI_Type_contiguous answered after it.                                  *)
SeqHandle(dt) ==
  IF dt = "MPI_FLOAT64X2"
    THEN IF registered = {} THEN Derived(MPISEQ_DTYPE_SENTINEL(16))
         ELSE TypeContiguous(2, Named("MPI_DOUBLE"))
  ELSE IF dt = "MPI_COMPLEX64X2"
    THEN IF registered = {} THEN Derived(MPISEQ_DTYPE_SENTINEL(32))
         ELSE TypeContiguous(4, Named("MPI_DOUBLE"))
  ELSE Named(dt)

(* The reduction of a sequential program, with or without any init.        *)
SeqCall(inPlace) ==
  /\ lib = "seq" /\ outcome = "none" /\ pc \in DOMAIN program
  /\ \E b, r \in Buffers[Data(program[pc].was)] :
       LET done == SeqReduce(libseq, SeqHandle(Call.dt), inPlace, b, r)
       IN  /\ (inPlace => b = r)
           /\ contrib' = <<b>>
           /\ outcome' = done.outcome
           /\ result' = done.recv
  /\ UNCHANGED <<fam, lib, program, up, registered, pc, parts, types>>

(* The program goes on to its next call.                                   *)
NextCall ==
  /\ outcome = "done"
  /\ pc' = Following(program, pc)
  /\ contrib' = <<>> /\ parts' = {} /\ outcome' = "none" /\ result' = <<>>
  /\ UNCHANGED <<fam, lib, program, up, registered, types>>

(* The C side of a sequential program derives a datatype from a predefined *)
(* one, a matched one or the one it derived last.  `bytes' is what an      *)
(* element of it really holds.  It comes last here: no call of the program *)
(* depends on it.                                                          *)
Predefined == {[t |-> Named(n), bytes |-> PredefinedBytes[n]] : n \in Leaves}
              \cup {[t |-> Named(m.type), bytes |-> m.size] : m \in Matches}

Bases == Predefined \cup (IF types = <<>> THEN {} ELSE {Last(types)})

AddType(t, bytes) ==
  /\ lib = "seq" /\ pc = 0
  /\ Len(types) < MaxTypes
  /\ types' = Append(types, [t |-> t, bytes |-> bytes])
  /\ UNCHANGED <<fam, lib, program, up, registered, pc, contrib, parts, outcome, result>>

Fits(c, b) == c < (MaxBytes \div b.bytes) \div 4

DeriveContiguous == \E b \in Bases, c \in Counts :
  Fits(c, b) /\ AddType(TypeContiguous(c, b.t), c * b.bytes)
DeriveVector     == \E b \in Bases, c \in Counts :
  Fits(c, b) /\ AddType(TypeVector(c, 2, b.t), c * 2 * b.bytes)
DeriveIndexed    == \E b \in Bases, c \in Counts :
  Fits(c, b) /\ AddType(TypeIndexed(<<c, 1>>, b.t), (c + 1) * b.bytes)
DeriveStruct     == \E a \in Bases, b \in Predefined, c \in Counts :
  Fits(c, a) /\ AddType(TypeCreateStruct(<<c, 1>>, <<a.t, b.t>>), c * a.bytes + b.bytes)

Next ==
  \/ \E r \in Ranks : MpiInit(r) \/ BlacsPinfo(r) \/ BridgeInit(r) \/ Enter(r)
  \/ \E p, q \in parts : CombineParts(p, q)
  \/ \E inPlace \in BOOLEAN : SeqCall(inPlace)
  \/ NextCall
  \/ DeriveContiguous \/ DeriveVector \/ DeriveIndexed \/ DeriveStruct

Spec == Init /\ [][Next]_vars

-----------------------------------------------------------------------------
(* A call on extended data carries the custom operation that was made for  *)
(* its datatype and for what the source asked, and a call on integers, in  *)
(* the same file, keeps its stock operation: however deep the arguments    *)
(* nest, and whichever calls stand next to it.                             *)
OperationsFitDatatypes ==
  \A k \in DOMAIN program :
    LET c == program[k]
    IN  /\ c.was.op \in StockOps
        /\ IF Data(c.was) = "integer" \/ ~ HasBridge(fam)
             THEN c.now.op = c.was.op
             ELSE \E o \in RegisteredOps(fam) :
                    /\ o.name = c.now.op
                    /\ o.data = Data(c.was) /\ o.kind = KindOf[c.was.op]

(* A reduction ends badly only in a parallel program that reached it in a  *)
(* process where no init of the bridge had run.  No callback faults on the *)
(* alignment of its buffers, no datatype of a target stops the sequential  *)
(* library, and no operation meets data it was not made for.               *)
OnlyEarlyCallsFail ==
  /\ outcome \in {"none", "done", "error"}
  /\ outcome = "error" => lib # "seq" /\ \E r \in DOMAIN contrib : r \notin registered

(* The maximum in magnitude is one of the contributions and none is        *)
(* larger (smaller for the minimum), in whatever order the library         *)
(* combined them; of non-negative numbers it is the maximum itself.        *)
ExtremesAreExtreme ==
  outcome = "done" /\ lib # "seq" /\ IsCustomOp(Call.op) /\ program[pc].was.op # "MPI_SUM" =>
    \A i \in DOMAIN result :
      LET given == {contrib[r][i] : r \in Ranks}
      IN  (\A z \in given : ~ HasNaN(z)) =>
            /\ result[i] \in given
            /\ \A z \in given : IF program[pc].was.op = "MPI_MAX"
                                  THEN Cabs1(z) <= Cabs1(result[i])
                                  ELSE Cabs1(z) >= Cabs1(result[i])

(* The sum counts every contribution once, and a NaN makes it NaN.         *)
SumsAreSums ==
  outcome = "done" /\ lib # "seq" /\ program[pc].was.op = "MPI_SUM" =>
    \A i \in DOMAIN result :
      LET re == [r \in Ranks |-> contrib[r][i].re]
      IN  result[i].re = IF \E r \in Ranks : re[r] = NaN THEN NaN
                         ELSE FoldFunction(+, 0, re)

(* Where the operations are declared non-commutative, the sign of a        *)
(* maximum reached by several processes is that of the last of them,       *)
(* whatever the bracketing: two runs of the program agree.                 *)
RankOrderDecidesTies ==
  outcome = "done" /\ lib = "intel" /\ IsCustomOp(Call.op) /\ program[pc].was.op = "MPI_MAX" =>
    \A i \in DOMAIN result :
      (\A r \in Ranks : ~ HasNaN(contrib[r][i])) =>
        \E r \in Ranks :
          /\ result[i] = contrib[r][i]
          /\ \A q \in Ranks : q > r => Cabs1(contrib[q][i]) < Cabs1(result[i])

(* Below 2^24 bytes a derived handle says what the datatype holds, however *)
(* it was derived, and where the copy of mpi.f takes it for an element of  *)
(* the bridge it moves exactly that many bytes.                            *)
DerivedSizesAreTrue ==
  \A d \in Range(types) : d.bytes < SizeField =>
    /\ BaseTypeBytes(d.t) = d.bytes
    /\ CaseOf(libseq, d.t) # "none" => CopiedBytes[CaseOf(libseq, d.t)] = d.bytes
=============================================================================
