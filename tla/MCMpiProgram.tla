---------------------------- MODULE MCMpiProgram ----------------------------
(***************************************************************************)
(* Three processes; files of two calls, one on extended data whose first   *)
(* argument nests two parentheses deep and one on integers, in both        *)
(* orders, other calls between them; buffers of two elements with ties,    *)
(* signs and NaNs.                                                         *)
(***************************************************************************)
EXTENDS MpiProgram

CallTokens(head, dt, op) ==
  <<head, "(", "X", "(", "1", "int", "(", "M", ")", ")", dt, op, "COMM", ")">>

Extended == {<<"MPI_DOUBLE_PRECISION", "MPI_MAX">>, <<"MPI_REAL", "MPI_SUM">>,
             <<"MPI_DOUBLE_PRECISION", "MPI_MIN">>, <<"MPI_DOUBLE_COMPLEX", "MPI_SUM">>,
             <<"MPI_COMPLEX", "MPI_SUM">>}

MCSources ==
  {CallTokens("MPI_REDUCE", e[1], e[2]) \o <<"IF", "(", "L", ")", "MPI_BCAST", "(", "X", "MPI_COMPLEX", ")">>
     \o CallTokens("MPI_ALLREDUCE", "MPI_INTEGER", e[2]) : e \in Extended}
  \cup
  {CallTokens("MPI_ALLREDUCE", "MPI_INTEGER", "MPI_MAX")
     \o CallTokens("MPI_ALLREDUCE", "MPI_DOUBLE_PRECISION", "MPI_MAX")}

R(x) == [re |-> x, im |-> 0]
C(x, y) == [re |-> x, im |-> y]

MCBuffers ==
  [real    |-> {<<R(-2), R(1)>>, <<R(2), R(NaN)>>, <<R(1), R(-1)>>},
   complex |-> {<<C(1, -1), C(0, NaN)>>, <<C(-2, 0), C(1, 1)>>},
   integer |-> {<<R(1), R(-1)>>}]
=============================================================================
