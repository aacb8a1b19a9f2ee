------------------------- MODULE MCMigratePipeline --------------------------
(* MigratePipeline on a recipe with a BLAS-shaped family (sgemm, dgemm),   *)
(* a ScaLAPACK-shaped one (pcget, pzget) and a copied file.                *)
EXTENDS MigratePipeline, TLC

CONSTANTS sgemm, dgemm, pcget, pzget, xerbla, qgemm, pxget, module

MCLetter == (sgemm :> "S") @@ (dgemm :> "D") @@ (pcget :> "P") @@ (pzget :> "P")
            @@ (xerbla :> "X")
MCPos == (dgemm :> 1) @@ (pcget :> 2) @@ (pzget :> 3) @@ (sgemm :> 4)
         @@ (xerbla :> 5)
MCOut == (sgemm :> qgemm) @@ (dgemm :> qgemm) @@ (pcget :> pxget)
         @@ (pzget :> pxget) @@ (xerbla :> xerbla)

\* Every source its own normalized text; the halves of a family agree.
AllDiffer == [s \in Sources |-> s]
GemmAgrees == [s \in Sources |-> IF s \in {sgemm, dgemm} THEN "gemm" ELSE s]
=============================================================================
