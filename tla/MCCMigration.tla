---------------------------- MODULE MCCMigration ----------------------------
(* CMigration shaped like ScaLAPACK's SRC: lamov.h includes pblas.h,       *)
(* tools.h includes "./pblas.h"; one routine in both halves, one typeset   *)
(* and a hand-written replacement of the first.                            *)
EXTENDS CMigration, TLC

CONSTANTS pblas, lamov, tools, shim, dset, sset, dect, getbuf, qset, qect

MCPos == (dset :> 2) @@ (sset :> 3) @@ (dect :> 1)
MCTargetOf == (dset :> qset) @@ (sset :> qset) @@ (dect :> qect)
MCIncs == (pblas :> {}) @@ (lamov :> {pblas}) @@ (tools :> {}) @@ (dset :> {lamov})
          @@ (sset :> {lamov}) @@ (dect :> {pblas}) @@ (getbuf :> {tools})
          @@ (qect :> {pblas})
MCDots == [f \in Texted |-> IF f = tools THEN {pblas} ELSE {}]
=============================================================================
