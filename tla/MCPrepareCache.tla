--------------------------- MODULE MCPrepareCache ---------------------------
(* PrepareCache with two files, two patches and two patch lists.           *)
EXTENDS PrepareCache, TLC

CONSTANTS f1, f2, p1, p2

\* p1 touches the D/Z file only, p2 touches both.
MCTouches == (p1 :> {f1}) @@ (p2 :> {f1, f2})

TwoLists == {<<p1>>, <<p1, p2>>}
OneList  == {<<p1, p2>>}
=============================================================================
