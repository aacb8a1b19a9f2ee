------------------------- MODULE MCPrefixClassifier -------------------------
(* PrefixClassifier on every subset of twelve names shaped like those that *)
(* needed care in the libraries.                                           *)
EXTENDS PrefixClassifier

\* DSYTRS, DSYTRD and their S twins: a prefix and a trailing S/D.
Solvers == {<<"S", "A", "S">>, <<"D", "A", "S">>, <<"S", "A", "D">>, <<"D", "A", "D">>}
\* CSROT/ZDROT: a complex and a real slot; CZDOT-like doubled prefixes.
Mixed == {<<"C", "S", "A">>, <<"Z", "D", "A">>, <<"C", "C", "A">>, <<"Z", "Z", "A">>}
\* DVASUM/DZASUM: one target when Z becomes V.
Sums == {<<"S", "V", "A">>, <<"D", "V", "A">>, <<"S", "C", "A">>, <<"D", "Z", "A">>}

AllNames == Solvers \cup Mixed \cup Sums
AllSubsets == SUBSET AllNames
SumsOnly == {Sums}

LetterAt == ("A" :> 1) @@ ("C" :> 2) @@ ("D" :> 3) @@ ("S" :> 4) @@ ("V" :> 5) @@ ("Z" :> 6)
MCAlpha == [n \in Names |-> 49 * LetterAt[n[1]] + 7 * LetterAt[n[2]] + LetterAt[n[3]]]

Kind8 == ("R" :> "D") @@ ("C" :> "Z")
Multi == ("R" :> "T") @@ ("C" :> "V")
BothMaps == {Kind8, Multi}
MultiOnly == {Multi}

PinDVA == <<"D", "V", "A">> :> <<"T", "U", "A">> @@ <<"S", "V", "A">> :> <<"T", "U", "A">>
=============================================================================
