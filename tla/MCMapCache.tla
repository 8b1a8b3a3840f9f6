----------------------------- MODULE MCMapCache -----------------------------
(***************************************************************************)
(* Instances of MapCache for TLC.  The paths are equally long, so records  *)
(* with as many lines have one length, and a torn record is empty or has   *)
(* the length of one line.                                                 *)
(***************************************************************************)
EXTENDS MapCache, TLC

CONSTANTS a, b, c, a1, a2, b1, c1, empty, hollow, zeros

AllTorn == {hollow, zeros}
Lengths(Files) == [S \in SUBSET Files |-> 1 + Cardinality(S)] @@ (hollow :> 0) @@ (zeros :> 2)

\* Three files: a stops importing b, b keeps its import, c vanishes.
TriFile == {a, b, c}
TriContent == {a1, a2, b1, c1, empty}
TriImports == (a1 :> {b, c}) @@ (a2 :> {c}) @@ (b1 :> {c}) @@ (c1 :> {}) @@ (empty :> {})
TriHistory == (a :> <<a1, a2>>) @@ (b :> <<b1>>) @@ (c :> <<c1, Gone>>)
TriSize == Lengths(TriFile)

\* Two files that import each other: a stops, b vanishes and comes back.
PairFile == {a, b}
PairContent == {a1, a2, b1, empty}
PairImports == (a1 :> {b}) @@ (a2 :> {}) @@ (b1 :> {a}) @@ (empty :> {})
PairHistory == (a :> <<a1, a2>>) @@ (b :> <<b1, Gone, b1>>)
PairSize == Lengths(PairFile)

\* a imports b, then c: its two records have one length.
SwapImports == (a1 :> {b}) @@ (a2 :> {c}) @@ (b1 :> {}) @@ (c1 :> {}) @@ (empty :> {})
SwapHistory == (a :> <<a1, a2>>) @@ (b :> <<b1>>) @@ (c :> <<c1>>)

TriScopes == {TriFile}
\* a imports b before there is a b.
LateHistory == (a :> <<a1>>) @@ (b :> <<Gone, b1>>)

PairTree == {PairFile}
Uncapped == {NoCap}
Capped == {1, NoCap}
=============================================================================
