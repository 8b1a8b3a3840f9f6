---------------------------- MODULE MCHealthLoop ----------------------------
(***************************************************************************)
(* Instances of HealthLoop for TLC.                                        *)
(***************************************************************************)
EXTENDS HealthLoop, TLC

CONSTANTS s1, s2, d1, d2, p, q

\* Symbol q replaces p; each wiki is right for one of the two contents.
MCContent == {s1, s2}
MCDoc == {d1, d2}
MCSymbol == {p, q}
MCSymbols == (s1 :> {p}) @@ (s2 :> {q})
MCMentions == (d1 :> {p}) @@ (d2 :> {q})
MCLong == {d2}

PairFile == {1, 2}
OneFile == {1}
NoFile == {}

\* The first file changes, vanishes and comes back; nobody touches the second one.
PairHistory == <<<<s1, s2, Gone, s2>>, <<s1>>>>
PairWikiHistory == <<<<d1, d2>>, <<NoWiki>>>>

OneHistory == <<<<s1, s2, Gone, s2>>>>
OneWikiHistory == <<<<NoWiki, d1, d2>>>>
=============================================================================
