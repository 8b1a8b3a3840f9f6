------------------------------- MODULE Cycles -------------------------------
(***************************************************************************)
(* Import cycles: Tarjan's search (api.rs, struct Tarjan), and what the   *)
(* cycles command says of each component (cycles_view, cycle_report.rs).   *)
(*                                                                         *)
(* A file is a natural number: its place in the order of the names, which  *)
(* is the order of the BTreeMap the search walks.  Edges is a set of pairs *)
(* <<src, dst>>, and Flags gives those with a by_src line the kind of      *)
(* their import.  Confidences are in hundredths.                           *)
(***************************************************************************)
EXTENDS Integers, Sequences, FiniteSets, SequencesExt

Confidence(kind) ==
    CASE kind = "dynamic" -> 40
      [] kind = "conditional" -> 55
      [] kind = "barrel" -> 70
      [] OTHER -> 90

Ascending(S) == SetToSortSeq(S, <)

Nodes(edges) == {e[1] : e \in edges} \cup {e[2] : e \in edges}

Next1(edges, n) == Ascending({m \in Nodes(edges) : <<n, m>> \in edges})

-----------------------------------------------------------------------------
\* The search.  idx and low are functions on the files seen so far.

Least(a, b) == IF a < b THEN a ELSE b

Seen(s) == DOMAIN s.idx

With(f, n, v) == [x \in DOMAIN f \cup {n} |-> IF x = n THEN v ELSE f[x]]

\* A file is numbered, and put on the stack.
Visit(s, n) ==
    [s EXCEPT !.idx = With(@, n, s.index),
              !.low = With(@, n, s.index),
              !.index = @ + 1,
              !.stack = Append(@, n)]

OnStack(s, n) == n \in ToSet(s.stack)

\* The stack down to n is one component.
Pop(s, n) ==
    LET at == CHOOSE i \in 1 .. Len(s.stack) : s.stack[i] = n
    IN  [s EXCEPT !.stack = SubSeq(@, 1, at - 1),
                  !.out = Append(@, ToSet(SubSeq(s.stack, at, Len(s.stack))))]

\* Mutant: a file of a finished component still lowers the link.
RevisitAny(s, n, m) == [s EXCEPT !.low[n] = Least(@, s.idx[m])]

\* A successor that was seen counts only while it is on the stack.
Revisit(s, n, m) == IF OnStack(s, m) THEN [s EXCEPT !.low[n] = Least(@, s.idx[m])] ELSE s

RECURSIVE Strong(_, _, _)
Strong(edges, s, n) ==
    LET Look(t, m) ==
            IF m \notin Seen(t)
              THEN LET deeper == Strong(edges, t, m)
                   IN  [deeper EXCEPT !.low[n] = Least(@, deeper.low[m])]
              ELSE Revisit(t, n, m)
        done == FoldLeft(Look, Visit(s, n), Next1(edges, n))
    IN  IF done.low[n] = done.idx[n] THEN Pop(done, n) ELSE done

Search0 == [idx |-> <<>>, low |-> <<>>, index |-> 0, stack |-> <<>>, out |-> <<>>]

TarjanOf(edges) ==
    FoldLeft(LAMBDA s, n : IF n \in Seen(s) THEN s ELSE Strong(edges, s, n),
             Search0, Ascending(Nodes(edges))).out

-----------------------------------------------------------------------------
\* The report

Cyclic(edges) == SelectSeq(TarjanOf(edges), LAMBDA c : Cardinality(c) > 1)

\* An edge without a by_src line counts as a static import.
Score(flags, e) == IF e \in DOMAIN flags THEN Confidence(flags[e]) ELSE 90

\* The edges of a component, in the order the report walks them.
Inside(edges, comp) ==
    FlattenSeq([i \in 1 .. Cardinality(comp) |->
        LET from == Ascending(comp)[i]
            dsts == SelectSeq(Next1(edges, from), LAMBDA m : m \in comp)
        IN  [j \in 1 .. Len(dsts) |-> <<from, dsts[j]>>]])

\* The first of the edges with the least confidence.
Hint(edges, flags, comp) ==
    LET inside == Inside(edges, comp)
        Weaker(e, f) == IF Score(flags, f) < Score(flags, e) THEN f ELSE e
    IN  FoldLeft(Weaker, Head(inside), Tail(inside))

Outside(edges, comp) == {e \in edges : e[1] \in comp /\ e[2] \notin comp}

Severity(size, blast) ==
    IF size >= 8 \/ blast >= 20 THEN "HIGH" ELSE IF size >= 3 \/ blast >= 5 THEN "MEDIUM" ELSE "LOW"

\* In fifths: size * 2.0 + blast * 0.8.
CycleScore(size, blast) == 10 * size + 4 * blast

Report(edges, flags) ==
    LET comps == Cyclic(edges)
    IN  [i \in 1 .. Len(comps) |->
            LET size == Cardinality(comps[i])
                blast == Cardinality(Outside(edges, comps[i]))
            IN  [files |-> comps[i], external |-> blast, hint |-> Hint(edges, flags, comps[i]),
                 severity |-> Severity(size, blast), score |-> CycleScore(size, blast),
                 strategy |-> IF size <= 2 THEN "split" ELSE "extract"]]

\* The edges on a cycle, which dependencies --full marks.
CyclePairs(edges) == UNION {ToSet(Inside(edges, c)) : c \in ToSet(Cyclic(edges))}
=============================================================================
