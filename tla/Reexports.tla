----------------------------- MODULE Reexports -----------------------------
(***************************************************************************)
(* From the scans of JavaScript and TypeScript files to the edges of the   *)
(* map (parse.rs): an import of a name through a barrel leads to the       *)
(* barrel and, marked via_barrel, to the file that defines the name.       *)
(*                                                                         *)
(* A scan is [exports, imports]: the names the file exports itself, and    *)
(* its imports in order, each [kind, to, names, conditional].  to is the   *)
(* file the specifier resolves to, or Nowhere.  Only the scans of this run *)
(* are there: a file that is not parsed again has none.                    *)
(***************************************************************************)
EXTENDS Integers, Sequences, FiniteSets, SequencesExt

CONSTANTS Nowhere

MaxHops == 8

\* Mutant: a star import is followed like a star export.
StarAny(imp) == imp.kind \in {"export_star", "import"} /\ imp.to # Nowhere

Star(imp) == imp.kind = "export_star" /\ imp.to # Nowhere

\* defining_file.  A chain that is too long ends where it is; a file without a scan and a
\* name nobody exports give Nowhere.
RECURSIVE DefiningFile(_, _, _, _)
DefiningFile(scans, file, name, depth) ==
    LET imports == scans[file].imports
        named == {i \in DOMAIN imports : imports[i].kind = "export_from" /\ name \in imports[i].names}
        first == imports[CHOOSE i \in named : \A j \in named : i <= j]
        deeper == DefiningFile(scans, first.to, name, depth + 1)
        stars == SelectSeq(imports, Star)
        Try(found, m) == IF found # Nowhere THEN found
                         ELSE DefiningFile(scans, m.to, name, depth + 1)
    IN  IF depth > MaxHops THEN file
        ELSE IF file \notin DOMAIN scans THEN Nowhere
        ELSE IF name \in scans[file].exports THEN file
        ELSE IF named # {} THEN IF first.to = Nowhere THEN Nowhere
                                ELSE IF deeper # Nowhere THEN deeper ELSE first.to
        ELSE FoldLeft(Try, Nowhere, stars)

-----------------------------------------------------------------------------
\* Edges: a function from targets to [names, conditional, dynamic, barrel]

\* add_edge: several imports of one file are one edge.
AddEdge(edges, dst, new) ==
    IF dst \in DOMAIN edges
      THEN [edges EXCEPT ![dst].conditional = @ \/ new.conditional,
                         ![dst].dynamic = @ \/ new.dynamic,
                         ![dst].barrel = @ /\ new.barrel,
                         ![dst].names = IF @ = {} THEN new.names ELSE @]
      ELSE [d \in DOMAIN edges \cup {dst} |-> IF d = dst THEN new ELSE edges[d]]

Edge(imp, names, barrel) ==
    [names |-> names, conditional |-> imp.conditional, dynamic |-> imp.kind = "dynamic",
     barrel |-> barrel]

\* What one import of file adds: its target, and the definers of its names.  A definer that
\* is a target already stays as it is.
AddImport(scans, file, edges, imp) ==
    LET direct == AddEdge(edges, imp.to, Edge(imp, imp.names, FALSE))
        Follow(known, name) ==
            LET def == DefiningFile(scans, imp.to, name, 0)
            IN  IF def \in {Nowhere, file, imp.to} \cup DOMAIN known THEN known
                ELSE AddEdge(known, def, Edge(imp, {name}, TRUE))
    IN  IF imp.to \in {Nowhere, file} THEN edges
        ELSE IF imp.kind \in {"import", "export_from"}
               THEN FoldLeft(Follow, direct, SetToSeq(imp.names))
        ELSE direct

\* The facts of one file.
Facts(scans, file) ==
    FoldLeft(LAMBDA edges, imp : AddImport(scans, file, edges, imp), <<>>, scans[file].imports)

\* resolve_scanned: the second pass of a run that parses everything.
SecondPass(scans, file) ==
    LET direct == {imp.to : imp \in ToSet(scans[file].imports)}
        through == {DefiningFile(scans, imp.to, name, 0) :
                       <<imp, name>> \in {<<imp, name>> \in ToSet(scans[file].imports) \X
                                            UNION {m.names : m \in ToSet(scans[file].imports)} :
                                              /\ imp.kind \in {"import", "export_from"}
                                              /\ imp.to # Nowhere /\ name \in imp.names}}
    IN  (direct \cup through) \ {file, Nowhere}
=============================================================================
