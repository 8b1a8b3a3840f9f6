------------------------------- MODULE Scope -------------------------------
(***************************************************************************)
(* Which files a project's map is about (scope.rs): the roots that init    *)
(* writes, the path lists, what they resolve to, and the walk.             *)
(*                                                                         *)
(* A path is the sequence of its names, the project root is <<>>.  A tree  *)
(* is [files, dirs, projects, hidden, sources]: its files, its directories *)
(* (with all their parents), the top-level directories that hold a project *)
(* of their own, the names that start with a dot, the names of source      *)
(* files.  An entry of a path list is [path, ext]: ext if its last name    *)
(* has an extension.  The lines "." and "./" and comments are no entries.  *)
(***************************************************************************)
EXTENDS Integers, Sequences, FiniteSets, SequencesExt

CONSTANTS Excluded      \* DEFAULT_EXCLUDES

Parent(p) == SubSeq(p, 1, Len(p) - 1)
Name(p) == p[Len(p)]
Below(p, dir) == Len(p) > Len(dir) /\ SubSeq(p, 1, Len(dir)) = dir
Children(tree, dir) == {p \in tree.files \cup tree.dirs : Len(p) = Len(dir) + 1 /\ Below(p, dir)}

\* child_projects
ChildProjects(tree) == {d \in tree.projects : Name(d) \notin tree.hidden}

Container(tree) == Cardinality(ChildProjects(tree)) >= 3

LooksLikeDir(entry) == ~entry.ext

-----------------------------------------------------------------------------
\* resolve_prefixes

\* An entry is a directory, a file (its parent counts), or nothing.  A parent that is the
\* project root is compared with ".", which the name of the root never is: it counts too.
Prefix(tree, entry) ==
    IF entry.path \in tree.dirs \cup {<<>>} THEN {entry.path}
    ELSE IF entry.path \in tree.files THEN {Parent(entry.path)}
    ELSE {}

\* split_existing
Split(tree, entries) ==
    [prefixes |-> UNION {Prefix(tree, e) : e \in entries},
     missing |-> {e.path : e \in {e \in entries : Prefix(tree, e) = {} /\ LooksLikeDir(e)}},
     full |-> FALSE]

\* Mutant: a missing directory is told only if nothing of the list is there.
ResolvePrefixesPresent(tree, maps, monitored) ==
    LET dirs == {e \in monitored : e.path \in tree.dirs \/ LooksLikeDir(e)}
        found == Split(tree, maps)
    IN  IF maps # {} THEN [found EXCEPT !.missing = IF found.prefixes = {} THEN @ ELSE {}]
        ELSE IF dirs # {} THEN Split(tree, dirs)
        ELSE [prefixes |-> {}, missing |-> {}, full |-> TRUE]

\* map_paths.txt, or else the directories of monitored_paths.txt, or else everything.
ResolvePrefixes(tree, maps, monitored) ==
    LET dirs == {e \in monitored : e.path \in tree.dirs \/ LooksLikeDir(e)}
    IN  IF maps # {} THEN Split(tree, maps)
        ELSE IF dirs # {} THEN Split(tree, dirs)
        ELSE [prefixes |-> {}, missing |-> {}, full |-> TRUE]

Detect(tree, maps, monitored) ==
    LET found == ResolvePrefixes(tree, maps, monitored)
    IN  [prefixes |-> found.prefixes, missing |-> found.missing, container |-> Container(tree),
         full |-> found.full /\ found.missing = {} /\ ~Container(tree)]

AllowsWalk(scope) == ~scope.container /\ scope.missing = {} /\ (scope.full \/ scope.prefixes # {})

-----------------------------------------------------------------------------
\* The walk

\* excludes: the defaults and the lines of exclude_patterns.txt.
Excludes(patterns) == Excluded \cup patterns

\* Every name on the way from the directory down to the file is looked at, the directory's
\* own is not.
Walk(tree, dir, patterns) ==
    {f \in tree.files :
        /\ Below(f, dir) /\ Name(f) \in tree.sources
        /\ \A i \in Len(dir) + 1 .. Len(f) : f[i] \notin Excludes(patterns)}

\* What update_maps, check_changes and validate read; they stop where it is an error.
Errs(scope) == scope.container \/ scope.missing # {}

Collect(tree, scope, patterns) ==
    IF Errs(scope) THEN {}
    ELSE IF scope.full THEN Walk(tree, <<>>, patterns)
    ELSE UNION {Walk(tree, p, patterns) : p \in scope.prefixes \cap (tree.dirs \cup {<<>>})}

-----------------------------------------------------------------------------
\* init

SkipDir(tree, name) == name \in tree.hidden \cup Excluded

\* Mutant: the depth runs out one directory early.
HasSourceShort(tree, dir, depth) ==
    \E f \in tree.files : /\ Below(f, dir) /\ Name(f) \in tree.sources
                          /\ Len(f) - Len(dir) <= depth
                          /\ \A i \in Len(dir) + 1 .. Len(f) - 1 : ~SkipDir(tree, f[i])

\* has_source: a source file in the directory or at most depth directories further down,
\* not below one that is skipped.
HasSource(tree, dir, depth) ==
    \E f \in tree.files : /\ Below(f, dir) /\ Name(f) \in tree.sources
                          /\ Len(f) - Len(dir) <= depth + 1
                          /\ \A i \in Len(dir) + 1 .. Len(f) - 1 : ~SkipDir(tree, f[i])

\* default_map_roots; depth is 6 there.
DefaultMapRoots(tree, src, depth) ==
    LET found == {d \in tree.dirs : Len(d) = 1 /\ ~SkipDir(tree, d[1]) /\ HasSource(tree, d, depth)}
    IN  IF <<src>> \in tree.dirs \/ found = {} THEN {<<src>>} ELSE found

=============================================================================
