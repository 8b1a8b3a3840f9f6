----------------------------- MODULE Algorithms -----------------------------
(***************************************************************************)
(* The pure parts of the program, checked against reference definitions:   *)
(* the questions of Answers, and those whose answers are recursive         *)
(* operators.                                                              *)
(***************************************************************************)
EXTENDS Answers, Cycles, Reexports, RustPaths

CONSTANTS
    Graphs,       \* [edges, flags]: maps
    Projects,     \* [scans, file]: scanned files, and one that is mapped
    Crates,       \* [files, disk, packages]: Rust projects
    item          \* a name that no module has

Init ==
    \/ Asked
    \/ kind = "graph" /\ input \in Graphs
    \/ kind = "project" /\ input \in Projects
    \/ kind = "crate" /\ input \in Crates

Spec == Init /\ [][Next]_vars

-----------------------------------------------------------------------------
\* Cycles

Compose(r) == r \cup {<<e[1], f[2]>> : <<e, f>> \in {<<e, f>> \in r \X r : e[2] = f[1]}}

\* Paths of up to eight edges.
Reach(edges) == Compose(Compose(Compose(edges)))

\* The cycles reported are the sets of files that reach each other, each of them once and
\* whole, and the edges dependencies --full marks in_cycle are those that lie on a cycle,
\* in whatever order the files were mapped and whatever else they import.  Removing the edge
\* of a break hint breaks a cycle of its component, and no edge that would is less sure.
CyclesAreExact ==
    kind = "graph" =>
        LET edges == input.edges
            reach == Reach(edges)
            cyclic == Cyclic(edges)
            report == Report(edges, input.flags)
            together(n) == {n} \cup {m \in Nodes(edges) : <<n, m>> \in reach /\ <<m, n>> \in reach}
            breaks(e) == <<e[2], e[1]>> \in Reach(edges \ {e})
        IN  /\ ToSet(cyclic) = {c \in {together(n) : n \in Nodes(edges)} : Cardinality(c) > 1}
            /\ Cardinality(ToSet(cyclic)) = Len(cyclic)
            /\ CyclePairs(edges) = {e \in edges : <<e[2], e[1]>> \in reach}
            /\ \A i \in DOMAIN report :
                 LET hint == report[i].hint
                 IN  /\ breaks(hint)
                     /\ \A e \in edges : (e[1] \in report[i].files /\ breaks(e)) =>
                          Score(input.flags, hint) <= Score(input.flags, e)

-----------------------------------------------------------------------------
\* Re-exports

\* The files name can come from, through re-exports of it that begin at file.
RECURSIVE Sources(_, _, _, _)
Sources(scans, file, name, hops) ==
    LET on == {imp.to : imp \in {imp \in ToSet(scans[file].imports) :
                  \/ imp.kind = "export_star"
                  \/ imp.kind = "export_from" /\ name \in imp.names}} \ {Nowhere}
    IN  {file} \cup (IF hops = 0 THEN {} ELSE UNION {Sources(scans, f, name, hops - 1) : f \in on})

Circular(scans) ==
    LET on == {e \in (DOMAIN scans) \X (DOMAIN scans) :
                  \E m \in ToSet(scans[e[1]].imports) : m.kind # "import" /\ m.to = e[2]}
    IN  \E f \in DOMAIN scans : <<f, f>> \in Reach(on)

\* An edge via_barrel goes to a file that exports the name itself, or that a named re-export
\* takes it from, at the end of a chain of re-exports of that name from the file imported.
\* A target imported directly, before or after, is no barrel edge, and the second pass of a
\* whole run finds nothing more.  Not where re-exports go round in a circle: the search then
\* ends at whatever file it has come to after eight hops.
DefinersDefine ==
    (kind = "project" /\ ~Circular(input.scans)) =>
        LET scans == input.scans
            facts == Facts(scans, input.file)
            imports == ToSet(scans[input.file].imports)
            exported(d, name) ==
                \/ name \in scans[d].exports
                \/ \E f \in DOMAIN scans : \E m \in ToSet(scans[f].imports) :
                     m.kind = "export_from" /\ m.to = d /\ name \in m.names
        IN  /\ SecondPass(scans, input.file) = DOMAIN facts
            /\ \A d \in DOMAIN facts :
                 IF facts[d].barrel
                 THEN /\ \A imp \in imports : imp.to # d
                      /\ \A name \in facts[d].names :
                           /\ exported(d, name)
                           /\ \E imp \in imports : name \in imp.names /\ d \in Sources(scans, imp.to, name, 3)
                 ELSE \E imp \in imports : imp.to = d

-----------------------------------------------------------------------------
\* Rust paths

\* The files crates begin with, but for a library with a root file of another name than
\* lib.rs, main.rs and mod.rs.
CrateRoots(project) ==
    LET roots(p) == {r \in {PackageRoot(project, p), p.dir \o <<"src", "main">>} : Last(r) \in Roots}
                      \cup {f \in project.files : Separate(f, p.dir) = f}
    IN  UNION {roots(p) : p \in ToSet(Libs(project))} \cap project.files

\* The modules of a crate, each the path of its name, and their files: those that a test or a
\* program has below the directory of its name, all others beside their root file.
Modules(files, root) ==
    LET dir == SubmoduleDir(root)
        names == {Last(f) : f \in files} \cup {Last(Front(f)) : f \in files}
        inner(ms) == ms \cup {m \o <<n>> : <<m, n>> \in {<<m, n>> \in ms \X (names \ Roots) :
                                                       ModuleAt(files, dir \o m, n) # NoFile}}
    IN  inner(inner({<<>>}))

FileOf(files, root, m) ==
    IF m = <<>> THEN root ELSE ModuleAt(files, SubmoduleDir(root) \o Front(m), Last(m))

\* The ways to write a path relative to module m, from inline modules in it, to rest in k.
Relative(m, k, rest, inline) ==
    LET shared == {n \in 0 .. Least(Len(m), Len(k)) : SubSeq(m, 1, n) = SubSeq(k, 1, n)}
        path(n) == [i \in 1 .. inline + Len(m) - n |-> "super"] \o SubSeq(k, n + 1, Len(k)) \o rest
    IN  {<<"self">> \o path(n) : n \in shared}
            \cup {path(n) : n \in {n \in shared : inline + Len(m) > n}}

\* All ways to name a module, or an item of it, lead to the one file of that module: through
\* crate::, through self:: and any number of super::, from an inline module as well, and
\* through the name of the library; the files of tests and src/bin and the members of a
\* workspace keep to crates of their own.  Not in the crate of a main.rs with a library in its
\* package: its modules count as the library's, and what main.rs says of itself without
\* crate:: leads there.  And not in a library with a root file of another name, as after
\* path = "src/core.rs": there crate::x ends at src/core.rs, while super::x finds src/x.rs.
SameItemSameFile ==
    kind = "crate" =>
        LET files == input.files
            beside(root) == \E p \in ToSet(Libs(input)) :
                                root = p.dir \o <<"src", "main">> /\ root # PackageRoot(input, p)
        IN  \A root \in CrateRoots(input) :
              LET modules == Modules(files, root)
              IN  \A m \in modules, k \in modules, rest \in {<<>>, <<item>>} :
                    LET from == FileOf(files, root, m)
                        to == FileOf(files, root, k)
                    IN  /\ (m = <<>> \/ ~beside(root)) =>
                             ResolveRust(input, from, <<"crate">> \o k \o rest, 0) = to
                        /\ (k # <<>> \/ ~beside(root)) =>
                             \A inline \in 0 .. 1 : \A path \in Relative(m, k, rest, inline) :
                                 ResolveRust(input, from, path, inline) = to
                        /\ (rest = <<>> /\ k # <<>>) => ResolveMod(input, FileOf(files, root, Front(k)), <<>>, Last(k)) = to
                        /\ \A p \in ToSet(Libs(input)) :
                             (Exported(input, p) /\ root = PackageRoot(input, p)) =>
                                 \A f \in files, name \in p.names : ResolveRust(input, f, <<name>> \o k \o rest, 0) = to
=============================================================================
