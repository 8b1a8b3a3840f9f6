---------------------------- MODULE MCAlgorithms ----------------------------
(***************************************************************************)
(* The inputs of Algorithms for TLC.                                       *)
(***************************************************************************)
EXTENDS Algorithms

CONSTANTS look, tick, cyc, core, notes, map,        \* tools and groups
          pa, pb, pw, ca, cb, cc,                   \* paths of a git project, and contents
          lib, build, dot, main, mod, txt, gone,    \* names in a source tree
          f0, f1, f2, f3, x                         \* files and an exported name

\* Every map of four files; each edge has a kind of its own,
\* or is without a by_src line.
MCGraphs ==
    LET pairs == {e \in (1..4) \X (1..4) : e[1] # e[2]}
        sort(e) == CASE (e[1] + 2 * e[2]) % 5 = 0 -> "dynamic" [] (e[1] + 2 * e[2]) % 5 = 1 -> "conditional"
                     [] (e[1] + 2 * e[2]) % 5 = 2 -> "barrel" [] OTHER -> "static"
        known(edges) == {e \in edges : (e[1] + 2 * e[2]) % 5 # 4}
    IN  {[edges |-> E, flags |-> [e \in known(E) |-> sort(e)]] :
            E \in SUBSET pairs}

MCTool == {look, tick, cyc}
MCGroupOf == (look :> core) @@ (tick :> notes) @@ (cyc :> map)

\* Lists of names with a group, a tool, both, all, mistakes, and (of nothing but commas) none.
MCLists == {Unset, {}, {notes}, {tick}, {notes, tick}, {map}, {All}, {core}, {Typo, notes}}
MCEnvs == {[tools |-> a, disable |-> b] : a, b \in MCLists}
MCBlocks == {[NoBlock EXCEPT !.found = TRUE, !.tools = a, !.disable = b] : a, b \in MCLists}
MCSelections == {[env |-> e, block |-> b] : e \in MCEnvs, b \in MCBlocks}

\* Up to four lines: fences of two marks and two lengths, with and without the info string.
Fence(mark, len, info) == [kind |-> "fence", mark |-> mark, len |-> len, info |-> info]
MCLines == {Fence("tick", 3, "agent-tools"), Fence("tick", 3, "none"), Fence("tick", 4, "other"),
            Fence("tick", 4, "none"), Fence("tilde", 3, "agent-tools"), Fence("tilde", 3, "none"),
            [kind |-> "names", key |-> "tools", names |-> {notes}],
            [kind |-> "names", key |-> "tools", names |-> {map}],
            [kind |-> "names", key |-> "disable", names |-> {notes}]}
MCDocuments == UNION {[1..n -> MCLines] : n \in 0..4}

\* Two paths with contents of their own, edited or not, moved to each other, gone or ignored.
MCPath == {pa, pb}
MCGitStates ==
    {s \in [head : [MCPath -> {ca, cb, Away}], index : [MCPath -> {ca, cb, cc, Away}],
            work : [MCPath -> {ca, cc, Away}], ignored : SUBSET MCPath, clash : {<<>>, pa :> <<"D", "U">>}] :
        /\ s.head[pa] # s.head[pb] \/ s.head[pa] = Away
        /\ DOMAIN s.clash # {} => s.index[pa] # Away}

\* Three changed paths, one of them Wikifier's own, and every list of up to three keys.
Key(k, len, covers, self) == [kind |-> k, len |-> len, covers |-> covers, self |-> self]
MCKeys == {Key("exact", 3, {pa}, pa), Key("dir", 2, {pa, pb}, pb), Key("dir", 3, {pa}, pa),
           Key("glob", 1, {pa, pb, pw}, gone), Key("glob", 4, {pb}, gone), Key("exact", 3, {gone}, gone)}
MCRequests ==
    {[changes |-> c, reasons |-> r, only |-> o] :
        c \in {<<Change(pa, FALSE)>>, <<Change(pa, TRUE), Change(pb, FALSE)>>,
               <<Change(pw, FALSE), Change(pb, TRUE), Change(pa, FALSE)>>},
        r \in UNION {[1..n -> MCKeys] : n \in 0..3},
        o \in {<<>>, <<Key("dir", 2, {pa, pb}, pb)>>, <<Key("glob", 4, {pb}, gone)>>}}

\* Trees of up to eight files in and outside the usual places; what map_paths.txt can list.
MCFiles == {<<main>>, <<src, txt>>, <<lib, main>>, <<lib, mod, main>>, <<lib, mod, mod, main>>,
            <<lib, build, main>>, <<build, main>>, <<dot, main>>}
MCDirs(files) == {SubSeq(f, 1, n) : <<f, n>> \in {<<f, n>> \in files \X (1..3) : n < Len(f)}}
MCTrees ==
    {[files |-> F, dirs |-> MCDirs(F), projects |-> P, hidden |-> {dot}, sources |-> {main}] :
        F \in SUBSET MCFiles, P \in {{}, {<<src>>, <<lib>>, <<build>>}}}
Entry(p, e) == [path |-> p, ext |-> e]
MCMapLists == SUBSET {Entry(<<src>>, FALSE), Entry(<<lib, mod>>, FALSE), Entry(<<lib, main>>, TRUE),
                      Entry(<<gone>>, FALSE), Entry(<<main>>, TRUE)}

\* Three files that define or re-export a name, and one that imports it.
Imp(k, to, names, c) == [kind |-> k, to |-> to, names |-> names, conditional |-> c]
MCBarrel(others) ==
    {Imp("export_star", o, {}, FALSE) : o \in others} \cup {Imp("export_from", o, {x}, FALSE) : o \in others}
        \cup {Imp("import", o, {x}, FALSE) : o \in others}
Scans(imports, n) == [exports : {{}, {x}}, imports : UNION {[1..k -> imports] : k \in 0..n}]
MCImporters ==
    {<<Imp("import", f1, {x}, FALSE)>>,
     <<Imp("import", f1, {x}, TRUE), Imp("dynamic", f2, {}, FALSE), Imp("import", f3, {}, FALSE)>>}
MCProjects ==
    {[scans |-> (f0 :> [exports |-> {}, imports |-> i]) @@ (f1 :> a) @@ (f2 :> b) @@ (f3 :> c), file |-> f0] :
        i \in MCImporters, a \in Scans(MCBarrel({f2, f3}), 2),
        b \in Scans(MCBarrel({f1, f3}), 1), c \in Scans(MCBarrel({f1}) \cup {Imp("export_from", Nowhere, {x}, FALSE)}, 1)}

\* A package at the root, one in the directory m that may be a member or excluded, or the
\* second alone; libraries, programs, tests, and modules as a file and as a directory.  The
\* libraries may be there and not mapped, or have the root file that Cargo.toml names.
MCCrateFiles == {<<"src", "lib">>, <<"src", "main">>, <<"src", "a">>, <<"src", "a", "b">>, <<"src", "b", "mod">>,
                 <<"src", "bin", "t">>, <<"tests", "t">>, <<"tests", "t", "a">>,
                 <<"m", "src", "lib">>, <<"m", "src", "main">>, <<"m", "src", "a">>}
MCPathFiles == {<<"src", "core">>, <<"src", "core", "a">>, <<"src", "lib">>, <<"src", "main">>, <<"src", "a">>,
                <<"tests", "t">>, <<"m", "lib">>, <<"m", "a">>, <<"m", "src", "lib">>, <<"m", "src", "main">>}
Package(dir, names, exported, path) == [dir |-> dir, names |-> names, exported |-> exported, path |-> path]
MCCrates ==
    {[files |-> F, disk |-> F \cup D, packages |-> P] :
        F \in SUBSET MCCrateFiles, D \in {{}, {<<"src", "lib">>, <<"m", "src", "lib">>}},
        P \in {<<Package(<<>>, {"top", "top_lib"}, TRUE, NoFile), Package(<<"m">>, {"member"}, TRUE, NoFile)>>,
               <<Package(<<>>, {"top"}, TRUE, NoFile), Package(<<"m">>, {"member"}, FALSE, NoFile)>>,
               <<Package(<<"m">>, {"member"}, TRUE, NoFile)>>}}
    \cup {[files |-> F, disk |-> F, packages |-> <<Package(<<>>, {"top"}, TRUE, <<"src", "core">>),
                                                  Package(<<"m">>, {"member"}, TRUE, <<"m", "lib">>)>>] :
             F \in SUBSET MCPathFiles}
=============================================================================
