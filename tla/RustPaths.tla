----------------------------- MODULE RustPaths -----------------------------
(***************************************************************************)
(* Which file a Rust path names (parse.rs, resolve_rust and what it calls).*)
(*                                                                         *)
(* A file is the sequence of its names without .rs, a directory that of    *)
(* its own names.  A project is [files, disk, packages]: files are those   *)
(* that are mapped, disk those that are there; packages lists the Cargo    *)
(* packages in the order of load_rust_libs, each [dir, names, exported,    *)
(* path], path the root file that its Cargo.toml gives under [lib], or     *)
(* NoFile.  A path is the sequence of its segments, "mod:" left out.       *)
(***************************************************************************)
EXTENDS Integers, Sequences, FiniteSets, SequencesExt

CONSTANTS NoFile

Roots == {"mod", "lib", "main"}

\* rust_submodule_dir: where the modules declared in a file are.
SubmoduleDir(f) == IF Last(f) \in Roots THEN Front(f) ELSE f

FirstOf(files, candidates) ==
    LET there == SelectSeq(candidates, LAMBDA f : f \in files)
    IN  IF there = <<>> THEN NoFile ELSE Head(there)

\* rust_module_at
ModuleAt(files, dir, name) == FirstOf(files, <<dir \o <<name>>, dir \o <<name, "mod">>>>)

\* module_file_for: the file of the module whose submodules are in dir.
ModuleFile(files, dir, root) ==
    IF root \in files /\ SubmoduleDir(root) = dir THEN root
    ELSE FirstOf(files, <<dir \o <<"mod">>, dir \o <<"lib">>, dir \o <<"main">>>>
                            \o (IF dir = <<>> THEN <<>> ELSE <<dir>>))

\* rust_walk: the file of the last module on the way; one segment more is an item of it.
RECURSIVE RustWalk(_, _, _, _)
RustWalk(files, dir, parts, root) ==
    IF parts = <<>> THEN ModuleFile(files, dir, root)
    ELSE LET found == ModuleAt(files, dir, Head(parts))
             hit == RustWalk(files, dir \o <<Head(parts)>>, Tail(parts), NoFile)
         IN  IF Head(parts) = "self" THEN RustWalk(files, dir, Tail(parts), root)
             ELSE IF found # NoFile
                    THEN IF Len(parts) = 1 \/ hit = NoFile THEN found ELSE hit
             ELSE IF Len(parts) = 1 THEN ModuleFile(files, dir, root) ELSE NoFile

-----------------------------------------------------------------------------
\* Crates

Under(f, dir) == Len(f) > Len(dir) /\ SubSeq(f, 1, Len(dir)) = dir

\* rust_lib_at: the file named in Cargo.toml, there or not, or src/lib.rs, or src/main.rs.
PackageRoot(project, pkg) ==
    IF pkg.path # NoFile THEN pkg.path
    ELSE FirstOf(project.disk, <<pkg.dir \o <<"src", "lib">>, pkg.dir \o <<"src", "main">>>>)

\* A package without any is not there, and one without a library has no name outside.
Libs(project) ==
    SelectSeq(project.packages, LAMBDA pkg : PackageRoot(project, pkg) # NoFile)

Exported(project, pkg) ==
    pkg.exported /\ (pkg.path # NoFile \/ pkg.dir \o <<"src", "lib">> \in project.disk)

\* package_for: the innermost one around the file.
PackagesFor(project, f) ==
    {p \in ToSet(Libs(project)) : /\ Under(f, p.dir)
                                  /\ \A q \in ToSet(Libs(project)) : Under(f, q.dir) => Len(q.dir) <= Len(p.dir)}

\* separate_in_package: a file of tests, examples, benches or src/bin, and the directory of
\* its name beside it, are a crate of their own.
Separate(f, dir) ==
    LET rest == SubSeq(f, Len(dir) + 1, Len(f))
    IN  IF Len(rest) >= 2 /\ rest[1] \in {"tests", "examples", "benches"} THEN dir \o SubSeq(rest, 1, 2)
        ELSE IF Len(rest) >= 3 /\ SubSeq(rest, 1, 2) = <<"src", "bin">> THEN dir \o SubSeq(rest, 1, 3)
        ELSE NoFile

\* library_root_file
LibraryRoot(files) == FirstOf(files, <<<<"src", "lib">>, <<"src", "main">>, <<"lib">>>>)

\* Mutant: the tests and the programs of a package are part of its library.
CrateRootOfPackage(project, f) ==
    LET pkgs == PackagesFor(project, f)
        root == PackageRoot(project, CHOOSE p \in pkgs : TRUE)
    IN  IF pkgs # {} /\ root \in project.files THEN root
        ELSE LibraryRoot(project.files)

\* file_crate_root: a package whose root file is not mapped gets the one of the project.
CrateRoot(project, f) ==
    LET pkgs == PackagesFor(project, f)
        pkg == CHOOSE p \in pkgs : TRUE
        dir == IF pkgs = {} THEN <<>> ELSE pkg.dir
    IN  IF Separate(f, dir) \in project.files THEN Separate(f, dir)
        ELSE IF f = dir \o <<"src", "main">> THEN f
        ELSE IF pkgs # {} /\ PackageRoot(project, pkg) \in project.files THEN PackageRoot(project, pkg)
        ELSE LibraryRoot(project.files)

-----------------------------------------------------------------------------
\* Paths

\* lib_by_name
Named(project, name) ==
    SelectSeq(Libs(project), LAMBDA p : Exported(project, p) /\ name \in p.names)

\* crate::
FromCrate(project, f, parts) ==
    LET root == CrateRoot(project, f)
    IN  RustWalk(project.files, IF root = NoFile THEN <<"src">> ELSE SubmoduleDir(root), parts, root)

\* A path through the name of a library.
FromLib(project, pkg, parts) ==
    LET root == PackageRoot(project, pkg)
    IN  RustWalk(project.files, SubmoduleDir(root), parts, root)

\* self::, super::, and the name of a child.  Each super leaves an inline module as long as
\* there is one around the path, then a directory; a path that stays in an inline module is
\* about no file.
FromHere(project, f, segments, inline) ==
    LET own == SubmoduleDir(f)
        rest == IF Head(segments) = "self" THEN Tail(segments) ELSE segments
        supers == CHOOSE n \in 0 .. Len(rest) : /\ \A i \in 1 .. n : rest[i] = "super"
                                                /\ n < Len(rest) => rest[n + 1] # "super"
        up == supers - inline
        dir == SubSeq(own, 1, Len(own) - up)
    IN  IF up < 0 \/ up > Len(own) THEN NoFile
        ELSE IF rest = segments /\ supers = 0 /\ ModuleAt(project.files, own, Head(segments)) = NoFile THEN NoFile
        ELSE RustWalk(project.files, dir, SubSeq(rest, supers + 1, Len(rest)), NoFile)

\* resolve_rust_path
ResolveRust(project, f, segments, inline) ==
    IF Head(segments) = "crate" THEN FromCrate(project, f, Tail(segments))
    ELSE IF Named(project, Head(segments)) # <<>>
           THEN FromLib(project, Head(Named(project, Head(segments))), Tail(segments))
    ELSE FromHere(project, f, segments, inline)

\* resolve_rust_mod: mod name; below the inline modules of frames.
ResolveMod(project, f, frames, name) == ModuleAt(project.files, SubmoduleDir(f) \o frames, name)
=============================================================================
