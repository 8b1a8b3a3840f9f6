------------------------------ MODULE Answers ------------------------------
(***************************************************************************)
(* Questions to the pure parts of the program: a behaviour is one input,   *)
(* and every property says of its kind of input what the program's answer  *)
(* is.  None of the answers here takes a recursive operator.               *)
(***************************************************************************)
EXTENDS ToolGroups, GitPlan, Scope

CONSTANTS
    Selections,   \* [env, block]: switches and agent-tools blocks
    Documents,    \* the lines of an AGENTS.md
    GitStates,    \* what git knows of every path
    Requests,     \* [changes, reasons, only]: calls of record-changes
    Trees,        \* source trees
    Lists,        \* what map_paths.txt can say
    src, depth    \* the directory src, and how deep init looks for sources

VARIABLES
    kind,         \* which part is asked
    input

vars == <<kind, input>>

Asked ==
    \/ kind = "selection" /\ input \in Selections
    \/ kind = "document" /\ input \in Documents
    \/ kind = "git" /\ input \in GitStates
    \/ kind = "record" /\ input \in Requests
    \/ kind = "tree" /\ input \in Trees

Next == UNCHANGED vars

AnswersSpec == Asked /\ [][Next]_vars

-----------------------------------------------------------------------------
\* The inputs

Listed == {Unset} \cup SUBSET Word

\* A line of AGENTS.md that opens or closes a fence says with what.
Line(l) ==
    \/ l.kind = "fence" /\ l.len \in Nat \ {0} /\ DOMAIN l = {"kind", "mark", "len", "info"}
    \/ l.kind = "names" /\ l.names \in SUBSET Word /\ DOMAIN l = {"kind", "key", "names"}
    \/ l.kind = "text"

\* A tree has the parents of what is in it; no source file has a name that is always excluded.
IsTree(t) ==
    /\ \A p \in t.files \cup t.dirs : p # <<>> /\ p \in Seq(ToSet(p))
    /\ \A p \in t.files \cup t.dirs : \A n \in 1 .. Len(p) - 1 : SubSeq(p, 1, n) \in t.dirs
    /\ t.sources \cap Excluded = {}

\* git pairs a path that is gone with one new path.
Paired(s) ==
    \A now \in {s.index, Shown(s)} : \A r, q \in Renames(s, now) : (r[1] = q[1]) = (r[2] = q[2])

\* A call lists changes and reasons; a key has a length.
IsRequest(r) ==
    /\ r.changes \in Seq(ToSet(r.changes))
    /\ r.reasons \in Seq(ToSet(r.reasons))
    /\ \A key \in ToSet(r.reasons) : key.len \in Nat

ASSUME AnswersAssumption ==
    /\ Selections \subseteq
          [env : [tools : Listed, disable : Listed],
           block : [found : BOOLEAN, tools : Listed, disable : Listed, badKey : BOOLEAN]]
    /\ \A d \in Documents : d \in Seq(ToSet(d)) /\ \A i \in DOMAIN d : Line(d[i])
    /\ \A s \in GitStates : Paired(s)
    /\ \A r \in Requests : IsRequest(r)
    /\ \A t \in Trees : IsTree(t)
    /\ \A entries \in Lists : \A e \in entries : e.path # <<>>
    /\ depth \in Nat

-----------------------------------------------------------------------------
\* Tool groups

\* A variable without a name in it is not set.
Blank(names) == IF names = {} THEN Unset ELSE names

\* A selection after the line that was blamed is changed as advised.
Followed(s, refusal, name) ==
    LET fix(names) == IF refusal.line = "disable" THEN names \ {name} ELSE names \cup {name}
    IN  IF refusal.source = "env"
        THEN [s EXCEPT !.env[refusal.line] = Blank(fix(@))]
        ELSE [s EXCEPT !.block[refusal.line] = fix(@)]

Open(s, t) == t \in Enabled(s.env, s.block)

\* The selections an agent can come to that asks once more: it follows any of the names it
\* is given, and stays where it is if it is given none or has the tool.
Advised(selections, t) ==
    LET next(s) ==
            LET refusal == Refusal(s.env, s.block, t)
            IN  IF Open(s, t) \/ refusal.names = {} THEN {s}
                ELSE {Followed(s, refusal, name) : name \in refusal.names}
    IN  UNION {next(s) : s \in selections}

\* An agent that is refused a tool and does what the refusal says, as often as it is told,
\* gets the tool in five turns: the line blamed is always one that is in force and always to
\* blame, though two variables, two lines and two kinds of names decide together.
AdviceOpensTool ==
    (kind = "selection" /\ ~EnvMistake(input.env)) =>
        \A t \in Tool :
            LET twice(S) == Advised(Advised(S, t), t)
            IN  \A s \in twice(twice(Advised({input}, t))) : Open(s, t)

\* The line that ends a fence is the first that closes it, or the one after the last.
EndOf(lines, i) ==
    LET closers == {j \in i + 1 .. Len(lines) : Closes(lines[j], lines[i])}
    IN  IF closers = {} THEN Len(lines) + 1 ELSE CHOOSE j \in closers : \A k \in closers : j <= k

\* The lines that open a fence are those that come after the end of all fences opened before.
AreOpenings(lines, S) ==
    \A i \in 1 .. Len(lines) :
        i \in S <=> lines[i].kind = "fence" /\ \A j \in S : j < i => EndOf(lines, j) < i

Openings(lines) == CHOOSE S \in SUBSET (1 .. Len(lines)) : AreOpenings(lines, S)

\* What some of the lines say of a key, all together.
AllNames(lines, key, places) ==
    LET said == {i \in places : lines[i].kind = "names" /\ lines[i].key = key}
    IN  IF said = {} THEN Unset ELSE UNION {lines[i].names : i \in said}

\* What is read of an AGENTS.md are the lines of its first agent-tools block, up to the fence
\* that closes it, and a block shown inside another fence is not one.
FirstBlockIsRead ==
    kind = "document" =>
        LET blocks == {i \in Openings(input) : input[i].info = "agent-tools"}
            start == CHOOSE i \in blocks : \A j \in blocks : i <= j
            inside == start + 1 .. EndOf(input, start) - 1
            read == Parse(input)
        IN  /\ read.found = (blocks # {})
            /\ IF blocks = {} THEN read = NoBlock
               ELSE /\ read.tools = AllNames(input, "tools", inside)
                    /\ read.disable = AllNames(input, "disable", inside)

-----------------------------------------------------------------------------
\* record-changes

LastWord(changes, p) ==
    changes[Max({i \in DOMAIN changes : changes[i].path = p})].deleted

\* What git sees of a path in the working tree: nothing of one the index does not know and
\* that is ignored, though a file may be there.
Sight(s, p) == IF s.index[p] = Away /\ p \in s.ignored THEN Away ELSE s.work[p]

\* Whatever was staged, unstaged, renamed, ignored or taken out of the index, record-changes
\* ends with a deletion for a path exactly if git no longer sees it there: it is gone, or it
\* was taken out of the index and is ignored.  It knows every path that differs from the
\* commit.  Two cases are left out: a conflict of a merge, and, without --since, a file
\* renamed in the index and then deleted, which is not recorded as deleted.
PlanFitsTree ==
    kind = "git" =>
        \A since \in BOOLEAN :
            LET changes == GitChanges(input, since)
            IN  \A p \in Path :
                  \/ p \in DOMAIN input.clash
                  \/ ~since /\ input.work[p] = Away /\ OldNames(Renames(input, input.index), p) # {}
                  \/ IF \E i \in DOMAIN changes : changes[i].path = p
                     THEN LastWord(changes, p) = (Sight(input, p) = Away)
                     ELSE Sight(input, p) = input.head[p]

\* Every change selected is recorded with a reason or named as missing one; a key that gives
\* a reason is never reported as unused; and a call that is refused goes through when the
\* lines of its template are added.
ReasonsAreAccounted ==
    kind = "record" =>
        LET changes == input.changes
            reasons == input.reasons
            missing == MissingReasons(changes, reasons, FALSE, input.only)
            unused == UnusedReasons(changes, reasons, input.only)
            again == reasons \o Template(missing)
        IN  /\ \A c \in ToSet(Selected(changes, input.only)) :
                 \/ c.path \in missing
                 \/ ReasonFor(reasons, c.path) \in DOMAIN reasons \ unused
            /\ \A c \in ToSet(changes) : OnlyAllows(input.only, c.path) =>
                 \/ c.path \in Artifact
                 \/ ReasonFor(again, c.path) # NoReason /\ c \in ToSet(Planned(changes, again, FALSE, input.only))

-----------------------------------------------------------------------------
\* Scope

\* A map root that is missing stops the walk: the files that other roots still have do not
\* become the whole map.  And a walk stays below the directories configured, or next to and
\* below the files configured.
MissingNeverWidens ==
    kind = "tree" =>
        \A maps \in Lists : maps # {} =>
            LET scope == Detect(input, maps, {})
                files == Collect(input, scope, {})
            IN  /\ (\E e \in maps : LooksLikeDir(e) /\ e.path \notin input.dirs \cup input.files) => files = {}
                /\ \A f \in files : \E e \in maps :
                     \/ Below(f, e.path)
                     \/ e.path \in input.files /\ Below(f, Parent(e.path))

\* The roots init writes work: if a directory that is not skipped has a source file not too
\* deep down, the scope they give is no error, and with nothing called src they leave none of
\* those files out; if there is none, the error names the one directory to create.
InitRootsWork ==
    kind = "tree" =>
        LET roots == DefaultMapRoots(input, src, depth)
            scope == Detect(input, {[path |-> r, ext |-> FALSE] : r \in roots}, {})
            found == {f \in input.files : /\ Name(f) \in input.sources
                                          /\ Len(f) \in 2 .. depth + 2
                                          /\ \A i \in 1 .. Len(f) - 1 : ~SkipDir(input, f[i])}
        IN  /\ (found # {} /\ ~scope.container) => AllowsWalk(scope)
            /\ <<src>> \notin input.dirs \cup input.files =>
                 IF found = {} THEN scope.missing = {<<src>>}
                 ELSE scope.container \/ found \subseteq Collect(input, scope, {})
=============================================================================
