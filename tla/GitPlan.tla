------------------------------ MODULE GitPlan ------------------------------
(***************************************************************************)
(* What record-changes plans before it writes anything (api.rs:            *)
(* record_changes_opts and its helpers): the changes git reports, read     *)
(* line by line, those selected, and the reason each one gets.             *)
(*                                                                         *)
(* The state of a path is what the commit, the index and the working tree  *)
(* hold of it, whether it is ignored, and whether a merge left it in       *)
(* conflict.  The lines git prints for it are external; how they are read  *)
(* is the code's.  A key of the reasons is an exact path, a directory (it  *)
(* ends in a slash) or a glob, given by the paths it covers and its        *)
(* length.  File names have no equals sign, no line break and nothing git  *)
(* would quote in them.                                                    *)
(***************************************************************************)
EXTENDS Integers, Sequences, FiniteSets, SequencesExt

CONSTANTS
    Path,       \* in the order git lists them
    Artifact,   \* the paths Wikifier writes itself
    Away,       \* the state of a path that is not there
    NoPath,     \* a line that names one path
    NoReason    \* there is no reason

ASSUME GitPlanAssumption ==
    /\ IsFiniteSet(Path)
    /\ NoPath \notin Path
    /\ NoReason \notin Nat

\* An entry of a list that is kept, or not.
Kept(test, entry) == IF test THEN <<entry>> ELSE <<>>

-----------------------------------------------------------------------------
\* git.  s: head, index and work are functions from Path to contents or Away; ignored are the
\* paths an exclude pattern names; clash are the conflicted paths, with the two letters git
\* shows.

\* A path that is gone since the commit and a new one with its content are a rename; contents
\* are such that there is one way to pair them.
Renames(s, now) ==
    {r \in (Path \ DOMAIN s.clash) \X (Path \ DOMAIN s.clash) :
        /\ s.head[r[1]] # Away /\ now[r[1]] = Away
        /\ s.head[r[2]] = Away /\ now[r[2]] = s.head[r[1]]}

OldNames(renames, p) == {r[1] : r \in {q \in renames : q[2] = p}}

Letter(old, new) ==
    CASE old = new -> " " [] old # new /\ old = Away -> "A" [] old # new /\ new = Away -> "D"
      [] OTHER -> "M"

\* The line of a path the index or the commit knows; none if there is nothing to say.
StatusLine(s, p) ==
    LET staged == Letter(s.head[p], s.index[p])
        edited == IF s.index[p] = Away THEN " " ELSE Letter(s.index[p], s.work[p])
        from == OldNames(Renames(s, s.index), p)
        moved == \E r \in Renames(s, s.index) : r[1] = p
    IN  IF p \in DOMAIN s.clash THEN <<[code |-> s.clash[p], from |-> NoPath, path |-> p]>>
        ELSE IF from # {} THEN <<[code |-> <<"R", edited>>, from |-> CHOOSE f \in from : TRUE, path |-> p]>>
        ELSE IF moved \/ <<staged, edited>> = <<" ", " ">> THEN <<>>
        ELSE <<[code |-> <<staged, edited>>, from |-> NoPath, path |-> p]>>

Ordered == SetToSeq(Path)

\* A file the index does not know is listed unless it is ignored.
Untracked(s, p) ==
    s.index[p] = Away /\ s.work[p] # Away /\ p \notin s.ignored /\ p \notin DOMAIN s.clash

UntrackedLines(s) ==
    FlattenSeq([i \in DOMAIN Ordered |->
        Kept(Untracked(s, Ordered[i]), [code |-> <<"?", "?">>, from |-> NoPath, path |-> Ordered[i]])])

Porcelain(s) ==
    FlattenSeq([i \in DOMAIN Ordered |-> StatusLine(s, Ordered[i])]) \o UntrackedLines(s)

\* git diff --name-status against the commit: what the index does not know is deleted, and
\* renames are looked for, copies are not.
Shown(s) == [p \in Path |-> IF s.index[p] = Away THEN Away ELSE s.work[p]]

NameLine(s, p) ==
    LET from == OldNames(Renames(s, Shown(s)), p)
        moved == \E r \in Renames(s, Shown(s)) : r[1] = p
        letter == Letter(s.head[p], Shown(s)[p])
    IN  IF from # {} THEN <<[code |-> <<"R">>, from |-> CHOOSE f \in from : TRUE, path |-> p]>>
        ELSE IF moved \/ letter = " " THEN <<>>
        ELSE <<[code |-> <<letter>>, from |-> NoPath, path |-> p]>>

NameStatus(s) == FlattenSeq([i \in DOMAIN Ordered |-> NameLine(s, Ordered[i])])

-----------------------------------------------------------------------------
\* Reading the lines

Change(p, gone) == [path |-> p, deleted |-> gone]

\* Mutant: only the letter of the index is looked at.
ReadStatusIndexOnly(line) ==
    IF line.from # NoPath
      THEN <<Change(line.from, TRUE), Change(line.path, FALSE)>>
      ELSE <<Change(line.path, line.code[1] = "D")>>

\* parse_porcelain: a D in either place is a deletion, a rename is a deletion and a change.
ReadStatus(line) ==
    IF line.from # NoPath
      THEN <<Change(line.from, TRUE), Change(line.path, FALSE)>>
      ELSE <<Change(line.path, "D" \in ToSet(line.code))>>

\* parse_name_status: a copy is read as a rename.
ReadNameStatus(line) ==
    IF line.code[1] \in {"R", "C"}
      THEN <<Change(line.from, TRUE), Change(line.path, FALSE)>>
      ELSE <<Change(line.path, line.code[1] = "D")>>

GitChanges(s, since) ==
    IF since
      THEN FlattenSeq([i \in DOMAIN NameStatus(s) |-> ReadNameStatus(NameStatus(s)[i])])
             \o [i \in DOMAIN UntrackedLines(s) |-> Change(UntrackedLines(s)[i].path, FALSE)]
      ELSE FlattenSeq([i \in DOMAIN Porcelain(s) |-> ReadStatus(Porcelain(s)[i])])

-----------------------------------------------------------------------------
\* Reasons

\* Mutant: a directory covers what is below it, not its own name.
KeyMatchesBelow(key, p) == p \in key.covers /\ (key.kind = "dir" => p # key.self)

\* reason_key_matches
KeyMatches(key, p) == p \in key.covers

\* The first of the longest keys of one kind that match.
Longest(reasons, kind, p) ==
    LET hits == {i \in DOMAIN reasons : reasons[i].kind = kind /\ p \in reasons[i].covers}
    IN  {i \in hits : \A j \in hits : \/ reasons[j].len < reasons[i].len
                                      \/ reasons[j].len = reasons[i].len /\ i <= j}

\* reason_for: the place of the reason in the list.  The exact path, then the longest
\* directory, then the longest glob.
ReasonFor(reasons, p) ==
    LET exact == {i \in DOMAIN reasons : reasons[i].kind = "exact" /\ p \in reasons[i].covers}
    IN  IF exact # {} THEN CHOOSE i \in exact : \A j \in exact : i <= j
        ELSE IF Longest(reasons, "dir", p) # {} THEN CHOOSE i \in Longest(reasons, "dir", p) : TRUE
        ELSE IF Longest(reasons, "glob", p) # {} THEN CHOOSE i \in Longest(reasons, "glob", p) : TRUE
        ELSE NoReason

OnlyAllows(only, p) == only = <<>> \/ \E i \in DOMAIN only : KeyMatches(only[i], p)

Selected(changes, only) ==
    LET chosen(c) == c.path \notin Artifact /\ OnlyAllows(only, c.path)
    IN  FlattenSeq([i \in DOMAIN changes |-> Kept(chosen(changes[i]), changes[i])])

\* The changes without a reason, and the template the reply makes of them.
MissingReasons(changes, reasons, default, only) ==
    {c.path : c \in {c \in ToSet(Selected(changes, only)) : ReasonFor(reasons, c.path) = NoReason /\ ~default}}

Template(missing) ==
    LET list == SetToSeq(missing)
    IN  [i \in DOMAIN list |-> [kind |-> "exact", len |-> 1, covers |-> {list[i]}, self |-> list[i]]]

UnusedReasons(changes, reasons, only) ==
    {i \in DOMAIN reasons : \A c \in ToSet(Selected(changes, only)) : ~KeyMatches(reasons[i], c.path)}

\* What is recorded, in order; nothing as long as one reason is missing.
Planned(changes, reasons, default, only) ==
    IF MissingReasons(changes, reasons, default, only) # {} THEN <<>> ELSE Selected(changes, only)
=============================================================================
