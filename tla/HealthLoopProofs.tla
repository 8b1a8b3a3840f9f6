-------------------------- MODULE HealthLoopProofs --------------------------
(***************************************************************************)
(* The safety properties of the documentation health loop, for any files,  *)
(* contents, wikis and histories of both, and any number of jobs and       *)
(* deaths.                                                                 *)
(*                                                                         *)
(* Each has an invariant of its own, because each is about a moment        *)
(* between jobs and has to be carried through them: Journaled also covers  *)
(* file_health.md, which is read back when file_health.json has no rows,   *)
(* the rows a check has in memory and the row a job is about to write;     *)
(* Earned what mark_green found and has not written; Queued the file a job *)
(* is about to queue, and those it is about to take out; Settling what a   *)
(* check has looked at so far, and what it has still to write.             *)
(***************************************************************************)
EXTENDS HealthLoop, TLAPS, SequenceTheorems, FiniteSetTheorems, WellFoundedInduction

\* The rows of a health file.
Table == [File -> Row \cup {NoRow}]

\* The file a job is at is one, wherever it goes on with it.
AtFile ==
    (\/ pc \in {"row", "queue", "red", "unmap", "drop", "mark", "green", "check_queue"}
     \/ pc = "md" /\ after \in {"queue", "unmap", "drop"}) => file \in File

\* Nothing is left over from the job before.
Fresh ==
    /\ pc = "idle" => DOMAIN plan = {} /\ ~changed
    /\ pc = "md" => after # "idle"

\* Of the right type, with a job that knows where it is.
Typed == TypeOK /\ AtFile /\ Fresh

\* The rows of a table that wait for work have their reason in the journal.
Explained(table, lines) ==
    \A f \in File :
        (table[f] # NoRow /\ table[f].status # "green" /\ table[f].reason # "stub") =>
            \E line \in lines : line.file = f /\ line.reason = table[f].reason

\* The journal comes before the rows, in memory and on disk.
Journaled ==
    /\ Explained(json, journal) /\ Explained(md, journal) /\ Explained(rows, journal)
    /\ pc \in {"row", "red"} => \E line \in journal : line.file = file /\ line.reason = "why"

\* A Green row that says that its wiki was verified against the content it has the hash of.
Claims(row) == row # NoRow /\ row.status = "green" /\ row.verification = "verified" /\ row.hash # NoHash

\* What a check of a wiki makes sure of.
Checked(symbols, hash, doc) == symbols = Symbols[hash] /\ doc # NoWiki /\ symbols \subseteq Mentions[doc]

\* Every such row of the table was checked, but for the files in doubt.
Backed(table, doubted) ==
    \A f \in File \ doubted : Claims(table[f]) => Checked(table[f].symbols, table[f].hash, table[f].wiki)

\* A row claims only what mark_green found and nobody has touched since; file_health.md claims nothing.
Earned ==
    /\ Backed(json, unbacked) /\ Backed(rows, unbacked)
    /\ \A f \in File : md[f] # NoRow => md[f].hash = NoHash
    /\ (pc = "green" /\ file \notin unbacked /\ found.verification = "verified" /\ Exists(file)) =>
          Checked(found.symbols, Now(file), WikiNow(file))

\* In the scope of the map, and never gone so far.
Steady(f) == f \in Mapped /\ \A i \in 1 .. at[f] : History[f][i] # Gone
\* Yellow, and not a stub.
Waits(table, f) == table[f] # NoRow /\ table[f].status = "yellow" /\ table[f].reason # "stub"

\* Who waits is queued or is what the job is about to queue:
\* On disk.
JsonQueued ==
    \A f \in File : Steady(f) /\ Waits(json, f) =>
        f \in pending \/ (f = file /\ (pc = "queue" \/ (pc = "md" /\ after = "queue")))
\* In the memory of a check.
RowsQueued ==
    pc \in {"check", "check_queue"} =>
        \A f \in File : Steady(f) /\ Waits(rows, f) => f \in pending \/ (f = file /\ pc = "check_queue")

\* file_health.md is what file_health.json says, but for a write of both.
MdSame == pc # "md" => \A f \in File : md[f] = Stripped(json[f])

\* What is about to leave the queue does not wait.
Leaving == (pc \in {"unmap", "drop"} \/ (pc = "md" /\ after \in {"unmap", "drop"})) => ~Waits(json, file)

\* So it is while no job died.
Queued == crashes = 0 => JsonQueued /\ RowsQueued /\ MdSame /\ Leaving

\* What check_changes watches when it finds these rows, and the hash it compares a file with.
WatchedIn(table) == {f \in File : table[f] # NoRow \/ index[f] # NoHash \/ (f \in Monitored /\ Exists(f))}

Known(table, f) == IF table[f] # NoRow /\ table[f].hash # NoHash THEN table[f].hash ELSE index[f]

\* A watched file that is gone is Red, and one that is not what is known of it is flagged.
Named(table, f) ==
    f \in WatchedIn(table) =>
        IF Exists(f) THEN Known(table, f) \in {NoHash, Now(f)} \/ Flagged(table[f])
                     ELSE table[f] # NoRow /\ table[f].status = "red"

\* While nothing moves, check_changes has named what it has looked at, and then writes just that.
Settling ==
    settled =>
        /\ pc \in {"idle", "check", "check_queue", "md", "next"} /\ DOMAIN plan = {}
        /\ pc \in {"check", "check_queue"} =>
              /\ \A f \in File \ left : Named(rows, f)
              /\ IF changed THEN \E f \in File : rows[f] # NoRow ELSE rows = Health
        /\ pc \in {"idle", "md", "next"} => \A f \in File : Named(Health, f)
        /\ pc = "md" => after = "next" /\ \E f \in File : json[f] # NoRow

IInv == Typed /\ Journaled /\ Earned /\ Queued /\ Settling

-----------------------------------------------------------------------------
\* Operators

\* Jobs take their files in the order of the names: there is a first one among any that are left.
LEMMA Least == \A S \in SUBSET Nat : S # {} => Min(S) \in S
<1> SUFFICES ASSUME NEW S \in SUBSET Nat, S # {} PROVE Min(S) \in S
  OBVIOUS
<1> DEFINE below(x) == {y \in S : y =< x}
           T == {below(x) : x \in S}
<1>1. T \subseteq FiniteSubsetsOf(S)
  <2>1. \A x \in S : IsFiniteSet(below(x))
    <3> TAKE x \in S
    <3>1. below(x) \in SUBSET Nat /\ x \in Nat /\ \A y \in below(x) : y =< x
      OBVIOUS
    <3> HIDE DEF below
    <3> QED
      BY <3>1, FS_BoundedSetOfNaturals
  <2> QED
    BY <2>1 DEF FiniteSubsetsOf
<1>2. T # {}
  OBVIOUS
<1>3. PICK t \in T : \A u \in T : ~(<<u, t>> \in StrictSubsetOrdering(S))
  <2> HIDE DEF T
  <2> QED
    BY <1>1, <1>2, FS_StrictSubsetOrderingWellFounded, WFMin
<1>4. PICK x \in S : t = below(x)
  OBVIOUS
<1>5. \A y \in S : x =< y
  <2> SUFFICES ASSUME NEW y \in S, y < x PROVE FALSE
    OBVIOUS
  <2>1. below(y) \in T
    OBVIOUS
  <2>2. \A z \in below(y) : z \in Nat /\ z \in S /\ z =< y
    OBVIOUS
  <2>3. x \in Nat /\ y \in Nat
    OBVIOUS
  <2>4. \A z \in below(y) : z \in below(x)
    BY <2>2, <2>3
  <2>5. x \in below(x) /\ x \notin below(y)
    BY <2>3
  <2> HIDE DEF below, T
  <2>6. below(y) \in SUBSET S /\ below(x) \in SUBSET S
    BY DEF below
  <2> QED
    BY <1>3, <1>4, <2>1, <2>4, <2>5, <2>6 DEF StrictSubsetOrdering
<1> QED
  BY <1>5 DEF Min

\* What a job reads is a table of rows.
LEMMA HealthType == TypeOK => Health \in Table
BY DEF TypeOK, Health, Table

\* A source has a content or is gone; a wiki is one or is not there.
LEMMA NowType ==
    TypeOK => \A f \in File : /\ Now(f) \in Content \cup {Gone}
                              /\ HashNow(f) \in Hash
                              /\ Exists(f) => Now(f) \in Content /\ HashNow(f) = Now(f)
                              /\ WikiNow(f) \in Doc \cup {NoWiki}
<1> SUFFICES ASSUME TypeOK, NEW f \in File
             PROVE  /\ Now(f) \in Content \cup {Gone}
                    /\ WikiNow(f) \in Doc \cup {NoWiki}
  BY DEF HashNow, Hash, Exists
<1>1. Now(f) \in Content \cup {Gone}
  BY HealthLoopAssumption, ElementOfSeq DEF HealthLoopAssumption, TypeOK, Now
<1>2. WikiNow(f) \in Doc \cup {NoWiki}
  BY HealthLoopAssumption, ElementOfSeq DEF HealthLoopAssumption, TypeOK, WikiNow
<1> QED
  BY <1>1, <1>2

\* A renewed row says what it was given, and keeps the symbols and the wiki of the old one.
LEMMA RenewedRow ==
    \A status \in {"green", "yellow", "red"},
       reason \in {"stub", "why", "changed", "missing", "marked", "healed"},
       hash \in Hash,
       verification \in {"", "no_wiki", "unchecked", "forced", "verified", "deleted"},
       old \in Row \cup {NoRow} :
           /\ Renewed(status, reason, hash, verification, old) \in Row
           /\ Renewed(status, reason, hash, verification, old) # NoRow
           /\ Renewed(status, reason, hash, verification, old).status = status
           /\ Renewed(status, reason, hash, verification, old).reason = reason
           /\ Renewed(status, reason, hash, verification, old).hash = hash
<1> TAKE status \in {"green", "yellow", "red"},
         reason \in {"stub", "why", "changed", "missing", "marked", "healed"},
         hash \in Hash,
         verification \in {"", "no_wiki", "unchecked", "forced", "verified", "deleted"},
         old \in Row \cup {NoRow}
<1>1. Renewed(status, reason, hash, verification, old) \in Row
  BY DEF Renewed, Row
<1>2. Renewed(status, reason, hash, verification, old) # NoRow
  BY <1>1, HealthLoopAssumption DEF HealthLoopAssumption
<1> QED
  BY <1>1, <1>2 DEF Renewed

\* file_health.md keeps the status and the reason of a row, and no hash.
LEMMA StrippedRow ==
    /\ Stripped(NoRow) = NoRow
    /\ \A row \in Row : /\ Stripped(row) \in Row /\ Stripped(row) # NoRow /\ row # NoRow
                        /\ Stripped(row).status = row.status /\ Stripped(row).reason = row.reason
                        /\ Stripped(row).hash = NoHash
<1>1. Stripped(NoRow) = NoRow
  BY DEF Stripped
<1>2. ASSUME NEW row \in Row
      PROVE  /\ Stripped(row) \in Row /\ row # NoRow
             /\ Stripped(row).status = row.status /\ Stripped(row).reason = row.reason
             /\ Stripped(row).hash = NoHash
  <2> DEFINE bare == [row EXCEPT !.hash = NoHash, !.verification = "", !.symbols = {}, !.wiki = NoWiki]
  <2>1. row # NoRow
    BY HealthLoopAssumption DEF HealthLoopAssumption
  <2>2. bare \in Row /\ bare.status = row.status /\ bare.reason = row.reason /\ bare.hash = NoHash
    BY DEF Row, Hash
  <2>3. Stripped(row) = bare
    BY <2>1 DEF Stripped
  <2> HIDE DEF bare
  <2> QED
    BY <2>1, <2>2, <2>3
<1> QED
  BY <1>1, <1>2, HealthLoopAssumption DEF HealthLoopAssumption

\* The file a job takes next is one it has to take.
LEMMA NextFile == TypeOK => (DOMAIN plan # {} => Current \in DOMAIN plan) /\ (left # {} => Next1 \in left)
BY Least, HealthLoopAssumption DEF HealthLoopAssumption, TypeOK, Current, Next1

-----------------------------------------------------------------------------
\* Types

\* What a job keeps to itself.
LocalOK ==
    /\ DOMAIN plan \subseteq File /\ \A f \in DOMAIN plan : plan[f] \in {"record", "delete"}
    /\ file \in File \cup {0}
    /\ flags \in [green : BOOLEAN, force : BOOLEAN]
    /\ found \in [symbols : SUBSET Symbol,
                 verification : {"", "no_wiki", "unchecked", "forced", "verified"}]
    /\ rows \in Table /\ left \subseteq File /\ changed \in BOOLEAN

SourcesOK ==
    /\ at \in [File -> Nat] /\ wikiAt \in [File -> Nat]
    /\ \A f \in File : at[f] \in 1 .. Len(History[f]) /\ wikiAt[f] \in 1 .. Len(WikiHistory[f])

LineOf == [action : {"record-change", "record-deletion", "check-changes"}, file : File,
           reason : {"why", "changed", "missing"}]

StateOK ==
    /\ json \in Table /\ md \in Table
    /\ journal \subseteq LineOf
    /\ pending \subseteq File
    /\ index \in [File -> Hash]

PlaceOK ==
    /\ pc \in {"idle", "next", "md", "row", "queue", "red", "unmap", "drop", "mark", "green",
              "check", "check_queue", "prune", "seed"}
    /\ after \in {"idle", "next", "queue", "unmap", "drop", "prune"}

MarksOK ==
    /\ settled \in BOOLEAN /\ unbacked \subseteq File
    /\ jobs \in 0 .. MaxJobs /\ crashes \in 0 .. MaxCrashes

\* The types, part by part.
LEMMA Parts == TypeOK <=> SourcesOK /\ StateOK /\ PlaceOK /\ LocalOK /\ MarksOK
BY DEF TypeOK, SourcesOK, StateOK, PlaceOK, LocalOK, MarksOK, Table, LineOf

\* What a step leaves alone keeps its type.
LEMMA Untouched ==
    /\ SourcesOK /\ UNCHANGED sources => SourcesOK'
    /\ StateOK /\ UNCHANGED state => StateOK'
    /\ LocalOK /\ UNCHANGED local => LocalOK'
    /\ MarksOK /\ UNCHANGED marks => MarksOK'
BY DEF SourcesOK, StateOK, LocalOK, MarksOK, sources, state, local, marks

\* The lines jobs write are lines.
LEMMA LineType ==
    \A action \in {"record-change", "record-deletion", "check-changes"}, f \in File,
       reason \in {"why", "changed", "missing"} :
           /\ Line(action, f, reason) \in LineOf
           /\ Line(action, f, reason).file = f /\ Line(action, f, reason).reason = reason
BY DEF Line, LineOf

\* A job that is over has nothing left.
LEMMA Forgotten == ForgetLocal => LocalOK' /\ DOMAIN plan' = {} /\ ~changed'
<1> SUFFICES ASSUME ForgetLocal PROVE LocalOK' /\ DOMAIN plan' = {} /\ ~changed'
  OBVIOUS
<1>1. DOMAIN plan' = {}
  BY DEF ForgetLocal, NoPlan
<1>2. rows' \in Table
  BY DEF ForgetLocal, NoRows, Table
<1> QED
  BY <1>1, <1>2 DEF ForgetLocal, LocalOK, NoFlags, NoFinding

\* An item that is done with leaves the plan, the others stay.
LEMMA Finished ==
    ASSUME TypeOK, NEW f, Finish(f)
    PROVE  DOMAIN plan' \subseteq File /\ \A g \in DOMAIN plan' : plan'[g] \in {"record", "delete"}
<1>1. plan' = [g \in DOMAIN plan \ {f} |-> plan[g]]
  BY DEF Finish
<1>2. DOMAIN plan' = DOMAIN plan \ {f} /\ \A g \in DOMAIN plan' : plan'[g] = plan[g]
  BY <1>1
<1> QED
  BY <1>2 DEF TypeOK

\* A table with a new row is a table.
LEMMA UpsertType ==
    ASSUME TypeOK, NEW f, NEW row \in Row, NEW l, Upsert(f, row, l)
    PROVE  json' \in Table /\ pc' = "md" /\ after' = l
BY HealthType DEF Upsert, WriteJson, Table

\* A project without rows, journal or jobs has the right types.
LEMMA TypeInit == Init => Typed
<1> SUFFICES ASSUME Init PROVE Typed
  OBVIOUS
<1> USE HealthLoopAssumption DEF HealthLoopAssumption
<1>1. at \in [File -> Nat] /\ wikiAt \in [File -> Nat]
  BY DEF Init
<1>2. \A f \in File : at[f] \in 1 .. Len(History[f]) /\ wikiAt[f] \in 1 .. Len(WikiHistory[f])
  <2> TAKE f \in File
  <2>1. Len(History[f]) \in Nat \ {0} /\ Len(WikiHistory[f]) \in Nat \ {0}
    BY EmptySeq, LenProperties
  <2>2. at[f] = 1 /\ wikiAt[f] = 1
    BY DEF Init
  <2> QED
    BY <2>1, <2>2
<1>3. DOMAIN plan = {} /\ NoRows \in [File -> Row \cup {NoRow}]
  BY DEF Init, NoPlan, NoRows
<1>4. index \in [File -> Hash]
  BY DEF Init, Hash
<1> QED
  <2>1. SourcesOK
    BY <1>1, <1>2 DEF SourcesOK
  <2>2. StateOK
    BY <1>3, <1>4 DEF Init, StateOK, Table
  <2>3. LocalOK
    BY <1>3 DEF Init, LocalOK, Table, NoFlags, NoFinding
  <2>4. MarksOK /\ PlaceOK
    <3>1. 0 \in 0 .. MaxJobs /\ 0 \in 0 .. MaxCrashes
      OBVIOUS
    <3>2. MarksOK
      BY <3>1 DEF Init, MarksOK
    <3> QED
      BY <3>2 DEF Init, PlaceOK
  <2>5. AtFile /\ Fresh
    BY <1>3 DEF Init, AtFile, Fresh
  <2> QED
    BY <2>1, <2>2, <2>3, <2>4, <2>5, Parts DEF Typed

\* Each step of a job, of somebody who edits, and each death keeps the types.
LEMMA TypeStep == Typed /\ [Next]_vars => TypeOK'
<1> SUFFICES ASSUME TypeOK, AtFile, Fresh, [Next]_vars PROVE TypeOK'
  BY DEF Typed
<1> USE DEF sources, state, local, marks
<1>a. Health \in Table /\ json \in Table /\ md \in Table /\ rows \in Table /\ index \in [File -> Hash]
  BY HealthType DEF TypeOK, Table
<1>b. ASSUME jobs < MaxJobs PROVE jobs + 1 \in 0 .. MaxJobs
  <2>1. MaxJobs \in Nat /\ jobs \in 0 .. MaxJobs
    BY HealthLoopAssumption DEF HealthLoopAssumption, TypeOK
  <2> QED
    BY <1>b, <2>1
<1>c. ASSUME crashes < MaxCrashes PROVE crashes + 1 \in 0 .. MaxCrashes
  <2>1. MaxCrashes \in Nat /\ crashes \in 0 .. MaxCrashes
    BY HealthLoopAssumption DEF HealthLoopAssumption, TypeOK
  <2> QED
    BY <1>c, <2>1
<1>p. SourcesOK /\ StateOK /\ PlaceOK /\ LocalOK /\ MarksOK
  BY Parts
<1>q. SourcesOK' /\ StateOK' /\ PlaceOK' /\ LocalOK' /\ MarksOK' => TypeOK'
  BY DEF TypeOK, SourcesOK, StateOK, PlaceOK, LocalOK, MarksOK, Table, LineOf
<1>1. ASSUME NEW S \in SUBSET File \ {{}}, NEW green \in BOOLEAN, Record(S, green) PROVE TypeOK'
  <2>1. DOMAIN plan' \subseteq File /\ \A f \in DOMAIN plan' : plan'[f] \in {"record", "delete"}
    BY <1>1 DEF Record
  <2> QED
    BY <1>1, <1>b, <2>1 DEF Record, Starts, TypeOK
<1>2. ASSUME NEW f \in File, RecordDeletion(f) PROVE TypeOK'
  <2>1. DOMAIN plan' \subseteq File /\ \A g \in DOMAIN plan' : plan'[g] \in {"record", "delete"}
    BY <1>2 DEF RecordDeletion
  <2> QED
    BY <1>2, <1>b, <2>1 DEF RecordDeletion, Starts, TypeOK
<1>3. ASSUME NEW f \in File, NEW force \in BOOLEAN, MarkGreen(f, force) PROVE TypeOK'
  BY <1>3, <1>b DEF MarkGreen, Starts, TypeOK
<1>4. CASE CheckChanges
  BY <1>4, <1>a DEF CheckChanges, Looked, Watched, TypeOK, Table
<1>5. ASSUME NEW table \in Table, NEW l \in {"next", "queue", "unmap", "drop", "prune"}, WriteJson(table, l)
      PROVE  json' \in [File -> Row \cup {NoRow}] /\ pc' = "md" /\ after' = l
  BY <1>5 DEF WriteJson, Table
<1>6. ASSUME NEW table \in Table, Rewrite(table, "next")
      PROVE  json' \in [File -> Row \cup {NoRow}] /\ pc' \in {pc, "md"} /\ after' \in {after, "next"}
  BY <1>5, <1>6, <1>a DEF Rewrite, Table
<1>7. CASE HealStubs
  <2> DEFINE healed == {f \in File : Health[f] # NoRow /\ Health[f].reason = "stub" /\ WikiNow(f) \in Long}
             table == [f \in File |-> IF f \in healed
                                        THEN [Health[f] EXCEPT !.status = "green", !.reason = "healed",
                                                               !.verification = "verified"]
                                        ELSE Health[f]]
  <2>1. table \in Table
    <3>1. ASSUME NEW row \in Row
          PROVE  [row EXCEPT !.status = "green", !.reason = "healed", !.verification = "verified"] \in Row
      BY DEF Row
    <3> QED
      BY <1>a, <3>1 DEF Table
  <2>2. Rewrite(table, "next") /\ unbacked' = unbacked \cup healed /\ healed \subseteq File
    BY <1>7 DEF HealStubs
  <2> HIDE DEF table, healed
  <2>3. json' \in [File -> Row \cup {NoRow}] /\ pc' \in {pc, "md"} /\ after' \in {after, "next"}
    BY <1>6, <2>1, <2>2
  <2>4. /\ jobs' \in 0 .. MaxJobs /\ settled' = FALSE
        /\ UNCHANGED <<sources, md, journal, pending, index, local, crashes>>
    BY <1>7, <1>b DEF HealStubs, Housekeeping
  <2>5. unbacked' \in SUBSET File
    BY <1>p, <2>2 DEF MarksOK
  <2>6. SourcesOK' /\ LocalOK' /\ MarksOK'
    BY <1>p, <2>4, <2>5 DEF SourcesOK, LocalOK, MarksOK
  <2>7. StateOK' /\ PlaceOK'
    BY <1>p, <2>3, <2>4 DEF StateOK, PlaceOK, Table
  <2> QED
    BY <1>q, <2>6, <2>7
<1>8. ASSUME NEW force \in BOOLEAN, SeedSourceHashes(force) PROVE TypeOK'
  <2> DEFINE seeded == {f \in File : /\ Health[f] # NoRow
                                     /\ Health[f].status = "green"
                                     /\ Health[f].hash = NoHash \/ force
                                     /\ Exists(f)}
             table == [f \in File |-> IF f \in seeded THEN [Health[f] EXCEPT !.hash = Now(f)] ELSE Health[f]]
  <2>1. table \in Table
    <3>1. ASSUME NEW row \in Row, NEW f \in File, Exists(f) PROVE [row EXCEPT !.hash = Now(f)] \in Row
      BY <3>1, NowType DEF Row, Hash
    <3> QED
      BY <1>a, <3>1 DEF Table
  <2>2. Rewrite(table, "next") /\ unbacked' = unbacked \cup seeded /\ seeded \subseteq File
    BY <1>8 DEF SeedSourceHashes
  <2> HIDE DEF table, seeded
  <2>3. json' \in [File -> Row \cup {NoRow}] /\ pc' \in {pc, "md"} /\ after' \in {after, "next"}
    BY <1>6, <2>1, <2>2
  <2>4. /\ jobs' \in 0 .. MaxJobs /\ settled' = FALSE
        /\ UNCHANGED <<sources, md, journal, pending, index, local, crashes>>
    BY <1>8, <1>b DEF SeedSourceHashes, Housekeeping
  <2>5. unbacked' \in SUBSET File
    BY <1>p, <2>2 DEF MarksOK
  <2>6. SourcesOK' /\ LocalOK' /\ MarksOK'
    BY <1>p, <2>4, <2>5 DEF SourcesOK, LocalOK, MarksOK
  <2>7. StateOK' /\ PlaceOK'
    BY <1>p, <2>3, <2>4 DEF StateOK, PlaceOK, Table
  <2> QED
    BY <1>q, <2>6, <2>7
<1>9. ASSUME NEW deletedMissing \in BOOLEAN, PruneHealth(deletedMissing) PROVE TypeOK'
  <2> DEFINE table == [f \in File |-> IF Kept(f) /\ (deletedMissing => Exists(f)) THEN Health[f] ELSE NoRow]
  <2>1. table \in Table
    BY <1>a DEF Table
  <2>2. WriteJson(table, IF deletedMissing THEN "prune" ELSE "next")
    BY <1>9 DEF PruneHealth
  <2> HIDE DEF table
  <2>3. json' \in [File -> Row \cup {NoRow}] /\ pc' = "md" /\ after' \in {"next", "prune"}
    BY <1>5, <2>1, <2>2
  <2> QED
    BY <1>9, <1>b, <2>3 DEF PruneHealth, Housekeeping, TypeOK
<1>10. CASE PruneQueue
  BY <1>10, <1>b DEF PruneQueue, Starts, TypeOK
<1>11. CASE UpdateMaps
  <2>1. index' \in [File -> Hash]
    BY <1>11, NowType DEF UpdateMaps, Hash
  <2> QED
    BY <1>11, <1>b, <2>1 DEF UpdateMaps, Starts, TypeOK
<1>12. CASE WriteMd
  <2>1. md' \in [File -> Row \cup {NoRow}]
    BY <1>12, <1>a, StrippedRow DEF WriteMd, Table
  <2>2. pc' \in {"next", "queue", "unmap", "drop", "prune"}
    BY <1>12 DEF WriteMd, Fresh, TypeOK
  <2> QED
    BY <1>12, <2>1, <2>2 DEF WriteMd, TypeOK
<1>13. CASE End
  BY <1>13, Forgotten DEF End, TypeOK, LocalOK, Table
<1>14. CASE Change
  <2>0. DOMAIN plan \subseteq File /\ DOMAIN plan # {}
    BY <1>14 DEF Change, TypeOK
  <2>1. Current \in File
    BY <2>0, NextFile
  <2>2. CASE Exists(Current)
    <3>1. UNCHANGED <<at, wikiAt, json, md, pending, index, plan, flags, found, rows, left,
                      changed, after, marks>>
      BY <1>14, <2>2 DEF Change
    <3>2. journal' = journal \cup {Line("record-change", Current, "why")} /\ file' = Current /\ pc' = "row"
      BY <1>14, <2>2 DEF Change
    <3>4. journal' \subseteq LineOf
      BY <1>p, <2>1, <3>2, LineType DEF StateOK
    <3>3. StateOK' /\ LocalOK'
      BY <1>p, <2>1, <3>1, <3>2, <3>4 DEF StateOK, LocalOK
    <3> QED
      BY <1>p, <3>1, <3>2, <3>3, <1>q, Untouched DEF PlaceOK
  <2>3. CASE ~Exists(Current)
    <3>1. DOMAIN plan' \subseteq File /\ \A g \in DOMAIN plan' : plan'[g] \in {"record", "delete"}
      BY <1>14, <2>3, Finished DEF Change
    <3> QED
      BY <1>14, <2>3, <3>1 DEF Change, Finish, TypeOK
  <2> QED
    BY <2>2, <2>3
<1>15. CASE ChangeRow
  <2>1. json' \in Table /\ pc' = "md" /\ after' = "queue"
    <3>1. file \in File /\ HashNow(file) \in Hash /\ Health[file] \in Row \cup {NoRow}
      BY <1>15, <1>a, NowType DEF ChangeRow, AtFile, Table
    <3>2. Renewed("yellow", "why", HashNow(file), "", Health[file]) \in Row
      BY <3>1 DEF Renewed, Row
    <3> QED
      BY <1>15, <3>2, UpsertType DEF ChangeRow
  <2> QED
    BY <1>15, <2>1 DEF ChangeRow, TypeOK, Table
<1>16. CASE Queue
  <2>1. file \in File
    BY <1>16 DEF Queue, AtFile
  <2>2. DOMAIN plan' \subseteq File /\ \A g \in DOMAIN plan' : plan'[g] \in {"record", "delete"}
    BY <1>16, Finished DEF Queue, TypeOK
  <2>3. pc' \in {"mark", "next"}
    BY <1>16 DEF Queue, Finish
  <2> QED
    BY <1>16, <2>1, <2>2, <2>3 DEF Queue, TypeOK
<1>17. CASE Deletion
  <2>1. Current \in File
    BY <1>17, NextFile DEF Deletion, TypeOK
  <2>3. journal' \subseteq LineOf
    BY <1>p, <1>17, <2>1, LineType DEF Deletion, StateOK
  <2>2. StateOK' /\ LocalOK'
    BY <1>p, <1>17, <2>1, <2>3 DEF Deletion, StateOK, LocalOK
  <2> QED
    BY <1>p, <1>17, <2>2, <1>q, Untouched DEF Deletion, PlaceOK
<1>18. CASE DeletionRow
  <2>1. json' \in Table /\ pc' = "md" /\ after' = "unmap"
    <3>1. file \in File /\ Health[file] \in Row \cup {NoRow}
      BY <1>18, <1>a DEF DeletionRow, AtFile, Table
    <3> DEFINE hash == IF Health[file] = NoRow THEN NoHash ELSE Health[file].hash
    <3>2. hash \in Hash
      BY <3>1 DEF Row, Hash
    <3>3. Upsert(file, Renewed("red", "why", hash, "deleted", Health[file]), "unmap")
      BY <1>18 DEF DeletionRow
    <3> HIDE DEF hash
    <3>4. Renewed("red", "why", hash, "deleted", Health[file]) \in Row
      BY <3>1, <3>2 DEF Renewed, Row
    <3> QED
      BY <3>3, <3>4, UpsertType
  <2> QED
    BY <1>18, <2>1 DEF DeletionRow, TypeOK, Table
<1>19. CASE Unmap
  BY <1>19 DEF Unmap, TypeOK, Hash
<1>20. CASE UnmapFails
  BY <1>20, <1>c, Finished DEF UnmapFails, Finish, TypeOK
<1>21. CASE Drop
  <2>1. DOMAIN plan' \subseteq File /\ \A g \in DOMAIN plan' : plan'[g] \in {"record", "delete"}
    BY <1>21, Finished DEF Drop
  <2> QED
    BY <1>21, <2>1 DEF Drop, Finish, TypeOK
<1>22. CASE Verify
  <2> DEFINE symbols == SymbolsNow(file)
             doc == WikiNow(file)
             wrong == file \in Extracted /\ Issues(symbols, doc, Health[file])
             verdict == CASE file \notin Extracted -> "unchecked" [] wrong -> "forced" [] OTHER -> "verified"
  <2>1. file \in File
    BY <1>22 DEF Verify, AtFile
  <2>2. symbols \in SUBSET Symbol
    BY <2>1, NowType, HealthLoopAssumption DEF HealthLoopAssumption, SymbolsNow
  <2>3. \/ Finish(file) /\ UNCHANGED found
        \/ \E v \in {"no_wiki", "unchecked", "forced", "verified"} :
              found' = [symbols |-> symbols, verification |-> v] /\ pc' = "green" /\ UNCHANGED plan
    BY <1>22 DEF Verify
  <2>4. UNCHANGED <<sources, state, file, flags, rows, left, changed, after, marks>>
    BY <1>22 DEF Verify
  <2> HIDE DEF symbols
  <2>5. LocalOK' /\ PlaceOK'
    <3>1. CASE Finish(file) /\ UNCHANGED found
      BY <1>p, <2>4, <3>1, Finished DEF Finish, LocalOK, PlaceOK
    <3>2. ASSUME NEW v \in {"no_wiki", "unchecked", "forced", "verified"},
                 found' = [symbols |-> symbols, verification |-> v], pc' = "green", UNCHANGED plan
          PROVE  LocalOK' /\ PlaceOK'
      BY <1>p, <2>2, <2>4, <3>2 DEF LocalOK, PlaceOK
    <3> QED
      BY <2>3, <3>1, <3>2
  <2> QED
    BY <1>p, <1>q, <2>4, <2>5, Untouched
<1>23. CASE Green
  <2> DEFINE row == [status |-> "green", reason |-> "marked", hash |-> HashNow(file),
                     verification |-> found.verification, symbols |-> found.symbols, wiki |-> WikiNow(file)]
  <2>1. file \in File /\ HashNow(file) \in Hash /\ WikiNow(file) \in Doc \cup {NoWiki}
    BY <1>23, NowType DEF Green, AtFile
  <2>2. row \in Row
    BY <2>1 DEF TypeOK, Row
  <2>3. Upsert(file, row, "drop")
    BY <1>23 DEF Green
  <2> HIDE DEF row
  <2>4. json' \in Table /\ pc' = "md" /\ after' = "drop"
    BY <2>2, <2>3, UpsertType
  <2> QED
    BY <1>23, <2>4 DEF Green, TypeOK, Table
<1>24. CASE CheckMissing
  <2> DEFINE old == rows[Next1]
             row == Renewed("red", "missing", IF old = NoRow THEN NoHash ELSE old.hash,
                            IF old = NoRow THEN "" ELSE old.verification, old)
  <2>1. Next1 \in File /\ old \in Row \cup {NoRow}
    BY <1>24, <1>a, NextFile DEF CheckMissing, TypeOK, Table
  <2>2. row \in Row
    BY <2>1 DEF Renewed, Row, Hash
  <2>3. \/ UNCHANGED <<rows, journal, changed>>
        \/ /\ rows' = [rows EXCEPT ![Next1] = row] /\ changed' = TRUE
           /\ journal' = journal \cup {Line("check-changes", Next1, "missing")}
    BY <1>24 DEF CheckMissing
  <2>4. left' = left \ {Next1}
        /\ UNCHANGED <<sources, json, md, pending, index, pc, plan, file, flags, found, after,
                       marks>>
    BY <1>24 DEF CheckMissing
  <2> HIDE DEF row, old
  <2>5. rows' \in Table /\ journal' \subseteq LineOf /\ changed' \in BOOLEAN
    <3>1. Line("check-changes", Next1, "missing") \in LineOf
      BY <2>1, LineType
    <3>2. rows \in Table /\ journal \subseteq LineOf /\ changed \in BOOLEAN
      BY <1>p DEF StateOK, LocalOK
    <3>3. CASE UNCHANGED <<rows, journal, changed>>
      BY <3>2, <3>3
    <3>4. CASE ~UNCHANGED <<rows, journal, changed>>
      BY <2>1, <2>2, <2>3, <3>1, <3>2, <3>4 DEF Table
    <3> QED
      BY <3>3, <3>4
  <2>6. StateOK' /\ LocalOK' /\ PlaceOK'
    BY <1>p, <2>4, <2>5 DEF StateOK, LocalOK, PlaceOK
  <2> QED
    BY <1>p, <1>q, <2>4, <2>6, Untouched
<1>25. CASE CheckSame
  BY <1>25 DEF CheckSame, TypeOK
<1>26. CASE CheckDrift
  <2> DEFINE old == rows[Next1]
             row == Renewed("yellow", "changed", IF old # NoRow /\ old.hash # NoHash THEN old.hash ELSE Now(Next1),
                            IF old = NoRow THEN "" ELSE old.verification, old)
  <2>1. Next1 \in File /\ old \in Row \cup {NoRow} /\ Exists(Next1)
    BY <1>26, <1>a, NextFile DEF CheckDrift, TypeOK, Table
  <2>2. row \in Row
    BY <2>1, NowType DEF Renewed, Row, Hash
  <2>3. /\ rows' = [rows EXCEPT ![Next1] = row] /\ changed' = TRUE
        /\ journal' = journal \cup {Line("check-changes", Next1, "changed")}
        /\ left' = left \ {Next1} /\ file' = Next1 /\ pc' = "check_queue"
        /\ UNCHANGED <<sources, json, md, pending, index, plan, flags, found, after, marks>>
    BY <1>26 DEF CheckDrift
  <2> HIDE DEF row, old
  <2>5. rows' \in Table /\ journal' \subseteq LineOf
    BY <1>p, <1>a, <2>1, <2>2, <2>3, LineType DEF StateOK, Table
  <2>6. StateOK' /\ LocalOK' /\ PlaceOK'
    BY <1>p, <2>1, <2>3, <2>5 DEF StateOK, LocalOK, PlaceOK
  <2> QED
    BY <1>p, <1>q, <2>3, <2>6, Untouched
<1>27. CASE CheckQueue
  BY <1>27 DEF CheckQueue, AtFile, TypeOK
<1>28. CASE CheckWrite
  BY <1>28, <1>a DEF CheckWrite, WriteJson, TypeOK, Table
<1>29. CASE PrunePending
  BY <1>29 DEF PrunePending, TypeOK
<1>30. CASE Seed
  <2> DEFINE new == {f \in File : /\ index[f] # NoHash
                                  /\ Monitored = {} \/ f \in Monitored
                                  /\ Health[f] = NoRow}
             table == [f \in File |-> IF f \in new THEN Renewed("yellow", "stub", HashNow(f), "no_wiki", NoRow)
                                      ELSE Health[f]]
  <2>1. table \in Table
    <3>1. \A f \in File : Renewed("yellow", "stub", HashNow(f), "no_wiki", NoRow) \in Row
      BY NowType DEF Renewed, Row
    <3> QED
      BY <1>a, <3>1 DEF Table
  <2>2. \/ json' = table /\ pc' = "md" /\ after' = "next"
        \/ pc' = "next" /\ UNCHANGED <<json, after>>
    BY <1>30 DEF Seed, WriteJson
  <2>3. UNCHANGED <<sources, md, journal, pending, index, local, marks>>
    BY <1>30 DEF Seed
  <2> HIDE DEF table
  <2>4. StateOK' /\ PlaceOK'
    BY <1>p, <2>1, <2>2, <2>3 DEF StateOK, PlaceOK
  <2> QED
    BY <1>p, <1>q, <2>3, <2>4, Untouched
<1>31. ASSUME NEW f \in File, Edit(f) PROVE TypeOK'
  <2>1. \A g \in File : Len(History[g]) \in Nat
    BY HealthLoopAssumption, LenProperties DEF HealthLoopAssumption
  <2>2. at \in [File -> Nat] /\ \A g \in File : at[g] \in 1 .. Len(History[g])
    BY DEF TypeOK
  <2>3. at[f] < Len(History[f]) /\ at' = [at EXCEPT ![f] = @ + 1]
    BY <1>31 DEF Edit
  <2>4. at' \in [File -> Nat] /\ \A g \in File : at'[g] \in 1 .. Len(History[g])
    BY <2>1, <2>2, <2>3
  <2>5. unbacked' \subseteq File /\ settled' \in BOOLEAN
    BY <1>31 DEF Edit, Slips, TypeOK
  <2>6. UNCHANGED <<wikiAt, state, pc, local, after, jobs, crashes>>
    BY <1>31 DEF Edit
  <2>7. SourcesOK' /\ MarksOK'
    BY <1>p, <2>4, <2>5, <2>6 DEF SourcesOK, MarksOK
  <2> QED
    BY <1>p, <2>6, <2>7, <1>q, Untouched DEF PlaceOK
<1>32. ASSUME NEW f \in File, EditWiki(f) PROVE TypeOK'
  <2>1. \A g \in File : Len(WikiHistory[g]) \in Nat
    BY HealthLoopAssumption, LenProperties DEF HealthLoopAssumption
  <2>2. wikiAt \in [File -> Nat] /\ \A g \in File : wikiAt[g] \in 1 .. Len(WikiHistory[g])
    BY DEF TypeOK
  <2>3. wikiAt[f] < Len(WikiHistory[f]) /\ wikiAt' = [wikiAt EXCEPT ![f] = @ + 1]
    BY <1>32 DEF EditWiki
  <2>4. wikiAt' \in [File -> Nat] /\ \A g \in File : wikiAt'[g] \in 1 .. Len(WikiHistory[g])
    BY <2>1, <2>2, <2>3
  <2>5. unbacked' \subseteq File /\ settled' \in BOOLEAN
    BY <1>32 DEF EditWiki, Slips, TypeOK
  <2>6. UNCHANGED <<at, state, pc, local, after, jobs, crashes>>
    BY <1>32 DEF EditWiki
  <2>7. SourcesOK' /\ MarksOK'
    BY <1>p, <2>4, <2>5, <2>6 DEF SourcesOK, MarksOK
  <2> QED
    BY <1>p, <2>6, <2>7, <1>q, Untouched DEF PlaceOK
<1>33. CASE Crash
  BY <1>33, <1>c, Forgotten DEF Crash, TypeOK, LocalOK, Table
<1>34. CASE UNCHANGED vars
  <2>1. UNCHANGED <<sources, state, pc, local, after, marks>>
    BY <1>34 DEF vars
  <2> QED
    BY <1>p, <2>1, <1>q, Untouched DEF PlaceOK
<1> QED
  BY <1>1, <1>2, <1>3, <1>4, <1>7, <1>8, <1>9, <1>10, <1>11, <1>12, <1>13, <1>14, <1>15, <1>16,
     <1>17, <1>18, <1>19, <1>20, <1>21, <1>22, <1>23, <1>24, <1>25, <1>26, <1>27, <1>28, <1>29,
     <1>30, <1>31, <1>32, <1>33, <1>34
  DEF Next, JobStep

\* A job goes from a file to the next through places that know which file it is, and ends with an
\* empty plan.
LEMMA PlaceStep == AtFile /\ Fresh /\ TypeOK /\ [Next]_vars => AtFile' /\ Fresh'
<1> SUFFICES ASSUME AtFile, Fresh, TypeOK, [Next]_vars PROVE AtFile' /\ Fresh'
  OBVIOUS
<1> USE DEF AtFile, Fresh, sources, state, local, marks
<1>1. ASSUME NEW f \in File,
             \/ RecordDeletion(f) \/ (\E force \in BOOLEAN : MarkGreen(f, force)) \/ Edit(f) \/ EditWiki(f)
      PROVE  AtFile' /\ Fresh'
  BY <1>1 DEF RecordDeletion, MarkGreen, Starts, Edit, EditWiki
<1>2. CASE \/ \E S \in SUBSET File \ {{}}, green \in BOOLEAN : Record(S, green)
           \/ CheckChanges \/ PruneQueue \/ UpdateMaps
  BY <1>2 DEF Record, Starts, CheckChanges, PruneQueue, UpdateMaps
<1>3. CASE HealStubs \/ (\E force \in BOOLEAN : SeedSourceHashes(force)) \/ (\E b \in BOOLEAN : PruneHealth(b))
  <2>1. /\ pc = "idle" /\ UNCHANGED local
        /\ \/ pc' = "md" /\ after' \in {"next", "prune"}
           \/ pc' = pc
    <3>1. CASE HealStubs
      BY <3>1 DEF HealStubs, Housekeeping, Rewrite, WriteJson
    <3>2. ASSUME NEW force \in BOOLEAN, SeedSourceHashes(force)
          PROVE  /\ pc = "idle" /\ UNCHANGED local
                 /\ (pc' = "md" /\ after' = "next") \/ pc' = pc
      BY <3>2 DEF SeedSourceHashes, Housekeeping, Rewrite, WriteJson
    <3>3. ASSUME NEW b \in BOOLEAN, PruneHealth(b)
          PROVE  /\ pc = "idle" /\ UNCHANGED local
                 /\ pc' = "md" /\ after' \in {"next", "prune"}
      BY <3>3 DEF PruneHealth, Housekeeping, WriteJson
    <3> QED
      BY <1>3, <3>1, <3>2, <3>3
  <2> QED
    BY <2>1
<1>4. CASE End \/ Crash
  BY <1>4, Forgotten DEF End, Crash
<1>5. CASE WriteMd
  <2>1. pc = "md" /\ pc' = after /\ after' = "idle" /\ UNCHANGED file
    BY <1>5 DEF WriteMd
  <2>2. after \in {"next", "queue", "unmap", "drop", "prune"}
    BY <2>1 DEF TypeOK
  <2> QED
    BY <2>1, <2>2
<1>11. CASE UNCHANGED vars
  <2>1. UNCHANGED <<pc, after, local>>
    BY <1>11 DEF vars
  <2> QED
    BY <2>1
<1>6. CASE Change \/ Deletion
  <2>1. Current \in File
    BY <1>6, NextFile DEF Change, Deletion, TypeOK
  <2> QED
    BY <1>6, <2>1 DEF Change, Deletion, Finish
<1>7. CASE ChangeRow \/ DeletionRow \/ Green
  BY <1>7 DEF ChangeRow, DeletionRow, Green, Upsert, WriteJson
<1>8. CASE Queue \/ Unmap \/ UnmapFails \/ Drop \/ Verify
  BY <1>8 DEF Queue, Unmap, UnmapFails, Drop, Verify, Finish
<1>9. CASE CheckMissing \/ CheckSame \/ CheckDrift \/ CheckQueue \/ CheckWrite
  <2>1. left # {} => Next1 \in File
    BY NextFile DEF TypeOK
  <2> QED
    BY <1>9, <2>1 DEF CheckMissing, CheckSame, CheckDrift, CheckQueue, CheckWrite, WriteJson
<1>10. CASE PrunePending \/ Seed
  BY <1>10 DEF PrunePending, Seed, WriteJson
<1> QED
  BY <1>1, <1>2, <1>3, <1>4, <1>5, <1>6, <1>7, <1>8, <1>9, <1>10, <1>11 DEF Next, JobStep

\* Whatever jobs, people and deaths do, every variable keeps its type.
THEOREM TypeCorrect == Spec => []TypeOK
<1>1. Typed /\ [Next]_vars => Typed'
  BY TypeStep, PlaceStep DEF Typed
<1>2. Typed => TypeOK
  BY DEF Typed
<1> QED
  BY <1>1, <1>2, TypeInit, PTL DEF Spec

-----------------------------------------------------------------------------
\* Why a file waits

\* A table of rows that are explained already, are explained now, or need no explanation.
LEMMA Explaining ==
    \A old, new, before, now :
        (/\ Explained(old, before) /\ before \subseteq now
         /\ \A f \in File : \/ new[f] = NoRow \/ new[f] = old[f]
                            \/ new[f].status = "green" \/ new[f].reason = "stub"
                            \/ \E line \in now : line.file = f /\ line.reason = new[f].reason
                            \/ old[f] # NoRow /\ new[f].status = old[f].status /\ new[f].reason = old[f].reason)
        => Explained(new, now)
BY DEF Explained

\* Every step keeps the reasons of the rows it keeps, and gives one to those it changes.
LEMMA JournaledStep == Typed /\ Journaled /\ [Next]_vars => Journaled'
<1> SUFFICES ASSUME Typed, Journaled, [Next]_vars PROVE Journaled'
  OBVIOUS
<1> USE DEF sources, state, local, marks
<1>a. TypeOK /\ AtFile /\ Health \in Table /\ json \in Table /\ md \in Table /\ rows \in Table
  BY HealthType DEF Typed, TypeOK, Table
<1>b. Explained(json, journal) /\ Explained(md, journal) /\ Explained(rows, journal) /\ Explained(Health, journal)
  BY DEF Journaled, Health
<1>k. ASSUME UNCHANGED <<json, md, rows>>, journal \subseteq journal', pc' \notin {"row",
                         "red"} \/ UNCHANGED <<pc, file>>
      PROVE  Journaled'
  <2>1. Explained(json', journal') /\ Explained(md', journal') /\ Explained(rows', journal')
    BY <1>b, <1>k, Explaining
  <2> QED
    BY <1>k, <2>1 DEF Journaled
<1>1. CASE \/ \E S \in SUBSET File \ {{}}, green \in BOOLEAN : Record(S, green)
           \/ (\E f \in File : RecordDeletion(f)) \/ (\E f \in File, force \in BOOLEAN : MarkGreen(f, force))
           \/ PruneQueue \/ UpdateMaps
           \/ (\E f \in File : Edit(f)) \/ (\E f \in File : EditWiki(f)) \/ UNCHANGED vars
  BY <1>k, <1>1 DEF Record, RecordDeletion, MarkGreen, Starts, PruneQueue, UpdateMaps, Edit,
     EditWiki, vars
<1>2. CASE Queue \/ Unmap \/ UnmapFails \/ Drop \/ Verify \/ CheckSame \/ CheckQueue \/ PrunePending
  BY <1>k, <1>2 DEF Queue, Unmap, UnmapFails, Drop, Verify, CheckSame, CheckQueue, PrunePending,
     Finish
<1>3. CASE CheckChanges
  BY <1>3, <1>b DEF CheckChanges, Journaled
<1>4. CASE End \/ Crash
  <2>1. Explained(NoRows, journal)
    BY DEF Explained, NoRows
  <2> QED
    BY <1>4, <1>b, <2>1 DEF End, Crash, ForgetLocal, Journaled
<1>5. ASSUME NEW table, WriteJson(table, after'), UNCHANGED <<md, journal, rows>>,
             \A f \in File : \/ table[f] = NoRow \/ table[f] = Health[f]
                             \/ table[f].status = "green" \/ table[f].reason = "stub"
                             \/ \E line \in journal : line.file = f /\ line.reason = table[f].reason
                             \/ Health[f] # NoRow /\ table[f].status = Health[f].status /\ table[f].reason = Health[f].reason
      PROVE  Journaled'
  <2>1. Explained(table, journal)
    BY <1>5, <1>b, Explaining
  <2> QED
    BY <1>5, <1>b, <2>1 DEF WriteJson, Journaled
<1>u. ASSUME NEW row, WriteJson([Health EXCEPT ![file] = row], after'), UNCHANGED <<md, journal, rows>>,
             row.status = "green" \/ \E line \in journal : line.file = file /\ line.reason = row.reason
      PROVE  Journaled'
  <2> DEFINE table == [Health EXCEPT ![file] = row]
  <2>1. \A f \in File : table[f] = Health[f] \/ (f = file /\ table[f] = row)
    BY <1>a DEF Table
  <2>2. WriteJson(table, after')
    BY <1>u
  <2> HIDE DEF table
  <2> QED
    BY <1>5, <1>u, <2>1, <2>2
<1>6. CASE HealStubs
  <2> DEFINE healed == {f \in File : Health[f] # NoRow /\ Health[f].reason = "stub" /\ WikiNow(f) \in Long}
             table == [f \in File |-> IF f \in healed
                                        THEN [Health[f] EXCEPT !.status = "green", !.reason = "healed",
                                                               !.verification = "verified"]
                                        ELSE Health[f]]
  <2>1. \A f \in File : table[f] = Health[f] \/ table[f].status = "green"
    BY <1>a DEF Table, Row
  <2>2. Rewrite(table, "next") /\ pc = "idle" /\ UNCHANGED <<md, journal, rows>>
    BY <1>6 DEF HealStubs, Housekeeping
  <2> HIDE DEF table, healed
  <2>3. CASE WriteJson(table, "next")
    BY <1>5, <2>1, <2>2, <2>3 DEF WriteJson
  <2>4. CASE UNCHANGED <<json, after, pc>>
    BY <1>k, <2>2, <2>4
  <2> QED
    BY <2>2, <2>3, <2>4 DEF Rewrite
<1>7. ASSUME NEW force \in BOOLEAN, SeedSourceHashes(force) PROVE Journaled'
  <2> DEFINE seeded == {f \in File : /\ Health[f] # NoRow
                                     /\ Health[f].status = "green"
                                     /\ Health[f].hash = NoHash \/ force
                                     /\ Exists(f)}
             table == [f \in File |-> IF f \in seeded THEN [Health[f] EXCEPT !.hash = Now(f)] ELSE Health[f]]
  <2>1. \A f \in File : table[f] = Health[f] \/ table[f].status = "green"
    BY <1>a DEF Table, Row
  <2>2. Rewrite(table, "next") /\ pc = "idle" /\ UNCHANGED <<md, journal, rows>>
    BY <1>7 DEF SeedSourceHashes, Housekeeping
  <2> HIDE DEF table, seeded
  <2>3. CASE WriteJson(table, "next")
    BY <1>5, <2>1, <2>2, <2>3 DEF WriteJson
  <2>4. CASE UNCHANGED <<json, after, pc>>
    BY <1>k, <2>2, <2>4
  <2> QED
    BY <2>2, <2>3, <2>4 DEF Rewrite
<1>8. ASSUME NEW b \in BOOLEAN, PruneHealth(b) PROVE Journaled'
  BY <1>5, <1>8 DEF PruneHealth, Housekeeping, WriteJson
<1>9. CASE WriteMd
  <2>1. md' \in Table /\ \A f \in File : md'[f] = Stripped(json[f])
    BY <1>9, <1>a, StrippedRow DEF WriteMd, Table
  <2>2. Explained(md', journal)
    <3>1. \A f \in File : md'[f] = NoRow \/ (json[f] # NoRow /\ md'[f].status = json[f].status /\ md'[f].reason = json[f].reason)
      BY <1>a, <2>1, StrippedRow DEF Table
    <3> QED
      BY <1>b, <3>1, Explaining
  <2>3. pc' \notin {"row", "red"}
    BY <1>9, <1>a DEF WriteMd, TypeOK
  <2> QED
    BY <1>9, <1>b, <2>2, <2>3 DEF WriteMd, Journaled
<1>10. CASE Change
  <2>1. Current \in File
    BY <1>10, <1>a, NextFile DEF Change, TypeOK
  <2>2. CASE Exists(Current)
    <3>1. /\ journal' = journal \cup {Line("record-change", Current, "why")} /\ file' = Current
          /\ UNCHANGED <<json, md, rows>>
      BY <1>10, <2>2 DEF Change
    <3>2. \E line \in journal' : line.file = file' /\ line.reason = "why"
      BY <2>1, <3>1, LineType
    <3>3. Explained(json', journal') /\ Explained(md', journal') /\ Explained(rows', journal')
      BY <1>b, <3>1, Explaining
    <3> QED
      BY <3>2, <3>3 DEF Journaled
  <2>3. CASE ~Exists(Current)
    BY <1>10, <1>k, <2>3 DEF Change, Finish
  <2> QED
    BY <2>2, <2>3
<1>11. CASE Deletion
  <2>1. Current \in File
    BY <1>11, <1>a, NextFile DEF Deletion, TypeOK
  <2>2. /\ journal' = journal \cup {Line("record-deletion", Current, "why")} /\ file' = Current
        /\ UNCHANGED <<json, md, rows>>
    BY <1>11 DEF Deletion
  <2>3. \E line \in journal' : line.file = file' /\ line.reason = "why"
    BY <2>1, <2>2, LineType
  <2>4. Explained(json', journal') /\ Explained(md', journal') /\ Explained(rows', journal')
    BY <1>b, <2>2, Explaining
  <2> QED
    BY <2>3, <2>4 DEF Journaled
<1>12. CASE ChangeRow
  <2> DEFINE row == Renewed("yellow", "why", HashNow(file), "", Health[file])
  <2>1. WriteJson([Health EXCEPT ![file] = row], after') /\ UNCHANGED <<md, journal, rows>>
    BY <1>12 DEF ChangeRow, Upsert, WriteJson
  <2>2. \E line \in journal : line.file = file /\ line.reason = row.reason
    BY <1>12 DEF ChangeRow, Journaled, Renewed
  <2> HIDE DEF row
  <2> QED
    BY <1>u, <2>1, <2>2
<1>13. CASE DeletionRow
  <2> DEFINE row == Renewed("red", "why", IF Health[file] = NoRow THEN NoHash ELSE Health[file].hash, "deleted", Health[file])
  <2>1. WriteJson([Health EXCEPT ![file] = row], after') /\ UNCHANGED <<md, journal, rows>>
    BY <1>13 DEF DeletionRow, Upsert, WriteJson
  <2>2. \E line \in journal : line.file = file /\ line.reason = row.reason
    BY <1>13 DEF DeletionRow, Journaled, Renewed
  <2> HIDE DEF row
  <2> QED
    BY <1>u, <2>1, <2>2
<1>14. CASE Green
  <2> DEFINE row == [status |-> "green", reason |-> "marked", hash |-> HashNow(file),
                     verification |-> found.verification, symbols |-> found.symbols, wiki |-> WikiNow(file)]
  <2>1. WriteJson([Health EXCEPT ![file] = row], after') /\ UNCHANGED <<md, journal, rows>> /\ row.status = "green"
    BY <1>14 DEF Green, Upsert, WriteJson
  <2> HIDE DEF row
  <2> QED
    BY <1>u, <2>1
<1>15. CASE CheckMissing
  <2> DEFINE old == rows[Next1]
             row == Renewed("red", "missing", IF old = NoRow THEN NoHash ELSE old.hash,
                            IF old = NoRow THEN "" ELSE old.verification, old)
  <2>1. Next1 \in File
    BY <1>15, <1>a, NextFile DEF CheckMissing, TypeOK
  <2>2. /\ UNCHANGED <<json, md>> /\ pc' \in {"check", "check_queue"}
        /\ \/ UNCHANGED <<rows, journal>>
           \/ /\ rows' = [rows EXCEPT ![Next1] = row]
              /\ journal' = journal \cup {Line("check-changes", Next1, "missing")}
    BY <1>15 DEF CheckMissing
  <2>3. row.reason = "missing"
    BY DEF Renewed
  <2> HIDE DEF row, old
  <2>4. \E line \in {Line("check-changes", Next1, "missing")} : line.file = Next1 /\ line.reason = row.reason
    BY <2>1, <2>3, LineType
  <2>5. Explained(json', journal') /\ Explained(md', journal')
    BY <1>b, <2>2, Explaining
  <2>6. Explained(rows', journal')
    BY <1>a, <1>b, <2>1, <2>2, <2>4, Explaining DEF Table
  <2> QED
    BY <2>2, <2>5, <2>6 DEF Journaled
<1>16. CASE CheckDrift
  <2> DEFINE old == rows[Next1]
             row == Renewed("yellow", "changed", IF old # NoRow /\ old.hash # NoHash THEN old.hash ELSE Now(Next1),
                            IF old = NoRow THEN "" ELSE old.verification, old)
  <2>1. Next1 \in File
    BY <1>16, <1>a, NextFile DEF CheckDrift, TypeOK
  <2>2. /\ UNCHANGED <<json, md>> /\ pc' \in {"check", "check_queue"}
        /\ \/ UNCHANGED <<rows, journal>>
           \/ /\ rows' = [rows EXCEPT ![Next1] = row]
              /\ journal' = journal \cup {Line("check-changes", Next1, "changed")}
    BY <1>16 DEF CheckDrift
  <2>3. row.reason = "changed"
    BY DEF Renewed
  <2> HIDE DEF row, old
  <2>4. \E line \in {Line("check-changes", Next1, "changed")} : line.file = Next1 /\ line.reason = row.reason
    BY <2>1, <2>3, LineType
  <2>5. Explained(json', journal') /\ Explained(md', journal')
    BY <1>b, <2>2, Explaining
  <2>6. Explained(rows', journal')
    BY <1>a, <1>b, <2>1, <2>2, <2>4, Explaining DEF Table
  <2> QED
    BY <2>2, <2>5, <2>6 DEF Journaled
<1>17. CASE CheckWrite
  BY <1>17, <1>b DEF CheckWrite, WriteJson, Journaled
<1>18. CASE Seed
  <2> DEFINE new == {f \in File : /\ index[f] # NoHash
                                  /\ Monitored = {} \/ f \in Monitored
                                  /\ Health[f] = NoRow}
             table == [f \in File |-> IF f \in new THEN Renewed("yellow", "stub", HashNow(f), "no_wiki", NoRow)
                                      ELSE Health[f]]
  <2>1. \A f \in File : table[f] = Health[f] \/ table[f].reason = "stub"
    BY DEF Renewed
  <2>2. /\ UNCHANGED <<md, journal, rows>>
        /\ WriteJson(table, after') \/ (pc' = "next" /\ UNCHANGED json)
    BY <1>18 DEF Seed, WriteJson
  <2> HIDE DEF table
  <2> QED
    BY <1>5, <1>k, <2>1, <2>2
<1> QED
  BY <1>1, <1>2, <1>3, <1>4, <1>6, <1>7, <1>8, <1>9, <1>10, <1>11, <1>12, <1>13, <1>14, <1>15,
     <1>16, <1>17, <1>18
  DEF Next, JobStep

-----------------------------------------------------------------------------
\* What a Green row was earned by

\* A table whose claims are backed already, backed now, or doubted.
LEMMA Backing ==
    \A old, new, before, now :
        (/\ Backed(old, before) /\ before \subseteq now
         /\ \A f \in File \ now : \/ new[f] = old[f] \/ ~Claims(new[f])
                                  \/ Checked(new[f].symbols, new[f].hash, new[f].wiki))
        => Backed(new, now)
BY DEF Backed

\* Every step keeps what rows claim backed, or adds their files to those in doubt.
LEMMA EarnedStep == Typed /\ Earned /\ [Next]_vars => Earned'
<1> SUFFICES ASSUME Typed, Earned, [Next]_vars PROVE Earned'
  OBVIOUS
<1> USE DEF sources, state, local, marks
<1>a. TypeOK /\ AtFile /\ Health \in Table /\ json \in Table /\ md \in Table /\ rows \in Table
  BY HealthType DEF Typed, TypeOK, Table
<1>b. /\ Backed(json, unbacked) /\ Backed(rows, unbacked) /\ Backed(Health, unbacked)
      /\ \A f \in File : md[f] # NoRow => md[f].hash = NoHash
  BY DEF Earned, Health, Backed, Claims
<1>k. ASSUME UNCHANGED <<json, md, rows>>, unbacked \subseteq unbacked', pc' # "green"
      PROVE  Earned'
  <2>1. Backed(json', unbacked') /\ Backed(rows', unbacked')
    BY <1>b, <1>k, Backing
  <2> QED
    BY <1>b, <1>k, <2>1 DEF Earned
<1>1. CASE \/ \E S \in SUBSET File \ {{}}, green \in BOOLEAN : Record(S, green)
           \/ (\E f \in File : RecordDeletion(f)) \/ (\E f \in File, force \in BOOLEAN : MarkGreen(f, force))
           \/ PruneQueue \/ UpdateMaps \/ Change \/ Deletion
           \/ Queue \/ Unmap \/ UnmapFails \/ Drop \/ CheckSame \/ CheckQueue \/ PrunePending
  BY <1>k, <1>1
  DEF Record, RecordDeletion, MarkGreen, Starts, PruneQueue, UpdateMaps, Change, Deletion, Queue,
      Unmap, UnmapFails, Drop,
      CheckSame, CheckQueue, PrunePending, Finish
<1>2. ASSUME NEW g \in File, Edit(g) \/ EditWiki(g) PROVE Earned'
  <2>1. /\ UNCHANGED <<json, md, rows, pc, file, found>>
        /\ unbacked \subseteq unbacked' /\ (pc = "green" /\ file = g => g \in unbacked')
        /\ \A f \in File : f # g => Now(f)' = Now(f) /\ WikiNow(f)' = WikiNow(f)
    BY <1>2, <1>a DEF Edit, EditWiki, Slips, Now, WikiNow, TypeOK
  <2>2. Backed(json', unbacked') /\ Backed(rows', unbacked')
    BY <1>b, <2>1, Backing
  <2>3. ASSUME pc' = "green", file' \notin unbacked', found'.verification = "verified", Exists(file)'
        PROVE  Checked(found'.symbols, Now(file)', WikiNow(file)')
    <3>1. file \in File /\ file # g /\ file' = file
      BY <1>a, <2>1, <2>3 DEF AtFile
    <3>2. Now(file)' = Now(file) /\ WikiNow(file)' = WikiNow(file)
      BY <2>1, <3>1 DEF Now, WikiNow
    <3> QED
      BY <2>1, <2>3, <3>1, <3>2 DEF Earned, Exists
  <2> QED
    BY <1>b, <2>1, <2>2, <2>3 DEF Earned
<1>3. CASE UNCHANGED vars
  BY <1>3 DEF vars, Earned, Now, WikiNow, Exists
<1>4. CASE CheckChanges
  BY <1>4, <1>b DEF CheckChanges, Earned
<1>5. CASE End \/ Crash
  <2>1. Backed(NoRows, unbacked)
    BY DEF Backed, NoRows, Claims
  <2> QED
    BY <1>5, <1>b, <2>1 DEF End, Crash, ForgetLocal, Earned
<1>6. ASSUME NEW table, WriteJson(table, after'), UNCHANGED <<md, rows>>, unbacked \subseteq unbacked',
             \A f \in File \ unbacked' : \/ table[f] = Health[f] \/ ~Claims(table[f])
                                         \/ Checked(table[f].symbols, table[f].hash, table[f].wiki)
      PROVE  Earned'
  <2>1. Backed(table, unbacked') /\ Backed(rows, unbacked')
    BY <1>b, <1>6, Backing
  <2> QED
    BY <1>6, <1>b, <2>1 DEF WriteJson, Earned
<1>u. ASSUME NEW row, WriteJson([Health EXCEPT ![file] = row], after'), UNCHANGED <<md, rows, unbacked>>,
             file \notin unbacked => ~Claims(row) \/ Checked(row.symbols, row.hash, row.wiki)
      PROVE  Earned'
  <2> DEFINE table == [Health EXCEPT ![file] = row]
  <2>1. \A f \in File : table[f] = Health[f] \/ (f = file /\ table[f] = row)
    BY <1>a DEF Table
  <2>2. WriteJson(table, after')
    BY <1>u
  <2> HIDE DEF table
  <2> QED
    BY <1>6, <1>u, <2>1, <2>2
<1>7. CASE HealStubs
  <2> DEFINE healed == {f \in File : Health[f] # NoRow /\ Health[f].reason = "stub" /\ WikiNow(f) \in Long}
             table == [f \in File |-> IF f \in healed
                                        THEN [Health[f] EXCEPT !.status = "green", !.reason = "healed",
                                                               !.verification = "verified"]
                                        ELSE Health[f]]
  <2>1. \A f \in File : table[f] = Health[f] \/ f \in healed
    OBVIOUS
  <2>2. Rewrite(table, "next") /\ pc = "idle" /\ UNCHANGED <<md, rows>> /\ unbacked' = unbacked \cup healed
    BY <1>7 DEF HealStubs, Housekeeping
  <2> HIDE DEF table, healed
  <2>3. CASE WriteJson(table, "next")
    BY <1>6, <2>1, <2>2, <2>3 DEF WriteJson
  <2>4. CASE UNCHANGED <<json, after, pc>>
    BY <1>k, <2>2, <2>4
  <2> QED
    BY <2>2, <2>3, <2>4 DEF Rewrite
<1>8. ASSUME NEW force \in BOOLEAN, SeedSourceHashes(force) PROVE Earned'
  <2> DEFINE seeded == {f \in File : /\ Health[f] # NoRow
                                     /\ Health[f].status = "green"
                                     /\ Health[f].hash = NoHash \/ force
                                     /\ Exists(f)}
             table == [f \in File |-> IF f \in seeded THEN [Health[f] EXCEPT !.hash = Now(f)] ELSE Health[f]]
  <2>1. \A f \in File : table[f] = Health[f] \/ f \in seeded
    OBVIOUS
  <2>2. Rewrite(table, "next") /\ pc = "idle" /\ UNCHANGED <<md, rows>> /\ unbacked' = unbacked \cup seeded
    BY <1>8 DEF SeedSourceHashes, Housekeeping
  <2> HIDE DEF table, seeded
  <2>3. CASE WriteJson(table, "next")
    BY <1>6, <2>1, <2>2, <2>3 DEF WriteJson
  <2>4. CASE UNCHANGED <<json, after, pc>>
    BY <1>k, <2>2, <2>4
  <2> QED
    BY <2>2, <2>3, <2>4 DEF Rewrite
<1>9. ASSUME NEW b \in BOOLEAN, PruneHealth(b) PROVE Earned'
  BY <1>6, <1>9 DEF PruneHealth, Housekeeping, WriteJson, Claims
<1>10. CASE WriteMd
  <2>1. \A f \in File : md'[f] # NoRow => md'[f].hash = NoHash
    BY <1>10, <1>a, StrippedRow DEF WriteMd, Table
  <2>2. pc' # "green"
    BY <1>10, <1>a DEF WriteMd, TypeOK
  <2> QED
    BY <1>10, <1>b, <2>1, <2>2 DEF WriteMd, Earned
<1>11. CASE ChangeRow
  BY <1>11, <1>u DEF ChangeRow, Upsert, WriteJson, Renewed, Claims
<1>12. CASE DeletionRow
  <2> DEFINE row == Renewed("red", "why", IF Health[file] = NoRow THEN NoHash ELSE Health[file].hash, "deleted", Health[file])
  <2>1. WriteJson([Health EXCEPT ![file] = row], after') /\ UNCHANGED <<md, rows, unbacked>>
    BY <1>12 DEF DeletionRow, Upsert, WriteJson
  <2>2. ~Claims(row)
    BY DEF Renewed, Claims
  <2> HIDE DEF row
  <2> QED
    BY <1>u, <2>1, <2>2
<1>13. CASE Verify
  <2> DEFINE symbols == SymbolsNow(file)
             doc == WikiNow(file)
             wrong == file \in Extracted /\ Issues(symbols, doc, Health[file])
  <2>1. /\ pc' \in {"next", "green"}
        /\ UNCHANGED <<json, md, rows, file, unbacked, sources>>
        /\ (pc' = "green" /\ found'.verification = "verified") =>
              Exists(file) /\ doc # NoWiki /\ ~wrong /\ file \in Extracted /\ found'.symbols = symbols
    BY <1>13 DEF Verify, Finish
  <2>2. (~wrong /\ file \in Extracted) => symbols \subseteq Mentions[doc]
    BY DEF Issues
  <2>3. (Exists(file) /\ file \in Extracted) => symbols = Symbols[Now(file)]
    BY DEF SymbolsNow
  <2>4. doc' = doc /\ Now(file)' = Now(file)
    BY <2>1 DEF Now, WikiNow
  <2> HIDE DEF symbols, doc, wrong
  <2>5. (pc' = "green" /\ found'.verification = "verified") => Checked(found'.symbols, Now(file)', doc')
    BY <2>1, <2>2, <2>3, <2>4 DEF Checked
  <2> QED
    BY <1>b, <2>1, <2>5 DEF Earned, doc
<1>14. CASE Green
  <2> DEFINE row == [status |-> "green", reason |-> "marked", hash |-> HashNow(file),
                     verification |-> found.verification, symbols |-> found.symbols, wiki |-> WikiNow(file)]
  <2>1. WriteJson([Health EXCEPT ![file] = row], after') /\ UNCHANGED <<md, rows, unbacked>> /\ pc = "green"
    BY <1>14 DEF Green, Upsert, WriteJson
  <2>2. file \notin unbacked => ~Claims(row) \/ Checked(row.symbols, row.hash, row.wiki)
    BY <2>1 DEF Earned, Claims, HashNow
  <2> HIDE DEF row
  <2> QED
    BY <1>u, <2>1, <2>2
<1>15. CASE CheckMissing \/ CheckDrift
  <2>1. UNCHANGED <<json, md, unbacked>> /\ pc' # "green"
    BY <1>15 DEF CheckMissing, CheckDrift
  <2>2. \A f \in File : rows'[f] = rows[f] \/ ~Claims(rows'[f])
    <3>1. ASSUME NEW row, row.status # "green", rows' = rows \/ rows' = [rows EXCEPT ![Next1] = row]
          PROVE  \A f \in File : rows'[f] = rows[f] \/ ~Claims(rows'[f])
      BY <1>a, <3>1 DEF Claims, Table
    <3>2. CASE CheckMissing
      <4> DEFINE old == rows[Next1]
                 row == Renewed("red", "missing", IF old = NoRow THEN NoHash ELSE old.hash,
                                IF old = NoRow THEN "" ELSE old.verification, old)
      <4>1. row.status # "green" /\ (rows' = rows \/ rows' = [rows EXCEPT ![Next1] = row])
        BY <3>2 DEF CheckMissing, Renewed
      <4> HIDE DEF row
      <4> QED
        BY <3>1, <4>1
    <3>3. CASE CheckDrift
      <4> DEFINE old == rows[Next1]
                 row == Renewed("yellow", "changed", IF old # NoRow /\ old.hash # NoHash THEN old.hash ELSE Now(Next1),
                                IF old = NoRow THEN "" ELSE old.verification, old)
      <4>1. row.status # "green" /\ (rows' = rows \/ rows' = [rows EXCEPT ![Next1] = row])
        BY <3>3 DEF CheckDrift, Renewed
      <4> HIDE DEF row
      <4> QED
        BY <3>1, <4>1
    <3> QED
      BY <1>15, <3>2, <3>3
  <2>3. Backed(rows', unbacked)
    BY <1>b, <2>2, Backing
  <2> QED
    BY <1>b, <2>1, <2>3 DEF Earned
<1>16. CASE CheckWrite
  BY <1>16, <1>b DEF CheckWrite, WriteJson, Earned
<1>17. CASE Seed
  <2> DEFINE new == {f \in File : /\ index[f] # NoHash
                                  /\ Monitored = {} \/ f \in Monitored
                                  /\ Health[f] = NoRow}
             table == [f \in File |-> IF f \in new THEN Renewed("yellow", "stub", HashNow(f), "no_wiki", NoRow)
                                      ELSE Health[f]]
  <2>1. \A f \in File : table[f] = Health[f] \/ ~Claims(table[f])
    BY DEF Renewed, Claims
  <2>2. /\ UNCHANGED <<md, rows, unbacked>>
        /\ WriteJson(table, after') \/ (pc' = "next" /\ UNCHANGED json)
    BY <1>17 DEF Seed, WriteJson
  <2> HIDE DEF table
  <2> QED
    BY <1>6, <1>k, <2>1, <2>2
<1> QED
  BY <1>1, <1>2, <1>3, <1>4, <1>5, <1>7, <1>8, <1>9, <1>10, <1>11, <1>12, <1>13, <1>14, <1>15,
     <1>16, <1>17
  DEF Next, JobStep

-----------------------------------------------------------------------------
\* Who waits is queued

\* Between writes, and while no job died, what a job reads is file_health.json.
LEMMA HealthIsJson == TypeOK /\ MdSame /\ pc # "md" => Health = json
<1> SUFFICES ASSUME TypeOK, MdSame, pc # "md" PROVE Health = json
  OBVIOUS
<1>1. json \in Table /\ md \in Table
  BY DEF TypeOK, Table
<1>2. CASE \A f \in File : json[f] = NoRow
  <2>1. \A f \in File : md[f] = json[f]
    BY <1>2, StrippedRow DEF MdSame
  <2>2. md = json
    BY <1>1, <2>1 DEF Table
  <2> QED
    BY <2>2 DEF Health
<1>3. CASE ~\A f \in File : json[f] = NoRow
  BY <1>3 DEF Health
<1> QED
  BY <1>2, <1>3

\* A mapped file that was there all the time is there.
LEMMA SteadyExists == TypeOK => \A f \in File : Steady(f) => f \in Mapped /\ Exists(f)
<1> SUFFICES ASSUME TypeOK, NEW f \in File, Steady(f) PROVE f \in Mapped /\ Exists(f)
  OBVIOUS
<1>1. at[f] \in 1 .. at[f]
  <2>1. at[f] \in Nat /\ at[f] \in 1 .. Len(History[f])
    BY DEF TypeOK
  <2>2. Len(History[f]) \in Nat
    BY HealthLoopAssumption, LenProperties DEF HealthLoopAssumption
  <2> QED
    BY <2>1, <2>2
<1> QED
  BY <1>1 DEF Steady, Exists, Now

\* Every step queues what it makes wait, before the job is over.
LEMMA QueuedStep == Typed /\ Queued /\ [Next]_vars => Queued'
<1> SUFFICES ASSUME Typed, Queued, [Next]_vars, crashes' = 0
             PROVE  JsonQueued' /\ RowsQueued' /\ MdSame' /\ Leaving'
  BY DEF Queued
<1> USE DEF sources, state, local, marks
<1>a. /\ TypeOK /\ AtFile /\ Health \in Table /\ json \in Table /\ md \in Table /\ rows \in Table
      /\ file \in File \cup {0}
  BY HealthType DEF Typed, TypeOK, Table
<1>b. crashes = 0 /\ crashes' # crashes + 1
  <2>1. crashes \in Nat
    <3>1. crashes \in 0 .. MaxCrashes /\ MaxCrashes \in Nat
      BY <1>a, HealthLoopAssumption DEF HealthLoopAssumption, TypeOK
    <3> QED
      BY <3>1
  <2>2. crashes' \in {crashes, crashes + 1}
    BY DEF Next, vars, JobStep, Record, RecordDeletion, MarkGreen, Starts, CheckChanges,
       HealStubs, SeedSourceHashes, PruneHealth, PruneQueue, UpdateMaps, WriteMd, End, Change,
       ChangeRow, Queue, Deletion, DeletionRow, Unmap, UnmapFails, Drop, Verify, Green,
       CheckMissing, CheckSame, CheckDrift, CheckQueue, CheckWrite, PrunePending, Seed, Edit,
       EditWiki, Crash
  <2> QED
    BY <2>1, <2>2
<1>c. JsonQueued /\ RowsQueued /\ MdSame /\ Leaving
  BY <1>b DEF Queued
<1>h. pc # "md" => Health = json
  BY <1>a, <1>c, HealthIsJson
<1>s. ASSUME UNCHANGED at PROVE \A f \in File : Steady(f)' = Steady(f)
  BY <1>s DEF Steady
<1> DEFINE Goal == JsonQueued' /\ RowsQueued' /\ MdSame' /\ Leaving'
\* A step between jobs, or of a job that has nothing in hand, leaves the rows and the queue alone.
<1>k. ASSUME pc \notin {"md", "queue"}, UNCHANGED <<json, md, pending, at>>,
             pc' \notin {"md", "queue", "check", "check_queue", "unmap", "drop"}
      PROVE  Goal
  BY <1>k, <1>c, <1>s DEF JsonQueued, RowsQueued, MdSame, Leaving, Waits
<1>1. CASE \/ \E S \in SUBSET File \ {{}}, green \in BOOLEAN : Record(S, green)
           \/ (\E f \in File : RecordDeletion(f)) \/ (\E f \in File, force \in BOOLEAN : MarkGreen(f, force))
           \/ UpdateMaps \/ Change \/ Deletion \/ Verify \/ End
  BY <1>k, <1>1 DEF Record, RecordDeletion, MarkGreen, Starts, UpdateMaps, Change, Deletion,
     Verify, End, Finish
<1>2. CASE Unmap
  BY <1>2, <1>c, <1>s DEF Unmap, JsonQueued, RowsQueued, MdSame, Leaving, Waits
<1>3. CASE PruneQueue
  <2>1. /\ pc = "idle" /\ pc' = "next" /\ pending' = {f \in pending : Kept(f)}
        /\ UNCHANGED <<json, md, at>>
    BY <1>3 DEF PruneQueue, Starts
  <2>2. \A f \in File : Steady(f) /\ f \in pending => f \in pending'
    BY <1>a, <2>1, SteadyExists DEF Kept
  <2> QED
    BY <1>c, <1>s, <2>1, <2>2 DEF JsonQueued, RowsQueued, MdSame, Leaving, Waits
<1>4. CASE PrunePending
  <2>1. /\ pc = "prune" /\ pc' = "next" /\ pending' = {f \in pending : Exists(f)}
        /\ UNCHANGED <<json, md, at>>
    BY <1>4 DEF PrunePending
  <2>2. \A f \in File : Steady(f) /\ f \in pending => f \in pending'
    BY <1>a, <2>1, SteadyExists
  <2> QED
    BY <1>c, <1>s, <2>1, <2>2 DEF JsonQueued, RowsQueued, MdSame, Leaving, Waits
<1>5. CASE CheckChanges
  <2>1. pc = "idle" /\ pc' = "check" /\ rows' = json /\ UNCHANGED <<json, md, pending, at>>
    BY <1>5, <1>h DEF CheckChanges
  <2> QED
    BY <1>c, <1>s, <2>1 DEF JsonQueued, RowsQueued, MdSame, Leaving, Waits
\* A write of rows none of which starts to wait.
<1>6. ASSUME NEW table, pc \in {"idle", "seed"}, UNCHANGED <<md, pending, at>>, \A f \in File : Waits(table, f) => Waits(json, f),
             \/ json' = table /\ pc' = "md" /\ after' \in {"next", "prune"}
             \/ UNCHANGED json /\ pc' \in {"idle", "next"}
      PROVE  Goal
  <2>1. CASE json' = table /\ pc' = "md" /\ after' \in {"next", "prune"}
    <3>1. \A f \in File : Steady(f) /\ Waits(json', f) => f \in pending
      BY <1>c, <1>6, <2>1 DEF JsonQueued
    <3>2. \A f \in File : Waits(json, f)' <=> Waits(json', f)
      BY DEF Waits
    <3>3. JsonQueued'
      BY <1>6, <1>s, <3>1, <3>2 DEF JsonQueued
    <3> QED
      BY <2>1, <3>3 DEF RowsQueued, MdSame, Leaving
  <2>2. CASE UNCHANGED json /\ pc' \in {"idle", "next"}
    BY <1>k, <1>6, <2>2
  <2> QED
    BY <1>6, <2>1, <2>2
\* A write of the row of the file the job is at.
<1>u. ASSUME NEW row, NEW l \in {"queue", "unmap", "drop"}, pc \in {"row", "red", "green"}, Upsert(file, row, l),
             UNCHANGED <<md, pending, at, file>>, row.status # "yellow" \/ l = "queue"
      PROVE  Goal
  <2>1. file \in File /\ json' = [json EXCEPT ![file] = row] /\ pc' = "md" /\ after' = l
    BY <1>u, <1>a, <1>h DEF Upsert, WriteJson, AtFile
  <2>2. \A f \in File : json'[f] = json[f] \/ (f = file /\ json'[f] = row)
    BY <1>a, <2>1 DEF Table
  <2>3. json'[file] = row
    BY <1>a, <2>1 DEF Table
  <2>4. JsonQueued'
    BY <1>c, <1>s, <1>u, <2>1, <2>2 DEF JsonQueued, Waits
  <2>5. Leaving'
    BY <1>u, <2>1, <2>3 DEF Leaving, Waits
  <2> QED
    BY <2>1, <2>4, <2>5 DEF RowsQueued, MdSame
<1>7. CASE HealStubs
  <2> DEFINE healed == {f \in File : Health[f] # NoRow /\ Health[f].reason = "stub" /\ WikiNow(f) \in Long}
             table == [f \in File |-> IF f \in healed
                                        THEN [Health[f] EXCEPT !.status = "green", !.reason = "healed",
                                                               !.verification = "verified"]
                                        ELSE Health[f]]
  <2>1. pc = "idle" /\ Health = json
    BY <1>7, <1>h DEF HealStubs, Housekeeping
  <2>2. \A f \in File : table[f] = json[f] \/ table[f].status = "green"
    BY <1>a, <2>1 DEF Table, Row
  <2>3. Rewrite(table, "next") /\ UNCHANGED <<md, pending, at>>
    BY <1>7 DEF HealStubs
  <2> HIDE DEF table, healed
  <2> QED
    BY <1>6, <2>1, <2>2, <2>3 DEF Rewrite, WriteJson, Waits
<1>8. ASSUME NEW force \in BOOLEAN, SeedSourceHashes(force) PROVE Goal
  <2> DEFINE seeded == {f \in File : /\ Health[f] # NoRow
                                     /\ Health[f].status = "green"
                                     /\ Health[f].hash = NoHash \/ force
                                     /\ Exists(f)}
             table == [f \in File |-> IF f \in seeded THEN [Health[f] EXCEPT !.hash = Now(f)] ELSE Health[f]]
  <2>1. pc = "idle" /\ Health = json
    BY <1>8, <1>h DEF SeedSourceHashes, Housekeeping
  <2>2. \A f \in File : table[f] = json[f] \/ table[f].status = "green"
    BY <1>a, <2>1 DEF Table, Row
  <2>3. Rewrite(table, "next") /\ UNCHANGED <<md, pending, at>>
    BY <1>8 DEF SeedSourceHashes
  <2> HIDE DEF table, seeded
  <2> QED
    BY <1>6, <2>1, <2>2, <2>3 DEF Rewrite, WriteJson, Waits
<1>9. ASSUME NEW b \in BOOLEAN, PruneHealth(b) PROVE Goal
  <2> DEFINE table == [f \in File |-> IF Kept(f) /\ (b => Exists(f)) THEN Health[f] ELSE NoRow]
  <2>1. pc = "idle" /\ Health = json
    BY <1>9, <1>h DEF PruneHealth, Housekeeping
  <2>2. \A f \in File : table[f] = json[f] \/ table[f] = NoRow
    BY <2>1
  <2>3. WriteJson(table, IF b THEN "prune" ELSE "next") /\ UNCHANGED <<md, pending, at>>
    BY <1>9 DEF PruneHealth
  <2> HIDE DEF table
  <2> QED
    BY <1>6, <2>1, <2>2, <2>3 DEF WriteJson, Waits
<1>10. CASE Seed
  <2> DEFINE new == {f \in File : /\ index[f] # NoHash
                                  /\ Monitored = {} \/ f \in Monitored
                                  /\ Health[f] = NoRow}
             table == [f \in File |-> IF f \in new THEN Renewed("yellow", "stub", HashNow(f), "no_wiki", NoRow)
                                      ELSE Health[f]]
  <2>1. pc = "seed" /\ Health = json
    BY <1>10, <1>h DEF Seed
  <2>2. \A f \in File : table[f] = json[f] \/ table[f].reason = "stub"
    BY <2>1 DEF Renewed
  <2>3. /\ UNCHANGED <<md, pending, at>>
        /\ WriteJson(table, "next") \/ (pc' = "next" /\ UNCHANGED json)
    BY <1>10 DEF Seed
  <2> HIDE DEF table
  <2> QED
    BY <1>6, <2>1, <2>2, <2>3 DEF WriteJson, Waits
<1>11. CASE WriteMd
  <2>1. /\ pc = "md" /\ pc' = after /\ UNCHANGED <<json, pending, at,
                                                   file>> /\ \A f \in File : md'[f] = Stripped(json[f])
    BY <1>11 DEF WriteMd
  <2>2. after \in {"next", "queue", "unmap", "drop", "prune"}
    BY <1>a, <2>1 DEF TypeOK, Typed, Fresh
  <2> QED
    BY <1>c, <1>s, <2>1, <2>2 DEF JsonQueued, RowsQueued, MdSame, Leaving, Waits
<1>12. CASE ChangeRow
  BY <1>12, <1>u DEF ChangeRow
<1>13. CASE DeletionRow
  <2> DEFINE row == Renewed("red", "why", IF Health[file] = NoRow THEN NoHash ELSE Health[file].hash, "deleted", Health[file])
  <2>1. pc = "red" /\ Upsert(file, row, "unmap") /\ UNCHANGED <<md, pending, at, file>> /\ row.status = "red"
    BY <1>13 DEF DeletionRow, Renewed
  <2> HIDE DEF row
  <2> QED
    BY <1>u, <2>1
<1>14. CASE Queue
  BY <1>14, <1>c, <1>s DEF Queue, Finish, JsonQueued, RowsQueued, MdSame, Leaving, Waits
<1>15. CASE Drop
  BY <1>15, <1>c, <1>s DEF Drop, Finish, JsonQueued, RowsQueued, MdSame, Leaving, Waits
<1>16. CASE Green
  <2> DEFINE row == [status |-> "green", reason |-> "marked", hash |-> HashNow(file),
                     verification |-> found.verification, symbols |-> found.symbols, wiki |-> WikiNow(file)]
  <2>1. pc = "green" /\ Upsert(file, row, "drop") /\ UNCHANGED <<md, pending, at, file>> /\ row.status = "green"
    BY <1>16 DEF Green
  <2> HIDE DEF row
  <2> QED
    BY <1>u, <2>1
<1>17. CASE CheckMissing \/ CheckDrift
  <2>1. pc = "check" /\ UNCHANGED <<json, md, pending, at>>
    BY <1>17 DEF CheckMissing, CheckDrift
  <2>2. \/ pc' = "check" /\ \A f \in File : rows'[f] = rows[f] \/ rows'[f].status = "red"
        \/ pc' = "check_queue" /\ \A f \in File : rows'[f] = rows[f] \/ f = file'
    <3>1. CASE CheckMissing
      <4> DEFINE old == rows[Next1]
                 row == Renewed("red", "missing", IF old = NoRow THEN NoHash ELSE old.hash,
                                IF old = NoRow THEN "" ELSE old.verification, old)
      <4>1. row.status = "red" /\ (rows' = rows \/ rows' = [rows EXCEPT ![Next1] = row]) /\ pc' = "check"
        BY <3>1 DEF CheckMissing, Renewed
      <4> HIDE DEF row
      <4> QED
        BY <1>a, <4>1 DEF Table
    <3>2. CASE CheckDrift
      <4>1. \E row : rows' = [rows EXCEPT ![Next1] = row] /\ file' = Next1 /\ pc' = "check_queue"
        BY <3>2 DEF CheckDrift
      <4> QED
        BY <1>a, <4>1 DEF Table
    <3> QED
      BY <1>17, <3>1, <3>2
  <2>3. \A f \in File : Steady(f) /\ Waits(json, f) => f \in pending
    BY <1>c, <2>1 DEF JsonQueued
  <2>4. \A f \in File : Steady(f) /\ Waits(rows, f) => f \in pending
    BY <1>c, <2>1 DEF RowsQueued
  <2>5. JsonQueued'
    BY <1>s, <2>1, <2>3 DEF JsonQueued, Waits
  <2>6. RowsQueued'
    BY <1>s, <2>1, <2>2, <2>4 DEF RowsQueued, Waits
  <2> QED
    BY <1>c, <2>1, <2>2, <2>5, <2>6 DEF MdSame, Leaving
<1>18. CASE CheckSame \/ CheckQueue
  BY <1>18, <1>c, <1>s DEF CheckSame, CheckQueue, JsonQueued, RowsQueued, MdSame, Leaving, Waits
<1>19. CASE CheckWrite
  BY <1>19, <1>c, <1>s DEF CheckWrite, WriteJson, JsonQueued, RowsQueued, MdSame, Leaving, Waits
<1>20. CASE (\E f \in File : Edit(f)) \/ (\E f \in File : EditWiki(f)) \/ UNCHANGED vars
  <2>1. UNCHANGED <<json, md, pending, rows, pc, after, file>>
    BY <1>20 DEF Edit, EditWiki, vars
  <2>2. \A f \in File : at[f] \in Nat /\ at'[f] \in Nat /\ at[f] =< at'[f]
    <3>1. at \in [File -> Nat]
      BY <1>a DEF TypeOK
    <3>2. ASSUME NEW g \in File, Edit(g) PROVE at' = [at EXCEPT ![g] = @ + 1]
      BY <3>2 DEF Edit
    <3>3. (\E g \in File : EditWiki(g)) \/ UNCHANGED vars => at' = at
      BY DEF EditWiki, vars
    <3> QED
      BY <1>20, <3>1, <3>2, <3>3
  <2>3. \A f \in File : Steady(f)' => Steady(f)
    BY <2>2 DEF Steady
  <2> QED
    BY <1>c, <2>1, <2>3 DEF JsonQueued, RowsQueued, MdSame, Leaving, Waits
<1>21. CASE UnmapFails \/ Crash
  BY <1>21, <1>b DEF UnmapFails, Crash
<1> QED
  BY <1>1, <1>2, <1>3, <1>4, <1>5, <1>7, <1>8, <1>9, <1>10, <1>11, <1>12, <1>13, <1>14, <1>15,
     <1>16, <1>17, <1>18, <1>19, <1>20, <1>21
  DEF Next, JobStep

-----------------------------------------------------------------------------
\* What check_changes has settled

\* While nothing moves, every step of check_changes names what it looks at, and writes what it named.
LEMMA SettlingStep == Typed /\ Settling /\ [Next]_vars => Settling'
<1> DEFINE Goal == /\ pc \in {"idle", "check", "check_queue", "md", "next"} /\ DOMAIN plan = {}
                   /\ pc \in {"check", "check_queue"} =>
                         /\ \A f \in File \ left : Named(rows, f)
                         /\ IF changed THEN \E f \in File : rows[f] # NoRow ELSE rows = Health
                   /\ pc \in {"idle", "md", "next"} => \A f \in File : Named(Health, f)
                   /\ pc = "md" => after = "next" /\ \E f \in File : json[f] # NoRow
<1> SUFFICES ASSUME Typed, Settling, [Next]_vars, settled' PROVE Goal'
  BY DEF Settling
<1> USE DEF sources, state, local, marks
<1>a. TypeOK /\ Fresh /\ Health \in Table /\ json \in Table /\ rows \in Table
  BY HealthType DEF Typed, TypeOK, Table
<1>g. settled => Goal
  BY DEF Settling
<1>n. ASSUME UNCHANGED <<at, index>>
      PROVE  \A f \in File : /\ Named(rows, f)' <=> Named(rows', f)
                             /\ Named(Health, f)' <=> Named(Health', f)
  BY <1>n DEF Named, WatchedIn, Known, Exists, Now
<1>m. \A one, other, f : f \in File /\ one[f] = other[f] /\ Named(one, f) => Named(other, f)
  BY DEF Named, WatchedIn, Known
<1>h. ASSUME UNCHANGED <<json, md>> PROVE Health' = Health
  BY <1>h DEF Health
<1>1. CASE \/ \E S \in SUBSET File \ {{}}, green \in BOOLEAN : Record(S, green)
           \/ (\E f \in File : RecordDeletion(f)) \/ (\E f \in File, force \in BOOLEAN : MarkGreen(f, force))
           \/ HealStubs \/ (\E force \in BOOLEAN : SeedSourceHashes(force))
           \/ (\E b \in BOOLEAN : PruneHealth(b)) \/ PruneQueue \/ UpdateMaps
           \/ (\E f \in File : Edit(f)) \/ Crash
  BY <1>1 DEF Record, RecordDeletion, MarkGreen, Starts, HealStubs, SeedSourceHashes, PruneHealth,
     Housekeeping, PruneQueue, UpdateMaps, Edit, Crash
<1>2. CASE \/ Change \/ ChangeRow \/ Queue \/ Deletion \/ DeletionRow \/ Unmap \/ UnmapFails \/ Drop
           \/ Verify \/ Green \/ PrunePending \/ Seed
  <2>1. UNCHANGED settled
    BY <1>2 DEF Change, ChangeRow, Queue, Deletion, DeletionRow, Unmap, UnmapFails, Drop, Verify,
       Green, PrunePending, Seed
  <2>2. pc \in {"idle", "check", "check_queue", "md", "next"} /\ DOMAIN plan = {}
    BY <1>g, <2>1
  <2> QED
    BY <1>2, <2>2 DEF Change, ChangeRow, Queue, Deletion, DeletionRow, Unmap, UnmapFails, Drop,
       Verify, Green, PrunePending, Seed
<1>3. CASE CheckChanges
  <2>1. /\ pc = "idle" /\ pc' = "check" /\ rows' = Health /\ left' = Watched
        /\ UNCHANGED <<at, index, json, md, plan, changed>>
    BY <1>3 DEF CheckChanges
  <2>2. DOMAIN plan = {} /\ ~changed
    BY <1>a, <2>1 DEF Fresh
  <2>3. \A f \in File \ left' : Named(rows', f)
    BY <2>1 DEF Named, WatchedIn, Watched
  <2> QED
    BY <1>h, <1>n, <2>1, <2>2, <2>3
\* Looking at a file: the others stay as they were.
<1>4. ASSUME settled, pc = "check", pc' \in {"check", "check_queue"}, UNCHANGED <<at, index, json, md, plan>>,
             NEW n \in File, left' = left \ {n}, \A f \in File \ {n} : rows'[f] = rows[f], Named(rows', n),
             \/ UNCHANGED <<rows, changed>>
             \/ changed' /\ rows'[n] # NoRow
      PROVE  Goal'
  <2>1. \A f \in File \ left' : Named(rows', f)
    <3> TAKE f \in File \ left'
    <3>1. CASE f = n
      BY <1>4, <3>1
    <3>2. CASE f # n
      BY <1>4, <1>g, <1>m, <3>2
    <3> QED
      BY <3>1, <3>2
  <2>2. IF changed' THEN \E f \in File : rows'[f] # NoRow ELSE rows' = Health'
    BY <1>4, <1>g, <1>h
  <2>3. DOMAIN plan' = {}
    BY <1>4, <1>g
  <2> QED
    BY <1>4, <1>n, <2>1, <2>2, <2>3
<1>5. CASE CheckMissing
  <2> DEFINE n == Next1
             old == rows[n]
             row == Renewed("red", "missing", IF old = NoRow THEN NoHash ELSE old.hash,
                            IF old = NoRow THEN "" ELSE old.verification, old)
  <2>1. n \in File /\ old \in Row \cup {NoRow} /\ ~Exists(n)
    BY <1>5, <1>a, NextFile DEF CheckMissing, TypeOK, Table
  <2>2. row \in Row /\ row.status = "red"
    BY <2>1 DEF Renewed, Row, Hash
  <2>3. /\ settled /\ pc = "check" /\ pc' = "check" /\ left' = left \ {n}
        /\ UNCHANGED <<at, index, json, md, plan>>
        /\ \/ old # NoRow /\ old.status = "red" /\ UNCHANGED <<rows, changed>>
           \/ rows' = [rows EXCEPT ![n] = row] /\ changed'
    BY <1>5 DEF CheckMissing
  <2> HIDE DEF row
  <2>4. NoRow \notin Row
    BY HealthLoopAssumption DEF HealthLoopAssumption
  <2>5. rows'[n] # NoRow /\ rows'[n].status = "red" /\ \A f \in File \ {n} : rows'[f] = rows[f]
    BY <1>a, <2>1, <2>2, <2>3, <2>4 DEF Table
  <2>6. Named(rows', n)
    BY <2>1, <2>5 DEF Named
  <2> HIDE DEF n
  <2> QED
    BY <1>4, <2>1, <2>3, <2>5, <2>6
<1>6. CASE CheckSame
  <2> DEFINE n == Next1
  <2>1. n \in File /\ Exists(n) /\ (~Drifted(n) \/ Flagged(rows[n]))
    BY <1>6, <1>a, NextFile DEF CheckSame, TypeOK
  <2>2. /\ settled /\ pc = "check" /\ pc' = "check" /\ left' = left \ {n}
        /\ UNCHANGED <<at, index, json, md, plan, rows, changed>>
    BY <1>6 DEF CheckSame
  <2> HIDE DEF n
  <2>3. Named(rows, n)
    BY <2>1 DEF Named, Drifted, Known
  <2> QED
    BY <1>4, <2>1, <2>2, <2>3
<1>7. CASE CheckDrift
  <2> DEFINE n == Next1
             old == rows[n]
             row == Renewed("yellow", "changed", IF old # NoRow /\ old.hash # NoHash THEN old.hash ELSE Now(n),
                            IF old = NoRow THEN "" ELSE old.verification, old)
  <2>1. n \in File /\ old \in Row \cup {NoRow} /\ Exists(n)
    BY <1>7, <1>a, NextFile DEF CheckDrift, TypeOK, Table
  <2>2. row \in Row /\ row.status = "yellow" /\ row.reason = "changed"
    BY <1>a, <2>1, NowType DEF Renewed, Row, Hash
  <2>3. /\ settled /\ pc = "check" /\ pc' = "check_queue" /\ left' = left \ {n}
        /\ UNCHANGED <<at, index, json, md, plan>> /\ rows' = [rows EXCEPT ![n] = row] /\ changed'
    BY <1>7 DEF CheckDrift
  <2> HIDE DEF row
  <2>4. NoRow \notin Row
    BY HealthLoopAssumption DEF HealthLoopAssumption
  <2>5. rows'[n] = row /\ \A f \in File \ {n} : rows'[f] = rows[f]
    BY <1>a, <2>1, <2>3 DEF Table
  <2>6. Named(rows', n) /\ rows'[n] # NoRow
    BY <2>1, <2>2, <2>4, <2>5 DEF Named, Flagged
  <2> HIDE DEF n
  <2> QED
    BY <1>4, <2>1, <2>3, <2>5, <2>6
<1>8. CASE CheckQueue
  <2>1. /\ settled /\ pc = "check_queue" /\ pc' = "check"
        /\ UNCHANGED <<at, index, json, md, plan, rows, left, changed>>
    BY <1>8 DEF CheckQueue
  <2> QED
    BY <1>g, <1>h, <1>n, <2>1
<1>9. CASE CheckWrite
  <2>1. /\ settled /\ pc = "check" /\ left = {} /\ UNCHANGED <<at, index, md, plan>>
        /\ \/ changed /\ json' = rows /\ pc' = "md" /\ after' = "next"
           \/ ~changed /\ json' = json /\ pc' = "next"
    BY <1>9 DEF CheckWrite, WriteJson
  <2>2. Health' = rows
    <3>1. CASE changed
      BY <1>g, <2>1, <3>1 DEF Health
    <3>2. CASE ~changed
      BY <1>g, <1>h, <2>1, <3>2
    <3> QED
      BY <3>1, <3>2
  <2>3. \A f \in File : Named(Health', f)
    BY <1>g, <2>1, <2>2
  <2> QED
    BY <1>g, <1>n, <2>1, <2>3
<1>10. CASE WriteMd
  <2>1. /\ settled /\ pc = "md" /\ pc' = after /\ UNCHANGED <<at, index, json, plan>>
    BY <1>10 DEF WriteMd
  <2>2. after = "next" /\ DOMAIN plan' = {} /\ \E f \in File : json[f] # NoRow
    BY <1>g, <2>1
  <2>3. Health' = Health
    BY <2>1, <2>2 DEF Health
  <2>4. \A f \in File : Named(Health', f)
    BY <1>g, <2>1, <2>3
  <2> QED
    BY <1>n, <2>1, <2>2, <2>4
<1>11. CASE End
  <2>1. settled /\ pc = "next" /\ pc' = "idle" /\ DOMAIN plan' = {} /\ UNCHANGED <<at, index, json, md>>
    BY <1>11, Forgotten DEF End
  <2>2. \A f \in File : Named(Health', f)
    BY <1>g, <1>h, <2>1
  <2> QED
    BY <1>n, <2>1, <2>2
<1>12. CASE (\E f \in File : EditWiki(f)) \/ UNCHANGED vars
  <2>1. settled /\ UNCHANGED <<at, index, json, md, pc, plan, rows, left, changed, after>>
    BY <1>12 DEF EditWiki, vars
  <2> QED
    BY <1>g, <1>h, <1>n, <2>1
<1> QED
  BY <1>1, <1>2, <1>3, <1>5, <1>6, <1>7, <1>8, <1>9, <1>10, <1>11, <1>12 DEF Next, JobStep

-----------------------------------------------------------------------------
\* The theorems

\* A fresh project satisfies the invariant: there are no rows, no job and nothing settled.
LEMMA StartOK == Init => IInv
<1> SUFFICES ASSUME Init PROVE IInv
  OBVIOUS
<1>1. Typed
  BY TypeInit
<1>2. Journaled
  BY DEF Init, Journaled, Explained, NoRows
<1>3. Earned
  BY DEF Init, Earned, Backed, Claims, NoRows
<1>4. Queued
  BY StrippedRow DEF Init, Queued, JsonQueued, RowsQueued, MdSame, Leaving, Waits, NoRows, Stripped
<1>5. Settling
  BY DEF Init, Settling
<1> QED
  BY <1>1, <1>2, <1>3, <1>4, <1>5 DEF IInv

\* Every step keeps it.
LEMMA Inductive == IInv /\ [Next]_vars => IInv'
BY TypeStep, PlaceStep, JournaledStep, EarnedStep, QueuedStep, SettlingStep DEF IInv, Typed

\* It holds in every state.
LEMMA Invariance == Spec => []IInv
BY StartOK, Inductive, PTL DEF Spec

\* StatusIsExplained: the reason of every Yellow or Red row, but a stub's, is in the journal,
\* whatever job died between which writes (record_change and check_changes journal before they
\* write rows).
THEOREM ReasonsAreJournaled == Spec => []StatusIsExplained
<1>1. IInv => StatusIsExplained
  BY DEF IInv, Journaled, Explained, StatusIsExplained
<1> QED
  BY <1>1, Invariance, PTL

\* GreenIsBacked: a verified Green row whose hash came from mark_green records a wiki that mentions
\* the symbols it records, which are those of the content it records, and verify_wikis finds no
\* fault with it while neither changes, for any number of files, contents, wikis and jobs.
THEOREM GreenIsEarned == Spec => []GreenIsBacked
<1>1. IInv => GreenIsBacked
  <2> SUFFICES ASSUME IInv, NEW f \in File, f \notin unbacked, Claims(json[f])
               PROVE  /\ Checked(json[f].symbols, json[f].hash, json[f].wiki)
                      /\ (json[f].hash = Now(f) /\ json[f].wiki = WikiNow(f)) => f \notin FailedWikis
    BY DEF GreenIsBacked, Claims, Checked
  <2>1. Checked(json[f].symbols, json[f].hash, json[f].wiki)
    BY DEF IInv, Earned, Backed
  <2>2. Health = json
    BY DEF Health, Claims
  <2>3. ASSUME json[f].hash = Now(f), json[f].wiki = WikiNow(f), Exists(f), f \in Extracted
        PROVE  ~Issues(SymbolsNow(f), WikiNow(f), Health[f])
    BY <2>1, <2>2, <2>3 DEF SymbolsNow, Issues, Checked
  <2> QED
    BY <2>1, <2>3 DEF FailedWikis
<1> QED
  BY <1>1, Invariance, PTL

\* QueueCoversYellow: between jobs, and while none died, every mapped file that was there all the
\* time and waits for its wiki has an item in pending_updates.md.
THEOREM WaitingIsQueued == Spec => []QueueCoversYellow
<1>1. IInv => QueueCoversYellow
  BY DEF IInv, Queued, JsonQueued, QueueCoversYellow, Steady, Waits
<1> QED
  BY <1>1, Invariance, PTL

\* AdviceIsComplete: when check_changes has looked at every watched file and nothing moved since,
\* suggest_next names every one that is gone or drifted and every stale wiki, and ready_for_daemon
\* means that there is none.
THEOREM AdviceCoversDrift == Spec => []AdviceIsComplete
<1>1. IInv => AdviceIsComplete
  <2> SUFFICES ASSUME IInv, settled, pc = "idle" PROVE AdviceIsComplete
    BY DEF AdviceIsComplete
  <2> DEFINE known(f) == IF Health[f] # NoRow /\ Health[f].hash # NoHash THEN Health[f].hash ELSE index[f]
             drifted == {f \in Watched : ~Exists(f) \/ known(f) \notin {NoHash, Now(f)}}
  <2>1. \A f \in File : Named(Health, f)
    BY DEF IInv, Settling
  <2>2. \A f \in File : Flagged(Health[f]) => f \in SuggestedEdits
    BY DEF Flagged, SuggestedEdits, Rows
  <2>3. drifted \subseteq SuggestedDeletions \cup SuggestedEdits
    <3> SUFFICES ASSUME NEW f \in drifted PROVE f \in SuggestedDeletions \cup SuggestedEdits
      OBVIOUS
    <3>1. f \in File /\ f \in WatchedIn(Health)
      BY DEF Watched, WatchedIn
    <3>2. CASE ~Exists(f)
      BY <2>1, <3>1, <3>2 DEF Named, SuggestedDeletions, Rows
    <3>3. CASE Exists(f)
      BY <2>1, <2>2, <3>1, <3>3 DEF Named, Known
    <3> QED
      BY <3>2, <3>3
  <2>4. StaleWikis \subseteq SuggestedEdits
    <3> SUFFICES ASSUME NEW f \in StaleWikis PROVE f \in SuggestedEdits
      OBVIOUS
    <3>1. f \in File /\ f \in WatchedIn(Health)
      BY DEF StaleWikis, WatchedIn
    <3>2. Flagged(Health[f])
      BY <2>1, <3>1 DEF StaleWikis, Named, Known
    <3> QED
      BY <2>2, <3>1, <3>2
  <2>5. Readiness = "ready_for_daemon" => SuggestedDeletions = {} /\ SuggestedEdits = {}
    BY DEF Readiness
  <2> HIDE DEF drifted
  <2>6. /\ drifted \cup StaleWikis \subseteq SuggestedDeletions \cup SuggestedEdits
        /\ Readiness = "ready_for_daemon" => drifted \cup StaleWikis = {}
    BY <2>3, <2>4, <2>5
  <2> QED
    BY <2>6 DEF AdviceIsComplete, drifted
<1> QED
  BY <1>1, Invariance, PTL
=============================================================================
