--------------------------- MODULE MapCacheProofs ---------------------------
(***************************************************************************)
(* The safety properties of the dependency-map cache, for any files,       *)
(* contents, scopes and caps, and any number of deletions and deaths.      *)
(*                                                                         *)
(* ConsistentUnlessPending says nothing of the middle of a commit.  There  *)
(* the records are between two indexes, the one on disk and the rows in    *)
(* memory: Planned names, for each phase of the commit, the records that   *)
(* already say what the rows say, and Unwritten keeps the others at what   *)
(* the index on disk says.  What the session stages for an importer of a   *)
(* removed path comes from its by_src record, so Planned needs in turn     *)
(* that a session opens a cache that agrees (Agreed): the two carry each   *)
(* other from one job to the next.  A rebuild reads only by_src, which a   *)
(* dead commit leaves with the old or the new targets of each path         *)
(* (Rebuilding).  The same invariant makes every step one that readers of  *)
(* CacheService may see, or none at all.                                   *)
(***************************************************************************)
EXTENDS MapCache, TLAPS, SequenceTheorems

Tables == [File -> Row \cup {NoRow}]

\* What a Session has in memory.
SessionOK ==
    /\ rows \in Tables
    /\ rev \in [File -> SUBSET File]
    /\ dirtySrc \in [File -> {Missing} \cup SUBSET File]
    /\ dirtyDst \subseteq File /\ removed \subseteq File /\ reparse \subseteq File /\ todo \subseteq File
    /\ newSizes \in Sizes
    /\ DOMAIN hashed \subseteq File /\ \A f \in DOMAIN hashed : hashed[f] \in Content

\* The folder cards that DrawFolders completes are there.
Drawn == pc = "folders" => cards \in [paths : SUBSET File, whole : BOOLEAN]

Typed == TypeOK /\ Drawn

\* What the records of a path say when they say what an index does.
RecordOf(table, f) == IF table[f] = NoRow THEN Missing ELSE table[f].dsts
ReverseOf(table, d) == IF ImportersIn(table)[d] = {} THEN Missing ELSE ImportersIn(table)[d]

\* Where a job is while records are written, and after.
Writing == {"commit", "unlink", "forward", "reverse"}
Closing == {"sizes", "commit_done", "commit_mark"}

\* commit.pending is there from before the first write to after the last.
Pended ==
    /\ pc \in {"rebuild", "rebuild_dst", "rebuild_done", "unlink", "forward", "reverse", "sizes", "commit_done"} =>
          pending = "set"
    /\ pc \in {"rebuild_mark", "commit_mark"} => pending = "unlinked"
    /\ pc \in {"scan", "parse", "delete", "commit"} => pending # "set"

\* A session holds what open read until Parse or Delete changes it; nothing is staged before.
Opened ==
    /\ pc \notin Writing \cup Closing => dirtySrc = None
    /\ pc \in {"scan", "parse", "delete"} => rows = index /\ rev = ImportersIn(index)
    /\ pc = "parse" => DOMAIN hashed \subseteq files

\* The paths with lines to write.
Staged == {f \in File : dirtySrc[f] # Missing}

\* The paths whose records the commit has yet to write.
OpenSrc == CASE pc = "commit" -> removed \cup Staged
             [] pc = "unlink" -> todo \cup Staged
             [] pc = "forward" -> todo
             [] OTHER -> {}
OpenDst == IF pc = "reverse" THEN todo ELSE dirtyDst

\* What is staged is what the rows say.
Plan ==
    /\ rev = ImportersIn(rows)
    /\ \A f \in Staged : dirtySrc[f] = RecordOf(rows, f)
    /\ \A f \in removed : rows[f] = NoRow
    /\ pc = "unlink" => todo \subseteq removed
    /\ pc = "forward" => todo \subseteq Staged

\* And what is not staged is so on disk.
Planned ==
    pc \in Writing =>
        /\ Plan
        /\ \A f \in File \ OpenSrc : bySrc[f] = RecordOf(rows, f)
        /\ \A d \in File \ OpenDst : byDst[d] = ReverseOf(rows, d)

\* A record not written yet is as the job found it.
Unwritten ==
    pc \in Writing =>
        \A f \in File : /\ bySrc[f] \in {RecordOf(index, f), RecordOf(rows, f)}
                        /\ byDst[f] \in {ReverseOf(index, f), ReverseOf(rows, f)}

\* The paths whose by_src record lists d.
Importing(d) == {s \in File : d \in Lines(bySrc[s])}

\* A rebuild has written the by_dst records it has done with, and none that it has not.
Rebuilding ==
    pc = "rebuild_dst" =>
        /\ \A d \in todo : byDst[d] = Missing /\ Importing(d) # {}
        /\ \A d \in File \ todo : byDst[d] = IF Importing(d) = {} THEN Missing ELSE Importing(d)

\* Between commits and rebuilds, and once the index is written, all records say what it says.
Agreed == (pending # "set" \/ pc \in Closing \cup {"rebuild_done"}) => Agrees

\* No record has lost its bytes.
Whole == \A f \in File : bySrc[f] \notin Torn /\ byDst[f] \notin Torn

\* What holds while the records reach the disk.
Lossless == losses = 0 => Planned /\ Unwritten /\ Rebuilding /\ Agreed /\ Whole

\* Once saved, the index is the rows of the session.
InStep == pc \in Closing => rows = index

CInv == Typed /\ Pended /\ Opened /\ InStep /\ Lossless

-----------------------------------------------------------------------------
\* Types

\* A read gives a content, also of a path without a file.
LEMMA ReadType == TypeOK => \A f \in File : Now(f) \in Content \cup {Gone} /\ ReadNow(f) \in Content
BY MapCacheAssumption, ElementOfSeq DEF MapCacheAssumption, TypeOK, Now, ReadNow

\* What a record lists are paths.
LEMMA LinesType == \A r \in Record : Lines(r) \subseteq File
BY DEF Record, Lines

\* A session that is over is empty.
LEMMA Closed == CloseSession => SessionOK'
<1> SUFFICES ASSUME CloseSession PROVE SessionOK'
  OBVIOUS
<1>1. hashed' = <<>> /\ DOMAIN hashed' = {}
  BY DEF CloseSession
<1>2. newSizes' \in Sizes
  BY DEF CloseSession, Blank, Unsized, Sizes
<1> QED
  BY <1>1, <1>2 DEF CloseSession, SessionOK, Tables, None

\* Removing paths from a session gives a session.
LEMMA RemovedType ==
    ASSUME NEW gone \in SUBSET File, NEW table \in Tables, NEW importers \in [File -> SUBSET File],
           NEW lines \in [File -> {Missing} \cup SUBSET File], NEW touched \in SUBSET File,
           bySrc \in [File -> Record], RemoveAll(gone, table, importers, lines, touched)
    PROVE  /\ rows' \in Tables
           /\ rev' \in [File -> SUBSET File]
           /\ dirtySrc' \in [File -> {Missing} \cup SUBSET File]
           /\ dirtyDst' \subseteq File
           /\ removed' \subseteq File
<1>1. rows' \in Tables
  BY DEF RemoveAll, Tables, Row
<1>2. rev' \in [File -> SUBSET File]
  BY DEF RemoveAll
<1>3. dirtySrc' \in [File -> {Missing} \cup SUBSET File]
  BY LinesType DEF RemoveAll
<1>4. dirtyDst' \subseteq File
  <2>1. \A g \in gone : table[g] # NoRow => table[g].dsts \subseteq File
    BY DEF Tables, Row
  <2> QED
    BY <2>1 DEF RemoveAll
<1> QED
  BY <1>1, <1>2, <1>3, <1>4 DEF RemoveAll

\* The session after the upserts of a Parse: its rows, reverse map, staged lines, the targets
\* marked dirty, and the paths it removes next.
Upserted ==
    [f \in File |-> IF f \in DOMAIN hashed THEN [hash |-> hashed[f], dsts |-> Targets(f)] ELSE rows[f]]
UpsertedRev ==
    [d \in File |-> (rev[d] \ {f \in DOMAIN hashed : d \in OldTargets(f) \ Targets(f)})
                       \cup {f \in DOMAIN hashed : d \in Targets(f) \ OldTargets(f)}]
UpsertedLines == [f \in File |-> IF f \in DOMAIN hashed THEN Targets(f) ELSE Missing]
Turned == UNION {(OldTargets(f) \ Targets(f)) \cup (Targets(f) \ OldTargets(f)) : f \in DOMAIN hashed}
Stale == {f \in File \ files : Upserted[f] # NoRow}

\* Parse upserts the files it kept, then removes the rows of the paths that were not collected.
LEMMA ParseRemoves ==
    Parse => /\ RemoveAll(Stale, Upserted, UpsertedRev, UpsertedLines, dirtyDst \cup Turned)
             /\ rewrite' = (rewrite \/ DOMAIN hashed # {} \/ Stale # {})
             /\ pc' = "commit" /\ DOMAIN hashed' = {}
             /\ UNCHANGED <<tree, disk, request, reparse, newSizes, todo, settled, counts>>
BY DEF Parse, Upserted, UpsertedRev, UpsertedLines, Turned, Stale

\* What the upserts leave is a session: rows, a reverse map, lines, and paths to remove.
LEMMA ParsedType ==
    TypeOK => /\ \A f \in File : Targets(f) \subseteq File /\ OldTargets(f) \subseteq File
              /\ Upserted \in Tables
              /\ UpsertedRev \in [File -> SUBSET File]
              /\ UpsertedLines \in [File -> {Missing} \cup SUBSET File]
              /\ dirtyDst \cup Turned \in SUBSET File
              /\ Stale \in SUBSET File
<1> SUFFICES ASSUME TypeOK
             PROVE  /\ \A f \in File : Targets(f) \subseteq File /\ OldTargets(f) \subseteq File
                    /\ Upserted \in Tables
                    /\ UpsertedRev \in [File -> SUBSET File]
                    /\ UpsertedLines \in [File -> {Missing} \cup SUBSET File]
                    /\ dirtyDst \cup Turned \in SUBSET File
                    /\ Stale \in SUBSET File
  OBVIOUS
<1>1. \A f \in File : Targets(f) \subseteq File /\ OldTargets(f) \subseteq File
  BY MapCacheAssumption, ReadType DEF MapCacheAssumption, Targets, OldTargets, TypeOK, Row
<1>2. DOMAIN hashed \subseteq File /\ \A f \in DOMAIN hashed : hashed[f] \in Content
  BY DEF TypeOK
<1>3. Upserted \in Tables
  BY <1>1, <1>2 DEF TypeOK, Tables, Row, Upserted
<1>4. UpsertedRev \in [File -> SUBSET File]
  BY <1>2 DEF TypeOK, UpsertedRev
<1>5. UpsertedLines \in [File -> {Missing} \cup SUBSET File]
  BY <1>1 DEF UpsertedLines
<1>6. dirtyDst \cup Turned \in SUBSET File
  BY <1>1, <1>2 DEF TypeOK, Turned
<1> QED
  BY <1>1, <1>3, <1>4, <1>5, <1>6 DEF Stale

\* The project starts without a cache.
LEMMA TypeInit == Init => Typed
<1> SUFFICES ASSUME Init PROVE Typed
  OBVIOUS
<1> USE MapCacheAssumption DEF MapCacheAssumption
<1>1. at \in [File -> Nat] /\ \A f \in File : at[f] \in 1 .. Len(History[f])
  BY EmptySeq DEF Init
<1>2. newSizes \in Sizes
  BY DEF Init, Blank, Unsized, Sizes
<1>3. DOMAIN hashed = {}
  BY DEF Init
<1>4. bySrc \in [File -> Record] /\ byDst = bySrc /\ safeSrc = bySrc /\ safeDst = bySrc /\ dirtySrc \in [File -> {Missing} \cup SUBSET File]
  BY DEF Init, None, Record
<1>5. deletes \in 0..MaxDeletes /\ crashes \in 0..MaxCrashes /\ losses \in 0..MaxLosses
  BY DEF Init
<1> QED
  BY <1>1, <1>2, <1>3, <1>4, <1>5 DEF Init, Typed, TypeOK, Drawn

\* Each step of a job, an editor or the file system keeps the types.
LEMMA TypeStep == Typed /\ [Next]_vars => TypeOK'
<1> SUFFICES ASSUME TypeOK, Drawn, [Next]_vars PROVE TypeOK'
  BY DEF Typed
<1> USE DEF tree, cache, maps, disk, session, request, counts, past
<1>1. ASSUME NEW scope \in Scopes, NEW cap \in Budgets, BeginUpdate(scope, cap) PROVE TypeOK'
  BY <1>1, MapCacheAssumption DEF MapCacheAssumption, BeginUpdate, TypeOK
<1>2. ASSUME NEW f \in File, BeginDelete(f) PROVE TypeOK'
  <2>1. deletes' \in 0..MaxDeletes
    BY <1>2, MapCacheAssumption DEF MapCacheAssumption, BeginDelete, TypeOK
  <2> QED
    BY <1>2, <2>1 DEF BeginDelete, TypeOK
<1>3. ASSUME NEW f \in File, Edit(f) PROVE TypeOK'
  <2>1. at' \in [File -> Nat] /\ \A g \in File : at'[g] \in 1 .. Len(History[g])
    <3>1. Len(History[f]) \in Nat
      BY MapCacheAssumption, LenProperties DEF MapCacheAssumption
    <3> QED
      BY <1>3, <3>1 DEF Edit, TypeOK
  <2>2. UNCHANGED <<index, bySrc, byDst, sizes, pending, safeSrc, safeDst, library, cards, pc,
                    job, files, budget, rows, rev,
                    dirtySrc, dirtyDst, removed, rewrite, reparse, newSizes, hashed, todo,
                    restaged, deletes, crashes, losses>>
    BY <1>3 DEF Edit
  <2>3. settled' \in BOOLEAN
    BY <1>3 DEF Edit
  <2> QED
    BY <2>1, <2>2, <2>3 DEF TypeOK
<1>4. CASE Writeback
  BY <1>4 DEF Writeback, TypeOK
<1>5. ASSUME JobEnds
      PROVE  SessionOK' /\ pc' = "idle" /\ job' = "none" /\ files' \subseteq File /\ budget' \in Nat \cup {NoCap} /\ rewrite' \in BOOLEAN
  BY <1>5, Closed DEF JobEnds, NoRequest
<1>6. CASE Crash
  <2>1. crashes' \in 0..MaxCrashes
    BY <1>6, MapCacheAssumption DEF MapCacheAssumption, Crash, TypeOK
  <2> QED
    BY <1>5, <1>6, <2>1 DEF Crash, TypeOK, SessionOK, Tables
<1>7. CASE PowerLoss
  <2>1. losses' \in 0..MaxLosses
    BY <1>7, MapCacheAssumption DEF MapCacheAssumption, PowerLoss, TypeOK
  <2> QED
    BY <1>5, <1>7, <2>1 DEF PowerLoss, TypeOK, SessionOK, Tables
<1>8. CASE RebuildStart \/ RebuildUnpend \/ RebuildMark
  BY <1>8 DEF RebuildStart, RebuildUnpend, RebuildMark, TypeOK
<1>9. CASE RebuildFails
  BY <1>5, <1>9 DEF RebuildFails, TypeOK, SessionOK, Tables
<1>10. CASE RebuildClear
  <2>1. byDst' \in [File -> Record]
    BY <1>10 DEF RebuildClear, None, Record
  <2>2. todo' \subseteq File
    <3>1. \A f \in File : Lines(bySrc[f]) \subseteq File
      BY LinesType DEF TypeOK
    <3> QED
      BY <1>10, <3>1 DEF RebuildClear
  <2> QED
    BY <1>10, <2>1, <2>2 DEF RebuildClear, TypeOK
<1>11. ASSUME NEW d \in File, RebuildRecord(d) PROVE TypeOK'
  BY <1>11 DEF RebuildRecord, TypeOK, Record
<1>12. CASE RebuildIndex
  <2>1. \A f \in File : RebuiltRow(f) \in Row \cup {NoRow}
    BY LinesType DEF RebuiltRow, Row, TypeOK
  <2> QED
    BY <1>12, <2>1 DEF RebuildIndex, TypeOK
<1>13. CASE Load
  <2>1. newSizes' \in Sizes
    <3>1. \A r \in Record : SizeOrNone(r) \in Nat \cup {NoSize}
      BY MapCacheAssumption DEF MapCacheAssumption, Record, SizeOrNone
    <3> QED
      BY <1>13, <3>1 DEF Load, Sizes, TypeOK
  <2>2. rev' \in [File -> SUBSET File]
    BY <1>13 DEF Load, ImportersIn
  <2> QED
    BY <1>13, <2>1, <2>2 DEF Load, TypeOK, Indexed, Imported
<1>14. CASE Scan
  <2>1. DOMAIN hashed' \subseteq File /\ \A f \in DOMAIN hashed' : hashed'[f] \in Content
    BY <1>14, ReadType DEF Scan, Dirty, TypeOK
  <2>2. settled' \in BOOLEAN /\ pc' = "parse"
    BY <1>14 DEF Scan, TypeOK
  <2> QED
    BY <1>14, <2>1, <2>2 DEF Scan, TypeOK
<1>15. ASSUME NEW gone \in SUBSET File, NEW table \in Tables, NEW importers \in [File -> SUBSET File],
              NEW lines \in [File -> {Missing} \cup SUBSET File], NEW touched \in SUBSET File,
              RemoveAll(gone, table, importers, lines, touched), rewrite' \in BOOLEAN,
              pc' = "commit",
              DOMAIN hashed' = {} \/ UNCHANGED hashed,
              UNCHANGED <<tree, disk, request, reparse, newSizes, todo, settled, counts>>
       PROVE  TypeOK'
  <2>1. bySrc \in [File -> Record]
    BY DEF TypeOK
  <2>2. /\ rows' \in Tables
        /\ rev' \in [File -> SUBSET File]
        /\ dirtySrc' \in [File -> {Missing} \cup SUBSET File]
        /\ dirtyDst' \subseteq File
        /\ removed' \subseteq File
    BY <1>15, <2>1, RemovedType
  <2>3. DOMAIN hashed' \subseteq File /\ \A f \in DOMAIN hashed' : hashed'[f] \in Content
    BY <1>15 DEF TypeOK
  <2>4. restaged' \in BOOLEAN
    BY <1>15 DEF RemoveAll, TypeOK
  <2> QED
    BY <1>15, <2>2, <2>3, <2>4 DEF TypeOK, Tables
<1>16. CASE Delete
  BY <1>15, <1>16 DEF Delete, TypeOK, Tables
<1>17. CASE Parse
  <2>1. Stale \in SUBSET File /\ dirtyDst \cup Turned \in SUBSET File
    BY ParsedType
  <2>2. Upserted \in Tables /\ UpsertedRev \in [File -> SUBSET File] /\ UpsertedLines \in [File -> {Missing} \cup SUBSET File]
    BY ParsedType
  <2>3. rewrite' \in BOOLEAN /\ DOMAIN hashed' = {}
    BY <1>17, ParseRemoves DEF TypeOK
  <2> QED
    BY <1>15, <1>17, <2>1, <2>2, <2>3, ParseRemoves
<1>18. ASSUME Committed
       PROVE  SessionOK' /\ pc' \in {"idle", "maps"} /\ job' \in {"none", "update"} /\ files' \subseteq File /\ budget' \in Nat \cup {NoCap} /\ rewrite' \in BOOLEAN
  BY <1>5, <1>18, Closed DEF Committed, TypeOK
<1>19. CASE CommitNothing
  BY <1>18, <1>19 DEF CommitNothing, TypeOK, SessionOK, Tables
<1>20. CASE CommitMark
  BY <1>18, <1>20 DEF CommitMark, TypeOK, SessionOK, Tables
<1>21. CASE CommitBegin
  <2>1. newSizes' \in Sizes
    BY <1>21 DEF CommitBegin, TypeOK, Sizes
  <2> QED
    BY <1>21, <2>1 DEF CommitBegin, Unchanging, TypeOK
<1>22. ASSUME NEW f \in File, UnlinkRecord(f) PROVE TypeOK'
  BY <1>22 DEF UnlinkRecord, Unchanging, TypeOK, Record
<1>23. CASE StartForward
  <2>2. todo' \subseteq File /\ \A f \in todo' : SizeOf[dirtySrc[f]] \in Nat
    BY <1>23, MapCacheAssumption DEF MapCacheAssumption, StartForward, TypeOK
  <2>1. newSizes' \in Sizes /\ todo' \subseteq File
    BY <1>23, <2>2 DEF StartForward, TypeOK, Sizes
  <2> QED
    BY <1>23, <2>1 DEF StartForward, Unchanging, TypeOK
<1>24. ASSUME NEW f \in File, WriteForward(f) PROVE TypeOK'
  BY <1>24 DEF WriteForward, Unchanging, TypeOK, Record
<1>25. CASE StartReverse
  <2>1. newSizes' \in Sizes
    BY <1>25, MapCacheAssumption, ZenonT(60) DEF MapCacheAssumption, StartReverse, TypeOK, Sizes
  <2> QED
    BY <1>25, <2>1 DEF StartReverse, Unchanging, TypeOK
<1>26. ASSUME NEW d \in File, WriteReverse(d) PROVE TypeOK'
  BY <1>26 DEF WriteReverse, Unchanging, TypeOK, Record
<1>27. CASE SaveIndex \/ SaveSizes \/ CommitUnpend
  BY <1>27 DEF SaveIndex, SaveSizes, CommitUnpend, Unchanging, TypeOK
<1>28. CASE KeepMaps
  BY <1>5, <1>28 DEF KeepMaps, Undisturbed, TypeOK, SessionOK, Tables
<1>29. CASE DrawLibrary
  <2>1. library' \in [File -> {NoRow} \cup SUBSET File]
    <3>1. \A f \in File : Dependencies(f) \subseteq File
      BY LinesType DEF Dependencies, IndexDsts, TypeOK, Row
    <3> QED
      BY <1>29, <3>1 DEF DrawLibrary
  <2> QED
    BY <1>29, <2>1 DEF DrawLibrary, Undisturbed, TypeOK
<1>30. CASE DrawRoot
  BY <1>30 DEF DrawRoot, Undisturbed, TypeOK, Indexed
<1>31. CASE DrawFolders
  <2>1. cards' \in [paths : SUBSET File, whole : BOOLEAN] \cup {NoMap}
    BY <1>31 DEF DrawFolders, Drawn
  <2> QED
    BY <1>5, <1>31, <2>1 DEF DrawFolders, Undisturbed, TypeOK, SessionOK, Tables
<1>32. CASE UNCHANGED vars
  BY <1>32 DEF vars, TypeOK
<1> QED
  BY <1>1, <1>2, <1>3, <1>4, <1>6, <1>7, <1>8, <1>9, <1>10, <1>11, <1>12, <1>13, <1>14, <1>16,
     <1>17, <1>19, <1>20, <1>21, <1>22, <1>23, <1>24, <1>25, <1>26, <1>27, <1>28, <1>29, <1>30,
     <1>31, <1>32
  DEF Next, SomeUpdate, JobStep

\* Only DrawRoot comes before DrawFolders, and it leaves cards.
LEMMA DrawnStep == Typed /\ [Next]_vars => Drawn'
<1> SUFFICES ASSUME TypeOK, Drawn, [Next]_vars PROVE Drawn'
  BY DEF Typed
<1>1. CASE DrawRoot
  BY <1>1 DEF DrawRoot, Drawn, TypeOK, Indexed
<1>2. CASE UNCHANGED cards /\ (pc' = "folders" => pc = "folders")
  BY <1>2 DEF Drawn
<1>3. CASE pc' # "folders"
  BY <1>3 DEF Drawn
<1> QED
  BY <1>1, <1>2, <1>3
  DEF Next, SomeUpdate, JobStep, BeginUpdate, BeginDelete, Edit, Writeback, JobEnds, Crash,
      PowerLoss,
      RebuildStart, RebuildFails, RebuildClear, RebuildRecord, RebuildIndex, RebuildUnpend,
      RebuildMark, Load, Scan,
      Parse, Delete, Committed, CommitNothing, Unchanging, CommitBegin, UnlinkRecord,
      StartForward, WriteForward,
      StartReverse, WriteReverse, SaveIndex, SaveSizes, CommitUnpend, CommitMark, Undisturbed,
      KeepMaps, DrawLibrary,
      DrawFolders, vars, disk, maps

\* Every reachable state is of its type.
THEOREM TypeCorrect == Spec => []TypeOK
<1>1. Typed => TypeOK
  BY DEF Typed
<1>2. Typed /\ [Next]_vars => Typed'
  BY TypeStep, DrawnStep DEF Typed
<1> QED
  BY <1>1, <1>2, TypeInit, PTL DEF Spec

-----------------------------------------------------------------------------
\* The plan of a commit

\* RemoveAll of a session whose reverse map is the inverse of its rows, whose staged lines are
\* those of its rows, and which takes the other ones from the records, if these are right or
\* happen to give what the rows say.
Removal(gone, table, importers, lines, touched) ==
    /\ gone \in SUBSET File /\ table \in Tables /\ touched \in SUBSET File
    /\ lines \in [File -> {Missing} \cup SUBSET File]
    /\ bySrc \in [File -> Record]
    /\ importers = ImportersIn(table)
    /\ \A s \in File : lines[s] # Missing => lines[s] = RecordOf(table, s)
    /\ \/ ~restaged'
       \/ \A s \in File : lines[s] = Missing /\ table[s] # NoRow /\ s \notin gone => bySrc[s] = table[s].dsts
    /\ RemoveAll(gone, table, importers, lines, touched)

\* Session::remove, of any number of paths: the reverse map stays the inverse of the rows, every
\* importer of a removed path is staged with the targets of its row, and a target that is not
\* marked dirty has the importers it had.
LEMMA Removed ==
    ASSUME NEW gone, NEW table, NEW importers, NEW lines, NEW touched, Removal(gone, table, importers, lines, touched)
    PROVE  /\ rev' = ImportersIn(rows')
           /\ \A s \in Staged' : s \notin gone /\ dirtySrc'[s] = RecordOf(rows', s)
           /\ \A s \in File \ (gone \cup Staged') : lines[s] = Missing /\ rows'[s] = table[s]
           /\ \A s \in gone : rows'[s] = NoRow
           /\ removed' = gone
           /\ \A d \in File \ dirtyDst' : d \notin touched /\ ImportersIn(rows')[d] = importers[d]
<1> USE MapCacheAssumption DEF MapCacheAssumption, Tables, Row, Removal
<1>0. importers \in [File -> SUBSET File] /\ \A s, d \in File : s \in importers[d] <=> table[s] # NoRow /\ d \in table[s].dsts
  BY DEF ImportersIn
<1>1. /\ \A s \in gone : rows'[s] = NoRow
      /\ \A s \in File \ gone : table[s] = NoRow => rows'[s] = NoRow
      /\ \A s \in File \ gone : table[s] # NoRow =>
            rows'[s] = [table[s] EXCEPT !.dsts = @ \ gone] /\ rows'[s] # NoRow /\ rows'[s].dsts = table[s].dsts \ gone
  <2>1. rows' = [s \in File |-> IF s \in gone \/ table[s] = NoRow THEN NoRow ELSE [table[s] EXCEPT !.dsts = @ \ gone]]
    BY DEF RemoveAll
  <2>2. \A s \in File : table[s] # NoRow => [table[s] EXCEPT !.dsts = @ \ gone] \in Row
    BY DEF Row
  <2> QED
    BY <2>1, <2>2
<1>2. /\ rev' = [d \in File |-> IF d \in gone THEN {} ELSE importers[d] \ gone]
      /\ removed' = gone
  BY DEF RemoveAll
<1>3. \A s, d \in File : s \in rev'[d] <=> rows'[s] # NoRow /\ d \in rows'[s].dsts
  <2> TAKE s \in File, d \in File
  <2>1. s \in rev'[d] <=> d \notin gone /\ s \notin gone /\ s \in importers[d]
    BY <1>2
  <2>2. CASE s \in gone \/ table[s] = NoRow
    BY <1>0, <1>1, <2>1, <2>2
  <2>3. CASE s \notin gone /\ table[s] # NoRow
    <3>1. rows'[s] # NoRow /\ rows'[s].dsts = table[s].dsts \ gone
      BY <1>1, <2>3
    <3> QED
      BY <1>0, <2>1, <2>3, <3>1
  <2> QED
    BY <2>2, <2>3
<1>4. rev' = ImportersIn(rows')
  BY <1>0, <1>2, <1>3 DEF ImportersIn
<1>5. ASSUME NEW s \in File \ gone, table[s] # NoRow, NEW d \in gone, s \in importers[d]
      PROVE  dirtySrc'[s] = rows'[s].dsts /\ dirtySrc'[s] # Missing
  <2>1. dirtySrc'[s] = (IF lines[s] = Missing THEN Lines(bySrc[s]) ELSE lines[s]) \ gone
    BY <1>5 DEF RemoveAll
  <2>2. lines[s] # Missing => lines[s] = table[s].dsts
    BY <1>5 DEF RecordOf
  <2>3. rows'[s].dsts = table[s].dsts \ gone /\ rows'[s].dsts \in SUBSET File
    <3>1. table[s].dsts \in SUBSET File
      BY <1>5
    <3>2. rows'[s].dsts = table[s].dsts \ gone
      BY <1>1, <1>5
    <3> QED
      BY <3>1, <3>2
  <2>4. dirtySrc'[s] # Missing
    <3>1. Lines(bySrc[s]) \subseteq File
      BY LinesType
    <3>2. dirtySrc'[s] \in SUBSET File
      BY <2>1, <3>1
    <3> QED
      BY <3>2
  <2>5. CASE ~restaged'
    BY <2>4, <2>5 DEF RemoveAll
  <2>6. CASE restaged'
    <3>1. lines[s] = Missing => Lines(bySrc[s]) = table[s].dsts
      <4>1. table[s].dsts \in SUBSET File
        BY <1>5
      <4>2. lines[s] = Missing => bySrc[s] = table[s].dsts
        BY <1>5, <2>6
      <4> QED
        BY <4>1, <4>2 DEF Lines
    <3> QED
      BY <2>1, <2>2, <2>3, <2>4, <3>1
  <2> QED
    BY <2>4, <2>5, <2>6
<1>6. ASSUME NEW s \in File \ gone, ~(table[s] # NoRow /\ \E d \in gone : s \in importers[d])
      PROVE  dirtySrc'[s] = lines[s] /\ rows'[s] = table[s]
  <2>1. dirtySrc'[s] = lines[s]
    BY <1>6 DEF RemoveAll
  <2>2. table[s] # NoRow => table[s].dsts \ gone = table[s].dsts
    BY <1>0, <1>6
  <2> QED
    BY <1>1, <1>6, <2>1, <2>2
<1>7. \A s \in gone : dirtySrc'[s] = Missing
  BY DEF RemoveAll
<1>8. ASSUME NEW s \in Staged' PROVE s \notin gone /\ dirtySrc'[s] = RecordOf(rows', s)
  <2>1. s \in File \ gone /\ dirtySrc'[s] # Missing
    BY <1>7 DEF Staged
  <2>2. CASE table[s] # NoRow /\ \E d \in gone : s \in importers[d]
    BY <1>1, <1>5, <2>1, <2>2 DEF RecordOf
  <2>3. CASE ~(table[s] # NoRow /\ \E d \in gone : s \in importers[d])
    BY <1>6, <2>1, <2>3 DEF RecordOf
  <2> QED
    BY <2>1, <2>2, <2>3
<1>9. ASSUME NEW s \in File \ (gone \cup Staged') PROVE lines[s] = Missing /\ rows'[s] = table[s]
  <2>1. dirtySrc'[s] = Missing
    BY DEF Staged
  <2> QED
    BY <1>5, <1>6, <2>1
<1>10. ASSUME NEW d \in File \ dirtyDst' PROVE d \notin touched /\ ImportersIn(rows')[d] = importers[d]
  <2>1. /\ d \notin touched
        /\ d \in gone => importers[d] \ {d} = {}
        /\ \A g \in gone : table[g] # NoRow => d \notin table[g].dsts
    BY DEF RemoveAll
  <2>2. CASE d \in gone
    <3>1. importers[d] = {}
      BY <1>0, <2>1, <2>2
    <3> QED
      BY <1>2, <1>4, <2>1, <2>2, <3>1
  <2>3. CASE d \notin gone
    <3>1. importers[d] \cap gone = {}
      BY <1>0, <2>1
    <3>2. importers[d] \ gone = importers[d]
      BY <3>1
    <3> QED
      BY <1>2, <1>4, <2>1, <2>3, <3>2
  <2> QED
    BY <2>2, <2>3
<1> QED
  BY <1>1, <1>2, <1>4, <1>8, <1>9, <1>10

\* An upsert replaces the row, the lines and, where they differ, the importers.
LEMMA Upserting ==
    ASSUME TypeOK, rev = ImportersIn(rows)
    PROVE  /\ UpsertedRev = ImportersIn(Upserted)
           /\ \A s \in File : UpsertedLines[s] # Missing => UpsertedLines[s] = RecordOf(Upserted, s)
           /\ \A s \in File : UpsertedLines[s] = Missing => s \notin DOMAIN hashed /\ Upserted[s] = rows[s]
           /\ \A d \in File \ Turned : UpsertedRev[d] = rev[d]
<1>1. DOMAIN hashed \subseteq File /\ \A f \in DOMAIN hashed : hashed[f] \in Content
  BY DEF TypeOK
<1>2. \A s \in DOMAIN hashed : Upserted[s] # NoRow /\ Upserted[s].dsts = Targets(s)
  <2> TAKE s \in DOMAIN hashed
  <2> DEFINE r == [hash |-> hashed[s], dsts |-> Targets(s)]
  <2>1. r \in Row /\ r.dsts = Targets(s)
    BY <1>1, ParsedType DEF Row
  <2>2. Upserted[s] = r
    BY <1>1 DEF Upserted
  <2> HIDE DEF r
  <2> QED
    BY <2>1, <2>2, MapCacheAssumption DEF MapCacheAssumption
<1>3. \A s \in File \ DOMAIN hashed : Upserted[s] = rows[s]
  BY DEF Upserted
<1>4. \A s, d \in File : s \in rev[d] <=> d \in OldTargets(s)
  BY DEF ImportersIn, OldTargets
<1>5. \A s, d \in File : s \in UpsertedRev[d] <=> Upserted[s] # NoRow /\ d \in Upserted[s].dsts
  <2> TAKE s \in File, d \in File
  <2>1. CASE s \in DOMAIN hashed
    BY <1>2, <1>4, <2>1 DEF UpsertedRev
  <2>2. CASE s \notin DOMAIN hashed
    BY <1>3, <1>4, <2>2 DEF UpsertedRev, OldTargets
  <2> QED
    BY <2>1, <2>2
<1>6. UpsertedRev = ImportersIn(Upserted)
  <2>1. \A d \in File : UpsertedRev[d] = {s \in File : Upserted[s] # NoRow /\ d \in Upserted[s].dsts}
    BY <1>5, ParsedType
  <2> QED
    BY <2>1 DEF ImportersIn, UpsertedRev
<1>7. \A s \in DOMAIN hashed : UpsertedLines[s] = Targets(s) /\ Targets(s) # Missing
  BY <1>1, ParsedType, MapCacheAssumption DEF MapCacheAssumption, UpsertedLines
<1>8. \A d \in File \ Turned : UpsertedRev[d] = rev[d]
  <2> TAKE d \in File \ Turned
  <2>1. \A f \in DOMAIN hashed : d \notin OldTargets(f) \ Targets(f) /\ d \notin Targets(f) \ OldTargets(f)
    BY DEF Turned
  <2> QED
    BY <2>1 DEF UpsertedRev, TypeOK
<1> QED
  BY <1>2, <1>3, <1>6, <1>7, <1>8 DEF RecordOf, UpsertedLines

-----------------------------------------------------------------------------
\* The cache says when it is not consistent

\* CommitBegin sets commit.pending before the first write, CommitUnpend and RebuildUnpend remove it
\* after the last, and Load only opens a cache without it.
LEMMA PendedStep == Pended /\ [Next]_vars => Pended'
BY DEF Pended, Next, vars, disk, cache, maps, SomeUpdate, JobStep, BeginUpdate, BeginDelete, Edit,
   Writeback, JobEnds, Crash, PowerLoss, RebuildStart, RebuildFails, RebuildClear, RebuildRecord,
   RebuildIndex, RebuildUnpend, RebuildMark, Load, Scan, Parse, Delete, Committed, CommitNothing,
   Unchanging, CommitBegin, UnlinkRecord, StartForward, WriteForward, StartReverse, WriteReverse,
   SaveIndex, SaveSizes, CommitUnpend, CommitMark, Undisturbed, KeepMaps, DrawLibrary, DrawRoot,
   DrawFolders

\* Load fills the session from the index, Parse and Delete are the first to change it, and the end
\* of a job, or its death, empties it.
LEMMA OpenedStep == Opened /\ [Next]_vars => Opened'
<1> SUFFICES ASSUME Opened, [Next]_vars PROVE Opened'
  OBVIOUS
<1> USE DEF Opened, Writing, Closing, disk, cache, maps, session, request
<1>1. CASE Load
  BY <1>1 DEF Load
<1>2. CASE Scan
  BY <1>2 DEF Scan, Dirty
<1>3. CASE SomeUpdate \/ (\E f \in File : BeginDelete(f)) \/ Parse \/ Delete
  BY <1>3 DEF SomeUpdate, BeginUpdate, BeginDelete, Parse, Delete
<1>4. CASE (\E f \in File : Edit(f)) \/ Writeback \/ Crash \/ PowerLoss
  BY <1>4 DEF Edit, Writeback, Crash, PowerLoss, JobEnds, CloseSession
<1>5. CASE \/ RebuildStart \/ RebuildFails \/ RebuildClear \/ (\E d \in File : RebuildRecord(d))
           \/ RebuildIndex \/ RebuildUnpend \/ RebuildMark
  BY <1>5 DEF RebuildStart, RebuildFails, RebuildClear, RebuildRecord, RebuildIndex,
     RebuildUnpend, RebuildMark, JobEnds, CloseSession
<1>6. CASE CommitNothing \/ CommitMark
  BY <1>6 DEF CommitNothing, CommitMark, Committed, JobEnds, CloseSession
<1>7. CASE \/ CommitBegin \/ (\E f \in File : UnlinkRecord(f)) \/ StartForward
           \/ (\E f \in File : WriteForward(f)) \/ StartReverse
           \/ (\E d \in File : WriteReverse(d)) \/ SaveIndex \/ SaveSizes \/ CommitUnpend
  BY <1>7 DEF CommitBegin, UnlinkRecord, StartForward, WriteForward, StartReverse, WriteReverse,
     SaveIndex, SaveSizes, CommitUnpend
<1>8. CASE KeepMaps \/ DrawLibrary \/ DrawRoot \/ DrawFolders
  BY <1>8 DEF KeepMaps, DrawLibrary, DrawRoot, DrawFolders, Undisturbed, JobEnds, CloseSession
<1>9. CASE UNCHANGED vars
  BY <1>9 DEF vars
<1> QED
  BY <1>1, <1>2, <1>3, <1>4, <1>5, <1>6, <1>7, <1>8, <1>9 DEF Next, JobStep

\* SaveIndex writes the rows, and neither moves before the commit is over.
LEMMA InStepStep == InStep /\ [Next]_vars => InStep'
BY DEF InStep, Closing, Next, vars, disk, cache, maps, session, SomeUpdate, JobStep, BeginUpdate,
   BeginDelete, Edit, Writeback, JobEnds, Crash, PowerLoss, RebuildStart, RebuildFails,
   RebuildClear, RebuildRecord, RebuildIndex, RebuildUnpend, RebuildMark, Load, Scan, Parse,
   Delete, Committed, CommitNothing, Unchanging, CommitBegin, UnlinkRecord, StartForward,
   WriteForward, StartReverse, WriteReverse, SaveIndex, SaveSizes, CommitUnpend, CommitMark,
   Undisturbed, KeepMaps, DrawLibrary, DrawRoot, DrawFolders

\* Where every record says what the index does, a job plans from its rows alone.
LEMMA Planning ==
    ASSUME TypeOK, Agrees, NEW gone, NEW table, NEW importers, NEW lines, NEW touched,
           Removal(gone, table, importers, lines, touched),
           \A s \in File : lines[s] = Missing => table[s] = index[s],
           \A d \in File \ touched : importers[d] = ImportersIn(index)[d],
           UNCHANGED <<index, bySrc, byDst>>, pc' = "commit"
    PROVE  Planned' /\ Unwritten'
<1>1. bySrc \in [File -> Record] /\ \A s \in File : bySrc[s] = RecordOf(index, s) /\ byDst[s] = ReverseOf(index, s)
  BY DEF TypeOK, Agrees, RecordOf, ReverseOf
<1>3. /\ rev' = ImportersIn(rows')
      /\ \A s \in Staged' : s \notin gone /\ dirtySrc'[s] = RecordOf(rows', s)
      /\ \A s \in File \ (gone \cup Staged') : lines[s] = Missing /\ rows'[s] = table[s]
      /\ \A s \in gone : rows'[s] = NoRow
      /\ removed' = gone
      /\ \A d \in File \ dirtyDst' : d \notin touched /\ ImportersIn(rows')[d] = importers[d]
  BY Removed
<1>4. \A s \in File \ (gone \cup Staged') : bySrc[s] = RecordOf(rows', s)
  BY <1>1, <1>3 DEF RecordOf
<1>5. \A d \in File \ dirtyDst' : byDst[d] = ReverseOf(rows', d)
  BY <1>1, <1>3 DEF ReverseOf
<1>6. Planned'
  BY <1>3, <1>4, <1>5 DEF Planned, Plan, OpenSrc, OpenDst
<1>7. Unwritten'
  BY <1>1 DEF Unwritten
<1> QED
  BY <1>6, <1>7

\* A step of a commit that writes records as the rows have them, or none.
Writes ==
    /\ pc \in Writing /\ pc' \in Writing /\ pending' = "set"
    /\ UNCHANGED <<index, rows, rev, dirtySrc, dirtyDst, removed>>
    /\ pc' = "unlink" => todo' \subseteq removed
    /\ pc' = "forward" => todo' \subseteq Staged
    /\ \A f \in File : \/ bySrc'[f] = RecordOf(rows, f)
                       \/ bySrc'[f] = bySrc[f] /\ (f \notin OpenSrc \/ f \in OpenSrc')
    /\ \A d \in File : \/ byDst'[d] = ReverseOf(rows, d)
                       \/ byDst'[d] = byDst[d] /\ (d \notin OpenDst \/ d \in OpenDst')

\* These are the steps between commit.pending and the index.
LEMMA Writers ==
    ASSUME TypeOK, Pended, pc \in Writing => Plan
    PROVE  (\/ CommitBegin \/ (\E f \in File : UnlinkRecord(f)) \/ StartForward
            \/ (\E f \in File : WriteForward(f)) \/ StartReverse \/ (\E d \in File : WriteReverse(d)))
              => Writes
<1> USE DEF disk, cache, maps, session, request
<1>1. CASE CommitBegin
  <2>1. /\ pc = "commit" /\ pc' = "unlink" /\ todo' = removed /\ pending' = "set"
        /\ bySrc' = bySrc /\ byDst' = byDst
        /\ UNCHANGED <<index, rows, rev, dirtySrc, dirtyDst, removed>>
    BY <1>1 DEF CommitBegin, Unchanging
  <2>2. OpenSrc' = OpenSrc /\ OpenDst' = OpenDst
    BY <2>1 DEF OpenSrc, OpenDst, Staged
  <2> QED
    BY <2>1, <2>2 DEF Writes, Writing
<1>2. ASSUME NEW f \in File, UnlinkRecord(f) PROVE Writes
  <2>1. /\ pc = "unlink" /\ pc' = "unlink" /\ f \in todo /\ todo' = todo \ {f} /\ pending' = "set"
        /\ bySrc' = [bySrc EXCEPT ![f] = Missing] /\ byDst' = byDst
        /\ UNCHANGED <<index, rows, rev, dirtySrc, dirtyDst, removed>>
    BY <1>2 DEF UnlinkRecord, Unchanging, Pended
  <2>2. RecordOf(rows, f) = Missing /\ todo \subseteq removed
    BY <2>1 DEF Plan, Writing, RecordOf
  <2>3. OpenSrc = todo \cup Staged /\ OpenSrc' = (todo \ {f}) \cup Staged /\ OpenDst' = OpenDst
    BY <2>1 DEF OpenSrc, OpenDst, Staged
  <2>5. bySrc \in [File -> Record]
    BY DEF TypeOK
  <2>4. ASSUME NEW g \in File
        PROVE  \/ bySrc'[g] = RecordOf(rows, g)
               \/ bySrc'[g] = bySrc[g] /\ (g \notin OpenSrc \/ g \in OpenSrc')
    <3>1. CASE g = f
      BY <2>1, <2>2, <2>5, <3>1
    <3>2. CASE g # f
      BY <2>1, <2>3, <2>5, <3>2
    <3> QED
      BY <3>1, <3>2
  <2>6. \A d \in File : \/ byDst'[d] = ReverseOf(rows, d)
                        \/ byDst'[d] = byDst[d] /\ (d \notin OpenDst \/ d \in OpenDst')
    BY <2>1, <2>3
  <2> QED
    BY <2>1, <2>2, <2>4, <2>6 DEF Writes, Writing
<1>3. CASE StartForward
  <2>1. /\ pc = "unlink" /\ pc' = "forward" /\ todo = {} /\ todo' = Staged /\ pending' = "set"
        /\ bySrc' = bySrc /\ byDst' = byDst
        /\ UNCHANGED <<index, rows, rev, dirtySrc, dirtyDst, removed>>
    BY <1>3 DEF StartForward, Unchanging, Pended, Staged
  <2>2. OpenSrc' = OpenSrc /\ OpenDst' = OpenDst
    BY <2>1 DEF OpenSrc, OpenDst
  <2> QED
    BY <2>1, <2>2 DEF Writes, Writing, Plan
<1>4. ASSUME NEW f \in File, WriteForward(f) PROVE Writes
  <2>1. /\ pc = "forward" /\ pc' = "forward" /\ f \in todo /\ todo' = todo \ {f} /\ pending' = "set"
        /\ bySrc' = [bySrc EXCEPT ![f] = dirtySrc[f]] /\ byDst' = byDst
        /\ UNCHANGED <<index, rows, rev, dirtySrc, dirtyDst, removed>>
    BY <1>4 DEF WriteForward, Unchanging, Pended
  <2>2. todo \subseteq Staged /\ RecordOf(rows, f) = dirtySrc[f]
    BY <2>1 DEF Plan, Writing
  <2>3. OpenSrc = todo /\ OpenSrc' = todo \ {f} /\ OpenDst' = OpenDst
    BY <2>1 DEF OpenSrc, OpenDst
  <2>5. bySrc \in [File -> Record]
    BY DEF TypeOK
  <2>4. ASSUME NEW g \in File
        PROVE  \/ bySrc'[g] = RecordOf(rows, g)
               \/ bySrc'[g] = bySrc[g] /\ (g \notin OpenSrc \/ g \in OpenSrc')
    <3>1. CASE g = f
      BY <2>1, <2>2, <2>5, <3>1
    <3>2. CASE g # f
      BY <2>1, <2>3, <2>5, <3>2
    <3> QED
      BY <3>1, <3>2
  <2>6. \A d \in File : \/ byDst'[d] = ReverseOf(rows, d)
                        \/ byDst'[d] = byDst[d] /\ (d \notin OpenDst \/ d \in OpenDst')
    BY <2>1, <2>3
  <2> QED
    BY <2>1, <2>2, <2>4, <2>6 DEF Writes, Writing
<1>5. CASE StartReverse
  <2>1. /\ pc = "forward" /\ pc' = "reverse" /\ todo = {} /\ todo' = dirtyDst /\ pending' = "set"
        /\ bySrc' = bySrc /\ byDst' = byDst
        /\ UNCHANGED <<index, rows, rev, dirtySrc, dirtyDst, removed>>
    BY <1>5 DEF StartReverse, Unchanging, Pended
  <2>2. OpenSrc = {} /\ OpenSrc' = {} /\ OpenDst' = OpenDst
    BY <2>1 DEF OpenSrc, OpenDst
  <2> QED
    BY <2>1, <2>2 DEF Writes, Writing, Plan
<1>6. ASSUME NEW d \in File, WriteReverse(d) PROVE Writes
  <2>1. /\ pc = "reverse" /\ pc' = "reverse" /\ d \in todo /\ todo' = todo \ {d} /\ pending' = "set"
        /\ byDst' = [byDst EXCEPT ![d] = IF rev[d] = {} THEN Missing ELSE rev[d]] /\ bySrc' = bySrc
        /\ UNCHANGED <<index, rows, rev, dirtySrc, dirtyDst, removed>>
    BY <1>6 DEF WriteReverse, Unchanging, Pended
  <2>2. ReverseOf(rows, d) = IF rev[d] = {} THEN Missing ELSE rev[d]
    BY <2>1 DEF Plan, Writing, ReverseOf
  <2>3. OpenDst = todo /\ OpenDst' = todo \ {d} /\ OpenSrc = {} /\ OpenSrc' = {}
    BY <2>1 DEF OpenSrc, OpenDst
  <2>5. byDst \in [File -> Record]
    BY DEF TypeOK
  <2>4. ASSUME NEW g \in File
        PROVE  \/ byDst'[g] = ReverseOf(rows, g)
               \/ byDst'[g] = byDst[g] /\ (g \notin OpenDst \/ g \in OpenDst')
    <3>1. CASE g = d
      BY <2>1, <2>2, <2>5, <3>1
    <3>2. CASE g # d
      BY <2>1, <2>3, <2>5, <3>2
    <3> QED
      BY <3>1, <3>2
  <2>6. \A f \in File : \/ bySrc'[f] = RecordOf(rows, f)
                        \/ bySrc'[f] = bySrc[f] /\ (f \notin OpenSrc \/ f \in OpenSrc')
    BY <2>1, <2>3
  <2> QED
    BY <2>1, <2>4, <2>6 DEF Writes, Writing
<1> QED
  BY <1>1, <1>2, <1>3, <1>4, <1>5, <1>6

\* Such a step leaves every record as the job found it or as the rows have it.
LEMMA Written ==
    ASSUME TypeOK, Planned, Unwritten, Whole, Writes
    PROVE  Planned' /\ Unwritten' /\ Rebuilding' /\ Agreed' /\ Whole'
<1>1. /\ rev = ImportersIn(rows)
      /\ \A f \in Staged : dirtySrc[f] = RecordOf(rows, f)
      /\ \A f \in removed : rows[f] = NoRow
      /\ \A f \in File \ OpenSrc : bySrc[f] = RecordOf(rows, f)
      /\ \A d \in File \ OpenDst : byDst[d] = ReverseOf(rows, d)
  BY DEF Planned, Plan, Writes
<1>2. rows' = rows /\ index' = index /\ Staged' = Staged
  BY DEF Writes, Staged
<1>3. \A f \in File : RecordOf(rows, f)' = RecordOf(rows, f) /\ ReverseOf(rows, f)' = ReverseOf(rows, f)
  BY <1>2 DEF RecordOf, ReverseOf, ImportersIn
<1>4. \A f \in File : RecordOf(index, f)' = RecordOf(index, f) /\ ReverseOf(index, f)' = ReverseOf(index, f)
  BY <1>2 DEF RecordOf, ReverseOf, ImportersIn
<1>5. \A f \in File \ OpenSrc' : bySrc'[f] = RecordOf(rows, f)
  BY <1>1 DEF Writes
<1>6. \A d \in File \ OpenDst' : byDst'[d] = ReverseOf(rows, d)
  BY <1>1 DEF Writes
<1>7. Planned'
  <2>1. /\ pc' = "unlink" => todo' \subseteq removed'
        /\ pc' = "forward" => todo' \subseteq Staged'
    BY <1>2 DEF Writes
  <2>2. rev' = ImportersIn(rows')
    BY <1>1, <1>2 DEF Writes
  <2>3. \A f \in Staged' : dirtySrc'[f] = RecordOf(rows, f)'
    BY <1>1, <1>2, <1>3 DEF Writes, Staged
  <2>4. \A f \in removed' : rows'[f] = NoRow
    BY <1>1 DEF Writes
  <2> QED
    BY <1>3, <1>5, <1>6, <2>1, <2>2, <2>3, <2>4 DEF Planned, Plan
<1>8. Unwritten'
  <2>1. \A f \in File : /\ bySrc[f] \in {RecordOf(index, f), RecordOf(rows, f)}
                        /\ byDst[f] \in {ReverseOf(index, f), ReverseOf(rows, f)}
    BY DEF Unwritten, Writes
  <2>2. \A f \in File : /\ bySrc'[f] \in {RecordOf(index, f), RecordOf(rows, f)}
                        /\ byDst'[f] \in {ReverseOf(index, f), ReverseOf(rows, f)}
    BY <2>1 DEF Writes
  <2> QED
    BY <1>3, <1>4, <2>2 DEF Unwritten
<1>9. Whole'
  <2>1. \A f \in File : RecordOf(rows, f) \notin Torn /\ ReverseOf(rows, f) \notin Torn
    BY MapCacheAssumption DEF MapCacheAssumption, RecordOf, ReverseOf, ImportersIn, TypeOK, Row
  <2> QED
    BY <2>1 DEF Whole, Writes
<1> QED
  BY <1>7, <1>8, <1>9 DEF Rebuilding, Agreed, Writes, Writing, Closing

\* While the records reach the disk, the cache disagrees with itself only under commit.pending.
LEMMA LosslessStep == CInv /\ [Next]_vars => Lossless'
<1> SUFFICES ASSUME CInv, [Next]_vars, losses' = 0
             PROVE  Planned' /\ Unwritten' /\ Rebuilding' /\ Agreed' /\ Whole'
  BY DEF Lossless
<1>0. TypeOK /\ Pended /\ Opened /\ InStep /\ Planned /\ Unwritten /\ Rebuilding /\ Agreed /\ Whole
  <2>1. losses' = losses \/ losses' = losses + 1
    BY DEF Next, vars, disk, counts, past, SomeUpdate, JobStep, BeginUpdate, BeginDelete, Edit,
       Writeback, Crash, PowerLoss, RebuildStart, RebuildFails, RebuildClear, RebuildRecord,
       RebuildIndex, RebuildUnpend, RebuildMark, Load, Scan, Parse, Delete, CommitNothing,
       Unchanging, CommitBegin, UnlinkRecord, StartForward, WriteForward, StartReverse,
       WriteReverse, SaveIndex, SaveSizes, CommitUnpend, CommitMark, Undisturbed, KeepMaps,
       DrawLibrary, DrawRoot, DrawFolders
  <2>2. losses \in Nat
    BY MapCacheAssumption DEF MapCacheAssumption, CInv, Typed, TypeOK
  <2> QED
    BY <2>1, <2>2 DEF CInv, Typed, Lossless
<1> DEFINE Goal == Planned' /\ Unwritten' /\ Rebuilding' /\ Agreed' /\ Whole'
<1>a. ASSUME UNCHANGED <<index, bySrc, byDst, pending>>,
                         pc' \notin Writing \cup Closing \cup {"rebuild_dst", "rebuild_done"}
      PROVE  Goal
  BY <1>0, <1>a DEF Planned, Unwritten, Rebuilding, Agreed, Agrees, Whole
<1> USE <1>0 DEF disk, cache, maps, session, request
<1>1. CASE \/ SomeUpdate \/ (\E f \in File : BeginDelete(f)) \/ Crash \/ RebuildFails \/ RebuildStart
           \/ Load \/ Scan
  <2>1. UNCHANGED <<index, bySrc, byDst,
                    pending>> /\ pc' \notin Writing \cup Closing \cup {"rebuild_dst", "rebuild_done"}
    BY <1>1
    DEF Writing, Closing, SomeUpdate, BeginUpdate, BeginDelete, Crash, JobEnds, RebuildFails,
        RebuildStart, Load, Scan
  <2> QED
    BY <1>a, <2>1
<1>2. CASE Parse
  <2>1. /\ RemoveAll(Stale, Upserted, UpsertedRev, UpsertedLines, dirtyDst \cup Turned)
        /\ pc' = "commit" /\ UNCHANGED <<index, bySrc, byDst, pending>>
        /\ pc = "parse" /\ pending # "set"
    BY <1>2, ParseRemoves DEF Parse, Pended
  <2>2. Agrees /\ rows = index /\ rev = ImportersIn(rows)
    BY <2>1 DEF Agreed, Opened
  <2>3. Removal(Stale, Upserted, UpsertedRev, UpsertedLines, dirtyDst \cup Turned)
    <3>1. \A s \in File : UpsertedLines[s] = Missing /\ Upserted[s] # NoRow => bySrc[s] = Upserted[s].dsts
      BY <2>2, Upserting DEF Agrees
    <3> QED
      BY <2>1, <2>2, <3>1, Upserting, ParsedType DEF Removal, TypeOK
  <2>4. \A s \in File : UpsertedLines[s] = Missing => Upserted[s] = index[s]
    BY <2>2, Upserting
  <2>5. \A d \in File \ (dirtyDst \cup Turned) : UpsertedRev[d] = ImportersIn(index)[d]
    BY <2>2, Upserting
  <2>6. Planned' /\ Unwritten'
    BY <2>1, <2>2, <2>3, <2>4, <2>5, Planning
  <2> QED
    BY <2>1, <2>2, <2>6 DEF Rebuilding, Agreed, Agrees, Whole, Closing
<1>3. CASE Delete
  <2>1. /\ RemoveAll(files, rows, rev, dirtySrc, dirtyDst)
        /\ pc' = "commit" /\ UNCHANGED <<index, bySrc, byDst, pending>>
        /\ pc = "delete" /\ pending # "set"
    BY <1>3 DEF Delete, Pended
  <2>2. Agrees /\ rows = index /\ rev = ImportersIn(index) /\ dirtySrc = None
    BY <2>1 DEF Agreed, Opened, Writing, Closing
  <2>3. \A s \in File : dirtySrc[s] = Missing
    BY <2>2 DEF None
  <2>4. Removal(files, rows, rev, dirtySrc, dirtyDst)
    BY <2>1, <2>2, <2>3 DEF Removal, TypeOK, Tables, Agrees
  <2>6. Planned' /\ Unwritten'
    BY <2>1, <2>2, <2>3, <2>4, Planning
  <2> QED
    BY <2>1, <2>2, <2>6 DEF Rebuilding, Agreed, Agrees, Whole, Closing
<1>4. CASE CommitNothing \/ CommitMark \/ CommitUnpend
  <2>1. Agrees /\ UNCHANGED <<index, bySrc, byDst>> /\ pc' \in {"idle", "maps", "commit_mark"}
    BY <1>4 DEF CommitNothing, CommitMark, CommitUnpend, Committed, JobEnds, Unchanging, Agreed,
       Pended, Closing
  <2> QED
    BY <2>1 DEF Planned, Unwritten, Rebuilding, Agreed, Agrees, Whole, Writing
<1>5. CASE \/ CommitBegin \/ (\E f \in File : UnlinkRecord(f)) \/ StartForward
           \/ (\E f \in File : WriteForward(f)) \/ StartReverse
           \/ (\E d \in File : WriteReverse(d))
  BY <1>5, Writers, Written DEF Planned
<1>6. CASE SaveIndex
  BY <1>6 DEF SaveIndex, Unchanging, Planned, Unwritten, Rebuilding, Agreed, Agrees, Whole,
     Writing, Closing, OpenSrc, OpenDst, Staged, RecordOf, ReverseOf
<1>7. CASE SaveSizes
  BY <1>7 DEF SaveSizes, Unchanging, Planned, Unwritten, Rebuilding, Agreed, Agrees, Whole,
     Writing, Closing
<1>8. CASE RebuildClear
  <2>1. /\ pc' = "rebuild_dst" /\ pending' = "set" /\ bySrc' = bySrc
        /\ byDst' = None /\ todo' = UNION {Lines(bySrc[f]) : f \in File}
    BY <1>8 DEF RebuildClear, Pended
  <2>2. \A d \in File : byDst'[d] = Missing /\ (d \in todo' <=> Importing(d)' # {})
    BY <2>1 DEF None, Importing
  <2>5. todo' \subseteq File
    BY <2>1, LinesType DEF TypeOK
  <2>3. Rebuilding'
    BY <2>1, <2>2, <2>5 DEF Rebuilding
  <2>4. Whole'
    BY <2>1, <2>2, MapCacheAssumption DEF MapCacheAssumption, Whole
  <2> QED
    BY <2>1, <2>3, <2>4 DEF Planned, Unwritten, Agreed, Writing, Closing
<1>9. ASSUME NEW d \in File, RebuildRecord(d) PROVE Goal
  <2>1. /\ pc = "rebuild_dst" /\ pc' = "rebuild_dst" /\ pending' = "set" /\ bySrc' = bySrc /\ d \in todo
        /\ byDst' = [byDst EXCEPT ![d] = Importing(d)] /\ todo' = todo \ {d}
    BY <1>9 DEF RebuildRecord, Pended, Importing
  <2>2. \A e \in File : Importing(e)' = Importing(e) /\ Importing(e) \notin Torn
    BY <2>1, MapCacheAssumption DEF MapCacheAssumption, Importing
  <2>3. Importing(d) # {}
    BY <2>1 DEF Rebuilding
  <2>4. Rebuilding'
    <3>1. byDst \in [File -> Record] /\ todo \subseteq File
      BY DEF TypeOK
    <3>2. \A e \in todo : byDst[e] = Missing /\ Importing(e) # {}
      BY <2>1 DEF Rebuilding
    <3>3. \A e \in File \ todo : byDst[e] = IF Importing(e) = {} THEN Missing ELSE Importing(e)
      BY <2>1 DEF Rebuilding
    <3>4. \A e \in todo' : byDst'[e] = Missing /\ Importing(e)' # {}
      BY <2>1, <2>2, <3>1, <3>2
    <3>5. \A e \in File \ todo' : byDst'[e] = IF Importing(e) = {} THEN Missing ELSE Importing(e)
      <4> TAKE e \in File \ todo'
      <4>1. CASE e = d
        BY <2>1, <2>3, <3>1, <4>1
      <4>2. CASE e # d
        BY <2>1, <3>1, <3>3, <4>2
      <4> QED
        BY <4>1, <4>2
    <3> QED
      BY <2>2, <3>4, <3>5 DEF Rebuilding
  <2>5. Whole'
    BY <2>1, <2>2 DEF Whole, TypeOK
  <2> QED
    BY <2>1, <2>4, <2>5 DEF Planned, Unwritten, Agreed, Writing, Closing
<1>10. CASE RebuildIndex
  <2>1. /\ pc = "rebuild_dst" /\ pc' = "rebuild_done" /\ todo = {} /\ UNCHANGED <<bySrc, byDst>>
        /\ index' = [f \in File |-> RebuiltRow(f)]
    BY <1>10 DEF RebuildIndex
  <2>2. \A f \in File : IF bySrc[f] = Missing THEN index'[f] = NoRow
                        ELSE index'[f] # NoRow /\ index'[f].dsts = bySrc[f]
    <3> TAKE f \in File
    <3> DEFINE r == [hash |-> IF index[f] = NoRow THEN NoHash ELSE index[f].hash, dsts |-> Lines(bySrc[f])]
    <3>1. CASE bySrc[f] = Missing
      BY <2>1, <3>1 DEF RebuiltRow
    <3>2. CASE bySrc[f] # Missing
      <4>1. Lines(bySrc[f]) = bySrc[f] /\ bySrc[f] \in SUBSET File
        BY <3>2 DEF Lines, Whole, TypeOK, Record
      <4>2. r \in Row /\ r.dsts = bySrc[f]
        BY <4>1 DEF TypeOK, Row
      <4>3. index'[f] = r
        BY <2>1, <3>2 DEF RebuiltRow
      <4> HIDE DEF r
      <4> QED
        BY <3>2, <4>2, <4>3, MapCacheAssumption DEF MapCacheAssumption
    <3> QED
      BY <3>1, <3>2
  <2>3. \A d \in File : ImportersIn(index')[d] = Importing(d)
    <3>1. \A s, d \in File : (index'[s] # NoRow /\ d \in index'[s].dsts) <=> d \in Lines(bySrc[s])
      BY <2>2 DEF Lines, Whole
    <3> QED
      BY <3>1 DEF ImportersIn, Importing
  <2>4. \A d \in File : byDst[d] = IF Importing(d) = {} THEN Missing ELSE Importing(d)
    BY <2>1 DEF Rebuilding
  <2>5. Agrees'
    <3> SUFFICES ASSUME NEW f \in File
                 PROVE  /\ bySrc'[f] = IF index'[f] = NoRow THEN Missing ELSE index'[f].dsts
                        /\ byDst'[f] = IF ImportersIn(index')[f] = {} THEN Missing ELSE ImportersIn(index')[f]
      BY DEF Agrees
    <3>1. bySrc'[f] = IF index'[f] = NoRow THEN Missing ELSE index'[f].dsts
      BY <2>1, <2>2
    <3>2. byDst'[f] = IF ImportersIn(index')[f] = {} THEN Missing ELSE ImportersIn(index')[f]
      BY <2>1, <2>3, <2>4
    <3> QED
      BY <3>1, <3>2
  <2> QED
    BY <2>1, <2>5 DEF Planned, Unwritten, Rebuilding, Agreed, Whole, Writing
<1>11. CASE RebuildUnpend \/ RebuildMark
  <2>1. Agrees /\ UNCHANGED <<index, bySrc, byDst>> /\ pc' \in {"rebuild_mark", "open"}
    BY <1>11 DEF RebuildUnpend, RebuildMark, Agreed, Pended
  <2> QED
    BY <2>1 DEF Planned, Unwritten, Rebuilding, Agreed, Agrees, Whole, Writing
<1>12. CASE (\E f \in File : Edit(f)) \/ Writeback \/ UNCHANGED vars
  <2>1. UNCHANGED <<index, bySrc, byDst, pending, pc, session>>
    BY <1>12 DEF Edit, Writeback, vars
  <2> QED
    BY <2>1, ZenonT(60) DEF Planned, Plan, Unwritten, Rebuilding, Importing, Agreed, Agrees, Whole, OpenSrc,
       OpenDst, Staged
<1>13. CASE KeepMaps \/ DrawLibrary \/ DrawRoot \/ DrawFolders
  <2>1. UNCHANGED <<index, bySrc, byDst, pending>> /\ pc' \in {"idle", "cards", "folders"}
    BY <1>13 DEF KeepMaps, DrawLibrary, DrawRoot, DrawFolders, Undisturbed, JobEnds
  <2> QED
    BY <1>a, <2>1 DEF Writing, Closing
<1>14. CASE PowerLoss
  BY <1>14, MapCacheAssumption DEF MapCacheAssumption, PowerLoss, TypeOK
<1> QED
  BY <1>1, <1>2, <1>3, <1>4, <1>5, <1>6, <1>7, <1>8, <1>9, <1>10,
     <1>11, <1>12, <1>13, <1>14 DEF Next, JobStep

\* Every step of a job, an editor, a crash or the file system keeps the invariant.
LEMMA Inductive == CInv /\ [Next]_vars => CInv'
<1> SUFFICES ASSUME CInv, [Next]_vars PROVE CInv'
  OBVIOUS
<1>1. Typed /\ Pended /\ Opened /\ InStep
  BY DEF CInv
<1>2. TypeOK' /\ Drawn'
  BY <1>1, TypeStep, DrawnStep DEF Typed
<1>3. Pended' /\ Opened' /\ InStep'
  BY <1>1, PendedStep, OpenedStep, InStepStep
<1>4. Lossless'
  BY LosslessStep
<1> QED
  BY <1>2, <1>3, <1>4 DEF CInv, Typed

\* A project without a cache has one that is consistent.
LEMMA Starting == Init => CInv
<1> SUFFICES ASSUME Init PROVE CInv
  OBVIOUS
<1>1. Typed
  BY TypeInit
<1>2. \A f \in File : index[f] = NoRow /\ bySrc[f] = Missing /\ byDst[f] = Missing /\ ImportersIn(index)[f] = {}
  BY DEF Init, None, ImportersIn
<1>3. Agrees /\ Whole
  BY <1>2, MapCacheAssumption DEF MapCacheAssumption, Agrees, Whole
<1> QED
  BY <1>1, <1>3
  DEF Init, CInv, Pended, Opened, InStep, Lossless, Planned, Unwritten, Rebuilding, Agreed,
      Writing, Closing

\* The invariant holds of every state of every run.
LEMMA Invariance == Spec => []CInv
<1> QED
  BY Starting, Inductive, PTL DEF Spec

\* cache_commit.rs and check_consistency: as long as the records reach the disk, a cache without
\* commit.pending has in every record what its index has, whatever process died at which write.
THEOREM ConsistencyHolds == Spec => []ConsistentUnlessPending
<1>1. CInv => ConsistentUnlessPending
  BY DEF CInv, Lossless, Agreed, ConsistentUnlessPending
<1> QED
  BY <1>1, Invariance, PTL

\* While a commit writes, a lookup answers for every file either what the index said before the
\* job or what it says after, in whatever order the records appear.
ReadersSeeOldOrNew ==
    pc \in {"commit", "unlink", "forward", "reverse", "sizes", "commit_done", "commit_mark"} =>
        \A f \in File :
            /\ \/ Dependencies(f) = IndexDsts(f)
               \/ Dependencies(f) = IF rows[f] = NoRow THEN {} ELSE rows[f].dsts
            /\ Dependents(f) \in {ImportersIn(index)[f], ImportersIn(rows)[f]}

\* dependencies and dependents answer without a lock: while a commit writes, each answer is what
\* the index said before the job or what it says after, in whatever order the records appear.
THEOREM ReadersAreSafe == Spec => [](losses = 0 => ReadersSeeOldOrNew)
<1>1. ASSUME CInv, losses = 0, pc \in Writing \cup Closing, NEW f \in File
      PROVE  /\ bySrc[f] \in {RecordOf(index, f), RecordOf(rows, f)}
             /\ byDst[f] \in {ReverseOf(index, f), ReverseOf(rows, f)}
  <2>1. CASE pc \in Writing
    BY <1>1, <2>1 DEF CInv, Lossless, Unwritten
  <2>2. CASE pc \in Closing
    BY <1>1, <2>2 DEF CInv, Lossless, Agreed, Agrees, RecordOf, ReverseOf
  <2> QED
    BY <1>1, <2>1, <2>2
<1>2. ASSUME TypeOK, NEW table \in Tables, NEW f \in File
      PROVE  /\ RecordOf(table, f) \notin Torn /\ ReverseOf(table, f) \notin Torn
             /\ Lines(RecordOf(table, f)) = IF table[f] = NoRow THEN {} ELSE table[f].dsts
             /\ Lines(ReverseOf(table, f)) = ImportersIn(table)[f]
  <2>1. table[f] # NoRow => table[f].dsts \in SUBSET File
    BY DEF Tables, Row
  <2>2. ImportersIn(table)[f] \in SUBSET File
    BY DEF ImportersIn
  <2> QED
    BY <2>1, <2>2, MapCacheAssumption DEF MapCacheAssumption, RecordOf, ReverseOf, Lines
<1>3. CInv => (losses = 0 => ReadersSeeOldOrNew)
  <2> SUFFICES ASSUME CInv, losses = 0, NEW f \in File, pc \in Writing \cup Closing
               PROVE  /\ \/ Dependencies(f) = IndexDsts(f)
                         \/ Dependencies(f) = IF rows[f] = NoRow THEN {} ELSE rows[f].dsts
                      /\ Dependents(f) \in {ImportersIn(index)[f], ImportersIn(rows)[f]}
    BY DEF ReadersSeeOldOrNew, Writing, Closing
  <2>1. TypeOK /\ index \in Tables /\ rows \in Tables
    BY DEF CInv, Typed, TypeOK, Tables
  <2>2. /\ bySrc[f] \in {RecordOf(index, f), RecordOf(rows, f)}
        /\ byDst[f] \in {ReverseOf(index, f), ReverseOf(rows, f)}
    BY <1>1
  <2>3. bySrc[f] \notin Torn /\ byDst[f] \notin Torn
    BY <1>2, <2>1, <2>2
  <2>4. Lines(bySrc[f]) \in {IndexDsts(f), IF rows[f] = NoRow THEN {} ELSE rows[f].dsts}
    <3>1. /\ Lines(RecordOf(index, f)) = IF index[f] = NoRow THEN {} ELSE index[f].dsts
          /\ Lines(RecordOf(rows, f)) = IF rows[f] = NoRow THEN {} ELSE rows[f].dsts
      BY <1>2, <2>1
    <3> QED
      BY <2>2, <3>1 DEF IndexDsts
  <2>5. Lines(byDst[f]) \in {ImportersIn(index)[f], ImportersIn(rows)[f]}
    <3>1. /\ Lines(ReverseOf(index, f)) = ImportersIn(index)[f]
          /\ Lines(ReverseOf(rows, f)) = ImportersIn(rows)[f]
      BY <1>2, <2>1
    <3> QED
      BY <2>2, <3>1
  <2> QED
    BY <2>3, <2>4, <2>5 DEF Dependencies, Dependents
<1> QED
  BY <1>3, Invariance, PTL

\* validate (check_consistency): where it finds nothing, every lookup answers what the index says,
\* also after power losses that tore records, lost them or brought old ones back.
THEOREM ValidateVouches == Spec => []ValidatedLookups
<1>1. ValidatedLookups
  <2> SUFFICES ASSUME Consistent, NEW f \in File
               PROVE  Dependencies(f) = IndexDsts(f) /\ Dependents(f) = ImportersIn(index)[f]
    BY DEF ValidatedLookups
  <2>1. \A g \in File : bySrc[g] \notin Torn => Lines(bySrc[g]) = IndexDsts(g)
    BY DEF Consistent, Lines, IndexDsts
  <2>2. \A g \in File : Lines(bySrc[g]) = IndexDsts(g)
    BY DEF Consistent, Lines, IndexDsts
  <2>3. ImportersIn(index)[f] = {g \in File : f \in IndexDsts(g)}
    BY DEF ImportersIn, IndexDsts
  <2> QED
    BY <2>2, <2>3 DEF Dependencies, Dependents, Consistent, ReverseIsInverse
<1> QED
  BY <1>1, PTL

-----------------------------------------------------------------------------
\* What the readers are promised

\* The answers, where no record has lost its bytes.
Told ==
    /\ AllDependencies = [f \in File |-> Lines(bySrc[f])]
    /\ AllDependents = [d \in File |-> Lines(byDst[d])]

\* What a step must leave alone to be none of the readers' business.
Unnoticed ==
    /\ UNCHANGED <<index, bySrc, byDst, losses>>
    /\ pending = "set" <=> pending' = "set"
    /\ pc \in Announced <=> pc' \in Announced
    /\ pc \in Announced => UNCHANGED rows

\* The records that say what a table does answer what the table does.
LEMMA TableAnswers ==
    ASSUME NEW table \in Tables
    PROVE  /\ TargetsIn(table) \in Reader!Maps
           /\ ImportersIn(table) = Reader!Inverse(TargetsIn(table))
           /\ \A f \in File : /\ Lines(RecordOf(table, f)) = TargetsIn(table)[f]
                              /\ Lines(ReverseOf(table, f)) = ImportersIn(table)[f]
<1>1. \A f \in File : table[f] # NoRow => table[f].dsts \in SUBSET File
  BY DEF Tables, Row
<1>2. TargetsIn(table) \in Reader!Maps
  BY <1>1 DEF TargetsIn, Reader!Maps
<1>3. ImportersIn(table) = Reader!Inverse(TargetsIn(table))
  BY DEF TargetsIn, ImportersIn, Reader!Inverse
<1>4. \A f \in File : ImportersIn(table)[f] \in SUBSET File
  BY DEF ImportersIn
<1>5. \A f \in File : /\ Lines(RecordOf(table, f)) = TargetsIn(table)[f]
                      /\ Lines(ReverseOf(table, f)) = ImportersIn(table)[f]
  BY <1>1, <1>4, MapCacheAssumption DEF MapCacheAssumption, RecordOf, ReverseOf, Lines, TargetsIn
<1> QED
  BY <1>2, <1>3, <1>5

\* Steps that readers do not notice.
LEMMA Unnoticing ==
    ASSUME Unnoticed
    PROVE  UNCHANGED Reader!vars
<1>1. UNCHANGED <<AllDependencies, AllDependents>>
  BY DEF Unnoticed, AllDependencies, AllDependents, Dependencies, Dependents, IndexDsts, ImportersIn
<1>2. UNCHANGED <<TargetsIn(index), Due>>
  BY DEF Unnoticed, Due, TargetsIn
<1>3. UNCHANGED Phase
  BY DEF Unnoticed, Phase
<1>4. UNCHANGED (losses > 0)
  BY DEF Unnoticed
<1> QED
  BY <1>1, <1>2, <1>3, <1>4 DEF Reader!vars

\* As long as no power is lost, a step of MapCache is a step of CacheService or none.
LEMMA ServiceStep == CInv /\ CInv' /\ [Next]_vars => [Reader!Next]_(Reader!vars)
<1> SUFFICES ASSUME CInv, CInv', [Next]_vars PROVE Reader!Next \/ UNCHANGED Reader!vars
  OBVIOUS
<1> DEFINE Goal == Reader!Next \/ UNCHANGED Reader!vars
<1>1. losses \in Nat /\ (losses' = losses \/ losses' = losses + 1)
  <2>1. losses' = losses \/ losses' = losses + 1
    BY DEF Next, vars, disk, counts, past, SomeUpdate, JobStep, BeginUpdate, BeginDelete, Edit,
       Writeback, Crash, PowerLoss, RebuildStart, RebuildFails, RebuildClear, RebuildRecord,
       RebuildIndex, RebuildUnpend, RebuildMark, Load, Scan, Parse, Delete, CommitNothing,
       Unchanging, CommitBegin, UnlinkRecord, StartForward, WriteForward, StartReverse,
       WriteReverse, SaveIndex, SaveSizes, CommitUnpend, CommitMark, Undisturbed, KeepMaps,
       DrawLibrary, DrawRoot, DrawFolders
  <2>2. losses \in Nat
    BY MapCacheAssumption DEF MapCacheAssumption, CInv, Typed, TypeOK
  <2> QED
    BY <2>1, <2>2
<1>2. CASE losses' # 0
  <2>1. (losses > 0)' = TRUE
    BY <1>1, <1>2
  <2> QED
    BY <2>1 DEF Reader!Next, Reader!PowerLoss
<1>3. CASE losses' = 0
  <2>1. losses = 0
    BY <1>1, <1>3
  <2>2. /\ TypeOK /\ Pended /\ InStep /\ Planned /\ Rebuilding /\ Agreed /\ Whole
        /\ index \in Tables /\ rows \in Tables
    BY <2>1 DEF CInv, Typed, Lossless, TypeOK, Tables
  <2>3. Whole' /\ index' \in Tables /\ rows' \in Tables /\ byDst' \in [File -> Record]
    BY <1>3 DEF CInv, Typed, Lossless, TypeOK, Tables
  <2>4. Told
    BY <2>2 DEF Told, Whole, AllDependencies, AllDependents, Dependencies, Dependents
  <2>5. Told'
    BY <2>3 DEF Told, Whole, AllDependencies, AllDependents, Dependencies, Dependents
  <2>6. UNCHANGED (losses > 0)
    BY <1>3, <2>1
  <2> USE <2>2 DEF disk, cache, maps, session, request
  <2>7. ASSUME Unnoticed PROVE Goal
    BY <2>7, Unnoticing
  <2>8. CASE \/ SomeUpdate \/ (\E f \in File : BeginDelete(f)) \/ RebuildStart \/ RebuildFails \/ RebuildMark
             \/ Load \/ Scan \/ Parse \/ Delete \/ CommitNothing \/ CommitMark
             \/ KeepMaps \/ DrawLibrary \/ DrawRoot \/ DrawFolders
    <3>1. UNCHANGED <<index, bySrc, byDst>> /\ pc \notin Announced /\ pc' \notin Announced
      BY <2>8 DEF Announced, SomeUpdate, BeginUpdate, BeginDelete, JobEnds, RebuildStart, RebuildFails,
         RebuildMark, Load, Scan, Parse, Delete, Committed, CommitNothing, CommitMark, Undisturbed,
         KeepMaps, DrawLibrary, DrawRoot, DrawFolders
    <3>2. pending = "set" <=> pending' = "set"
      BY <2>8 DEF Pended, SomeUpdate, BeginUpdate, BeginDelete, RebuildStart, RebuildFails,
         RebuildMark, Load, Scan, Parse, Delete, CommitNothing, CommitMark, Undisturbed,
         KeepMaps, DrawLibrary, DrawRoot, DrawFolders
    <3> QED
      BY <1>3, <2>1, <2>7, <3>1, <3>2 DEF Unnoticed
  <2>9. CASE (\E f \in File : Edit(f)) \/ Writeback \/ StartForward \/ StartReverse \/ SaveSizes \/ UNCHANGED vars
    <3>1. UNCHANGED <<index, bySrc, byDst, pending, rows>> /\ (pc \in Announced <=> pc' \in Announced)
      BY <2>9 DEF Announced, Edit, Writeback, Unchanging, StartForward, StartReverse, SaveSizes, vars
    <3> QED
      BY <1>3, <2>1, <2>7, <3>1 DEF Unnoticed
  <2>10. CASE CommitBegin
    <3>1. Phase = "steady" /\ Phase' = "commit"
      BY <2>10 DEF CommitBegin, Phase, Pended, Announced
    <3>2. /\ Due' \in Reader!Maps /\ UNCHANGED TargetsIn(index)
          /\ UNCHANGED <<AllDependencies, AllDependents>>
      <4>1. Due' = TargetsIn(rows)
        BY <2>10 DEF CommitBegin, Unchanging, Due, Announced, TargetsIn
      <4> QED
        BY <2>4, <2>5, <2>10, <4>1, TableAnswers DEF CommitBegin, Told, TargetsIn
    <3> QED
      BY <2>6, <3>1, <3>2 DEF Reader!Next, Reader!Begin
  <2>11. ASSUME pc \in Announced, pc' \in Announced, pending = "set", pending' = "set",
                UNCHANGED <<index, rows>>
         PROVE  /\ Phase = "commit" /\ UNCHANGED <<Phase, Due, TargetsIn(index)>>
                /\ Due = TargetsIn(rows)
    BY <2>11 DEF Phase, Due, TargetsIn
  <2>12. ASSUME NEW f \in File, UnlinkRecord(f) \/ WriteForward(f) PROVE Goal
    <3>1. /\ pc \in Announced /\ pc' \in Announced /\ pending = "set" /\ pending' = "set"
          /\ UNCHANGED <<index, rows, byDst>>
      BY <2>12 DEF UnlinkRecord, WriteForward, Unchanging, Announced, Pended
    <3>2. bySrc' = [bySrc EXCEPT ![f] = RecordOf(rows, f)]
      BY <2>12 DEF UnlinkRecord, WriteForward, Planned, Plan, Writing, RecordOf
    <3>3. Lines(RecordOf(rows, f)) = TargetsIn(rows)[f]
      BY TableAnswers
    <3>4. AllDependencies' = [AllDependencies EXCEPT ![f] = Due[f]]
      <4>1. Due[f] = Lines(RecordOf(rows, f))
        BY <2>11, <3>1, <3>3
      <4>2. bySrc \in [File -> Record]
        BY DEF TypeOK
      <4> QED
        BY <2>4, <2>5, <3>2, <4>1, <4>2 DEF Told
    <3>5. UNCHANGED AllDependents
      BY <2>4, <2>5, <3>1 DEF Told
    <3>6. Reader!ShowTargets(f)
      BY <2>6, <2>11, <3>1, <3>4, <3>5 DEF Reader!ShowTargets
    <3> QED
      BY <3>6 DEF Reader!Next
  <2>13. ASSUME NEW d \in File, WriteReverse(d) PROVE Goal
    <3>1. /\ pc \in Announced /\ pc' \in Announced /\ pending = "set" /\ pending' = "set"
          /\ UNCHANGED <<index, rows, bySrc>>
      BY <2>13 DEF WriteReverse, Unchanging, Announced, Pended
    <3>2. byDst' = [byDst EXCEPT ![d] = ReverseOf(rows, d)]
      BY <2>13 DEF WriteReverse, Planned, Plan, Writing, ReverseOf
    <3>3. AllDependents' = [AllDependents EXCEPT ![d] = Reader!Inverse(Due)[d]]
      <4>1. Reader!Inverse(Due)[d] = Lines(ReverseOf(rows, d))
        BY <2>11, <3>1, TableAnswers
      <4>2. byDst \in [File -> Record]
        BY DEF TypeOK
      <4> QED
        BY <2>4, <2>5, <3>2, <4>1, <4>2 DEF Told
    <3>4. UNCHANGED AllDependencies
      BY <2>4, <2>5, <3>1 DEF Told
    <3>5. Reader!ShowImporters(d)
      BY <2>6, <2>11, <3>1, <3>3, <3>4 DEF Reader!ShowImporters
    <3> QED
      BY <3>5 DEF Reader!Next
  <2>14. ASSUME NEW table \in Tables,
                \A f \in File : bySrc[f] = RecordOf(table, f) /\ byDst[f] = ReverseOf(table, f)
         PROVE  AllDependencies = TargetsIn(table) /\ AllDependents = Reader!Inverse(TargetsIn(table))
    <3>1. ImportersIn(table) = [d \in File |-> ImportersIn(table)[d]]
      BY DEF ImportersIn
    <3>2. TargetsIn(table) = [f \in File |-> TargetsIn(table)[f]]
      BY DEF TargetsIn
    <3>3. ImportersIn(table) = Reader!Inverse(TargetsIn(table))
      BY TableAnswers
    <3>4. \A f \in File : /\ Lines(bySrc[f]) = TargetsIn(table)[f]
                          /\ Lines(byDst[f]) = ImportersIn(table)[f]
      BY <2>14, TableAnswers
    <3> QED
      BY <2>4, <3>1, <3>2, <3>3, <3>4 DEF Told
  <2>15. ASSUME Agrees
         PROVE  AllDependencies = TargetsIn(index) /\ AllDependents = Reader!Inverse(TargetsIn(index))
    <3>1. \A f \in File : bySrc[f] = RecordOf(index, f) /\ byDst[f] = ReverseOf(index, f)
      BY <2>15 DEF Agrees, RecordOf, ReverseOf
    <3> QED
      BY <2>14, <3>1
  <2>16. CASE SaveIndex
    <3>1. /\ pc \in Announced /\ pc' \in Announced /\ pending = "set" /\ pending' = "set"
          /\ UNCHANGED <<rows, bySrc, byDst>> /\ index' = rows
      BY <2>16 DEF SaveIndex, Unchanging, Announced, Pended
    <3>2. \A f \in File : bySrc[f] = RecordOf(rows, f) /\ byDst[f] = ReverseOf(rows, f)
      BY <2>16 DEF SaveIndex, Planned, Writing, OpenSrc, OpenDst
    <3>3. AllDependencies = TargetsIn(rows) /\ AllDependents = Reader!Inverse(TargetsIn(rows))
      BY <2>14, <3>2
    <3>4. Phase = "commit" /\ UNCHANGED <<Phase, Due>> /\ Due = TargetsIn(rows) /\ TargetsIn(index)' = TargetsIn(rows)
      BY <3>1 DEF Phase, Due, TargetsIn
    <3>5. UNCHANGED <<AllDependencies, AllDependents>>
      BY <2>4, <2>5, <3>1 DEF Told
    <3>6. Reader!Save
      BY <2>6, <3>3, <3>4, <3>5 DEF Reader!Save
    <3> QED
      BY <3>6 DEF Reader!Next
  <2>17. CASE CommitUnpend
    <3>1. /\ pc \in Announced /\ pc' \notin Announced /\ pending = "set" /\ pending' # "set"
          /\ UNCHANGED <<index, bySrc, byDst>> /\ rows = index
      BY <2>17 DEF CommitUnpend, Announced, Pended, InStep, Closing
    <3>2. Agrees
      BY <2>17 DEF CommitUnpend, Agreed, Closing
    <3>3. /\ Phase = "commit" /\ Phase' = "steady"
          /\ Due = TargetsIn(index) /\ UNCHANGED <<Due, TargetsIn(index)>>
      BY <3>1 DEF Phase, Due, TargetsIn
    <3>4. UNCHANGED <<AllDependencies, AllDependents>>
      BY <2>4, <2>5, <3>1 DEF Told
    <3>5. Reader!Finish
      BY <2>6, <2>15, <3>2, <3>3, <3>4 DEF Reader!Finish
    <3> QED
      BY <3>5 DEF Reader!Next
  <2>18. CASE Crash
    <3>1. UNCHANGED <<index, bySrc, byDst, pending, losses>> /\ pc' = "idle" /\ pc' \notin Announced
      BY <2>18 DEF Crash, JobEnds, Announced
    <3>2. CASE pc \in Announced
      <4>1. pending = "set"
        BY <3>2 DEF Pended, Announced
      <4>2. /\ Phase = "commit" /\ Phase' = "broken"
            /\ Due' = TargetsIn(index) /\ UNCHANGED TargetsIn(index)
        BY <3>1, <3>2, <4>1 DEF Phase, Due, TargetsIn
      <4>3. UNCHANGED <<AllDependencies, AllDependents>>
        BY <2>4, <2>5, <3>1 DEF Told
      <4>4. Reader!Die
        BY <2>6, <4>2, <4>3 DEF Reader!Die
      <4> QED
        BY <4>4 DEF Reader!Next
    <3>3. CASE pc \notin Announced
      BY <2>7, <3>1, <3>3 DEF Unnoticed
    <3> QED
      BY <3>2, <3>3
  <2>19. ASSUME pc \notin Announced, pc' \notin Announced, pending = "set"
         PROVE  /\ Phase = "broken" /\ Due = TargetsIn(index)
                /\ (pending' = "set" => UNCHANGED Phase) /\ (pending' # "set" => Phase' = "steady")
                /\ Due' = TargetsIn(index)'
    BY <2>19 DEF Phase, Due, TargetsIn
  <2>20. Reader!Inverse(AllDependencies) = [d \in File |-> Importing(d)]
    BY <2>4 DEF Told, Importing, Reader!Inverse
  <2>21. CASE RebuildClear \/ \E d \in File : RebuildRecord(d)
    <3>1. /\ pc \notin Announced /\ pc' \notin Announced /\ pending = "set" /\ pending' = "set"
          /\ UNCHANGED <<index, bySrc>>
      BY <2>21 DEF RebuildClear, RebuildRecord, Announced, Pended
    <3>2. UNCHANGED <<AllDependencies, TargetsIn(index)>>
      BY <2>4, <2>5, <3>1 DEF Told, TargetsIn
    <3>3. \A d \in File : byDst'[d] \in {byDst[d], Missing, Importing(d)}
      <4>1. byDst \in [File -> Record]
        BY DEF TypeOK
      <4> QED
        BY <2>21, <4>1 DEF RebuildClear, RebuildRecord, None, Importing
    <3>4. \A d \in File : Lines(Importing(d)) = Importing(d) /\ Lines(Missing) = {}
      BY MapCacheAssumption DEF MapCacheAssumption, Lines, Importing
    <3>5. \A d \in File : AllDependents'[d] \in {AllDependents[d], {}, Reader!Inverse(AllDependencies)[d]}
      BY <2>4, <2>5, <2>20, <3>3, <3>4 DEF Told
    <3>6. AllDependents' \in Reader!Maps
      BY <2>3, <2>5, LinesType DEF Told, Reader!Maps
    <3>7. Reader!Repair
      BY <2>6, <2>19, <3>1, <3>2, <3>5, <3>6 DEF Reader!Repair
    <3> QED
      BY <3>7 DEF Reader!Next
  <2>22. CASE RebuildIndex
    <3>1. /\ pc \notin Announced /\ pc' \notin Announced /\ pending = "set" /\ pending' = "set"
          /\ UNCHANGED <<bySrc, byDst>>
      BY <2>22 DEF RebuildIndex, Announced, Pended
    <3>2. \A d \in File : byDst[d] = IF Importing(d) = {} THEN Missing ELSE Importing(d)
      BY <2>22 DEF RebuildIndex, Rebuilding
    <3>3. \A d \in File : Lines(byDst[d]) = Importing(d)
      <4>1. Lines(Missing) = {} /\ \A I \in SUBSET File : Lines(I) = I
        BY MapCacheAssumption DEF MapCacheAssumption, Lines
      <4>2. \A d \in File : Importing(d) \in SUBSET File
        BY DEF Importing
      <4> QED
        BY <3>2, <4>1, <4>2
    <3>4. AllDependents = Reader!Inverse(AllDependencies)
      BY <2>4, <2>20, <3>3 DEF Told
    <3>5. TargetsIn(index)' = AllDependencies
      <4>1. \A f \in File : (IF RebuiltRow(f) = NoRow THEN {} ELSE RebuiltRow(f).dsts) = Lines(bySrc[f])
        <5> TAKE f \in File
        <5>1. CASE bySrc[f] = Missing
          BY <5>1 DEF RebuiltRow, Lines
        <5>2. CASE bySrc[f] # Missing
          <6>1. RebuiltRow(f).dsts = Lines(bySrc[f])
            BY <5>2 DEF RebuiltRow
          <6>2. RebuiltRow(f) \in Row
            <7>1. Lines(bySrc[f]) \subseteq File
              BY LinesType DEF TypeOK
            <7>2. (IF index[f] = NoRow THEN NoHash ELSE index[f].hash) \in Content \cup {NoHash}
              BY DEF Tables, Row
            <7> QED
              BY <5>2, <7>1, <7>2 DEF RebuiltRow, Row
          <6>3. RebuiltRow(f) # NoRow
            BY <6>2, MapCacheAssumption DEF MapCacheAssumption
          <6> QED
            BY <6>1, <6>3
        <5> QED
          BY <5>1, <5>2
      <4>2. index' = [f \in File |-> RebuiltRow(f)]
        BY <2>22 DEF RebuildIndex
      <4> QED
        BY <2>4, <4>1, <4>2 DEF Told, TargetsIn
    <3>6. UNCHANGED <<AllDependencies, AllDependents>>
      BY <2>4, <2>5, <3>1 DEF Told
    <3>7. Reader!Accept
      BY <2>6, <2>19, <3>1, <3>4, <3>5, <3>6 DEF Reader!Accept
    <3> QED
      BY <3>7 DEF Reader!Next
  <2>23. CASE RebuildUnpend
    <3>1. /\ pc \notin Announced /\ pc' \notin Announced /\ pending = "set" /\ pending' # "set"
          /\ UNCHANGED <<index, bySrc, byDst>>
      BY <2>23 DEF RebuildUnpend, Announced, Pended
    <3>2. Agrees
      BY <2>23 DEF RebuildUnpend, Agreed
    <3>3. UNCHANGED <<AllDependencies, AllDependents, TargetsIn(index)>>
      BY <2>4, <2>5, <3>1 DEF Told, TargetsIn
    <3>4. Reader!Repaired
      BY <2>6, <2>15, <2>19, <3>1, <3>2, <3>3 DEF Reader!Repaired
    <3> QED
      BY <3>4 DEF Reader!Next
  <2>24. CASE PowerLoss
    BY <1>3, <2>1, <2>24 DEF PowerLoss
  <2> QED
    BY <2>8, <2>9, <2>10, <2>12, <2>13, <2>16, <2>17, <2>18, <2>21, <2>22, <2>23, <2>24
       DEF Next, JobStep
<1> QED
  BY <1>2, <1>3

\* The lookups of the dependency map give what CacheService promises, for any files and jobs,
\* and wherever jobs die, until the power is lost.
THEOREM ImplementsService == Spec => Service
<1>1. Init => Reader!Init
  <2> SUFFICES ASSUME Init PROVE Reader!Init
    OBVIOUS
  <2>1. \A f \in File : index[f] = NoRow /\ bySrc[f] = Missing /\ byDst[f] = Missing
    BY DEF Init, None
  <2>2. \A f \in File : Dependencies(f) = {} /\ Dependents(f) = {}
    BY <2>1, MapCacheAssumption DEF MapCacheAssumption, Dependencies, Dependents, Lines
  <2>3. /\ AllDependencies = [f \in File |-> {}] /\ AllDependents = [f \in File |-> {}]
        /\ TargetsIn(index) = [f \in File |-> {}]
    BY <2>1, <2>2 DEF AllDependencies, AllDependents, TargetsIn
  <2>4. Phase = "steady" /\ Due = TargetsIn(index)
    BY DEF Init, Phase, Due, Announced
  <2>5. (losses > 0) = FALSE
    BY DEF Init
  <2> QED
    BY <2>3, <2>4, <2>5 DEF Reader!Init
<1>2. CInv /\ CInv' /\ [Next]_vars => [Reader!Next]_(Reader!vars)
  BY ServiceStep
<1> QED
  BY <1>1, <1>2, Invariance, PTL DEF Spec, Service, Reader!Spec
=============================================================================
