------------------------- MODULE MapCachePowerProofs -------------------------
(***************************************************************************)
(* The dependency-map cache and power losses, any number of them, between  *)
(* any two steps, with any deletions and caps: TrustIsEarned and           *)
(* HealedWhenSettled.                                                      *)
(*                                                                         *)
(* A power loss may do anything to the records, so between jobs there is   *)
(* nothing to say of them.  What survives is synced: index.tsv and         *)
(* sizes.tsv.  Telling says that the two fit together, unless              *)
(* commit.pending is there; so a record that passes has the length the     *)
(* index calls for, whatever is in it.  From there on the session is       *)
(* followed to its end: Planned of MapCacheProofs, but only for paths with *)
(* rows and as far as lengths go (Intended), and the lengths it will save  *)
(* (Measuring).                                                            *)
(*                                                                         *)
(* That ends where a job takes the lines of an importer from a record that *)
(* is not what its row says (restaged): it saves the length of those.      *)
(* With no power lost no record is wrong, and no job does.                 *)
(***************************************************************************)
EXTENDS MapCacheProofs

\* The record has the length of the one asked for.
Long(record, content) == record # Missing /\ SizeOf[record] = SizeOf[content]

\* The recorded lengths are those of the records a table needs.
Measured(lengths, table, src, dst) ==
    /\ \A f \in src : table[f] # NoRow => lengths.src[f] \in {NoSize, SizeOf[table[f].dsts]}
    /\ \A d \in dst : ImportersIn(table)[d] # {} => lengths.dst[d] \in {NoSize, SizeOf[ImportersIn(table)[d]]}

\* The records are as long as those a table needs.
Mirrored(table, src, dst) ==
    /\ \A f \in src : table[f] # NoRow => Long(bySrc[f], table[f].dsts)
    /\ \A d \in dst : ImportersIn(table)[d] # {} => Long(byDst[d], ImportersIn(table)[d])

\* A rebuild starts by forgetting the lengths.
Forgotten == pc \in {"rebuild", "rebuild_dst", "rebuild_done", "rebuild_mark"} => sizes = NoSizes

\* sizes.tsv fits index.tsv, or commit.pending says that it may not.
Telling == (pending # "set" \/ pc = "commit_done") => Measured(Recorded, index, File, File)

\* What a session has not marked is as long as the index says.
Vouched ==
    pc \in {"scan", "parse", "delete"} =>
        /\ \A f \in File : (rows[f] # NoRow /\ f \notin reparse) => Long(bySrc[f], rows[f].dsts)
        /\ \A d \in File : (rev[d] # {} /\ d \notin dirtyDst) => Long(byDst[d], rev[d])
        /\ Measured(newSizes, rows, File, File)

\* A whole run parses every file that failed the check of open.
Reparsed == pc = "parse" /\ settled => reparse \cap files \subseteq DOMAIN hashed

\* Planned, as far as there are rows; of the records only in a whole run.
Intended == pc \in Writing => Plan /\ (settled => Mirrored(rows, File \ OpenSrc, File \ OpenDst))

\* The paths whose lengths the commit has yet to take.
DueSrc == IF pc \in {"commit", "unlink"} THEN Staged ELSE {}
DueDst == IF pc \in {"commit", "unlink", "forward"} THEN dirtyDst ELSE {}

\* The lengths to save are those of the records the rows need.
Measuring == pc \in Writing \cup {"sizes"} => Measured(newSizes, rows, File \ DueSrc, File \ DueDst)

\* A commit with nothing to write has nothing to change.
Nothing ==
    ~rewrite => /\ pc \in {"scan", "parse", "commit"} => dirtyDst = {}
                /\ pc = "commit" => rows = index /\ removed = {} /\ Staged = {}

\* In a whole run all records are as long as they should be once they are written, and after it until
\* something moves.
Mended ==
    settled => /\ pc \in Closing => Mirrored(rows, File, File)
               /\ pc \in {"maps", "cards", "folders", "idle"} => Mirrored(index, File, File)

\* A whole run is no deletion.
Undeleting == (settled /\ pc # "idle") => job = "update" /\ pc # "delete"

\* Restaging takes a power loss.
LossFirst == losses = 0 => ~restaged

\* A finished run leaves no commit.pending.
Finished == pc \in {"maps", "cards", "folders"} \/ (pc = "idle" /\ settled) => pending # "set"

PInv ==
    /\ CInv /\ Forgotten /\ Reparsed /\ Nothing /\ Finished /\ Undeleting
    /\ ~restaged => Telling /\ Vouched /\ Intended /\ Measuring /\ Mended

-----------------------------------------------------------------------------
\* What the open check makes sure of

\* A record that passes, by its length or by its content, has the length of what it passes for.
LEMMA Passing ==
    ASSUME NEW S \in SUBSET File, NEW record \in Record, NEW length \in {NoSize, SizeOf[S]},
           Passes(record, length, S)
    PROVE  Long(record, S)
<1>1. CASE length = NoSize
  BY <1>1, MapCacheAssumption DEF MapCacheAssumption, Passes, Long
<1>2. CASE length # NoSize
  BY <1>2 DEF Passes, Long
<1> QED
  BY <1>1, <1>2

\* So what passes is as long as the index says, where sizes.tsv fits it.
LEMMA Trusting ==
    ASSUME TypeOK, Measured(Recorded, index, File, File)
    PROVE  /\ \A f \in SrcOk : index[f] # NoRow /\ Long(bySrc[f], index[f].dsts)
           /\ \A d \in DstOk : ImportersIn(index)[d] # {} /\ Long(byDst[d], ImportersIn(index)[d])
<1>1. ASSUME NEW f \in SrcOk PROVE index[f] # NoRow /\ Long(bySrc[f], index[f].dsts)
  <2>1. f \in File /\ index[f] # NoRow /\ Passes(bySrc[f], Recorded.src[f], index[f].dsts)
    BY DEF SrcOk, Indexed
  <2>2. index[f].dsts \in SUBSET File /\ bySrc[f] \in Record
    BY <2>1 DEF TypeOK, Row
  <2>3. Recorded.src[f] \in {NoSize, SizeOf[index[f].dsts]}
    BY <2>1 DEF Measured
  <2> QED
    BY <2>1, <2>2, <2>3, Passing
<1>2. ASSUME NEW d \in DstOk PROVE ImportersIn(index)[d] # {} /\ Long(byDst[d], ImportersIn(index)[d])
  <2>1. d \in File /\ ImportersIn(index)[d] # {} /\ Passes(byDst[d], Recorded.dst[d], ImportersIn(index)[d])
    BY DEF DstOk, Imported
  <2>2. ImportersIn(index)[d] \in SUBSET File /\ byDst[d] \in Record
    BY <2>1 DEF TypeOK, ImportersIn
  <2>3. Recorded.dst[d] \in {NoSize, SizeOf[ImportersIn(index)[d]]}
    BY <2>1 DEF Measured
  <2> QED
    BY <2>1, <2>2, <2>3, Passing
<1> QED
  BY <1>1, <1>2

-----------------------------------------------------------------------------
\* The steps

\* A rebuild removes sizes.tsv first, and writes none.
LEMMA ForgottenStep == Forgotten /\ [Next]_vars => Forgotten'
BY DEF Forgotten, Next, vars, disk, cache, maps, SomeUpdate, JobStep, BeginUpdate, BeginDelete,
   Edit, Writeback, JobEnds, Crash, PowerLoss, RebuildStart, RebuildFails, RebuildClear,
   RebuildRecord, RebuildIndex, RebuildUnpend, RebuildMark, Load, Scan, Parse, Delete, Committed,
   CommitNothing, Unchanging, CommitBegin, UnlinkRecord, StartForward, WriteForward, StartReverse,
   WriteReverse, SaveIndex, SaveSizes, CommitUnpend, CommitMark, Undisturbed, KeepMaps,
   DrawLibrary, DrawRoot, DrawFolders

\* Once restaged, for good.
LEMMA RestagedStays == [Next]_vars => (restaged => restaged')
BY DEF Next, vars, past, SomeUpdate, JobStep, BeginUpdate, BeginDelete, Edit, Writeback, Crash, PowerLoss,
   RebuildStart, RebuildFails, RebuildClear, RebuildRecord, RebuildIndex, RebuildUnpend, RebuildMark,
   Load, Scan, RemoveAll, Parse, Delete, CommitNothing, Unchanging, CommitBegin, UnlinkRecord,
   StartForward, WriteForward, StartReverse, WriteReverse, SaveIndex, SaveSizes, CommitUnpend,
   CommitMark, Undisturbed, KeepMaps, DrawLibrary, DrawRoot, DrawFolders

\* Once a run is not a whole one, it stays so to its end.
LEMMA UnsettledStays == [Next]_vars => (settled' => (settled \/ pc' = "open"))
BY DEF Next, vars, SomeUpdate, JobStep, BeginUpdate, BeginDelete, Edit, Writeback, Crash, PowerLoss,
   RebuildStart, RebuildFails, RebuildClear, RebuildRecord, RebuildIndex, RebuildUnpend, RebuildMark,
   Load, Scan, Parse, Delete, CommitNothing, Unchanging, CommitBegin, UnlinkRecord,
   StartForward, WriteForward, StartReverse, WriteReverse, SaveIndex, SaveSizes, CommitUnpend,
   CommitMark, Undisturbed, KeepMaps, DrawLibrary, DrawRoot, DrawFolders

\* A run that leaves out no file it has to parse keeps those that failed the check.
LEMMA ReparsedStep == Reparsed /\ [Next]_vars => Reparsed'
<1> SUFFICES ASSUME Reparsed, [Next]_vars, pc' = "parse", settled'
             PROVE  (reparse \cap files \subseteq DOMAIN hashed)'
  BY DEF Reparsed
<1>1. CASE Scan
  <2>1. DOMAIN hashed' = Dirty /\ UNCHANGED <<reparse, files>>
    BY <1>1 DEF Scan, request
  <2> QED
    BY <2>1 DEF Dirty
<1>2. CASE pc = "parse" /\ UNCHANGED <<reparse, files, hashed>>
  BY <1>2, UnsettledStays DEF Reparsed
<1> QED
  BY <1>1, <1>2
  DEF Next, vars, disk, session, request, SomeUpdate, JobStep, BeginUpdate, BeginDelete, Edit, Writeback,
      JobEnds, Crash, PowerLoss, RebuildStart, RebuildFails, RebuildClear, RebuildRecord, RebuildIndex,
      RebuildUnpend, RebuildMark, Load, Parse, Delete, Committed, CommitNothing, CommitBegin,
      UnlinkRecord, StartForward, WriteForward, StartReverse, WriteReverse, SaveIndex, SaveSizes,
      CommitUnpend, CommitMark, KeepMaps, DrawLibrary, DrawRoot, DrawFolders

\* Open marks nothing if it has nothing to write, and neither does a run without a file to parse or
\* to remove.
LEMMA NothingStep == TypeOK /\ Opened /\ Nothing /\ [Next]_vars => Nothing'
<1> SUFFICES ASSUME TypeOK, Opened, Nothing, [Next]_vars, ~rewrite' PROVE Nothing'
  BY DEF Nothing
<1>1. CASE Load
  BY <1>1 DEF Load, Nothing, DstOk
<1>2. CASE Scan
  BY <1>2 DEF Scan, Nothing
<1>3. CASE Parse
  <2>1. /\ RemoveAll(Stale, Upserted, UpsertedRev, UpsertedLines, dirtyDst \cup Turned)
        /\ pc = "parse" /\ pc' = "commit" /\ index' = index
        /\ rewrite' = (rewrite \/ DOMAIN hashed # {} \/ Stale # {})
    BY <1>3, ParseRemoves DEF Parse, disk, cache, Stale, Upserted
  <2>2. ~rewrite /\ DOMAIN hashed = {} /\ Stale = {} /\ dirtyDst = {} /\ rows = index
    BY <2>1 DEF Nothing, Opened
  <2>3. Upserted = rows /\ Turned = {} /\ \A f \in File : UpsertedLines[f] = Missing
    BY <2>2 DEF Upserted, Turned, UpsertedLines, TypeOK
  <2>4. removed' = {} /\ dirtyDst' = {} /\ \A f \in File : dirtySrc'[f] = Missing
    BY <2>1, <2>2, <2>3 DEF RemoveAll
  <2>5. \A f \in File : rows'[f] = rows[f]
    <3> TAKE f \in File
    <3>1. rows'[f] = IF rows[f] = NoRow THEN NoRow ELSE [rows[f] EXCEPT !.dsts = @ \ {}]
      BY <2>1, <2>2, <2>3 DEF RemoveAll
    <3>2. rows[f] # NoRow => [rows[f] EXCEPT !.dsts = @ \ {}] = rows[f]
      BY DEF TypeOK, Row
    <3> QED
      BY <3>1, <3>2
  <2>6. rows' = rows
    <3>1. rows' = [f \in File |-> rows'[f]] /\ rows = [f \in File |-> rows[f]]
      BY <2>1 DEF RemoveAll, TypeOK
    <3> QED
      BY <2>5, <3>1
  <2> QED
    BY <2>1, <2>2, <2>4, <2>6 DEF Nothing, Staged
<1>4. CASE pc' \notin {"scan", "parse", "commit"}
  BY <1>4 DEF Nothing
<1>5. CASE Delete
  BY <1>5 DEF Delete
<1>6. CASE pc' = pc /\ UNCHANGED <<index, session>>
  BY <1>6 DEF Nothing, session, Staged
<1> QED
  BY <1>1, <1>2, <1>3, <1>4, <1>5, <1>6
  DEF Next, vars, disk, cache, SomeUpdate, JobStep, BeginUpdate, BeginDelete, Edit,
      Writeback, JobEnds, Crash, PowerLoss, RebuildStart, RebuildFails, RebuildClear, RebuildRecord,
      RebuildIndex, RebuildUnpend, RebuildMark, Committed, CommitNothing, CommitBegin,
      UnlinkRecord, StartForward, WriteForward, StartReverse, WriteReverse, SaveIndex, SaveSizes,
      CommitUnpend, CommitMark, KeepMaps, DrawLibrary, DrawRoot, DrawFolders

\* A job gets to its end with commit.pending gone.
LEMMA FinishedStep == Pended /\ Finished /\ [Next]_vars => Finished'
<1> SUFFICES ASSUME Pended, Finished, [Next]_vars PROVE Finished'
  OBVIOUS
<1> USE DEF Pended, Finished, disk, cache
<1>1. CASE \/ SomeUpdate \/ (\E f \in File : BeginDelete(f)) \/ (\E f \in File : Edit(f)) \/ Writeback
           \/ Crash \/ PowerLoss
  BY <1>1 DEF SomeUpdate, BeginUpdate, BeginDelete, Edit, Writeback, Crash, JobEnds, PowerLoss
<1>2. CASE \/ RebuildStart \/ RebuildFails \/ RebuildClear \/ (\E d \in File : RebuildRecord(d))
           \/ RebuildIndex \/ RebuildUnpend \/ RebuildMark
  BY <1>2 DEF RebuildStart, RebuildFails, RebuildClear, RebuildRecord, RebuildIndex,
     RebuildUnpend, RebuildMark, JobEnds
<1>3. CASE Load \/ Scan \/ Parse \/ Delete
  BY <1>3 DEF Load, Scan, Parse, Delete
<1>4. CASE CommitNothing \/ CommitMark
  BY <1>4 DEF CommitNothing, CommitMark, Committed, JobEnds
<1>5. CASE \/ CommitBegin \/ (\E f \in File : UnlinkRecord(f)) \/ StartForward
           \/ (\E f \in File : WriteForward(f)) \/ StartReverse
           \/ (\E d \in File : WriteReverse(d)) \/ SaveIndex \/ SaveSizes \/ CommitUnpend
  BY <1>5 DEF CommitBegin, UnlinkRecord, StartForward, WriteForward, StartReverse, WriteReverse,
     SaveIndex, SaveSizes, CommitUnpend
<1>6. CASE KeepMaps \/ DrawLibrary \/ DrawRoot \/ DrawFolders
  BY <1>6 DEF KeepMaps, DrawLibrary, DrawRoot, DrawFolders, Undisturbed, JobEnds
<1>7. CASE UNCHANGED vars
  BY <1>7 DEF vars
<1> QED
  BY <1>1, <1>2, <1>3, <1>4, <1>5, <1>6, <1>7 DEF Next, JobStep

\* Only update_maps over the whole tree begins a whole run.
LEMMA UndeletingStep == Undeleting /\ [Next]_vars => Undeleting'
<1> SUFFICES ASSUME Undeleting, [Next]_vars, settled' PROVE Undeleting'
  BY DEF Undeleting
<1> USE DEF Undeleting, request
<1>1. CASE \/ SomeUpdate \/ (\E f \in File : BeginDelete(f)) \/ (\E f \in File : Edit(f)) \/ Writeback
           \/ Crash \/ PowerLoss \/ UNCHANGED vars
  BY <1>1 DEF SomeUpdate, BeginUpdate, BeginDelete, Edit, Writeback, Crash, JobEnds, PowerLoss, vars
<1>2. CASE \/ RebuildStart \/ RebuildFails \/ RebuildClear \/ (\E d \in File : RebuildRecord(d))
           \/ RebuildIndex \/ RebuildUnpend \/ RebuildMark
  BY <1>2 DEF RebuildStart, RebuildFails, RebuildClear, RebuildRecord, RebuildIndex,
     RebuildUnpend, RebuildMark, JobEnds
<1>3. CASE Load \/ Scan \/ Parse \/ Delete
  BY <1>3 DEF Load, Scan, Parse, Delete
<1>4. CASE CommitNothing \/ CommitMark
  BY <1>4 DEF CommitNothing, CommitMark, Committed, JobEnds
<1>5. CASE \/ CommitBegin \/ (\E f \in File : UnlinkRecord(f)) \/ StartForward
           \/ (\E f \in File : WriteForward(f)) \/ StartReverse
           \/ (\E d \in File : WriteReverse(d)) \/ SaveIndex \/ SaveSizes \/ CommitUnpend
  BY <1>5 DEF Unchanging, CommitBegin, UnlinkRecord, StartForward, WriteForward, StartReverse,
     WriteReverse, SaveIndex, SaveSizes, CommitUnpend
<1>6. CASE KeepMaps \/ DrawLibrary \/ DrawRoot \/ DrawFolders
  BY <1>6 DEF KeepMaps, DrawLibrary, DrawRoot, DrawFolders, Undisturbed, JobEnds
<1> QED
  BY <1>1, <1>2, <1>3, <1>4, <1>5, <1>6 DEF Next, JobStep

\* sizes.tsv is written after index.tsv and before commit.pending is removed, and removed before a
\* rebuild writes index.tsv.
LEMMA TellingStep == TypeOK /\ Pended /\ InStep /\ Forgotten /\ Telling /\ Measuring /\ [Next]_vars => Telling'
<1> SUFFICES ASSUME TypeOK, Pended, InStep, Forgotten, Telling, Measuring, [Next]_vars PROVE Telling'
  OBVIOUS
<1> USE DEF disk, cache, maps
<1>1. CASE sizes' = NoSizes
  BY <1>1 DEF Telling, Measured, Recorded, Blank, Unsized
<1>2. CASE pending' = "set" /\ pc' # "commit_done"
  BY <1>2 DEF Telling
<1>3. CASE /\ UNCHANGED <<index, sizes>>
           /\ (pending' # "set" \/ pc' = "commit_done") => (pending # "set" \/ pc = "commit_done")
  BY <1>3 DEF Telling, Measured, Recorded, ImportersIn
<1>4. CASE SaveSizes
  <2>1. pc = "sizes" /\ sizes' = newSizes /\ index' = index /\ rows = index /\ newSizes # NoSizes
    BY <1>4, MapCacheAssumption DEF MapCacheAssumption, SaveSizes, InStep, Closing, TypeOK
  <2>2. Measured(newSizes, rows, File, File)
    BY <2>1 DEF Measuring, DueSrc, DueDst, Measured
  <2>3. Recorded' = newSizes
    BY <2>1 DEF Recorded
  <2> QED
    BY <2>1, <2>2, <2>3 DEF Telling, Measured, ImportersIn
<1>5. CASE \/ SomeUpdate \/ (\E f \in File : BeginDelete(f)) \/ (\E f \in File : Edit(f)) \/ Writeback
           \/ Crash \/ PowerLoss
  BY <1>3, <1>5 DEF SomeUpdate, BeginUpdate, BeginDelete, Edit, Writeback, Crash, JobEnds, PowerLoss
<1>6. CASE \/ RebuildStart \/ RebuildFails \/ RebuildClear \/ (\E d \in File : RebuildRecord(d))
           \/ RebuildIndex \/ RebuildUnpend \/ RebuildMark
  BY <1>1, <1>6 DEF RebuildStart, RebuildFails, RebuildClear, RebuildRecord, RebuildIndex,
     RebuildUnpend, RebuildMark, Forgotten
<1>7. CASE \/ Load \/ Scan \/ Parse \/ Delete \/ CommitNothing \/ KeepMaps \/ DrawLibrary \/ DrawRoot
           \/ DrawFolders \/ UNCHANGED vars
  BY <1>3, <1>7 DEF Load, Scan, Parse, Delete, CommitNothing, Committed, KeepMaps, DrawLibrary,
     DrawRoot, DrawFolders, Undisturbed, JobEnds, vars
<1>8. CASE \/ CommitBegin \/ (\E f \in File : UnlinkRecord(f)) \/ StartForward
           \/ (\E f \in File : WriteForward(f)) \/ StartReverse
           \/ (\E d \in File : WriteReverse(d)) \/ SaveIndex
  BY <1>2, <1>8 DEF CommitBegin, UnlinkRecord, StartForward, WriteForward, StartReverse,
     WriteReverse, SaveIndex, Pended
<1>9. CASE CommitUnpend \/ CommitMark
  BY <1>3, <1>9 DEF CommitUnpend, CommitMark, Committed, JobEnds, Pended
<1> QED
  BY <1>4, <1>5, <1>6, <1>7, <1>8, <1>9 DEF Next, JobStep

\* Load marks what does not pass, and until Parse the session and the records stay.
LEMMA VouchedStep == TypeOK /\ Telling /\ Vouched /\ [Next]_vars => Vouched'
<1> SUFFICES ASSUME TypeOK, Telling, Vouched, [Next]_vars PROVE Vouched'
  OBVIOUS
<1>1. CASE Load
  <2>1. /\ pending # "set" /\ UNCHANGED <<bySrc, byDst>>
        /\ rows' = index /\ rev' = ImportersIn(index)
        /\ reparse' = Indexed \ SrcOk /\ dirtyDst' = Imported \ DstOk
        /\ newSizes' = [src |-> [f \in File |-> IF f \in SrcOk THEN SizeOrNone(bySrc[f]) ELSE NoSize],
                        dst |-> [d \in File |-> IF d \in DstOk THEN SizeOrNone(byDst[d]) ELSE NoSize]]
    BY <1>1 DEF Load, disk, cache
  <2>2. /\ \A f \in SrcOk : index[f] # NoRow /\ Long(bySrc[f], index[f].dsts)
        /\ \A d \in DstOk : ImportersIn(index)[d] # {} /\ Long(byDst[d], ImportersIn(index)[d])
    BY <2>1, Trusting DEF Telling
  <2>3. \A f \in File : (rows'[f] # NoRow /\ f \notin reparse') => Long(bySrc'[f], rows'[f].dsts)
    BY <2>1, <2>2 DEF Indexed
  <2>4. \A d \in File : (rev'[d] # {} /\ d \notin dirtyDst') => Long(byDst'[d], rev'[d])
    BY <2>1, <2>2 DEF Imported
  <2>5. \A f \in File : newSizes'.src[f] \in {NoSize, SizeOf[index[f].dsts]} \/ index[f] = NoRow
    BY <2>1, <2>2 DEF SizeOrNone, Long
  <2>6. \A d \in File : newSizes'.dst[d] \in {NoSize, SizeOf[ImportersIn(index)[d]]}
    BY <2>1, <2>2 DEF SizeOrNone, Long
  <2>7. Measured(newSizes', rows', File, File)
    BY <2>1, <2>5, <2>6 DEF Measured
  <2>8. Measured(newSizes, rows, File, File)'
    BY <2>7 DEF Measured, ImportersIn
  <2> QED
    BY <2>3, <2>4, <2>8 DEF Vouched, Long
<1>2. CASE pc \in {"scan", "parse", "delete"} /\ UNCHANGED <<rows, reparse, rev, dirtyDst, newSizes, bySrc, byDst>>
  BY <1>2 DEF Vouched, Measured, ImportersIn
<1>3. CASE pc' \notin {"scan", "parse", "delete"}
  BY <1>3 DEF Vouched
<1> QED
  BY <1>1, <1>2, <1>3
  DEF Next, vars, disk, cache, session, SomeUpdate, JobStep, BeginUpdate, BeginDelete, Edit,
      Writeback, JobEnds, Crash, PowerLoss, RebuildStart, RebuildFails, RebuildClear, RebuildRecord,
      RebuildIndex, RebuildUnpend, RebuildMark, Scan, Parse, Delete, Committed, CommitNothing, CommitBegin,
      UnlinkRecord, StartForward, WriteForward, StartReverse, WriteReverse, SaveIndex, SaveSizes,
      CommitUnpend, CommitMark, KeepMaps, DrawLibrary, DrawRoot, DrawFolders

\* What a session changes in memory is what its commit has to write, with the lengths of what it leaves.
LEMMA Staging ==
    ASSUME NEW gone, NEW table, NEW importers, NEW lines, NEW touched,
           Removal(gone, table, importers, lines, touched),
           \A s \in File : lines[s] = Missing => table[s] = rows[s],
           \A d \in File \ touched : importers[d] = ImportersIn(rows)[d],
           Measured(newSizes, rows, File, File), pc' = "commit", newSizes' = newSizes
    PROVE  /\ Plan'
           /\ \A s \in File \ OpenSrc' : lines[s] = Missing /\ rows'[s] = rows[s] /\ s \notin gone
           /\ \A d \in File \ OpenDst' : d \notin touched /\ ImportersIn(rows')[d] = ImportersIn(rows)[d]
           /\ Measured(newSizes, rows, File \ DueSrc, File \ DueDst)'
<1>1. /\ rev' = ImportersIn(rows')
      /\ \A s \in Staged' : s \notin gone /\ dirtySrc'[s] = RecordOf(rows', s)
      /\ \A s \in File \ (gone \cup Staged') : lines[s] = Missing /\ rows'[s] = table[s]
      /\ \A s \in gone : rows'[s] = NoRow
      /\ removed' = gone
      /\ \A d \in File \ dirtyDst' : d \notin touched /\ ImportersIn(rows')[d] = importers[d]
  BY Removed
<1>2. Plan'
  BY <1>1 DEF Plan, RecordOf
<1>3. OpenSrc' = gone \cup Staged' /\ OpenDst' = dirtyDst' /\ DueSrc' = Staged' /\ DueDst' = dirtyDst'
  BY <1>1 DEF OpenSrc, OpenDst, DueSrc, DueDst
<1>4. \A s \in File \ OpenSrc' : lines[s] = Missing /\ rows'[s] = rows[s] /\ s \notin gone
  BY <1>1, <1>3
<1>5. \A d \in File \ OpenDst' : d \notin touched /\ ImportersIn(rows')[d] = ImportersIn(rows)[d]
  BY <1>1, <1>3
<1>6. \A s \in File \ Staged' : rows'[s] # NoRow => newSizes'.src[s] \in {NoSize, SizeOf[rows'[s].dsts]}
  BY <1>1, <1>3, <1>4 DEF Measured
<1>7. \A d \in File \ dirtyDst' : ImportersIn(rows')[d] # {} => newSizes'.dst[d] \in {NoSize, SizeOf[ImportersIn(rows')[d]]}
  BY <1>3, <1>5 DEF Measured
<1>8. Measured(newSizes, rows, File \ DueSrc, File \ DueDst)'
  BY <1>3, <1>6, <1>7 DEF Measured
<1> QED
  BY <1>2, <1>4, <1>5, <1>8

\* What Parse leaves for the commit: in a whole run, a row it does not stage has the record it had
\* before, which was looked at or has the recorded length.
LEMMA Parsing ==
    ASSUME TypeOK, Opened, Vouched, Reparsed, Parse, ~restaged'
    PROVE  /\ Plan'
           /\ settled' => Mirrored(rows, File \ OpenSrc, File \ OpenDst)'
           /\ Measured(newSizes, rows, File \ DueSrc, File \ DueDst)'
<1>1. /\ RemoveAll(Stale, Upserted, UpsertedRev, UpsertedLines, dirtyDst \cup Turned)
      /\ pc = "parse" /\ pc' = "commit" /\ UNCHANGED <<bySrc, byDst, newSizes, settled>>
  BY ParseRemoves DEF Parse, disk, cache
<1>2. rev = ImportersIn(rows)
  BY <1>1 DEF Opened
<1>3. Removal(Stale, Upserted, UpsertedRev, UpsertedLines, dirtyDst \cup Turned)
  BY <1>1, <1>2, Upserting, ParsedType DEF Removal, TypeOK
<1>4. \A s \in File : UpsertedLines[s] = Missing => Upserted[s] = rows[s]
  BY <1>2, Upserting
<1>a. \A s \in File : UpsertedLines[s] = Missing => s \notin DOMAIN hashed
  BY <1>2, Upserting
<1>b. \A d \in File \ (dirtyDst \cup Turned) : UpsertedRev[d] = ImportersIn(rows)[d]
  BY <1>2, Upserting
<1>5. Measured(newSizes, rows, File, File)
  BY <1>1 DEF Vouched
<1>6. /\ Plan'
      /\ \A s \in File \ OpenSrc' : UpsertedLines[s] = Missing /\ rows'[s] = rows[s] /\ s \notin Stale
      /\ \A d \in File \ OpenDst' :
            d \notin dirtyDst \cup Turned /\ ImportersIn(rows')[d] = ImportersIn(rows)[d]
      /\ Measured(newSizes, rows, File \ DueSrc, File \ DueDst)'
  <2>1. pc' = "commit" /\ newSizes' = newSizes
    BY <1>1
  <2> QED
    BY ONLY <1>3, <1>4, <1>5, <1>b, <2>1, Staging, SMTT(30)
<1>7. ASSUME settled', NEW s \in File \ OpenSrc', rows'[s] # NoRow PROVE Long(bySrc'[s], rows'[s].dsts)
  <2>1. Upserted[s] = rows[s] /\ s \notin DOMAIN hashed /\ rows'[s] = rows[s] /\ s \notin Stale
    BY <1>4, <1>6, <1>a
  <2>2. s \in files
    BY <1>7, <2>1 DEF Stale
  <2>3. s \notin reparse
    BY <1>1, <1>7, <2>1, <2>2 DEF Reparsed
  <2> QED
    BY <1>1, <1>7, <2>1, <2>3 DEF Vouched
<1>8. ASSUME NEW d \in File \ OpenDst', ImportersIn(rows')[d] # {} PROVE Long(byDst'[d], ImportersIn(rows')[d])
  BY <1>1, <1>2, <1>6, <1>8 DEF Vouched
<1>9. settled' => Mirrored(rows, File \ OpenSrc, File \ OpenDst)'
  BY <1>7, <1>8 DEF Mirrored, Long
<1> QED
  BY <1>6, <1>9

\* What a deletion leaves for the commit.
LEMMA Deleting ==
    ASSUME TypeOK, Opened, Vouched, Delete, ~restaged'
    PROVE  Plan' /\ Measured(newSizes, rows, File \ DueSrc, File \ DueDst)'
<1>1. /\ RemoveAll(files, rows, rev, dirtySrc, dirtyDst)
      /\ pc = "delete" /\ pc' = "commit" /\ newSizes' = newSizes
  BY DEF Delete
<1>2. rev = ImportersIn(rows) /\ \A s \in File : dirtySrc[s] = Missing
  BY <1>1 DEF Opened, Writing, Closing, None
<1>3. Removal(files, rows, rev, dirtySrc, dirtyDst)
  BY <1>1, <1>2 DEF Removal, TypeOK, Tables
<1>4. Measured(newSizes, rows, File, File)
  BY <1>1 DEF Vouched
<1> QED
  BY <1>1, <1>2, <1>3, <1>4, Staging

\* A commit gets the records of all rows right, whatever they were, if its plan was right.
LEMMA IntendedStep ==
    TypeOK /\ Pended /\ Opened /\ Undeleting /\ Vouched /\ Reparsed /\ Intended /\ [Next]_vars /\ ~restaged'
       => Intended'
<1> SUFFICES ASSUME TypeOK, Pended, Opened, Undeleting, Vouched, Reparsed, Intended, [Next]_vars, ~restaged',
                    pc' \in Writing
             PROVE  Plan' /\ (settled' => Mirrored(rows, File \ OpenSrc, File \ OpenDst)')
  BY DEF Intended
<1>1. CASE Parse
  BY <1>1, Parsing
<1>2. CASE Delete
  <2>1. ~settled'
    BY <1>2 DEF Delete, Undeleting
  <2> QED
    BY <1>2, <2>1, Deleting
<1>3. CASE \/ CommitBegin \/ (\E f \in File : UnlinkRecord(f)) \/ StartForward
           \/ (\E f \in File : WriteForward(f)) \/ StartReverse
           \/ (\E d \in File : WriteReverse(d))
  <2>1. Writes
    BY <1>3, Writers DEF Intended
  <2>2. Plan /\ (settled => Mirrored(rows, File \ OpenSrc, File \ OpenDst))
    BY <2>1 DEF Intended, Writes
  <2>3. rows' = rows /\ Staged' = Staged /\ removed' = removed
    BY <2>1 DEF Writes, Staged
  <2>4. \A f \in File : RecordOf(rows, f)' = RecordOf(rows, f)
    BY <2>3 DEF RecordOf
  <2>5. ImportersIn(rows)' = ImportersIn(rows)
    BY <2>3 DEF ImportersIn
  <2>6. Plan'
    <3>1. /\ pc' = "unlink" => todo' \subseteq removed'
          /\ pc' = "forward" => todo' \subseteq Staged'
      BY <2>1, <2>3 DEF Writes
    <3>2. rev' = ImportersIn(rows)'
      BY <2>1, <2>2, <2>5 DEF Writes, Plan
    <3>3. \A f \in Staged' : dirtySrc'[f] = RecordOf(rows, f)'
      BY <2>1, <2>2, <2>3, <2>4 DEF Writes, Plan, Staged
    <3>4. \A f \in removed' : rows'[f] = NoRow
      BY <2>2, <2>3 DEF Plan
    <3> QED
      BY <3>1, <3>2, <3>3, <3>4 DEF Plan
  <2>7. ASSUME settled', NEW f \in File \ OpenSrc', rows[f] # NoRow PROVE Long(bySrc'[f], rows[f].dsts)
    <3>1. rows[f].dsts # Missing
      BY <2>7, MapCacheAssumption DEF MapCacheAssumption, TypeOK, Row
    <3>2. settled
      BY <2>1, <2>7, UnsettledStays DEF Writes, Writing
    <3> QED
      BY <2>1, <2>2, <2>7, <3>1, <3>2 DEF Writes, Mirrored, RecordOf, Long
  <2>8. ASSUME settled', NEW d \in File \ OpenDst', ImportersIn(rows)[d] # {}
        PROVE  Long(byDst'[d], ImportersIn(rows)[d])
    <3>1. ImportersIn(rows)[d] # Missing
      <4>1. ImportersIn(rows)[d] \in SUBSET File
        BY DEF ImportersIn
      <4> QED
        BY <4>1, MapCacheAssumption DEF MapCacheAssumption
    <3>2. settled
      BY <2>1, <2>8, UnsettledStays DEF Writes, Writing
    <3> QED
      BY <2>1, <2>2, <2>8, <3>1, <3>2 DEF Writes, Mirrored, ReverseOf, Long
  <2> QED
    BY <2>3, <2>5, <2>6, <2>7, <2>8 DEF Mirrored, Long
<1>4. CASE UNCHANGED <<bySrc, byDst, pc, session>>
  <2>1. settled' => settled
    BY <1>4, UnsettledStays DEF Writing
  <2>2. Plan'
    BY <1>4 DEF session, Intended, Plan, Staged, RecordOf, ImportersIn
  <2>3. Mirrored(rows, File \ OpenSrc, File \ OpenDst)' <=> Mirrored(rows, File \ OpenSrc, File \ OpenDst)
    <3>1. OpenSrc' = OpenSrc /\ OpenDst' = OpenDst
      BY <1>4 DEF session, OpenSrc, OpenDst, Staged
    <3>2. ImportersIn(rows)' = ImportersIn(rows)
      BY <1>4 DEF session, ImportersIn
    <3> QED
      BY <1>4, <3>1, <3>2 DEF session, Mirrored, Long
  <2> QED
    BY <1>4, <2>1, <2>2, <2>3 DEF Intended
<1> QED
  BY <1>1, <1>2, <1>3, <1>4
  DEF Next, vars, disk, cache, Writing, SomeUpdate, JobStep, BeginUpdate, BeginDelete, Edit,
      Writeback, JobEnds, Crash, PowerLoss, RebuildStart, RebuildFails, RebuildClear, RebuildRecord,
      RebuildIndex, RebuildUnpend, RebuildMark, Load, Scan, Committed, CommitNothing, SaveIndex, SaveSizes,
      CommitUnpend, CommitMark, KeepMaps, DrawLibrary, DrawRoot, DrawFolders

\* The lengths of the session keep to the rows: each batch of records brings its own.
LEMMA MeasuringStep ==
    TypeOK /\ Opened /\ Vouched /\ Reparsed /\ Intended /\ Measuring /\ [Next]_vars /\ ~restaged'
       => Measuring'
<1> SUFFICES ASSUME TypeOK, Opened, Vouched, Reparsed, Intended, Measuring, [Next]_vars, ~restaged',
                    pc' \in Writing \cup {"sizes"}
             PROVE  Measured(newSizes, rows, File \ DueSrc, File \ DueDst)'
  BY DEF Measuring
<1>a. newSizes \in Sizes
  BY DEF TypeOK
<1>1. CASE Parse
  BY <1>1, Parsing
<1>2. CASE Delete
  BY <1>2, Deleting
<1>3. CASE CommitBegin
  <2>1. /\ pc = "commit" /\ pc' = "unlink" /\ UNCHANGED <<rows, dirtySrc, dirtyDst>>
        /\ \A f \in File : newSizes'.src[f] \in {NoSize, newSizes.src[f]}
        /\ newSizes'.dst = newSizes.dst
    BY <1>a, <1>3 DEF CommitBegin, Unchanging, Sizes
  <2>2. Measured(newSizes, rows, File \ DueSrc, File \ DueDst)
    BY <2>1 DEF Measuring, Writing
  <2> QED
    BY <2>1, <2>2 DEF Measured, DueSrc, DueDst, Staged, ImportersIn
<1>4. CASE StartForward
  <2>1. /\ pc = "unlink" /\ pc' = "forward" /\ UNCHANGED <<rows, dirtySrc, dirtyDst>>
        /\ \A f \in File : newSizes'.src[f] = IF f \in Staged THEN SizeOf[dirtySrc[f]] ELSE newSizes.src[f]
        /\ newSizes'.dst = newSizes.dst
    BY <1>a, <1>4 DEF StartForward, Unchanging, Staged, Sizes
  <2>2. Measured(newSizes, rows, File \ Staged, File \ dirtyDst)
    BY <2>1 DEF Measuring, Writing, DueSrc, DueDst
  <2>3. \A f \in Staged : rows[f] # NoRow => dirtySrc[f] = rows[f].dsts
    BY <2>1 DEF Intended, Plan, Writing, RecordOf
  <2>4. \A f \in File : rows'[f] # NoRow => newSizes'.src[f] \in {NoSize, SizeOf[rows'[f].dsts]}
    BY <2>1, <2>2, <2>3 DEF Measured
  <2>5. \A d \in File \ dirtyDst : ImportersIn(rows)[d] # {} => newSizes'.dst[d] \in {NoSize, SizeOf[ImportersIn(rows)[d]]}
    BY <2>1, <2>2 DEF Measured
  <2>6. ImportersIn(rows)' = ImportersIn(rows)
    BY <2>1 DEF ImportersIn
  <2> QED
    BY <2>1, <2>4, <2>5, <2>6 DEF Measured, DueSrc, DueDst
<1>5. CASE StartReverse
  <2>1. /\ pc = "forward" /\ pc' = "reverse" /\ UNCHANGED <<rows, rev>>
        /\ \A d \in File : newSizes'.dst[d] = IF d \notin dirtyDst THEN newSizes.dst[d]
                                              ELSE IF rev[d] = {} THEN NoSize
                                              ELSE SizeOf[rev[d]]
        /\ newSizes'.src = newSizes.src
    BY <1>a, <1>5 DEF StartReverse, Unchanging, Sizes
  <2>2. Measured(newSizes, rows, File, File \ dirtyDst)
    BY <2>1 DEF Measuring, Writing, DueSrc, DueDst, Measured
  <2>3. rev = ImportersIn(rows)
    BY <2>1 DEF Intended, Plan, Writing
  <2>4. ImportersIn(rows)' = ImportersIn(rows)
    BY <2>1 DEF ImportersIn
  <2>5. \A d \in File : ImportersIn(rows)[d] # {} => newSizes'.dst[d] \in {NoSize, SizeOf[ImportersIn(rows)[d]]}
    BY <2>1, <2>2, <2>3 DEF Measured
  <2> QED
    BY <2>1, <2>2, <2>4, <2>5 DEF Measured, DueSrc, DueDst
<1>6. CASE SaveIndex
  <2>1. pc = "reverse" /\ pc' = "sizes" /\ UNCHANGED <<rows, newSizes>>
    BY <1>6 DEF SaveIndex, Unchanging
  <2> QED
    BY <2>1 DEF Measuring, Writing, Measured, DueSrc, DueDst, ImportersIn
<1>7. CASE pc' = pc /\ UNCHANGED <<rows, dirtySrc, dirtyDst, newSizes>>
  BY <1>7 DEF Measuring, Measured, DueSrc, DueDst, Staged, ImportersIn
<1> QED
  BY <1>1, <1>2, <1>3, <1>4, <1>5, <1>6, <1>7
  DEF Next, vars, disk, session, Writing, SomeUpdate, JobStep, BeginUpdate, BeginDelete, Edit,
      Writeback, JobEnds, Crash, PowerLoss, RebuildStart, RebuildFails, RebuildClear, RebuildRecord,
      RebuildIndex, RebuildUnpend, RebuildMark, Load, Scan, Committed, CommitNothing, UnlinkRecord,
      WriteForward, WriteReverse, Unchanging, SaveSizes, CommitUnpend, CommitMark, KeepMaps, DrawLibrary,
      DrawRoot, DrawFolders

\* The records are right from the last write of a commit to the end of the run, and until something
\* moves.
LEMMA MendedStep ==
    TypeOK /\ InStep /\ Nothing /\ Intended /\ Mended /\ [Next]_vars => Mended'
<1> SUFFICES ASSUME TypeOK, InStep, Nothing, Intended, Mended, [Next]_vars, settled', pc' # "open" PROVE Mended'
  BY DEF Mended, Closing
<1>b. settled
  BY UnsettledStays
<1> USE DEF disk, cache
<1>a. ASSUME UNCHANGED <<index, bySrc, byDst>>
      PROVE  Mirrored(index, File, File)' <=> Mirrored(index, File, File)
  BY <1>a DEF Mirrored, Long, ImportersIn
<1>c. ASSUME UNCHANGED <<rows, bySrc, byDst>>
      PROVE  Mirrored(rows, File, File)' <=> Mirrored(rows, File, File)
  BY <1>c DEF Mirrored, Long, ImportersIn
<1>1. CASE SaveIndex
  <2>1. pc = "reverse" /\ todo = {} /\ pc' = "sizes" /\ UNCHANGED <<bySrc, byDst, rows>>
    BY <1>1 DEF SaveIndex, Unchanging
  <2>2. Mirrored(rows, File, File)
    BY <1>b, <2>1 DEF Intended, Writing, OpenSrc, OpenDst, Mirrored
  <2> QED
    BY <1>c, <2>1, <2>2 DEF Mended
<1>2. CASE SaveSizes \/ CommitUnpend
  <2>1. pc \in Closing /\ pc' \in {"commit_done", "commit_mark"} /\ UNCHANGED <<bySrc, byDst, rows>>
    BY <1>2 DEF SaveSizes, CommitUnpend, Unchanging, Closing
  <2> QED
    BY <1>b, <1>c, <2>1 DEF Mended
<1>3. CASE CommitMark
  <2>1. Mirrored(index, File, File) /\ pc' \in {"maps", "idle"} /\ UNCHANGED <<index, bySrc, byDst>>
    BY <1>b, <1>3 DEF CommitMark, Committed, JobEnds, Mended, InStep, Closing
  <2> QED
    BY <1>a, <2>1 DEF Mended, Closing
<1>4. CASE CommitNothing
  <2>1. pc = "commit" /\ ~rewrite /\ pc' \in {"maps", "idle"} /\ UNCHANGED <<index, bySrc, byDst>>
    BY <1>4 DEF CommitNothing, Committed, JobEnds
  <2>2. rows = index /\ OpenSrc = {} /\ OpenDst = {}
    BY <2>1 DEF Nothing, OpenSrc, OpenDst
  <2>3. Mirrored(index, File, File)
    BY <1>b, <2>1, <2>2 DEF Intended, Writing, Mirrored
  <2> QED
    BY <1>a, <2>1, <2>3 DEF Mended, Closing
<1>5. CASE KeepMaps \/ DrawLibrary \/ DrawRoot \/ DrawFolders
  <2>1. /\ pc \in {"maps", "cards", "folders"} /\ pc' \in {"cards", "folders", "idle"}
        /\ UNCHANGED <<index, bySrc, byDst>>
    BY <1>5 DEF KeepMaps, DrawLibrary, DrawRoot, DrawFolders, Undisturbed, JobEnds
  <2> QED
    BY <1>a, <1>b, <2>1 DEF Mended, Closing
<1>6. CASE (\E f \in File : Edit(f)) \/ Writeback \/ UNCHANGED vars
  <2>1. UNCHANGED <<index, bySrc, byDst, rows, pc>>
    BY <1>6 DEF Edit, Writeback, vars, session
  <2> QED
    BY <1>a, <1>b, <1>c, <2>1 DEF Mended
<1>7. CASE pc' \notin Closing \cup {"maps", "cards", "folders", "idle"}
  BY <1>7 DEF Mended
<1> QED
  BY <1>1, <1>2, <1>3, <1>4, <1>5, <1>6, <1>7
  DEF Next, Closing, SomeUpdate, JobStep, BeginUpdate, BeginDelete, JobEnds, Crash, PowerLoss, RebuildStart,
      RebuildFails, RebuildClear, RebuildRecord, RebuildIndex, RebuildUnpend, RebuildMark, Load, Scan, Parse,
      Delete, CommitBegin, UnlinkRecord, StartForward, WriteForward, StartReverse, WriteReverse

-----------------------------------------------------------------------------
\* The theorems

\* What is carried from step to step.
LEMMA PowerInvariance == Spec => []PInv
<1>1. Init => PInv
  <2> SUFFICES ASSUME Init PROVE PInv
    OBVIOUS
  <2>1. CInv
    BY Starting
  <2>2. /\ pc = "idle" /\ pending = "clear" /\ sizes = NoSizes /\ ~settled
    BY DEF Init
  <2>3. Telling
    BY <2>2 DEF Telling, Measured, Recorded, Blank, Unsized
  <2> QED
    BY <2>1, <2>2, <2>3 DEF PInv, Forgotten, Reparsed, Nothing, Finished, Undeleting,
       Vouched, Intended, Measuring, Mended, Writing, Closing
<1>2. PInv /\ [Next]_vars => PInv'
  <2> SUFFICES ASSUME PInv, [Next]_vars PROVE PInv'
    OBVIOUS
  <2>1. CInv /\ Forgotten /\ Reparsed /\ Nothing /\ Finished /\ Undeleting
    BY DEF PInv
  <2>2. TypeOK /\ Pended /\ Opened /\ InStep
    BY <2>1 DEF CInv, Typed
  <2>3. CInv' /\ Forgotten' /\ Reparsed' /\ Nothing' /\ Finished' /\ Undeleting'
    BY <2>1, <2>2, Inductive, ForgottenStep, ReparsedStep, NothingStep, FinishedStep, UndeletingStep
  <2>4. ASSUME ~restaged'
        PROVE  Telling' /\ Vouched' /\ Intended' /\ Measuring' /\ Mended'
    <3>1. Telling /\ Vouched /\ Intended /\ Measuring /\ Mended
      BY <2>4, RestagedStays DEF PInv
    <3> QED
      BY <2>1, <2>2, <2>4, <3>1, TellingStep, VouchedStep, IntendedStep, MeasuringStep, MendedStep
  <2> QED
    BY <2>3, <2>4 DEF PInv
<1> QED
  BY <1>1, <1>2, PTL DEF Spec

\* While no power was lost the records say what the index says, not only as far as lengths tell.
LEMMA Exact ==
    ASSUME CInv, Finished, losses = 0
    PROVE  /\ pc \in {"scan", "delete"} =>
                 /\ \A f \in File : rows[f] # NoRow => bySrc[f] = rows[f].dsts
                 /\ \A d \in File : rev[d] # {} => byDst[d] = rev[d]
           /\ (pc = "idle" /\ settled) => Agrees
<1>1. Pended /\ Opened /\ Agreed
  BY DEF CInv, Lossless
<1> QED
  BY <1>1 DEF Pended, Opened, Agreed, Agrees, Finished

\* TrustIsEarned: what a session takes from the cache without looking inside has the length of what
\* it stands for, whatever power losses and deaths left of the records, with deletions and caps, until
\* a job stages lines from a record that is wrong.
THEOREM TrustHolds == Spec => []TrustIsEarned
<1>1. PInv => TrustIsEarned
  <2> SUFFICES ASSUME PInv, pc \in {"scan", "delete"}, ~restaged
               PROVE  /\ \A f \in File : (rows[f] # NoRow /\ f \notin reparse) => Alike(bySrc[f], rows[f].dsts)
                      /\ \A d \in File : (rev[d] # {} /\ d \notin dirtyDst) => Alike(byDst[d], rev[d])
    BY DEF TrustIsEarned
  <2>1. CInv /\ Finished /\ Vouched
    BY DEF PInv
  <2>2. losses = 0 => /\ \A f \in File : rows[f] # NoRow => bySrc[f] = rows[f].dsts
                      /\ \A d \in File : rev[d] # {} => byDst[d] = rev[d]
    BY <2>1, Exact
  <2> QED
    BY <2>1, <2>2 DEF Vouched, Alike, Long
<1> QED
  BY <1>1, PowerInvariance, PTL

\* HealedWhenSettled: on the same terms, after a run over the whole tree that nothing disturbed no
\* record that is looked at is missing, cut short or of a wrong length.
THEOREM RunsHeal == Spec => []HealedWhenSettled
<1>1. PInv => HealedWhenSettled
  <2> SUFFICES ASSUME PInv, pc = "idle", settled, ~restaged, NEW f \in File
               PROVE  /\ index[f] # NoRow => Alike(bySrc[f], index[f].dsts)
                      /\ ImportersIn(index)[f] # {} => Alike(byDst[f], ImportersIn(index)[f])
    BY DEF HealedWhenSettled
  <2>1. CInv /\ Finished /\ Mended
    BY DEF PInv
  <2>2. losses = 0 => Agrees
    BY <2>1, Exact
  <2> QED
    BY <2>1, <2>2 DEF Mended, Mirrored, Agrees, Alike, Long
<1> QED
  BY <1>1, PowerInvariance, PTL

\* While no power was lost no job stages lines from a wrong record, so that neither property exempts
\* anything: no death of a process, no cap and no deletion makes a session trust a record that is
\* not what its row says, or a whole run leave one behind.
THEOREM TrustWithoutLoss == Spec => [](losses = 0 => ~restaged /\ TrustIsEarned /\ HealedWhenSettled)
<1>1. Init => LossFirst
  BY DEF Init, LossFirst
<1>2. CInv /\ CInv' /\ LossFirst /\ [Next]_vars => LossFirst'
  <2> SUFFICES ASSUME CInv, CInv', LossFirst, [Next]_vars, losses' = 0 PROVE ~restaged'
    BY DEF LossFirst
  <2>1. losses \in Nat /\ losses' \in {losses, losses + 1}
    <3>1. losses \in Nat
      BY MapCacheAssumption DEF MapCacheAssumption, CInv, Typed, TypeOK
    <3>2. losses' \in {losses, losses + 1}
      BY DEF Next, vars, counts, past, SomeUpdate, JobStep, BeginUpdate, BeginDelete, Edit, Writeback, Crash,
         PowerLoss, RebuildStart, RebuildFails, RebuildClear, RebuildRecord, RebuildIndex,
         RebuildUnpend, RebuildMark, Load, Scan, Parse, Delete, CommitNothing, Unchanging,
         CommitBegin, UnlinkRecord, StartForward, WriteForward, StartReverse, WriteReverse,
         SaveIndex, SaveSizes, CommitUnpend, CommitMark, Undisturbed, KeepMaps, DrawLibrary,
         DrawRoot, DrawFolders
    <3> QED
      BY <3>1, <3>2
  <2>2. ~restaged
    BY <2>1 DEF LossFirst
  <2>3. CASE Parse \/ Delete
    <3>1. /\ pc' = "commit"
          /\ restaged' = \/ restaged
                          \/ \E s \in File : dirtySrc'[s] # Missing /\ dirtySrc'[s] # rows'[s].dsts
      BY <2>3 DEF Parse, Delete, RemoveAll
    <3>2. \A s \in Staged' : dirtySrc'[s] = RecordOf(rows', s)
      BY <3>1 DEF CInv, Lossless, Planned, Plan, Writing, RecordOf
    <3>3. \A s \in File : dirtySrc'[s] # Missing => dirtySrc'[s] = rows'[s].dsts
      BY <3>2 DEF Staged, RecordOf
    <3> QED
      BY <2>2, <3>1, <3>3
  <2>4. CASE restaged' = restaged
    BY <2>2, <2>4
  <2> QED
    BY <2>3, <2>4
    DEF Next, vars, past, SomeUpdate, JobStep, BeginUpdate, BeginDelete, Edit, Writeback, Crash, PowerLoss,
        RebuildStart, RebuildFails, RebuildClear, RebuildRecord, RebuildIndex, RebuildUnpend, RebuildMark,
        Load, Scan, CommitNothing, Unchanging, CommitBegin, UnlinkRecord,
        StartForward, WriteForward, StartReverse, WriteReverse, SaveIndex, SaveSizes, CommitUnpend,
        CommitMark, Undisturbed, KeepMaps, DrawLibrary, DrawRoot, DrawFolders
<1>3. Spec => []LossFirst
  BY <1>1, <1>2, Invariance, PTL DEF Spec
<1> QED
  BY <1>3, TrustHolds, RunsHeal, PTL DEF LossFirst
=============================================================================
