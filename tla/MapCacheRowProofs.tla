------------------------- MODULE MapCacheRowProofs -------------------------
(***************************************************************************)
(* What a run of update_maps over the whole tree leaves in index.tsv, for  *)
(* any files, histories, scopes and caps and any number of deletions and   *)
(* deaths: CurrentWhenSettled.                                             *)
(*                                                                         *)
(* That each file there is has a row, with its hash, and no other path has *)
(* one (Settling), takes nothing for granted.  That the targets of the row *)
(* are those of the content does: a row pairs the hash of one read with    *)
(* the targets of a later one, or of a later job that died.  Faithful      *)
(* keeps the order of the two.  Such a row is not looked at again if the   *)
(* content it has the hash of comes back, so a content that comes back     *)
(* must import what the ones in between did (NoImportIsDropped), and no    *)
(* power must be lost, which can bring back a record older than the hash   *)
(* in the index.                                                           *)
(***************************************************************************)
EXTENDS MapCacheProofs

\* What a read of f gives at a place of its history.
Read(f, i) == IF History[f][i] = Gone THEN Empty ELSE History[f][i]

\* A content that comes back imports all that the contents in between did.
NoImportIsDropped ==
    \A f \in File : \A i, k, j \in 1 .. Len(History[f]) :
        (i =< k /\ k =< j /\ Read(f, i) = Read(f, j)) => ImportsOf[Read(f, k)] \subseteq ImportsOf[Read(f, j)]

\* A hash and targets that were read in this order, up to place n of the history.
Honest(f, n, hash, dsts) ==
    hash # NoHash =>
        \E i, k \in 1 .. n : i =< k /\ hash = Read(f, i) /\ dsts \subseteq ImportsOf[Read(f, k)]

\* So is every row, on disk and in memory, and what a rebuild would make of the two.
Faithful ==
    losses = 0 =>
        \A f \in File :
            /\ index[f] # NoRow => /\ Honest(f, at[f], index[f].hash, index[f].dsts)
                                   /\ Honest(f, at[f], index[f].hash, Lines(bySrc[f]))
            /\ rows[f] # NoRow => /\ Honest(f, at[f], rows[f].hash, rows[f].dsts)
                                  /\ index[f] # NoRow => Honest(f, at[f], index[f].hash, rows[f].dsts)
            /\ f \in DOMAIN hashed => \E i \in 1 .. at[f] : hashed[f] = Read(f, i)

\* A table has a row for exactly the files there are, with the hash of what the file holds.
Fits(table, f) == IF Now(f) = Gone THEN table[f] = NoRow ELSE table[f] # NoRow /\ table[f].hash = Now(f)

\* A run over the whole tree that nothing disturbs gets the rows right, and then the index.
Settling ==
    settled =>
        /\ pc # "idle" => job = "update" /\ pc # "delete" /\ files = {f \in File : Now(f) # Gone}
        /\ pc = "parse" => /\ \A f \in files \ DOMAIN hashed : rows[f] # NoRow /\ rows[f].hash = Now(f)
                           /\ \A f \in DOMAIN hashed : hashed[f] = Now(f)
        /\ pc \in Writing \cup Closing => \A f \in File : Fits(rows, f)
        /\ pc \in {"maps", "cards", "folders", "idle"} => \A f \in File : Fits(index, f)

\* A commit with nothing to write has the rows of the index.
Idling == pc = "commit" /\ ~rewrite => rows = index

RInv == CInv /\ Faithful /\ Idling /\ Settling

-----------------------------------------------------------------------------
\* Rows are honest

\* Time and lost targets do not make a row dishonest.
LEMMA StaysHonest ==
    ASSUME NEW f, NEW n \in Nat, NEW m \in Nat, n =< m, NEW hash, NEW dsts, NEW fewer,
           fewer \subseteq dsts, Honest(f, n, hash, dsts)
    PROVE  Honest(f, m, hash, fewer)
BY DEF Honest

\* Session::remove takes rows and targets, and leaves every hash.
LEMMA RemovedRows ==
    ASSUME NEW gone \in SUBSET File, NEW table \in Tables, NEW importers, NEW lines, NEW touched,
           RemoveAll(gone, table, importers, lines, touched), NEW f \in File
    PROVE  /\ rows'[f] = NoRow <=> f \in gone \/ table[f] = NoRow
           /\ rows'[f] # NoRow => rows'[f].hash = table[f].hash /\ rows'[f].dsts = table[f].dsts \ gone
<1>1. rows'[f] = IF f \in gone \/ table[f] = NoRow THEN NoRow ELSE [table[f] EXCEPT !.dsts = @ \ gone]
  BY DEF RemoveAll
<1>2. CASE f \in gone \/ table[f] = NoRow
  BY <1>1, <1>2
<1>3. CASE ~(f \in gone \/ table[f] = NoRow)
  <2>1. table[f] \in Row
    BY <1>3 DEF Tables
  <2>2. /\ [table[f] EXCEPT !.dsts = @ \ gone] \in Row
        /\ [table[f] EXCEPT !.dsts = @ \ gone].hash = table[f].hash
        /\ [table[f] EXCEPT !.dsts = @ \ gone].dsts = table[f].dsts \ gone
    BY <2>1 DEF Row
  <2> QED
    BY <1>1, <1>3, <2>2, MapCacheAssumption DEF MapCacheAssumption
<1> QED
  BY <1>2, <1>3

\* Where a read of f is in its history.
LEMMA ReadHere ==
    ASSUME TypeOK, NEW f \in File
    PROVE  at[f] \in Nat /\ at[f] \in 1 .. at[f] /\ at[f] \in 1 .. Len(History[f]) /\ ReadNow(f) = Read(f, at[f])
<1>1. at[f] \in Nat /\ at[f] \in 1 .. Len(History[f])
  BY DEF TypeOK
<1>2. Len(History[f]) \in Nat
  BY MapCacheAssumption, LenProperties DEF MapCacheAssumption
<1> QED
  BY <1>1, <1>2 DEF ReadNow, Read, Now

\* Each step reads in order: a file is hashed before it is parsed, and both before what they gave
\* is written over what an earlier job left.
LEMMA FaithfulStep == CInv /\ Faithful /\ [Next]_vars => Faithful'
<1> SUFFICES ASSUME CInv, Faithful, [Next]_vars, losses' = 0 PROVE Faithful'
  BY DEF Faithful
<1>0. losses = 0
  <2>1. losses' = losses \/ losses' = losses + 1
    BY DEF Next, vars, disk, counts, past, SomeUpdate, JobStep, BeginUpdate, BeginDelete, Edit,
       Writeback, Crash, PowerLoss, RebuildStart, RebuildFails, RebuildClear, RebuildRecord,
       RebuildIndex, RebuildUnpend, RebuildMark, Load, Scan, Parse, Delete, CommitNothing,
       Unchanging, CommitBegin, UnlinkRecord, StartForward, WriteForward, StartReverse,
       WriteReverse, SaveIndex, SaveSizes, CommitUnpend, CommitMark, Undisturbed, KeepMaps,
       DrawLibrary, DrawRoot, DrawFolders
  <2>2. losses \in Nat
    BY MapCacheAssumption DEF MapCacheAssumption, CInv, Typed, TypeOK
  <2> QED
    BY <2>1, <2>2
<1>a. TypeOK /\ Pended /\ Opened /\ InStep /\ Planned /\ Unwritten /\ Agreed /\ Whole
  BY <1>0 DEF CInv, Typed, Lossless
<1>b. index \in Tables /\ rows \in Tables /\ bySrc \in [File -> Record] /\ at \in [File -> Nat]
  BY <1>a DEF TypeOK, Tables
<1> USE DEF tree, disk, cache, maps, session, request
<1> DEFINE
      ByIndex(f) == index[f] # NoRow => /\ Honest(f, at[f], index[f].hash, index[f].dsts)
                                        /\ Honest(f, at[f], index[f].hash, Lines(bySrc[f]))
      ByRows(f) == rows[f] # NoRow => /\ Honest(f, at[f], rows[f].hash, rows[f].dsts)
                                      /\ index[f] # NoRow => Honest(f, at[f], index[f].hash, rows[f].dsts)
      ByHash(f) == f \in DOMAIN hashed => \E i \in 1 .. at[f] : hashed[f] = Read(f, i)
<1>c. \A f \in File : ByIndex(f) /\ ByRows(f) /\ ByHash(f)
  BY <1>0 DEF Faithful
<1>d. (\A f \in File : ByIndex(f)' /\ ByRows(f)' /\ ByHash(f)') => Faithful'
  BY DEF Faithful
<1>e. \A f \in File : at[f] \in Nat /\ at[f] \in 1 .. at[f] /\ ReadNow(f) = Read(f, at[f])
  BY <1>a, ReadHere
\* A step that forgets rows and hashes, or leaves them alone.
<1>k. ASSUME \A f \in File : at'[f] \in Nat /\ at[f] =< at'[f], UNCHANGED <<index, bySrc>>,
             rows' = rows \/ (\A f \in File : rows'[f] = NoRow), hashed' = hashed \/ DOMAIN hashed' = {}
      PROVE  Faithful'
  <2> SUFFICES ASSUME NEW f \in File PROVE ByIndex(f)' /\ ByRows(f)' /\ ByHash(f)'
    BY <1>d
  <2>1. at[f] \in Nat /\ at'[f] \in Nat /\ at[f] =< at'[f]
    BY <1>k, <1>e
  <2>2. \A hash, dsts : Honest(f, at[f], hash, dsts) => Honest(f, at'[f], hash, dsts)
    BY <2>1 DEF Honest
  <2>3. ByIndex(f)'
    BY <1>c, <1>k, <2>2
  <2>4. ByRows(f)'
    BY <1>c, <1>k, <2>2
  <2>5. ByHash(f)'
    BY <1>c, <1>k, <2>1
  <2> QED
    BY <2>3, <2>4, <2>5
<1>1. CASE \/ SomeUpdate \/ (\E f \in File : BeginDelete(f)) \/ RebuildStart \/ RebuildClear
           \/ (\E d \in File : RebuildRecord(d))
           \/ RebuildUnpend \/ RebuildMark \/ CommitBegin \/ StartForward \/ StartReverse
           \/ (\E d \in File : WriteReverse(d)) \/ SaveSizes \/ CommitUnpend \/ DrawLibrary \/ DrawRoot \/ Writeback
           \/ UNCHANGED vars
  <2>1. UNCHANGED <<at, index, bySrc, rows, hashed>>
    BY <1>1 DEF SomeUpdate, BeginUpdate, BeginDelete, RebuildStart, RebuildClear, RebuildRecord,
       RebuildUnpend, RebuildMark, Unchanging, CommitBegin, StartForward, StartReverse,
       WriteReverse, SaveSizes, CommitUnpend, Undisturbed, DrawLibrary, DrawRoot, Writeback, vars
  <2> QED
    BY <1>e, <1>k, <2>1
<1>2. CASE RebuildFails \/ CommitNothing \/ CommitMark \/ KeepMaps \/ DrawFolders \/ Crash
  <2>1. UNCHANGED <<at, index, bySrc>> /\ CloseSession
    BY <1>2 DEF RebuildFails, CommitNothing, CommitMark, Committed, JobEnds, KeepMaps,
       DrawFolders, Undisturbed, Crash
  <2>2. (\A f \in File : rows'[f] = NoRow) /\ DOMAIN hashed' = {}
    BY <2>1 DEF CloseSession
  <2> QED
    BY <1>e, <1>k, <2>1, <2>2
<1>3. ASSUME NEW f \in File, Edit(f) PROVE Faithful'
  <2>1. at' = [at EXCEPT ![f] = @ + 1] /\ UNCHANGED <<index, bySrc, rows, hashed>>
    BY <1>3 DEF Edit
  <2>2. \A g \in File : at'[g] \in Nat /\ at[g] =< at'[g]
    BY <1>b, <2>1
  <2> QED
    BY <1>k, <2>1, <2>2
<1>4. CASE Load
  <2>1. UNCHANGED <<at, index, bySrc, hashed>> /\ rows' = index
    BY <1>4 DEF Load
  <2> QED
    BY <1>c, <1>d, <2>1
<1>5. CASE Scan
  <2>1. UNCHANGED <<at, index, bySrc, rows>>
    BY <1>5 DEF Scan
  <2>2. PICK kept \in SUBSET Dirty : hashed' = [f \in kept |-> ReadNow(f)]
    BY <1>5 DEF Scan
  <2>3. \A f \in File : ByHash(f)'
    BY <1>e, <2>1, <2>2
  <2> QED
    BY <1>c, <1>d, <2>1, <2>3
\* Rows that lose targets, or got the targets of what their file holds now.
<1>p. ASSUME UNCHANGED <<at, index, bySrc>>, hashed' = hashed \/ DOMAIN hashed' = {},
             NEW table \in Tables, NEW gone \in SUBSET File, NEW importers, NEW lines, NEW touched,
             RemoveAll(gone, table, importers, lines, touched),
             \A f \in File : table[f] # NoRow =>
                 /\ Honest(f, at[f], table[f].hash, table[f].dsts)
                 /\ index[f] # NoRow => Honest(f, at[f], index[f].hash, table[f].dsts)
      PROVE  Faithful'
  <2>1. \A f \in File : ByRows(f)'
    <3> SUFFICES ASSUME NEW f \in File, rows'[f] # NoRow
                 PROVE  /\ Honest(f, at[f], rows'[f].hash, rows'[f].dsts)
                        /\ index[f] # NoRow => Honest(f, at[f], index[f].hash, rows'[f].dsts)
      BY <1>p
    <3>0. /\ rows'[f] = NoRow <=> f \in gone \/ table[f] = NoRow
          /\ rows'[f] # NoRow => rows'[f].hash = table[f].hash /\ rows'[f].dsts = table[f].dsts \ gone
      <4>1. RemoveAll(gone, table, importers, lines, touched)
        BY <1>p
      <4> QED
        BY ONLY <4>1, RemovedRows
    <3>1. table[f] # NoRow /\ rows'[f].hash = table[f].hash /\ rows'[f].dsts \subseteq table[f].dsts
      BY <3>0
    <3> QED
      BY <1>e, <1>p, <3>1, StaysHonest
  <2> QED
    BY <1>c, <1>d, <1>p, <2>1
<1>6. CASE Parse
  <2>1. RemoveAll(Stale, Upserted, UpsertedRev, UpsertedLines, dirtyDst \cup Turned) /\ DOMAIN hashed' = {}
    BY <1>6, ParseRemoves
  <2>2. Upserted \in Tables /\ Stale \in SUBSET File
    BY <1>a, ParsedType
  <2>3. UNCHANGED <<at, index, bySrc>>
    BY <1>6 DEF Parse
  <2>4. ASSUME NEW f \in File, Upserted[f] # NoRow
        PROVE  /\ Honest(f, at[f], Upserted[f].hash, Upserted[f].dsts)
               /\ index[f] # NoRow => Honest(f, at[f], index[f].hash, Upserted[f].dsts)
    <3>1. CASE f \notin DOMAIN hashed
      <4>1. Upserted[f] = rows[f]
        BY <3>1 DEF Upserted
      <4> QED
        BY <1>c, <2>4, <4>1
    <3>2. CASE f \in DOMAIN hashed
      <4>1. Upserted[f].hash = hashed[f] /\ Upserted[f].dsts \subseteq ImportsOf[Read(f, at[f])]
        BY <1>e, <3>2 DEF Upserted, Targets
      <4>2. PICK i \in 1 .. at[f] : hashed[f] = Read(f, i)
        BY <1>c, <3>2
      <4>3. i =< at[f] /\ at[f] \in 1 .. at[f]
        BY <1>e
      <4>4. Honest(f, at[f], Upserted[f].hash, Upserted[f].dsts)
        BY <4>1, <4>2, <4>3 DEF Honest
      <4>5. index[f] # NoRow => Honest(f, at[f], index[f].hash, Upserted[f].dsts)
        <5> SUFFICES ASSUME index[f] # NoRow, index[f].hash # NoHash
                     PROVE  \E h, k \in 1 .. at[f] : /\ h =< k /\ index[f].hash = Read(f, h)
                                                     /\ Upserted[f].dsts \subseteq ImportsOf[Read(f, k)]
          BY DEF Honest
        <5>1. PICK h \in 1 .. at[f] : index[f].hash = Read(f, h)
          BY <1>c DEF Honest
        <5>2. h =< at[f]
          BY <1>e
        <5> QED
          BY <4>1, <4>3, <5>1, <5>2
      <4> QED
        BY <4>4, <4>5
    <3> QED
      BY <3>1, <3>2
  <2> QED
    BY <1>p, <2>1, <2>2, <2>3, <2>4
<1>7. CASE Delete
  <2>1. RemoveAll(files, rows, rev, dirtySrc, dirtyDst) /\ UNCHANGED <<at, index, bySrc, hashed>>
    BY <1>7 DEF Delete
  <2>2. files \in SUBSET File
    BY <1>a DEF TypeOK
  <2> QED
    BY <1>b, <1>c, <1>p, <2>1, <2>2
\* A write of one record.
<1>w. ASSUME NEW f \in File, NEW record, bySrc' = [bySrc EXCEPT ![f] = record], UNCHANGED <<at, index, rows, hashed>>,
             index[f] # NoRow => Honest(f, at[f], index[f].hash, Lines(record))
      PROVE  Faithful'
  <2>1. \A g \in File : bySrc'[g] = IF g = f THEN record ELSE bySrc[g]
    BY <1>b, <1>w
  <2>2. \A g \in File : ByIndex(g)'
    BY <1>c, <1>w, <2>1
  <2> QED
    BY <1>c, <1>d, <1>w, <2>2
<1>8. ASSUME NEW f \in File, UnlinkRecord(f) PROVE Faithful'
  <2>1. bySrc' = [bySrc EXCEPT ![f] = Missing] /\ UNCHANGED <<at, index, rows, hashed>>
    BY <1>8 DEF UnlinkRecord, Unchanging
  <2>2. index[f] # NoRow => Honest(f, at[f], index[f].hash, Lines(Missing))
    <3>1. Lines(Missing) = {}
      BY DEF Lines
    <3> QED
      BY <1>c, <1>e, <3>1, StaysHonest
  <2> QED
    BY <1>w, <2>1, <2>2
<1>9. ASSUME NEW f \in File, WriteForward(f) PROVE Faithful'
  <2>1. /\ pc = "forward" /\ f \in todo
        /\ bySrc' = [bySrc EXCEPT ![f] = dirtySrc[f]] /\ UNCHANGED <<at, index, rows, hashed>>
    BY <1>9 DEF WriteForward, Unchanging
  <2>2. dirtySrc[f] = RecordOf(rows, f) /\ dirtySrc[f] # Missing
    BY <1>a, <2>1 DEF Planned, Plan, Writing, Staged
  <2>3. rows[f] # NoRow /\ dirtySrc[f] = rows[f].dsts /\ rows[f].dsts \in SUBSET File
    BY <1>b, <2>2 DEF RecordOf, Tables, Row
  <2>4. Lines(dirtySrc[f]) = rows[f].dsts
    BY <2>3, MapCacheAssumption DEF MapCacheAssumption, Lines
  <2> QED
    BY <1>c, <1>w, <2>1, <2>3, <2>4
<1>10. CASE SaveIndex
  <2>1. pc = "reverse" /\ index' = rows /\ UNCHANGED <<at, bySrc, rows, hashed>>
    BY <1>10 DEF SaveIndex, Unchanging
  <2>2. \A f \in File : rows[f] # NoRow => Lines(bySrc[f]) = rows[f].dsts
    <3> SUFFICES ASSUME NEW f \in File, rows[f] # NoRow PROVE Lines(bySrc[f]) = rows[f].dsts
      OBVIOUS
    <3>1. bySrc[f] = rows[f].dsts
      BY <1>a, <2>1 DEF Planned, Writing, OpenSrc, RecordOf
    <3>2. rows[f].dsts \in SUBSET File
      BY <1>b DEF Tables, Row
    <3> QED
      BY <3>1, <3>2, MapCacheAssumption DEF MapCacheAssumption, Lines
  <2> QED
    BY <1>c, <1>d, <2>1, <2>2
<1>11. CASE RebuildIndex
  <2>1. index' = [f \in File |-> RebuiltRow(f)] /\ UNCHANGED <<at, bySrc, rows, hashed>>
    BY <1>11 DEF RebuildIndex
  <2>3. ASSUME NEW f \in File, index'[f] # NoRow
        PROVE  /\ Honest(f, at[f], index'[f].hash, Lines(bySrc[f])) /\ index'[f].dsts = Lines(bySrc[f])
               /\ rows[f] # NoRow => Honest(f, at[f], index'[f].hash, rows[f].dsts)
    <3>1. index'[f] = [hash |-> IF index[f] = NoRow THEN NoHash ELSE index[f].hash, dsts |-> Lines(bySrc[f])]
      BY <2>1, <2>3 DEF RebuiltRow
    <3> QED
      BY <1>c, <3>1 DEF Honest
  <2> QED
    BY <1>c, <1>d, <2>1, <2>3
<1>12. CASE PowerLoss
  BY <1>0, <1>12 DEF PowerLoss
<1> QED
  BY <1>1, <1>2, <1>3, <1>4, <1>5, <1>6, <1>7, <1>8, <1>9, <1>10, <1>11, <1>12 DEF Next, JobStep

-----------------------------------------------------------------------------
\* A run over the whole tree gets every row right

\* A run that parsed and removed nothing has nothing to write but what open found wrong.
LEMMA IdlingStep == CInv /\ Idling /\ [Next]_vars => Idling'
<1> SUFFICES ASSUME CInv, Idling, [Next]_vars, pc' = "commit", ~rewrite' PROVE rows' = index'
  BY DEF Idling
<1>a. TypeOK /\ Opened /\ rows \in Tables
  BY DEF CInv, Typed, TypeOK, Tables
<1> USE DEF tree, disk, cache, maps, session, request
<1>1. CASE Parse
  <2>1. /\ RemoveAll(Stale, Upserted, UpsertedRev, UpsertedLines, dirtyDst \cup Turned)
        /\ DOMAIN hashed = {} /\ Stale = {} /\ rows = index /\ index' = index
    BY <1>1, <1>a, ParseRemoves DEF Parse, Opened
  <2>2. Upserted = rows
    BY <1>a, <2>1 DEF Upserted, Tables
  <2>3. \A f \in File : rows[f] # NoRow => rows[f] \in Row
    BY <1>a DEF Tables
  <2>4. \A f \in File : rows'[f] = rows[f]
    <3> TAKE f \in File
    <3>1. rows'[f] = IF rows[f] = NoRow THEN NoRow ELSE [rows[f] EXCEPT !.dsts = @ \ {}]
      BY <2>1, <2>2 DEF RemoveAll
    <3> QED
      BY <2>3, <3>1 DEF Row
  <2>5. rows' \in Tables
    BY <1>a, <2>1, ParsedType, RemovedType DEF TypeOK
  <2> QED
    BY <1>a, <2>1, <2>4, <2>5 DEF Tables
<1>2. CASE Delete
  BY <1>2 DEF Delete
<1>3. CASE (\E f \in File : Edit(f)) \/ Writeback \/ UNCHANGED vars
  BY <1>3 DEF Edit, Writeback, vars, Idling
<1>4. pc' # "commit" \/ Parse \/ Delete \/ (\E f \in File : Edit(f)) \/ Writeback \/ UNCHANGED vars
  BY DEF Next, SomeUpdate, JobStep, BeginUpdate, BeginDelete, JobEnds, Crash, PowerLoss,
     RebuildStart, RebuildFails, RebuildClear, RebuildRecord, RebuildIndex, RebuildUnpend,
     RebuildMark, Load, Scan, Committed, CommitNothing, Unchanging, CommitBegin, UnlinkRecord,
     StartForward, WriteForward, StartReverse, WriteReverse, SaveIndex, SaveSizes, CommitUnpend,
     CommitMark, Undisturbed, KeepMaps, DrawLibrary, DrawRoot, DrawFolders
<1> QED
  BY <1>1, <1>2, <1>3, <1>4

\* An honest row with the hash of what its file holds has no target that content does not import.
LEMMA HonestFits ==
    ASSUME NoImportIsDropped, TypeOK, NEW f \in File, NEW dsts, Now(f) # Gone, Honest(f, at[f], Now(f), dsts)
    PROVE  dsts \subseteq ImportsOf[Now(f)]
<1>1. at[f] \in Nat /\ at[f] \in 1 .. at[f] /\ at[f] \in 1 .. Len(History[f]) /\ Now(f) = Read(f, at[f])
  BY ReadHere DEF ReadNow
<1>2. Now(f) # NoHash
  BY ReadType, MapCacheAssumption DEF MapCacheAssumption
<1>3. PICK i, k \in 1 .. at[f] : i =< k /\ Now(f) = Read(f, i) /\ dsts \subseteq ImportsOf[Read(f, k)]
  BY <1>2 DEF Honest
<1>4. Len(History[f]) \in Nat
  BY MapCacheAssumption, LenProperties DEF MapCacheAssumption
<1>5. i \in 1 .. Len(History[f]) /\ k \in 1 .. Len(History[f]) /\ k =< at[f]
  BY <1>1, <1>4
<1>6. ImportsOf[Read(f, k)] \subseteq ImportsOf[Read(f, at[f])]
  BY <1>1, <1>3, <1>5 DEF NoImportIsDropped
<1> QED
  BY <1>1, <1>3, <1>6

\* A run over the whole tree hashes every file there is, parses those whose rows have another
\* hash, and removes the other rows; if nothing moves meanwhile, what it writes is right.
LEMMA SettlingStep == RInv /\ [Next]_vars => Settling'
<1> DEFINE Goal == /\ pc # "idle" => job = "update" /\ pc # "delete" /\ files = {f \in File : Now(f) # Gone}
                   /\ pc = "parse" => /\ \A f \in files \ DOMAIN hashed : rows[f] # NoRow /\ rows[f].hash = Now(f)
                                      /\ \A f \in DOMAIN hashed : hashed[f] = Now(f)
                   /\ pc \in Writing \cup Closing => \A f \in File : Fits(rows, f)
                   /\ pc \in {"maps", "cards", "folders", "idle"} => \A f \in File : Fits(index, f)
<1> SUFFICES ASSUME RInv, [Next]_vars, settled' PROVE Goal'
  BY DEF Settling
<1>a. TypeOK /\ Opened /\ InStep /\ Idling
  BY DEF RInv, CInv, Typed
<1>b. rows \in Tables /\ files \subseteq File /\ DOMAIN hashed \subseteq File
  BY <1>a DEF TypeOK, Tables
<1>g. settled => Goal
  BY DEF RInv, Settling
<1>n. ASSUME UNCHANGED at
      PROVE  \A f \in File : /\ Now(f)' = Now(f)
                             /\ Fits(rows, f)' <=> Fits(rows', f)
                             /\ Fits(index, f)' <=> Fits(index', f)
  BY <1>n DEF Fits, Now
<1> USE DEF tree, disk, cache, maps, session, request
<1>1. CASE (\E f \in File : BeginDelete(f)) \/ (\E f \in File : Edit(f)) \/ Crash \/ PowerLoss \/ RebuildFails
  BY <1>1 DEF BeginDelete, Edit, Crash, PowerLoss, RebuildFails
<1>2. CASE SomeUpdate
  <2>1. PICK scope \in Scopes, cap \in Budgets : BeginUpdate(scope, cap)
    BY <1>2 DEF SomeUpdate
  <2>2. /\ pc' = "open" /\ job' = "update" /\ files' = {f \in File : Now(f) # Gone} /\ UNCHANGED at
    BY <2>1 DEF BeginUpdate
  <2> QED
    BY <1>n, <2>2 DEF Writing, Closing
\* A step before the session is read, or between the commit and the maps.
<1>k. ASSUME settled, UNCHANGED <<at, job, files>>, pc # "idle",
             pc' \notin Writing \cup Closing \cup {"parse", "delete", "maps", "cards", "folders", "idle"}
      PROVE  Goal'
  BY <1>g, <1>k, <1>n
<1>3. CASE RebuildStart \/ RebuildClear \/ (\E d \in File : RebuildRecord(d)) \/ RebuildIndex \/ RebuildUnpend
           \/ RebuildMark \/ Load
  <2>1. /\ settled /\ UNCHANGED <<at, job, files>> /\ pc # "idle"
        /\ pc' \in {"rebuild", "rebuild_dst", "rebuild_done", "rebuild_mark", "open", "scan"} \/ (Load /\ pc = "open")
    BY <1>3 DEF RebuildStart, RebuildClear, RebuildRecord, RebuildIndex, RebuildUnpend, RebuildMark, Load
  <2>2. job = "update"
    BY <1>g, <2>1
  <2>3. pc' \in {"rebuild", "rebuild_dst", "rebuild_done", "rebuild_mark", "open", "scan"}
    BY <2>1, <2>2 DEF Load
  <2> QED
    BY <1>k, <2>1, <2>3 DEF Writing, Closing
<1>4. CASE Scan
  <2>1. /\ settled /\ pc = "scan" /\ pc' = "parse" /\ UNCHANGED <<at, job, files, rows>>
        /\ hashed' = [f \in Dirty |-> ReadNow(f)]
    BY <1>4 DEF Scan
  <2>2. job = "update" /\ files = {f \in File : Now(f) # Gone}
    BY <1>g, <2>1
  <2>3. \A f \in files : ReadNow(f) = Now(f)
    BY <2>2 DEF ReadNow
  <2>4. DOMAIN hashed' = Dirty /\ Dirty \subseteq files
    BY <2>1 DEF Dirty
  <2>5. \A f \in DOMAIN hashed' : hashed'[f] = Now(f)
    BY <2>1, <2>3, <2>4
  <2>6. \A f \in files \ DOMAIN hashed' : rows[f] # NoRow /\ rows[f].hash = Now(f)
    BY <2>3, <2>4 DEF Dirty
  <2> QED
    BY <1>b, <1>n, <2>1, <2>2, <2>4, <2>5, <2>6 DEF Writing, Closing
<1>5. CASE Parse
  <2>1. /\ settled /\ pc = "parse" /\ pc' = "commit" /\ UNCHANGED <<at, job, files>>
        /\ RemoveAll(Stale, Upserted, UpsertedRev, UpsertedLines, dirtyDst \cup Turned)
    BY <1>5, ParseRemoves DEF Parse
  <2>2. /\ job = "update" /\ files = {f \in File : Now(f) # Gone}
        /\ \A f \in files \ DOMAIN hashed : rows[f] # NoRow /\ rows[f].hash = Now(f)
        /\ \A f \in DOMAIN hashed : hashed[f] = Now(f)
        /\ DOMAIN hashed \subseteq files
    BY <1>a, <1>g, <2>1 DEF Opened
  <2>3. Upserted \in Tables /\ Stale \in SUBSET File
    BY <1>a, ParsedType
  <2>4. ASSUME NEW f \in File PROVE Fits(rows', f)
    <3>0. /\ rows'[f] = NoRow <=> f \in Stale \/ Upserted[f] = NoRow
          /\ rows'[f] # NoRow => rows'[f].hash = Upserted[f].hash
      <4>1. ASSUME NEW gone \in SUBSET File, NEW table \in Tables, NEW importers, NEW lines, NEW touched,
                   RemoveAll(gone, table, importers, lines, touched)
            PROVE  /\ rows'[f] = NoRow <=> f \in gone \/ table[f] = NoRow
                   /\ rows'[f] # NoRow => rows'[f].hash = table[f].hash
        BY <4>1, RemovedRows
      <4> QED
        BY <2>1, <2>3, <4>1
    <3>1. CASE f \notin files
      BY <2>2, <3>0, <3>1 DEF Stale, Fits
    <3>2. CASE f \in DOMAIN hashed
      <4>1. Upserted[f] = [hash |-> hashed[f], dsts |-> Targets(f)]
        BY <3>2 DEF Upserted
      <4>2. Upserted[f] # NoRow
        <5>1. [hash |-> hashed[f], dsts |-> Targets(f)] \in Row
          BY <1>a, <3>2, ParsedType DEF Row, TypeOK
        <5> QED
          BY <4>1, <5>1, MapCacheAssumption DEF MapCacheAssumption
      <4>3. Now(f) # Gone /\ f \notin Stale /\ Upserted[f].hash = Now(f)
        BY <2>2, <3>2, <4>1 DEF Stale
      <4> QED
        BY <3>0, <4>2, <4>3 DEF Fits
    <3>3. CASE f \in files \ DOMAIN hashed
      <4>1. Upserted[f] = rows[f]
        BY <3>3 DEF Upserted
      <4>2. Now(f) # Gone /\ f \notin Stale /\ rows[f] # NoRow /\ rows[f].hash = Now(f)
        BY <2>2, <3>3 DEF Stale
      <4> QED
        BY <3>0, <4>1, <4>2 DEF Fits
    <3> QED
      BY <3>1, <3>2, <3>3
  <2> QED
    BY <1>n, <2>1, <2>2, <2>4 DEF Writing, Closing
<1>6. CASE Delete
  BY <1>6, <1>g DEF Delete
<1>7. CASE CommitNothing
  <2>1. settled /\ pc = "commit" /\ ~rewrite /\ Committed /\ UNCHANGED <<at, index>>
    BY <1>7 DEF CommitNothing
  <2>2. rows = index /\ job = "update" /\ files = {f \in File : Now(f) # Gone} /\ \A f \in File : Fits(rows, f)
    BY <1>a, <1>g, <2>1 DEF Idling, Writing
  <2>3. pc' = "maps" /\ UNCHANGED <<job, files>>
    BY <2>1, <2>2 DEF Committed
  <2> QED
    BY <1>n, <2>1, <2>2, <2>3 DEF Writing, Closing
<1>8. CASE \/ CommitBegin \/ (\E f \in File : UnlinkRecord(f)) \/ StartForward
           \/ (\E f \in File : WriteForward(f))
           \/ StartReverse \/ (\E d \in File : WriteReverse(d)) \/ SaveIndex \/ SaveSizes \/ CommitUnpend
  <2>1. /\ settled /\ pc \in Writing \cup Closing /\ pc' \in Writing \cup Closing /\ UNCHANGED <<at, job, files, rows>>
    BY <1>8 DEF CommitBegin, UnlinkRecord, StartForward, WriteForward, StartReverse, WriteReverse,
       SaveIndex, SaveSizes, CommitUnpend, Unchanging, Writing, Closing
  <2>2. /\ job = "update" /\ files = {f \in File : Now(f) # Gone} /\ \A f \in File : Fits(rows, f)
    BY <1>g, <2>1 DEF Writing, Closing
  <2> QED
    BY <1>n, <2>1, <2>2 DEF Writing, Closing
<1>9. CASE CommitMark
  <2>1. settled /\ pc = "commit_mark" /\ Committed /\ UNCHANGED <<at, index>>
    BY <1>9 DEF CommitMark
  <2>2. rows = index /\ job = "update" /\ files = {f \in File : Now(f) # Gone} /\ \A f \in File : Fits(rows, f)
    BY <1>a, <1>g, <2>1 DEF InStep, Closing
  <2>3. pc' = "maps" /\ UNCHANGED <<job, files>>
    BY <2>1, <2>2 DEF Committed
  <2> QED
    BY <1>n, <2>1, <2>2, <2>3 DEF Writing, Closing
<1>10. CASE KeepMaps \/ DrawLibrary \/ DrawRoot \/ DrawFolders
  <2>1. /\ settled /\ pc \in {"maps", "cards", "folders"} /\ UNCHANGED <<at, index>>
        /\ \/ pc' = "idle"
           \/ pc' \in {"cards", "folders"} /\ UNCHANGED <<job, files>>
    BY <1>10 DEF KeepMaps, DrawLibrary, DrawRoot, DrawFolders, Undisturbed, JobEnds
  <2>2. job = "update" /\ files = {f \in File : Now(f) # Gone} /\ \A f \in File : Fits(index, f)
    BY <1>g, <2>1
  <2> QED
    BY <1>n, <2>1, <2>2 DEF Writing, Closing
<1>11. CASE Writeback \/ UNCHANGED vars
  <2>1. settled /\ UNCHANGED <<at, index, pc, job, files, rows, hashed>>
    BY <1>11 DEF Writeback, vars
  <2>2. {f \in File : Now(f) # Gone}' = {f \in File : Now(f) # Gone}
    BY <1>n, <2>1
  <2>3. Goal
    BY <1>g, <2>1
  <2>4. \A f \in File : (Fits(rows, f)' <=> Fits(rows, f)) /\ (Fits(index, f)' <=> Fits(index, f))
    BY <2>1 DEF Fits, Now
  <2>5. (pc # "idle" => job = "update" /\ pc # "delete" /\ files = {f \in File : Now(f) # Gone})'
    BY <2>1, <2>2, <2>3
  <2>6. (pc = "parse" => /\ \A f \in files \ DOMAIN hashed : rows[f] # NoRow /\ rows[f].hash = Now(f)
                        /\ \A f \in DOMAIN hashed : hashed[f] = Now(f))'
    BY <2>1, <2>3 DEF Now
  <2>7. (pc \in Writing \cup Closing => \A f \in File : Fits(rows, f))'
    BY <2>1, <2>3, <2>4 DEF Writing, Closing
  <2>8. (pc \in {"maps", "cards", "folders", "idle"} => \A f \in File : Fits(index, f))'
    BY <2>1, <2>3, <2>4
  <2> QED
    BY <2>5, <2>6, <2>7, <2>8
<1> QED
  BY <1>1, <1>2, <1>3, <1>4, <1>5, <1>6, <1>7, <1>8, <1>9, <1>10, <1>11 DEF Next, JobStep

\* The invariant holds of every state of every run.
LEMMA RowInvariance == Spec => []RInv
<1>1. Init => RInv
  <2> SUFFICES ASSUME Init PROVE RInv
    OBVIOUS
  <2>1. CInv
    BY Starting
  <2>2. DOMAIN hashed = {} /\ (\A f \in File : index[f] = NoRow /\ rows[f] = NoRow) /\ pc = "idle" /\ ~settled
    BY DEF Init
  <2> QED
    BY <2>1, <2>2 DEF RInv, Faithful, Idling, Settling
<1>2. RInv /\ [Next]_vars => RInv'
  BY Inductive, FaithfulStep, IdlingStep, SettlingStep DEF RInv
<1> QED
  BY <1>1, <1>2, PTL DEF Spec

\* After an update_maps run over the whole tree that parsed all it had to, and until the next edit
\* or failure, index.tsv has a row for exactly the files there are, with the hash of what the file
\* holds, whatever died, was deleted, left over by a cap or lost with the power before it.
THEOREM HashesAreCurrent == Spec => [](pc = "idle" /\ settled => \A f \in File : Fits(index, f))
<1>1. RInv => (pc = "idle" /\ settled => \A f \in File : Fits(index, f))
  BY DEF RInv, Settling
<1> QED
  BY <1>1, RowInvariance, PTL

\* CurrentWhenSettled: such a row has, besides, no target that the content does not import, if no
\* power was lost and no content comes back after one that imports something it does not.
THEOREM RowsAreCurrent ==
    ASSUME NoImportIsDropped
    PROVE  Spec => [](losses = 0 => CurrentWhenSettled)
<1>1. RInv => (losses = 0 => CurrentWhenSettled)
  <2> SUFFICES ASSUME RInv, losses = 0, pc = "idle", settled, NEW f \in File PROVE Current(f)
    BY DEF CurrentWhenSettled
  <2>1. Fits(index, f) /\ TypeOK
    BY DEF RInv, Settling, CInv, Typed
  <2>2. CASE Now(f) = Gone
    BY <2>1, <2>2 DEF Fits, Current
  <2>3. CASE Now(f) # Gone
    <3>1. index[f] # NoRow /\ index[f].hash = Now(f)
      BY <2>1, <2>3 DEF Fits
    <3>2. Honest(f, at[f], Now(f), index[f].dsts)
      BY <3>1 DEF RInv, Faithful
    <3>3. index[f].dsts \subseteq ImportsOf[Now(f)]
      BY <2>1, <2>3, <3>2, HonestFits
    <3> QED
      BY <2>3, <3>1, <3>3 DEF Current
  <2> QED
    BY <2>2, <2>3
<1> QED
  BY <1>1, RowInvariance, PTL
=============================================================================
