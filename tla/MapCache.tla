------------------------------ MODULE MapCache ------------------------------
(***************************************************************************)
(* The dependency-map cache, .wikifier_staging/wk_cache (cache_commit.rs), *)
(* and the two kinds of job that write it: update_maps and the graph part  *)
(* of record_deletion.  A job collects its files, opens a Session, changes *)
(* rows in memory and commits them file by file.                           *)
(*                                                                         *)
(* On disk: index.tsv (one row per file: content hash and targets), a      *)
(* by_src record per source, a by_dst record per target, sizes.tsv with    *)
(* the length of every record, and commit.pending.  index.tsv, sizes.tsv   *)
(* and commit.pending are synced; the records are not.  After its commit   *)
(* update_maps draws library.md and the folder cards (maps_out.rs) from    *)
(* the cache, if they may have changed.                                    *)
(*                                                                         *)
(* Simplifications:                                                        *)
(* - wk.lock and .lock give one session at a time (module PidLock).        *)
(* - A content is its own hash; size and mtime tell an untouched file from *)
(*   a changed one.  Named re-exports are not followed.                    *)
(* - by_src stands for the three forward records of a file (payload and    *)
(*   notes are batched, sized and checked the same way; no row is ever     *)
(*   rebuilt from them).                                                   *)
(* - A job whose write fails stops there: that is Crash.                   *)
(* - library.md lists the targets of each mapped file, the folder cards    *)
(*   the mapped files; of the cards in between nothing is told but that    *)
(*   the root card is written first.  A power loss leaves them alone.      *)
(*   incremental_status.json and the low-confidence counts are left out.   *)
(***************************************************************************)
EXTENDS Naturals, Sequences, FiniteSets

CONSTANTS
    File,
    Content,      \* what a source file can hold
    Gone,         \* the state of a path without a file
    Empty,        \* what a read of such a path gives: no bytes
    NoHash,       \* the hash of a row rebuilt without an old row
    NoRow,        \* the path is not in the index
    Missing,      \* there is no such record
    Torn,         \* what is there of a record whose bytes are lost: too little, or as much
                  \* of it as there was, in zeros
    NoSize,       \* no recorded length
    NoSizes,      \* there is no sizes.tsv
    NoCap,        \* no --max-files
    NoMap,        \* there is no library.md, or there are no folder cards
    History,      \* the contents each path goes through
    ImportsOf,    \* the paths each content imports
    SizeOf,       \* the length of a record that lists these paths, or of a torn one
    Scopes,       \* the sets of paths one update_maps run can be about
    Budgets,      \* its --max-files
    MaxDeletes,   \* bound: record_deletion jobs
    MaxCrashes,   \* bound: processes that die inside a job
    MaxLosses     \* bound: power losses

Row == [hash : Content \cup {NoHash}, dsts : SUBSET File]
Record == {Missing} \cup Torn \cup SUBSET File
Sizes == [src : [File -> Nat \cup {NoSize}], dst : [File -> Nat \cup {NoSize}]]

ASSUME MapCacheAssumption ==
    /\ Gone \notin Content
    /\ NoHash \notin Content
    /\ Empty \in Content
    /\ ImportsOf \in [Content -> SUBSET File]
    /\ ImportsOf[Empty] = {}
    /\ \A f \in File : History[f] \in Seq(Content \cup {Gone}) /\ History[f] # <<>>
    /\ SizeOf \in [Torn \cup SUBSET File -> Nat]
    /\ Missing \notin Torn /\ \A S \in SUBSET File : S \notin {Missing} \cup Torn
    /\ NoRow \notin Row
    /\ NoSize \notin Nat /\ NoSizes \notin Sizes
    /\ Scopes \subseteq SUBSET File
    /\ Budgets \subseteq Nat \cup {NoCap}
    /\ MaxDeletes \in Nat /\ MaxCrashes \in Nat /\ MaxLosses \in Nat

VARIABLES
    \* the source tree: how far into its history each path is
    at,
    \* the cache on disk
    index, bySrc, byDst, sizes,
    pending,      \* commit.pending: set, clear, or unlinked and not yet synced
    safeSrc,      \* by_src and by_dst as of the last time they reached the disk
    safeDst,
    library,      \* the targets library.md lists for each file
    cards,        \* the files of the folder cards, and whether all the cards were written
    \* the job that runs, and its Session
    pc,
    job,          \* none, update or delete
    files,        \* the files collected, or the file deleted
    budget,
    rows, rev, dirtySrc, dirtyDst, removed, rewrite, reparse,
    newSizes,     \* Session.sizes
    hashed,       \* what the files about to be parsed were hashed as
    todo,         \* the records of the current commit phase not yet written
    \* bookkeeping
    settled,      \* the last job was a full update_maps and nothing moved since it began
    restaged,     \* a job took lines for an importer from a record that is not what its row says
    deletes, crashes, losses

tree == <<at>>
cache == <<index, bySrc, byDst, sizes, pending, safeSrc, safeDst>>
maps == <<library, cards>>
disk == <<cache, maps>>
session == <<rows, rev, dirtySrc, dirtyDst, removed, rewrite, reparse, newSizes, hashed, todo>>
request == <<job, files, budget>>
counts == <<deletes, crashes, losses>>
past == <<restaged, counts>>
vars == <<tree, disk, pc, request, session, settled, past>>

None == [f \in File |-> Missing]
Unsized == [f \in File |-> NoSize]
Blank == [src |-> Unsized, dst |-> Unsized]

Now(f) == History[f][at[f]]

\* Mutant: a file that cannot be read is taken over as it is.
ReadUnchecked(f) == Now(f)

\* What fs::read(file).unwrap_or_default() gives.
ReadNow(f) == IF Now(f) = Gone THEN Empty ELSE Now(f)

\* The paths a record lists; a record that cannot be read lists none.
Lines(r) == IF r \in {Missing} \cup Torn THEN {} ELSE r

ImportersIn(table) ==
    [d \in File |-> {s \in File : table[s] # NoRow /\ d \in table[s].dsts}]

\* The session is over; whether it had something to write is still known.
CloseSession ==
    /\ rows' = [f \in File |-> NoRow]
    /\ rev' = [f \in File |-> {}]
    /\ dirtySrc' = None
    /\ dirtyDst' = {}
    /\ removed' = {}
    /\ reparse' = {}
    /\ newSizes' = Blank
    /\ hashed' = <<>>
    /\ todo' = {}

NoRequest == job' = "none" /\ files' = {} /\ budget' = NoCap

Init ==
    /\ at = [f \in File |-> 1]
    /\ index = [f \in File |-> NoRow]
    /\ bySrc = None /\ byDst = None
    /\ library = NoMap /\ cards = NoMap
    /\ safeSrc = None /\ safeDst = None
    /\ sizes = NoSizes
    /\ pending = "clear"
    /\ pc = "idle" /\ job = "none" /\ files = {} /\ budget = NoCap
    /\ rows = [f \in File |-> NoRow]
    /\ rev = [f \in File |-> {}]
    /\ dirtySrc = None
    /\ dirtyDst = {} /\ removed = {} /\ rewrite = FALSE /\ reparse = {}
    /\ newSizes = Blank
    /\ hashed = <<>>
    /\ todo = {}
    /\ settled = FALSE
    /\ restaged = FALSE
    /\ deletes = 0 /\ crashes = 0 /\ losses = 0

-----------------------------------------------------------------------------
\* A job begins

\* update_maps collects the files of its scope that exist now.
BeginUpdate(scope, cap) ==
    /\ pc = "idle"
    /\ job' = "update"
    /\ files' = {f \in scope : Now(f) # Gone}
    /\ budget' = cap
    /\ settled' = (scope = File)
    /\ pc' = "open"
    /\ UNCHANGED <<tree, disk, session, past>>

\* record_deletion does not look whether the file is gone.
BeginDelete(f) ==
    /\ pc = "idle"
    /\ deletes < MaxDeletes
    /\ deletes' = deletes + 1
    /\ job' = "delete"
    /\ files' = {f}
    /\ settled' = FALSE
    /\ pc' = "open"
    /\ UNCHANGED <<tree, disk, session, budget, restaged, crashes, losses>>

\* The process that ran the job is done with it, or gone.
JobEnds ==
    /\ pc' = "idle"
    /\ NoRequest
    /\ CloseSession
    /\ rewrite' = FALSE
-----------------------------------------------------------------------------
\* rebuild_locked: an open that finds commit.pending takes by_src for the truth

\* A by_src record without a header is known by its name if the index has the path.
Orphans == {f \in File : bySrc[f] \in Torn /\ index[f] = NoRow}

\* The recorded sizes go first.
RebuildStart ==
    /\ pc = "open"
    /\ pending = "set"
    /\ Orphans = {}
    /\ sizes' = NoSizes
    /\ pc' = "rebuild"
    /\ UNCHANGED <<tree, index, bySrc, byDst, pending, safeSrc, safeDst, maps, request, session,
                   settled, past>>

\* "edge file ... has no stored path": the job ends with CacheError.
RebuildFails ==
    /\ pc = "open"
    /\ pending = "set"
    /\ Orphans # {}
    /\ sizes' = NoSizes
    /\ settled' = FALSE
    /\ JobEnds
    /\ UNCHANGED <<tree, index, bySrc, byDst, pending, safeSrc, safeDst, maps, past>>

\* Mutant: only the records that are written again are replaced.
RebuildClearNothing ==
    /\ pc = "rebuild"
    /\ todo' = UNION {Lines(bySrc[f]) : f \in File}
    /\ pc' = "rebuild_dst"
    /\ UNCHANGED <<tree, index, bySrc, byDst, sizes, pending, safeSrc, safeDst, maps, request,
                   rows, rev, dirtySrc, dirtyDst, removed, rewrite, reparse, newSizes, hashed,
                   settled, past>>

\* Every by_dst record is removed.
RebuildClear ==
    /\ pc = "rebuild"
    /\ byDst' = None
    /\ todo' = UNION {Lines(bySrc[f]) : f \in File}
    /\ pc' = "rebuild_dst"
    /\ UNCHANGED <<tree, index, bySrc, sizes, pending, safeSrc, safeDst, maps, request,
                   rows, rev, dirtySrc, dirtyDst, removed, rewrite, reparse, newSizes, hashed,
                   settled, past>>

\* The by_dst records are written in no particular order, by several threads.
RebuildRecord(d) ==
    /\ pc = "rebuild_dst"
    /\ d \in todo
    /\ byDst' = [byDst EXCEPT ![d] = {s \in File : d \in Lines(bySrc[s])}]
    /\ todo' = todo \ {d}
    /\ UNCHANGED <<tree, index, bySrc, sizes, pending, safeSrc, safeDst, maps, pc, request,
                   rows, rev, dirtySrc, dirtyDst, removed, rewrite, reparse, newSizes, hashed,
                   settled, past>>

\* Mutant: the rebuild hashes the file instead of keeping the hash of the old row.
RebuiltRowRehashed(f) ==
    IF bySrc[f] = Missing
      THEN NoRow
      ELSE [hash |-> ReadNow(f), dsts |-> Lines(bySrc[f])]

\* A row for every by_src record, with the hash the old index had for the path.
RebuiltRow(f) ==
    IF bySrc[f] = Missing
      THEN NoRow
      ELSE [hash |-> IF index[f] = NoRow THEN NoHash ELSE index[f].hash,
            dsts |-> Lines(bySrc[f])]

RebuildIndex ==
    /\ pc = "rebuild_dst"
    /\ todo = {}
    /\ index' = [f \in File |-> RebuiltRow(f)]
    /\ pc' = "rebuild_done"
    /\ UNCHANGED <<tree, bySrc, byDst, sizes, pending, safeSrc, safeDst, maps, request, session,
                   settled, past>>

\* commit.pending is removed.
RebuildUnpend ==
    /\ pc = "rebuild_done"
    /\ pending' = "unlinked"
    /\ pc' = "rebuild_mark"
    /\ UNCHANGED <<tree, index, bySrc, byDst, sizes, safeSrc, safeDst, maps, request, session,
                   settled, past>>

\* Writing the names marker syncs its directory, and open goes on as if nothing was pending.
RebuildMark ==
    /\ pc = "rebuild_mark"
    /\ pending' = "clear"
    /\ pc' = "open"
    /\ UNCHANGED <<tree, index, bySrc, byDst, sizes, safeSrc, safeDst, maps, request, session,
                   settled, past>>
-----------------------------------------------------------------------------
\* Session::open: load_rows and check_entries

\* Mutant: a record without a recorded length passes unread.
PassesUnread(record, length, content) ==
    IF length # NoSize
      THEN record # Missing /\ SizeOf[record] = length
      ELSE record # Missing

\* Whether a record passes: by its recorded length, or by its content if it has none.
Passes(record, length, content) ==
    IF length # NoSize
      THEN record # Missing /\ SizeOf[record] = length
      ELSE record = content

Recorded == IF sizes = NoSizes THEN Blank ELSE sizes

Indexed == {f \in File : index[f] # NoRow}
Imported == {d \in File : ImportersIn(index)[d] # {}}

SrcOk == {f \in Indexed : Passes(bySrc[f], Recorded.src[f], index[f].dsts)}
DstOk == {d \in Imported : Passes(byDst[d], Recorded.dst[d], ImportersIn(index)[d])}

SizeOrNone(record) == IF record = Missing THEN NoSize ELSE SizeOf[record]

Load ==
    /\ pc = "open"
    /\ pending # "set"
    /\ rows' = index
    /\ rev' = ImportersIn(index)
    /\ reparse' = Indexed \ SrcOk
    /\ dirtyDst' = Imported \ DstOk
    /\ newSizes' = [src |-> [f \in File |-> IF f \in SrcOk THEN SizeOrNone(bySrc[f]) ELSE NoSize],
                    dst |-> [d \in File |-> IF d \in DstOk THEN SizeOrNone(byDst[d]) ELSE NoSize]]
    /\ rewrite' = \/ sizes = NoSizes
                  \/ SrcOk # Indexed \/ DstOk # Imported
                  \/ \E f \in SrcOk : Recorded.src[f] = NoSize
                  \/ \E d \in DstOk : Recorded.dst[d] = NoSize
    /\ pc' = IF job = "update" THEN "scan" ELSE "delete"
    /\ UNCHANGED <<tree, disk, request, dirtySrc, removed, hashed, todo, settled, past>>

-----------------------------------------------------------------------------
\* update_maps between open and commit

\* Mutant: the result of the open check is not asked for.
DirtyByHash == {f \in files : rows[f] = NoRow \/ rows[f].hash # ReadNow(f)}

\* The files whose rows cannot be used: failed the open check, unknown, or changed.
Dirty == {f \in files : \/ f \in reparse
                       \/ rows[f] = NoRow
                       \/ rows[f].hash # ReadNow(f)}

\* Mutant: the cap is applied before the unchanged files are dropped.
ScanCapFirst ==
    /\ pc = "scan"
    /\ \E chosen \in SUBSET files :
         /\ \/ chosen = files
            \/ budget # NoCap /\ Cardinality(chosen) = budget
         /\ budget # NoCap => Cardinality(chosen) <= budget
         /\ hashed' = [f \in chosen \cap Dirty |-> ReadNow(f)]
         /\ settled' = (settled /\ Dirty \subseteq chosen)
    /\ pc' = "parse"
    /\ UNCHANGED <<tree, disk, request, rows, rev, dirtySrc, dirtyDst, removed, rewrite, reparse,
                   newSizes, todo, past>>

\* Every file is read and hashed; --max-files cuts the list of those to parse.
Scan ==
    /\ pc = "scan"
    /\ \E kept \in SUBSET Dirty :
         /\ \/ kept = Dirty
            \/ budget # NoCap /\ Cardinality(kept) = budget
         /\ budget # NoCap => Cardinality(kept) <= budget
         /\ hashed' = [f \in kept |-> ReadNow(f)]
         /\ settled' = (settled /\ kept = Dirty)
    /\ pc' = "parse"
    /\ UNCHANGED <<tree, disk, request, rows, rev, dirtySrc, dirtyDst, removed, rewrite, reparse,
                   newSizes, todo, past>>

\* The targets of what f holds now.  Only collected files are targets.
Targets(f) == (ImportsOf[ReadNow(f)] \cap files) \ {f}

OldTargets(f) == IF rows[f] = NoRow THEN {} ELSE rows[f].dsts

\* The session after each path of gone was removed, starting from the rows and by_src lines
\* given.  Every importer loses the target: its lines are those already staged in this
\* session, or else those of its by_src record.
RemoveAll(gone, table, importers, lines, touched) ==
    LET stripped(s) == s \notin gone /\ table[s] # NoRow /\ \E d \in gone : s \in importers[d]
        staged(s) == IF lines[s] = Missing THEN Lines(bySrc[s]) ELSE lines[s]
    IN  /\ rows' = [s \in File |->
                       IF s \in gone \/ table[s] = NoRow THEN NoRow
                       ELSE [table[s] EXCEPT !.dsts = @ \ gone]]
        /\ rev' = [d \in File |-> IF d \in gone THEN {} ELSE importers[d] \ gone]
        /\ dirtySrc' = [s \in File |->
                           IF s \in gone THEN Missing
                           ELSE IF stripped(s) THEN staged(s) \ gone
                           ELSE lines[s]]
        /\ dirtyDst' = touched \cup {d \in gone : importers[d] \ {d} # {}}
                           \cup UNION {table[g].dsts : g \in {g \in gone : table[g] # NoRow}}
        /\ removed' = gone
        /\ restaged' = \/ restaged
                        \/ \E s \in File : dirtySrc'[s] # Missing /\ dirtySrc'[s] # rows'[s].dsts

\* The files kept are read again, parsed and upserted; then rows of paths that were not
\* collected are removed.
Parse ==
    /\ pc = "parse"
    /\ LET kept == DOMAIN hashed
           table == [f \in File |->
                       IF f \in kept THEN [hash |-> hashed[f], dsts |-> Targets(f)] ELSE rows[f]]
           importers == [d \in File |->
                           (rev[d] \ {f \in kept : d \in OldTargets(f) \ Targets(f)})
                              \cup {f \in kept : d \in Targets(f) \ OldTargets(f)}]
           lines == [f \in File |-> IF f \in kept THEN Targets(f) ELSE Missing]
           moved == UNION {(OldTargets(f) \ Targets(f)) \cup (Targets(f) \ OldTargets(f)) : f \in kept}
           stale == {f \in File \ files : table[f] # NoRow}
       IN  /\ RemoveAll(stale, table, importers, lines, dirtyDst \cup moved)
           /\ rewrite' = (rewrite \/ kept # {} \/ stale # {})
    /\ pc' = "commit"
    /\ hashed' = <<>>
    /\ UNCHANGED <<tree, disk, request, reparse, newSizes, todo, settled, counts>>

\* record_deletion: Session::remove of one path, whether or not it has a row.
Delete ==
    /\ pc = "delete"
    /\ RemoveAll(files, rows, rev, dirtySrc, dirtyDst)
    /\ rewrite' = TRUE
    /\ pc' = "commit"
    /\ UNCHANGED <<tree, disk, request, reparse, newSizes, hashed, todo, settled, counts>>
-----------------------------------------------------------------------------
\* Session::commit

Unchanging == UNCHANGED <<tree, safeSrc, safeDst, maps, request, rows, rev, dirtySrc, dirtyDst, removed,
                          rewrite, reparse, hashed, settled, past>>

\* update_maps goes on to its map artifacts, record_deletion is done.
Committed ==
    IF job = "update"
      THEN /\ pc' = "maps"
           /\ CloseSession
           /\ UNCHANGED <<request, rewrite>>
      ELSE JobEnds

\* Nothing to write.
CommitNothing ==
    /\ pc = "commit"
    /\ ~rewrite
    /\ Committed
    /\ UNCHANGED <<tree, disk, settled, past>>

\* Mutant: the commit is not announced.
CommitUnannounced ==
    /\ pc = "commit"
    /\ rewrite
    /\ newSizes' = [newSizes EXCEPT !.src = [f \in File |-> IF f \in removed THEN NoSize ELSE @[f]]]
    /\ todo' = removed
    /\ pc' = "unlink"
    /\ UNCHANGED <<index, bySrc, byDst, sizes, pending>>
    /\ Unchanging

\* commit.pending is written and synced before anything else.
CommitBegin ==
    /\ pc = "commit"
    /\ rewrite
    /\ pending' = "set"
    /\ newSizes' = [newSizes EXCEPT !.src = [f \in File |-> IF f \in removed THEN NoSize ELSE @[f]]]
    /\ todo' = removed
    /\ pc' = "unlink"
    /\ UNCHANGED <<index, bySrc, byDst, sizes>>
    /\ Unchanging

\* The forward record of a removed path goes.
UnlinkRecord(f) ==
    /\ pc = "unlink"
    /\ f \in todo
    /\ todo' = todo \ {f}
    /\ bySrc' = [bySrc EXCEPT ![f] = Missing]
    /\ UNCHANGED <<index, byDst, sizes, pending, pc, newSizes>>
    /\ Unchanging

\* The forward records staged are put in one batch.
StartForward ==
    /\ pc = "unlink"
    /\ todo = {}
    /\ todo' = {f \in File : dirtySrc[f] # Missing}
    /\ newSizes' = [newSizes EXCEPT !.src =
                      [f \in File |-> IF f \in todo' THEN SizeOf[dirtySrc[f]] ELSE @[f]]]
    /\ pc' = "forward"
    /\ UNCHANGED <<index, bySrc, byDst, sizes, pending>>
    /\ Unchanging

\* Several threads write the batch: its records appear in any order.
WriteForward(f) ==
    /\ pc = "forward"
    /\ f \in todo
    /\ todo' = todo \ {f}
    /\ bySrc' = [bySrc EXCEPT ![f] = dirtySrc[f]]
    /\ UNCHANGED <<index, byDst, sizes, pending, pc, newSizes>>
    /\ Unchanging

StartReverse ==
    /\ pc = "forward"
    /\ todo = {}
    /\ todo' = dirtyDst
    /\ newSizes' = [newSizes EXCEPT !.dst =
                      [d \in File |-> IF d \notin dirtyDst THEN @[d]
                                     ELSE IF rev[d] = {} THEN NoSize
                                     ELSE SizeOf[rev[d]]]]
    /\ pc' = "reverse"
    /\ UNCHANGED <<index, bySrc, byDst, sizes, pending>>
    /\ Unchanging

\* A target nobody imports any more has no record.
WriteReverse(d) ==
    /\ pc = "reverse"
    /\ d \in todo
    /\ todo' = todo \ {d}
    /\ byDst' = [byDst EXCEPT ![d] = IF rev[d] = {} THEN Missing ELSE rev[d]]
    /\ UNCHANGED <<index, bySrc, sizes, pending, pc, newSizes>>
    /\ Unchanging

SaveIndex ==
    /\ pc = "reverse"
    /\ todo = {}
    /\ index' = rows
    /\ pc' = "sizes"
    /\ UNCHANGED <<bySrc, byDst, sizes, pending, newSizes, todo>>
    /\ Unchanging

SaveSizes ==
    /\ pc = "sizes"
    /\ sizes' = newSizes
    /\ pc' = "commit_done"
    /\ UNCHANGED <<index, bySrc, byDst, pending, newSizes, todo>>
    /\ Unchanging

CommitUnpend ==
    /\ pc = "commit_done"
    /\ pending' = "unlinked"
    /\ pc' = "commit_mark"
    /\ UNCHANGED <<index, bySrc, byDst, sizes, newSizes, todo>>
    /\ Unchanging

CommitMark ==
    /\ pc = "commit_mark"
    /\ pending' = "clear"
    /\ Committed
    /\ UNCHANGED <<tree, index, bySrc, byDst, sizes, safeSrc, safeDst, maps, settled, past>>

-----------------------------------------------------------------------------
\* Lookups and validate: reads without a lock, at any moment

IndexDsts(f) == IF index[f] = NoRow THEN {} ELSE index[f].dsts

\* dependencies: a by_src record that is not whole is a miss, one that is not there is empty.
Dependencies(f) == IF bySrc[f] \in Torn THEN IndexDsts(f) ELSE Lines(bySrc[f])

\* dependents, the same way from by_dst.
Dependents(d) == IF byDst[d] \in Torn THEN ImportersIn(index)[d] ELSE Lines(byDst[d])

\* Mutant: importers too many in a by_dst record are not reported.
ReverseMissesNone == \A d, f \in File : d \in Lines(bySrc[f]) => f \in Lines(byDst[d])

\* by_dst is the inverse of by_src.
ReverseIsInverse == \A d \in File : Lines(byDst[d]) = {f \in File : d \in Lines(bySrc[f])}

\* check_consistency, of the cache as it is: a torn record reads as an empty one, and nobody
\* knows whose it is if the index has no row for it.
Consistent ==
    /\ pending # "set"
    /\ \A f \in File : (bySrc[f] \in Torn \/ byDst[f] \in Torn) => index[f] # NoRow
    /\ ReverseIsInverse
    /\ \A f \in File : IF index[f] = NoRow THEN bySrc[f] = Missing ELSE Lines(bySrc[f]) = index[f].dsts
-----------------------------------------------------------------------------
\* The map artifacts: library.md, then the folder cards, root first

\* What maps_out::current looks for.
MapsPresent == library # NoMap /\ cards # NoMap

\* A run that committed nothing keeps the maps it finds.
Redraws == rewrite \/ ~MapsPresent

Undisturbed == UNCHANGED <<tree, cache, settled, past>>

KeepMaps ==
    /\ pc = "maps"
    /\ ~Redraws
    /\ JobEnds
    /\ UNCHANGED maps
    /\ Undisturbed

DrawLibrary ==
    /\ pc = "maps"
    /\ Redraws
    /\ library' = [f \in File |-> IF f \in Indexed THEN Dependencies(f) ELSE NoRow]
    /\ pc' = "cards"
    /\ UNCHANGED <<cards, request, session>>
    /\ Undisturbed

\* The old cards are removed and the root card is written.
DrawRoot ==
    /\ pc = "cards"
    /\ cards' = [paths |-> Indexed, whole |-> FALSE]
    /\ pc' = "folders"
    /\ UNCHANGED <<library, request, session>>
    /\ Undisturbed

DrawFolders ==
    /\ pc = "folders"
    /\ cards' = [cards EXCEPT !.whole = TRUE]
    /\ JobEnds
    /\ UNCHANGED library
    /\ Undisturbed
-----------------------------------------------------------------------------
\* The surroundings

\* Somebody edits, deletes or creates a source file, at any time.
Edit(f) ==
    /\ at[f] < Len(History[f])
    /\ at' = [at EXCEPT ![f] = @ + 1]
    /\ settled' = FALSE
    /\ UNCHANGED <<disk, pc, request, session, past>>

\* The operating system gets to write the records out.
Writeback ==
    /\ losses < MaxLosses
    /\ <<safeSrc, safeDst>> # <<bySrc, byDst>>
    /\ safeSrc' = bySrc
    /\ safeDst' = byDst
    /\ UNCHANGED <<tree, index, bySrc, byDst, sizes, pending, maps, pc, request, session, settled,
                   past>>

\* The process that runs the job dies, or a write of its own fails.
Crash ==
    /\ pc # "idle"
    /\ crashes < MaxCrashes
    /\ crashes' = crashes + 1
    /\ settled' = FALSE
    /\ JobEnds
    /\ UNCHANGED <<tree, disk, restaged, deletes, losses>>

\* What a power loss leaves of a record: it, what was there when it last reached the disk,
\* or a new file, of its length or shorter, without its bytes.
Survives(record, safe) ==
    {record, safe} \cup
        (IF record \in {safe, Missing} THEN {} ELSE {t \in Torn : SizeOf[t] <= SizeOf[record]})

PowerLoss ==
    /\ losses < MaxLosses
    /\ losses' = losses + 1
    /\ bySrc' \in [File -> Record] /\ \A f \in File : bySrc'[f] \in Survives(bySrc[f], safeSrc[f])
    /\ byDst' \in [File -> Record] /\ \A f \in File : byDst'[f] \in Survives(byDst[f], safeDst[f])
    /\ safeSrc' = bySrc'
    /\ safeDst' = byDst'
    /\ pending' \in IF pending = "unlinked" THEN {"set", "clear"} ELSE {pending}
    /\ settled' = FALSE
    /\ JobEnds
    /\ UNCHANGED <<tree, index, sizes, maps, restaged, deletes, crashes>>

\* What the job at work does next.
JobStep ==
    \/ RebuildStart \/ RebuildFails \/ RebuildClear
    \/ \E d \in File : RebuildRecord(d)
    \/ RebuildIndex \/ RebuildUnpend \/ RebuildMark
    \/ Load \/ Scan \/ Parse \/ Delete
    \/ CommitNothing \/ CommitBegin
    \/ \E f \in File : UnlinkRecord(f)
    \/ StartForward
    \/ \E f \in File : WriteForward(f)
    \/ StartReverse
    \/ \E d \in File : WriteReverse(d)
    \/ SaveIndex \/ SaveSizes \/ CommitUnpend \/ CommitMark
    \/ KeepMaps \/ DrawLibrary \/ DrawRoot \/ DrawFolders

SomeUpdate == \E scope \in Scopes, cap \in Budgets : BeginUpdate(scope, cap)

Next ==
    \/ SomeUpdate
    \/ \E f \in File : BeginDelete(f)
    \/ JobStep
    \/ \E f \in File : Edit(f)
    \/ Writeback
    \/ Crash
    \/ PowerLoss

Spec == Init /\ [][Next]_vars

\* A job that runs gets on; update_maps is run again and again (the daemon does every
\* 600 s, and skills/run.md asks for it while files remain dirty).
Fairness == WF_vars(JobStep) /\ WF_vars(SomeUpdate)

FairSpec == Spec /\ Fairness

-----------------------------------------------------------------------------
\* Properties

\* Every variable has its type.
TypeOK ==
    /\ at \in [File -> Nat] /\ \A f \in File : at[f] \in 1 .. Len(History[f])
    /\ index \in [File -> Row \cup {NoRow}] /\ rows \in [File -> Row \cup {NoRow}]
    /\ bySrc \in [File -> Record] /\ byDst \in [File -> Record]
    /\ safeSrc \in [File -> Record] /\ safeDst \in [File -> Record]
    /\ dirtySrc \in [File -> {Missing} \cup SUBSET File]
    /\ sizes \in Sizes \cup {NoSizes} /\ newSizes \in Sizes
    /\ pending \in {"set", "unlinked", "clear"}
    /\ pc \in {"idle", "open", "rebuild", "rebuild_dst", "rebuild_done", "rebuild_mark", "scan",
              "parse", "delete", "commit", "unlink", "forward", "reverse", "sizes",
              "commit_done", "commit_mark", "maps", "cards", "folders"}
    /\ library \in [File -> {NoRow} \cup SUBSET File] \cup {NoMap}
    /\ cards \in [paths : SUBSET File, whole : BOOLEAN] \cup {NoMap}
    /\ job \in {"none", "update", "delete"} /\ budget \in Nat \cup {NoCap}
    /\ files \subseteq File /\ reparse \subseteq File /\ removed \subseteq File
    /\ dirtyDst \subseteq File /\ todo \subseteq File
    /\ rev \in [File -> SUBSET File]
    /\ DOMAIN hashed \subseteq File /\ \A f \in DOMAIN hashed : hashed[f] \in Content
    /\ rewrite \in BOOLEAN /\ settled \in BOOLEAN /\ restaged \in BOOLEAN
    /\ deletes \in 0..MaxDeletes /\ crashes \in 0..MaxCrashes /\ losses \in 0..MaxLosses

\* What check_consistency compares: every record says what the index says.
Agrees ==
    \A f \in File :
        /\ bySrc[f] = IF index[f] = NoRow THEN Missing ELSE index[f].dsts
        /\ byDst[f] = IF ImportersIn(index)[f] = {} THEN Missing ELSE ImportersIn(index)[f]

\* Without commit.pending the cache is consistent, whatever job died where: as long as the
\* records reach the disk, validate never finds a mismatch it does not find pending for.
ConsistentUnlessPending == (pending # "set" /\ losses = 0) => Agrees

\* The record is the one asked for as far as its length tells, and in every respect while no
\* power was lost.
Alike(record, content) ==
    /\ record # Missing /\ SizeOf[record] = SizeOf[content]
    /\ losses = 0 => record = content

\* What a session takes from the cache without looking inside has the length of what it stands
\* for, whatever was lost and wherever jobs died: sizes.tsv never vouches for another length
\* than the one index.tsv calls for.  A power loss can leave zeros or an older record of that
\* very length, and open takes it, although cache.rs:144 says that content which does not check
\* out is a miss.  Until a job stages lines from a record that is wrong.
TrustIsEarned ==
    (pc \in {"scan", "delete"} /\ ~restaged) =>
        /\ \A f \in File : (rows[f] # NoRow /\ f \notin reparse) => Alike(bySrc[f], rows[f].dsts)
        /\ \A d \in File : (rev[d] # {} /\ d \notin dirtyDst) => Alike(byDst[d], rev[d])

\* The index row of a path is right: there is one exactly if there is a file, it has the
\* hash of what the file holds, and no target that content does not import.
Current(f) ==
    IF Now(f) = Gone
      THEN index[f] = NoRow
      ELSE /\ index[f] # NoRow
           /\ index[f].hash = Now(f)
           /\ index[f].dsts \subseteq ImportsOf[Now(f)]

\* After an update_maps run over the whole tree with no cap, and until the next edit or
\* failure, every row is right.  Nothing a crash or an earlier race left in the cache
\* survives such a run.
CurrentWhenSettled == (pc = "idle" /\ settled) => \A f \in File : Current(f)

\* What the usage text of dependents promises (main.rs:235): the index knows every mapped file
\* that imports a file, after an update_maps run over the whole tree.
DependentsComplete ==
    (pc = "idle" /\ settled) =>
        \A f, g \in File :
            (Now(f) # Gone /\ Now(g) # Gone /\ g # f /\ g \in ImportsOf[Now(f)]) => g \in index[f].dsts

\* After such a run no record is missing, cut short or of another length than the index calls
\* for, whatever a power loss took before it: the worst that stays are zeros or an older record
\* of the same length.  Without a power loss every record says what the index says.  A by_dst
\* record of a target nobody imports is not looked at.
HealedWhenSettled ==
    (pc = "idle" /\ settled /\ ~restaged) =>
        \A f \in File :
            /\ index[f] # NoRow => Alike(bySrc[f], index[f].dsts)
            /\ ImportersIn(index)[f] # {} => Alike(byDst[f], ImportersIn(index)[f])

\* library.md and the folder cards show what the cache has.
MapsShowCache ==
    /\ library = [f \in File |-> IF index[f] = NoRow THEN NoRow ELSE index[f].dsts]
    /\ cards = [paths |-> Indexed, whole |-> TRUE]

\* maps_out.rs:12 says of library.md and the cards that both are functions of the cache, so that
\* a run that commits nothing can keep them: then they show the cache after every run.
MapsFollowCache == (pc = "idle" /\ settled) => MapsShowCache

\* What the readers see: all answers, and how far the commit is that they may notice.
TargetsIn(table) == [f \in File |-> IF table[f] = NoRow THEN {} ELSE table[f].dsts]
AllDependencies == [f \in File |-> Dependencies(f)]
AllDependents == [d \in File |-> Dependents(d)]
Announced == {"unlink", "forward", "reverse", "sizes", "commit_done"}
Phase == IF pending # "set" THEN "steady" ELSE IF pc \in Announced THEN "commit" ELSE "broken"
Due == IF pc \in Announced THEN TargetsIn(rows) ELSE TargetsIn(index)

\* Whatever a job writes and wherever it dies, those who look things up have CacheService: an
\* answer changes only in a commit, once, from the old index to the new, the index last, and
\* repair touches nothing but importers.  As long as the power stays on.
Reader == INSTANCE CacheService WITH
             targets <- AllDependencies, importers <- AllDependents, known <- TargetsIn(index),
             due <- Due, phase <- Phase, compromised <- (losses > 0)
Service == Reader!Spec

\* Where validate finds the cache consistent, every lookup answers what the index says, even
\* with records that a power loss tore, lost or brought back.
ValidatedLookups ==
    Consistent => \A f \in File : Dependencies(f) = IndexDsts(f) /\ Dependents(f) = ImportersIn(index)[f]

\* Capped runs get there as well: run often enough with --max-files, update_maps brings every
\* row up to date and keeps it so, in spite of the edits, deletions and crashes before.
Converges == <>[](\A f \in File : Current(f))
=============================================================================
