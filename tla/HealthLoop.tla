----------------------------- MODULE HealthLoop -----------------------------
(***************************************************************************)
(* The documentation health loop: check_changes, record_change,            *)
(* record_deletion, record_changes, mark_green, and the housekeeping       *)
(* around them (api.rs).  They share file_health.json, its rendering       *)
(* file_health.md (read back when the first has no rows), the journal,     *)
(* pending_updates.md, and the content hashes of the dependency map.       *)
(*                                                                         *)
(* Every job holds .wikifier_staging/.lock (module PidLock), so jobs do    *)
(* not overlap.  People and agents edit sources and wikis without it, at   *)
(* any moment, and a job can die between any two of its writes.  One       *)
(* action is one durable write, or the reads a job does at one moment.     *)
(*                                                                         *)
(* Simplifications:                                                        *)
(* - A content is its own hash.  A record_change or record_deletion always *)
(*   gives the one reason "why".                                           *)
(* - The journal is a set: a line repeated within 120 s, which it skips,   *)
(*   is not told from one repeated later.                                  *)
(* - update_maps is the commit of a run over all of Mapped (module         *)
(*   MapCache), then the seeding of health rows.                           *)
(* - A file named with a path list entry counts as monitored if it exists. *)
(***************************************************************************)
EXTENDS Integers, Sequences, FiniteSets, FiniteSetsExt

CONSTANTS
    File,         \* numbered in the order of their names
    Content,      \* what a source file can hold
    Doc,          \* what a wiki can hold
    Symbol,
    Gone,         \* there is no source file
    NoWiki,       \* there is no wiki, or an empty one
    NoHash,       \* a row without a source hash
    NoRow,
    NoCap,        \* WIKIFIER_CHECK_CHANGES_MAX = 0
    Symbols,      \* the public symbols of each content
    Mentions,     \* the symbols each wiki mentions
    Long,         \* the wikis heal_stubs finds long enough
    Extracted,    \* the files with a symbol extractor for their language
    Mapped,       \* the files of the map's scope
    Monitored,    \* the files monitored_paths.txt names
    History,      \* the contents each source goes through
    WikiHistory,  \* the contents each wiki goes through
    CheckCap,     \* how many files one check_changes looks at
    MaxJobs,      \* bound: jobs other than check_changes
    MaxCrashes    \* bound: jobs that die

Hash == Content \cup {NoHash}
Row == [status : {"green", "yellow", "red"},
        reason : {"stub", "why", "changed", "missing", "marked", "healed"},
        hash : Hash,
        verification : {"", "no_wiki", "unchecked", "forced", "verified", "deleted"},
        symbols : SUBSET Symbol,
        wiki : Doc \cup {NoWiki}]

ASSUME HealthLoopAssumption ==
    /\ File \subseteq Nat /\ IsFiniteSet(File)
    /\ Gone \notin Content /\ NoHash \notin Content
    /\ NoWiki \notin Doc /\ NoRow \notin Row
    /\ Symbols \in [Content -> SUBSET Symbol]
    /\ Mentions \in [Doc -> SUBSET Symbol]
    /\ Long \subseteq Doc
    /\ Extracted \subseteq File /\ Mapped \subseteq File /\ Monitored \subseteq File
    /\ \A f \in File : History[f] \in Seq(Content \cup {Gone}) /\ History[f] # <<>>
    /\ \A f \in File : WikiHistory[f] \in Seq(Doc \cup {NoWiki}) /\ WikiHistory[f] # <<>>
    /\ CheckCap \in Nat \cup {NoCap}
    /\ MaxJobs \in Nat /\ MaxCrashes \in Nat

VARIABLES
    at, wikiAt,     \* how far into its history each source and each wiki is
    json, md,       \* file_health.json and file_health.md
    journal,        \* the lines in it: [action, file, reason]
    pending,        \* the files with an item in pending_updates.md
    index,          \* the content hash of each mapped file in index.tsv
    \* the job that runs
    pc,
    plan,           \* what it is still to do: a function from files to "record" or "delete"
    file,           \* the file it is at
    flags,          \* its options: --green, --force
    found,          \* what mark_green read: symbols and verification
    rows, left,     \* check_changes: the rows, and the files not yet looked at
    changed,        \* check_changes: whether the rows are to be written
    after,          \* what follows the write of file_health.md
    \* bookkeeping
    settled,        \* check_changes has looked at every file and nothing moved since it began
    unbacked,       \* files that may be Green for a content no wiki was checked against
    jobs, crashes

sources == <<at, wikiAt>>
state == <<json, md, journal, pending, index>>
local == <<plan, file, flags, found, rows, left, changed>>
marks == <<settled, unbacked, jobs, crashes>>
vars == <<sources, state, pc, local, after, marks>>

Now(f) == History[f][at[f]]
WikiNow(f) == WikiHistory[f][wikiAt[f]]
Exists(f) == Now(f) # Gone

\* Mutant: the hash of a file that cannot be read is taken over as it is.
HashUnchecked(f) == Now(f)

\* file_sha256_prefixed(path).unwrap_or_default()
HashNow(f) == IF Exists(f) THEN Now(f) ELSE NoHash

Line(action, f, reason) == [action |-> action, file |-> f, reason |-> reason]

\* What a row keeps in file_health.md.
Stripped(row) ==
    IF row = NoRow THEN NoRow
    ELSE [row EXCEPT !.hash = NoHash, !.verification = "", !.symbols = {}, !.wiki = NoWiki]

\* read_health: file_health.json, unless it has no rows.
Health == IF \E f \in File : json[f] # NoRow THEN json ELSE md

\* A new row takes the symbols and the wiki hash of the old one.
Renewed(status, reason, hash, verification, old) ==
    [status |-> status, reason |-> reason, hash |-> hash, verification |-> verification,
     symbols |-> IF old = NoRow THEN {} ELSE old.symbols,
     wiki |-> IF old = NoRow THEN NoWiki ELSE old.wiki]

NoFinding == [symbols |-> {}, verification |-> ""]
NoPlan == [f \in {} |-> "record"]
NoFlags == [green |-> FALSE, force |-> FALSE]
NoRows == [f \in File |-> NoRow]

Init ==
    /\ at = [f \in File |-> 1] /\ wikiAt = [f \in File |-> 1]
    /\ json = NoRows /\ md = NoRows
    /\ journal = {}
    /\ pending = {}
    /\ index = [f \in File |-> NoHash]
    /\ pc = "idle"
    /\ plan = NoPlan /\ file = 0 /\ flags = NoFlags /\ found = NoFinding
    /\ rows = NoRows /\ left = {} /\ changed = FALSE
    /\ after = "idle"
    /\ settled = FALSE /\ unbacked = {}
    /\ jobs = 0 /\ crashes = 0

-----------------------------------------------------------------------------
\* Steps that jobs share

ForgetLocal ==
    /\ plan' = NoPlan /\ file' = 0 /\ flags' = NoFlags /\ found' = NoFinding
    /\ rows' = NoRows /\ left' = {} /\ changed' = FALSE

\* A job begins.  Only check_changes can settle what it finds.
Starts(l) ==
    /\ pc = "idle"
    /\ jobs < MaxJobs
    /\ jobs' = jobs + 1
    /\ settled' = FALSE
    /\ pc' = l

\* write_health writes file_health.json and then file_health.md.
WriteJson(table, l) ==
    /\ json' = table
    /\ pc' = "md"
    /\ after' = l

WriteMd ==
    /\ pc = "md"
    /\ md' = [f \in File |-> Stripped(json[f])]
    /\ pc' = after
    /\ after' = "idle"
    /\ UNCHANGED <<sources, json, journal, pending, index, local, marks>>

Upsert(f, row, l) == WriteJson([Health EXCEPT ![f] = row], l)

\* The item of a file is done with, whatever came of it, and the lock goes with the last.
Finish(f) == plan' = [g \in DOMAIN plan \ {f} |-> plan[g]] /\ pc' = "next"

Current == Min(DOMAIN plan)

End ==
    /\ pc = "next"
    /\ DOMAIN plan = {}
    /\ pc' = "idle"
    /\ ForgetLocal
    /\ UNCHANGED <<sources, state, after, marks>>
-----------------------------------------------------------------------------
\* record_change, record_deletion, record_changes

\* One file, or what git says changed: what is not there any more is a deletion.
Record(S, green) ==
    /\ Starts("next")
    /\ plan' = [f \in S |-> IF Exists(f) THEN "record" ELSE "delete"]
    /\ flags' = [green |-> green, force |-> FALSE]
    /\ UNCHANGED <<sources, state, file, found, rows, left, changed, after, unbacked, crashes>>

\* record_deletion does not look whether the file is there.
RecordDeletion(f) ==
    /\ Starts("next")
    /\ plan' = [g \in {f} |-> "delete"]
    /\ UNCHANGED <<sources, state, file, flags, found, rows, left, changed, after, unbacked,
                   crashes>>

\* Mutant: the health row is written before the journal.
ChangeUnjournaled ==
    /\ pc = "next"
    /\ DOMAIN plan # {}
    /\ plan[Current] = "record"
    /\ Exists(Current)
    /\ file' = Current
    /\ pc' = "row"
    /\ UNCHANGED <<sources, state, plan, flags, found, rows, left, changed, after, marks>>

\* FileNotFound leaves nothing; otherwise the journal comes first.
Change ==
    /\ pc = "next"
    /\ DOMAIN plan # {}
    /\ plan[Current] = "record"
    /\ IF Exists(Current)
         THEN /\ journal' = journal \cup {Line("record-change", Current, "why")}
              /\ file' = Current
              /\ pc' = "row"
              /\ UNCHANGED plan
         ELSE /\ Finish(Current)
              /\ UNCHANGED <<journal, file>>
    /\ UNCHANGED <<sources, json, md, pending, index, flags, found, rows, left, changed, after,
                   marks>>

\* The file is hashed after the journal was written.
ChangeRow ==
    /\ pc = "row"
    /\ Upsert(file, Renewed("yellow", "why", HashNow(file), "", Health[file]), "queue")
    /\ UNCHANGED <<sources, md, journal, pending, index, local, marks>>

\* The item in pending_updates.md; record_changes --green goes on to mark_green.
Queue ==
    /\ pc = "queue"
    /\ pending' = pending \cup {file}
    /\ IF flags.green THEN pc' = "mark" /\ UNCHANGED plan ELSE Finish(file)
    /\ UNCHANGED <<sources, json, md, journal, index, file, flags, found, rows, left, changed,
                   after, marks>>

Deletion ==
    /\ pc = "next"
    /\ DOMAIN plan # {}
    /\ plan[Current] = "delete"
    /\ journal' = journal \cup {Line("record-deletion", Current, "why")}
    /\ file' = Current
    /\ pc' = "red"
    /\ UNCHANGED <<sources, json, md, pending, index, plan, flags, found, rows, left, changed,
                   after, marks>>

\* The Red row keeps the hash of the old one.
DeletionRow ==
    /\ pc = "red"
    /\ LET old == Health[file]
       IN  Upsert(file, Renewed("red", "why", IF old = NoRow THEN NoHash ELSE old.hash,
                                "deleted", old), "unmap")
    /\ UNCHANGED <<sources, md, journal, pending, index, local, marks>>

Unmap ==
    /\ pc = "unmap"
    /\ index' = [index EXCEPT ![file] = NoHash]
    /\ pc' = "drop"
    /\ UNCHANGED <<sources, json, md, journal, pending, local, after, marks>>

\* CacheError: the row stays Red and the item stays queued.
UnmapFails ==
    /\ pc = "unmap"
    /\ crashes < MaxCrashes
    /\ crashes' = crashes + 1
    /\ Finish(file)
    /\ UNCHANGED <<sources, state, file, flags, found, rows, left, changed, after,
                   settled, unbacked, jobs>>

\* drop_pending_line
Drop ==
    /\ pc = "drop"
    /\ pending' = pending \ {file}
    /\ Finish(file)
    /\ UNCHANGED <<sources, json, md, journal, index, file, flags, found, rows, left, changed,
                   after, marks>>
-----------------------------------------------------------------------------
\* mark_green

MarkGreen(f, force) ==
    /\ Starts("mark")
    /\ file' = f
    /\ flags' = [green |-> FALSE, force |-> force]
    /\ UNCHANGED <<sources, state, plan, found, rows, left, changed, after, unbacked, crashes>>

SymbolsNow(f) == IF Exists(f) /\ f \in Extracted THEN Symbols[Now(f)] ELSE {}

\* Mutant: symbols the wiki does not mention are no issue.
IssuesRemovedOnly(symbols, doc, old) ==
    /\ old # NoRow
    /\ old.symbols # {} \/ old.wiki # NoWiki
    /\ \/ (old.symbols \ symbols) \cap Mentions[doc] # {}
       \/ old.symbols # symbols /\ old.wiki = doc

\* wiki_verdict: a symbol the wiki misses, one it still mentions, or a wiki that did not
\* change with the symbols.
Issues(symbols, doc, old) ==
    \/ ~(symbols \subseteq Mentions[doc])
    \/ /\ old # NoRow
       /\ old.symbols # {} \/ old.wiki # NoWiki
       /\ \/ (old.symbols \ symbols) \cap Mentions[doc] # {}
          \/ old.symbols # symbols /\ old.wiki = doc

\* The symbols and the wiki are read and compared.  A refusal changes nothing.
Verify ==
    /\ pc = "mark"
    /\ LET symbols == SymbolsNow(file)
           doc == WikiNow(file)
           wrong == file \in Extracted /\ Issues(symbols, doc, Health[file])
           Go(v) == /\ found' = [symbols |-> symbols, verification |-> v]
                    /\ pc' = "green"
                    /\ UNCHANGED plan
       IN  CASE ~Exists(file) -> Finish(file) /\ UNCHANGED found
             [] Exists(file) /\ doc = NoWiki -> Go("no_wiki")
             [] Exists(file) /\ doc # NoWiki /\ wrong /\ ~flags.force -> Finish(file) /\ UNCHANGED found
             [] OTHER -> Go(CASE file \notin Extracted -> "unchecked"
                              [] wrong -> "forced"
                              [] OTHER -> "verified")
    /\ UNCHANGED <<sources, state, file, flags, rows, left, changed, after, marks>>

\* write_green_row hashes the source and the wiki as they are by now.
Green ==
    /\ pc = "green"
    /\ Upsert(file, [status |-> "green", reason |-> "marked", hash |-> HashNow(file),
                     verification |-> found.verification, symbols |-> found.symbols,
                     wiki |-> WikiNow(file)], "drop")
    /\ UNCHANGED <<sources, md, journal, pending, index, local, marks>>
-----------------------------------------------------------------------------
\* check_changes

Watched == {f \in File : \/ Health[f] # NoRow
                         \/ index[f] # NoHash
                         \/ f \in Monitored /\ Exists(f)}

\* The first CheckCap of the files in the order of their names.
Looked(S) ==
    IF CheckCap = NoCap THEN S ELSE {f \in S : Cardinality({g \in S : g < f}) < CheckCap}

CheckChanges ==
    /\ pc = "idle"
    /\ rows' = Health
    /\ left' = Looked(Watched)
    /\ settled' = (Looked(Watched) = Watched)
    /\ pc' = "check"
    /\ UNCHANGED <<sources, state, plan, file, flags, found, changed, after, unbacked, jobs, crashes>>

Next1 == Min(left)

\* A watched file that is not there turns Red, once, and is not queued.
CheckMissing ==
    /\ pc = "check"
    /\ left # {}
    /\ ~Exists(Next1)
    /\ LET old == rows[Next1]
       IN  IF old # NoRow /\ old.status = "red"
             THEN UNCHANGED <<rows, journal, changed>>
             ELSE /\ rows' = [rows EXCEPT ![Next1] =
                                Renewed("red", "missing",
                                        IF old = NoRow THEN NoHash ELSE old.hash,
                                        IF old = NoRow THEN "" ELSE old.verification, old)]
                  /\ journal' = journal \cup {Line("check-changes", Next1, "missing")}
                  /\ changed' = TRUE
    /\ left' = left \ {Next1}
    /\ UNCHANGED <<sources, json, md, pending, index, pc, plan, file, flags, found, after, marks>>

\* Mutant: a file is compared with the map, which update_maps keeps up to date.
DriftedFromMap(f) == index[f] # NoHash /\ index[f] # Now(f)

\* Whether a file differs from its row, or without a hash there from the map.
Drifted(f) ==
    IF rows[f] # NoRow /\ rows[f].hash # NoHash
      THEN rows[f].hash # Now(f)
      ELSE index[f] # NoHash /\ index[f] # Now(f)

Flagged(row) == row # NoRow /\ row.status = "yellow" /\ row.reason = "changed"

CheckSame ==
    /\ pc = "check"
    /\ left # {}
    /\ Exists(Next1)
    /\ ~Drifted(Next1) \/ Flagged(rows[Next1])
    /\ left' = left \ {Next1}
    /\ UNCHANGED <<sources, state, pc, plan, file, flags, found, rows, changed, after, marks>>

\* Mutant: drift is reported and journaled, and the row stays as it is.
CheckDriftReported ==
    /\ pc = "check"
    /\ left # {}
    /\ Exists(Next1)
    /\ Drifted(Next1) /\ ~Flagged(rows[Next1])
    /\ journal' = journal \cup {Line("check-changes", Next1, "changed")}
    /\ file' = Next1
    /\ left' = left \ {Next1}
    /\ pc' = "check_queue"
    /\ UNCHANGED <<sources, json, md, pending, index, plan, flags, found, rows, changed, after, marks>>

\* Drift turns a file Yellow with the hash it had, and is journaled at once.
CheckDrift ==
    /\ pc = "check"
    /\ left # {}
    /\ Exists(Next1)
    /\ Drifted(Next1) /\ ~Flagged(rows[Next1])
    /\ LET old == rows[Next1]
       IN  rows' = [rows EXCEPT ![Next1] =
                      Renewed("yellow", "changed",
                              IF old # NoRow /\ old.hash # NoHash THEN old.hash ELSE Now(Next1),
                              IF old = NoRow THEN "" ELSE old.verification, old)]
    /\ journal' = journal \cup {Line("check-changes", Next1, "changed")}
    /\ changed' = TRUE
    /\ file' = Next1
    /\ left' = left \ {Next1}
    /\ pc' = "check_queue"
    /\ UNCHANGED <<sources, json, md, pending, index, plan, flags, found, after, marks>>

\* Mutant: a changed file is not queued.
CheckQueueSkipped ==
    /\ pc = "check_queue"
    /\ pc' = "check"
    /\ UNCHANGED <<sources, state, local, after, marks>>

CheckQueue ==
    /\ pc = "check_queue"
    /\ pending' = pending \cup {file}
    /\ pc' = "check"
    /\ UNCHANGED <<sources, json, md, journal, index, local, after, marks>>

\* The rows are written when the last file was looked at.
CheckWrite ==
    /\ pc = "check"
    /\ left = {}
    /\ IF changed THEN WriteJson(rows, "next") ELSE pc' = "next" /\ UNCHANGED <<json, after>>
    /\ UNCHANGED <<sources, md, journal, pending, index, local, marks>>
-----------------------------------------------------------------------------
\* Housekeeping

\* A job that writes the rows of table, if it changes any of them.
Rewrite(table, l) ==
    IF table # Health THEN WriteJson(table, l) ELSE UNCHANGED <<json, after, pc>>

Housekeeping ==
    /\ pc = "idle"
    /\ jobs < MaxJobs
    /\ jobs' = jobs + 1
    /\ settled' = FALSE

\* A stub whose wiki is long enough turns Green with the hash it was seeded with.
HealStubs ==
    /\ Housekeeping
    /\ LET healed == {f \in File : Health[f] # NoRow /\ Health[f].reason = "stub" /\ WikiNow(f) \in Long}
       IN  /\ Rewrite([f \in File |->
                         IF f \in healed
                           THEN [Health[f] EXCEPT !.status = "green", !.reason = "healed",
                                                  !.verification = "verified"]
                           ELSE Health[f]], "next")
           /\ unbacked' = unbacked \cup healed
    /\ UNCHANGED <<sources, md, journal, pending, index, local, crashes>>

\* Green rows get the hash of what the file holds; without --force only those that have none.
SeedSourceHashes(force) ==
    /\ Housekeeping
    /\ LET seeded == {f \in File : /\ Health[f] # NoRow
                                   /\ Health[f].status = "green"
                                   /\ Health[f].hash = NoHash \/ force
                                   /\ Exists(f)}
       IN  /\ Rewrite([f \in File |-> IF f \in seeded THEN [Health[f] EXCEPT !.hash = Now(f)] ELSE Health[f]],
                      "next")
           /\ unbacked' = unbacked \cup seeded
    /\ UNCHANGED <<sources, md, journal, pending, index, local, crashes>>

\* What a path list names stays, and what the map's scope holds.
Kept(f) == f \in Mapped \/ (f \in Monitored /\ Exists(f))

\* prune-health drops the rows outside of the scope, with --deleted-missing also those of files
\* that are not there, and then their items.
PruneHealth(deletedMissing) ==
    /\ Housekeeping
    /\ WriteJson([f \in File |-> IF Kept(f) /\ (deletedMissing => Exists(f)) THEN Health[f] ELSE NoRow],
                 IF deletedMissing THEN "prune" ELSE "next")
    /\ UNCHANGED <<sources, md, journal, pending, index, local, unbacked, crashes>>

PrunePending ==
    /\ pc = "prune"
    /\ pending' = {f \in pending : Exists(f)}
    /\ pc' = "next"
    /\ UNCHANGED <<sources, json, md, journal, index, local, after, marks>>

\* prune-pending: the items outside of the scope go, their rows stay.
PruneQueue ==
    /\ Starts("next")
    /\ pending' = {f \in pending : Kept(f)}
    /\ UNCHANGED <<sources, json, md, journal, index, local, after, unbacked, crashes>>

UpdateMaps ==
    /\ Starts("seed")
    /\ index' = [f \in File |-> IF f \in Mapped THEN HashNow(f) ELSE NoHash]
    /\ UNCHANGED <<sources, json, md, journal, pending, local, after, unbacked, crashes>>

\* seed_health_from_map: a stub for every mapped file without a row.  A list of real paths in
\* monitored_paths.txt restricts it.
Seed ==
    /\ pc = "seed"
    /\ LET new == {f \in File : /\ index[f] # NoHash
                                /\ Monitored = {} \/ f \in Monitored
                                /\ Health[f] = NoRow}
           table == [f \in File |-> IF f \in new
                                      THEN Renewed("yellow", "stub", HashNow(f), "no_wiki", NoRow)
                                      ELSE Health[f]]
       IN  IF new # {} THEN WriteJson(table, "next") ELSE pc' = "next" /\ UNCHANGED <<json, after>>
    /\ UNCHANGED <<sources, md, journal, pending, index, local, marks>>
-----------------------------------------------------------------------------
\* What agents are told: reads without the lock, at any moment

Rows(status) == {f \in File : Health[f] # NoRow /\ Health[f].status = status}

\* The actions of suggest_next, in a scope without a risk.
SuggestedDeletions == Rows("red")
SuggestedEdits == {f \in Rows("yellow") : Health[f].reason # "stub"}

Readiness ==
    IF index = [f \in File |-> NoHash] \/ Health = NoRows THEN "blocked"
    ELSE IF SuggestedDeletions # {} THEN "not_ready"
    ELSE IF SuggestedEdits # {} THEN "ready_with_agent_wiki_work"
    ELSE "ready_for_daemon"

StaleWikis ==
    {f \in File : /\ Health[f] # NoRow
                  /\ WikiNow(f) # NoWiki
                  /\ \/ Exists(f) /\ Health[f].hash \notin {NoHash, Now(f)}
                     \/ Flagged(Health[f])}

\* The Green files that verify_wikis finds fault with.
FailedWikis ==
    {f \in Rows("green") : /\ Exists(f) /\ WikiNow(f) # NoWiki
                           /\ f \in Extracted
                           /\ Issues(SymbolsNow(f), WikiNow(f), Health[f])}
-----------------------------------------------------------------------------
\* The surroundings

\* An edit between what mark_green read and what it hashes goes unseen.
Slips(f) == IF pc = "green" /\ file = f THEN {f} ELSE {}

\* Somebody edits, deletes or restores a source file.
Edit(f) ==
    /\ at[f] < Len(History[f])
    /\ at' = [at EXCEPT ![f] = @ + 1]
    /\ settled' = FALSE
    /\ unbacked' = unbacked \cup Slips(f)
    /\ UNCHANGED <<wikiAt, state, pc, local, after, jobs, crashes>>

\* Somebody writes a wiki.
EditWiki(f) ==
    /\ wikiAt[f] < Len(WikiHistory[f])
    /\ wikiAt' = [wikiAt EXCEPT ![f] = @ + 1]
    /\ unbacked' = unbacked \cup Slips(f)
    /\ UNCHANGED <<at, state, pc, local, after, settled, jobs, crashes>>

\* The process that runs the job dies.
Crash ==
    /\ pc # "idle"
    /\ crashes < MaxCrashes
    /\ crashes' = crashes + 1
    /\ pc' = "idle"
    /\ after' = "idle"
    /\ settled' = FALSE
    /\ ForgetLocal
    /\ UNCHANGED <<sources, state, unbacked, jobs>>

\* What the job at work does next.
JobStep ==
    \/ WriteMd \/ End
    \/ Change \/ ChangeRow \/ Queue
    \/ Deletion \/ DeletionRow \/ Unmap \/ Drop
    \/ Verify \/ Green
    \/ CheckMissing \/ CheckSame \/ CheckDrift \/ CheckQueue \/ CheckWrite
    \/ PrunePending \/ Seed

Next ==
    \/ \E S \in SUBSET File \ {{}}, green \in BOOLEAN : Record(S, green)
    \/ \E f \in File : RecordDeletion(f)
    \/ \E f \in File, force \in BOOLEAN : MarkGreen(f, force)
    \/ CheckChanges
    \/ HealStubs
    \/ \E force \in BOOLEAN : SeedSourceHashes(force)
    \/ \E deletedMissing \in BOOLEAN : PruneHealth(deletedMissing)
    \/ PruneQueue
    \/ UpdateMaps
    \/ JobStep
    \/ UnmapFails
    \/ \E f \in File : Edit(f)
    \/ \E f \in File : EditWiki(f)
    \/ Crash

Spec == Init /\ [][Next]_vars

\* A job that runs gets on, and check_changes is run again and again (the daemon does every
\* poll interval, monitor_loop every interval_s).
Fairness == WF_vars(JobStep) /\ WF_vars(CheckChanges)

FairSpec == Spec /\ Fairness

-----------------------------------------------------------------------------
\* Properties

\* Every variable has its type.
TypeOK ==
    /\ at \in [File -> Nat] /\ wikiAt \in [File -> Nat]
    /\ \A f \in File : at[f] \in 1 .. Len(History[f]) /\ wikiAt[f] \in 1 .. Len(WikiHistory[f])
    /\ json \in [File -> Row \cup {NoRow}] /\ md \in [File -> Row \cup {NoRow}]
    /\ rows \in [File -> Row \cup {NoRow}]
    /\ journal \subseteq [action : {"record-change", "record-deletion", "check-changes"}, file : File,
                          reason : {"why", "changed", "missing"}]
    /\ pending \subseteq File
    /\ index \in [File -> Hash]
    /\ pc \in {"idle", "next", "md", "row", "queue", "red", "unmap", "drop", "mark", "green",
              "check", "check_queue", "prune", "seed"}
    /\ after \in {"idle", "next", "queue", "unmap", "drop", "prune"}
    /\ DOMAIN plan \subseteq File /\ \A f \in DOMAIN plan : plan[f] \in {"record", "delete"}
    /\ file \in File \cup {0}
    /\ flags \in [green : BOOLEAN, force : BOOLEAN]
    /\ found \in [symbols : SUBSET Symbol,
                 verification : {"", "no_wiki", "unchecked", "forced", "verified"}]
    /\ left \subseteq File /\ unbacked \subseteq File
    /\ changed \in BOOLEAN /\ settled \in BOOLEAN
    /\ jobs \in 0 .. MaxJobs /\ crashes \in 0 .. MaxCrashes

\* After check_changes has looked at every file, and until somebody touches one or another job
\* runs, suggest_next names every watched file that is gone or holds something else than its row,
\* or without a row the map, says - whatever died or was pruned, seeded or remapped before.
\* stale_wikis finds nothing it does not name, and ready_for_daemon means that there is nothing.
AdviceIsComplete ==
    (settled /\ pc = "idle") =>
        LET known(f) == IF Health[f] # NoRow /\ Health[f].hash # NoHash THEN Health[f].hash ELSE index[f]
            drifted == {f \in Watched : ~Exists(f) \/ known(f) \notin {NoHash, Now(f)}}
        IN  /\ drifted \cup StaleWikis \subseteq SuggestedDeletions \cup SuggestedEdits
            /\ Readiness = "ready_for_daemon" => drifted \cup StaleWikis = {}

\* A verified Green row was earned: the wiki with the hash it records mentions every public
\* symbol of the source with the hash it records, and its symbols are those - unless an edit
\* slipped in while mark_green ran, or the hash was not written by mark_green.  So verify_wikis
\* finds no fault while neither changes.
GreenIsBacked ==
    \A f \in File \ unbacked :
        LET row == json[f]
        IN  (row # NoRow /\ row.status = "green" /\ row.verification = "verified" /\ row.hash # NoHash) =>
                /\ row.symbols = Symbols[row.hash]
                /\ row.wiki # NoWiki /\ row.symbols \subseteq Mentions[row.wiki]
                /\ (row.hash = Now(f) /\ row.wiki = WikiNow(f)) => f \notin FailedWikis

\* What skills/run.md says of Green: the wiki was checked against the code, and both hashes and
\* the symbols were captured then.
GreenWasChecked ==
    \A f \in File :
        LET row == json[f]
        IN  (row # NoRow /\ row.status = "green" /\ row.verification = "verified" /\ row.hash # NoHash) =>
                /\ row.symbols = Symbols[row.hash]
                /\ row.wiki # NoWiki /\ row.symbols \subseteq Mentions[row.wiki]

\* The reason of every Yellow or Red row is in the journal, whatever job died where: search-journal
\* and why_file can always answer for a file that waits for work.  A stub needs no reason.
StatusIsExplained ==
    \A f \in File : \A table \in {json, md} :
        (table[f] # NoRow /\ table[f].status # "green" /\ table[f].reason # "stub") =>
            \E line \in journal : line.file = f /\ line.reason = table[f].reason

\* While no job died, a mapped file that waits for a wiki has its item in pending_updates.md, if
\* it was there all the time: prune_health looks twice, and keeps the row but not the item of a file
\* that goes in between.
QueueCoversYellow ==
    (pc = "idle" /\ crashes = 0) =>
        \A f \in File : (/\ json[f] # NoRow /\ json[f].status = "yellow" /\ json[f].reason # "stub"
                        /\ f \in Mapped
                        /\ \A i \in 1 .. at[f] : History[f][i] # Gone) => f \in pending

\* A Green row of another content does not last: a later check_changes takes the Green away,
\* unless the content comes back or somebody vouches for it.
DriftIsFlagged ==
    \A f \in File :
        (json[f] # NoRow /\ json[f].status = "green" /\ json[f].hash # NoHash /\ json[f].hash # Now(f))
            ~> (json[f] = NoRow \/ json[f].status # "green" \/ json[f].hash \in {NoHash, HashNow(f)})
=============================================================================
