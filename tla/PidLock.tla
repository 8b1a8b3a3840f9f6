------------------------------- MODULE PidLock -------------------------------
(***************************************************************************)
(* The advisory pid-file lock.  The program has two of them with the same  *)
(* protocol: .wikifier_staging/.lock (project_lock.rs, re-entrant within a *)
(* thread) and wk_cache/wk.lock (LockGuard in cache_commit.rs, which is    *)
(* the case MaxDepth = 1).                                                 *)
(*                                                                         *)
(* One action is one file-system call: create_new, the write of the pid,   *)
(* the first read of try_steal, its liveness or age test, the second read, *)
(* the unlink.  Everything in between can be interleaved.                  *)
(*                                                                         *)
(* Simplifications:                                                        *)
(* - The lock text is the pid alone.  The time stamp beside it only ever   *)
(*   makes two texts of one process differ, and a text of a live process   *)
(*   is never stale.                                                       *)
(* - A process that died does not come back with the same pid.             *)
(* - Reads, unlinks and stat fail only because the file is not there.      *)
(***************************************************************************)
EXTENDS Naturals, FiniteSets

CONSTANTS
    Thread,
    Process,
    ProcOf,       \* the process each thread belongs to
    Unstamped,    \* the text of a lock file between create_new and the write
    NoLock,       \* there is no lock file
    SlowStamp,    \* whether a live creator may take 5 s or more to write its pid
    MaxDepth,     \* bound: guards one thread nests (1: not re-entrant)
    MaxOps,       \* bound: outermost acquires one thread makes
    MaxCrashes,   \* bound: processes that die
    MaxFaults     \* bound: write or sync errors after create_new

ASSUME PidLockAssumption ==
    /\ ProcOf \in [Thread -> Process]
    /\ Unstamped \notin Process
    /\ NoLock \notin [by : Thread, text : Process \cup {Unstamped}, aged : BOOLEAN]
    /\ SlowStamp \in BOOLEAN
    /\ MaxDepth \in Nat \ {0}
    /\ MaxOps \in Nat
    /\ MaxCrashes \in Nat
    /\ MaxFaults \in Nat

VARIABLES
    lock,      \* the file at the lock path, or NoLock
    pc,        \* where each thread is in acquire
    seen,      \* the text its try_steal read first
    depth,     \* DEPTH, the thread-local count of guards
    expired,   \* whether its 30 s deadline has passed
    alive,     \* whether each process runs
    ops,       \* outermost acquires begun
    crashes,   \* processes that died so far
    faults,    \* write and sync errors so far
    raced      \* a stale verdict was reached where the protocol cannot back it

vars == <<lock, pc, seen, depth, expired, alive, ops, crashes, faults, raced>>

Text == Process \cup {Unstamped}

\* aged: the file is at least 5 s old.  by is the creator, and so names the inode:
\* a thread that is still to write its pid writes into its own file or into nothing.
LockFile == [by : Thread, text : Text, aged : BOOLEAN]

Running(t) == alive[ProcOf[t]]

Goto(t, l) == pc' = [pc EXCEPT ![t] = l]

Init ==
    /\ lock = NoLock
    /\ pc = [t \in Thread |-> "idle"]
    /\ seen = [t \in Thread |-> Unstamped]
    /\ depth = [t \in Thread |-> 0]
    /\ expired = [t \in Thread |-> FALSE]
    /\ alive = [p \in Process |-> TRUE]
    /\ ops = [t \in Thread |-> 0]
    /\ crashes = 0
    /\ faults = 0
    /\ raced = FALSE

-----------------------------------------------------------------------------
\* acquire

\* A thread with no guard computes the deadline and enters the loop.
Begin(t) ==
    /\ Running(t)
    /\ pc[t] = "idle"
    /\ ops[t] < MaxOps
    /\ ops' = [ops EXCEPT ![t] = @ + 1]
    /\ expired' = [expired EXCEPT ![t] = FALSE]
    /\ Goto(t, "create")
    /\ UNCHANGED <<lock, seen, depth, alive, crashes, faults, raced>>

\* A thread that has a guard gets another one without touching the file.
Nest(t) ==
    /\ Running(t)
    /\ pc[t] = "held"
    /\ depth[t] < MaxDepth
    /\ depth' = [depth EXCEPT ![t] = @ + 1]
    /\ UNCHANGED <<lock, pc, seen, expired, alive, ops, crashes, faults, raced>>

\* create_new made the file: it exists, and is empty.
CreateNew(t) ==
    /\ Running(t)
    /\ pc[t] = "create"
    /\ lock = NoLock
    /\ lock' = [by |-> t, text |-> Unstamped, aged |-> FALSE]
    /\ Goto(t, "stamp")
    /\ UNCHANGED <<seen, depth, expired, alive, ops, crashes, faults, raced>>

\* create_new found the file.
AlreadyExists(t) ==
    /\ Running(t)
    /\ pc[t] = "create"
    /\ lock # NoLock
    /\ Goto(t, "read")
    /\ UNCHANGED <<lock, seen, depth, expired, alive, ops, crashes, faults, raced>>

\* Mutant: the stamp names the thread where it must name the process.
StampedWithThread(t) ==
    IF lock # NoLock /\ lock.by = t
      THEN [lock EXCEPT !.text = t]
      ELSE lock

\* The lock file if thread t's write reaches it, with the pid in it.
Stamped(t) ==
    IF lock # NoLock /\ lock.by = t
      THEN [lock EXCEPT !.text = ProcOf[t]]
      ELSE lock

\* The pid is written and synced, and the caller gets its guard.
Stamp(t) ==
    /\ Running(t)
    /\ pc[t] = "stamp"
    /\ lock' = Stamped(t)
    /\ depth' = [depth EXCEPT ![t] = 1]
    /\ Goto(t, "held")
    /\ UNCHANGED <<seen, expired, alive, ops, crashes, faults, raced>>

\* The write fails, or the sync after it does: acquire returns the error and the
\* file stays behind, empty or with the pid of a process that does not hold it.
StampFails(t) ==
    /\ Running(t)
    /\ pc[t] = "stamp"
    /\ faults < MaxFaults
    /\ faults' = faults + 1
    /\ lock' \in {lock, Stamped(t)}
    /\ Goto(t, "idle")
    /\ UNCHANGED <<seen, depth, expired, alive, ops, crashes, raced>>
-----------------------------------------------------------------------------
\* try_steal

\* try_steal returns: the text it read is out of scope.
Return(t, l) ==
    /\ Goto(t, l)
    /\ seen' = [seen EXCEPT ![t] = Unstamped]

\* The first read.  A file that is gone is an error, and try_steal gives up.
ReadText(t) ==
    /\ Running(t)
    /\ pc[t] = "read"
    /\ IF lock = NoLock
         THEN Goto(t, "wait") /\ UNCHANGED seen
         ELSE Goto(t, "judge") /\ seen' = [seen EXCEPT ![t] = lock.text]
    /\ UNCHANGED <<lock, depth, expired, alive, ops, crashes, faults, raced>>

\* Mutant: the age alone decides, so a live holder goes stale after 5 s.
StaleByAge(t) == lock = NoLock \/ lock.aged

\* Mutant: a lock with a pid in it is never stale.
StaleOnlyUnstamped(t) == seen[t] \notin Process /\ (lock = NoLock \/ lock.aged)

\* A pid is stale when its process is gone.  A text without one is stale when the
\* file now at the path is 5 s old, or when there is none (unwrap_or(true)).
Stale(t) ==
    IF seen[t] \in Process
      THEN ~alive[seen[t]]
      ELSE lock = NoLock \/ lock.aged

\* The threads that have reached a stale verdict and not yet acted on it.
Stealing == {t \in Thread : Running(t) /\ pc[t] \in {"reread", "unlink"}}

Judge(t) ==
    /\ Running(t)
    /\ pc[t] = "judge"
    /\ IF Stale(t)
         THEN /\ Goto(t, "reread")
              /\ UNCHANGED seen
              /\ raced' = (raced \/ seen[t] = Unstamped \/ Stealing # {})
         ELSE Return(t, "wait") /\ UNCHANGED raced
    /\ UNCHANGED <<lock, depth, expired, alive, ops, crashes, faults>>

\* What the second read returns: a file that is gone reads as the empty text.
TextNow == IF lock = NoLock THEN Unstamped ELSE lock.text

\* Mutant: the file is not read again before it is unlinked.
RereadSkipped(t) ==
    /\ Running(t)
    /\ pc[t] = "reread"
    /\ Goto(t, "unlink")
    /\ UNCHANGED <<lock, seen, depth, expired, alive, ops, crashes, faults, raced>>

Reread(t) ==
    /\ Running(t)
    /\ pc[t] = "reread"
    /\ IF TextNow = seen[t] THEN Goto(t, "unlink") /\ UNCHANGED seen ELSE Return(t, "wait")
    /\ UNCHANGED <<lock, depth, expired, alive, ops, crashes, faults, raced>>

\* Whatever is at the path by now is unlinked, and the loop tries to create again.
Unlink(t) ==
    /\ Running(t)
    /\ pc[t] = "unlink"
    /\ lock' = NoLock
    /\ Return(t, IF lock = NoLock THEN "wait" ELSE "create")
    /\ UNCHANGED <<depth, expired, alive, ops, crashes, faults, raced>>

\* Mutant: the deadline is computed and never looked at.
WaitForever(t) ==
    /\ Running(t)
    /\ pc[t] = "wait"
    /\ Goto(t, "create")
    /\ UNCHANGED <<lock, seen, depth, expired, alive, ops, crashes, faults, raced>>

\* try_steal returned false: past the deadline acquire gives up, before it the
\* thread sleeps 50 ms and tries again.
Wait(t) ==
    /\ Running(t)
    /\ pc[t] = "wait"
    /\ Goto(t, IF expired[t] THEN "idle" ELSE "create")
    /\ UNCHANGED <<lock, seen, depth, expired, alive, ops, crashes, faults, raced>>
-----------------------------------------------------------------------------
\* drop

\* A nested guard goes.
Unnest(t) ==
    /\ Running(t)
    /\ pc[t] = "held"
    /\ depth[t] > 1
    /\ depth' = [depth EXCEPT ![t] = @ - 1]
    /\ UNCHANGED <<lock, pc, seen, expired, alive, ops, crashes, faults, raced>>

\* Mutant: the drop counts down and leaves the file.
ReleaseKeepsFile(t) ==
    /\ Running(t)
    /\ pc[t] = "held"
    /\ depth[t] = 1
    /\ depth' = [depth EXCEPT ![t] = 0]
    /\ Goto(t, "idle")
    /\ UNCHANGED <<lock, seen, expired, alive, ops, crashes, faults, raced>>

\* The outermost guard goes, and the file at the path with it, whoever made it.
Release(t) ==
    /\ Running(t)
    /\ pc[t] = "held"
    /\ depth[t] = 1
    /\ depth' = [depth EXCEPT ![t] = 0]
    /\ lock' = NoLock
    /\ Goto(t, "idle")
    /\ UNCHANGED <<seen, expired, alive, ops, crashes, faults, raced>>
-----------------------------------------------------------------------------
\* Time and death

Contending(t) == pc[t] \in {"create", "read", "judge", "reread", "unlink", "wait"}

\* 30 s have passed since Begin.
Expire(t) ==
    /\ Running(t)
    /\ Contending(t)
    /\ ~expired[t]
    /\ expired' = [expired EXCEPT ![t] = TRUE]
    /\ UNCHANGED <<lock, pc, seen, depth, alive, ops, crashes, faults, raced>>

\* The lock file turns 5 s old.  A creator that still has to write its pid is gone
\* by then, unless SlowStamp lets it be that slow.
Age ==
    /\ lock # NoLock
    /\ ~lock.aged
    /\ SlowStamp \/ ~Running(lock.by) \/ pc[lock.by] # "stamp"
    /\ lock' = [lock EXCEPT !.aged = TRUE]
    /\ UNCHANGED <<pc, seen, depth, expired, alive, ops, crashes, faults, raced>>

\* A process dies with all its threads: no guard is dropped.
Crash(p) ==
    /\ alive[p]
    /\ crashes < MaxCrashes
    /\ crashes' = crashes + 1
    /\ alive' = [alive EXCEPT ![p] = FALSE]
    /\ UNCHANGED <<lock, pc, seen, depth, expired, ops, faults, raced>>

\* What a thread does by itself once it has entered acquire.
Step(t) ==
    \/ CreateNew(t) \/ AlreadyExists(t) \/ Stamp(t)
    \/ ReadText(t) \/ Judge(t) \/ Reread(t) \/ Unlink(t) \/ Wait(t)

Next ==
    \/ \E t \in Thread : Begin(t)
    \/ \E t \in Thread : Nest(t)
    \/ \E t \in Thread : Step(t)
    \/ \E t \in Thread : StampFails(t)
    \/ \E t \in Thread : Unnest(t)
    \/ \E t \in Thread : Release(t)
    \/ \E t \in Thread : Expire(t)
    \/ \E p \in Process : Crash(p)
    \/ Age

Spec == Init /\ [][Next]_vars

\* The scheduler runs every live thread, callers drop what they hold, clocks advance.
Fairness ==
    /\ \A t \in Thread : WF_vars(Step(t)) /\ WF_vars(Expire(t))
    /\ \A t \in Thread : WF_vars(Unnest(t) \/ Release(t))
    /\ WF_vars(Age)

FairSpec == Spec /\ Fairness

-----------------------------------------------------------------------------
\* Properties

Holders == {t \in Thread : Running(t) /\ pc[t] = "held"}

\* Every variable has its type and stays within its bound.
TypeOK ==
    /\ lock \in LockFile \cup {NoLock}
    /\ pc \in [Thread -> {"idle", "create", "stamp", "read", "judge", "reread",
                          "unlink", "wait", "held"}]
    /\ seen \in [Thread -> Text]
    /\ depth \in [Thread -> 0 .. MaxDepth]
    /\ expired \in [Thread -> BOOLEAN]
    /\ alive \in [Process -> BOOLEAN]
    /\ ops \in [Thread -> 0 .. MaxOps]
    /\ crashes \in 0 .. MaxCrashes
    /\ faults \in 0 .. MaxFaults
    /\ raced \in BOOLEAN

\* What skills/run.md says of the lock: exclusive across processes.  Two threads of one
\* process exclude each other as well.
MutualExclusion == \A t, u \in Holders : t = u

\* A live thread that holds the lock finds its own file, with its own pid, at the lock
\* path, however it got there and whatever others try - as long as every stale verdict
\* was about the pid of a dead process and no two threads were stealing at once.
HolderOwnsFile ==
    ~raced => \A t \in Holders : /\ lock # NoLock
                                 /\ lock.by = t
                                 /\ lock.text = ProcOf[t]

\* A lock file that nobody is using was left by a process that died or by a write that
\* failed: no order of creates, steals and drops, not even a race, leaks one.
LeakOnlyByDeathOrFault ==
    lock # NoLock => \/ ~Running(lock.by)
                     \/ pc[lock.by] \in {"stamp", "held"}
                     \/ faults > 0

\* The protocol gives its callers the contract of LockContract: acquire only when nobody
\* holds, until a steal happens under conditions the protocol cannot back.
L == INSTANCE LockContract WITH holders <- Holders, compromised <- raced
Contract == L!Spec

\* acquire always returns, with a guard or with the timeout error, whatever the other
\* processes do (a file left by a failed write included), unless its own process dies.
AcquireReturns ==
    \A t \in Thread : pc[t] = "create" ~> (pc[t] \in {"held", "idle"} \/ ~Running(t))

\* The lock of a dead process does not outlast the next attempt to acquire: a thread that
\* comes to it removes it, or somebody else has.
DeadLockCleared ==
    \A t \in Thread, p \in Process :
        (Running(t) /\ pc[t] = "create" /\ lock # NoLock /\ lock.text = p /\ ~alive[p])
            ~> (~Running(t) \/ lock = NoLock \/ lock.text # p)
=============================================================================
