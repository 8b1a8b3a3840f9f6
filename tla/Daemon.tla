------------------------------- MODULE Daemon -------------------------------
(***************************************************************************)
(* The background daemon: the commands daemon start, stop, restart and     *)
(* status (api.rs, daemon_command), the loop they control (daemon_run) and *)
(* the two pid files between them, wikifier.pid and the daemon.pid of      *)
(* older versions.  No command takes a lock.                               *)
(*                                                                         *)
(* One action is one look at a file, one signal, one spawn, one write or   *)
(* one unlink of a command, and one step of the loop between two looks at  *)
(* its pid file.                                                           *)
(*                                                                         *)
(* Simplifications:                                                        *)
(* - fs::write of the pid is one step.  A reader in between finds an empty *)
(*   file, which pid_alive takes like no file and the loop like any file.  *)
(* - A pid is probed in the step that reads it.                            *)
(* - SIGTERM ends a process at once: the program installs no handler.      *)
(* - What a check or a mapping does, the heartbeat and the log are left    *)
(*   out: no command and no loop decides anything by them.                 *)
(***************************************************************************)
EXTENDS Naturals, FiniteSets

CONSTANTS
    Pid,
    Client,
    NoPid,        \* no pid file, no pid
    SlowParent,   \* whether a start may take 1 s or more to write the pid
    MaxCalls,     \* bound: commands given
    MaxMishaps    \* bound: kills, failed writes, interventions by hand, reused pids

ASSUME DaemonAssumption ==
    /\ NoPid \notin Pid
    /\ SlowParent \in BOOLEAN
    /\ {MaxCalls, MaxMishaps} \subseteq Nat

VARIABLES
    proc,         \* what the process with each pid does
    pidfile,      \* the pid in wikifier.pid
    legacy,       \* the pid in daemon.pid
    command,      \* the command each client gives, and where it is in it
    calls,        \* commands given so far
    mishaps,      \* kills, failed writes, interventions and reused pids so far
    removed,      \* whether a pid file was ever removed
    compromised   \* commands overlapped, or something happened by hand

files == <<pidfile, legacy>>
vars == <<proc, files, command, calls, mishaps, removed, compromised>>

\* old: the daemon of a version that wrote daemon.pid.  other: not a daemon at all.
Looping == {"wait", "check", "maps", "head"}
Daemons == {p \in Pid : proc[p] \in Looping \cup {"old"}}

\* at: which of the two files the command's loop is at.  target: the pid it read or spawned.
Command ==
    [name : {"none", "start", "stop", "restart", "status"},
     pc : {"idle", "probe", "reread", "ready", "write", "read", "signal", "unlink"},
     at : {"new", "legacy"},
     target : Pid \cup {NoPid}]
Idle == [name |-> "none", pc |-> "idle", at |-> "new", target |-> NoPid]

At(c, l) == command[c].pc = l

Busy(c) == ~At(c, "idle")

\* What the file the command is at says.
FileOf(c) == IF command[c].at = "new" THEN pidfile ELSE legacy

Alive(p) == p \in Pid /\ proc[p] # "free"

Goto(c, l) == command' = [command EXCEPT ![c].pc = l]

Finish(c) == command' = [command EXCEPT ![c] = Idle]

Become(p, s) == proc' = [proc EXCEPT ![p] = s]

Mishap == mishaps < MaxMishaps /\ mishaps' = mishaps + 1

\* Nothing ran, or an older version's daemon.pid is there, of a daemon that runs or ran.
Init ==
    /\ legacy \in Pid \cup {NoPid}
    /\ proc \in {[p \in Pid |-> "free"], [p \in Pid |-> IF p = legacy THEN "old" ELSE "free"]}
    /\ pidfile = NoPid
    /\ command = [c \in Client |-> Idle]
    /\ calls = 0
    /\ mishaps = 0
    /\ removed = FALSE
    /\ compromised = FALSE

-----------------------------------------------------------------------------
\* The commands

\* Two commands that change something are at work.
Overlaps(n) == n # "status" /\ \E d \in Client : command[d].name \notin {"none", "status"}

\* stop and restart begin at the pid files, the others at running_pid.
Call(c, n) ==
    /\ ~Busy(c)
    /\ calls < MaxCalls
    /\ calls' = calls + 1
    /\ command' = [command EXCEPT ![c].name = n,
                                  ![c].pc = IF n \in {"stop", "restart"} THEN "read" ELSE "probe"]
    /\ compromised' = (compromised \/ Overlaps(n))
    /\ UNCHANGED <<proc, files, mishaps, removed>>

\* running_pid found nothing: a status says so, a start goes on.
NoneRuns(c) == IF command[c].name = "status" THEN Finish(c) ELSE Goto(c, "ready")

\* Mutant: running_pid does not know the file of older versions.
ProbeNew(c) ==
    /\ At(c, "probe")
    /\ IF Alive(pidfile) THEN Goto(c, "reread") ELSE NoneRuns(c)
    /\ UNCHANGED <<proc, files, calls, mishaps, removed, compromised>>

\* running_pid looks at one file, and at the other one if that names no process.
Probe(c) ==
    /\ At(c, "probe")
    /\ \/ /\ Alive(FileOf(c))
          /\ Goto(c, "reread")
       \/ /\ ~Alive(FileOf(c))
          /\ command[c].at = "new"
          /\ command' = [command EXCEPT ![c].at = "legacy"]
       \/ /\ ~Alive(FileOf(c))
          /\ command[c].at = "legacy"
          /\ NoneRuns(c)
    /\ UNCHANGED <<proc, files, calls, mishaps, removed, compromised>>

\* The pid it answers is read again; gone by then, nothing runs.
Reread(c) ==
    /\ At(c, "reread")
    /\ IF FileOf(c) \in Pid THEN Finish(c) ELSE NoneRuns(c)
    /\ UNCHANGED <<proc, files, calls, mishaps, removed, compromised>>

\* Readiness is blocked without --force, or the process cannot be spawned.
Refuse(c) ==
    /\ At(c, "ready")
    /\ Finish(c)
    /\ UNCHANGED <<proc, files, calls, mishaps, removed, compromised>>

Spawn(c) ==
    /\ At(c, "ready")
    /\ \E p \in Pid :
           /\ proc[p] = "free"
           /\ Become(p, "wait")
           /\ command' = [command EXCEPT ![c].pc = "write", ![c].target = p]
    /\ UNCHANGED <<files, calls, mishaps, removed, compromised>>

\* Mutant: the parent records its own process.
WriteOwn(c) ==
    /\ At(c, "write")
    /\ pidfile' = c
    /\ Finish(c)
    /\ UNCHANGED <<proc, legacy, calls, mishaps, removed, compromised>>

\* The parent writes the pid of its child over whatever is there.
Write(c) ==
    /\ At(c, "write")
    /\ pidfile' = command[c].target
    /\ Finish(c)
    /\ UNCHANGED <<proc, legacy, calls, mishaps, removed, compromised>>

\* It cannot, and answers that the daemon runs all the same.
WriteFails(c) ==
    /\ At(c, "write")
    /\ Mishap
    /\ compromised' = TRUE
    /\ Finish(c)
    /\ UNCHANGED <<proc, files, calls, removed>>

\* Mutant: stop removes the file of older versions without looking into it.
ReadPidNew(c) ==
    /\ At(c, "read")
    /\ command' = [command EXCEPT ![c].pc = "signal", ![c].target = pidfile]
    /\ UNCHANGED <<proc, files, calls, mishaps, removed, compromised>>

ReadPid(c) ==
    /\ At(c, "read")
    /\ command' = [command EXCEPT ![c].pc = "signal", ![c].target = FileOf(c)]
    /\ UNCHANGED <<proc, files, calls, mishaps, removed, compromised>>

Signal(c) ==
    /\ At(c, "signal")
    /\ IF Alive(command[c].target) THEN Become(command[c].target, "free") ELSE UNCHANGED proc
    /\ Goto(c, "unlink")
    /\ UNCHANGED <<files, calls, mishaps, removed, compromised>>

\* The file goes, whatever became of the signal.  After the new one it is the legacy
\* file's turn, and then a restart goes on with its start.
Unlink(c) ==
    /\ At(c, "unlink")
    /\ \/ /\ command[c].at = "new"
          /\ pidfile' = NoPid
          /\ removed' = (removed \/ pidfile # NoPid)
          /\ command' = [command EXCEPT ![c].pc = "read", ![c].at = "legacy"]
          /\ UNCHANGED legacy
       \/ /\ command[c].at = "legacy"
          /\ legacy' = NoPid
          /\ IF command[c].name = "restart"
               THEN command' = [command EXCEPT ![c] = [Idle EXCEPT !.name = "restart", !.pc = "probe"]]
               ELSE Finish(c)
          /\ UNCHANGED <<pidfile, removed>>
    /\ UNCHANGED <<proc, calls, mishaps, compromised>>

-----------------------------------------------------------------------------
\* daemon run

\* The pid of p is still to be written.  Without SlowParent this takes less than the
\* second p waits.
Awaited(p) == ~SlowParent /\ \E c \in Client : At(c, "write") /\ command[c].target = p

NoFiles == pidfile = NoPid /\ legacy = NoPid

\* Mutant: it looks at its pid file at once.
AwaitNothing(p) ==
    /\ proc[p] = "wait"
    /\ Become(p, "check")
    /\ UNCHANGED <<files, command, calls, mishaps, removed, compromised>>

\* It waits for either file, 50 times 20 ms, and goes on without one.
Await(p) ==
    /\ proc[p] = "wait"
    /\ NoFiles => ~Awaited(p)
    /\ Become(p, "check")
    /\ UNCHANGED <<files, command, calls, mishaps, removed, compromised>>

\* check_changes; the maps are not due, or are switched off.
Check(p) ==
    /\ proc[p] = "check"
    /\ \E s \in {"maps", "head"} : Become(p, s)
    /\ UNCHANGED <<files, command, calls, mishaps, removed, compromised>>

UpdateMaps(p) ==
    /\ proc[p] = "maps"
    /\ Become(p, "head")
    /\ UNCHANGED <<files, command, calls, mishaps, removed, compromised>>

\* The file was there in every slice of the poll interval.
Again(p) ==
    /\ proc[p] = "head"
    /\ pidfile # NoPid
    /\ Become(p, "check")
    /\ UNCHANGED <<files, command, calls, mishaps, removed, compromised>>

\* Mutant: either file keeps the loop.
LeaveNoFiles(p) ==
    /\ proc[p] = "head"
    /\ NoFiles
    /\ Become(p, "free")
    /\ UNCHANGED <<files, command, calls, mishaps, removed, compromised>>

\* Only wikifier.pid keeps the loop, whatever pid is in it.
Leave(p) ==
    /\ proc[p] = "head"
    /\ pidfile = NoPid
    /\ Become(p, "free")
    /\ UNCHANGED <<files, command, calls, mishaps, removed, compromised>>

-----------------------------------------------------------------------------
\* The surroundings

\* A service manager or a person runs daemon run.
RunByHand(p) ==
    /\ proc[p] = "free"
    /\ Mishap
    /\ Become(p, "wait")
    /\ compromised' = TRUE
    /\ UNCHANGED <<files, command, calls, removed>>

RemoveByHand ==
    /\ pidfile # NoPid
    /\ Mishap
    /\ pidfile' = NoPid
    /\ removed' = TRUE
    /\ compromised' = TRUE
    /\ UNCHANGED <<proc, legacy, command, calls>>

\* A daemon is killed, and its pid file stays.
Dies(p) ==
    /\ p \in Daemons
    /\ Mishap
    /\ Become(p, "free")
    /\ UNCHANGED <<files, command, calls, removed, compromised>>

\* A command is interrupted.
ClientDies(c) ==
    /\ Busy(c)
    /\ Mishap
    /\ Finish(c)
    /\ compromised' = (compromised \/ command[c].name # "status")
    /\ UNCHANGED <<proc, files, calls, removed>>

\* Another program gets a pid.
Reuse(p) ==
    /\ proc[p] = "free"
    /\ Mishap
    /\ Become(p, "other")
    /\ UNCHANGED <<files, command, calls, removed, compromised>>

Commands(c) ==
    \/ \E k \in {"start", "stop", "restart", "status"} : Call(c, k)
    \/ Probe(c)
    \/ Reread(c)
    \/ Refuse(c)
    \/ Spawn(c)
    \/ Write(c)
    \/ WriteFails(c)
    \/ ReadPid(c)
    \/ Signal(c)
    \/ Unlink(c)
    \/ ClientDies(c)

Run(p) == Await(p) \/ Check(p) \/ UpdateMaps(p) \/ Again(p) \/ Leave(p)

Next ==
    \/ \E c \in Client : Commands(c)
    \/ \E p \in Pid : Run(p) \/ RunByHand(p) \/ Dies(p) \/ Reuse(p)
    \/ RemoveByHand

Spec == Init /\ [][Next]_vars

\* The scheduler runs every daemon and every command that has something to do; nothing
\* makes a client give a command, or a write fail.
FairSpec ==
    /\ Spec
    /\ \A p \in Pid : WF_vars(Run(p))
    /\ \A c \in Client : WF_vars(Busy(c) /\ Commands(c) /\ UNCHANGED mishaps)

-----------------------------------------------------------------------------
\* Properties

\* Every variable has its type.
TypeOK ==
    /\ proc \in [Pid -> Looping \cup {"free", "old", "other"}]
    /\ pidfile \in Pid \cup {NoPid}
    /\ legacy \in Pid \cup {NoPid}
    /\ command \in [Client -> Command]
    /\ calls \in 0..MaxCalls
    /\ mishaps \in 0..MaxMishaps
    /\ removed \in BOOLEAN /\ compromised \in BOOLEAN

\* Commands given one after the other never leave two daemons at work on one project,
\* whatever is killed, whichever pids come back, and with an older version's daemon
\* about: start looks at both files and at the processes they name.
OneDaemon == ~compromised => Cardinality(Daemons) <= 1

\* The daemon a start spawned and recorded runs until somebody stops or kills it: the
\* second that daemon run waits for its pid file covers the time its parent needs.  A
\* leftover daemon.pid cuts that wait short, and is left out.
StartedStays ==
    ~compromised /\ mishaps = 0 /\ legacy = NoPid /\ pidfile # NoPid /\ (\A c \in Client : ~At(c, "unlink"))
        => proc[pidfile] \in Looping

\* A stop that nothing interferes with returns to a project without daemons, those of
\* an older version and those in the middle of a check included.
StopEmpties ==
    [][\A c \in Client :
          command[c].name = "stop" /\ command'[c] = Idle /\ ~compromised' => Daemons' = {}]_vars

\* However commands overlapped and whichever pid the file ended up with: once there is
\* no pid file for good, every loop ends, those that no stop could signal included.
LoopsEnd == <>[](pidfile = NoPid) => <>[](\A p \in Pid : proc[p] \notin Looping)

\* "daemon run scans and maps until the pid file is removed" (CHANGELOG.md): a loop that
\* is not killed ends after a removal only.
RunsUntilRemoved ==
    [][\A p \in Pid : proc[p] = "head" /\ proc'[p] = "free" /\ mishaps' = mishaps => removed]_vars
=============================================================================
