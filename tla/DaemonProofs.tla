---------------------------- MODULE DaemonProofs ----------------------------
(***************************************************************************)
(* The safety properties of the daemon's commands, for any pids and        *)
(* clients and any number of commands and mishaps.                         *)
(*                                                                         *)
(* OneDaemon is not inductive: a start only looks at the two pid files, so *)
(* a loop that no file names would get a second one beside it.  Sound adds *)
(* who names the loop: until commands overlap, wikifier.pid does, or the   *)
(* start that spawned it and is about to write that file.                  *)
(***************************************************************************)
EXTENDS Daemon, TLAPS, FiniteSetTheorems

\* A command that changes something.
Acts(c) == command[c].name \notin {"none", "status"}

Loops(p) == p \in Pid /\ proc[p] \in Looping

\* Where each command can be.
Control ==
    \A c \in Client :
        LET cmd == command[c]
        IN  /\ cmd.name = "none" <=> cmd.pc = "idle"
            /\ cmd.pc = "idle" => cmd.at = "new"
            /\ cmd.pc \in {"ready", "write"} => cmd.name \in {"start", "restart"}
            /\ cmd.pc \in {"read", "signal", "unlink"} => cmd.name \in {"stop", "restart"}
            /\ cmd.name = "stop" => cmd.pc \in {"read", "signal", "unlink"}
            /\ cmd.pc = "write" => cmd.target \in Pid

OneActor == \A c, d \in Client : Acts(c) /\ Acts(d) => c = d

OnlyDaemon == \A p, q \in Daemons : p = q

\* A loop is in wikifier.pid or about to be.
LoopNamed ==
    \A p \in Pid : Loops(p) => pidfile = p \/ \E c \in Client : At(c, "write") /\ command[c].target = p

OldNamed == \A p \in Pid : proc[p] = "old" => legacy = p

\* What the command at work knows of the files and the daemons from what it did so far.
Knows ==
    \A c \in Client :
        LET cmd == command[c]
            signals == cmd.pc \in {"read", "signal", "unlink"}
        IN  Acts(c) =>
            /\ cmd.pc = "reread" => FileOf(c) \in Pid
            /\ cmd.pc = "probe" /\ cmd.at = "legacy" => \A p \in Pid : ~Loops(p)
            /\ cmd.pc = "ready" => Daemons = {}
            /\ cmd.pc = "write" => Daemons \subseteq {cmd.target}
            /\ cmd.pc = "signal" => cmd.target = FileOf(c)
            /\ signals /\ cmd.at = "legacy" => pidfile = NoPid /\ \A p \in Pid : ~Loops(p)
            /\ cmd.pc = "unlink" /\ cmd.at = "new" => \A p \in Pid : ~Loops(p)
            /\ cmd.pc = "unlink" /\ cmd.at = "legacy" => Daemons = {}

Sound == ~compromised => OneActor /\ OnlyDaemon /\ LoopNamed /\ OldNamed /\ Knows

IInv == TypeOK /\ Control /\ Sound

\* As long as nothing happened by accident and there is no daemon.pid: the loop whose pid a
\* start is to write waits for that, and the loop whose pid was written runs.
Recorded ==
    ~compromised /\ mishaps = 0 /\ legacy = NoPid =>
        /\ pidfile # NoPid /\ (\A c \in Client : ~At(c, "unlink")) => Loops(pidfile)
        /\ \A c \in Client :
              Acts(c) /\ (At(c, "ready") \/ At(c, "write") \/ (At(c, "probe") /\ command[c].at = "legacy")) =>
                  /\ pidfile = NoPid
                  /\ At(c, "write") => proc[command[c].target] = "wait"

-----------------------------------------------------------------------------
\* Types

\* The commands start with what is there: an older daemon or none, and no pid file of this one.
LEMMA TypeInit == Init => TypeOK
<1> SUFFICES ASSUME Init PROVE TypeOK
  OBVIOUS
<1> USE DaemonAssumption DEF DaemonAssumption, Init, TypeOK, Looping, Command, Idle
<1>1. proc \in [Pid -> Looping \cup {"free", "old", "other"}]
  OBVIOUS
<1>2. command \in [Client -> Command]
  OBVIOUS
<1>3. calls \in 0..MaxCalls /\ mishaps \in 0..MaxMishaps
  OBVIOUS
<1> QED
  BY <1>1, <1>2, <1>3

\* The place of a command moves; its record stays one.
LEMMA Moved ==
    ASSUME TypeOK, NEW c \in Client, NEW r \in Command, command' = [command EXCEPT ![c] = r]
    PROVE  command' \in [Client -> Command]
BY DEF TypeOK

\* Each step of a command, a loop or the surroundings keeps the types.
LEMMA TypeStep == TypeOK /\ [Next]_vars => TypeOK'
<1> SUFFICES ASSUME TypeOK, [Next]_vars
             PROVE  TypeOK'
  OBVIOUS
<1> USE DaemonAssumption
    DEF DaemonAssumption, TypeOK, Command, Idle, Looping, files, At, FileOf, Goto, Finish, Become,
        Mishap
<1>1. ASSUME NEW c \in Client, NEW n \in {"start", "stop", "restart", "status"}, Call(c, n)
      PROVE  TypeOK'
  <2> DEFINE new == [command[c] EXCEPT !.name = n, !.pc = IF n \in {"stop", "restart"} THEN "read" ELSE "probe"]
  <2>3. new \in Command /\ command' = [command EXCEPT ![c] = new]
    BY <1>1 DEF Call
  <2>1. command' \in [Client -> Command]
    BY <2>3, Moved
  <2>2. calls' \in 0..MaxCalls /\ compromised' \in BOOLEAN
    BY <1>1 DEF Call, Overlaps
  <2> QED
    BY <1>1, <2>1, <2>2 DEF Call
<1>2. ASSUME NEW c \in Client, Probe(c) PROVE TypeOK'
  BY <1>2 DEF Probe, NoneRuns
<1>3. ASSUME NEW c \in Client, Reread(c) PROVE TypeOK'
  BY <1>3 DEF Reread, NoneRuns
<1>4. ASSUME NEW c \in Client, Refuse(c) PROVE TypeOK'
  BY <1>4 DEF Refuse
<1>5. ASSUME NEW c \in Client, Spawn(c) PROVE TypeOK'
  <2> PICK p \in Pid : /\ Become(p, "wait")
                       /\ command' = [command EXCEPT ![c].pc = "write", ![c].target = p]
    BY <1>5 DEF Spawn
  <2> DEFINE new == [command[c] EXCEPT !.pc = "write", !.target = p]
  <2>3. new \in Command /\ command' = [command EXCEPT ![c] = new]
    OBVIOUS
  <2>1. command' \in [Client -> Command]
    BY <2>3, Moved
  <2>2. proc' \in [Pid -> Looping \cup {"free", "old", "other"}]
    OBVIOUS
  <2> QED
    BY <1>5, <2>1, <2>2 DEF Spawn
<1>6. ASSUME NEW c \in Client, Write(c) PROVE TypeOK'
  BY <1>6 DEF Write
<1>7. ASSUME NEW c \in Client, WriteFails(c) PROVE TypeOK'
  BY <1>7 DEF WriteFails
<1>8. ASSUME NEW c \in Client, ReadPid(c) PROVE TypeOK'
  <2> DEFINE new == [command[c] EXCEPT !.pc = "signal", !.target = FileOf(c)]
  <2>2. new \in Command /\ command' = [command EXCEPT ![c] = new]
    BY <1>8 DEF ReadPid
  <2>1. command' \in [Client -> Command]
    BY <2>2, Moved
  <2> QED
    BY <1>8, <2>1 DEF ReadPid
<1>9. ASSUME NEW c \in Client, Signal(c) PROVE TypeOK'
  BY <1>9 DEF Signal
<1>10. ASSUME NEW c \in Client, Unlink(c) PROVE TypeOK'
  <2> DEFINE next == [command[c] EXCEPT !.pc = "read", !.at = "legacy"]
             start == [Idle EXCEPT !.name = "restart", !.pc = "probe"]
  <2>2. next \in Command /\ start \in Command /\ Idle \in Command
    OBVIOUS
  <2>3. PICK new \in {next, start, Idle} : command' = [command EXCEPT ![c] = new]
    BY <1>10 DEF Unlink
  <2> HIDE DEF next, start
  <2>1. command' \in [Client -> Command]
    BY <2>2, <2>3, Moved
  <2> QED
    BY <1>10, <2>1 DEF Unlink
<1>11. ASSUME NEW c \in Client, ClientDies(c) PROVE TypeOK'
  BY <1>11 DEF ClientDies
<1>12. ASSUME NEW p \in Pid, Run(p) PROVE TypeOK'
  BY <1>12 DEF Run, Await, Check, UpdateMaps, Again, Leave
<1>13. ASSUME NEW p \in Pid, RunByHand(p) \/ Dies(p) \/ Reuse(p) PROVE TypeOK'
  <2>1. proc' \in [Pid -> Looping \cup {"free", "old", "other"}]
    BY <1>13 DEF RunByHand, Dies, Reuse
  <2>2. mishaps' \in 0..MaxMishaps
    BY <1>13 DEF RunByHand, Dies, Reuse
  <2> QED
    BY <1>13, <2>1, <2>2 DEF RunByHand, Dies, Reuse
<1>14. CASE RemoveByHand
  BY <1>14 DEF RemoveByHand
<1>15. CASE UNCHANGED vars
  BY <1>15 DEF vars
<1> QED
  BY <1>1, <1>2, <1>3, <1>4, <1>5, <1>6, <1>7, <1>8, <1>9, <1>10, <1>11, <1>12, <1>13, <1>14, <1>15
  DEF Next, Commands

\* Every reachable state is of its type.
THEOREM TypeCorrect == Spec => []TypeOK
BY TypeInit, TypeStep, PTL DEF Spec

-----------------------------------------------------------------------------
\* Who names the daemon

\* Commands keep to their own steps.
LEMMA ControlStep == TypeOK /\ Control /\ [Next]_vars => Control'
<1> SUFFICES ASSUME TypeOK, Control, [Next]_vars
             PROVE  Control'
  OBVIOUS
<1> USE DEF TypeOK, Control, Command, Idle, At, Goto, Finish, NoneRuns
<1>1. ASSUME NEW c \in Client, NEW n \in {"start", "stop", "restart", "status"}, Call(c, n)
      PROVE  Control'
  BY <1>1 DEF Call, Busy
<1>2. ASSUME NEW c \in Client, Probe(c) PROVE Control'
  BY <1>2 DEF Probe
<1>3. ASSUME NEW c \in Client, Reread(c) PROVE Control'
  BY <1>3 DEF Reread
<1>4. ASSUME NEW c \in Client, Refuse(c) \/ Write(c) \/ WriteFails(c) \/ ClientDies(c)
      PROVE  Control'
  BY <1>4 DEF Refuse, Write, WriteFails, ClientDies
<1>5. ASSUME NEW c \in Client, Spawn(c) PROVE Control'
  BY <1>5 DEF Spawn
<1>6. ASSUME NEW c \in Client, ReadPid(c) PROVE Control'
  BY <1>6 DEF ReadPid
<1>7. ASSUME NEW c \in Client, Signal(c) PROVE Control'
  BY <1>7 DEF Signal
<1>8. ASSUME NEW c \in Client, Unlink(c) PROVE Control'
  <2>1. CASE command' = [command EXCEPT ![c].pc = "read", ![c].at = "legacy"]
    BY <1>8, <2>1 DEF Unlink
  <2>2. CASE command[c].name = "restart" /\ command' = [command EXCEPT ![c] = [Idle EXCEPT !.name = "restart", !.pc = "probe"]]
    BY <2>2
  <2>3. CASE command' = [command EXCEPT ![c] = Idle]
    BY <2>3
  <2> QED
    BY <1>8, <2>1, <2>2, <2>3 DEF Unlink
<1>9. CASE UNCHANGED command
  BY <1>9
<1> QED
  BY <1>1, <1>2, <1>3, <1>4, <1>5, <1>6, <1>7, <1>8, <1>9
  DEF Next, vars, Commands, Run, Await, Check, UpdateMaps, Again, Leave, RunByHand, Dies, Reuse,
      RemoveByHand

\* Once compromised, always compromised.
LEMMA CompromisedStep == TypeOK /\ [Next]_vars => (compromised => compromised')
BY DEF TypeOK, Next, vars, Commands, Call, Probe, Reread, Refuse, Spawn, Write, WriteFails,
   ReadPid, Signal, Unlink, ClientDies, Run, Await, Check, UpdateMaps, Again, Leave, RunByHand,
   Dies, Reuse, RemoveByHand

\* Each step that does not compromise it keeps the daemon named.
LEMMA SoundStep == IInv /\ [Next]_vars => Sound'
<1> SUFFICES ASSUME IInv, [Next]_vars, ~compromised'
             PROVE  OneActor' /\ OnlyDaemon' /\ LoopNamed' /\ OldNamed' /\ Knows'
  BY DEF Sound
<1>0. ~compromised /\ OneActor /\ OnlyDaemon /\ LoopNamed /\ OldNamed /\ Knows
  BY CompromisedStep DEF IInv, Sound
<1> USE <1>0, DaemonAssumption
    DEF DaemonAssumption, IInv, TypeOK, Control, Command, Idle, At, Goto, Finish, Become,
        OneActor, OnlyDaemon, LoopNamed, OldNamed, Knows, Acts, Loops, Daemons, Looping, files,
        FileOf
<1> DEFINE Goal == OneActor' /\ OnlyDaemon' /\ LoopNamed' /\ OldNamed' /\ Knows'
<1>1. ASSUME NEW c \in Client, NEW n \in {"start", "stop", "restart", "status"}, Call(c, n)
      PROVE  Goal
  BY <1>1 DEF Call, Busy, Overlaps
<1>2. ASSUME NEW c \in Client, Probe(c) PROVE Goal
  BY <1>2 DEF Probe, NoneRuns, Alive
<1>3. ASSUME NEW c \in Client, Reread(c) PROVE Goal
  BY <1>3 DEF Reread, NoneRuns
<1>4. ASSUME NEW c \in Client, Refuse(c) PROVE Goal
  BY <1>4 DEF Refuse
<1>5. ASSUME NEW c \in Client, Spawn(c) PROVE Goal
  BY <1>5 DEF Spawn
<1>6. ASSUME NEW c \in Client, Write(c) PROVE Goal
  BY <1>6 DEF Write
<1>7. ASSUME NEW c \in Client, ReadPid(c) PROVE Goal
  BY <1>7 DEF ReadPid
<1>8. ASSUME NEW c \in Client, Signal(c) PROVE Goal
  BY <1>8 DEF Signal, Alive
<1>9. ASSUME NEW c \in Client, Unlink(c) PROVE Goal
  <2>1. CASE /\ command[c].at = "new"
             /\ command' = [command EXCEPT ![c].pc = "read", ![c].at = "legacy"]
    BY <1>9, <2>1 DEF Unlink
  <2>2. CASE /\ command[c].at = "legacy"
             /\ command[c].name = "restart"
             /\ command' = [command EXCEPT ![c] = [Idle EXCEPT !.name = "restart", !.pc = "probe"]]
    BY <1>9, <2>2 DEF Unlink
  <2>3. CASE command[c].at = "legacy" /\ command' = [command EXCEPT ![c] = Idle]
    BY <1>9, <2>3 DEF Unlink
  <2> QED
    BY <1>9, <2>1, <2>2, <2>3 DEF Unlink
<1>10. ASSUME NEW c \in Client, ClientDies(c) PROVE Goal
  <2>1. command[c].name = "status" /\ command' = [command EXCEPT ![c] = Idle] /\ UNCHANGED <<proc, files>>
    BY <1>10 DEF ClientDies
  <2> QED
    BY <2>1
<1>11. ASSUME NEW p \in Pid, Run(p) PROVE Goal
  BY <1>11 DEF Run, Await, Check, UpdateMaps, Again, Leave
<1>12. ASSUME NEW p \in Pid, Dies(p) PROVE Goal
  BY <1>12 DEF Dies
<1>13. ASSUME NEW p \in Pid, Reuse(p) PROVE Goal
  BY <1>13 DEF Reuse
<1>14. CASE UNCHANGED vars
  BY <1>14 DEF vars
<1> QED
  BY <1>1, <1>2, <1>3, <1>4, <1>5, <1>6, <1>7, <1>8, <1>9, <1>10, <1>11, <1>12, <1>13, <1>14
  DEF Next, Commands, WriteFails, RunByHand, RemoveByHand

\* The strengthened invariant holds in every reachable state.
LEMMA Inductive == Spec => []IInv
<1>1. Init => IInv
  <2> SUFFICES ASSUME Init PROVE IInv
    OBVIOUS
  <2>1. TypeOK
    BY TypeInit
  <2>2. Control
    BY DEF Init, Control, Idle
  <2>3. Sound
    BY DaemonAssumption
    DEF DaemonAssumption, Init, Sound, OneActor, OnlyDaemon, LoopNamed, OldNamed, Knows, Acts,
        Loops, Daemons,
        Looping, Idle, At
  <2> QED
    BY <2>1, <2>2, <2>3 DEF IInv
<1>2. IInv /\ [Next]_vars => IInv'
  BY TypeStep, ControlStep, SoundStep DEF IInv
<1> QED
  BY <1>1, <1>2, PTL DEF Spec

-----------------------------------------------------------------------------
\* The theorems

\* Commands given one after the other never leave two daemons, whatever is killed and
\* whichever pids come back, with an older version's daemon or without.
THEOREM AtMostOneDaemon == Spec => []OneDaemon
<1>1. IInv => OneDaemon
  <2> SUFFICES ASSUME IInv, ~compromised PROVE Cardinality(Daemons) <= 1
    BY DEF OneDaemon
  <2>1. \A p, q \in Daemons : p = q
    BY DEF IInv, Sound, OnlyDaemon
  <2>2. CASE Daemons = {}
    BY <2>2, FS_EmptySet
  <2>3. CASE Daemons # {}
    <3> PICK p \in Daemons : TRUE
      BY <2>3
    <3>1. Daemons = {p}
      BY <2>1
    <3> QED
      BY <3>1, FS_Singleton
  <2> QED
    BY <2>2, <2>3
<1> QED
  BY <1>1, Inductive, PTL

\* A stop that nothing interferes with ends with no daemon left, old or new.
THEOREM StopLeavesNone == Spec => StopEmpties
<1>1. IInv /\ [Next]_vars =>
        [\A c \in Client : command[c].name = "stop" /\ command'[c] = Idle /\ ~compromised' => Daemons' = {}]_vars
  <2> SUFFICES ASSUME IInv, Next, NEW c \in Client, command[c].name = "stop", command'[c] = Idle, ~compromised'
               PROVE  Daemons' = {}
    OBVIOUS
  <2>0. ~compromised
    BY CompromisedStep DEF IInv
  <2>1. At(c, "unlink") /\ command[c].at = "legacy" => Daemons = {}
    BY <2>0 DEF IInv, Sound, Knows, Acts, At
  <2>2. At(c, "unlink") /\ command[c].at = "legacy" /\ Unlink(c)
    <3> USE DEF IInv, TypeOK, Control, Command, Idle, At, Goto, Finish
    <3>1. command[c].pc \in {"read", "signal", "unlink"}
      OBVIOUS
    <3>2. command'[c].pc = "idle"
      OBVIOUS
    <3>3. ASSUME NEW d \in Client, Commands(d) PROVE d = c /\ Unlink(c) /\ command[c].at = "legacy"
      <4>1. d = c
        BY <3>1, <3>2, <3>3
        DEF Commands, Call, Probe, NoneRuns, Reread, Refuse, Spawn, Write, WriteFails, ReadPid,
            Signal, Unlink, ClientDies
      <4>2. ~ClientDies(c)
        BY DEF ClientDies
      <4>3. ~ReadPid(c) /\ ~Signal(c)
        BY <3>2 DEF ReadPid, Signal
      <4>4. Unlink(c)
        BY <3>1, <3>3, <4>1, <4>2, <4>3
        DEF Commands, Call, Busy, Probe, Reread, Refuse, Spawn, Write, WriteFails
      <4> QED
        BY <3>2, <4>1, <4>4 DEF Unlink
    <3> QED
      BY <3>1, <3>2, <3>3
      DEF Next, Unlink, Run, Await, Check, UpdateMaps, Again, Leave, RunByHand, Dies, Reuse,
          RemoveByHand
  <2> QED
    BY <2>1, <2>2 DEF Unlink, Daemons
<1> QED
  BY <1>1, Inductive, PTL DEF Spec, StopEmpties

\* Where nothing happened by accident, a loop waits for its pid or has it.
LEMMA RecordedStep ==
    ASSUME ~SlowParent
    PROVE  IInv /\ Recorded /\ [Next]_vars => Recorded'
<1> SUFFICES ASSUME IInv, Recorded, [Next]_vars, ~compromised', mishaps' = 0, legacy' = NoPid
             PROVE  /\ pidfile' # NoPid /\ (\A c \in Client : ~At(c, "unlink")') => Loops(pidfile)'
                    /\ \A c \in Client :
                          Acts(c)' /\ (At(c, "ready")' \/ At(c, "write")' \/ (At(c, "probe")' /\ command'[c].at = "legacy")) =>
                              /\ pidfile' = NoPid
                              /\ At(c, "write")' => proc'[command'[c].target] = "wait"
  BY DEF Recorded
<1>0. ~compromised /\ mishaps = 0 /\ OneActor /\ Knows
  <2>1. ~compromised
    BY CompromisedStep DEF IInv
  <2>2. mishaps' = mishaps \/ mishaps' = mishaps + 1
    BY DEF Mishap, Next, vars, Commands, Call, Probe, Reread, Refuse, Spawn, Write, WriteFails,
       ReadPid, Signal, Unlink, ClientDies, Run, Await, Check, UpdateMaps, Again, Leave,
       RunByHand, Dies, Reuse, RemoveByHand
  <2>3. mishaps \in Nat
    BY DaemonAssumption DEF DaemonAssumption, IInv, TypeOK
  <2> QED
    BY <2>1, <2>2, <2>3 DEF IInv, Sound
<1> USE <1>0, DaemonAssumption
    DEF DaemonAssumption, IInv, TypeOK, Control, Command, Idle, At, Goto, Finish, Become,
        OneActor, Knows, Acts, Loops, Daemons, Looping, files, FileOf, Recorded, Mishap
<1> DEFINE Goal == /\ pidfile' # NoPid /\ (\A c \in Client : ~At(c, "unlink")') => Loops(pidfile)'
                   /\ \A c \in Client :
                          Acts(c)' /\ (At(c, "ready")' \/ At(c, "write")' \/ (At(c, "probe")' /\ command'[c].at = "legacy")) =>
                              /\ pidfile' = NoPid
                              /\ At(c, "write")' => proc'[command'[c].target] = "wait"
<1>1. ASSUME NEW c \in Client, NEW n \in {"start", "stop", "restart", "status"}, Call(c, n)
      PROVE  Goal
  BY <1>1 DEF Call, Busy, Overlaps
<1>2. ASSUME NEW c \in Client, Probe(c) PROVE Goal
  BY <1>2 DEF Probe, NoneRuns, Alive
<1>3. ASSUME NEW c \in Client, Reread(c) PROVE Goal
  BY <1>3 DEF Reread, NoneRuns
<1>4. ASSUME NEW c \in Client, Refuse(c) PROVE Goal
  BY <1>4 DEF Refuse
<1>5. ASSUME NEW c \in Client, Spawn(c) PROVE Goal
  BY <1>5 DEF Spawn
<1>6. ASSUME NEW c \in Client, Write(c) PROVE Goal
  BY <1>6 DEF Write
<1>7. ASSUME NEW c \in Client, ReadPid(c) PROVE Goal
  BY <1>7 DEF ReadPid
<1>8. ASSUME NEW c \in Client, Signal(c) PROVE Goal
  BY <1>8 DEF Signal, Alive
<1>9. ASSUME NEW c \in Client, Unlink(c) PROVE Goal
  <2>1. pidfile' = NoPid
    BY <1>9 DEF Unlink
  <2>2. CASE command' = [command EXCEPT ![c].pc = "read", ![c].at = "legacy"]
    BY <1>9, <2>1, <2>2 DEF Unlink
  <2>3. CASE command' = [command EXCEPT ![c] = [Idle EXCEPT !.name = "restart", !.pc = "probe"]]
    BY <1>9, <2>1, <2>3 DEF Unlink
  <2>4. CASE command' = [command EXCEPT ![c] = Idle]
    BY <1>9, <2>1, <2>4 DEF Unlink
  <2> QED
    BY <1>9, <2>2, <2>3, <2>4 DEF Unlink
<1>10. ASSUME NEW p \in Pid, Run(p) PROVE Goal
  BY <1>10, ~SlowParent DEF Run, Await, Awaited, NoFiles, Check, UpdateMaps, Again, Leave
<1>11. CASE UNCHANGED vars
  BY <1>11 DEF vars
<1> QED
  BY <1>1, <1>2, <1>3, <1>4, <1>5, <1>6, <1>7, <1>8, <1>9, <1>10, <1>11
  DEF Next, Commands, WriteFails, ClientDies, RunByHand, Dies, Reuse, RemoveByHand

\* Where a start writes the pid within the second that daemon run waits for it, the daemon
\* it recorded runs until somebody stops or kills it.
THEOREM StartedRuns ==
    ASSUME ~SlowParent
    PROVE  Spec => []StartedStays
<1>1. Init => Recorded
  BY DEF Init, Recorded, Idle, Acts
<1>2. IInv /\ Recorded /\ [Next]_vars => Recorded'
  BY RecordedStep
<1>3. Recorded => StartedStays
  BY DEF Recorded, StartedStays, Loops
<1> QED
  BY <1>1, <1>2, <1>3, Inductive, PTL DEF Spec
=============================================================================
