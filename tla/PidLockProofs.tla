--------------------------- MODULE PidLockProofs ---------------------------
(***************************************************************************)
(* The safety properties of the pid-file lock, for any number of threads,  *)
(* processes, crashes and failed writes.                                   *)
(*                                                                         *)
(* HolderOwnsFile is not inductive: a thief at its unlink takes whatever   *)
(* is at the path.  Sound adds what makes that harmless while the lock is  *)
(* not raced: a thief acts on the text of a dead process, there is one     *)
(* thief at a time, and once it has read that text again the file keeps    *)
(* it, because everybody who could change the file is alive and owns it.   *)
(***************************************************************************)
EXTENDS PidLock, TLAPS

Labels == {"idle", "create", "stamp", "read", "judge", "reread", "unlink", "wait", "held"}

\* The text of a stamped file is the pid of the process that made the file.
TextNamesCreator ==
    (lock # NoLock /\ lock.text # Unstamped) => lock.text = ProcOf[lock.by]

\* A thread between create_new and drop owns the file.
OwnerOwns ==
    \A t \in Thread :
        (Running(t) /\ pc[t] \in {"stamp", "held"}) =>
            /\ lock # NoLock
            /\ lock.by = t
            /\ lock.text = IF pc[t] = "held" THEN ProcOf[t] ELSE Unstamped

\* A thread with a stale verdict read the text of a process that is dead.
ThiefSawDead ==
    \A t \in Stealing : seen[t] \in Process /\ ~alive[seen[t]]

OneThief == \A t, u \in Stealing : t = u

\* What a thread is about to unlink is what it judged.
UnlinksWhatItSaw ==
    \A t \in Thread :
        (Running(t) /\ pc[t] = "unlink") => lock # NoLock /\ lock.text = seen[t]

Sound == ~raced => OwnerOwns /\ ThiefSawDead /\ OneThief /\ UnlinksWhatItSaw

IInv == TypeOK /\ TextNamesCreator /\ LeakOnlyByDeathOrFault /\ Sound

-----------------------------------------------------------------------------
\* Types

\* There is no lock file, and nobody tries to have one.
LEMMA TypeInit == Init => TypeOK
<1> SUFFICES ASSUME Init PROVE TypeOK
  OBVIOUS
<1> USE PidLockAssumption DEF PidLockAssumption, Init
<1>1. 0 \in 0 .. MaxDepth /\ 0 \in 0 .. MaxOps /\ 0 \in 0 .. MaxCrashes /\ 0 \in 0 .. MaxFaults
  OBVIOUS
<1> QED
  BY <1>1 DEF TypeOK, Text

\* Each step of acquire, try_steal and drop keeps the types.
LEMMA TypeStep == TypeOK /\ [Next]_vars => TypeOK'
<1> SUFFICES ASSUME TypeOK, [Next]_vars
             PROVE  TypeOK'
  OBVIOUS
<1> USE PidLockAssumption DEF PidLockAssumption, TypeOK, LockFile, Text, Goto, Return
<1>1. ASSUME NEW t \in Thread, Begin(t) PROVE TypeOK'
  BY <1>1 DEF Begin
<1>2. ASSUME NEW t \in Thread, Nest(t) PROVE TypeOK'
  BY <1>2 DEF Nest
<1>3. ASSUME NEW t \in Thread, CreateNew(t) PROVE TypeOK'
  BY <1>3 DEF CreateNew
<1>4. ASSUME NEW t \in Thread, AlreadyExists(t) PROVE TypeOK'
  BY <1>4 DEF AlreadyExists
<1>5. ASSUME NEW t \in Thread, Stamp(t) PROVE TypeOK'
  BY <1>5 DEF Stamp, Stamped
<1>6. ASSUME NEW t \in Thread, StampFails(t) PROVE TypeOK'
  BY <1>6 DEF StampFails, Stamped
<1>7. ASSUME NEW t \in Thread, ReadText(t) PROVE TypeOK'
  BY <1>7 DEF ReadText
<1>8. ASSUME NEW t \in Thread, Judge(t) PROVE TypeOK'
  BY <1>8 DEF Judge
<1>9. ASSUME NEW t \in Thread, Reread(t) PROVE TypeOK'
  BY <1>9 DEF Reread
<1>10. ASSUME NEW t \in Thread, Unlink(t) PROVE TypeOK'
  BY <1>10 DEF Unlink
<1>11. ASSUME NEW t \in Thread, Wait(t) PROVE TypeOK'
  BY <1>11 DEF Wait
<1>12. ASSUME NEW t \in Thread, Unnest(t) PROVE TypeOK'
  BY <1>12 DEF Unnest
<1>13. ASSUME NEW t \in Thread, Release(t) PROVE TypeOK'
  BY <1>13 DEF Release
<1>14. ASSUME NEW t \in Thread, Expire(t) PROVE TypeOK'
  BY <1>14 DEF Expire
<1>15. ASSUME NEW p \in Process, Crash(p) PROVE TypeOK'
  BY <1>15 DEF Crash
<1>16. CASE Age
  BY <1>16 DEF Age
<1>17. CASE UNCHANGED vars
  BY <1>17 DEF vars
<1> QED
  BY <1>1, <1>2, <1>3, <1>4, <1>5, <1>6, <1>7, <1>8, <1>9, <1>10, <1>11, <1>12,
     <1>13, <1>14, <1>15, <1>16, <1>17 DEF Next, Step

\* Every reachable state is of its type.
THEOREM TypeCorrect == Spec => []TypeOK
BY TypeInit, TypeStep, PTL DEF Spec

-----------------------------------------------------------------------------
\* The lock file and its creator

\* A lock file is not the absence of one.
LEMMA FileIsNotNoLock ==
    ASSUME NEW t \in Thread, NEW x \in Text, NEW b \in BOOLEAN
    PROVE  [by |-> t, text |-> x, aged |-> b] # NoLock
<1> [by |-> t, text |-> x, aged |-> b] \in LockFile
  BY DEF LockFile
<1> QED
  BY PidLockAssumption DEF PidLockAssumption, LockFile, Text

\* Only its creator writes into a file, and writes its own pid.
LEMMA TextStep == TypeOK /\ TextNamesCreator /\ [Next]_vars => TextNamesCreator'
<1> SUFFICES ASSUME TypeOK, TextNamesCreator, [Next]_vars
             PROVE  TextNamesCreator'
  OBVIOUS
<1> USE PidLockAssumption DEF PidLockAssumption, TypeOK, LockFile, Text, TextNamesCreator
<1>1. ASSUME NEW t \in Thread, CreateNew(t) PROVE TextNamesCreator'
  BY <1>1 DEF CreateNew
<1>2. ASSUME NEW t \in Thread, Stamp(t) \/ StampFails(t) PROVE TextNamesCreator'
  BY <1>2 DEF Stamp, StampFails, Stamped
<1>3. CASE Age
  BY <1>3 DEF Age
<1>4. CASE lock' = NoLock
  BY <1>4
<1>5. CASE UNCHANGED lock
  BY <1>5
<1> QED
  BY <1>1, <1>2, <1>3, <1>4, <1>5
  DEF Next, vars, Step, Begin, Nest, AlreadyExists, ReadText, Judge, Reread, Unlink, Wait,
      Unnest, Release, Expire, Crash

\* A thread leaves stamp and held by making the file go or by failing.
LEMMA LeakStep == TypeOK /\ LeakOnlyByDeathOrFault /\ [Next]_vars => LeakOnlyByDeathOrFault'
<1> SUFFICES ASSUME TypeOK, LeakOnlyByDeathOrFault, [Next]_vars
             PROVE  LeakOnlyByDeathOrFault'
  OBVIOUS
<1> USE PidLockAssumption
    DEF PidLockAssumption, TypeOK, LockFile, Text, LeakOnlyByDeathOrFault, Running
<1>1. ASSUME NEW t \in Thread, CreateNew(t) PROVE LeakOnlyByDeathOrFault'
  BY <1>1 DEF CreateNew, Goto
<1>2. ASSUME NEW t \in Thread, Stamp(t) PROVE LeakOnlyByDeathOrFault'
  BY <1>2 DEF Stamp, Stamped, Goto
<1>3. ASSUME NEW t \in Thread, StampFails(t) PROVE LeakOnlyByDeathOrFault'
  BY <1>3 DEF StampFails
<1>4. CASE Age
  BY <1>4 DEF Age
<1>5. ASSUME NEW p \in Process, Crash(p) PROVE LeakOnlyByDeathOrFault'
  BY <1>5 DEF Crash
<1>6. CASE lock' = NoLock
  BY <1>6
<1>7. ASSUME NEW t \in Thread, UNCHANGED <<lock, alive, faults>>,
             pc[t] \notin {"stamp", "held"}, \A u \in Thread \ {t} : pc'[u] = pc[u]
      PROVE  LeakOnlyByDeathOrFault'
  BY <1>7
<1>8. CASE UNCHANGED <<lock, pc, alive, faults>>
  BY <1>8
<1>9. ASSUME NEW t \in Thread,
             \/ Begin(t) \/ AlreadyExists(t) \/ ReadText(t) \/ Judge(t) \/ Reread(t) \/ Wait(t)
      PROVE  LeakOnlyByDeathOrFault'
  <2>1. /\ UNCHANGED <<lock, alive, faults>>
        /\ pc[t] \notin {"stamp", "held"}
        /\ \E l \in Labels : pc' = [pc EXCEPT ![t] = l]
    BY <1>9 DEF Begin, AlreadyExists, ReadText, Judge, Reread, Wait, Goto, Return, Labels
  <2> QED
    BY <2>1, <1>7
<1> QED
  BY <1>1, <1>2, <1>3, <1>4, <1>5, <1>6, <1>8, <1>9
  DEF Next, vars, Step, Nest, Unlink, Unnest, Release, Expire

-----------------------------------------------------------------------------
\* Ownership while the lock is not raced

\* A race is never undone.
LEMMA RacedStep == TypeOK /\ [Next]_vars => (raced => raced')
BY DEF TypeOK, Next, vars, Step, Begin, Nest, CreateNew, AlreadyExists, Stamp, StampFails,
       ReadText, Judge, Reread, Unlink, Wait, Unnest, Release, Expire, Crash, Age

\* Each step keeps the file with its owner until a race.
LEMMA SoundStep == IInv /\ [Next]_vars => Sound'
<1> SUFFICES ASSUME IInv, [Next]_vars, ~raced'
             PROVE  OwnerOwns' /\ ThiefSawDead' /\ OneThief' /\ UnlinksWhatItSaw'
  BY DEF Sound
<1>0. ~raced /\ OwnerOwns /\ ThiefSawDead /\ OneThief /\ UnlinksWhatItSaw
  BY RacedStep DEF IInv, Sound
<1> USE <1>0, PidLockAssumption
    DEF PidLockAssumption, IInv, TypeOK, LockFile, Text, OwnerOwns, ThiefSawDead, OneThief,
        UnlinksWhatItSaw, Running, Stealing, Goto
<1> DEFINE Goal == OwnerOwns' /\ ThiefSawDead' /\ OneThief' /\ UnlinksWhatItSaw'
<1>1. ASSUME NEW t \in Thread, Begin(t) PROVE Goal
  BY <1>1 DEF Begin
<1>2. CASE UNCHANGED <<lock, pc, seen, alive>>
  BY <1>2
<1>3. ASSUME NEW t \in Thread, CreateNew(t) PROVE Goal
  <2>1. /\ lock' = [by |-> t, text |-> Unstamped, aged |-> FALSE]
        /\ lock' # NoLock
        /\ UNCHANGED <<seen, alive>>
    BY <1>3, FileIsNotNoLock DEF CreateNew
  <2>2. \A u \in Thread : Running(u) => pc[u] \notin {"stamp", "held", "unlink"}
    BY <1>3 DEF CreateNew
  <2>3. pc' = [pc EXCEPT ![t] = "stamp"]
    BY <1>3 DEF CreateNew
  <2> QED
    BY <2>1, <2>2, <2>3
<1>4. ASSUME NEW t \in Thread, AlreadyExists(t) PROVE Goal
  BY <1>4 DEF AlreadyExists
<1>5. ASSUME NEW t \in Thread, Stamp(t) PROVE Goal
  BY <1>5 DEF Stamp, Stamped
<1>6. ASSUME NEW t \in Thread, StampFails(t) PROVE Goal
  BY <1>6 DEF StampFails, Stamped
<1>7. ASSUME NEW t \in Thread, ReadText(t) PROVE Goal
  BY <1>7 DEF ReadText
<1>8. ASSUME NEW t \in Thread, Judge(t) PROVE Goal
  BY <1>8 DEF Judge, Stale, Return
<1>9. ASSUME NEW t \in Thread, Reread(t) PROVE Goal
  BY <1>9 DEF Reread, TextNow, Return
<1>10. ASSUME NEW t \in Thread, Unlink(t) PROVE Goal
  BY <1>10 DEF Unlink, Return
<1>11. ASSUME NEW t \in Thread, Wait(t) PROVE Goal
  BY <1>11 DEF Wait
<1>12. ASSUME NEW t \in Thread, Release(t) PROVE Goal
  BY <1>12 DEF Release
<1>13. ASSUME NEW p \in Process, Crash(p) PROVE Goal
  BY <1>13 DEF Crash
<1>14. CASE Age
  BY <1>14 DEF Age
<1> QED
  BY <1>1, <1>2, <1>3, <1>4, <1>5, <1>6, <1>7, <1>8, <1>9, <1>10, <1>11, <1>12, <1>13, <1>14
  DEF Next, vars, Step, Nest, Unnest, Expire

-----------------------------------------------------------------------------
\* The theorems

\* The strengthened invariant holds in every reachable state.
LEMMA Inductive == Spec => []IInv
<1>1. Init => IInv
  <2> SUFFICES ASSUME Init PROVE IInv
    OBVIOUS
  <2>1. TypeOK
    BY TypeInit
  <2>2. TextNamesCreator /\ LeakOnlyByDeathOrFault
    BY DEF Init, TextNamesCreator, LeakOnlyByDeathOrFault
  <2>3. Sound
    BY DEF Init, Sound, OwnerOwns, ThiefSawDead, OneThief, UnlinksWhatItSaw, Stealing
  <2> QED
    BY <2>1, <2>2, <2>3 DEF IInv
<1>2. IInv /\ [Next]_vars => IInv'
  BY TypeStep, TextStep, LeakStep, SoundStep DEF IInv
<1> QED
  BY <1>1, <1>2, PTL DEF Spec

\* Until a race, the file at the lock path is the holder's own, with the holder's pid,
\* whatever the other threads and processes try.
THEOREM HolderOwns == Spec => []HolderOwnsFile
<1>1. IInv => HolderOwnsFile
  BY DEF IInv, Sound, OwnerOwns, HolderOwnsFile, Holders
<1> QED
  BY <1>1, Inductive, PTL

\* No order of creates, steals and drops leaks a lock file; deaths and failed writes do.
THEOREM LeakFree == Spec => []LeakOnlyByDeathOrFault
<1>1. IInv => LeakOnlyByDeathOrFault
  BY DEF IInv
<1> QED
  BY <1>1, Inductive, PTL

\* Until a race, at most one thread of all the processes is between acquire and drop.
THEOREM ExclusiveUnlessRaced == Spec => [](~raced => MutualExclusion)
<1>1. IInv => (~raced => MutualExclusion)
  BY DEF IInv, Sound, OwnerOwns, MutualExclusion, Holders
<1> QED
  BY <1>1, Inductive, PTL

-----------------------------------------------------------------------------
\* The protocol implements the contract its callers rely on

\* Each step of the protocol is a step of the contract or changes nothing in it.
LEMMA ContractStep == IInv /\ [Next]_vars => [L!Next]_(L!vars)
<1> SUFFICES ASSUME IInv, [Next]_vars PROVE [L!Next]_(L!vars)
  OBVIOUS
<1> USE DEF IInv, TypeOK, Holders, Running, Goto
<1>1. ASSUME UNCHANGED <<Holders, raced>> PROVE L!Next \/ UNCHANGED L!vars
  BY <1>1 DEF L!vars
<1>2. ASSUME NEW t \in Thread, UNCHANGED <<alive, raced>>, pc[t] # "held",
             NEW l \in Labels \ {"held"}, pc' = [pc EXCEPT ![t] = l]
      PROVE  UNCHANGED <<Holders, raced>>
  BY <1>2
<1>3. ASSUME NEW t \in Thread,
             \/ Begin(t) \/ CreateNew(t) \/ AlreadyExists(t) \/ StampFails(t) \/ ReadText(t)
             \/ Reread(t) \/ Unlink(t) \/ Wait(t)
      PROVE  UNCHANGED <<Holders, raced>>
  <2>1. /\ UNCHANGED <<alive, raced>>
        /\ pc[t] # "held"
        /\ \E l \in Labels \ {"held"} : pc' = [pc EXCEPT ![t] = l]
    BY <1>3 DEF Begin, CreateNew, AlreadyExists, StampFails, ReadText, Reread, Unlink, Wait,
                Return, Labels
  <2> QED
    BY <2>1, <1>2
<1>4. ASSUME NEW t \in Thread, Nest(t) \/ Unnest(t) \/ Expire(t)
      PROVE  UNCHANGED <<Holders, raced>>
  BY <1>4 DEF Nest, Unnest, Expire
<1>5. CASE Age \/ UNCHANGED vars
  BY <1>5, <1>1 DEF Age, vars
<1>6. ASSUME NEW t \in Thread, Stamp(t) PROVE L!Next
  <2>1. Holders = {} \/ raced
    BY <1>6 DEF Stamp, Sound, OwnerOwns
  <2>2. Holders' = Holders \cup {t}
    BY <1>6 DEF Stamp
  <2>3. UNCHANGED raced
    BY <1>6 DEF Stamp
  <2> QED
    BY <2>1, <2>2, <2>3 DEF L!Next, L!Acquire
<1>7. ASSUME NEW t \in Thread, Judge(t) PROVE L!Next \/ UNCHANGED L!vars
  <2>1. UNCHANGED Holders
    BY <1>7 DEF Judge, Return
  <2>2. UNCHANGED raced \/ raced' = TRUE
    BY <1>7 DEF Judge
  <2> QED
    BY <2>1, <2>2 DEF L!Next, L!Compromise, L!vars
<1>8. ASSUME NEW t \in Thread, Release(t) PROVE L!Next
  <2>1. Holders' = Holders \ {t}
    BY <1>8 DEF Release
  <2>2. UNCHANGED raced
    BY <1>8 DEF Release
  <2>3. L!Leave({t})
    BY <2>1, <2>2 DEF L!Leave
  <2>4. {t} \in SUBSET Thread
    OBVIOUS
  <2> QED
    BY <2>3, <2>4 DEF L!Next
<1>9. ASSUME NEW p \in Process, Crash(p) PROVE L!Next
  <2> DEFINE Dead == {t \in Thread : ProcOf[t] = p}
  <2>1. Holders' = Holders \ Dead
    BY <1>9, PidLockAssumption DEF Crash, PidLockAssumption
  <2>2. UNCHANGED raced
    BY <1>9 DEF Crash
  <2>3. Dead \in SUBSET Thread
    OBVIOUS
  <2> HIDE DEF Dead
  <2>4. L!Leave(Dead)
    BY <2>1, <2>2 DEF L!Leave
  <2> QED
    BY <2>3, <2>4 DEF L!Next
<1> QED
  BY <1>1, <1>3, <1>4, <1>5, <1>6, <1>7, <1>8, <1>9 DEF Next, Step

\* The pid-file protocol implements LockContract.
THEOREM ImplementsContract == Spec => Contract
<1>1. Init => L!Init
  BY DEF Init, L!Init, Holders
<1>2. IInv /\ [Next]_vars => [L!Next]_(L!vars)
  BY ContractStep
<1> QED
  BY <1>1, <1>2, Inductive, PTL DEF Spec, Contract, L!Spec
=============================================================================
