---------------------------- MODULE LockContract ----------------------------
(***************************************************************************)
(* What the callers of the advisory locks rely on (skills/run.md,          *)
(* "Concurrency"): the lock is exclusive, a thread that gives up or dies   *)
(* simply stops holding it, and nothing else changes hands.  compromised   *)
(* records that the lock file was taken from somebody in circumstances in  *)
(* which the file protocol gives no guarantee; until then at most one      *)
(* thread is inside.                                                       *)
(***************************************************************************)
EXTENDS FiniteSets

CONSTANT Thread

VARIABLES
    holders,      \* the live threads between acquire and drop
    compromised   \* TRUE once exclusion is no longer promised

vars == <<holders, compromised>>

Init ==
    /\ holders = {}
    /\ compromised = FALSE

Acquire(t) ==
    /\ holders = {} \/ compromised
    /\ holders' = holders \cup {t}
    /\ UNCHANGED compromised

\* A thread drops its guard, or the threads of a process die with it.
Leave(S) ==
    /\ holders' = holders \ S
    /\ UNCHANGED compromised

Compromise ==
    /\ compromised' = TRUE
    /\ UNCHANGED holders

Next ==
    \/ \E t \in Thread : Acquire(t)
    \/ \E S \in SUBSET Thread : Leave(S)
    \/ Compromise

Spec == Init /\ [][Next]_vars
=============================================================================
