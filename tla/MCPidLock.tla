----------------------------- MODULE MCPidLock -----------------------------
(***************************************************************************)
(* Instances of PidLock for TLC: two threads of one process and a third in *)
(* another, or one thread in each of two processes.                        *)
(***************************************************************************)
EXTENDS PidLock, TLC

CONSTANTS t1, t2, t3, p1, p2

MCThread == {t1, t2, t3}
MCProcess == {p1, p2}
MCProcOf == (t1 :> p1) @@ (t2 :> p1) @@ (t3 :> p2)

PairThread == {t1, t3}
PairProcOf == (t1 :> p1) @@ (t3 :> p2)
=============================================================================
