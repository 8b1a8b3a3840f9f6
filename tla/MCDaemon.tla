------------------------------ MODULE MCDaemon ------------------------------
(***************************************************************************)
(* Instances of Daemon for TLC.                                            *)
(***************************************************************************)
EXTENDS Daemon, TLC

CONSTANTS d1, d2, d3, c1, c2

MCPid == {d1, d2, d3}
PairPid == {d1, d2}
MCClient == {c1, c2}
=============================================================================
