---------------------------- MODULE MCMcpServer ----------------------------
(***************************************************************************)
(* An instance of McpServer for TLC: a core tool, the one that records     *)
(* changes and a third; AGENTS.md without a block, or with a block of one  *)
(* good line and one mistake, which leaves two of the three tools.         *)
(***************************************************************************)
EXTENDS McpServer, TLC

CONSTANTS look, record, cycles, core, notes, map, u

MCTool == {look, record, cycles}
MCGroupOf == (look :> core) @@ (record :> notes) @@ (cycles :> map)
MCEnvs == {[tools |-> Unset, disable |-> Unset],
           [tools |-> Unset, disable |-> {core}]}
MCBlocks == {NoBlock,
             [NoBlock EXCEPT !.found = TRUE, !.tools = {notes}, !.disable = {Typo}]}
MCChange == {u}
ToCall(t, ok) == [method |-> "tools/call", tool |-> t, change |-> u, valid |-> ok]
MCRequests == {[method |-> "tools/list"], ToCall(record, TRUE), ToCall(record, FALSE), ToCall(cycles, TRUE)}
=============================================================================
