----------------------------- MODULE ToolGroups -----------------------------
(***************************************************************************)
(* Which tools the MCP server exposes (mcp_groups.rs): the switches        *)
(* WIKIFIER_TOOLS and WIKIFIER_DISABLE of the operator's environment, and  *)
(* the first agent-tools block of the project's AGENTS.md, which an agent  *)
(* edits while the server runs.                                            *)
(*                                                                         *)
(* A list of names is the set of its names: only the wording of a warning  *)
(* depends on their order.  Case, spaces, commas and comments are gone     *)
(* from it.                                                                *)
(***************************************************************************)
EXTENDS Naturals, Sequences

CONSTANTS
    Tool,       \* MCP_TOOLS
    GroupOf,    \* the group of each tool
    Core,       \* the group that is always on
    All,        \* the name all
    Typo,       \* a name that is neither a group nor a tool
    Unset       \* a switch or a line that is not there

Group == {GroupOf[t] : t \in Tool}
Word == Tool \cup Group \cup {All, Typo}

ASSUME ToolGroupsAssumption ==
    /\ Core \in Group
    /\ Tool \cap Group = {}
    /\ {All, Typo, Unset} \cap (Tool \cup Group) = {}
    /\ All # Typo
    /\ \A names \in SUBSET Word : names # Unset

\* split_names; all is a name in a tools list only.
Known(names, allowAll) == names \subseteq Tool \cup Group \cup (IF allowAll THEN {All} ELSE {})

\* core_named
NamesCore(names) == Core \in names \/ \E t \in Tool \cap names : GroupOf[t] = Core

Matches(names, t) == t \in names \/ GroupOf[t] \in names

\* A list that can be used as it is.
GoodTools(names) == Known(names, TRUE)
GoodDisable(names) == Known(names, FALSE) /\ ~NamesCore(names)

\* What stops the server: a mistake in a variable that is set.
EnvMistake(env) ==
    \/ env.tools # Unset /\ ~GoodTools(env.tools)
    \/ env.disable # Unset /\ ~GoodDisable(env.disable)

\* The environment wins, key by key; a mistaken line of the block is as good as none.
Tools(env, block) ==
    IF env.tools # Unset THEN env.tools
    ELSE IF block.tools # Unset /\ GoodTools(block.tools) THEN block.tools
    ELSE Unset

Disable(env, block) ==
    IF env.disable # Unset THEN env.disable
    ELSE IF block.disable # Unset /\ GoodDisable(block.disable) THEN block.disable
    ELSE Unset

\* Selection::resolve: the allowlist, less what is disabled, and core.
Enabled(env, block) ==
    LET tools == Tools(env, block)
        disable == Disable(env, block)
        listed == IF tools = Unset \/ All \in tools THEN Tool ELSE {t \in Tool : Matches(tools, t)}
    IN  {t \in listed : disable = Unset \/ ~Matches(disable, t)} \cup {t \in Tool : GroupOf[t] = Core}

Allows(enabled, t) == t \in enabled \/ t \notin Tool

\* active_groups
ActiveGroups(enabled) == {GroupOf[t] : t \in enabled}

\* Where a line is read from, given what the environment has of it.
Source(switch) == IF switch # Unset THEN "env" ELSE "block"

\* Mutant: the allowlist is blamed first.
RefusalToolsFirst(env, block, t) ==
    IF Tools(env, block) # Unset
    THEN [line |-> "tools", source |-> Source(env.tools), names |-> {GroupOf[t]}]
    ELSE [line |-> "disable", source |-> Source(env.disable),
          names |-> Disable(env, block) \cap {t, GroupOf[t]}]

\* Selection::refusal: the line to change, and the names to take out of it or put in.
\* Of two names it gives the first.
Refusal(env, block, t) ==
    LET disable == Disable(env, block)
    IN  IF disable # Unset /\ Matches(disable, t)
        THEN [line |-> "disable", source |-> Source(env.disable), names |-> disable \cap {t, GroupOf[t]}]
        ELSE [line |-> "tools", source |-> Source(env.tools), names |-> {GroupOf[t]}]

-----------------------------------------------------------------------------
(* AgentTools::parse.  A line is a record: the start or the end of a fence *)
(* [kind |-> "fence", mark, len, info], a line for Wikifier                *)
(* [kind |-> "names", key, names], or anything else [kind |-> "text"].     *)
(* Lines indented by more than three columns open and close nothing, and   *)
(* are "text" or "names" here.                                             *)

NoFence == [mark |-> "none", len |-> 0, info |-> "none"]

NoBlock == [found |-> FALSE, tools |-> Unset, disable |-> Unset, badKey |-> FALSE]

Closes(line, fence) ==
    line.kind = "fence" /\ line.info = "none" /\ line.mark = fence.mark /\ line.len >= fence.len

\* A second line of a key adds its names to those of the first.
Joined(old, names) == IF old = Unset THEN names ELSE old \cup names

ReadLine(block, line) ==
    CASE line.kind # "names"      -> block
      [] line.kind = "names" /\ line.key = "tools"   -> [block EXCEPT !.tools = Joined(@, line.names)]
      [] line.kind = "names" /\ line.key = "disable" -> [block EXCEPT !.disable = Joined(@, line.names)]
      [] OTHER                    -> [block EXCEPT !.badKey = TRUE]

\* Mutant: the end of the block is looked for, the end of another fence is not.
ScanLineNested(s, line) ==
    CASE s.done -> s
      [] ~s.done /\ s.fence.info = "agent-tools" ->
            IF Closes(line, s.fence) THEN [s EXCEPT !.done = TRUE]
            ELSE [s EXCEPT !.block = ReadLine(@, line)]
      [] OTHER ->
            IF line.kind = "fence"
            THEN [s EXCEPT !.fence = [mark |-> line.mark, len |-> line.len, info |-> line.info],
                           !.block.found = @ \/ line.info = "agent-tools"]
            ELSE s

\* One turn of the loop.  s.done: the block was closed and the parser has returned.
ScanLine(s, line) ==
    CASE s.done -> s
      [] ~s.done /\ s.fence # NoFence ->
            IF Closes(line, s.fence)
            THEN IF s.fence.info = "agent-tools" THEN [s EXCEPT !.done = TRUE] ELSE [s EXCEPT !.fence = NoFence]
            ELSE IF s.fence.info = "agent-tools" THEN [s EXCEPT !.block = ReadLine(@, line)] ELSE s
      [] OTHER ->
            IF line.kind = "fence"
            THEN [s EXCEPT !.fence = [mark |-> line.mark, len |-> line.len, info |-> line.info],
                           !.block.found = @ \/ line.info = "agent-tools"]
            ELSE s

Parse(lines) ==
    LET scan[i \in 0..Len(lines)] ==
            IF i = 0 THEN [done |-> FALSE, fence |-> NoFence, block |-> NoBlock]
            ELSE ScanLine(scan[i - 1], lines[i])
    IN  scan[Len(lines)].block
=============================================================================
