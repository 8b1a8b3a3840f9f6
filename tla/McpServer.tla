----------------------------- MODULE McpServer -----------------------------
(***************************************************************************)
(* The MCP server (mcp.rs): one loop that reads a message, reloads         *)
(* AGENTS.md when that changed, and answers; and the thread each tool call *)
(* runs in, which outlives its answer when the deadline passes first.      *)
(* The client sends requests ahead and retries; an agent edits AGENTS.md   *)
(* at any moment.  record_change stands for the tools that write: what it  *)
(* does here is its journal line (artifacts.rs, append_journal), under the *)
(* project lock, which is the one of LockContract while that is not        *)
(* compromised.                                                            *)
(*                                                                         *)
(* Simplifications:                                                        *)
(* - The stamp of AGENTS.md (mtime and size) differs after every edit.  A  *)
(*   file that is gone is one without a block.                             *)
(* - The clock counts periods of 120 s and only goes forward, and all of   *)
(*   it lies in one day, so in one journal file.                           *)
(* - stdout accepts every line: the loop ends with stdin.                  *)
(***************************************************************************)
EXTENDS ToolGroups, FiniteSets

CONSTANTS
    Requests,     \* what a request may ask
    Envs,         \* environments the server may be started in
    Blocks,       \* what AGENTS.md may say
    Change,       \* the changes a client records: a file and a reason
    NoChange,
    Writer,       \* the tool that records them
    MaxRequests,  \* bound: requests of one session
    MaxEdits,     \* bound: edits of AGENTS.md
    MaxClock      \* bound: periods of 120 s

ASSUME McpServerAssumption ==
    /\ Writer \in Tool
    /\ {MaxRequests, MaxEdits, MaxClock} \subseteq Nat
    /\ Requests \subseteq
          [method : {"tools/list"}]
          \cup [method : {"tools/call"}, tool : Tool, change : Change, valid : BOOLEAN]

VARIABLES
    env,          \* the two switches
    agents,       \* AGENTS.md: its block, and how often it was edited
    inbox,        \* messages on stdin
    sent,         \* how many requests were sent
    open,         \* whether the client has stdin open
    pc,           \* where the loop is
    msg,          \* the message it is at
    loading,      \* what the running load has of AGENTS.md
    state,        \* STATE: the exposed tools, and the stamp they are compared by
    outbox,       \* the lines on stdout
    thread,       \* where the thread of each request is
    holders,      \* who has the project lock
    journal,      \* the lines of the journal
    clock

agent == <<env, agents>>
client == <<inbox, sent, open>>
work == <<thread, holders, journal>>
vars == <<agent, client, pc, msg, loading, state, outbox, work, clock>>

\* The ids of the requests.
Id == 1..MaxRequests

Notification == [method |-> "notification"]
Unparsable == [method |-> "unparsable"]

\* stamp: when it looked for the line it is to write.
NoThread == [at |-> "none", change |-> NoChange, stamp |-> 0]

\* No stamp: STATE before the first load.
Never == MaxEdits + 1

NotLoading == [stamp |-> 0, block |-> NoBlock, version |-> 0]

Goto(l) == pc' = l

Init ==
    /\ env \in Envs
    /\ agents \in {[block |-> b, version |-> 0] : b \in Blocks}
    /\ inbox = <<>>
    /\ sent = 0
    /\ open = TRUE
    /\ pc = "stamp"
    /\ msg = Notification
    /\ loading = NotLoading
    /\ state = [stamp |-> Never, enabled |-> Tool, version |-> 0]
    /\ outbox = <<>>
    /\ thread = [i \in Id |-> NoThread]
    /\ holders = {}
    /\ journal = {}
    /\ clock = 0

-----------------------------------------------------------------------------
\* The client and the agent

Send(m) ==
    /\ open
    /\ inbox' = Append(inbox, m)
    /\ UNCHANGED <<agent, open, pc, msg, loading, state, outbox, work, clock>>

\* params: what it asks.  version: of AGENTS.md when it was sent.
SendRequest ==
    /\ sent < MaxRequests
    /\ sent' = sent + 1
    /\ \E r \in Requests :
           Send([method |-> r.method, params |-> r, id |-> sent + 1, version |-> agents.version])

\* Neither is answered, and the loop alone can tell when it comes.
SendOther ==
    /\ inbox = <<>>
    /\ pc = "read"
    /\ \E m \in {Notification, Unparsable} : Send(m)
    /\ UNCHANGED sent

\* The client leaves when it has nothing more to send, with or without its answers.
CloseStdin ==
    /\ open
    /\ sent = MaxRequests
    /\ open' = FALSE
    /\ UNCHANGED <<agent, inbox, sent, pc, msg, loading, state, outbox, work, clock>>

\* An edit that leaves the block alone is like two that change it and change it back.
EditAgents ==
    /\ agents.version < MaxEdits
    /\ \E b \in Blocks \ {agents.block} : agents' = [block |-> b, version |-> agents.version + 1]
    /\ UNCHANGED <<env, client, pc, msg, loading, state, outbox, work, clock>>

Tick ==
    /\ clock < MaxClock
    /\ clock' = clock + 1
    /\ UNCHANGED <<agent, client, pc, msg, loading, state, outbox, work>>

-----------------------------------------------------------------------------
\* configure and refresh

\* Mutant: the text is read before the stamp is taken.
LoadStepTextFirst(l) == CASE l = "stat" -> "text" [] l = "text" -> "stamp" [] OTHER -> "select"

\* GroupState::load stats the file, then reads it, then resolves the selection.
LoadStep(l) == CASE l = "stat" -> "stamp" [] l = "stamp" -> "text" [] OTHER -> "select"

\* An unchanged stamp leaves everything as it is.
Stat ==
    /\ pc = "stat"
    /\ Goto(IF agents.version = state.stamp THEN "handle" ELSE LoadStep("stat"))
    /\ UNCHANGED <<agent, client, msg, loading, state, outbox, work, clock>>

TakeStamp ==
    /\ pc = "stamp"
    /\ loading' = [loading EXCEPT !.stamp = agents.version]
    /\ Goto(LoadStep("stamp"))
    /\ UNCHANGED <<agent, client, msg, state, outbox, work, clock>>

ReadText ==
    /\ pc = "text"
    /\ loading' = [loading EXCEPT !.block = agents.block, !.version = agents.version]
    /\ Goto(LoadStep("text"))
    /\ UNCHANGED <<agent, client, msg, state, outbox, work, clock>>

\* Mutant: only a tool that was taken away is worth a notice.
ListChangedRemoved(enabled) == ~(state.enabled \subseteq enabled)

ListChanged(enabled) == enabled # state.enabled

\* configure: a mistake in the environment ends the server; else it starts to read.
\* refresh: a changed list is announced before the message is handled.
Select ==
    /\ pc = "select"
    /\ LET enabled == Enabled(env, loading.block)
       IN  /\ state' = [stamp |-> loading.stamp, enabled |-> enabled, version |-> loading.version]
           /\ Goto(CASE EnvMistake(env) -> "exit"
                     [] ~EnvMistake(env) /\ state.stamp = Never -> "read"
                     [] OTHER -> IF ListChanged(enabled) THEN "notify" ELSE "handle")
    /\ loading' = NotLoading
    /\ UNCHANGED <<agent, client, msg, outbox, work, clock>>

Notify ==
    /\ pc = "notify"
    /\ outbox' = Append(outbox, [type |-> "list_changed"])
    /\ Goto("handle")
    /\ UNCHANGED <<agent, client, msg, loading, state, work, clock>>

-----------------------------------------------------------------------------
\* serve_stdio and handle_message

\* A line that does not parse is skipped before AGENTS.md is looked at.
Read ==
    /\ pc = "read"
    /\ inbox # <<>>
    /\ inbox' = Tail(inbox)
    /\ IF Head(inbox) = Unparsable
         THEN UNCHANGED <<pc, msg>>
         ELSE msg' = Head(inbox) /\ Goto("stat")
    /\ UNCHANGED <<agent, sent, open, loading, state, outbox, work, clock>>

Ended(i) == thread[i].at \in {"done", "LockTimeout"}

\* At the end of stdin the process exits, and its threads with it.
EndOfInput ==
    /\ pc = "read"
    /\ inbox = <<>>
    /\ ~open
    /\ Goto("exit")
    /\ holders' = {}
    /\ thread' = [i \in Id |-> IF Ended(i) THEN thread[i] ELSE NoThread]
    /\ UNCHANGED <<agent, client, msg, loading, state, outbox, journal, clock>>

\* The answer to msg, and on to the next message.
Reply(type) ==
    /\ outbox' = Append(outbox, [type |-> type, id |-> msg.id, version |-> state.version, sentAt |-> msg.version])
    /\ Goto("read")
    /\ msg' = Notification

Ignore ==
    /\ pc = "handle"
    /\ msg = Notification
    /\ Goto("read")
    /\ UNCHANGED <<agent, client, msg, loading, state, outbox, work, clock>>

List ==
    /\ pc = "handle"
    /\ msg.method = "tools/list"
    /\ outbox' = Append(outbox, [type |-> "tools", id |-> msg.id, version |-> state.version, sentAt |-> msg.version, tools |-> state.enabled])
    /\ Goto("read")
    /\ msg' = Notification
    /\ UNCHANGED <<agent, client, loading, state, work, clock>>

\* The checks before the thread is spawned.
Refuse ==
    /\ pc = "handle"
    /\ msg.method = "tools/call"
    /\ \/ ~Allows(state.enabled, msg.params.tool) /\ Reply("ToolDisabled")
       \/ Allows(state.enabled, msg.params.tool) /\ ~msg.params.valid /\ Reply("InvalidArguments")
    /\ UNCHANGED <<agent, client, loading, state, work, clock>>

Call ==
    /\ pc = "handle"
    /\ msg.method = "tools/call"
    /\ Allows(state.enabled, msg.params.tool)
    /\ msg.params.valid
    /\ thread' = [thread EXCEPT ![msg.id] =
           IF msg.params.tool = Writer THEN [at |-> "wait", change |-> msg.params.change, stamp |-> 0]
           ELSE [NoThread EXCEPT !.at = "look"]]
    /\ Goto("await")
    /\ UNCHANGED <<agent, client, msg, loading, state, outbox, holders, journal, clock>>

Answer ==
    /\ pc = "await"
    /\ Ended(msg.id)
    /\ Reply(thread[msg.id].at)
    /\ UNCHANGED <<agent, client, loading, state, work, clock>>

\* Mutant: a call that takes too long has failed, and says so.
DeadlineFails ==
    /\ pc = "await"
    /\ ~Ended(msg.id)
    /\ Reply("LockTimeout")
    /\ UNCHANGED <<agent, client, loading, state, work, clock>>

\* Mutant: the loop waits for the thread however long it takes.
DeadlineNever == FALSE /\ UNCHANGED vars

\* recv_timeout: the answer says that the call may still complete, and its thread goes on.
Deadline ==
    /\ pc = "await"
    /\ ~Ended(msg.id)
    /\ Reply("DeadlineExceeded")
    /\ UNCHANGED <<agent, client, loading, state, work, clock>>

-----------------------------------------------------------------------------
\* The thread of a call

Move(i, l) == thread' = [thread EXCEPT ![i].at = l]

\* A tool that only looks needs no lock.
Look(i) ==
    /\ thread[i].at = "look"
    /\ Move(i, "done")
    /\ UNCHANGED <<agent, client, pc, msg, loading, state, outbox, holders, journal, clock>>

\* Mutant: the journal is written without the project lock.
EnterUnlocked(i) ==
    /\ thread[i].at = "wait"
    /\ Move(i, "compare")
    /\ UNCHANGED <<agent, client, pc, msg, loading, state, outbox, holders, journal, clock>>

Enter(i) ==
    /\ thread[i].at = "wait"
    /\ holders = {}
    /\ holders' = {i}
    /\ Move(i, "compare")
    /\ UNCHANGED <<agent, client, pc, msg, loading, state, outbox, journal, clock>>

\* Mutant: the lock's timeout is passed on as the deadline's.
GiveUpLate(i) ==
    /\ thread[i].at = "wait"
    /\ Move(i, "DeadlineExceeded")
    /\ UNCHANGED <<agent, client, pc, msg, loading, state, outbox, holders, journal, clock>>

\* The project lock was not to be had for 30 s.
GiveUp(i) ==
    /\ thread[i].at = "wait"
    /\ Move(i, "LockTimeout")
    /\ UNCHANGED <<agent, client, pc, msg, loading, state, outbox, holders, journal, clock>>

\* journal_duplicate: the same change, at most 120 s ago.
Repeats(i) == \E line \in journal : line.change = thread[i].change /\ line.stamp = clock

\* append_journal takes the time and reads the journal.
Compare(i) ==
    /\ thread[i].at = "compare"
    /\ thread' = [thread EXCEPT ![i].at = IF Repeats(i) THEN "leave" ELSE "append", ![i].stamp = clock]
    /\ UNCHANGED <<agent, client, pc, msg, loading, state, outbox, holders, journal, clock>>

WriteLine(i) ==
    /\ thread[i].at = "append"
    /\ journal' = journal \cup {[change |-> thread[i].change, stamp |-> thread[i].stamp, by |-> i]}
    /\ Move(i, "leave")
    /\ UNCHANGED <<agent, client, pc, msg, loading, state, outbox, holders, clock>>

Leave(i) ==
    /\ thread[i].at = "leave"
    /\ holders' = holders \ {i}
    /\ Move(i, "done")
    /\ UNCHANGED <<agent, client, pc, msg, loading, state, outbox, journal, clock>>

-----------------------------------------------------------------------------

Loop ==
    \/ Stat \/ TakeStamp \/ ReadText \/ Select \/ Notify
    \/ Read \/ EndOfInput \/ Ignore \/ List \/ Refuse \/ Call \/ Answer \/ Deadline

Thread(i) == Look(i) \/ Enter(i) \/ GiveUp(i) \/ Compare(i) \/ WriteLine(i) \/ Leave(i)

Next ==
    \/ SendRequest \/ SendOther \/ CloseStdin \/ EditAgents \/ Tick
    \/ Loop
    \/ \E i \in Id : Thread(i)

Spec == Init /\ [][Next]_vars

\* The loop runs, and deadlines pass.  Nothing is assumed of the threads: one may wait for
\* the lock, or work, for any time.
FairSpec == Spec /\ WF_vars(Loop)

-----------------------------------------------------------------------------
\* Properties

\* Every variable has its type.
TypeOK ==
    /\ env \in Envs
    /\ agents \in [block : Blocks, version : 0..MaxEdits]
    /\ sent \in 0..MaxRequests
    /\ open \in BOOLEAN
    /\ pc \in {"stat", "stamp", "text", "select", "notify", "read", "handle", "await", "exit"}
    /\ state \in [stamp : 0..Never, enabled : SUBSET Tool, version : 0..MaxEdits]
    /\ thread \in [Id -> [at : {"none", "look", "wait", "compare", "append", "leave", "done", "LockTimeout"},
                          change : Change \cup {NoChange}, stamp : 0..MaxClock]]
    /\ holders \subseteq Id
    /\ journal \subseteq [change : Change, stamp : 0..MaxClock, by : Id]
    /\ clock \in 0..MaxClock

\* The lines between the last list of tools the client was sent and the end.
LastList == {k \in 1..Len(outbox) : outbox[k].type = "tools" /\ \A j \in k + 1..Len(outbox) : outbox[j].type # "tools"}

\* While the loop handles messages, a client that has asked for the tools has the list
\* that calls are checked against, or was told that it changed: however AGENTS.md was
\* edited, back and forth, no call to a tool it was shown is refused out of the blue.
ToldOfChange ==
    pc \in {"read", "handle", "await"} =>
        \A k \in LastList :
            outbox[k].tools = state.enabled \/ \E j \in k + 1..Len(outbox) : outbox[j].type = "list_changed"

Replies == {outbox[k] : k \in {k \in 1..Len(outbox) : outbox[k].type # "list_changed"}}

\* A request is answered with the tools of an AGENTS.md at least as new as the one there
\* when it was sent: an edit made while the file is loaded is seen by the next message.
FreshSelection == \A i \in Id : \A r \in Replies : r.id = i => r.version >= r.sentAt

\* However a client retries after a deadline, with the first call still at work or not,
\* one change makes one line within 120 s.
RecordedOnce == \A x, y \in journal : x.change = y.change /\ x.stamp = y.stamp => x = y

\* What an answer says stays true.  A refusal and a timeout of the lock mean that nothing was
\* recorded and nothing will be, so a client may retry; a change a client is told was recorded
\* is in the journal, with the time of the call or within 120 s before it.  Only
\* DeadlineExceeded leaves it open.
AnswersAreTrue ==
    \A r \in Replies :
        LET call == thread[r.id]
        IN  /\ r.type \in {"ToolDisabled", "InvalidArguments", "LockTimeout"} =>
                 call.at \in {"none", "LockTimeout"} /\ \A line \in journal : line.by # r.id
            /\ (r.type = "done" /\ call.change # NoChange) =>
                 \E line \in journal : line.change = call.change /\ line.stamp = call.stamp

\* Every request is answered, whatever its thread does and whatever AGENTS.md says, unless
\* the environment kept the server from starting.
AllAnswered == []<>(EnvMistake(env) \/ Cardinality(Replies) = sent)
=============================================================================
