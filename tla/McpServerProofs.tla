--------------------------- MODULE McpServerProofs ---------------------------
(***************************************************************************)
(* The safety properties of the MCP server, for any tools, requests and    *)
(* blocks of AGENTS.md, and any number of requests, edits and periods.     *)
(*                                                                         *)
(* All of them rest on one fact that none of them states: requests are     *)
(* handled in the order they were sent (Order), so that a call starts the  *)
(* thread of an id that was never answered, and never that of a call that  *)
(* went past its deadline and still runs.                                  *)
(***************************************************************************)
EXTENDS McpServer, TLAPS, SequenceTheorems

IsRequest(m) == m.method \in {"tools/list", "tools/call"}

Request == {m \in [method : {"tools/list", "tools/call"}, params : Requests, id : Id, version : 0..MaxEdits] :
               m.method = m.params.method}
Message == {Notification, Unparsable} \cup Request

\* The lines of stdout.
Announcement == [type : {"list_changed"}]
Listing == [type : {"tools"}, id : Id, version : 0..MaxEdits, sentAt : 0..MaxEdits, tools : SUBSET Tool]
Outcome == [type : {"ToolDisabled", "InvalidArguments", "LockTimeout", "DeadlineExceeded", "done"},
            id : Id, version : 0..MaxEdits, sentAt : 0..MaxEdits]
Line == Announcement \cup Listing \cup Outcome

ThreadState == [at : {"none", "look", "wait", "compare", "append", "leave", "done", "LockTimeout"},
                change : Change \cup {NoChange}, stamp : 0..MaxClock]

Records(t) == t.at \in {"wait", "compare", "append"} => t.change \in Change

Typed ==
    /\ TypeOK
    /\ inbox \in Seq(Message)
    /\ msg \in Message
    /\ pc = "await" => IsRequest(msg)
    /\ loading \in [stamp : 0..MaxEdits, block : Blocks \cup {NoBlock}, version : 0..MaxEdits]
    /\ outbox \in Seq(Line)
    /\ \A i \in Id : Records(thread[i])

\* The requests on stdin.
Queued == {k \in 1..Len(inbox) : IsRequest(inbox[k])}
Waiting == {inbox[k] : k \in Queued}
Ascending == \A j, k \in Queued : j < k => inbox[j].id < inbox[k].id

\* Requests come in the order of their ids: what was answered and what runs is from
\* before the message at hand, and that is from before those that wait.
Order ==
    /\ Ascending
    /\ \A m \in Waiting : m.id <= sent /\ m.version <= agents.version
    /\ IsRequest(msg) =>
          /\ msg.id <= sent
          /\ msg.version <= agents.version
          /\ \A m \in Waiting : msg.id < m.id
    /\ \A i \in Id : thread[i].at # "none" =>
          /\ i <= sent
          /\ \A m \in Waiting : i < m.id
          /\ IsRequest(msg) => i <= msg.id
          /\ IsRequest(msg) /\ pc # "await" => i < msg.id
    /\ \A r \in Replies :
          /\ r.id <= sent
          /\ \A m \in Waiting : r.id < m.id
          /\ IsRequest(msg) => r.id < msg.id

\* A thread between its acquire and its drop has the project lock to itself.
Locked == \A i \in Id : thread[i].at \in {"compare", "append", "leave"} => holders = {i}

\* What the journal has of each thread's change.
Journaled ==
    /\ \A i \in Id : thread[i].at = "look" => thread[i].change = NoChange
    /\ \A i \in Id : thread[i].at = "append" =>
          \A line \in journal : line.change = thread[i].change => line.stamp # thread[i].stamp
    /\ \A i \in Id : thread[i].at \in {"leave", "done"} /\ thread[i].change # NoChange =>
          \E line \in journal : line.change = thread[i].change /\ line.stamp = thread[i].stamp
    /\ \A line \in journal : thread[line.by].at \in {"leave", "done"} \/ pc = "exit"

\* Where the thread is that an answer speaks of.
Answered ==
    \A r \in Replies :
        /\ r.type \in {"ToolDisabled", "InvalidArguments"} => thread[r.id].at = "none"
        /\ r.type = "LockTimeout" => thread[r.id].at = "LockTimeout"
        /\ r.type = "done" => thread[r.id].at = "done"
        /\ r.type \in {"ToolDisabled", "InvalidArguments", "LockTimeout"} => \A line \in journal : line.by # r.id

\* The stamp is taken before the text is read, so STATE is never older than its stamp says.
Loaded ==
    /\ pc = "text" => loading.stamp <= agents.version
    /\ pc = "select" =>
          /\ loading.stamp <= loading.version
          /\ loading.version <= agents.version
          /\ IsRequest(msg) => msg.version <= loading.version
    /\ state.stamp # Never => state.stamp <= state.version
    /\ state.stamp = Never => pc \in {"stamp", "text", "select"} /\ outbox = <<>> /\ msg = Notification
    /\ pc \in {"notify", "handle", "await"} /\ IsRequest(msg) => msg.version <= state.version

Announced ==
    pc \notin {"notify", "exit"} =>
        \A k \in LastList :
            outbox[k].tools = state.enabled \/ \E j \in k + 1..Len(outbox) : outbox[j].type = "list_changed"

IInv == Typed /\ Order /\ Locked /\ RecordedOnce /\ Journaled /\ Answered /\ Loaded /\ FreshSelection /\ Announced

-----------------------------------------------------------------------------
\* The two streams

\* What a message sent last adds to those that wait.
LEMMA Sent ==
    ASSUME inbox \in Seq(Message), NEW m \in Message, inbox' = Append(inbox, m),
           Ascending, \A w \in Waiting : IsRequest(m) => w.id < m.id
    PROVE  Ascending' /\ \A w \in Waiting' : w \in Waiting \/ (IsRequest(m) /\ w = m)
<1>1. /\ Len(inbox') = Len(inbox) + 1
      /\ \A k \in 1..Len(inbox) : inbox'[k] = inbox[k]
      /\ inbox'[Len(inbox) + 1] = m
      /\ Len(inbox) \in Nat
  BY AppendProperties
<1>2. \A k \in Queued' : k \in Queued \/ (k = Len(inbox) + 1 /\ IsRequest(m))
  BY <1>1 DEF Queued, IsRequest
<1>3. \A k \in Queued : k \in 1..Len(inbox) /\ inbox'[k] = inbox[k] /\ inbox[k] \in Waiting
  BY <1>1 DEF Queued, Waiting
<1>4. Ascending'
  BY <1>1, <1>2, <1>3 DEF Ascending
<1>5. \A w \in Waiting' : w \in Waiting \/ (IsRequest(m) /\ w = m)
  <2> SUFFICES ASSUME NEW k \in Queued' PROVE inbox'[k] \in Waiting \/ (IsRequest(m) /\ inbox'[k] = m)
    BY DEF Waiting
  <2> QED
    BY <1>1, <1>2, <1>3
<1> QED
  BY <1>4, <1>5

\* The message received is from before those that wait after it.
LEMMA Received ==
    ASSUME inbox \in Seq(Message), inbox # <<>>, inbox' = Tail(inbox), Ascending
    PROVE  /\ Ascending'
           /\ \A w \in Waiting' : w \in Waiting
           /\ IsRequest(Head(inbox)) => Head(inbox) \in Waiting /\ \A w \in Waiting' : Head(inbox).id < w.id
<1>1. /\ Len(inbox) \in Nat /\ Len(inbox) >= 1
      /\ Len(inbox') = Len(inbox) - 1
      /\ \A k \in 1..Len(inbox') : inbox'[k] = inbox[k + 1]
      /\ Head(inbox) = inbox[1]
  BY HeadTailProperties, EmptySeq
<1>2. \A k \in Queued' : k \in 1..Len(inbox') /\ inbox'[k] = inbox[k + 1] /\ k + 1 \in Queued
  BY <1>1 DEF Queued, IsRequest
<1>3. Ascending'
  BY <1>1, <1>2 DEF Ascending
<1>4. ASSUME NEW w \in Waiting' PROVE w \in Waiting /\ (IsRequest(Head(inbox)) => Head(inbox).id < w.id)
  <2> PICK k \in Queued' : w = inbox'[k]
    BY DEF Waiting
  <2>1. w = inbox[k + 1] /\ k + 1 \in Queued /\ k + 1 > 1 /\ k \in Nat
    BY <1>1, <1>2
  <2>2. w \in Waiting
    BY <2>1 DEF Waiting
  <2>3. IsRequest(Head(inbox)) => 1 \in Queued
    BY <1>1 DEF Queued, IsRequest
  <2> QED
    BY <1>1, <2>1, <2>2, <2>3 DEF Ascending
<1>5. IsRequest(Head(inbox)) => Head(inbox) \in Waiting
  BY <1>1 DEF Queued, Waiting
<1> QED
  BY <1>3, <1>4, <1>5

\* A line is added to those the client has.
LEMMA Printed ==
    ASSUME outbox \in Seq(Line), NEW x \in Line, outbox' = Append(outbox, x)
    PROVE  /\ \A r \in Replies' : r \in Replies \/ (r = x /\ x.type # "list_changed")
           /\ \A r \in Replies : r \in Replies'
<1>1. /\ Len(outbox') = Len(outbox) + 1
      /\ \A k \in 1..Len(outbox) : outbox'[k] = outbox[k]
      /\ outbox'[Len(outbox) + 1] = x
      /\ Len(outbox) \in Nat
  BY AppendProperties
<1> QED
  BY <1>1 DEF Replies

\* A list of tools becomes the last one; any other line comes after the last one.
LEMMA Listed ==
    ASSUME outbox \in Seq(Line), NEW x \in Line, outbox' = Append(outbox, x)
    PROVE  /\ x.type = "tools" => \A k \in LastList' : outbox'[k] = x
           /\ x.type # "tools" => \A k \in LastList' : k \in LastList /\ outbox'[k] = outbox[k]
           /\ \A k \in LastList :
                 /\ \A j \in k + 1..Len(outbox) : j \in k + 1..Len(outbox') /\ outbox'[j] = outbox[j]
                 /\ x.type = "list_changed" => \E j \in k + 1..Len(outbox') : outbox'[j].type = "list_changed"
<1>1. /\ Len(outbox') = Len(outbox) + 1
      /\ \A k \in 1..Len(outbox) : outbox'[k] = outbox[k]
      /\ outbox'[Len(outbox) + 1] = x
      /\ Len(outbox) \in Nat
  BY AppendProperties
<1>2. ASSUME NEW k \in LastList'
      PROVE  /\ k \in 1..Len(outbox) + 1
             /\ outbox'[k].type = "tools"
             /\ \A j \in k + 1..Len(outbox) + 1 : outbox'[j].type # "tools"
  BY <1>1 DEF LastList
<1>3. x.type = "tools" => \A k \in LastList' : outbox'[k] = x
  BY <1>1, <1>2
<1>4. ASSUME x.type # "tools", NEW k \in LastList' PROVE k \in LastList /\ outbox'[k] = outbox[k]
  <2>1. k \in 1..Len(outbox) /\ outbox'[k] = outbox[k]
    BY <1>1, <1>2, <1>4
  <2>2. \A j \in k + 1..Len(outbox) : outbox'[j] = outbox[j] /\ j \in k + 1..Len(outbox) + 1
    BY <1>1, <2>1
  <2> QED
    BY <1>2, <2>1, <2>2 DEF LastList
<1>5. ASSUME NEW k \in LastList
      PROVE  /\ \A j \in k + 1..Len(outbox) : j \in k + 1..Len(outbox') /\ outbox'[j] = outbox[j]
             /\ Len(outbox) + 1 \in k + 1..Len(outbox')
  BY <1>1 DEF LastList
<1> QED
  BY <1>1, <1>3, <1>4, <1>5

-----------------------------------------------------------------------------
\* Types

\* A selection is a set of tools.
LEMMA SelectionType == \A e, b : Enabled(e, b) \in SUBSET Tool
BY DEF Enabled, Matches

\* The server starts with nothing read, nothing written and no thread.
LEMMA TypedInit == Init => Typed
<1> SUFFICES ASSUME Init PROVE Typed
  OBVIOUS
<1> USE McpServerAssumption DEF McpServerAssumption, Init, Id, Never, NoThread, NotLoading
<1>1. TypeOK /\ \A i \in Id : Records(thread[i])
  <2>1. thread \in [Id -> ThreadState] /\ \A i \in Id : Records(thread[i])
    BY DEF ThreadState, Records
  <2>2. agents \in [block : Blocks, version : 0..MaxEdits] /\ state \in [stamp : 0..Never, enabled : SUBSET Tool, version : 0..MaxEdits]
    OBVIOUS
  <2> QED
    BY <2>1, <2>2 DEF TypeOK, ThreadState
<1>2. inbox \in Seq(Message) /\ outbox \in Seq(Line)
  BY EmptySeq
<1>3. msg \in Message /\ pc # "await" /\ loading \in [stamp : 0..MaxEdits, block : Blocks \cup {NoBlock}, version : 0..MaxEdits]
  BY DEF Message
<1> QED
  BY <1>1, <1>2, <1>3 DEF Typed

\* A thread moves on.
LEMMA MovedOn ==
    ASSUME Typed, NEW i \in Id, NEW t \in ThreadState, Records(t), thread' = [thread EXCEPT ![i] = t]
    PROVE  thread' \in [Id -> ThreadState] /\ \A j \in Id : Records(thread'[j])
BY DEF Typed, TypeOK, ThreadState

\* Each step of the client, the agent, the loop or a thread keeps the types.
LEMMA TypedStep == Typed /\ [Next]_vars => Typed'
<1> SUFFICES ASSUME Typed, [Next]_vars PROVE Typed'
  OBVIOUS
<1> USE McpServerAssumption
    DEF McpServerAssumption, Typed, TypeOK, IsRequest, agent, client, work, Goto, Never
<1>1. CASE SendRequest
  <2> PICK r \in Requests : Send([method |-> r.method, params |-> r, id |-> sent + 1, version |-> agents.version])
    BY <1>1 DEF SendRequest
  <2> DEFINE m == [method |-> r.method, params |-> r, id |-> sent + 1, version |-> agents.version]
  <2>1. sent' \in 0..MaxRequests /\ sent + 1 \in Id
    BY <1>1 DEF SendRequest, Id
  <2>2. m \in Message
    BY <2>1 DEF Message, Request
  <2>3. inbox' \in Seq(Message)
    BY <2>2, AppendProperties DEF Send
  <2> QED
    BY <2>1, <2>3 DEF Send
<1>2. CASE SendOther
  <2> PICK m \in {Notification, Unparsable} : Send(m)
    BY <1>2 DEF SendOther
  <2>1. inbox' \in Seq(Message)
    BY AppendProperties DEF Send, Message
  <2> QED
    BY <1>2, <2>1 DEF Send, SendOther
<1>3. CASE CloseStdin \/ Tick
  <2>1. clock' = clock \/ (clock < MaxClock /\ clock' = clock + 1)
    BY <1>3 DEF CloseStdin, Tick
  <2>2. MaxClock \in Nat
    OBVIOUS
  <2>3. clock' \in 0..MaxClock
    BY <2>1, <2>2
  <2> QED
    BY <1>3, <2>3 DEF CloseStdin, Tick
<1>4. CASE EditAgents
  <2>1. agents' \in [block : Blocks, version : 0..MaxEdits]
    BY <1>4 DEF EditAgents
  <2> QED
    BY <1>4, <2>1 DEF EditAgents
<1>5. CASE Stat \/ TakeStamp \/ ReadText
  BY <1>5 DEF Stat, TakeStamp, ReadText, LoadStep
<1>6. CASE Select
  BY <1>6, SelectionType DEF Select, NotLoading
<1>7. CASE Notify
  <2>1. outbox' \in Seq(Line)
    BY <1>7, AppendProperties DEF Notify, Line, Announcement
  <2> QED
    BY <1>7, <2>1 DEF Notify
<1>8. CASE Read
  <2>1. inbox' \in Seq(Message) /\ Head(inbox) \in Message
    BY <1>8, HeadTailProperties DEF Read
  <2> QED
    BY <1>8, <2>1 DEF Read
<1>9. CASE EndOfInput
  <2>1. NoThread \in ThreadState /\ Records(NoThread)
    BY DEF NoThread, Records, ThreadState
  <2>2. thread' \in [Id -> ThreadState] /\ \A j \in Id : Records(thread'[j])
    BY <1>9, <2>1 DEF EndOfInput, ThreadState
  <2>3. holders' \subseteq Id /\ pc' = "exit" /\ UNCHANGED <<env, agents, inbox, sent, open, msg, loading, state, outbox, journal, clock>>
    BY <1>9 DEF EndOfInput
  <2> QED
    BY <2>2, <2>3 DEF ThreadState
<1>10. CASE Ignore
  BY <1>10 DEF Ignore
<1>11. CASE List
  <2>1. msg \in Request
    BY <1>11 DEF List, Message, Notification, Unparsable
  <2>2. outbox' \in Seq(Line)
    BY <1>11, <2>1, AppendProperties DEF List, Line, Listing, Request
  <2> QED
    BY <1>11, <2>2 DEF List, Message
<1>12. ASSUME NEW type \in {"ToolDisabled", "InvalidArguments", "LockTimeout", "DeadlineExceeded", "done"}, Reply(type),
              IsRequest(msg)
       PROVE  outbox' \in Seq(Line) /\ msg' \in Message /\ pc' = "read"
  <2>1. msg \in Request
    BY <1>12 DEF IsRequest, Message, Notification, Unparsable
  <2>2. outbox' \in Seq(Line)
    BY <1>12, <2>1, AppendProperties DEF Reply, Line, Outcome, Request
  <2> QED
    BY <1>12, <2>2 DEF Reply, Message
<1>13. CASE Refuse \/ Answer \/ Deadline
  <2>1. IsRequest(msg)
    BY <1>13 DEF Refuse, Answer, Deadline, IsRequest
  <2>2. PICK type \in {"ToolDisabled", "InvalidArguments", "LockTimeout", "DeadlineExceeded", "done"} : Reply(type)
    BY <1>13 DEF Refuse, Answer, Deadline, Ended
  <2> QED
    BY <1>12, <1>13, <2>1, <2>2 DEF Refuse, Answer, Deadline
<1>14. CASE Call
  <2>1. msg \in Request /\ msg.params \in Requests /\ msg.params.method = "tools/call"
    BY <1>14 DEF Call, Message, Notification, Unparsable, Request
  <2> DEFINE t == IF msg.params.tool = Writer THEN [at |-> "wait", change |-> msg.params.change, stamp |-> 0]
                  ELSE [NoThread EXCEPT !.at = "look"]
  <2>2. t \in ThreadState /\ Records(t) /\ msg.id \in Id
    <3>1. msg.params.change \in Change
      BY <2>1
    <3>2. NoThread \in ThreadState
      BY DEF NoThread, ThreadState
    <3>3. [at |-> "wait", change |-> msg.params.change, stamp |-> 0] \in ThreadState
      BY <3>1 DEF ThreadState
    <3> QED
      BY <2>1, <3>1, <3>2, <3>3 DEF ThreadState, Records, Request
  <2>3. thread' = [thread EXCEPT ![msg.id] = t]
    BY <1>14 DEF Call
  <2> HIDE DEF t
  <2>4. thread' \in [Id -> ThreadState] /\ \A j \in Id : Records(thread'[j])
    BY <2>2, <2>3, MovedOn
  <2>5. pc' = "await" /\ IsRequest(msg) /\ UNCHANGED <<env, agents, inbox, sent, open, msg,
                                                       loading, state, outbox, holders, journal,
                                                       clock>>
    BY <1>14 DEF Call
  <2> QED
    BY <2>4, <2>5 DEF ThreadState
<1>15. ASSUME NEW i \in Id, Thread(i) PROVE Typed'
  <2>1. thread[i] \in ThreadState /\ Records(thread[i])
    BY DEF ThreadState
  <2>2. PICK t \in ThreadState : Records(t) /\ thread' = [thread EXCEPT ![i] = t]
    <3>1. ASSUME NEW l \in {"compare", "leave", "done", "LockTimeout"}, Move(i, l), Records([thread[i] EXCEPT !.at = l])
          PROVE  \E t \in ThreadState : Records(t) /\ thread' = [thread EXCEPT ![i] = t]
      <4>1. [thread[i] EXCEPT !.at = l] \in ThreadState
        BY <2>1 DEF ThreadState
      <4> QED
        BY <3>1, <4>1 DEF Move
    <3>2. ASSUME Compare(i)
          PROVE  \E t \in ThreadState : Records(t) /\ thread' = [thread EXCEPT ![i] = t]
      <4> DEFINE t == [thread[i] EXCEPT !.at = IF Repeats(i) THEN "leave" ELSE "append", !.stamp = clock]
      <4>1. t \in ThreadState /\ Records(t)
        BY <2>1, <3>2 DEF ThreadState, Records, Compare
      <4>2. thread' = [thread EXCEPT ![i] = t]
        BY <3>2 DEF Compare
      <4> QED
        BY <4>1, <4>2
    <3> QED
      BY <1>15, <2>1, <3>1, <3>2 DEF Thread, Look, Enter, GiveUp, WriteLine, Leave, Records
  <2>3. thread' \in [Id -> ThreadState] /\ \A j \in Id : Records(thread'[j])
    BY <2>2, MovedOn
  <2>4. journal' \subseteq [change : Change, stamp : 0..MaxClock, by : Id]
    <3>1. CASE WriteLine(i)
      <4>1. [change |-> thread[i].change, stamp |-> thread[i].stamp, by |-> i] \in [change : Change, stamp : 0..MaxClock, by : Id]
        BY <3>1 DEF WriteLine, Records
      <4> QED
        BY <3>1, <4>1 DEF WriteLine
    <3> QED
      BY <1>15, <3>1 DEF Thread, Look, Enter, GiveUp, Compare, Leave
  <2>5. holders' \subseteq Id /\ UNCHANGED <<env, agents, inbox, sent, open, pc, msg, loading,
                                             state, outbox, clock>>
    BY <1>15 DEF Thread, Look, Enter, GiveUp, Compare, WriteLine, Leave
  <2> QED
    BY <2>3, <2>4, <2>5 DEF ThreadState
<1>16. CASE UNCHANGED vars
  BY <1>16 DEF vars
<1> QED
  BY <1>1, <1>2, <1>3, <1>4, <1>5, <1>6, <1>7, <1>8, <1>9, <1>10, <1>11, <1>13, <1>14, <1>15, <1>16
  DEF Next, Loop

\* Every reachable state is of its type.
THEOREM TypeCorrect == Spec => []TypeOK
<1>1. Typed => TypeOK
  BY DEF Typed
<1> QED
  BY <1>1, TypedInit, TypedStep, PTL DEF Spec

\* Whose ids and versions can be compared.
LEMMA Compared ==
    ASSUME Typed
    PROVE  /\ sent \in Nat /\ agents.version \in Nat /\ Id \subseteq Nat
           /\ \A m \in Waiting : IsRequest(m) /\ m.id \in Nat /\ m.version \in Nat
           /\ \A r \in Replies : r.id \in Id /\ r.version \in Nat /\ r.sentAt \in Nat
           /\ IsRequest(msg) => msg \in Request /\ msg.id \in Id /\ msg.id \in Nat /\ msg.version \in Nat
<1> USE McpServerAssumption DEF McpServerAssumption, Typed, TypeOK
<1>1. sent \in Nat /\ agents.version \in Nat /\ Id \subseteq Nat
  BY DEF Id
<1>2. ASSUME NEW m \in Message, IsRequest(m)
      PROVE  m \in Request /\ m.id \in Id /\ m.id \in Nat /\ m.version \in Nat
  <2>1. m \in Request
    BY <1>2 DEF Message, IsRequest, Notification, Unparsable
  <2>2. m.id \in Id /\ m.version \in 0..MaxEdits
    BY <2>1 DEF Request
  <2>3. m.id \in Nat
    BY <2>2, <1>1
  <2>4. m.version \in Nat
    BY <2>2
  <2> QED
    BY <2>1, <2>2, <2>3, <2>4
<1>3. \A m \in Waiting : m \in Message /\ IsRequest(m)
  BY DEF Waiting, Queued
<1>4. ASSUME NEW r \in Replies PROVE r.id \in Id /\ r.version \in Nat /\ r.sentAt \in Nat
  <2>1. r \in Line /\ r.type # "list_changed"
    BY DEF Replies
  <2>2. r \in Listing \cup Outcome
    BY <2>1 DEF Line, Announcement
  <2>3. r.id \in Id /\ r.version \in 0..MaxEdits /\ r.sentAt \in 0..MaxEdits
    BY <2>2 DEF Listing, Outcome
  <2> QED
    BY <2>3
<1> QED
  BY <1>1, <1>2, <1>3, <1>4

\* What is read off a stream changes with it alone.
LEMMA Kept ==
    /\ UNCHANGED inbox => Waiting' = Waiting /\ (Ascending => Ascending')
    /\ UNCHANGED outbox => Replies' = Replies /\ LastList' = LastList
BY DEF Waiting, Ascending, Queued, IsRequest, Replies, LastList

\* What answers a request, and what its answer says.
LEMMA Replied ==
    ASSUME Typed, List \/ Refuse \/ Answer \/ Deadline
    PROVE  /\ pc \in {"handle", "await"} /\ pc' = "read" /\ IsRequest(msg) /\ msg' = Notification
           /\ UNCHANGED <<agent, client, loading, state, work, clock>>
           /\ \A r \in Replies' :
                 \/ r \in Replies
                 \/ /\ r.id = msg.id /\ r.version = state.version /\ r.sentAt = msg.version
                    /\ r.type \in {"ToolDisabled", "InvalidArguments"} => pc = "handle"
                    /\ r.type \in {"LockTimeout", "done"} => pc = "await" /\ thread[msg.id].at = r.type
           /\ \A k \in LastList' : outbox'[k].tools = state.enabled \/ (k \in LastList /\ outbox'[k] = outbox[k])
           /\ \A k \in LastList : \A j \in k + 1..Len(outbox) : j \in k + 1..Len(outbox') /\ outbox'[j] = outbox[j]
<1>0. outbox \in Seq(Line) /\ TypeOK
  BY DEF Typed
<1>1. IsRequest(msg) /\ msg \in Request
  BY Compared DEF List, Refuse, Answer, Deadline, Typed, IsRequest
<1>2. CASE List
  <2> DEFINE x == [type |-> "tools", id |-> msg.id, version |-> state.version, sentAt |-> msg.version, tools |-> state.enabled]
  <2>1. x \in Line
    BY <1>0, <1>1 DEF Line, Listing, TypeOK, Request
  <2>2. /\ outbox' = Append(outbox, x) /\ x.type = "tools" /\ x.tools = state.enabled
        /\ x.id = msg.id /\ x.version = state.version /\ x.sentAt = msg.version
    BY <1>2 DEF List
  <2> HIDE DEF x
  <2>3. \A r \in Replies' : r \in Replies \/ r = x
    BY <1>0, <2>1, <2>2, Printed
  <2>4. /\ \A k \in LastList' : outbox'[k].tools = state.enabled
        /\ \A k \in LastList : \A j \in k + 1..Len(outbox) : j \in k + 1..Len(outbox') /\ outbox'[j] = outbox[j]
    BY <1>0, <2>1, <2>2, Listed
  <2> QED
    BY <1>1, <1>2, <2>2, <2>3, <2>4 DEF List, Goto
<1>3. CASE Refuse \/ Answer \/ Deadline
  <2> PICK type \in {"ToolDisabled", "InvalidArguments", "LockTimeout", "DeadlineExceeded", "done"} :
             /\ Reply(type)
             /\ type \in {"ToolDisabled", "InvalidArguments"} => pc = "handle"
             /\ type \in {"LockTimeout", "done"} => pc = "await" /\ thread[msg.id].at = type
    BY <1>3 DEF Refuse, Answer, Deadline, Ended
  <2> DEFINE x == [type |-> type, id |-> msg.id, version |-> state.version, sentAt |-> msg.version]
  <2>1. x \in Line
    BY <1>0, <1>1 DEF Line, Outcome, TypeOK, Request
  <2>2. /\ outbox' = Append(outbox, x) /\ x.type = type /\ type # "tools"
        /\ x.id = msg.id /\ x.version = state.version /\ x.sentAt = msg.version
    BY DEF Reply
  <2> HIDE DEF x
  <2>3. \A r \in Replies' : r \in Replies \/ r = x
    BY <1>0, <2>1, <2>2, Printed
  <2>4. /\ \A k \in LastList' : k \in LastList /\ outbox'[k] = outbox[k]
        /\ \A k \in LastList : \A j \in k + 1..Len(outbox) : j \in k + 1..Len(outbox') /\ outbox'[j] = outbox[j]
    BY <1>0, <2>1, <2>2, Listed
  <2> QED
    BY <1>1, <1>3, <2>2, <2>3, <2>4 DEF Refuse, Answer, Deadline, Reply, Goto
<1> QED
  BY <1>2, <1>3

-----------------------------------------------------------------------------
\* Requests are handled in the order they were sent

\* The loop takes requests from the front of the inbox, the client adds them at its end, and each
\* is replied to before the next is read: the answered ones are those before the one in hand.
LEMMA OrderStep == Typed /\ Order /\ [Next]_vars => Order'
<1> SUFFICES ASSUME Typed, Order, [Next]_vars PROVE Order'
  OBVIOUS
<1>0. TypeOK /\ thread \in [Id -> ThreadState] /\ inbox \in Seq(Message) /\ outbox \in Seq(Line)
  BY DEF Typed, TypeOK, ThreadState
<1> USE <1>0, Compared, Kept DEF Order, IsRequest, ThreadState, agent, client, work, Goto
<1>1. CASE SendRequest
  <2> PICK r \in Requests : Send([method |-> r.method, params |-> r, id |-> sent + 1, version |-> agents.version])
    BY <1>1 DEF SendRequest
  <2> DEFINE m == [method |-> r.method, params |-> r, id |-> sent + 1, version |-> agents.version]
  <2>1. m \in Message
    <3>1. sent + 1 \in Id /\ agents.version \in 0..MaxEdits
      BY <1>1, McpServerAssumption DEF SendRequest, Id, McpServerAssumption, TypeOK
    <3> QED
      BY <3>1, McpServerAssumption DEF Message, Request, McpServerAssumption
  <2>2. m.id = sent + 1 /\ m.version = agents.version /\ inbox' = Append(inbox, m)
    BY DEF Send
  <2> HIDE DEF m
  <2>5. \A w \in Waiting : w.id < m.id
    BY <2>2
  <2>3. Ascending' /\ \A w \in Waiting' : w \in Waiting \/ w = m
    BY <2>1, <2>2, <2>5, Sent
  <2>4. sent' = sent + 1 /\ UNCHANGED <<agents, pc, msg, thread, outbox>>
    BY <1>1 DEF SendRequest, Send
  <2> QED
    BY <2>2, <2>3, <2>4
<1>2. CASE SendOther
  <2> PICK m \in {Notification, Unparsable} : Send(m)
    BY <1>2 DEF SendOther
  <2>1. m \in Message /\ ~IsRequest(m)
    BY DEF Message, Notification, Unparsable
  <2>2. Ascending' /\ \A w \in Waiting' : w \in Waiting
    BY <2>1, Sent DEF Send
  <2> QED
    BY <1>2, <2>2 DEF Send, SendOther
<1>3. CASE Read
  <2>1. /\ Ascending'
        /\ \A w \in Waiting' : w \in Waiting
        /\ IsRequest(Head(inbox)) => Head(inbox) \in Waiting /\ \A w \in Waiting' : Head(inbox).id < w.id
    BY <1>3, Received DEF Read
  <2>2. msg' = msg \/ (msg' = Head(inbox) /\ pc' = "stat")
    BY <1>3 DEF Read
  <2>3. pc # "await" /\ pc' # "await" /\ UNCHANGED <<sent, agents, thread, outbox>>
    BY <1>3 DEF Read
  <2> QED
    BY <2>1, <2>2, <2>3
<1>4. CASE Call
  BY <1>4 DEF Call
<1>5. CASE List \/ Refuse \/ Answer \/ Deadline
  BY <1>5, Replied DEF Notification
<1>6. CASE Notify
  <2>1. \A r \in Replies' : r \in Replies
    BY <1>6, Printed DEF Notify, Line, Announcement
  <2> QED
    BY <1>6, <2>1 DEF Notify
<1>7. ASSUME NEW i \in Id, Thread(i) PROVE Order'
  <2>1. \A j \in Id : thread'[j].at # "none" => thread[j].at # "none"
    BY <1>7 DEF Thread, Look, Enter, GiveUp, Compare, WriteLine, Leave, Move
  <2>2. UNCHANGED <<inbox, sent, agents, pc, msg, outbox>>
    BY <1>7 DEF Thread, Look, Enter, GiveUp, Compare, WriteLine, Leave
  <2> QED
    BY <2>1, <2>2
<1>8. CASE EndOfInput
  <2>1. \A j \in Id : thread'[j].at # "none" => thread[j].at # "none"
    BY <1>8 DEF EndOfInput, NoThread
  <2>2. UNCHANGED <<inbox, sent, agents, msg, outbox>> /\ pc # "await"
    BY <1>8 DEF EndOfInput
  <2> QED
    BY <2>1, <2>2
<1>9. CASE Stat \/ TakeStamp \/ ReadText \/ Select \/ Ignore
  <2>1. pc # "await" /\ UNCHANGED <<inbox, sent, agents, msg, outbox, thread>>
    BY <1>9 DEF Stat, TakeStamp, ReadText, Select, Ignore
  <2> QED
    BY <2>1
<1>10. CASE EditAgents
  <2>1. agents'.version = agents.version + 1 /\ UNCHANGED <<inbox, sent, pc, msg, outbox, thread>>
    BY <1>10 DEF EditAgents
  <2> QED
    BY <2>1
<1>11. CASE CloseStdin \/ Tick \/ UNCHANGED vars
  BY <1>11 DEF CloseStdin, Tick, vars
<1> QED
  BY <1>1, <1>2, <1>3, <1>4, <1>5, <1>6, <1>7, <1>8, <1>9, <1>10, <1>11 DEF Next, Loop

-----------------------------------------------------------------------------
\* The journal

\* The lock has one holder, the thread that has entered and not yet left.
LEMMA LockedStep == Typed /\ Locked /\ [Next]_vars => Locked'
<1> SUFFICES ASSUME Typed, Locked, [Next]_vars PROVE Locked'
  OBVIOUS
<1>0. thread \in [Id -> ThreadState]
  BY DEF Typed, TypeOK, ThreadState
<1> USE <1>0 DEF Locked, ThreadState, work
<1>1. CASE Call
  BY <1>1 DEF Call, NoThread
<1>2. CASE EndOfInput
  BY <1>2 DEF EndOfInput, NoThread, Ended
<1>3. ASSUME NEW i \in Id, Thread(i) PROVE Locked'
  BY <1>3 DEF Thread, Look, Enter, GiveUp, Compare, WriteLine, Leave, Move
<1>4. CASE UNCHANGED <<thread, holders>>
  BY <1>4
<1> QED
  BY <1>1, <1>2, <1>3, <1>4, Replied
  DEF Next, vars, Loop, SendRequest, SendOther, Send, CloseStdin, EditAgents, Tick, Stat,
      TakeStamp, ReadText, Select,
      Notify, Read, Ignore

\* The thread that writes a line is the only one to have compared, so what it saw is still so.
LEMMA JournalStep ==
    Typed /\ Order /\ Locked /\ Journaled /\ RecordedOnce /\ [Next]_vars => Journaled' /\ RecordedOnce'
<1> SUFFICES ASSUME Typed, Order, Locked, Journaled, RecordedOnce, [Next]_vars PROVE Journaled' /\ RecordedOnce'
  OBVIOUS
<1>0. /\ thread \in [Id -> ThreadState]
      /\ journal \subseteq [change : Change, stamp : 0..MaxClock, by : Id]
      /\ \A i \in Id : IsRequest(msg) /\ pc # "await" /\ thread[i].at # "none" => i < msg.id
      /\ IsRequest(msg) => msg.id \in Id /\ msg.id \in Nat
  BY Compared DEF Typed, TypeOK, ThreadState, Order
<1> USE <1>0 DEF Journaled, RecordedOnce, ThreadState, work
<1>1. CASE Call
  <2>1. thread[msg.id].at = "none" /\ msg.id \in Id /\ pc' # "exit" /\ pc # "exit" /\ UNCHANGED journal
    BY <1>1 DEF Call, IsRequest, Goto
  <2>2. \A line \in journal : line.by \in Id /\ line.by # msg.id
    BY <2>1
  <2> QED
    BY <1>1, <2>1, <2>2 DEF Call, NoThread
<1>2. CASE EndOfInput
  BY <1>2 DEF EndOfInput, NoThread, Ended, Goto
<1>3. ASSUME NEW i \in Id, Look(i) \/ Enter(i) \/ GiveUp(i) \/ Compare(i) \/ Leave(i)
      PROVE  Journaled' /\ RecordedOnce'
  BY <1>3 DEF Look, Enter, GiveUp, Compare, Repeats, Leave, Move
<1>4. ASSUME NEW i \in Id, WriteLine(i) PROVE Journaled' /\ RecordedOnce'
  <2> DEFINE new == [change |-> thread[i].change, stamp |-> thread[i].stamp, by |-> i]
  <2>1. /\ thread[i].at = "append" /\ thread' = [thread EXCEPT ![i].at = "leave"]
        /\ journal' = journal \cup {new} /\ pc' = pc
    BY <1>4 DEF WriteLine, Move
  <2>2. new.change = thread[i].change /\ new.stamp = thread[i].stamp /\ new.by = i
    OBVIOUS
  <2> HIDE DEF new
  <2>3. \A j \in Id : thread[j].at = "append" => j = i
    BY <2>1 DEF Locked
  <2>4. RecordedOnce'
    BY <2>1, <2>2
  <2> QED
    BY <2>1, <2>2, <2>3, <2>4
<1>5. CASE UNCHANGED <<thread, journal>> /\ (pc = "exit" => pc' = "exit")
  BY <1>5
<1> QED
  BY <1>1, <1>2, <1>3, <1>4, <1>5, Replied
  DEF Next, vars, Loop, SendRequest, SendOther, Send, CloseStdin, EditAgents, Tick, Stat,
      TakeStamp, ReadText, Select,
      Notify, Read, Ignore, Thread

-----------------------------------------------------------------------------
\* Answers

\* A call that was answered without a thread never gets one, and a thread that ended stays so.
LEMMA AnsweredStep ==
    Typed /\ Order /\ Journaled /\ Answered /\ [Next]_vars => Answered'
<1> SUFFICES ASSUME Typed, Order, Journaled, Answered, [Next]_vars PROVE Answered'
  OBVIOUS
<1>0. /\ thread \in [Id -> ThreadState]
      /\ \A line \in journal : line.by \in Id /\ (thread[line.by].at \in {"leave", "done"} \/ pc = "exit")
      /\ \A i \in Id : IsRequest(msg) /\ pc # "await" /\ thread[i].at # "none" => i < msg.id
      /\ IsRequest(msg) => msg.id \in Id /\ msg.id \in Nat
      /\ \A r \in Replies : r.id \in Id /\ (IsRequest(msg) => r.id < msg.id)
  BY Compared DEF Typed, TypeOK, ThreadState, Order, Journaled
<1> USE <1>0, Kept DEF Answered, ThreadState, work
<1>1. CASE Call
  <2>1. IsRequest(msg) /\ UNCHANGED <<journal, outbox>>
    BY <1>1 DEF Call, IsRequest
  <2>2. \A r \in Replies : r.id # msg.id
    BY <2>1
  <2> QED
    BY <1>1, <2>1, <2>2 DEF Call
<1>2. CASE List \/ Refuse \/ Answer \/ Deadline
  <2>1. \A r \in Replies' : r \in Replies \/
            /\ r.id = msg.id
            /\ r.type \in {"ToolDisabled", "InvalidArguments"} => pc = "handle"
            /\ r.type \in {"LockTimeout", "done"} => pc = "await" /\ thread[msg.id].at = r.type
    BY <1>2, Replied
  <2>2. msg.id \in Id /\ UNCHANGED <<journal, thread>> /\ pc \in {"handle", "await"}
    BY <1>2, Replied
  <2>3. pc = "handle" => thread[msg.id].at = "none"
    BY <1>2, <2>2, Replied
  <2> QED
    BY <2>1, <2>2, <2>3
<1>3. CASE EndOfInput
  BY <1>3 DEF EndOfInput, NoThread, Ended
<1>4. ASSUME NEW i \in Id, Thread(i) PROVE Answered'
  <2>1. UNCHANGED outbox /\ thread[i].at \notin {"none", "done", "LockTimeout"}
    BY <1>4 DEF Thread, Look, Enter, GiveUp, Compare, WriteLine, Leave
  <2>2. \A j \in Id : j # i => thread'[j] = thread[j]
    BY <1>4 DEF Thread, Look, Enter, GiveUp, Compare, WriteLine, Leave, Move
  <2>3. \A line \in journal' : line \in journal \/ line.by = i
    BY <1>4 DEF Thread, Look, Enter, GiveUp, Compare, WriteLine, Leave
  <2> QED
    BY <2>1, <2>2, <2>3
<1>5. CASE Notify
  <2>1. \A r \in Replies' : r \in Replies
    BY <1>5, Printed DEF Notify, Line, Announcement, Typed
  <2> QED
    BY <1>5, <2>1 DEF Notify
<1>6. CASE UNCHANGED <<thread, journal, outbox>>
  BY <1>6
<1> QED
  BY <1>1, <1>2, <1>3, <1>4, <1>5, <1>6
  DEF Next, vars, Loop, SendRequest, SendOther, Send, CloseStdin, EditAgents, Tick, Stat,
      TakeStamp, ReadText, Select,
      Read, Ignore

-----------------------------------------------------------------------------
\* The selection

\* A message is handled with an AGENTS.md no older than the one there when it was sent.
LEMMA LoadedStep ==
    Typed /\ Order /\ Loaded /\ FreshSelection /\ [Next]_vars => Loaded' /\ FreshSelection'
<1> SUFFICES ASSUME Typed, Order, Loaded, FreshSelection, [Next]_vars PROVE Loaded' /\ FreshSelection'
  OBVIOUS
<1>0. /\ agents.version \in 0..MaxEdits /\ MaxEdits \in Nat
      /\ state \in [stamp : 0..Never, enabled : SUBSET Tool, version : 0..MaxEdits]
      /\ loading \in [stamp : 0..MaxEdits, block : Blocks \cup {NoBlock}, version : 0..MaxEdits]
      /\ IsRequest(msg) => msg.version \in Nat /\ msg.version <= agents.version
      /\ pc \in {"stat", "stamp", "text", "select", "notify", "read", "handle", "await", "exit"}
  BY McpServerAssumption, Compared DEF McpServerAssumption, Typed, TypeOK, Order
<1> USE <1>0, Kept DEF Loaded, FreshSelection, IsRequest, agent, Goto, Never
<1>1. CASE Stat
  BY <1>1 DEF Stat, LoadStep
<1>2. CASE TakeStamp
  BY <1>2 DEF TakeStamp, LoadStep
<1>3. CASE ReadText
  BY <1>3 DEF ReadText, LoadStep
<1>4. CASE Select
  <2> DEFINE selected == [stamp |-> loading.stamp, enabled |-> Enabled(env, loading.block), version |-> loading.version]
  <2>1. /\ pc = "select" /\ state' = selected
        /\ pc' \in {"exit", "read", "notify", "handle"}
        /\ UNCHANGED <<agents, msg, outbox>>
    BY <1>4 DEF Select
  <2>2. state'.stamp = loading.stamp /\ state'.version = loading.version
    BY <2>1
  <2> HIDE DEF selected
  <2> QED
    BY <2>1, <2>2
<1>5. CASE Notify
  <2>1. \A r \in Replies' : r \in Replies
    BY <1>5, Printed DEF Notify, Line, Announcement, Typed
  <2> QED
    BY <1>5, <2>1 DEF Notify
<1>6. CASE List \/ Refuse \/ Answer \/ Deadline
  <2>1. \A r \in Replies' : r \in Replies \/ (r.version = state.version /\ r.sentAt = msg.version)
    BY <1>6, Replied
  <2>2. /\ pc \in {"handle", "await"} /\ pc' = "read" /\ IsRequest(msg) /\ msg' = Notification
        /\ UNCHANGED <<agents, loading, state>>
    BY <1>6, Replied
  <2> QED
    BY <2>1, <2>2 DEF Notification
<1>7. CASE Read
  BY <1>7 DEF Read
<1>8. CASE Call
  BY <1>8 DEF Call
<1>9. CASE EndOfInput \/ Ignore
  BY <1>9 DEF EndOfInput, Ignore
<1>10. CASE EditAgents
  <2>1. agents'.version = agents.version + 1 /\ UNCHANGED <<pc, msg, loading, state, outbox>>
    BY <1>10 DEF EditAgents
  <2> QED
    BY <2>1
<1>11. CASE UNCHANGED <<agents, pc, msg, loading, state, outbox>>
  BY <1>11
<1> QED
  BY <1>1, <1>2, <1>3, <1>4, <1>5, <1>6, <1>7, <1>8, <1>9, <1>10, <1>11
  DEF Next, vars, Loop, SendRequest, SendOther, Send, CloseStdin, Tick, Thread, Look, Enter,
      GiveUp, Compare, WriteLine,
      Leave

\* A selection that differs from the last list is announced before the next message is handled.
LEMMA AnnouncedStep == Typed /\ Loaded /\ Announced /\ [Next]_vars => Announced'
<1> SUFFICES ASSUME Typed, Loaded, Announced, [Next]_vars PROVE Announced'
  OBVIOUS
<1> USE Kept DEF Announced, agent, Goto
<1>1. CASE Select
  <2>1. pc = "select" /\ UNCHANGED outbox
    BY <1>1 DEF Select
  <2>2. state.stamp = Never => LastList = {}
    BY DEF Loaded, LastList
  <2>3. state.stamp # Never /\ pc' \notin {"notify", "exit"} => state'.enabled = state.enabled
    BY <1>1 DEF Select, ListChanged
  <2> QED
    BY <2>1, <2>2, <2>3
<1>2. CASE Notify
  <2> DEFINE x == [type |-> "list_changed"]
  <2>1. x \in Line /\ outbox \in Seq(Line) /\ outbox' = Append(outbox, x) /\ x.type = "list_changed"
    BY <1>2 DEF Notify, Line, Announcement, Typed
  <2> HIDE DEF x
  <2> QED
    BY <2>1, Listed
<1>3. CASE List \/ Refuse \/ Answer \/ Deadline
  <2>1. pc \in {"handle", "await"} /\ UNCHANGED state
    BY <1>3, Replied
  <2>2. ASSUME NEW k \in LastList'
        PROVE  outbox'[k].tools = state.enabled \/ \E j \in k + 1..Len(outbox') : outbox'[j].type = "list_changed"
    <3>1. outbox'[k].tools = state.enabled \/ (k \in LastList /\ outbox'[k] = outbox[k])
      BY <1>3, Replied
    <3>2. k \in LastList => \A j \in k + 1..Len(outbox) : j \in k + 1..Len(outbox') /\ outbox'[j] = outbox[j]
      BY <1>3, Replied
    <3> QED
      BY <2>1, <3>1, <3>2
  <2> QED
    BY <2>1, <2>2
<1>4. CASE UNCHANGED <<outbox, state>> /\ (pc \in {"notify", "exit"} => pc' \in {"notify", "exit"})
  BY <1>4
<1> QED
  BY <1>1, <1>2, <1>3, <1>4
  DEF Next, vars, Loop, SendRequest, SendOther, Send, CloseStdin, EditAgents, Tick, Stat,
      TakeStamp, ReadText, Read,
      EndOfInput, Ignore, Call, Thread, Look, Enter, GiveUp, Compare, WriteLine, Leave

-----------------------------------------------------------------------------
\* The theorems

\* The strengthened invariant holds in every reachable state.
LEMMA Inductive == Spec => []IInv
<1>1. Init => IInv
  <2> SUFFICES ASSUME Init PROVE IInv
    OBVIOUS
  <2>1. Typed
    BY TypedInit
  <2>2. inbox = <<>> /\ outbox = <<>> /\ Waiting = {} /\ Queued = {} /\ Replies = {} /\ LastList = {}
    BY DEF Init, Waiting, Queued, Replies, LastList
  <2>3. \A i \in Id : thread[i] = NoThread
    BY DEF Init
  <2>4. Order /\ Locked /\ RecordedOnce /\ Journaled /\ Answered /\ FreshSelection /\ Announced
    BY <2>2, <2>3
    DEF Init, Order, Ascending, IsRequest, Notification, NoThread, Locked, RecordedOnce,
        Journaled, Answered,
        FreshSelection, Announced
  <2>5. Loaded
    BY <2>2 DEF Init, Loaded
  <2> QED
    BY <2>1, <2>4, <2>5 DEF IInv
<1>2. IInv /\ [Next]_vars => IInv'
  BY TypedStep, OrderStep, LockedStep, JournalStep, AnsweredStep, LoadedStep, AnnouncedStep DEF IInv
<1> QED
  BY <1>1, <1>2, PTL DEF Spec

\* However a client retries, and whichever of its calls went past their deadlines, one
\* change makes one line of the journal in 120 s.
THEOREM OneLinePerChange == Spec => []RecordedOnce
<1>1. IInv => RecordedOnce
  BY DEF IInv
<1> QED
  BY <1>1, Inductive, PTL

\* What an answer says of the journal is true when it is given and remains so.
THEOREM AnswersHold == Spec => []AnswersAreTrue
<1>1. IInv => AnswersAreTrue
  <2> SUFFICES ASSUME IInv, NEW r \in Replies
               PROVE  /\ r.type \in {"ToolDisabled", "InvalidArguments", "LockTimeout"} =>
                            /\ thread[r.id].at \in {"none", "LockTimeout"}
                            /\ \A line \in journal : line.by # r.id
                      /\ (r.type = "done" /\ thread[r.id].change # NoChange) =>
                            \E line \in journal : line.change = thread[r.id].change /\ line.stamp = thread[r.id].stamp
    BY DEF AnswersAreTrue
  <2>1. r.id \in Id
    BY Compared DEF IInv
  <2> QED
    BY <2>1 DEF IInv, Answered, Journaled
<1> QED
  BY <1>1, Inductive, PTL

\* Every answer is given with the selection of an AGENTS.md at least as new as the one
\* there when its request was sent.
THEOREM SelectionIsFresh == Spec => []FreshSelection
<1>1. IInv => FreshSelection
  BY DEF IInv
<1> QED
  BY <1>1, Inductive, PTL

\* A client is told of every change to the list it was last sent before a call is checked
\* against the new one.
THEOREM ListIsCurrent == Spec => []ToldOfChange
<1>1. IInv => ToldOfChange
  BY DEF IInv, Announced, ToldOfChange
<1> QED
  BY <1>1, Inductive, PTL
=============================================================================
