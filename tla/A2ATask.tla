------------------------------ MODULE A2ATask ------------------------------
(***************************************************************************)
(* Delegation to a remote A2A agent (src/backend/runtime/a2a.py) and the   *)
(* tasks and events it records (src/backend/domain/a2a.py).  A delegation  *)
(* is one transaction: its task becomes visible when it commits.  The      *)
(* remote agent is external: it may answer late or not at all, cut a       *)
(* stream short, or have accepted a message whose answer never arrived.    *)
(***************************************************************************)
EXTENDS Naturals, Sequences, FiniteSets

CONSTANTS
    Tasks,         \* local task ids
    Remotes,       \* tasks of the remote agent
    Requests,      \* requests that may run at the same time
    MaxAttempts,   \* http_policy.max_attempts (3 in the code)
    EventBound,    \* bound: events of one stream that are recorded
    TroubleBound,  \* bound: timeouts, errors, broken streams and crashes
    AdminBound,    \* bound: upserts, discoveries and changes of the agent
    None

ASSUME A2AAssumption ==
    /\ IsFiniteSet(Remotes) /\ IsFiniteSet(Requests)
    /\ MaxAttempts \in Nat \ {0}
    /\ EventBound \in Nat /\ TroubleBound \in Nat /\ AdminBound \in Nat

VARIABLES
    conn,      \* the connection's row
    agent,     \* the remote agent: whether it streams, and its tasks
    tasks,     \* the a2a_tasks table
    events,    \* the a2a_events table: the log of each task
    tx,        \* the open request of each thread, or None
    used,      \* task ids given out
    spent      \* troubles and administration so far

vars == <<conn, agent, tasks, events, tx, used, spent>>

TERMINAL_TASK_STATES == {"completed", "failed", "canceled", "rejected"}
PAUSED_TASK_STATES == {"input-required"}
Final == TERMINAL_TASK_STATES \cup PAUSED_TASK_STATES
Statuses == Final \cup {"working"}
Cards == {"none", "streaming", "plain"}

\* A state that is empty, or neither terminal nor paused, counts as working.
LocalStatus(state) == IF state \in Final THEN state ELSE "working"

\* An entry of the log; kind is the status it announces, or "event".
A2AEvent == [seq: Nat, kind: Statuses \cup {"submitted", "event"}]
Task == [status: Statuses, remote: Remotes \cup {None}]
Connection == [enabled: BOOLEAN, status: {"pending", "online", "disabled"}, card: Cards]

\* How the request treats an exception of delegate: the delegate endpoint
\* rolls back; handle_jsonrpc and the tool registry turn it into an answer.
Callers == {"endpoint", "caught"}

\* An open request.  stream is the task the agent streams, remote the one that
\* was named; seq numbers the event a cancel is about to commit.
Delegating == [op: {"delegate"}, pc: {"open", "read", "send", "finish", "fail", "commit"},
               task: Tasks, caller: Callers, status: Statuses, remote: Remotes \cup {None},
               stream: Remotes \cup {None}, read: Nat, tries: Nat, log: Seq(A2AEvent)]
Cancelling == [op: {"cancel"}, pc: {"ask", "mark", "marked"}, task: Tasks,
               remote: Remotes \cup {None}, tries: Nat, seq: Nat]
Discovering == [op: {"discover"}, pc: {"fetch"}]

ASSUME NoneAssumption ==
    None \notin Remotes \cup Statuses \cup Task \cup Delegating \cup Cancelling \cup Discovering

add_event(log, kind) == Append(log, [seq |-> IF log = <<>> THEN 1 ELSE log[Len(log)].seq + 1, kind |-> kind])

\* add_artifact: every artifact leaves an event of its own.
WithArtifacts(log) == {log, add_event(log, "event")}

Init ==
    /\ conn = [enabled |-> TRUE, status |-> "pending", card |-> "none"]
    /\ agent = [streams |-> TRUE, state |-> [n \in Remotes |-> None]]
    /\ tasks = [t \in Tasks |-> None]
    /\ events = [t \in Tasks |-> <<>>]
    /\ tx = [r \in Requests |-> None]
    /\ used = {}
    /\ spent = [trouble |-> 0, admin |-> 0]

At(r, op, pc) == tx[r] # None /\ tx[r].op = op /\ tx[r].pc = pc
End(r) == tx' = [tx EXCEPT ![r] = None]
Trouble == /\ spent.trouble < TroubleBound
           /\ spent' = [spent EXCEPT !.trouble = @ + 1]
Administer == /\ spent.admin < AdminBound
              /\ spent' = [spent EXCEPT !.admin = @ + 1]

----------------------------------------------------------------------------
(* delegate                                                                *)

supports_streaming == conn.card # "plain"

\* _select_connection, create_task and the first mark_task.
DelegateBegin(r, t, caller) ==
    /\ tx[r] = None
    /\ t \notin used
    /\ conn.enabled
    /\ used' = used \cup {t}
    /\ tx' = [tx EXCEPT ![r] =
          [op |-> "delegate", pc |-> IF supports_streaming THEN "open" ELSE "send",
           task |-> t, caller |-> caller, status |-> "working", remote |-> None,
           stream |-> None, read |-> 0, tries |-> 0,
           log |-> add_event(add_event(<<>>, "submitted"), "working")]]
    /\ UNCHANGED <<conn, agent, tasks, events, spent>>

\* _remote_ids_from_result: an answer without an id keeps the one known.
RemoteAfter(old, new) == IF new # None THEN new ELSE old

mark_task(session, status, remote) ==
    [session EXCEPT !.status = status, !.remote = RemoteAfter(@, remote), !.log = add_event(@, status)]

\* The agent names its next task; which of the unused ids it takes is all one.
Fresh(n) == /\ agent.state[n] = None
            /\ n = CHOOSE m \in Remotes : agent.state[m] = None

Starts(n) == /\ Fresh(n)
             /\ agent' = [agent EXCEPT !.state[n] = "working"]

\* The agent answers 400, 404, 405 or 501, or an error that names streaming.
StreamRefused(r) ==
    /\ At(r, "delegate", "open")
    /\ ~agent.streams
    /\ tx' = [tx EXCEPT ![r].pc = "send", ![r].log = add_event(@, "event")]
    /\ UNCHANGED <<conn, agent, tasks, events, used, spent>>

\* n is None when the agent answers with a message and starts no task.
StreamOpens(r, n) ==
    /\ At(r, "delegate", "open")
    /\ agent.streams
    /\ IF n = None THEN UNCHANGED agent ELSE Starts(n)
    /\ tx' = [tx EXCEPT ![r].pc = "read", ![r].stream = n]
    /\ UNCHANGED <<conn, tasks, events, used, spent>>

\* The loop of _send_a2a_streaming_message, one event.
Read(session, log, status, remote) ==
    LET marked == mark_task([session EXCEPT !.log = add_event(log, "event"), !.read = @ + 1], status, remote)
    IN IF status \in Final THEN [marked EXCEPT !.pc = "finish"] ELSE marked

\* A task or statusUpdate event carries the agent's state and the task's id.
StreamStatus(r) ==
    /\ At(r, "delegate", "read")
    /\ tx[r].stream # None
    /\ tx[r].read < EventBound \/ agent.state[tx[r].stream] \in Final
    /\ \E log \in WithArtifacts(tx[r].log) :
         tx' = [tx EXCEPT ![r] = Read(@, log, LocalStatus(agent.state[@.stream]), @.stream)]
    /\ UNCHANGED <<conn, agent, tasks, events, used, spent>>

\* An artifactUpdate or message event says nothing of the state; the first
\* event of a task names it.
StreamContent(r) ==
    /\ At(r, "delegate", "read")
    /\ tx[r].read < EventBound
    /\ \E log \in WithArtifacts(tx[r].log), n \in {tx[r].remote, tx[r].stream} :
         /\ n = None => tx[r].stream = None
         /\ tx' = [tx EXCEPT ![r] = Read(@, log, @.status, n)]
    /\ UNCHANGED <<conn, agent, tasks, events, used, spent>>

\* Mutant: a stream that stops early is taken for an unsupported one.
StreamEndsRetried(r) ==
    /\ At(r, "delegate", "read")
    /\ IF tx[r].remote = tx[r].stream THEN UNCHANGED spent ELSE Trouble
    /\ tx' = [tx EXCEPT ![r].pc = "send", ![r].log = add_event(@, "event")]
    /\ UNCHANGED <<conn, agent, tasks, events, used>>

\* The stream stops before a final state: the task stays
\* working; stopping before the task was named is a trouble.
StreamEnds(r) ==
    /\ At(r, "delegate", "read")
    /\ IF tx[r].remote = tx[r].stream THEN UNCHANGED spent ELSE Trouble
    /\ tx' = [tx EXCEPT ![r].pc = "finish"]
    /\ UNCHANGED <<conn, agent, tasks, events, used>>

\* An error event, or an error of the connection; one whose text looks like
\* missing streaming support leads to SendMessage although a task was started.
StreamBreaks(r) ==
    /\ At(r, "delegate", "read")
    /\ Trouble
    /\ \/ tx' = [tx EXCEPT ![r].pc = "send", ![r].log = add_event(@, "event")]
       \/ tx' = [tx EXCEPT ![r].pc = "fail"]
    /\ UNCHANGED <<conn, agent, tasks, events, used>>

\* No answer to SendStreamingMessage, which is not retried.
OpenFails(r) ==
    /\ At(r, "delegate", "open")
    /\ Trouble
    /\ tx' = [tx EXCEPT ![r].pc = "fail"]
    /\ (\E n \in Remotes : Starts(n)) \/ UNCHANGED agent
    /\ UNCHANGED <<conn, tasks, events, used>>

\* SendMessage answered, by a task or by a message without a task.
SendAnswered(r) ==
    /\ At(r, "delegate", "send")
    /\ \E log \in WithArtifacts(tx[r].log) :
        \/ \E n \in Remotes, state \in Statuses :
             /\ Fresh(n)
             /\ agent' = [agent EXCEPT !.state[n] = state]
             /\ tx' = [tx EXCEPT ![r] =
                   [mark_task([@ EXCEPT !.log = log], LocalStatus(state), n) EXCEPT !.pc = "commit"]]
        \/ /\ tx' = [tx EXCEPT ![r] =
                   [mark_task([@ EXCEPT !.log = log], LocalStatus(""), None) EXCEPT !.pc = "commit"]]
           /\ UNCHANGED agent
    /\ UNCHANGED <<conn, tasks, events, used, spent>>

\* A timeout is retried, whether or not the agent took the message.
SendTimesOut(r) ==
    /\ At(r, "delegate", "send")
    /\ Trouble
    /\ tx' = [tx EXCEPT ![r].tries = @ + 1, ![r].pc = IF tx[r].tries + 1 < MaxAttempts THEN "send" ELSE "fail"]
    /\ (\E n \in Remotes : Starts(n)) \/ UNCHANGED agent
    /\ UNCHANGED <<conn, tasks, events, used>>

SendRefused(r) ==
    /\ At(r, "delegate", "send")
    /\ Trouble
    /\ tx' = [tx EXCEPT ![r].pc = "fail"]
    /\ UNCHANGED <<conn, agent, tasks, events, used>>

\* The last mark_task of a stream.
StreamFinished(r) ==
    /\ At(r, "delegate", "finish")
    /\ tx' = [tx EXCEPT ![r] = [mark_task(@, @.status, None) EXCEPT !.pc = "commit"]]
    /\ UNCHANGED <<conn, agent, tasks, events, used, spent>>

\* delegate marks the task failed and raises.
DelegateFails(r) ==
    /\ At(r, "delegate", "fail")
    /\ IF tx[r].caller = "caught"
         THEN tx' = [tx EXCEPT ![r] = [mark_task(@, "failed", None) EXCEPT !.pc = "commit"]]
         ELSE End(r)
    /\ UNCHANGED <<conn, agent, tasks, events, used, spent>>

DelegateCommit(r) ==
    /\ At(r, "delegate", "commit")
    /\ tasks' = [tasks EXCEPT ![tx[r].task] = [status |-> tx[r].status, remote |-> tx[r].remote]]
    /\ events' = [events EXCEPT ![tx[r].task] = tx[r].log]
    /\ End(r)
    /\ UNCHANGED <<conn, agent, used, spent>>

----------------------------------------------------------------------------
(* cancel_task                                                             *)

\* Connections are never deleted, so the one a task names is found.
CancelBegin(r, t) ==
    /\ tx[r] = None
    /\ tasks[t] # None
    /\ tasks[t].status \notin TERMINAL_TASK_STATES
    /\ tx' = [tx EXCEPT ![r] = [op |-> "cancel", pc |-> IF tasks[t].remote # None THEN "ask" ELSE "mark",
                                task |-> t, remote |-> tasks[t].remote, tries |-> 0, seq |-> 0]]
    /\ UNCHANGED <<conn, agent, tasks, events, used, spent>>

\* CancelTask: an error ends the request.  Any other answer is not looked at: the
\* agent has cancelled the task or, as this repository's own agent does for a
\* finished one, answered with the state the task ended in.
CancelAsked(r) ==
    /\ At(r, "cancel", "ask")
    /\ \/ End(r) /\ UNCHANGED agent
       \/ /\ tx' = [tx EXCEPT ![r].pc = "mark"]
          /\ IF agent.state[tx[r].remote] \in TERMINAL_TASK_STATES
               THEN UNCHANGED agent
               ELSE agent' = [agent EXCEPT !.state[tx[r].remote] = "canceled"]
    /\ UNCHANGED <<conn, tasks, events, used, spent>>

\* The agent may have cancelled the task before its answer was lost.
MayCancel(n) ==
    \/ /\ agent.state[n] \notin TERMINAL_TASK_STATES
       /\ agent' = [agent EXCEPT !.state[n] = "canceled"]
    \/ UNCHANGED agent

\* Mutant: after the last timeout the task is marked all the same.
CancelTimesOutMarked(r) ==
    /\ At(r, "cancel", "ask")
    /\ Trouble
    /\ tx' = [tx EXCEPT ![r].tries = @ + 1, ![r].pc = IF tx[r].tries + 1 < MaxAttempts THEN "ask" ELSE "mark"]
    /\ MayCancel(tx[r].remote)
    /\ UNCHANGED <<conn, tasks, events, used>>

CancelTimesOut(r) ==
    /\ At(r, "cancel", "ask")
    /\ Trouble
    /\ IF tx[r].tries + 1 < MaxAttempts THEN tx' = [tx EXCEPT ![r].tries = @ + 1] ELSE End(r)
    /\ MayCancel(tx[r].remote)
    /\ UNCHANGED <<conn, tasks, events, used>>

\* Mutant: a cancel waits for every other one of the task.
WaitsForAll(r, t) ==
    \E q \in Requests \ {r} : /\ At(q, "cancel", "mark") \/ At(q, "cancel", "marked")
                              /\ tx[q].task = t

\* Mutant: the event is numbered before the row is written.
WaitsForNone(r, t) == FALSE

\* mark_task flushes first, and so holds the row's lock when it numbers.
RowLocked(r, t) == \E q \in Requests \ {r} : At(q, "cancel", "marked") /\ tx[q].task = t

CancelMark(r) ==
    /\ At(r, "cancel", "mark")
    /\ ~RowLocked(r, tx[r].task)
    /\ tx' = [tx EXCEPT ![r].pc = "marked", ![r].seq = Len(events[tx[r].task]) + 1]
    /\ UNCHANGED <<conn, agent, tasks, events, used, spent>>

CancelCommit(r) ==
    /\ At(r, "cancel", "marked")
    /\ tasks' = [tasks EXCEPT ![tx[r].task].status = "canceled"]
    /\ events' = [events EXCEPT ![tx[r].task] = Append(@, [seq |-> tx[r].seq, kind |-> "canceled"])]
    /\ End(r)
    /\ UNCHANGED <<conn, agent, used, spent>>

----------------------------------------------------------------------------
(* Connections, the remote agent, and requests that die.                   *)

upsert_connection(enabled) ==
    /\ Administer
    /\ conn' = [conn EXCEPT !.enabled = enabled, !.status = IF enabled THEN "pending" ELSE "disabled"]
    /\ UNCHANGED <<agent, tasks, events, tx, used>>

DiscoverBegin(r) ==
    /\ tx[r] = None
    /\ conn.enabled
    /\ Administer
    /\ tx' = [tx EXCEPT ![r] = [op |-> "discover", pc |-> "fetch"]]
    /\ UNCHANGED <<conn, agent, tasks, events, used>>

\* The row takes over the card as the agent is now.
update_discovery ==
    [conn EXCEPT !.status = "online", !.card = IF agent.streams THEN "streaming" ELSE "plain"]

\* A failed discovery raises, and what it noted on the row is rolled back.
Discovered(r) ==
    /\ At(r, "discover", "fetch")
    /\ \/ conn' = update_discovery
       \/ UNCHANGED conn
    /\ End(r)
    /\ UNCHANGED <<agent, tasks, events, used, spent>>

AgentProgresses(n, state) ==
    /\ agent.state[n] \in {"working", "input-required"}
    /\ agent' = [agent EXCEPT !.state[n] = state]
    /\ UNCHANGED <<conn, tasks, events, tx, used, spent>>

AgentUpgrades ==
    /\ Administer
    /\ agent' = [agent EXCEPT !.streams = ~@]
    /\ UNCHANGED <<conn, tasks, events, tx, used>>

Crash(r) ==
    /\ tx[r] # None
    /\ Trouble
    /\ End(r)
    /\ UNCHANGED <<conn, agent, tasks, events, used>>

DelegateStep(r) ==
    \/ StreamRefused(r)
    \/ \E n \in Remotes \cup {None} : StreamOpens(r, n)
    \/ StreamStatus(r)
    \/ StreamContent(r)
    \/ StreamEnds(r)
    \/ StreamBreaks(r)
    \/ OpenFails(r)
    \/ SendAnswered(r)
    \/ SendTimesOut(r)
    \/ SendRefused(r)
    \/ StreamFinished(r)
    \/ DelegateFails(r)
    \/ DelegateCommit(r)

CancelStep(r) == CancelAsked(r) \/ CancelTimesOut(r) \/ CancelMark(r) \/ CancelCommit(r)

Next ==
    \/ \E r \in Requests, t \in Tasks, caller \in Callers : DelegateBegin(r, t, caller)
    \/ \E r \in Requests : DelegateStep(r)
    \/ \E r \in Requests, t \in Tasks : CancelBegin(r, t)
    \/ \E r \in Requests : CancelStep(r)
    \/ \E enabled \in BOOLEAN : upsert_connection(enabled)
    \/ \E r \in Requests : DiscoverBegin(r)
    \/ \E r \in Requests : Discovered(r)
    \/ \E n \in Remotes, state \in Final : AgentProgresses(n, state)
    \/ AgentUpgrades
    \/ \E r \in Requests : Crash(r)

Spec == Init /\ [][Next]_vars

InStream(r) == At(r, "delegate", "read")

\* A request goes on by itself: the HTTP client has timeouts and a row lock is
\* released by the commit.  The exception is the loop over a stream, which has a
\* timeout for each read and none for the whole: whether it ends is the agent's
\* choice, and the agent owes nothing.
FairSpec == Spec /\ \A r \in Requests : WF_vars(~InStream(r) /\ (DelegateStep(r) \/ CancelStep(r) \/ Discovered(r)))

----------------------------------------------------------------------------
(* Properties.                                                             *)

TypeOK ==
    /\ conn \in Connection
    /\ agent \in [streams: BOOLEAN, state: [Remotes -> Statuses \cup {None}]]
    /\ tasks \in [Tasks -> Task \cup {None}]
    /\ events \in [Tasks -> Seq(A2AEvent)]
    /\ tx \in [Requests -> Delegating \cup Cancelling \cup Discovering \cup {None}]
    /\ used \subseteq Tasks
    /\ spent \in [trouble: 0 .. TroubleBound, admin: 0 .. AdminBound]

\* A subscriber that asks for the events after a sequence number misses and
\* repeats none, and the last status announced is the task's: the log is
\* numbered without gap or repetition although two cancels overlap.
LogIsExact ==
    \A t \in Tasks : tasks[t] # None =>
        /\ \A i \in DOMAIN events[t] : events[t][i].seq = i
        /\ events[t][Len(events[t])].kind = tasks[t].status

\* The row agrees with the agent: a task shown as canceled has ended there (it may
\* have completed before the cancel came: the answer that says so is not looked
\* at), and one shown as completed names the remote task that completed, whichever of the
\* streaming call, its fallback and the retries it came from.
AgreesWithAgent ==
    \A t \in Tasks : tasks[t] # None =>
        LET task == tasks[t]
        IN /\ task.status = "canceled" /\ task.remote # None => agent.state[task.remote] \in TERMINAL_TASK_STATES
           /\ task.status = "completed" => task.remote # None /\ agent.state[task.remote] = "completed"

Recorded(n) == \/ \E t \in Tasks : tasks[t] # None /\ tasks[t].remote = n
               \/ \E r \in Requests : tx[r] # None /\ tx[r].op = "delegate" /\ n \in {tx[r].remote, tx[r].stream}

\* Work the remote agent does that no local task knows of has a cause: every
\* timeout, refusal, broken stream or crash leaves at most one such task.
OrphansHaveACause ==
    Cardinality({n \in Remotes : agent.state[n] # None /\ ~Recorded(n)}) <= spent.trouble

\* A request that does not end is a delegation whose agent never stops sending:
\* retries, fallbacks, overlapping cancels and the row lock leave none waiting.
OnlyStreamsHang == \A r \in Requests : tx[r] # None ~> (tx[r] = None \/ InStream(r))
=============================================================================
