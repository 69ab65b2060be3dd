--------------------------- MODULE A2ATaskProofs ---------------------------
(***************************************************************************)
(* Safety of delegation for any number of tasks, requests, attempts and    *)
(* troubles.                                                               *)
(***************************************************************************)
EXTENDS A2ATask, FiniteSetTheorems, TLAPS

\* A log is numbered from one without gap, and its last entry is the status.
Numbered(log) == log # <<>> /\ \A i \in 1 .. Len(log) : log[i].seq = i
Announces(log, status) == log[Len(log)].kind = status

\* AgreesWithAgent for one row; st is the state of the agent's tasks.
Agrees(status, remote, st) ==
    /\ status = "canceled" /\ remote # None => st[remote] \in TERMINAL_TASK_STATES
    /\ status = "completed" => remote # None /\ st[remote] = "completed"

\* A committed task.
TaskOK(row, log, st) == Numbered(log) /\ Announces(log, row.status) /\ Agrees(row.status, row.remote, st)
TasksGood == \A t \in Tasks : tasks[t] # None => TaskOK(tasks[t], events[t], agent.state)

\* A delegation: its task is its own until it commits; it takes on a final
\* status only together with the remote task that has it.
DelegateOK(x, ts, st) ==
    /\ ts[x.task] = None
    /\ Numbered(x.log) /\ (x.pc = "commit" => Announces(x.log, x.status))
    /\ x.pc \in {"open", "read", "send", "fail"} => x.status = "working"
    /\ Agrees(x.status, x.remote, st)
    /\ x.pc # "commit" => x.remote \in {None, x.stream}
    /\ x.pc = "open" => x.stream = None

\* A cancel: it marks only what has ended at the agent, and holds the number
\* of the event it will add.
CancelOK(x, ts, ev, st) ==
    /\ ts[x.task] # None /\ x.remote = ts[x.task].remote
    /\ x.pc \in {"mark", "marked"} /\ x.remote # None => st[x.remote] \in TERMINAL_TASK_STATES
    /\ x.pc = "ask" => x.remote # None
    /\ x.pc = "marked" => x.seq = Len(ev[x.task]) + 1

RequestOK(x, ts, ev, st) ==
    /\ x \in Delegating => DelegateOK(x, ts, st)
    /\ x \in Cancelling => CancelOK(x, ts, ev, st)
RequestsGood == \A r \in Requests : RequestOK(tx[r], tasks, events, agent.state)

\* Two requests never hold the same task, and no id is given out twice.
Apart(x, y) ==
    /\ x \in Delegating /\ y \in Delegating => x.task # y.task
    /\ x \in Cancelling /\ y \in Cancelling /\ x.pc = "marked" /\ y.pc = "marked" => x.task # y.task
RequestsApart == \A q, r \in Requests : q # r => Apart(tx[q], tx[r])
Takes(x, u) == x \in Delegating => x.task \in u
UsedGood == /\ \A t \in Tasks : tasks[t] # None => t \in used
            /\ \A r \in Requests : Takes(tx[r], used)

\* A delegation that had its trouble already: the stream it has left, or will
\* leave, unnamed is paid for.
Prepaid(x) ==
    /\ x \in Delegating /\ x.stream # None
    /\ x.pc \in {"send", "fail"} \/ (x.pc \in {"finish", "commit"} /\ x.remote # x.stream)
Lost == {n \in Remotes : agent.state[n] # None /\ ~Recorded(n)}
Paid == {r \in Requests : Prepaid(tx[r])}
Budget == Cardinality(Lost) + Cardinality(Paid) <= spent.trouble

IInv == TypeOK /\ TasksGood /\ RequestsGood /\ RequestsApart /\ UsedGood /\ Budget
----------------------------------------------------------------------------
(* Logs.                                                                   *)

\* add_event numbers the new entry one past the last.
LEMMA AddEvent ==
  ASSUME NEW log \in Seq(A2AEvent), log = <<>> \/ Numbered(log), NEW kind \in Statuses \cup {"submitted", "event"}
  PROVE  /\ add_event(log, kind) \in Seq(A2AEvent) /\ Numbered(add_event(log, kind))
         /\ Announces(add_event(log, kind), kind)
  <1> DEFINE n == IF log = <<>> THEN 1 ELSE log[Len(log)].seq + 1
             e == [seq |-> n, kind |-> kind]
  <1>1. Len(log) \in Nat
    OBVIOUS
  <1>2. n = Len(log) + 1
    <2>1. CASE log = <<>>
      BY <2>1
    <2>2. CASE log # <<>>
      <3>1. Len(log) \in 1 .. Len(log)
        BY <1>1, <2>2
      <3> QED BY <2>2, <3>1 DEF Numbered
    <2> QED BY <2>1, <2>2
  <1> HIDE DEF n
  <1>3. e \in A2AEvent /\ e.seq = Len(log) + 1 /\ e.kind = kind
    BY <1>1, <1>2 DEF A2AEvent
  <1>4. add_event(log, kind) = Append(log, e)
    BY DEF add_event, n
  <1> HIDE DEF e
  <1>5. /\ Append(log, e) \in Seq(A2AEvent) /\ Len(Append(log, e)) = Len(log) + 1
        /\ Append(log, e)[Len(log) + 1] = e /\ \A i \in 1 .. Len(log) : Append(log, e)[i] = log[i]
    BY <1>3
  <1>6. Append(log, e) # <<>>
    BY <1>1, <1>5
  <1>7. ASSUME NEW i \in 1 .. Len(log) + 1 PROVE Append(log, e)[i].seq = i
    <2>1. CASE i = Len(log) + 1
      BY <1>3, <1>5, <2>1
    <2>2. CASE i # Len(log) + 1
      <3>1. i \in 1 .. Len(log) /\ log # <<>>
        BY <1>1, <2>2
      <3> QED BY <1>5, <3>1 DEF Numbered
    <2> QED BY <2>1, <2>2
  <1> QED BY <1>3, <1>4, <1>5, <1>6, <1>7 DEF Numbered, Announces

\* Artifacts only add numbered entries.
LEMMA Artifacts ==
  ASSUME NEW log \in Seq(A2AEvent), Numbered(log), NEW more \in WithArtifacts(log)
  PROVE  more \in Seq(A2AEvent) /\ Numbered(more)
  BY AddEvent DEF WithArtifacts

\* Of a delegation, mark_task changes the status, the remote task and the log.
LEMMA Marking ==
  ASSUME NEW x \in Delegating, Numbered(x.log), NEW status \in Statuses, NEW remote \in Remotes \cup {None},
         NEW y, y = mark_task(x, status, remote)
  PROVE  /\ y \in Delegating /\ y.pc = x.pc /\ y.task = x.task /\ y.stream = x.stream /\ y.status = status
         /\ y.remote = RemoteAfter(x.remote, remote) /\ Numbered(y.log) /\ Announces(y.log, status)
  <1> DEFINE log == add_event(x.log, status)
             rem == RemoteAfter(x.remote, remote)
  <1>1. x.log \in Seq(A2AEvent) /\ x.remote \in Remotes \cup {None}
    BY DEF Delegating
  <1>2. log \in Seq(A2AEvent) /\ Numbered(log) /\ Announces(log, status)
    BY <1>1, AddEvent
  <1>3. rem \in Remotes \cup {None}
    BY <1>1 DEF RemoteAfter
  <1>4. y = [x EXCEPT !.status = status, !.remote = rem, !.log = log]
    BY DEF mark_task, Delegating
  <1> HIDE DEF log, rem
  <1> QED BY <1>2, <1>3, <1>4 DEF Delegating, rem

\* The step of a request that only moves on.
LEMMA Moving ==
  ASSUME NEW x \in Delegating, NEW pc \in {"open", "read", "send", "finish", "fail", "commit"},
         NEW y, y = [x EXCEPT !.pc = pc]
  PROVE  /\ y \in Delegating /\ y.pc = pc /\ y.task = x.task /\ y.stream = x.stream /\ y.status = x.status
         /\ y.remote = x.remote /\ y.log = x.log
  BY DEF Delegating
----------------------------------------------------------------------------
(* The agent's tasks: a terminal state is final.                           *)

Advances(a, b) == \A n \in Remotes : a[n] \in TERMINAL_TASK_STATES => b[n] = a[n]

\* A row that agrees with the agent does so whatever else the agent does:
\* its tasks do not leave a final state.
LEMMA AgreesStays ==
  ASSUME NEW a, NEW b, Advances(a, b), NEW remote \in Remotes \cup {None}, NEW status, Agrees(status, remote, a)
  PROVE  Agrees(status, remote, b)
  BY DEF Advances, Agrees, TERMINAL_TASK_STATES

\* The operation of an open request tells what its record is.
LEMMA OpenIs ==
  ASSUME TypeOK, NEW r \in Requests
  PROVE  /\ tx[r] # None /\ tx[r].op = "delegate" <=> tx[r] \in Delegating
         /\ tx[r] # None /\ tx[r].op = "cancel" <=> tx[r] \in Cancelling
         /\ tx[r] \in Delegating => tx[r] \notin Cancelling
  <1>1. tx[r] \in Delegating \cup Cancelling \cup Discovering \cup {None}
    BY DEF TypeOK
  <1>2. tx[r] \in Delegating => tx[r] # None /\ tx[r].op = "delegate"
    BY NoneAssumption DEF Delegating
  <1>3. tx[r] \in Cancelling => tx[r] # None /\ tx[r].op = "cancel"
    BY NoneAssumption DEF Cancelling
  <1>4. tx[r] \in Discovering => tx[r] # None /\ tx[r].op = "discover"
    BY NoneAssumption DEF Discovering
  <1> QED BY <1>1, <1>2, <1>3, <1>4

\* A delegation at one of its points.
LEMMA DelegateAt ==
  ASSUME IInv, NEW r \in Requests, NEW pc, At(r, "delegate", pc)
  PROVE  /\ tx[r] \in Delegating /\ tx[r].pc = pc /\ DelegateOK(tx[r], tasks, agent.state)
         /\ tx[r].task \in Tasks /\ tx[r].log \in Seq(A2AEvent) /\ Numbered(tx[r].log)
         /\ tx[r].remote \in Remotes \cup {None} /\ tx[r].stream \in Remotes \cup {None}
         /\ tx[r].status \in Statuses
  <1>1. tx[r] \in Delegating /\ tx[r].pc = pc
    BY OpenIs DEF IInv, At
  <1>2. DelegateOK(tx[r], tasks, agent.state)
    BY <1>1 DEF IInv, RequestsGood, RequestOK
  <1> QED BY <1>1, <1>2 DEF Delegating, DelegateOK

\* What a cancel at this position holds.
LEMMA CancelAt ==
  ASSUME IInv, NEW r \in Requests, NEW pc, At(r, "cancel", pc)
  PROVE  /\ tx[r] \in Cancelling /\ tx[r].pc = pc /\ CancelOK(tx[r], tasks, events, agent.state)
         /\ tx[r].task \in Tasks /\ tx[r].remote \in Remotes \cup {None}
         /\ tasks[tx[r].task] # None
  <1>1. tx[r] \in Cancelling /\ tx[r].pc = pc
    BY OpenIs DEF IInv, At
  <1>2. CancelOK(tx[r], tasks, events, agent.state)
    BY <1>1 DEF IInv, RequestsGood, RequestOK
  <1> QED BY <1>1, <1>2 DEF Cancelling, CancelOK

\* A request stays in order when only the agent's tasks advance.
LEMMA RequestStays ==
  ASSUME NEW x \in Delegating \cup Cancelling \cup Discovering \cup {None}, NEW ts, NEW ev, NEW a, NEW b,
         Advances(a, b), RequestOK(x, ts, ev, a)
  PROVE  RequestOK(x, ts, ev, b)
  <1>1. CASE x \in Delegating
    <2>1. x.remote \in Remotes \cup {None} /\ DelegateOK(x, ts, a)
      BY <1>1 DEF Delegating, RequestOK
    <2>2. DelegateOK(x, ts, b)
      BY <2>1, AgreesStays DEF DelegateOK
    <2>3. x \notin Cancelling
      BY <1>1 DEF Delegating, Cancelling
    <2> QED BY <2>2, <2>3 DEF RequestOK
  <1>2. CASE x \in Cancelling
    <2>1. x.remote \in Remotes \cup {None} /\ CancelOK(x, ts, ev, a)
      BY <1>2 DEF Cancelling, RequestOK
    <2>2. CancelOK(x, ts, ev, b)
      BY <2>1 DEF CancelOK, Advances, TERMINAL_TASK_STATES
    <2>3. x \notin Delegating
      BY <1>2 DEF Delegating, Cancelling
    <2> QED BY <2>2, <2>3 DEF RequestOK
  <1>3. CASE x \notin Delegating /\ x \notin Cancelling
    BY <1>3 DEF RequestOK
  <1> QED BY <1>1, <1>2, <1>3

----------------------------------------------------------------------------
(* One request changes; the table of tasks does not.                       *)

Tx == Delegating \cup Cancelling \cup Discovering \cup {None}
AgentType == [streams: BOOLEAN, state: [Remotes -> Statuses \cup {None}]]
SpentType == [trouble: 0 .. TroubleBound, admin: 0 .. AdminBound]

\* A step that changes one request, the agent or the connection and leaves
\* the tables.
LEMMA RequestStep ==
  ASSUME IInv, NEW r \in Requests, NEW y \in Tx, tx' = [tx EXCEPT ![r] = y], UNCHANGED <<tasks, events>>,
         conn' \in Connection, agent' \in AgentType, spent' \in SpentType, used' \subseteq Tasks, used \subseteq used',
         Advances(agent.state, agent'.state), RequestOK(y, tasks, events, agent'.state), Takes(y, used'),
         \A q \in Requests \ {r} : Apart(y, tx[q]), Budget'
  PROVE  IInv'
  <1>1. tx \in [Requests -> Tx] /\ tx'[r] = y /\ \A q \in Requests \ {r} : tx'[q] = tx[q]
    BY DEF IInv, TypeOK, Tx
  <1>2. TypeOK'
    BY <1>1 DEF IInv, TypeOK, Tx, AgentType, SpentType
  <1>3. TasksGood'
    <2> SUFFICES ASSUME NEW t \in Tasks, tasks[t] # None PROVE TaskOK(tasks[t], events[t], agent'.state)
      BY DEF TasksGood
    <2>1. tasks[t].remote \in Remotes \cup {None}
      BY DEF IInv, TypeOK, Task
    <2> QED BY <2>1, AgreesStays DEF IInv, TasksGood, TaskOK
  <1>4. RequestsGood'
    <2> SUFFICES ASSUME NEW q \in Requests PROVE RequestOK(tx'[q], tasks, events, agent'.state)
      BY DEF RequestsGood
    <2>1. tx[q] \in Tx /\ RequestOK(tx[q], tasks, events, agent.state)
      BY <1>1 DEF IInv, RequestsGood
    <2>2. RequestOK(tx[q], tasks, events, agent'.state)
      BY <2>1, RequestStays DEF Tx
    <2> QED BY <1>1, <2>2
  <1>5. RequestsApart'
    <2> SUFFICES ASSUME NEW p \in Requests, NEW q \in Requests, p # q PROVE Apart(tx'[p], tx'[q])
      BY DEF RequestsApart
    <2>1. \A o \in Requests \ {r} : Apart(tx[o], y)
      BY DEF Apart
    <2> QED BY <1>1, <2>1 DEF IInv, RequestsApart
  <1>6. UsedGood'
    BY <1>1 DEF IInv, UsedGood, Takes
  <1> QED BY <1>2, <1>3, <1>4, <1>5, <1>6 DEF IInv

----------------------------------------------------------------------------
(* The account of the agent's tasks that nobody knows.                     *)

\* Cardinalities of subsets of a finite set, and of such with one more
\* element.
LEMMA Counting ==
  ASSUME NEW A, IsFiniteSet(A), NEW B
  PROVE  /\ Cardinality(A) \in Nat
         /\ B \subseteq A => IsFiniteSet(B) /\ Cardinality(B) \in Nat /\ Cardinality(B) <= Cardinality(A)
         /\ \A x : B \subseteq A \cup {x} =>
               IsFiniteSet(B) /\ Cardinality(B) \in Nat /\ Cardinality(B) <= Cardinality(A) + 1
         /\ \A x : x \in A /\ B \subseteq A \ {x} => Cardinality(B) \in Nat /\ Cardinality(B) + 1 <= Cardinality(A)
  <1>1. Cardinality(A) \in Nat
    BY FS_CardinalityType
  <1>2. B \subseteq A => IsFiniteSet(B) /\ Cardinality(B) \in Nat /\ Cardinality(B) <= Cardinality(A)
    BY FS_Subset, FS_CardinalityType
  <1>3. ASSUME NEW x, B \subseteq A \cup {x}
        PROVE  IsFiniteSet(B) /\ Cardinality(B) \in Nat /\ Cardinality(B) <= Cardinality(A) + 1
    <2>1. IsFiniteSet(A \cup {x}) /\ Cardinality(A \cup {x}) <= Cardinality(A) + 1
      <3>1. CASE x \in A
        <4>1. A \cup {x} = A
          BY <3>1
        <4> QED BY <1>1, <4>1
      <3>2. CASE x \notin A
        BY <1>1, <3>2, FS_AddElement
      <3> QED BY <3>1, <3>2
    <2>2. IsFiniteSet(B) /\ Cardinality(B) <= Cardinality(A \cup {x})
      BY <1>3, <2>1, FS_Subset
    <2> QED BY <1>1, <2>1, <2>2, FS_CardinalityType
  <1>4. ASSUME NEW x \in A, B \subseteq A \ {x} PROVE Cardinality(B) \in Nat /\ Cardinality(B) + 1 <= Cardinality(A)
    <2>1. IsFiniteSet(A \ {x}) /\ Cardinality(A \ {x}) = Cardinality(A) - 1
      BY FS_RemoveElement
    <2>2. IsFiniteSet(B) /\ Cardinality(B) <= Cardinality(A \ {x})
      BY <1>4, <2>1, FS_Subset
    <2> QED BY <1>1, <2>1, <2>2, FS_CardinalityType
  <1> QED BY <1>1, <1>2, <1>3, <1>4

\* Orphans and prepaid requests are finitely many.
LEMMA Finite == IsFiniteSet(Lost) /\ IsFiniteSet(Paid)
  <1>1. Lost \subseteq Remotes /\ Paid \subseteq Requests
    BY DEF Lost, Paid
  <1> QED BY <1>1, A2AAssumption, FS_Subset

\* The budget, with its terms as numbers.
LEMMA Balance ==
  ASSUME IInv
  PROVE  /\ spent.trouble \in Nat /\ Cardinality(Lost) \in Nat /\ Cardinality(Paid) \in Nat
         /\ Cardinality(Lost) + Cardinality(Paid) <= spent.trouble
  BY Finite, Counting DEF IInv, TypeOK, Budget

\* Nothing more is lost.
LEMMA BudgetQuiet ==
  ASSUME IInv, spent'.trouble \in Nat, Lost' \subseteq Lost, Paid' \subseteq Paid, spent.trouble <= spent'.trouble
  PROVE  Budget'
  <1>1. Cardinality(Lost') \in Nat /\ Cardinality(Lost') <= Cardinality(Lost)
    BY Finite, Counting
  <1>2. Cardinality(Paid') \in Nat /\ Cardinality(Paid') <= Cardinality(Paid)
    BY Finite, Counting
  <1> QED BY <1>1, <1>2, Balance DEF Budget

\* One more is lost, or will be, and paid for now.
LEMMA BudgetLoses ==
  ASSUME IInv, spent'.trouble \in Nat, spent'.trouble = spent.trouble + 1, NEW x,
         Lost' \subseteq Lost \cup {x}, Paid' \subseteq Paid
  PROVE  Budget'
  <1>1. Cardinality(Lost') \in Nat /\ Cardinality(Lost') <= Cardinality(Lost) + 1
    BY Finite, Counting
  <1>2. Cardinality(Paid') \in Nat /\ Cardinality(Paid') <= Cardinality(Paid)
    BY Finite, Counting
  <1> QED BY <1>1, <1>2, Balance DEF Budget

\* A trouble pays for one more prepaid request.
LEMMA BudgetPays ==
  ASSUME IInv, spent'.trouble \in Nat, spent'.trouble = spent.trouble + 1, NEW x,
         Lost' \subseteq Lost, Paid' \subseteq Paid \cup {x}
  PROVE  Budget'
  <1>1. Cardinality(Lost') \in Nat /\ Cardinality(Lost') <= Cardinality(Lost)
    BY Finite, Counting
  <1>2. Cardinality(Paid') \in Nat /\ Cardinality(Paid') <= Cardinality(Paid) + 1
    BY Finite, Counting
  <1> QED BY <1>1, <1>2, Balance DEF Budget

\* One more is lost that was paid for.
LEMMA BudgetReleases ==
  ASSUME IInv, spent'.trouble \in Nat, spent'.trouble = spent.trouble, NEW x, NEW r \in Paid,
         Lost' \subseteq Lost \cup {x}, Paid' \subseteq Paid \ {r}
  PROVE  Budget'
  <1>1. Cardinality(Lost') \in Nat /\ Cardinality(Lost') <= Cardinality(Lost) + 1
    BY Finite, Counting
  <1>2. Cardinality(Paid') \in Nat /\ Cardinality(Paid') + 1 <= Cardinality(Paid)
    BY Finite, Counting
  <1> QED BY <1>1, <1>2, Balance DEF Budget

\* Two are lost: one was paid for, the other is now.
LEMMA BudgetLosesTwo ==
  ASSUME IInv, spent'.trouble \in Nat, spent'.trouble = spent.trouble + 1, NEW x, NEW z, NEW r \in Paid,
         Lost' \subseteq (Lost \cup {x}) \cup {z}, Paid' \subseteq Paid \ {r}
  PROVE  Budget'
  <1>1. /\ IsFiniteSet(Lost \cup {x}) /\ Cardinality(Lost \cup {x}) \in Nat
        /\ Cardinality(Lost \cup {x}) <= Cardinality(Lost) + 1
    BY Finite, Counting
  <1>2. Cardinality(Lost') \in Nat /\ Cardinality(Lost') <= Cardinality(Lost \cup {x}) + 1
    BY <1>1, Counting
  <1>3. Cardinality(Paid') \in Nat /\ Cardinality(Paid') + 1 <= Cardinality(Paid)
    BY Finite, Counting
  <1> QED BY <1>1, <1>2, <1>3, Balance DEF Budget

\* The remote tasks a request knows of.
Records(x, n) == x \in Delegating /\ n \in {x.remote, x.stream}

\* A record with the operation delegate is a delegation.
LEMMA OpenKind == ASSUME NEW x \in Tx PROVE (x # None /\ x.op = "delegate") <=> x \in Delegating
  <1>1. x \in Delegating => x # None /\ x.op = "delegate"
    BY NoneAssumption DEF Delegating
  <1>2. x \in Cancelling => x.op = "cancel"
    BY DEF Cancelling
  <1>3. x \in Discovering => x.op = "discover"
    BY DEF Discovering
  <1> QED BY <1>1, <1>2, <1>3 DEF Tx

\* What is lost when request r becomes y: what the agent has just started, or
\* the request forgets, and no task records.
Orphaned(r, y) ==
    {n \in Remotes : /\ ~Records(y, n) /\ ~ \E t \in Tasks : tasks'[t] # None /\ tasks'[t].remote = n
                     /\ (agent.state[n] = None /\ agent'.state[n] # None) \/ Records(tx[r], n)}

\* A step of one request can orphan only the remote tasks it drops.
LEMMA LostBy ==
  ASSUME IInv, NEW r \in Requests, NEW y \in Tx, tx' = [tx EXCEPT ![r] = y],
         \A t \in Tasks : tasks[t] # None => tasks'[t] # None /\ tasks'[t].remote = tasks[t].remote
  PROVE  /\ Lost' \subseteq Lost \cup Orphaned(r, y)
         /\ Paid' \subseteq Paid \cup {r}
         /\ ~Prepaid(y) => Paid' \subseteq Paid \ {r}
         /\ (Prepaid(y) => Prepaid(tx[r])) => Paid' \subseteq Paid
  <1>1. /\ tx \in [Requests -> Tx] /\ tx'[r] = y /\ \A q \in Requests \ {r} : tx'[q] = tx[q]
        /\ \A q \in Requests : tx[q] \in Tx /\ tx'[q] \in Tx
    BY DEF IInv, TypeOK, Tx
  <1>2. /\ \A n : Recorded(n) <=> \/ \E t \in Tasks : tasks[t] # None /\ tasks[t].remote = n
                                  \/ \E q \in Requests : Records(tx[q], n)
        /\ \A n : Recorded(n)' <=> \/ \E t \in Tasks : tasks'[t] # None /\ tasks'[t].remote = n
                                   \/ \E q \in Requests : Records(tx'[q], n)
    BY <1>1, OpenKind DEF Recorded, Records
  <1>3. ASSUME NEW n \in Remotes, agent'.state[n] # None, ~Recorded(n)', n \notin Orphaned(r, y) PROVE n \in Lost
    <2>1. ~Records(y, n) /\ ~ \E t \in Tasks : tasks'[t] # None /\ tasks'[t].remote = n
      BY <1>1, <1>2, <1>3
    <2>2. agent.state[n] # None /\ ~Records(tx[r], n)
      BY <1>3, <2>1 DEF Orphaned
    <2>3. ~Recorded(n)
      BY <1>1, <1>2, <1>3, <2>1, <2>2
    <2> QED BY <2>2, <2>3 DEF Lost
  <1>4. Lost' \subseteq Lost \cup Orphaned(r, y)
    BY <1>3 DEF Lost
  <1> QED BY <1>1, <1>4 DEF Paid

\* A trouble is counted once, within its bound.
LEMMA Spending ==
  ASSUME IInv, Trouble PROVE spent' \in SpentType /\ spent'.trouble = spent.trouble + 1 /\ spent'.trouble \in Nat
  <1>1. spent \in SpentType /\ TroubleBound \in Nat /\ spent.trouble \in 0 .. TroubleBound
    BY A2AAssumption DEF IInv, TypeOK, SpentType
  <1>2. spent.trouble + 1 \in 0 .. TroubleBound
    BY <1>1 DEF Trouble
  <1> QED BY <1>1, <1>2 DEF Trouble, SpentType

\* The types of what a step leaves alone.
LEMMA NotSpending ==
  ASSUME IInv PROVE spent \in SpentType /\ spent.trouble \in Nat /\ agent \in AgentType /\ conn \in Connection
                    /\ used \subseteq Tasks /\ Advances(agent.state, agent.state)
  BY DEF IInv, TypeOK, SpentType, AgentType, Advances

\* A change by an administrator is no trouble.
LEMMA Administering ==
  ASSUME IInv, Administer PROVE spent' \in SpentType /\ spent'.trouble = spent.trouble /\ spent'.trouble \in Nat
  <1>1. spent \in SpentType /\ AdminBound \in Nat /\ spent.admin \in 0 .. AdminBound
    BY A2AAssumption DEF IInv, TypeOK, SpentType
  <1>2. spent.admin + 1 \in 0 .. AdminBound
    BY <1>1 DEF Administer
  <1> QED BY <1>1, <1>2 DEF Administer, SpentType

\* The agent moves one of its unfinished tasks.
LEMMA AgentSet ==
  ASSUME IInv, NEW n \in Remotes, NEW s \in Statuses, agent' = [agent EXCEPT !.state[n] = s],
         agent.state[n] \notin TERMINAL_TASK_STATES
  PROVE  /\ agent' \in AgentType /\ Advances(agent.state, agent'.state) /\ agent'.state[n] = s
         /\ \A m \in Remotes \ {n} : agent'.state[m] = agent.state[m]
  <1>1. agent \in AgentType
    BY NotSpending
  <1>2. agent.state \in [Remotes -> Statuses \cup {None}]
    BY <1>1 DEF AgentType
  <1>3. agent' \in AgentType /\ agent'.state = [agent.state EXCEPT ![n] = s]
    BY <1>1, <1>2 DEF AgentType
  <1> QED BY <1>2, <1>3 DEF Advances

\* The agent takes on one task.
LEMMA Starting ==
  ASSUME IInv, NEW n \in Remotes, Starts(n)
  PROVE  /\ agent' \in AgentType /\ Advances(agent.state, agent'.state)
         /\ \A m \in Remotes \ {n} : agent'.state[m] = agent.state[m]
  <1>1. agent.state[n] \notin TERMINAL_TASK_STATES /\ agent' = [agent EXCEPT !.state[n] = "working"]
    BY NoneAssumption DEF Starts, Fresh, Statuses, Final
  <1> QED BY <1>1, AgentSet DEF Statuses

----------------------------------------------------------------------------
(* A delegation goes on.                                                   *)

\* The request keeps its task, and what is lost is paid for.
LEMMA GoOn ==
  ASSUME IInv, NEW r \in Requests, tx[r] \in Delegating, NEW y \in Delegating, y.task = tx[r].task,
         tx' = [tx EXCEPT ![r] = y], UNCHANGED <<conn, tasks, events, used>>,
         agent' \in AgentType, Advances(agent.state, agent'.state), spent' \in SpentType,
         DelegateOK(y, tasks, agent'.state), Budget'
  PROVE  IInv'
  <1>1. y \in Tx /\ y \notin Cancelling
    BY DEF Tx, Delegating, Cancelling
  <1>2. RequestOK(y, tasks, events, agent'.state)
    BY <1>1 DEF RequestOK
  <1>3. \A q \in Requests \ {r} : Apart(y, tx[q])
    BY <1>1 DEF IInv, RequestsApart, Apart
  <1>4. Takes(y, used) /\ used \subseteq Tasks /\ conn \in Connection
    BY DEF IInv, UsedGood, Takes, TypeOK
  <1> QED BY <1>1, <1>2, <1>3, <1>4, RequestStep

\* Nothing is lost by a step that keeps what the request knew.
LEMMA Quietly ==
  ASSUME IInv, NEW r \in Requests, tx[r] \in Delegating, NEW y \in Delegating, tx' = [tx EXCEPT ![r] = y],
         tasks' = tasks, spent'.trouble \in Nat, y.stream = tx[r].stream, tx[r].remote \in {None, tx[r].stream, y.remote},
         \A n \in Remotes : agent.state[n] = None /\ agent'.state[n] # None => n = y.remote,
         \/ spent'.trouble = spent.trouble /\ (Prepaid(y) => Prepaid(tx[r]))
         \/ spent'.trouble = spent.trouble + 1
  PROVE  Budget'
  <1>1. y \in Tx
    BY DEF Tx
  <1>2. \A n \in Remotes : Records(tx[r], n) => Records(y, n)
    BY NoneAssumption DEF Records
  <1>3. \A n \in Remotes : agent.state[n] = None /\ agent'.state[n] # None => Records(y, n)
    BY DEF Records
  <1>4. /\ Lost' \subseteq Lost /\ Paid' \subseteq Paid \cup {r}
        /\ (Prepaid(y) => Prepaid(tx[r])) => Paid' \subseteq Paid
    <2>1. Orphaned(r, y) = {}
      BY <1>2, <1>3 DEF Orphaned
    <2> QED BY <1>1, <2>1, LostBy
  <1>5. spent.trouble \in Nat
    BY NotSpending
  <1>6. CASE spent'.trouble = spent.trouble /\ (Prepaid(y) => Prepaid(tx[r]))
    BY <1>4, <1>5, <1>6, BudgetQuiet
  <1>7. CASE spent'.trouble = spent.trouble + 1
    BY <1>4, <1>5, <1>7, BudgetPays
  <1> QED BY <1>6, <1>7

\* A message that the agent took although nobody heard the answer.
LEMMA Unheard ==
  ASSUME IInv, NEW r \in Requests, tx[r] \in Delegating, NEW y \in Delegating, tx' = [tx EXCEPT ![r] = y],
         tasks' = tasks, Trouble, y.stream = tx[r].stream, y.remote = tx[r].remote, Prepaid(y) => Prepaid(tx[r]),
         (\E n \in Remotes : Starts(n)) \/ UNCHANGED agent
  PROVE  agent' \in AgentType /\ Advances(agent.state, agent'.state) /\ spent' \in SpentType /\ Budget'
  <1>1. spent' \in SpentType /\ spent'.trouble = spent.trouble + 1 /\ spent'.trouble \in Nat
    BY Spending
  <1>2. CASE UNCHANGED agent
    <2>1. Budget'
      BY <1>1, <1>2, Quietly
    <2> QED BY <1>1, <1>2, <2>1, NotSpending
  <1>3. ASSUME NEW n \in Remotes, Starts(n)
        PROVE  agent' \in AgentType /\ Advances(agent.state, agent'.state) /\ Budget'
    <2>1. /\ agent' \in AgentType /\ Advances(agent.state, agent'.state)
          /\ \A m \in Remotes \ {n} : agent'.state[m] = agent.state[m]
      BY <1>3, Starting
    <2>2. \A m \in Remotes : Records(tx[r], m) => Records(y, m)
      BY DEF Records
    <2>3. y \in Tx
      BY DEF Tx
    <2>4. Orphaned(r, y) \subseteq {n}
      BY <2>1, <2>2 DEF Orphaned
    <2>5. Lost' \subseteq Lost \cup {n} /\ Paid' \subseteq Paid
      BY <2>3, <2>4, LostBy
    <2>6. Budget'
      BY <1>1, <2>5, BudgetLoses
    <2> QED BY <2>1, <2>6
  <1> QED BY <1>1, <1>2, <1>3

\* The request moves on and logs an event.
Logged(x, pc) == [x EXCEPT !.pc = pc, !.log = add_event(@, "event")]

\* A point before the end: only the log may have grown.
LEMMA Logging ==
  ASSUME NEW x \in Delegating, NEW pc \in {"open", "read", "send", "finish", "fail", "commit"}, Numbered(x.log),
         NEW y, y = Logged(x, pc)
  PROVE  /\ y \in Delegating /\ y.pc = pc /\ y.task = x.task /\ y.stream = x.stream /\ y.status = x.status
         /\ y.remote = x.remote /\ Numbered(y.log)
  <1> DEFINE log == add_event(x.log, "event")
  <1>1. log \in Seq(A2AEvent) /\ Numbered(log)
    BY AddEvent DEF Delegating
  <1>2. y = [x EXCEPT !.pc = pc, !.log = log]
    BY DEF Delegating, Logged
  <1> HIDE DEF log
  <1> QED BY <1>1, <1>2 DEF Delegating

\* StreamRefused keeps the invariant.
LEMMA StreamRefusedStep == ASSUME IInv, NEW r \in Requests, StreamRefused(r) PROVE IInv'
  <1> DEFINE x == tx[r]
             y == Logged(x, "send")
  <1>1. At(r, "delegate", "open") /\ UNCHANGED <<conn, agent, tasks, events, used, spent>>
    BY DEF StreamRefused
  <1>2. x \in Delegating /\ x.pc = "open" /\ DelegateOK(x, tasks, agent.state) /\ Numbered(x.log)
    BY <1>1, DelegateAt
  <1>3. tx' = [tx EXCEPT ![r] = y]
    BY <1>2 DEF StreamRefused, Delegating, Logged
  <1>0. y = Logged(x, "send")
    OBVIOUS
  <1> HIDE DEF y
  <1>4. /\ y \in Delegating /\ y.pc = "send" /\ y.task = x.task /\ y.stream = x.stream /\ y.status = x.status
        /\ y.remote = x.remote /\ Numbered(y.log)
    BY <1>0, <1>2, Logging
  <1>5. x.stream = None /\ x.remote = None /\ x.status = "working"
    BY <1>2 DEF DelegateOK
  <1>6. DelegateOK(y, tasks, agent.state) /\ ~Prepaid(y)
    BY <1>2, <1>4, <1>5 DEF DelegateOK, Prepaid, Agrees
  <1>7. Budget'
    BY <1>1, <1>2, <1>3, <1>4, <1>6, NotSpending, Quietly
  <1> QED BY <1>1, <1>2, <1>3, <1>4, <1>6, <1>7, NotSpending, GoOn

\* StreamOpens keeps the invariant.
LEMMA StreamOpensStep ==
  ASSUME IInv, NEW r \in Requests, NEW n \in Remotes \cup {None}, StreamOpens(r, n) PROVE IInv'
  <1> DEFINE x == tx[r]
             y == [x EXCEPT !.pc = "read", !.stream = n]
  <1>1. At(r, "delegate", "open") /\ UNCHANGED <<conn, tasks, events, used, spent>>
    BY DEF StreamOpens
  <1>2. x \in Delegating /\ x.pc = "open" /\ DelegateOK(x, tasks, agent.state) /\ Numbered(x.log)
    BY <1>1, DelegateAt
  <1>3. tx' = [tx EXCEPT ![r] = y]
    BY <1>2 DEF StreamOpens, Delegating
  <1>4. /\ y \in Delegating /\ y.pc = "read" /\ y.task = x.task /\ y.stream = n /\ y.status = x.status
        /\ y.remote = x.remote /\ y.log = x.log
    BY <1>2 DEF Delegating
  <1> HIDE DEF y
  <1>5. x.stream = None /\ x.remote = None /\ x.status = "working"
    BY <1>2 DEF DelegateOK
  <1>6. /\ agent' \in AgentType /\ Advances(agent.state, agent'.state)
        /\ \A m \in Remotes : agent.state[m] = None /\ agent'.state[m] # None => m = n
    <2>1. CASE n = None
      BY <2>1, NotSpending DEF StreamOpens
    <2>2. CASE n # None
      BY <2>2, Starting DEF StreamOpens
    <2> QED BY <2>1, <2>2
  <1>7. DelegateOK(y, tasks, agent'.state) /\ ~Prepaid(y)
    BY <1>2, <1>4, <1>5 DEF DelegateOK, Prepaid, Agrees
  <1>8. Budget'
    <2>1. \A m \in Remotes : ~Records(x, m)
      BY <1>5, NoneAssumption DEF Records
    <2>2. Orphaned(r, y) = {}
      BY <1>4, <1>6, <2>1 DEF Orphaned, Records
    <2>3. y \in Tx
      BY <1>4 DEF Tx
    <2>4. Lost' \subseteq Lost /\ Paid' \subseteq Paid
      BY <1>1, <1>3, <1>7, <2>2, <2>3, LostBy
    <2> QED BY <1>1, <2>4, NotSpending, BudgetQuiet
  <1> QED BY <1>1, <1>2, <1>3, <1>4, <1>6, <1>7, <1>8, NotSpending, GoOn

\* One event of a stream.
LEMMA Reading ==
  ASSUME NEW x \in Delegating, NEW log \in Seq(A2AEvent), Numbered(log), NEW status \in Statuses,
         NEW remote \in Remotes \cup {None}, x.pc = "read", NEW y, y = Read(x, log, status, remote)
  PROVE  /\ y \in Delegating /\ y.pc = (IF status \in Final THEN "finish" ELSE "read") /\ y.task = x.task
         /\ y.stream = x.stream /\ y.status = status /\ y.remote = RemoteAfter(x.remote, remote) /\ Numbered(y.log)
  <1> DEFINE more == add_event(log, "event")
             s == [x EXCEPT !.log = more, !.read = @ + 1]
             m == mark_task(s, status, remote)
  <1>1. more \in Seq(A2AEvent) /\ Numbered(more)
    BY AddEvent
  <1> HIDE DEF more
  <1>2. x.read + 1 \in Nat
    BY DEF Delegating
  <1>3. /\ s \in Delegating /\ s.pc = "read" /\ s.task = x.task /\ s.stream = x.stream
        /\ s.remote = x.remote /\ s.log = more
    BY <1>1, <1>2 DEF Delegating
  <1> HIDE DEF s
  <1>4. /\ m \in Delegating /\ m.pc = "read" /\ m.task = x.task /\ m.stream = x.stream /\ m.status = status
        /\ m.remote = RemoteAfter(x.remote, remote) /\ Numbered(m.log)
    BY <1>1, <1>3, Marking
  <1>5. y = IF status \in Final THEN [m EXCEPT !.pc = "finish"] ELSE m
    BY DEF Read, s, more
  <1> HIDE DEF m
  <1>6. CASE status \in Final
    BY <1>4, <1>5, <1>6, Moving
  <1>7. CASE status \notin Final
    BY <1>4, <1>5, <1>7
  <1> QED BY <1>6, <1>7

\* StreamStatus keeps the invariant.
LEMMA StreamStatusStep == ASSUME IInv, NEW r \in Requests, StreamStatus(r) PROVE IInv'
  <1> DEFINE x == tx[r]
             status == LocalStatus(agent.state[x.stream])
  <1>1. At(r, "delegate", "read") /\ x.stream # None /\ UNCHANGED <<conn, agent, tasks, events, used, spent>>
    BY DEF StreamStatus
  <1>2. /\ x \in Delegating /\ x.pc = "read" /\ DelegateOK(x, tasks, agent.state)
        /\ x.log \in Seq(A2AEvent) /\ Numbered(x.log) /\ x.stream \in Remotes
        /\ x.remote \in {None, x.stream}
    BY <1>1, DelegateAt DEF DelegateOK
  <1>3. PICK log \in WithArtifacts(x.log) : tx' = [tx EXCEPT ![r] = Read(x, log, status, x.stream)]
    BY DEF StreamStatus
  <1>4. log \in Seq(A2AEvent) /\ Numbered(log)
    BY <1>2, Artifacts
  <1>5. /\ status \in Statuses /\ (status \in Final => agent.state[x.stream] = status)
        /\ status \notin Final => status = "working"
    <2>1. CASE agent.state[x.stream] \in Final
      BY <2>1 DEF LocalStatus, Statuses
    <2>2. CASE agent.state[x.stream] \notin Final
      <3>1. status = "working" /\ "working" \notin Final
        BY <2>2 DEF LocalStatus, Final, TERMINAL_TASK_STATES, PAUSED_TASK_STATES
      <3> QED BY <3>1 DEF Statuses
    <2> QED BY <2>1, <2>2
  <1> DEFINE y == Read(x, log, status, x.stream)
  <1> HIDE DEF status
  <1>6. /\ y \in Delegating /\ y.pc = (IF status \in Final THEN "finish" ELSE "read") /\ y.task = x.task
        /\ y.stream = x.stream /\ y.status = status /\ y.remote = x.stream /\ Numbered(y.log)
    BY <1>1, <1>2, <1>4, <1>5, Reading DEF RemoteAfter
  <1> HIDE DEF y
  <1>7. Agrees(status, x.stream, agent.state)
    BY <1>1, <1>5 DEF Agrees, Final, TERMINAL_TASK_STATES
  <1>8. DelegateOK(y, tasks, agent.state) /\ ~Prepaid(y)
    BY <1>2, <1>5, <1>6, <1>7 DEF DelegateOK, Prepaid
  <1>9. Budget'
    BY <1>1, <1>2, <1>3, <1>6, <1>8, NotSpending, Quietly DEF y
  <1> QED BY <1>1, <1>2, <1>3, <1>6, <1>8, <1>9, NotSpending, GoOn DEF y

\* StreamContent keeps the invariant.
LEMMA StreamContentStep == ASSUME IInv, NEW r \in Requests, StreamContent(r) PROVE IInv'
  <1> DEFINE x == tx[r]
  <1>1. At(r, "delegate", "read") /\ UNCHANGED <<conn, agent, tasks, events, used, spent>>
    BY DEF StreamContent
  <1>2. /\ x \in Delegating /\ x.pc = "read" /\ DelegateOK(x, tasks, agent.state)
        /\ x.log \in Seq(A2AEvent) /\ Numbered(x.log) /\ x.stream \in Remotes \cup {None}
        /\ x.remote \in {None, x.stream} /\ x.status = "working" /\ x.remote \in Remotes \cup {None}
    BY <1>1, DelegateAt DEF DelegateOK
  <1>3. PICK log \in WithArtifacts(x.log), n \in {x.remote, x.stream} :
           tx' = [tx EXCEPT ![r] = Read(x, log, x.status, n)]
    BY DEF StreamContent
  <1>4. log \in Seq(A2AEvent) /\ Numbered(log)
    BY <1>2, Artifacts
  <1> DEFINE y == Read(x, log, x.status, n)
  <1>5. "working" \in Statuses /\ "working" \notin Final
    BY DEF Statuses, Final, TERMINAL_TASK_STATES, PAUSED_TASK_STATES
  <1>6. /\ y \in Delegating /\ y.pc = "read" /\ y.task = x.task
        /\ y.stream = x.stream /\ y.status = "working" /\ y.remote = RemoteAfter(x.remote, n) /\ Numbered(y.log)
    BY <1>2, <1>3, <1>4, <1>5, Reading
  <1> HIDE DEF y
  <1>7. y.remote \in {None, x.stream} /\ x.remote \in {None, x.stream, y.remote}
    BY <1>2, <1>3, <1>6 DEF RemoteAfter
  <1>8. DelegateOK(y, tasks, agent.state) /\ ~Prepaid(y)
    BY <1>2, <1>6, <1>7 DEF DelegateOK, Prepaid, Agrees
  <1>9. Budget'
    BY <1>1, <1>2, <1>3, <1>6, <1>7, <1>8, NotSpending, Quietly DEF y
  <1> QED BY <1>1, <1>2, <1>3, <1>6, <1>8, <1>9, NotSpending, GoOn DEF y

\* StreamEnds keeps the invariant.
LEMMA StreamEndsStep == ASSUME IInv, NEW r \in Requests, StreamEnds(r) PROVE IInv'
  <1> DEFINE x == tx[r]
             y == [x EXCEPT !.pc = "finish"]
  <1>1. At(r, "delegate", "read") /\ UNCHANGED <<conn, agent, tasks, events, used>>
    BY DEF StreamEnds
  <1>2. x \in Delegating /\ x.pc = "read" /\ DelegateOK(x, tasks, agent.state)
    BY <1>1, DelegateAt
  <1>3. tx' = [tx EXCEPT ![r] = y]
    BY <1>2 DEF StreamEnds, Delegating
  <1>4. /\ y \in Delegating /\ y.pc = "finish" /\ y.task = x.task /\ y.stream = x.stream /\ y.status = x.status
        /\ y.remote = x.remote /\ y.log = x.log
    BY <1>2, Moving
  <1> HIDE DEF y
  <1>5. DelegateOK(y, tasks, agent.state)
    BY <1>2, <1>4 DEF DelegateOK
  <1>6. CASE x.remote = x.stream
    <2>1. spent' = spent /\ ~Prepaid(y)
      BY <1>4, <1>6 DEF StreamEnds, Prepaid
    <2>2. Budget'
      BY <1>1, <1>2, <1>3, <1>4, <2>1, NotSpending, Quietly
    <2> QED BY <1>1, <1>2, <1>3, <1>4, <1>5, <2>1, <2>2, NotSpending, GoOn
  <1>7. CASE x.remote # x.stream
    <2>1. spent' \in SpentType /\ spent'.trouble = spent.trouble + 1 /\ spent'.trouble \in Nat
      BY <1>7, Spending DEF StreamEnds
    <2>2. Budget'
      BY <1>1, <1>2, <1>3, <1>4, <2>1, Quietly
    <2> QED BY <1>1, <1>2, <1>3, <1>4, <1>5, <2>1, <2>2, NotSpending, GoOn
  <1> QED BY <1>6, <1>7

\* StreamBreaks keeps the invariant.
LEMMA StreamBreaksStep == ASSUME IInv, NEW r \in Requests, StreamBreaks(r) PROVE IInv'
  <1> DEFINE x == tx[r]
  <1>1. At(r, "delegate", "read") /\ UNCHANGED <<conn, agent, tasks, events, used>> /\ Trouble
    BY DEF StreamBreaks
  <1>2. x \in Delegating /\ x.pc = "read" /\ DelegateOK(x, tasks, agent.state) /\ Numbered(x.log)
    BY <1>1, DelegateAt
  <1>3. PICK y : /\ tx' = [tx EXCEPT ![r] = y]
                 /\ \/ y = Logged(x, "send")
                    \/ y = [x EXCEPT !.pc = "fail"]
    <2>1. CASE tx' = [tx EXCEPT ![r].pc = "fail"]
      BY <2>1
    <2>2. CASE tx' = [tx EXCEPT ![r].pc = "send", ![r].log = add_event(@, "event")]
      BY <1>2, <2>2 DEF Delegating, Logged
    <2> QED BY <2>1, <2>2 DEF StreamBreaks
  <1>4. /\ y \in Delegating /\ y.pc \in {"send", "fail"} /\ y.task = x.task /\ y.stream = x.stream
        /\ y.status = x.status /\ y.remote = x.remote /\ Numbered(y.log)
    <2>1. CASE y = Logged(x, "send")
      BY <1>2, <2>1, Logging
    <2>2. CASE y = [x EXCEPT !.pc = "fail"]
      BY <1>2, <2>2, Moving
    <2> QED BY <1>3, <2>1, <2>2
  <1>5. DelegateOK(y, tasks, agent.state)
    BY <1>2, <1>4 DEF DelegateOK
  <1>6. spent' \in SpentType /\ spent'.trouble = spent.trouble + 1 /\ spent'.trouble \in Nat
    BY <1>1, Spending
  <1>7. Budget'
    BY <1>1, <1>2, <1>3, <1>4, <1>6, Quietly
  <1> QED BY <1>1, <1>2, <1>3, <1>4, <1>5, <1>6, <1>7, NotSpending, GoOn

\* A call that nobody answers: OpenFails, SendTimesOut and SendRefused.
LEMMA UnansweredStep ==
  ASSUME IInv, NEW r \in Requests, OpenFails(r) \/ SendTimesOut(r) \/ SendRefused(r)
  PROVE  IInv'
  <1> DEFINE x == tx[r]
  <1>1. /\ At(r, "delegate", "open") \/ At(r, "delegate", "send")
        /\ Trouble /\ UNCHANGED <<conn, tasks, events, used>>
        /\ (\E n \in Remotes : Starts(n)) \/ UNCHANGED agent
    BY DEF OpenFails, SendTimesOut, SendRefused
  <1>2. x \in Delegating /\ x.pc \in {"open", "send"} /\ DelegateOK(x, tasks, agent.state) /\ Numbered(x.log)
    BY <1>1, DelegateAt
  <1>3. PICK y : /\ tx' = [tx EXCEPT ![r] = y]
                 /\ y \in Delegating /\ y.task = x.task /\ y.stream = x.stream /\ y.status = x.status
                 /\ y.remote = x.remote /\ y.log = x.log
                 /\ y.pc = "fail" \/ (y.pc = "send" /\ x.pc = "send")
    <2>1. CASE OpenFails(r) \/ SendRefused(r)
      <3> DEFINE y == [x EXCEPT !.pc = "fail"]
      <3>1. tx' = [tx EXCEPT ![r] = y]
        BY <1>2, <2>1 DEF OpenFails, SendRefused, Delegating
      <3>2. /\ y \in Delegating /\ y.task = x.task /\ y.stream = x.stream /\ y.status = x.status
            /\ y.remote = x.remote /\ y.log = x.log /\ y.pc = "fail"
        BY <1>2, Moving
      <3> HIDE DEF y
      <3> QED BY <3>1, <3>2
    <2>2. CASE SendTimesOut(r)
      <3> DEFINE pc == IF x.tries + 1 < MaxAttempts THEN "send" ELSE "fail"
                 tries == x.tries + 1
                 y == [x EXCEPT !.tries = tries, !.pc = pc]
      <3>1. tx' = [tx EXCEPT ![r] = y] /\ x.pc = "send"
        BY <1>2, <2>2, DelegateAt DEF SendTimesOut, Delegating
      <3>2. pc \in {"send", "fail"} /\ tries \in Nat
        BY <1>2 DEF Delegating
      <3> HIDE DEF pc, tries
      <3>3. /\ y \in Delegating /\ y.task = x.task /\ y.stream = x.stream /\ y.status = x.status
            /\ y.remote = x.remote /\ y.log = x.log /\ y.pc = pc
        BY <1>2, <3>2 DEF Delegating
      <3> HIDE DEF y
      <3> QED BY <3>1, <3>2, <3>3
    <2> QED BY <2>1, <2>2
  <1>4. Prepaid(y) => Prepaid(x)
    BY <1>2, <1>3 DEF Prepaid, DelegateOK
  <1>5. agent' \in AgentType /\ Advances(agent.state, agent'.state) /\ spent' \in SpentType /\ Budget'
    BY <1>1, <1>2, <1>3, <1>4, Unheard
  <1>6. DelegateOK(y, tasks, agent'.state)
    BY <1>2, <1>3 DEF DelegateOK, Agrees
  <1> QED BY <1>1, <1>2, <1>3, <1>5, <1>6, GoOn

\* The request marks its task and will commit.
ToCommit(s, status, remote) == [mark_task(s, status, remote) EXCEPT !.pc = "commit"]

\* What the request holds then.
LEMMA MarkThenCommit ==
  ASSUME NEW x \in Delegating, NEW s \in Delegating, Numbered(s.log), s.task = x.task, s.stream = x.stream,
         s.remote = x.remote, NEW status \in Statuses, NEW remote \in Remotes \cup {None},
         NEW y, y = ToCommit(s, status, remote)
  PROVE  /\ y \in Delegating /\ y.pc = "commit" /\ y.task = x.task /\ y.stream = x.stream /\ y.status = status
         /\ y.remote = RemoteAfter(x.remote, remote) /\ Numbered(y.log) /\ Announces(y.log, status)
  <1> DEFINE m == mark_task(s, status, remote)
  <1>1. /\ m \in Delegating /\ m.task = x.task /\ m.stream = x.stream /\ m.status = status
        /\ m.remote = RemoteAfter(x.remote, remote) /\ Numbered(m.log) /\ Announces(m.log, status)
    BY Marking
  <1>2. y = [m EXCEPT !.pc = "commit"]
    BY DEF ToCommit
  <1> HIDE DEF m
  <1>3. /\ y \in Delegating /\ y.pc = "commit" /\ y.task = m.task /\ y.stream = m.stream /\ y.status = m.status
        /\ y.remote = m.remote /\ y.log = m.log
    BY <1>1, <1>2 DEF Delegating
  <1> QED BY <1>1, <1>3

\* SendAnswered keeps the invariant.
LEMMA SendAnsweredStep == ASSUME IInv, NEW r \in Requests, SendAnswered(r) PROVE IInv'
  <1> DEFINE x == tx[r]
  <1>1. At(r, "delegate", "send") /\ UNCHANGED <<conn, tasks, events, used, spent>>
    BY DEF SendAnswered
  <1>2. /\ x \in Delegating /\ x.pc = "send" /\ DelegateOK(x, tasks, agent.state) /\ Numbered(x.log)
        /\ x.log \in Seq(A2AEvent) /\ x.remote \in {None, x.stream} /\ x.remote \in Remotes \cup {None}
    BY <1>1, DelegateAt DEF DelegateOK
  <1>3. PICK log \in WithArtifacts(x.log) :
          \/ \E n \in Remotes, state \in Statuses :
               /\ Fresh(n)
               /\ agent' = [agent EXCEPT !.state[n] = state]
               /\ tx' = [tx EXCEPT ![r] =
                     [mark_task([x EXCEPT !.log = log], LocalStatus(state), n) EXCEPT !.pc = "commit"]]
          \/ /\ tx' = [tx EXCEPT ![r] =
                     [mark_task([x EXCEPT !.log = log], LocalStatus(""), None) EXCEPT !.pc = "commit"]]
             /\ UNCHANGED agent
    BY DEF SendAnswered
  <1> DEFINE s == [x EXCEPT !.log = log]
  <1>4. log \in Seq(A2AEvent) /\ Numbered(log)
    BY <1>2, Artifacts
  <1>5. s \in Delegating /\ Numbered(s.log) /\ s.task = x.task /\ s.stream = x.stream /\ s.remote = x.remote
    BY <1>2, <1>4 DEF Delegating
  <1>6. /\ LocalStatus("") = "working" /\ "working" \in Statuses
        /\ \A state \in Statuses : LocalStatus(state) = state
    BY DEF LocalStatus, Statuses, Final, TERMINAL_TASK_STATES, PAUSED_TASK_STATES
  <1>7. ASSUME NEW n \in Remotes, NEW state \in Statuses, Fresh(n), agent' = [agent EXCEPT !.state[n] = state],
               tx' = [tx EXCEPT ![r] = [mark_task(s, LocalStatus(state), n) EXCEPT !.pc = "commit"]]
        PROVE  IInv'
    <2> DEFINE y == ToCommit(s, state, n)
    <2>1. tx' = [tx EXCEPT ![r] = y]
      BY <1>6, <1>7 DEF ToCommit
    <2>0. y = ToCommit(s, state, n)
      OBVIOUS
    <2> HIDE DEF y, s
    <2>2. /\ y \in Delegating /\ y.pc = "commit" /\ y.task = x.task /\ y.stream = x.stream /\ y.status = state
          /\ y.remote = RemoteAfter(x.remote, n) /\ Numbered(y.log) /\ Announces(y.log, state)
      BY <1>2, <1>5, <2>0, MarkThenCommit
    <2>3. y.remote = n
      BY <2>2, NoneAssumption DEF RemoteAfter
    <2>4. agent.state[n] \notin TERMINAL_TASK_STATES /\ agent.state[n] = None
      BY <1>7, NoneAssumption DEF Fresh, Statuses, Final
    <2>5. /\ agent' \in AgentType /\ Advances(agent.state, agent'.state) /\ agent'.state[n] = state
          /\ \A m \in Remotes \ {n} : agent'.state[m] = agent.state[m]
      BY <1>7, <2>4, AgentSet
    <2>6. Agrees(state, n, agent'.state)
      BY <2>5, NoneAssumption DEF Agrees, TERMINAL_TASK_STATES
    <2>7. DelegateOK(y, tasks, agent'.state)
      BY <1>2, <2>2, <2>3, <2>6 DEF DelegateOK
    <2>8. Prepaid(y) => Prepaid(x)
      BY <1>2, <2>2 DEF Prepaid
    <2>9. \A m \in Remotes : agent.state[m] = None /\ agent'.state[m] # None => m = y.remote
      BY <2>3, <2>5
    <2>10. Budget'
      BY <1>1, <1>2, <2>1, <2>2, <2>8, <2>9, NotSpending, Quietly
    <2> QED BY <1>1, <1>2, <2>1, <2>2, <2>5, <2>7, <2>10, NotSpending, GoOn
  <1>8. ASSUME tx' = [tx EXCEPT ![r] = [mark_task(s, LocalStatus(""), None) EXCEPT !.pc = "commit"]], UNCHANGED agent
        PROVE  IInv'
    <2> DEFINE status == LocalStatus("")
               y == ToCommit(s, status, None)
    <2>1. tx' = [tx EXCEPT ![r] = y]
      BY <1>8 DEF ToCommit
    <2>2. status \in Statuses /\ status = "working"
      BY <1>6
    <2>3. status \in Statuses /\ None \in Remotes \cup {None}
      BY <1>6
    <2>0. y = ToCommit(s, status, None)
      OBVIOUS
    <2> HIDE DEF s, status, y
    <2>4. /\ y \in Delegating /\ y.pc = "commit" /\ y.task = x.task /\ y.stream = x.stream /\ y.status = status
          /\ y.remote = RemoteAfter(x.remote, None) /\ Numbered(y.log) /\ Announces(y.log, status)
      BY <1>2, <1>5, <2>0, <2>3, MarkThenCommit
    <2>5. y.remote = x.remote
      BY <2>4 DEF RemoteAfter
    <2>6. DelegateOK(y, tasks, agent.state)
      BY <1>2, <2>2, <2>4 DEF DelegateOK, Agrees
    <2>7. Prepaid(y) => Prepaid(x)
      BY <1>2, <2>4 DEF Prepaid
    <2>8. Budget'
      BY <1>1, <1>2, <1>8, <2>1, <2>4, <2>5, <2>7, NotSpending, Quietly
    <2> QED BY <1>1, <1>2, <1>8, <2>1, <2>4, <2>6, <2>8, NotSpending, GoOn
  <1> QED BY <1>3, <1>7, <1>8

\* StreamFinished keeps the invariant.
LEMMA StreamFinishedStep == ASSUME IInv, NEW r \in Requests, StreamFinished(r) PROVE IInv'
  <1> DEFINE x == tx[r]
             y == ToCommit(x, x.status, None)
  <1>1. At(r, "delegate", "finish") /\ UNCHANGED <<conn, agent, tasks, events, used, spent>>
    BY DEF StreamFinished
  <1>2. /\ x \in Delegating /\ x.pc = "finish" /\ DelegateOK(x, tasks, agent.state) /\ Numbered(x.log)
        /\ x.status \in Statuses /\ x.remote \in Remotes \cup {None}
    BY <1>1, DelegateAt
  <1>3. tx' = [tx EXCEPT ![r] = y]
    BY DEF StreamFinished, ToCommit
  <1>0. y = ToCommit(x, x.status, None)
    OBVIOUS
  <1> HIDE DEF y
  <1>4. /\ y \in Delegating /\ y.pc = "commit" /\ y.task = x.task /\ y.stream = x.stream /\ y.status = x.status
        /\ y.remote = RemoteAfter(x.remote, None) /\ Numbered(y.log) /\ Announces(y.log, x.status)
    BY <1>0, <1>2, MarkThenCommit
  <1>5. y.remote = x.remote
    BY <1>4 DEF RemoteAfter
  <1>6. DelegateOK(y, tasks, agent.state) /\ (Prepaid(y) => Prepaid(x))
    BY <1>2, <1>4, <1>5 DEF DelegateOK, Prepaid
  <1>7. Budget'
    BY <1>1, <1>2, <1>3, <1>4, <1>5, <1>6, NotSpending, Quietly
  <1> QED BY <1>1, <1>2, <1>3, <1>4, <1>6, <1>7, NotSpending, GoOn

----------------------------------------------------------------------------
(* A request ends.                                                         *)

\* A request ends without touching tasks and events.
LEMMA Ending ==
  ASSUME IInv, NEW r \in Requests, End(r), UNCHANGED <<tasks, events, used>>, conn' \in Connection,
         agent' \in AgentType, Advances(agent.state, agent'.state), spent' \in SpentType, Budget'
  PROVE  IInv'
  <1>1. None \in Tx /\ None \notin Delegating /\ None \notin Cancelling /\ tx' = [tx EXCEPT ![r] = None]
    BY NoneAssumption DEF Tx, End
  <1>2. RequestOK(None, tasks, events, agent'.state) /\ Takes(None, used) /\ \A q \in Requests \ {r} : Apart(None, tx[q])
    BY <1>1 DEF RequestOK, Takes, Apart
  <1> QED BY <1>1, <1>2, NotSpending, RequestStep

\* Nothing is lost by the end of a request that knew of no task of its own.
LEMMA EndsQuietly ==
  ASSUME IInv, NEW r \in Requests, End(r), tasks' = tasks, spent'.trouble \in Nat, spent.trouble <= spent'.trouble,
         \A n \in Remotes : ~Records(tx[r], n),
         \A n \in Remotes : agent'.state[n] # None => agent.state[n] # None
  PROVE  Budget'
  <1>1. None \in Tx /\ tx' = [tx EXCEPT ![r] = None] /\ ~Prepaid(None)
    BY NoneAssumption DEF Tx, End, Prepaid
  <1>2. Orphaned(r, None) = {}
    BY DEF Orphaned
  <1>3. Lost' \subseteq Lost /\ Paid' \subseteq Paid
    BY <1>1, <1>2, LostBy
  <1> QED BY <1>3, BudgetQuiet

\* DelegateFails keeps the invariant.
LEMMA DelegateFailsStep == ASSUME IInv, NEW r \in Requests, DelegateFails(r) PROVE IInv'
  <1> DEFINE x == tx[r]
  <1>1. At(r, "delegate", "fail") /\ UNCHANGED <<conn, agent, tasks, events, used, spent>>
    BY DEF DelegateFails
  <1>2. /\ x \in Delegating /\ x.pc = "fail" /\ DelegateOK(x, tasks, agent.state) /\ Numbered(x.log)
        /\ x.remote \in {None, x.stream} /\ x.remote \in Remotes \cup {None} /\ x.stream \in Remotes \cup {None}
    BY <1>1, DelegateAt DEF DelegateOK
  <1>3. CASE x.caller = "caught"
    <2> DEFINE y == ToCommit(x, "failed", None)
    <2>1. tx' = [tx EXCEPT ![r] = y]
      BY <1>3 DEF DelegateFails, ToCommit
    <2>2. "failed" \in Statuses
      BY DEF Statuses, Final, TERMINAL_TASK_STATES
    <2>0. y = ToCommit(x, "failed", None)
      OBVIOUS
    <2> HIDE DEF y
    <2>3. /\ y \in Delegating /\ y.pc = "commit" /\ y.task = x.task /\ y.stream = x.stream /\ y.status = "failed"
          /\ y.remote = RemoteAfter(x.remote, None) /\ Numbered(y.log) /\ Announces(y.log, "failed")
      BY <1>2, <2>0, <2>2, MarkThenCommit
    <2>4. y.remote = x.remote
      BY <2>3 DEF RemoteAfter
    <2>5. DelegateOK(y, tasks, agent.state) /\ (Prepaid(y) => Prepaid(x))
      BY <1>2, <2>3 DEF DelegateOK, Prepaid, Agrees
    <2>6. Budget'
      BY <1>1, <1>2, <2>1, <2>3, <2>4, <2>5, NotSpending, Quietly
    <2> QED BY <1>1, <1>2, <2>1, <2>3, <2>5, <2>6, NotSpending, GoOn
  <1>4. CASE x.caller # "caught"
    <2>1. End(r) /\ tx' = [tx EXCEPT ![r] = None]
      BY <1>4 DEF DelegateFails, End
    <2>2. Budget'
      <3>1. CASE x.stream = None
        <4>1. \A n \in Remotes : ~Records(x, n)
          BY <1>2, <3>1, NoneAssumption DEF Records
        <4> QED BY <1>1, <2>1, <4>1, NotSpending, EndsQuietly
      <3>2. CASE x.stream # None
        <4>1. r \in Paid
          BY <1>2, <3>2 DEF Paid, Prepaid
        <4>2. None \in Tx /\ ~Prepaid(None)
          BY NoneAssumption DEF Tx, Prepaid
        <4>3. Orphaned(r, None) \subseteq {x.stream}
          BY <1>1, <1>2, NoneAssumption DEF Orphaned, Records
        <4>4. Lost' \subseteq Lost \cup {x.stream} /\ Paid' \subseteq Paid \ {r}
          BY <1>1, <2>1, <4>2, <4>3, LostBy
        <4> QED BY <1>1, <4>1, <4>4, NotSpending, BudgetReleases
      <3> QED BY <3>1, <3>2
    <2> QED BY <1>1, <2>1, <2>2, NotSpending, Ending
  <1> QED BY <1>3, <1>4

\* A request commits its task and ends; t is the task, row and log what is
\* written.
LEMMA Committing ==
  ASSUME IInv, NEW r \in Requests, NEW t \in Tasks, NEW row \in Task, NEW log \in Seq(A2AEvent), End(r),
         tasks' = [tasks EXCEPT ![t] = row], events' = [events EXCEPT ![t] = log],
         UNCHANGED <<conn, agent, used, spent>>, t \in used, TaskOK(row, log, agent.state),
         \A q \in Requests \ {r} : RequestOK(tx[q], tasks', events', agent.state), Budget'
  PROVE  IInv'
  <1>1. /\ tx \in [Requests -> Tx] /\ tx'[r] = None /\ \A q \in Requests \ {r} : tx'[q] = tx[q]
        /\ None \notin Delegating /\ None \notin Cancelling
    BY NoneAssumption DEF IInv, TypeOK, Tx, End
  <1>2. /\ tasks \in [Tasks -> Task \cup {None}] /\ events \in [Tasks -> Seq(A2AEvent)]
        /\ tasks'[t] = row /\ events'[t] = log
        /\ \A u \in Tasks \ {t} : tasks'[u] = tasks[u] /\ events'[u] = events[u]
    BY DEF IInv, TypeOK
  <1>3. TypeOK'
    <2>1. tx' \in [Requests -> Delegating \cup Cancelling \cup Discovering \cup {None}]
      BY DEF End, IInv, TypeOK
    <2>2. tasks' \in [Tasks -> Task \cup {None}]
      BY <1>2
    <2>3. events' \in [Tasks -> Seq(A2AEvent)]
      BY <1>2
    <2> QED BY <2>1, <2>2, <2>3 DEF IInv, TypeOK
  <1>4. TasksGood'
    BY <1>2 DEF IInv, TasksGood
  <1>5. RequestsGood'
    <2>1. RequestOK(None, tasks', events', agent.state)
      BY <1>1 DEF RequestOK
    <2> QED BY <1>1, <2>1 DEF RequestsGood
  <1>6. RequestsApart'
    BY <1>1 DEF IInv, RequestsApart, Apart
  <1>7. UsedGood'
    BY <1>1, <1>2 DEF IInv, UsedGood, Takes
  <1> QED BY <1>3, <1>4, <1>5, <1>6, <1>7 DEF IInv

\* DelegateCommit keeps the invariant.
LEMMA DelegateCommitStep == ASSUME IInv, NEW r \in Requests, DelegateCommit(r) PROVE IInv'
  <1> DEFINE x == tx[r]
             t == x.task
             row == [status |-> x.status, remote |-> x.remote]
  <1>1. /\ At(r, "delegate", "commit") /\ UNCHANGED <<conn, agent, used, spent>> /\ End(r)
        /\ tasks' = [tasks EXCEPT ![t] = row] /\ events' = [events EXCEPT ![t] = x.log]
    BY DEF DelegateCommit
  <1>2. /\ x \in Delegating /\ x.pc = "commit" /\ DelegateOK(x, tasks, agent.state) /\ Numbered(x.log)
        /\ x.log \in Seq(A2AEvent) /\ x.remote \in Remotes \cup {None} /\ x.stream \in Remotes \cup {None}
        /\ x.status \in Statuses /\ t \in Tasks
    BY <1>1, DelegateAt
  <1>3. row \in Task /\ row.status = x.status /\ row.remote = x.remote
    BY <1>2 DEF Task
  <1> HIDE DEF row
  <1>4. TaskOK(row, x.log, agent.state) /\ tasks[t] = None
    BY <1>2, <1>3 DEF DelegateOK, TaskOK
  <1>5. t \in used
    BY <1>2 DEF IInv, UsedGood, Takes
  <1>6. /\ tasks'[t] = row /\ row # None
        /\ \A u \in Tasks \ {t} : tasks'[u] = tasks[u] /\ events'[u] = events[u]
    BY <1>1, <1>2, <1>3, NoneAssumption DEF IInv, TypeOK
  <1>7. ASSUME NEW q \in Requests \ {r} PROVE RequestOK(tx[q], tasks', events', agent.state)
    <2>1. RequestOK(tx[q], tasks, events, agent.state) /\ Apart(tx[q], x)
      BY DEF IInv, RequestsGood, RequestsApart
    <2>2. ASSUME tx[q] \in Delegating PROVE DelegateOK(tx[q], tasks', agent.state)
      <3>1. tx[q].task \in Tasks \ {t}
        BY <1>2, <2>1, <2>2 DEF Apart, Delegating
      <3> QED BY <1>6, <2>1, <2>2, <3>1 DEF RequestOK, DelegateOK
    <2>3. ASSUME tx[q] \in Cancelling PROVE CancelOK(tx[q], tasks', events', agent.state)
      <3>1. tx[q].task \in Tasks \ {t}
        BY <1>4, <2>1, <2>3 DEF RequestOK, CancelOK, Cancelling
      <3> QED BY <1>6, <2>1, <2>3, <3>1 DEF RequestOK, CancelOK
    <2> QED BY <2>2, <2>3 DEF RequestOK
  <1>8. Budget'
    <2>1. /\ None \in Tx /\ ~Prepaid(None) /\ tx' = [tx EXCEPT ![r] = None]
          /\ \A u \in Tasks : tasks[u] # None => tasks'[u] # None /\ tasks'[u].remote = tasks[u].remote
      BY <1>1, <1>4, <1>6, NoneAssumption DEF Tx, Prepaid, End
    <2>2. ASSUME NEW n \in Orphaned(r, None) PROVE n = x.stream /\ n # x.remote /\ n \in Remotes
      <3>1. n \in Remotes /\ Records(x, n) /\ ~(tasks'[t] # None /\ tasks'[t].remote = n)
        BY <1>1, <1>2 DEF Orphaned
      <3> QED BY <1>3, <1>6, <3>1 DEF Records
    <2>3. CASE Orphaned(r, None) = {}
      <3>1. Lost' \subseteq Lost /\ Paid' \subseteq Paid
        BY <2>1, <2>3, LostBy
      <3> QED BY <1>1, <3>1, NotSpending, BudgetQuiet
    <2>4. CASE Orphaned(r, None) # {}
      <3>1. r \in Paid
        BY <1>2, <2>2, <2>4, NoneAssumption DEF Paid, Prepaid
      <3>2. Lost' \subseteq Lost \cup {x.stream} /\ Paid' \subseteq Paid \ {r}
        BY <2>1, <2>2, LostBy
      <3> QED BY <1>1, <3>1, <3>2, NotSpending, BudgetReleases
    <2> QED BY <2>3, <2>4
  <1> QED BY <1>1, <1>2, <1>3, <1>4, <1>5, <1>7, <1>8, Committing

\* A request of another kind knows of no remote task.
LEMMA OthersKnowNone ==
  ASSUME NEW x, x \notin Delegating PROVE ~Prepaid(x) /\ \A n \in Remotes : ~Records(x, n)
  BY DEF Prepaid, Records

\* Crash keeps the invariant.
LEMMA CrashStep == ASSUME IInv, NEW r \in Requests, Crash(r) PROVE IInv'
  <1> DEFINE x == tx[r]
  <1>1. Trouble /\ End(r) /\ UNCHANGED <<conn, agent, tasks, events, used>>
    BY DEF Crash
  <1>2. spent' \in SpentType /\ spent'.trouble = spent.trouble + 1 /\ spent'.trouble \in Nat
    BY <1>1, Spending
  <1>3. Budget'
    <2>1. None \in Tx /\ ~Prepaid(None) /\ tx' = [tx EXCEPT ![r] = None]
      BY <1>1, NoneAssumption DEF Tx, Prepaid, End
    <2>2. Lost' \subseteq Lost \cup Orphaned(r, None) /\ Paid' \subseteq Paid \ {r}
      BY <1>1, <2>1, LostBy
    <2>3. CASE Prepaid(x)
      <3>1. r \in Paid
        BY <2>3 DEF Paid
      <3>2. Orphaned(r, None) \subseteq {x.remote, x.stream}
        BY <1>1 DEF Orphaned, Records
      <3>3. Lost' \subseteq (Lost \cup {x.remote}) \cup {x.stream}
        BY <2>2, <3>2
      <3> QED BY <1>2, <2>2, <3>1, <3>3, BudgetLosesTwo
    <2>4. CASE ~Prepaid(x) /\ x \in Delegating
      <3>1. DelegateOK(x, tasks, agent.state) /\ x.pc \in {"open", "read", "send", "finish", "fail", "commit"}
        BY <2>4 DEF IInv, RequestsGood, RequestOK, Delegating
      <3>2. x.stream = None \/ x.remote \in {None, x.stream}
        BY <2>4, <3>1 DEF Prepaid, DelegateOK
      <3>3. PICK n : {x.remote, x.stream} \subseteq {n, None}
        BY <3>2
      <3>4. Orphaned(r, None) \subseteq {n}
        BY <1>1, <3>3, NoneAssumption DEF Orphaned, Records
      <3>5. Lost' \subseteq Lost \cup {n} /\ Paid' \subseteq Paid
        BY <2>2, <3>4
      <3> QED BY <1>2, <3>5, BudgetLoses
    <2>5. CASE x \notin Delegating
      BY <1>1, <1>2, <2>5, NotSpending, OthersKnowNone, EndsQuietly
    <2> QED BY <2>3, <2>4, <2>5
  <1> QED BY <1>1, <1>2, <1>3, NotSpending, Ending

\* DelegateBegin keeps the invariant.
LEMMA DelegateBeginStep ==
  ASSUME IInv, NEW r \in Requests, NEW t \in Tasks, NEW caller \in Callers, DelegateBegin(r, t, caller)
  PROVE  IInv'
  <1> DEFINE log == add_event(add_event(<<>>, "submitted"), "working")
             pc == IF supports_streaming THEN "open" ELSE "send"
             y == [op |-> "delegate", pc |-> pc, task |-> t, caller |-> caller, status |-> "working",
                   remote |-> None, stream |-> None, read |-> 0, tries |-> 0, log |-> log]
  <1>1. /\ tx[r] = None /\ t \notin used /\ used' = used \cup {t} /\ tx' = [tx EXCEPT ![r] = y]
        /\ UNCHANGED <<conn, agent, tasks, events, spent>>
    BY DEF DelegateBegin
  <1>2. log \in Seq(A2AEvent) /\ Numbered(log)
    <2>1. <<>> \in Seq(A2AEvent) /\ "working" \in Statuses
      BY DEF Statuses
    <2>2. add_event(<<>>, "submitted") \in Seq(A2AEvent) /\ Numbered(add_event(<<>>, "submitted"))
      BY <2>1, AddEvent
    <2> QED BY <2>1, <2>2, AddEvent
  <1>3. pc \in {"open", "send"}
    OBVIOUS
  <1> HIDE DEF log, pc
  <1>4. /\ y \in Delegating /\ y.pc = pc /\ y.task = t /\ y.status = "working" /\ y.remote = None
        /\ y.stream = None /\ y.log = log
    BY <1>2, <1>3 DEF Delegating, Statuses
  <1> HIDE DEF y
  <1>5. tasks[t] = None /\ \A q \in Requests : tx[q] \in Delegating => tx[q].task # t
    BY <1>1 DEF IInv, UsedGood, Takes
  <1>6. DelegateOK(y, tasks, agent.state) /\ ~Prepaid(y)
    BY <1>2, <1>3, <1>4, <1>5 DEF DelegateOK, Agrees, Prepaid
  <1>7. y \in Tx /\ y \notin Cancelling
    BY <1>4 DEF Tx, Delegating, Cancelling
  <1>8. RequestOK(y, tasks, events, agent.state) /\ Takes(y, used')
    BY <1>1, <1>4, <1>6, <1>7 DEF RequestOK, Takes
  <1>9. \A q \in Requests \ {r} : Apart(y, tx[q])
    BY <1>4, <1>5, <1>7 DEF Apart
  <1>10. Budget'
    <2>1. tx[r] \notin Delegating
      BY <1>1, NoneAssumption
    <2>2. Orphaned(r, y) = {}
      BY <1>1, <2>1, OthersKnowNone DEF Orphaned
    <2>3. Lost' \subseteq Lost /\ Paid' \subseteq Paid
      BY <1>1, <1>6, <1>7, <2>2, LostBy
    <2> QED BY <1>1, <2>3, NotSpending, BudgetQuiet
  <1>11. used' \subseteq Tasks /\ used \subseteq used'
    BY <1>1, NotSpending
  <1> QED BY <1>1, <1>7, <1>8, <1>9, <1>10, <1>11, NotSpending, RequestStep

----------------------------------------------------------------------------
(* Cancels and discoveries.                                                *)

\* Every task the agent has started in the step is one that a row records.
Grown(ts, a, b) ==
    \A n \in Remotes : b[n] # None => a[n] # None \/ \E t \in Tasks : ts[t] # None /\ ts[t].remote = n

\* A step of a request that delegates nothing loses nothing.
LEMMA Harmless ==
  ASSUME IInv, NEW r \in Requests, tx[r] \notin Delegating, NEW y \in Tx, y \notin Delegating,
         tx' = [tx EXCEPT ![r] = y], spent'.trouble \in Nat, spent.trouble <= spent'.trouble,
         \A t \in Tasks : tasks[t] # None => tasks'[t] # None /\ tasks'[t].remote = tasks[t].remote,
         Grown(tasks', agent.state, agent'.state)
  PROVE  Budget'
  <1>1. Orphaned(r, y) = {}
    BY OthersKnowNone DEF Orphaned, Grown
  <1>2. ~Prepaid(y)
    BY OthersKnowNone
  <1>3. Lost' \subseteq Lost /\ Paid' \subseteq Paid
    BY <1>1, <1>2, LostBy
  <1> QED BY <1>3, BudgetQuiet

\* CancelBegin keeps the invariant.
LEMMA CancelBeginStep ==
  ASSUME IInv, NEW r \in Requests, NEW t \in Tasks, CancelBegin(r, t) PROVE IInv'
  <1> DEFINE pc == IF tasks[t].remote # None THEN "ask" ELSE "mark"
             y == [op |-> "cancel", pc |-> pc, task |-> t, remote |-> tasks[t].remote, tries |-> 0, seq |-> 0]
  <1>1. /\ tx[r] = None /\ tasks[t] # None /\ tx' = [tx EXCEPT ![r] = y]
        /\ UNCHANGED <<conn, agent, tasks, events, used, spent>>
    BY DEF CancelBegin
  <1>2. pc \in {"ask", "mark"} /\ (pc = "mark" <=> tasks[t].remote = None)
    OBVIOUS
  <1> HIDE DEF pc
  <1>3. tasks[t].remote \in Remotes \cup {None}
    BY <1>1 DEF IInv, TypeOK, Task
  <1>4. y \in Cancelling /\ y.pc = pc /\ y.task = t /\ y.remote = tasks[t].remote
    BY <1>2, <1>3 DEF Cancelling
  <1> HIDE DEF y
  <1>5. y \in Tx /\ y \notin Delegating
    BY <1>4 DEF Tx, Delegating, Cancelling
  <1>6. CancelOK(y, tasks, events, agent.state)
    BY <1>1, <1>2, <1>4 DEF CancelOK
  <1>7. RequestOK(y, tasks, events, agent.state) /\ Takes(y, used) /\ \A q \in Requests \ {r} : Apart(y, tx[q])
    BY <1>2, <1>4, <1>5, <1>6 DEF RequestOK, Takes, Apart
  <1>8. tx[r] \notin Delegating
    BY <1>1, NoneAssumption
  <1>9. Budget'
    <2>1. /\ Grown(tasks', agent.state, agent'.state) /\ spent'.trouble \in Nat /\ spent.trouble <= spent'.trouble
          /\ \A u \in Tasks : tasks[u] # None => tasks'[u] # None /\ tasks'[u].remote = tasks[u].remote
      BY <1>1, NotSpending DEF Grown
    <2> QED BY <1>1, <1>5, <1>8, <2>1, Harmless
  <1> QED BY <1>1, <1>5, <1>7, <1>9, NotSpending, RequestStep

\* A cancel goes on; it keeps its task.
LEMMA CancelGoesOn ==
  ASSUME IInv, NEW r \in Requests, tx[r] \in Cancelling, NEW y \in Cancelling, tx' = [tx EXCEPT ![r] = y],
         UNCHANGED <<conn, tasks, events, used>>, agent' \in AgentType, Advances(agent.state, agent'.state),
         spent' \in SpentType, spent.trouble <= spent'.trouble,
         Grown(tasks', agent.state, agent'.state),
         CancelOK(y, tasks, events, agent'.state),
         y.pc = "marked" => \A q \in Requests \ {r} :
                              tx[q] \in Cancelling /\ tx[q].pc = "marked" => tx[q].task # y.task
  PROVE  IInv'
  <1>1. y \in Tx /\ y \notin Delegating /\ tx[r] \notin Delegating
    BY DEF Tx, Delegating, Cancelling
  <1>2. RequestOK(y, tasks, events, agent'.state) /\ Takes(y, used) /\ \A q \in Requests \ {r} : Apart(y, tx[q])
    BY <1>1 DEF RequestOK, Takes, Apart
  <1>3. spent'.trouble \in Nat
    BY DEF SpentType
  <1>4. Budget'
    BY <1>1, <1>3, Harmless
  <1> QED BY <1>1, <1>2, <1>4, NotSpending, RequestStep

\* A cancel or discovery ends without orphans: it held no remote task of its
\* own.
LEMMA CancelEnds ==
  ASSUME IInv, NEW r \in Requests, tx[r] \in Cancelling \cup Discovering, End(r), UNCHANGED <<tasks, events, used>>,
         conn' \in Connection, agent' \in AgentType, Advances(agent.state, agent'.state), spent' \in SpentType,
         spent.trouble <= spent'.trouble, Grown(tasks', agent.state, agent'.state)
  PROVE  IInv'
  <1>1. tx[r] \notin Delegating /\ None \in Tx /\ None \notin Delegating /\ tx' = [tx EXCEPT ![r] = None]
    BY NoneAssumption DEF Tx, Delegating, Cancelling, Discovering, End
  <1>2. spent'.trouble \in Nat
    BY DEF SpentType
  <1>3. Budget'
    BY <1>1, <1>2, Harmless
  <1> QED BY <1>3, Ending

\* The agent cancels a task that the row of the cancel records.
LEMMA AgentCancels ==
  ASSUME IInv, NEW n \in Remotes, agent.state[n] \notin TERMINAL_TASK_STATES,
         NEW t \in Tasks, tasks[t] # None, tasks[t].remote = n, tasks' = tasks,
         agent' = [agent EXCEPT !.state[n] = "canceled"]
  PROVE  /\ agent' \in AgentType /\ Advances(agent.state, agent'.state) /\ agent'.state[n] = "canceled"
         /\ Grown(tasks', agent.state, agent'.state)
  <1>1. "canceled" \in Statuses
    BY DEF Statuses, Final, TERMINAL_TASK_STATES
  <1>2. /\ agent' \in AgentType /\ Advances(agent.state, agent'.state) /\ agent'.state[n] = "canceled"
        /\ \A m \in Remotes \ {n} : agent'.state[m] = agent.state[m]
    BY <1>1, AgentSet
  <1> QED BY <1>2 DEF Grown

\* CancelAsked keeps the invariant.
LEMMA CancelAskedStep == ASSUME IInv, NEW r \in Requests, CancelAsked(r) PROVE IInv'
  <1> DEFINE x == tx[r]
             y == [x EXCEPT !.pc = "mark"]
  <1>1. At(r, "cancel", "ask") /\ UNCHANGED <<conn, tasks, events, used, spent>>
    BY DEF CancelAsked
  <1>2. /\ x \in Cancelling /\ x.pc = "ask" /\ CancelOK(x, tasks, events, agent.state)
        /\ x.task \in Tasks /\ x.remote \in Remotes /\ tasks[x.task] # None /\ tasks[x.task].remote = x.remote
    BY <1>1, CancelAt DEF CancelOK
  <1>3. CASE End(r) /\ agent' = agent
    <2>1. Grown(tasks', agent.state, agent'.state) /\ spent.trouble <= spent'.trouble
      BY <1>1, <1>3, NotSpending DEF Grown
    <2> QED BY <1>1, <1>2, <1>3, <2>1, NotSpending, CancelEnds
  <1>4. CASE /\ tx' = [tx EXCEPT ![r].pc = "mark"]
             /\ IF agent.state[x.remote] \in TERMINAL_TASK_STATES
                  THEN agent' = agent
                  ELSE agent' = [agent EXCEPT !.state[x.remote] = "canceled"]
    <2>1. tx' = [tx EXCEPT ![r] = y]
      BY <1>2, <1>4 DEF Cancelling
    <2>2. y \in Cancelling /\ y.pc = "mark" /\ y.task = x.task /\ y.remote = x.remote
      BY <1>2 DEF Cancelling
    <2> HIDE DEF y
    <2>3. /\ agent' \in AgentType /\ Advances(agent.state, agent'.state)
          /\ agent'.state[x.remote] \in TERMINAL_TASK_STATES
          /\ Grown(tasks', agent.state, agent'.state)
      <3>1. CASE agent.state[x.remote] \in TERMINAL_TASK_STATES
        <4>1. agent' = agent
          BY <1>4, <3>1
        <4> QED BY <3>1, <4>1, NotSpending DEF Grown
      <3>2. CASE agent.state[x.remote] \notin TERMINAL_TASK_STATES
        <4>1. agent' = [agent EXCEPT !.state[x.remote] = "canceled"] /\ "canceled" \in TERMINAL_TASK_STATES
          BY <1>4, <3>2 DEF TERMINAL_TASK_STATES
        <4> QED BY <1>1, <1>2, <3>2, <4>1, AgentCancels
      <3> QED BY <3>1, <3>2
    <2>4. CancelOK(y, tasks, events, agent'.state)
      BY <1>2, <2>2, <2>3 DEF CancelOK
    <2>5. spent.trouble <= spent'.trouble
      BY <1>1, NotSpending
    <2> QED BY <1>1, <1>2, <2>1, <2>2, <2>3, <2>4, <2>5, NotSpending, CancelGoesOn
  <1> QED BY <1>3, <1>4 DEF CancelAsked

\* CancelTimesOut keeps the invariant.
LEMMA CancelTimesOutStep == ASSUME IInv, NEW r \in Requests, CancelTimesOut(r) PROVE IInv'
  <1> DEFINE x == tx[r]
             tries == x.tries + 1
             y == [x EXCEPT !.tries = tries]
  <1>1. At(r, "cancel", "ask") /\ UNCHANGED <<conn, tasks, events, used>> /\ Trouble
    BY DEF CancelTimesOut
  <1>2. /\ x \in Cancelling /\ x.pc = "ask" /\ CancelOK(x, tasks, events, agent.state)
        /\ x.task \in Tasks /\ x.remote \in Remotes /\ tasks[x.task] # None /\ tasks[x.task].remote = x.remote
    BY <1>1, CancelAt DEF CancelOK
  <1>3. spent' \in SpentType /\ spent.trouble <= spent'.trouble
    BY <1>1, Spending, NotSpending
  <1>4. /\ agent' \in AgentType /\ Advances(agent.state, agent'.state) /\ Grown(tasks', agent.state, agent'.state)
    <2>1. CASE agent' = agent
      BY <2>1, NotSpending DEF Grown
    <2>2. CASE /\ agent.state[x.remote] \notin TERMINAL_TASK_STATES
               /\ agent' = [agent EXCEPT !.state[x.remote] = "canceled"]
      BY <1>1, <1>2, <2>2, AgentCancels
    <2> QED BY <2>1, <2>2 DEF CancelTimesOut, MayCancel
  <1>5. CASE x.tries + 1 < MaxAttempts
    <2>1. tx' = [tx EXCEPT ![r] = y]
      BY <1>2, <1>5 DEF CancelTimesOut, Cancelling
    <2>2. tries \in Nat
      BY <1>2 DEF Cancelling
    <2> HIDE DEF tries
    <2>3. y \in Cancelling /\ y.pc = "ask" /\ y.task = x.task /\ y.remote = x.remote
      BY <1>2, <2>2 DEF Cancelling
    <2> HIDE DEF y
    <2>4. CancelOK(y, tasks, events, agent'.state)
      BY <1>2, <2>3 DEF CancelOK
    <2> QED BY <1>1, <1>2, <1>3, <1>4, <2>1, <2>3, <2>4, CancelGoesOn
  <1>6. CASE ~(x.tries + 1 < MaxAttempts)
    <2>1. End(r)
      BY <1>6 DEF CancelTimesOut
    <2> QED BY <1>1, <1>2, <1>3, <1>4, <2>1, NotSpending, CancelEnds
  <1> QED BY <1>5, <1>6

\* CancelMark keeps the invariant.
LEMMA CancelMarkStep == ASSUME IInv, NEW r \in Requests, CancelMark(r) PROVE IInv'
  <1> DEFINE x == tx[r]
             n == Len(events[x.task]) + 1
             y == [x EXCEPT !.pc = "marked", !.seq = n]
  <1>1. /\ At(r, "cancel", "mark") /\ ~RowLocked(r, x.task) /\ UNCHANGED <<conn, agent, tasks, events, used, spent>>
    BY DEF CancelMark
  <1>2. x \in Cancelling /\ x.pc = "mark" /\ CancelOK(x, tasks, events, agent.state) /\ x.task \in Tasks
    BY <1>1, CancelAt
  <1>3. tx' = [tx EXCEPT ![r] = y]
    BY <1>2 DEF CancelMark, Cancelling
  <1>4. n \in Nat
    BY <1>2 DEF IInv, TypeOK
  <1>5. y \in Cancelling /\ y.pc = "marked" /\ y.task = x.task /\ y.remote = x.remote /\ y.seq = n
    <2> HIDE DEF n
    <2> QED BY <1>2, <1>4 DEF Cancelling
  <1> HIDE DEF y
  <1>6. CancelOK(y, tasks, events, agent.state)
    BY <1>2, <1>5 DEF CancelOK
  <1>7. \A q \in Requests \ {r} : tx[q] \in Cancelling /\ tx[q].pc = "marked" => tx[q].task # y.task
    BY <1>1, <1>5, OpenIs DEF RowLocked, At, IInv
  <1>8. Grown(tasks', agent.state, agent'.state) /\ spent.trouble <= spent'.trouble
    BY <1>1, NotSpending DEF Grown
  <1> QED BY <1>1, <1>2, <1>3, <1>5, <1>6, <1>7, <1>8, NotSpending, CancelGoesOn

\* CancelCommit keeps the invariant.
LEMMA CancelCommitStep == ASSUME IInv, NEW r \in Requests, CancelCommit(r) PROVE IInv'
  <1> DEFINE x == tx[r]
             t == x.task
             e == [seq |-> x.seq, kind |-> "canceled"]
             row == [tasks[t] EXCEPT !.status = "canceled"]
             log == Append(events[t], e)
  <1>1. /\ At(r, "cancel", "marked") /\ UNCHANGED <<conn, agent, used, spent>> /\ End(r)
    BY DEF CancelCommit
  <1>2. /\ x \in Cancelling /\ x.pc = "marked" /\ CancelOK(x, tasks, events, agent.state) /\ t \in Tasks
        /\ tasks[t] # None /\ tasks[t] \in Task /\ events[t] \in Seq(A2AEvent) /\ x.seq = Len(events[t]) + 1
        /\ x.remote = tasks[t].remote
    BY <1>1, CancelAt DEF CancelOK, IInv, TypeOK
  <1>3. tasks' = [tasks EXCEPT ![t] = row] /\ events' = [events EXCEPT ![t] = log]
    BY <1>2 DEF CancelCommit, IInv, TypeOK
  <1>4. "canceled" \in Statuses /\ Len(events[t]) \in Nat
    BY <1>2 DEF Statuses, Final, TERMINAL_TASK_STATES
  <1>5. row \in Task /\ row.status = "canceled" /\ row.remote = tasks[t].remote
    BY <1>2, <1>4 DEF Task
  <1>6. e \in A2AEvent /\ e.seq = Len(events[t]) + 1 /\ e.kind = "canceled"
    BY <1>2, <1>4 DEF A2AEvent
  <1> HIDE DEF e, row
  <1>7. /\ log \in Seq(A2AEvent) /\ Len(log) = Len(events[t]) + 1 /\ log[Len(events[t]) + 1] = e
        /\ \A i \in 1 .. Len(events[t]) : log[i] = events[t][i]
    BY <1>2, <1>6
  <1> HIDE DEF log
  <1>8. TaskOK(row, log, agent.state)
    <2>1. Numbered(events[t])
      BY <1>2 DEF IInv, TasksGood, TaskOK
    <2>2. ASSUME NEW i \in 1 .. Len(log) PROVE log[i].seq = i
      <3>1. CASE i = Len(events[t]) + 1
        BY <1>6, <1>7, <3>1
      <3>2. CASE i # Len(events[t]) + 1
        <4>1. i \in 1 .. Len(events[t])
          BY <1>4, <1>7, <3>2
        <4> QED BY <1>7, <2>1, <4>1 DEF Numbered
      <3> QED BY <3>1, <3>2
    <2>3. log # <<>>
      BY <1>4, <1>7
    <2>4. Announces(log, row.status)
      BY <1>5, <1>6, <1>7 DEF Announces
    <2>5. Agrees(row.status, row.remote, agent.state)
      BY <1>2, <1>5 DEF Agrees, CancelOK
    <2> QED BY <2>2, <2>3, <2>4, <2>5 DEF TaskOK, Numbered
  <1>9. t \in used
    BY <1>2 DEF IInv, UsedGood
  <1>10. /\ tasks'[t] = row /\ row # None
         /\ \A u \in Tasks \ {t} : tasks'[u] = tasks[u] /\ events'[u] = events[u]
    BY <1>2, <1>3, <1>5, NoneAssumption DEF IInv, TypeOK
  <1>11. ASSUME NEW q \in Requests \ {r} PROVE RequestOK(tx[q], tasks', events', agent.state)
    <2>1. RequestOK(tx[q], tasks, events, agent.state) /\ Apart(tx[q], x)
      BY DEF IInv, RequestsGood, RequestsApart
    <2>2. ASSUME tx[q] \in Delegating PROVE DelegateOK(tx[q], tasks', agent.state)
      <3>1. tx[q].task \in Tasks \ {t}
        BY <1>2, <2>1, <2>2 DEF RequestOK, DelegateOK, Delegating
      <3> QED BY <1>10, <2>1, <2>2, <3>1 DEF RequestOK, DelegateOK
    <2>3. ASSUME tx[q] \in Cancelling PROVE CancelOK(tx[q], tasks', events', agent.state)
      <3>1. CASE tx[q].task = t
        <4>1. tx[q].pc # "marked"
          BY <1>2, <2>1, <2>3, <3>1 DEF Apart
        <4> QED BY <1>5, <1>10, <2>1, <2>3, <3>1, <4>1 DEF RequestOK, CancelOK
      <3>2. CASE tx[q].task # t
        <4>1. tx[q].task \in Tasks \ {t}
          BY <2>3, <3>2 DEF Cancelling
        <4> QED BY <1>10, <2>1, <2>3, <4>1 DEF RequestOK, CancelOK
      <3> QED BY <3>1, <3>2
    <2> QED BY <2>2, <2>3 DEF RequestOK
  <1>12. Budget'
    <2>1. /\ x \notin Delegating /\ None \in Tx /\ None \notin Delegating /\ tx' = [tx EXCEPT ![r] = None]
      BY <1>1, <1>2, NoneAssumption DEF Tx, Delegating, Cancelling, End
    <2>2. \A u \in Tasks : tasks[u] # None => tasks'[u] # None /\ tasks'[u].remote = tasks[u].remote
      BY <1>5, <1>10
    <2>3. Grown(tasks', agent.state, agent'.state) /\ spent'.trouble \in Nat /\ spent.trouble <= spent'.trouble
      BY <1>1, NotSpending DEF Grown
    <2> QED BY <2>1, <2>2, <2>3, Harmless
  <1> QED BY <1>1, <1>2, <1>3, <1>5, <1>7, <1>8, <1>9, <1>11, <1>12, Committing

----------------------------------------------------------------------------
(* Discovery, administration and the agent's own progress.                 *)

\* DiscoverBegin keeps the invariant.
LEMMA DiscoverBeginStep == ASSUME IInv, NEW r \in Requests, DiscoverBegin(r) PROVE IInv'
  <1> DEFINE y == [op |-> "discover", pc |-> "fetch"]
  <1>1. tx[r] = None /\ Administer /\ tx' = [tx EXCEPT ![r] = y] /\ UNCHANGED <<conn, agent, tasks, events, used>>
    BY DEF DiscoverBegin
  <1>2. y \in Discovering /\ y \notin Delegating /\ y \notin Cancelling
    BY DEF Discovering, Delegating, Cancelling
  <1> HIDE DEF y
  <1>3. y \in Tx /\ RequestOK(y, tasks, events, agent.state) /\ Takes(y, used) /\ \A q \in Requests \ {r} : Apart(y, tx[q])
    BY <1>2 DEF Tx, RequestOK, Takes, Apart
  <1>4. spent' \in SpentType /\ spent'.trouble \in Nat /\ spent.trouble <= spent'.trouble
    BY <1>1, Administering, NotSpending
  <1>5. tx[r] \notin Delegating /\ Grown(tasks', agent.state, agent'.state)
    BY <1>1, NoneAssumption DEF Grown
  <1>6. Budget'
    BY <1>1, <1>2, <1>3, <1>4, <1>5, Harmless
  <1> QED BY <1>1, <1>3, <1>4, <1>6, NotSpending, RequestStep

\* Discovered keeps the invariant.
LEMMA DiscoveredStep == ASSUME IInv, NEW r \in Requests, Discovered(r) PROVE IInv'
  <1>1. End(r) /\ UNCHANGED <<agent, tasks, events, used, spent>> /\ At(r, "discover", "fetch")
    BY DEF Discovered
  <1>2. tx[r] \in Cancelling \cup Discovering
    <2>1. tx[r] \in Delegating => tx[r].op = "delegate"
      BY DEF Delegating
    <2> QED BY <1>1, <2>1 DEF At, IInv, TypeOK
  <1>3. conn' \in Connection
    <2>1. CASE conn' = conn
      BY <2>1, NotSpending
    <2>2. CASE conn' = update_discovery
      BY <2>2, NotSpending DEF update_discovery, Connection, Cards
    <2> QED BY <2>1, <2>2 DEF Discovered
  <1>4. Grown(tasks', agent.state, agent'.state) /\ spent.trouble <= spent'.trouble
    BY <1>1, NotSpending DEF Grown
  <1> QED BY <1>1, <1>2, <1>3, <1>4, NotSpending, CancelEnds

\* No request takes part.
LEMMA Elsewhere ==
  ASSUME IInv, UNCHANGED <<tasks, events, tx, used>>, conn' \in Connection, agent' \in AgentType,
         Advances(agent.state, agent'.state), spent' \in SpentType, spent.trouble <= spent'.trouble,
         \A n \in Remotes : agent'.state[n] # None => agent.state[n] # None
  PROVE  IInv'
  <1>1. TypeOK'
    BY DEF IInv, TypeOK, AgentType, SpentType
  <1>2. TasksGood'
    <2> SUFFICES ASSUME NEW t \in Tasks, tasks[t] # None PROVE TaskOK(tasks[t], events[t], agent'.state)
      BY DEF TasksGood
    <2>1. tasks[t].remote \in Remotes \cup {None}
      BY DEF IInv, TypeOK, Task
    <2> QED BY <2>1, AgreesStays DEF IInv, TasksGood, TaskOK
  <1>3. RequestsGood'
    <2> SUFFICES ASSUME NEW q \in Requests PROVE RequestOK(tx[q], tasks, events, agent'.state)
      BY DEF RequestsGood
    <2> QED BY RequestStays DEF IInv, TypeOK, RequestsGood
  <1>4. RequestsApart' /\ UsedGood'
    BY DEF IInv, RequestsApart, UsedGood
  <1>5. Budget'
    <2>1. \A n : Recorded(n)' <=> Recorded(n)
      BY DEF Recorded
    <2>2. Lost' \subseteq Lost /\ Paid' = Paid
      BY <2>1 DEF Lost, Paid
    <2>3. spent'.trouble \in Nat
      BY DEF SpentType
    <2> QED BY <2>2, <2>3, BudgetQuiet
  <1> QED BY <1>1, <1>2, <1>3, <1>4, <1>5 DEF IInv

\* upsert_connection keeps the invariant.
LEMMA UpsertStep == ASSUME IInv, NEW enabled \in BOOLEAN, upsert_connection(enabled) PROVE IInv'
  <1>1. Administer /\ UNCHANGED <<agent, tasks, events, tx, used>>
    BY DEF upsert_connection
  <1>2. conn' \in Connection
    BY NotSpending DEF upsert_connection, Connection
  <1>3. spent' \in SpentType /\ spent.trouble <= spent'.trouble
    BY <1>1, Administering, NotSpending
  <1> QED BY <1>1, <1>2, <1>3, NotSpending, Elsewhere

\* AgentProgresses keeps the invariant.
LEMMA AgentProgressesStep ==
  ASSUME IInv, NEW n \in Remotes, NEW state \in Final, AgentProgresses(n, state) PROVE IInv'
  <1>1. /\ agent.state[n] \in {"working", "input-required"} /\ agent' = [agent EXCEPT !.state[n] = state]
        /\ UNCHANGED <<conn, tasks, events, tx, used, spent>>
    BY DEF AgentProgresses
  <1>2. agent.state[n] \notin TERMINAL_TASK_STATES /\ agent.state[n] # None
    BY <1>1, NoneAssumption DEF Statuses, Final, TERMINAL_TASK_STATES, PAUSED_TASK_STATES
  <1>3. /\ agent' \in AgentType /\ Advances(agent.state, agent'.state)
        /\ \A m \in Remotes \ {n} : agent'.state[m] = agent.state[m]
    BY <1>1, <1>2, AgentSet DEF Statuses
  <1>4. \A m \in Remotes : agent'.state[m] # None => agent.state[m] # None
    BY <1>2, <1>3
  <1>5. spent.trouble <= spent'.trouble
    BY <1>1, NotSpending
  <1> QED BY <1>1, <1>3, <1>4, <1>5, NotSpending, Elsewhere

\* AgentUpgrades keeps the invariant.
LEMMA AgentUpgradesStep == ASSUME IInv, AgentUpgrades PROVE IInv'
  <1>1. Administer /\ agent' = [agent EXCEPT !.streams = ~@] /\ UNCHANGED <<conn, tasks, events, tx, used>>
    BY DEF AgentUpgrades
  <1>2. agent \in AgentType
    BY NotSpending
  <1>3. agent' \in AgentType /\ agent'.state = agent.state
    BY <1>1, <1>2 DEF AgentType
  <1>4. spent' \in SpentType /\ spent.trouble <= spent'.trouble
    BY <1>1, Administering, NotSpending
  <1> QED BY <1>1, <1>3, <1>4, NotSpending, Elsewhere

----------------------------------------------------------------------------
(* Every step keeps the invariant.                                         *)

\* The invariant holds initially.
LEMMA InitIInv == ASSUME Init PROVE IInv
  <1>1. /\ conn \in Connection /\ agent \in AgentType /\ tasks \in [Tasks -> Task \cup {None}]
        /\ events \in [Tasks -> Seq(A2AEvent)] /\ tx \in [Requests -> Tx] /\ used \subseteq Tasks
    BY DEF Init, Connection, Cards, AgentType, Tx
  <1>2. spent \in SpentType
    BY A2AAssumption DEF Init, SpentType
  <1>3. TypeOK
    BY <1>1, <1>2 DEF TypeOK, AgentType, SpentType, Tx
  <1>4. /\ \A r \in Requests : tx[r] = None /\ tx[r] \notin Delegating /\ tx[r] \notin Cancelling
        /\ \A t \in Tasks : tasks[t] = None
    BY NoneAssumption DEF Init
  <1>5. TasksGood /\ RequestsGood /\ RequestsApart /\ UsedGood
    BY <1>4 DEF TasksGood, RequestsGood, RequestOK, RequestsApart, Apart, UsedGood, Takes
  <1>6. Lost = {} /\ Paid = {}
    BY <1>4 DEF Lost, Paid, Prepaid, Init
  <1>7. Budget
    BY <1>6, FS_EmptySet DEF Budget, Init
  <1> QED BY <1>3, <1>5, <1>7 DEF IInv

\* Every step keeps the invariant.
LEMMA NextIInv == ASSUME IInv, [Next]_vars PROVE IInv'
  <1>1. CASE \E r \in Requests, t \in Tasks, caller \in Callers : DelegateBegin(r, t, caller)
    BY <1>1, DelegateBeginStep
  <1>2. ASSUME NEW r \in Requests, DelegateStep(r) PROVE IInv'
    BY <1>2, StreamRefusedStep, StreamOpensStep, StreamStatusStep, StreamContentStep, StreamEndsStep,
       StreamBreaksStep, UnansweredStep, SendAnsweredStep, StreamFinishedStep, DelegateFailsStep,
       DelegateCommitStep DEF DelegateStep
  <1>3. CASE \E r \in Requests, t \in Tasks : CancelBegin(r, t)
    BY <1>3, CancelBeginStep
  <1>4. ASSUME NEW r \in Requests, CancelStep(r) PROVE IInv'
    BY <1>4, CancelAskedStep, CancelTimesOutStep, CancelMarkStep, CancelCommitStep DEF CancelStep
  <1>5. CASE \E enabled \in BOOLEAN : upsert_connection(enabled)
    BY <1>5, UpsertStep
  <1>6. CASE \E r \in Requests : DiscoverBegin(r)
    BY <1>6, DiscoverBeginStep
  <1>7. CASE \E r \in Requests : Discovered(r)
    BY <1>7, DiscoveredStep
  <1>8. CASE \E n \in Remotes, state \in Final : AgentProgresses(n, state)
    BY <1>8, AgentProgressesStep
  <1>9. CASE AgentUpgrades
    BY <1>9, AgentUpgradesStep
  <1>10. CASE \E r \in Requests : Crash(r)
    BY <1>10, CrashStep
  <1>11. CASE UNCHANGED vars
    <2>1. UNCHANGED <<tasks, events, tx, used, conn, agent, spent>>
      BY <1>11 DEF vars
    <2>2. spent.trouble <= spent'.trouble
      BY <2>1, NotSpending
    <2> QED BY <2>1, <2>2, NotSpending, Elsewhere
  <1> QED BY <1>1, <1>2, <1>3, <1>4, <1>5, <1>6, <1>7, <1>8, <1>9, <1>10, <1>11 DEF Next

\* The invariant holds throughout.
LEMMA Invariant == Spec => []IInv
  BY InitIInv, NextIInv, PTL DEF Spec

\* Every row, request, log entry and counter stays of its type.
THEOREM A2ATypeCorrect == Spec => []TypeOK
  BY Invariant, PTL DEF IInv

\* The log of every committed task is numbered from one without gap or
\* repetition and ends with the status of the row, although two cancels may
\* mark the task at the same time (add_event, mark_task, cancel_task).
THEOREM LogIsExactHolds == Spec => []LogIsExact
  <1>1. IInv => LogIsExact
    <2> SUFFICES ASSUME IInv, NEW t \in Tasks, tasks[t] # None
                 PROVE  /\ \A i \in DOMAIN events[t] : events[t][i].seq = i
                        /\ events[t][Len(events[t])].kind = tasks[t].status
      BY DEF LogIsExact
    <2>1. TaskOK(tasks[t], events[t], agent.state) /\ events[t] \in Seq(A2AEvent)
      BY DEF IInv, TasksGood, TypeOK
    <2>2. DOMAIN events[t] = 1 .. Len(events[t])
      BY <2>1
    <2> QED BY <2>1, <2>2 DEF TaskOK, Numbered, Announces
  <1> QED BY <1>1, Invariant, PTL

\* A task shown as canceled has ended at the agent, and one shown as
\* completed names the remote task that completed, whichever of the stream,
\* the fallback and the retries it came from.
THEOREM AgreesWithAgentHolds == Spec => []AgreesWithAgent
  <1>1. IInv => AgreesWithAgent
    BY DEF IInv, TasksGood, TaskOK, Agrees, AgreesWithAgent
  <1> QED BY <1>1, Invariant, PTL

\* The remote tasks that no row and no request knows of are never more than
\* the troubles the delegations had: a timeout, a refusal, a broken stream or
\* a crash leaves at most one behind.
THEOREM OrphansHaveACauseHolds == Spec => []OrphansHaveACause
  <1>1. IInv => OrphansHaveACause
    <2> SUFFICES ASSUME IInv PROVE OrphansHaveACause
      OBVIOUS
    <2>1. Cardinality(Lost) <= spent.trouble
      BY Balance
    <2> QED BY <2>1 DEF OrphansHaveACause, Lost
  <1> QED BY <1>1, Invariant, PTL
=============================================================================
