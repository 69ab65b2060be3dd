------------------------------ MODULE JobQueue ------------------------------
(***************************************************************************)
(* The background-job queue: domain/jobs.py (BackgroundJobService and the  *)
(* transactional outbox), worker/tasks.py (_run_job) and the transaction   *)
(* of CronScheduler.tick in runtime/cron.py.                               *)
(*                                                                         *)
(* Several processes share three PostgreSQL tables and a Celery broker.    *)
(* Sessions run READ COMMITTED with autoflush off, so a transaction is     *)
(* modelled by the values it loaded (private to the process) and by one    *)
(* commit step that writes them back without looking at the tables again,  *)
(* exactly as the UPDATE statements of the ORM do.  A broker send is an    *)
(* external effect: it happens at once, whatever becomes of the            *)
(* transaction around it.                                                  *)
(*                                                                         *)
(* Time is abstracted to whether an instant has passed: next_retry_at of a *)
(* job is NULL, ahead or past, and an outbox row is `waiting' from the     *)
(* moment its next_attempt_at is set until a *WindowOpens step lets that   *)
(* instant pass.                                                           *)
(***************************************************************************)
EXTENDS Naturals, FiniteSets

CONSTANTS Jobs,          \* ids of BackgroundJob rows
          Keys,          \* idempotency keys
          CronKeys,      \* the keys that name a window of a cron job
          Clients,       \* admin API requests in flight
          Schedulers,    \* processes that run CronScheduler.tick
          Workers,       \* Celery worker slots
          MaxAttempts,   \* BackgroundJob.max_attempts (3 in the code)
          MaxDispatch,   \* OutboxMessage.max_attempts (5 in the code)
          AttemptBound,  \* bound: attempt_count never explored above this
          CopyBound,     \* bound: copies of one message in the broker
          CrashBound,    \* bound: request and scheduler crashes in a behaviour
          WorkerCrashBound, \* bound: worker crashes in a behaviour
          CancelBound,   \* bound: cancel requests in a behaviour
          TroubleBound,  \* bound: cancels and request or scheduler crashes together
          None           \* SQL NULL, or "no such row"

ASSUME JobQueueAssumption ==
    /\ CronKeys \subseteq Keys
    /\ MaxAttempts \in Nat \ {0}
    /\ MaxDispatch \in Nat \ {0}
    /\ AttemptBound \in Nat /\ AttemptBound >= MaxAttempts
    /\ CopyBound \in Nat
    /\ CrashBound \in Nat
    /\ WorkerCrashBound \in Nat
    /\ CancelBound \in Nat
    /\ TroubleBound \in Nat

VARIABLES
    job,      \* the background_jobs table
    idem,     \* the idempotency_records table, scope "background_job"
    outbox,   \* the outbox_messages table
    broker,   \* Celery messages waiting, by outbox row
    revoked,  \* queue ids (outbox rows) revoked at the workers
    proc,     \* API requests and schedulers: their open transaction
    worker,   \* worker slots
    sent,     \* history: outbox rows that reached the broker at least once
    effects,  \* history: committed executions of each job's function (0, 1, 2+)
    crashes,  \* crashes so far, of requests and schedulers and of workers
    cancels   \* cancel requests so far

vars == <<job, idem, outbox, broker, revoked, proc, worker,
          sent, effects, crashes, cancels>>

Procs == Clients \cup Schedulers

\* The key dispatch:<key>:enqueue:0 is row <<key, 0>>; dispatch:<key>:retry:n:n
\* is row <<key, n>>.  The table has a unique index on it.
Rows == Keys \X (0 .. AttemptBound)

\* Only mark_failed sets "failed", and nothing calls it.
TERMINAL_JOB_STATUSES == {"succeeded", "failed", "dead_letter", "cancelled"}
JobStatuses == {"queued", "running", "retrying"} \cup TERMINAL_JOB_STATUSES
IdemStatuses == {"absent", "processing", "succeeded", "failed"}
RetryTimes == {"null", "ahead", "past"}
RowStatuses == {"pending", "retrying", "dispatched", "dead_letter"}

JobRecord == [key: Keys, status: JobStatuses, attempts: 0 .. AttemptBound,
              retry_at: RetryTimes, queue: Rows \cup {None}]
\* What a mark_ session has loaded of a job and then of its idempotency record
\* (None until the second SELECT).
Reading == [status: JobStatuses, retry_at: RetryTimes, record: IdemStatuses \cup {None}]
RowRecord == [status: RowStatuses, attempts: 0 .. MaxDispatch,
              waiting: BOOLEAN, job: Jobs]

ASSUME NoneAssumption ==
    /\ None \notin JobRecord
    /\ None \notin RowRecord
    /\ None \notin Reading
    /\ None \notin IdemStatuses
    /\ None \notin Jobs
    /\ None \notin Rows

Exists(j) == job[j] # None
JobsWithKey(k) == {j \in Jobs : Exists(j) /\ job[j].key = k}

Pcs == {"idle",      \* no transaction
        "insert",    \* loaded, about to commit new or rescheduled jobs
        "hook",      \* committed; the after_commit hook has not run yet
        "hookSend",  \* the hook's replay_outbox transaction
        "tickSend",  \* the dispatch_outbox part of a tick
        "cancel"}    \* checked a job's status, about to commit "cancelled"

Verdicts == {"skip", "todo", "ok", "fail"}

\* What a process has loaded and not yet committed.
\*   want    idempotency keys found absent, to be inserted
\*   retry   <<job, attempt_count, fresh>>: what ready_for_retry returned, and
\*           whether create_outbox found no row with the retry's key
\*   batch   what became of each outbox row selected by dispatch_outbox
\*   seen    the outbox row as loaded
\*   target  the job being cancelled
\*   read    what mark_dead_letter loaded of each job it was called for
Tx(pc, want, retry, batch, seen, target, read) ==
    [pc |-> pc, want |-> want, retry |-> retry, batch |-> batch,
     seen |-> seen, target |-> target, read |-> read]

NoBatch == [r \in Rows |-> "skip"]
NoneSeen == [r \in Rows |-> None]
NoneRead == [j \in Jobs |-> None]
IdleTx == Tx("idle", {}, {}, NoBatch, NoneSeen, None, NoneRead)

WorkerPcs == {"idle", "loaded", "running", "committed", "raised"}
IdleWorker == [pc |-> "idle", job |-> None, attempt |-> 0, read |-> None]

Init ==
    /\ job = [j \in Jobs |-> None]
    /\ idem = [k \in Keys |-> "absent"]
    /\ outbox = [r \in Rows |-> None]
    /\ broker = [r \in Rows |-> 0]
    /\ revoked = {}
    /\ proc = [p \in Procs |-> IdleTx]
    /\ worker = [w \in Workers |-> IdleWorker]
    /\ sent = {}
    /\ effects = [j \in Jobs |-> 0]
    /\ crashes = [procs |-> 0, workers |-> 0]
    /\ cancels = 0

----------------------------------------------------------------------------
(* mark_succeeded, mark_retrying and mark_dead_letter load the job, then   *)
(* (complete_idempotency) its record, and commit later.  The UPDATE of the *)
(* ORM leaves out every column whose new value is the loaded one, so it    *)
(* keeps there what another session has committed meanwhile.               *)

ReadJob(j) == [status |-> job[j].status, retry_at |-> job[j].retry_at, record |-> None]

\* A column after the commit of a session that loaded `loaded' and sets `new'.
Written(new, loaded, now) == IF new = loaded THEN now ELSE new

\* The job's row when it gets the final status st.
Finish(rec, read, st) ==
    [rec EXCEPT !.status = Written(st, read.status, @),
                !.retry_at = Written("null", read.retry_at, @)]

----------------------------------------------------------------------------
(* dispatch_outbox: select the due rows, hand each to the broker, write    *)
(* the verdicts back at commit.                                            *)

\* Mutants: a scan that forgets the rows in backoff; one that takes rows
\* already dispatched.
DuePendingOnly(r) == outbox[r] # None /\ outbox[r].status = "pending"
DueAgain(r) == outbox[r] # None /\ outbox[r].status # "dead_letter" /\ ~outbox[r].waiting

Due(r) == /\ outbox[r] # None
          /\ outbox[r].status \in {"pending", "retrying"}
          /\ ~outbox[r].waiting

Select(p, pc) ==
    proc' = [proc EXCEPT ![p] =
        [@ EXCEPT !.pc = pc,
                  !.batch = [r \in Rows |-> IF Due(r) THEN "todo" ELSE "skip"],
                  !.seen = [r \in Rows |-> IF Due(r) THEN outbox[r] ELSE None]]]

\* No mark_dead_letter is between its two SELECTs.
ReadsDone(p) == \A j \in Jobs : proc[p].read[j] # None => proc[p].read[j].record # None
Sending(p) == proc[p].pc \in {"hookSend", "tickSend"} /\ ReadsDone(p)
Selected(p) == {r \in Rows : proc[p].batch[r] # "skip"}
AllSent(p) == ReadsDone(p) /\ \A r \in Rows : proc[p].batch[r] # "todo"

\* apply_async accepted the message.
SendOk(p, r) ==
    /\ Sending(p)
    /\ proc[p].batch[r] = "todo"
    /\ broker[r] < CopyBound
    /\ broker' = [broker EXCEPT ![r] = @ + 1]
    /\ sent' = sent \cup {r}
    /\ proc' = [proc EXCEPT ![p].batch[r] = "ok"]
    /\ UNCHANGED <<job, idem, outbox, revoked, worker, effects, crashes, cancels>>

\* The number of attempts _dispatch_outbox_message stores: loaded value + 1.
Tried(p, r) == proc[p].seen[r].attempts + 1

\* Mutant: gives up one attempt too late.
FailStatusLate(p, r) == IF Tried(p, r) > MaxDispatch THEN "dead_letter" ELSE "retrying"

FailStatus(p, r) == IF Tried(p, r) >= MaxDispatch THEN "dead_letter" ELSE "retrying"

\* mark_dead_letter loads the job the first time the session gives up on it.
ReadsAfter(p, r) ==
    LET j == proc[p].seen[r].job IN
    IF FailStatus(p, r) = "dead_letter" /\ proc[p].read[j] = None
      THEN [proc[p].read EXCEPT ![j] = ReadJob(j)] ELSE proc[p].read

\* apply_async raised (the broker is unreachable).
SendFail(p, r) ==
    /\ Sending(p)
    /\ proc[p].batch[r] = "todo"
    /\ proc' = [proc EXCEPT ![p].batch[r] = "fail", ![p].read = ReadsAfter(p, r)]
    /\ UNCHANGED <<job, idem, outbox, broker, revoked, worker, sent, effects,
                   crashes, cancels>>

\* complete_idempotency, called by mark_dead_letter, loads the record.
DoomRecord(p, j) ==
    /\ proc[p].read[j] # None
    /\ proc[p].read[j].record = None
    /\ proc' = [proc EXCEPT ![p].read[j].record = idem[job[j].key]]
    /\ UNCHANGED <<job, idem, outbox, broker, revoked, worker, sent, effects,
                   crashes, cancels>>

\* Mutant: the row is marked whether or not the broker took the message.
RowAfterOptimistic(p, r) ==
    IF proc[p].batch[r] # "skip" THEN [outbox[r] EXCEPT !.status = "dispatched"]
                                 ELSE outbox[r]

\* The row as the commit leaves it.  A column is written only when it differs
\* from the value loaded, so a second failure does not rewrite "retrying".
RowAfter(p, r) ==
    CASE proc[p].batch[r] = "ok" ->
           [outbox[r] EXCEPT !.status = "dispatched",
                             !.attempts = Tried(p, r),
                             !.waiting = FALSE]
      [] proc[p].batch[r] = "fail" ->
           [outbox[r] EXCEPT !.status = IF FailStatus(p, r) = proc[p].seen[r].status
                                          THEN @ ELSE FailStatus(p, r),
                             !.attempts = Tried(p, r),
                             !.waiting = IF FailStatus(p, r) = "retrying"
                                           THEN TRUE ELSE @]
      [] OTHER -> outbox[r]

\* Mutant: the outbox gives up, the job is not told.
DoomedNobody(p) == {}

\* Jobs that this transaction gives up on: mark_dead_letter.
Doomed(p) ==
    {proc[p].seen[r].job : r \in {q \in Selected(p) : /\ proc[p].batch[q] = "fail"
                                                      /\ FailStatus(p, q) = "dead_letter"}}

DeadLetter(p, j) == Finish(job[j], proc[p].read[j], "dead_letter")

\* The record of key k: "failed" for a job given up on.
RecordAfter(p, k) ==
    IF \E j \in Doomed(p) : /\ job[j].key = k
                            /\ proc[p].read[j].record # "failed"
      THEN "failed" ELSE idem[k]

----------------------------------------------------------------------------
(* enqueue_background_job: the idempotency record, the job and its outbox  *)
(* row are inserted in one transaction.                                    *)

NewJob(k) == [key |-> k, status |-> "queued", attempts |-> 0,
              retry_at |-> "null", queue |-> <<k, 0>>]
NewRow(j) == [status |-> "pending", attempts |-> 0, waiting |-> FALSE, job |-> j]

\* The request found neither a record nor a job for its key.  A request that
\* finds the job returns it as it is and changes nothing.
EnqueueBegin(c, k) ==
    /\ proc[c].pc = "idle"
    /\ idem[k] = "absent"
    /\ JobsWithKey(k) = {}
    /\ proc' = [proc EXCEPT ![c].pc = "insert", ![c].want = {k}]
    /\ UNCHANGED <<job, idem, outbox, broker, revoked, worker, sent, effects,
                   crashes, cancels>>

RetryRow(x) == <<job[x[1]].key, x[2]>>
Retried(p) == {x[1] : x \in proc[p].retry}

\* Mutant: no unique index.
ClashUnnoticed(p) == FALSE

\* Another transaction committed a record with a wanted key, or a row with the
\* key of a retry, since this one looked: the unique indexes on
\* idempotency_records and outbox_messages make the flush fail.
Clash(p) ==
    \/ \E k \in proc[p].want : idem[k] # "absent"
    \/ \E x \in proc[p].retry : x[3] /\ outbox[RetryRow(x)] # None

\* The whole transaction, the verdicts of its sends included, is rolled back.
EnqueueRollback(p) ==
    /\ proc[p].pc = "insert"
    /\ Clash(p)
    /\ proc' = [proc EXCEPT ![p] = IdleTx]
    /\ UNCHANGED <<job, idem, outbox, broker, revoked, worker, sent, effects,
                   crashes, cancels>>

\* ids gives each wanted key the id of its new job.
FreshIds(p) ==
    {ids \in [proc[p].want -> {j \in Jobs : ~Exists(j)}] :
        \A a, b \in proc[p].want : a # b => ids[a] # ids[b]}

\* reschedule_job: mark_enqueued, then create_outbox, which returns a row
\* that already has the key unchanged; the new queue id is then nobody's.
Requeued(p, j) ==
    LET x == CHOOSE y \in proc[p].retry : y[1] = j
    IN  [job[j] EXCEPT !.status = "queued",
                       !.queue = IF x[3] THEN RetryRow(x) ELSE None]

JobAfter(p, ids, j) ==
    IF \E k \in proc[p].want : ids[k] = j
      THEN NewJob(CHOOSE k \in proc[p].want : ids[k] = j)
    ELSE IF j \in Doomed(p) THEN DeadLetter(p, j)
    ELSE IF j \in Retried(p) THEN Requeued(p, j)
    ELSE job[j]

\* Mutant: the commit loses the verdicts of the sends.
OutboxAfterForgetful(p, ids, r) ==
    IF outbox[r] # None THEN outbox[r]
    ELSE IF r[2] = 0 /\ r[1] \in proc[p].want THEN NewRow(ids[r[1]])
    ELSE None

OutboxAfter(p, ids, r) ==
    IF outbox[r] # None THEN RowAfter(p, r)
    ELSE IF r[2] = 0 /\ r[1] \in proc[p].want THEN NewRow(ids[r[1]])
    ELSE IF \E x \in proc[p].retry : RetryRow(x) = r
      THEN NewRow((CHOOSE x \in proc[p].retry : RetryRow(x) = r)[1])
    ELSE None

IdemAfter(p, k) ==
    IF k \in proc[p].want THEN "processing" ELSE RecordAfter(p, k)

\* Commit of an enqueue or of a whole tick.  schedule_dispatch armed the
\* after_commit hook if anything was scheduled.
Commit(p) ==
    /\ proc[p].pc = "insert"
    /\ ~Clash(p)
    /\ \E ids \in FreshIds(p) :
          /\ job' = [j \in Jobs |-> JobAfter(p, ids, j)]
          /\ outbox' = [r \in Rows |-> OutboxAfter(p, ids, r)]
    /\ idem' = [k \in Keys |-> IdemAfter(p, k)]
    /\ proc' = [proc EXCEPT ![p] =
                   IF proc[p].want = {} /\ proc[p].retry = {}
                     THEN IdleTx ELSE [IdleTx EXCEPT !.pc = "hook"]]
    /\ UNCHANGED <<broker, revoked, worker, sent, effects, crashes, cancels>>

\* The hook opens a session of its own and replays the whole outbox.
HookSelect(p) ==
    /\ proc[p].pc = "hook"
    /\ Select(p, "hookSend")
    /\ UNCHANGED <<job, idem, outbox, broker, revoked, worker, sent, effects,
                   crashes, cancels>>

HookCommit(p) ==
    /\ proc[p].pc = "hookSend"
    /\ AllSent(p)
    /\ job' = [j \in Jobs |-> IF j \in Doomed(p) THEN DeadLetter(p, j) ELSE job[j]]
    /\ outbox' = [r \in Rows |-> RowAfter(p, r)]
    /\ idem' = [k \in Keys |-> RecordAfter(p, k)]
    /\ proc' = [proc EXCEPT ![p] = IdleTx]
    /\ UNCHANGED <<broker, revoked, worker, sent, effects, crashes, cancels>>

----------------------------------------------------------------------------
(* CronScheduler.tick: one transaction that dispatches the outbox,         *)
(* reschedules the retryable jobs and enqueues the due cron windows.       *)

TickSelect(s) ==
    /\ proc[s].pc = "idle"
    /\ Select(s, "tickSend")
    /\ UNCHANGED <<job, idem, outbox, broker, revoked, worker, sent, effects,
                   crashes, cancels>>

ReadyForRetry == {j \in Jobs : /\ Exists(j)
                               /\ job[j].status = "retrying"
                               /\ job[j].retry_at # "ahead"}

\* due: the cron windows that fire in this tick; those already enqueued are
\* returned as they are.
TickCollect(s, due) ==
    /\ proc[s].pc = "tickSend"
    /\ AllSent(s)
    /\ ReadyForRetry \cap Doomed(s) = {}
    /\ proc' = [proc EXCEPT
          ![s].pc = "insert",
          ![s].retry = {<<j, job[j].attempts, outbox[<<job[j].key, job[j].attempts>>] = None>>
                           : j \in ReadyForRetry},
          ![s].want = {k \in due : idem[k] = "absent" /\ JobsWithKey(k) = {}}]
    /\ UNCHANGED <<job, idem, outbox, broker, revoked, worker, sent, effects,
                   crashes, cancels>>

\* A job dead-lettered earlier in this same session is returned by
\* ready_for_retry in its uncommitted state: reschedule_job raises
\* ValueError and the tick is rolled back.
TickAbort(s) ==
    /\ proc[s].pc = "tickSend"
    /\ AllSent(s)
    /\ ReadyForRetry \cap Doomed(s) # {}
    /\ proc' = [proc EXCEPT ![s] = IdleTx]
    /\ UNCHANGED <<job, idem, outbox, broker, revoked, worker, sent, effects,
                   crashes, cancels>>

----------------------------------------------------------------------------
(* BackgroundJobService.cancel behind POST /api/jobs/{id}/cancel.          *)

Cancellable == {"queued", "retrying", "running"}

CancelBegin(c, j) ==
    /\ cancels < CancelBound
    /\ cancels + crashes.procs < TroubleBound
    /\ proc[c].pc = "idle"
    /\ Exists(j)
    /\ job[j].status \in Cancellable
    /\ revoked' = revoked \cup ({job[j].queue} \ {None})
    /\ proc' = [proc EXCEPT ![c].pc = "cancel", ![c].target = j]
    /\ cancels' = cancels + 1
    /\ UNCHANGED <<job, idem, outbox, broker, worker, sent, effects, crashes>>

CancelCommit(c) ==
    /\ proc[c].pc = "cancel"
    /\ job' = [job EXCEPT ![proc[c].target].status = "cancelled"]
    /\ proc' = [proc EXCEPT ![c] = IdleTx]
    /\ UNCHANGED <<idem, outbox, broker, revoked, worker, sent, effects,
                   crashes, cancels>>

----------------------------------------------------------------------------
(* worker/tasks.py, _run_job.  Celery acknowledges a message on receipt.   *)

should_run(rec) == /\ rec.status \notin TERMINAL_JOB_STATUSES \cup {"running"}
                   /\ rec.retry_at # "ahead"

\* The first session: load the row and decide.
Receive(w, r) ==
    /\ worker[w].pc = "idle"
    /\ broker[r] > 0
    /\ broker' = [broker EXCEPT ![r] = @ - 1]
    /\ LET j == outbox[r].job IN
         worker' = [worker EXCEPT ![w] =
             IF should_run(job[j])
               THEN [IdleWorker EXCEPT !.pc = "loaded", !.job = j,
                                      !.attempt = job[j].attempts + 1]
               ELSE IdleWorker]
    /\ UNCHANGED <<job, idem, outbox, revoked, proc, sent, effects, crashes, cancels>>

\* A worker that knows the task id as revoked drops the message unread.
DropRevoked(r) ==
    /\ r \in revoked
    /\ broker[r] > 0
    /\ broker' = [broker EXCEPT ![r] = @ - 1]
    /\ UNCHANGED <<job, idem, outbox, revoked, proc, worker, sent, effects,
                   crashes, cancels>>

\* mark_started commits; its guard looked at the row as loaded, not again.
MarkStarted(w) ==
    /\ worker[w].pc = "loaded"
    /\ worker[w].attempt <= AttemptBound
    /\ job' = [job EXCEPT ![worker[w].job].status = "running",
                          ![worker[w].job].attempts = worker[w].attempt]
    /\ worker' = [worker EXCEPT ![w].pc = "running"]
    /\ UNCHANGED <<idem, outbox, broker, revoked, proc, sent, effects, crashes, cancels>>

\* The task function returned and its session committed.
FnCommit(w) ==
    /\ worker[w].pc = "running"
    /\ effects' = [effects EXCEPT ![worker[w].job] = IF @ < 2 THEN @ + 1 ELSE @]
    /\ worker' = [worker EXCEPT ![w].pc = "committed"]
    /\ UNCHANGED <<job, idem, outbox, broker, revoked, proc, sent, crashes, cancels>>

\* The task function raised and its session was rolled back.
FnRaise(w) ==
    /\ worker[w].pc = "running"
    /\ worker' = [worker EXCEPT ![w].pc = "raised"]
    /\ UNCHANGED <<job, idem, outbox, broker, revoked, proc, sent, effects,
                   crashes, cancels>>

\* The session that marks the outcome: it loads the job,
LoadJob(w) ==
    /\ worker[w].pc \in {"committed", "raised"}
    /\ worker[w].read = None
    /\ worker' = [worker EXCEPT ![w].read = ReadJob(worker[w].job)]
    /\ UNCHANGED <<job, idem, outbox, broker, revoked, proc, sent, effects,
                   crashes, cancels>>

Finishing(w) == \/ worker[w].pc = "committed"
                \/ worker[w].pc = "raised" /\ worker[w].attempt >= MaxAttempts

\* then, if it finishes the job, the record (complete_idempotency),
LoadRecord(w) ==
    /\ Finishing(w)
    /\ worker[w].read # None
    /\ worker[w].read.record = None
    /\ worker' = [worker EXCEPT ![w].read.record = idem[job[worker[w].job].key]]
    /\ UNCHANGED <<job, idem, outbox, broker, revoked, proc, sent, effects,
                   crashes, cancels>>

\* and commits what differs.
FinishJob(w, st) ==
    job' = [job EXCEPT ![worker[w].job] = Finish(@, worker[w].read, st)]
FinishRecord(w, st) ==
    idem' = [idem EXCEPT ![job[worker[w].job].key] = Written(st, worker[w].read.record, @)]
ReadBoth(w) == worker[w].read # None /\ worker[w].read.record # None

MarkSucceeded(w) ==
    /\ worker[w].pc = "committed"
    /\ ReadBoth(w)
    /\ FinishJob(w, "succeeded")
    /\ FinishRecord(w, "succeeded")
    /\ worker' = [worker EXCEPT ![w] = IdleWorker]
    /\ UNCHANGED <<outbox, broker, revoked, proc, sent, effects, crashes, cancels>>

\* The new next_retry_at always differs from the loaded one.
RetryJob(w) ==
    /\ job' = [job EXCEPT ![worker[w].job].status =
                               Written("retrying", worker[w].read.status, @),
                          ![worker[w].job].retry_at = "ahead"]
    /\ worker' = [worker EXCEPT ![w] = IdleWorker]
    /\ UNCHANGED <<outbox, broker, revoked, proc, sent, effects, crashes, cancels>>

\* Mutants: one attempt too many; the record is completed before the job is.
MarkRetryingLate(w) ==
    /\ worker[w].pc = "raised"
    /\ worker[w].attempt <= MaxAttempts
    /\ worker[w].read # None
    /\ RetryJob(w)
    /\ UNCHANGED idem
MarkRetryingFailed(w) ==
    /\ worker[w].pc = "raised"
    /\ worker[w].attempt < MaxAttempts
    /\ worker[w].read # None
    /\ RetryJob(w)
    /\ FinishRecord(w, "failed")

MarkRetrying(w) ==
    /\ worker[w].pc = "raised"
    /\ worker[w].attempt < MaxAttempts
    /\ worker[w].read # None
    /\ RetryJob(w)
    /\ UNCHANGED idem

\* Mutant: complete_idempotency is forgotten.
MarkDeadLetterSilent(w) ==
    /\ worker[w].pc = "raised"
    /\ worker[w].attempt >= MaxAttempts
    /\ ReadBoth(w)
    /\ FinishJob(w, "dead_letter")
    /\ worker' = [worker EXCEPT ![w] = IdleWorker]
    /\ UNCHANGED <<idem, outbox, broker, revoked, proc, sent, effects, crashes, cancels>>

MarkDeadLetter(w) ==
    /\ worker[w].pc = "raised"
    /\ worker[w].attempt >= MaxAttempts
    /\ ReadBoth(w)
    /\ FinishJob(w, "dead_letter")
    /\ FinishRecord(w, "failed")
    /\ worker' = [worker EXCEPT ![w] = IdleWorker]
    /\ UNCHANGED <<outbox, broker, revoked, proc, sent, effects, crashes, cancels>>

----------------------------------------------------------------------------
(* The environment: time passes, processes die.                            *)

JobWindowOpens(j) ==
    /\ Exists(j)
    /\ job[j].retry_at = "ahead"
    /\ job' = [job EXCEPT ![j].retry_at = "past"]
    /\ UNCHANGED <<idem, outbox, broker, revoked, proc, worker, sent, effects,
                   crashes, cancels>>

RowWindowOpens(r) ==
    /\ outbox[r] # None
    /\ outbox[r].waiting
    /\ outbox' = [outbox EXCEPT ![r].waiting = FALSE]
    /\ UNCHANGED <<job, idem, broker, revoked, proc, worker, sent, effects,
                   crashes, cancels>>

\* A request or scheduler dies, or its commit fails: nothing it wrote stays,
\* everything it sent does.  A lost hook is a crash in "hook".
ProcCrash(p) ==
    /\ crashes.procs < CrashBound
    /\ cancels + crashes.procs < TroubleBound
    /\ proc[p].pc # "idle"
    /\ proc' = [proc EXCEPT ![p] = IdleTx]
    /\ crashes' = [crashes EXCEPT !.procs = @ + 1]
    /\ UNCHANGED <<job, idem, outbox, broker, revoked, worker, sent, effects, cancels>>

WorkerCrash(w) ==
    /\ crashes.workers < WorkerCrashBound
    /\ worker[w].pc # "idle"
    /\ worker' = [worker EXCEPT ![w] = IdleWorker]
    /\ crashes' = [crashes EXCEPT !.workers = @ + 1]
    /\ UNCHANGED <<job, idem, outbox, broker, revoked, proc, sent, effects, cancels>>

SchedulerStep(s) ==
    \/ TickSelect(s)
    \/ \E due \in SUBSET CronKeys : TickCollect(s, due)
    \/ TickAbort(s)

TxStep(p) ==
    \/ \E r \in Rows : SendOk(p, r) \/ SendFail(p, r)
    \/ \E j \in Jobs : DoomRecord(p, j)
    \/ Commit(p)
    \/ EnqueueRollback(p)
    \/ HookSelect(p)
    \/ HookCommit(p)

ClientStep(c) ==
    \/ \E k \in Keys \ CronKeys : EnqueueBegin(c, k)
    \/ \E j \in Jobs : CancelBegin(c, j)
    \/ CancelCommit(c)

WorkerStep(w) ==
    \/ \E r \in Rows : Receive(w, r)
    \/ MarkStarted(w)
    \/ FnCommit(w)
    \/ FnRaise(w)
    \/ LoadJob(w)
    \/ LoadRecord(w)
    \/ MarkSucceeded(w)
    \/ MarkRetrying(w)
    \/ MarkDeadLetter(w)

TimeStep ==
    \/ \E j \in Jobs : JobWindowOpens(j)
    \/ \E r \in Rows : RowWindowOpens(r)

CrashStep ==
    \/ \E p \in Procs : ProcCrash(p)
    \/ \E w \in Workers : WorkerCrash(w)

Next ==
    \/ \E s \in Schedulers : SchedulerStep(s)
    \/ \E p \in Procs : TxStep(p)
    \/ \E c \in Clients : ClientStep(c)
    \/ \E w \in Workers : WorkerStep(w)
    \/ \E r \in Rows : DropRevoked(r)
    \/ TimeStep
    \/ CrashStep

Spec == Init /\ [][Next]_vars

----------------------------------------------------------------------------
TxType ==
    [pc: Pcs, want: SUBSET Keys, retry: SUBSET (Jobs \X (0 .. AttemptBound) \X BOOLEAN),
     batch: [Rows -> Verdicts], seen: [Rows -> RowRecord \cup {None}],
     target: Jobs \cup {None}, read: [Jobs -> Reading \cup {None}]]

WorkerType ==
    [pc: WorkerPcs, job: Jobs \cup {None}, attempt: 0 .. AttemptBound + 1,
     read: Reading \cup {None}]

\* The tables, the broker and the private state of the processes are well
\* formed.
TypeOK ==
    /\ job \in [Jobs -> JobRecord \cup {None}]
    /\ idem \in [Keys -> IdemStatuses]
    /\ outbox \in [Rows -> RowRecord \cup {None}]
    /\ broker \in [Rows -> 0 .. CopyBound]
    /\ revoked \subseteq Rows
    /\ proc \in [Procs -> TxType]
    /\ worker \in [Workers -> WorkerType]
    /\ sent \subseteq Rows
    /\ effects \in [Jobs -> 0 .. 2]
    /\ crashes \in [procs: 0 .. CrashBound, workers: 0 .. WorkerCrashBound]
    /\ cancels \in 0 .. CancelBound

\* Two triggers with one idempotency key never create two jobs, however
\* their transactions interleave (enqueue_background_job checks for the job
\* before it inserts, and only the unique index on the record decides a race).
OneJobPerKey ==
    \A i, j \in Jobs : Exists(i) /\ Exists(j) /\ job[i].key = job[j].key => i = j

\* The idempotency record, the job and the first outbox row are created
\* together: a crash never leaves a job that nothing will dispatch.
CreatedTogether ==
    \A k \in Keys : /\ idem[k] = "absent" <=> JobsWithKey(k) = {}
                    /\ idem[k] = "absent" <=> outbox[<<k, 0>>] = None

\* An outbox row marked dispatched did reach the broker, although the mark is
\* written by whichever of several dispatchers commits last.
DispatchedWasSent ==
    \A r \in Rows : outbox[r] # None /\ outbox[r].status = "dispatched" => r \in sent

\* The caller of a finished job is not left waiting, and success is never
\* reported for work that was not done: once mark_succeeded or mark_dead_letter
\* has committed, the idempotency record is completed for good, and neither the
\* job nor the record says "succeeded" unless the task function has committed.
\* This survives sessions that overlap and write only the columns that differ
\* from what they loaded; which of the two outcomes the job and the record show
\* may then differ (OutcomesAgree is the promise where nothing overlaps).
OutcomeRecorded ==
    \A j \in Jobs : Exists(j) =>
        /\ job[j].status \in {"succeeded", "dead_letter"}
              => idem[job[j].key] \in {"succeeded", "failed"}
        /\ "succeeded" \in {job[j].status, idem[job[j].key]} => effects[j] > 0

\* As long as no worker dies, a job that has never started is still on its
\* way: its outbox row is due or waiting, a message is in the broker, or a
\* worker has loaded it.  Only a revoked message may be gone.
FirstDispatchSurvives ==
    \A j \in Jobs : Exists(j) /\ job[j].status = "queued" /\ job[j].attempts = 0 =>
        LET r == <<job[j].key, 0>> IN
        \/ outbox[r].status \in {"pending", "retrying"}
        \/ broker[r] > 0
        \/ r \in revoked
        \/ \E w \in Workers : worker[w].pc = "loaded" /\ worker[w].job = j

\* What the comment in _dispatch_outbox_after_commit relies on: work that has
\* not reached a worker can still be replayed from the outbox.
QueuedJobIsCarried ==
    \A j \in Jobs : Exists(j) /\ job[j].status = "queued" =>
        \/ \E r \in Rows : /\ r[1] = job[j].key
                           /\ outbox[r] # None
                           /\ \/ outbox[r].status \in {"pending", "retrying"}
                              \/ broker[r] > 0
        \/ \E w \in Workers : worker[w].pc # "idle" /\ worker[w].job = j

----------------------------------------------------------------------------
(* The deployment of the README: one scheduler is the only process that    *)
(* dispatches, and its transactions commit.  Then no message is sent twice *)
(* and the stronger promises hold.                                         *)

\* Two workers never execute the same job at once, although neither
\* should_run nor mark_started takes a lock and lock_owner is never read.
ExclusiveExecution ==
    \A v, w \in Workers : v # w /\ worker[v].pc # "idle" /\ worker[w].pc # "idle"
                             => worker[v].job # worker[w].job

\* The task function commits at most once per job, even if the worker dies
\* between that commit and mark_succeeded.
EffectOnce == \A j \in Jobs : effects[j] <= 1

\* The job and its idempotency record report the same outcome, at every moment:
\* mark_succeeded and mark_dead_letter write both rows in one session, and here
\* no other session commits between their loads and their commit.
OutcomesAgree ==
    \A j \in Jobs : Exists(j) =>
        /\ job[j].status = "succeeded" <=> idem[job[j].key] = "succeeded"
        /\ job[j].status = "dead_letter" <=> idem[job[j].key] = "failed"

\* The tables, seen through status and attempt_count, behave as JobLifecycle.
Lifecycle == INSTANCE JobLifecycle WITH
    status <- [j \in Jobs |-> IF Exists(j) THEN job[j].status ELSE "none"],
    tries <- [j \in Jobs |-> IF Exists(j) THEN job[j].attempts ELSE 0]

RefinesLifecycle == Lifecycle!Spec

\* The scheduler polls for ever (CronScheduler._run), Celery delivers to a
\* free slot, a task function returns or raises, and instants pass.
Fairness ==
    /\ \A s \in Schedulers : WF_vars(SchedulerStep(s) \/ TxStep(s))
    /\ \A w \in Workers : WF_vars(WorkerStep(w))
    /\ WF_vars(TimeStep)

FairSpec == Spec /\ Fairness

\* Every job that is accepted reaches an outcome its caller can read in the
\* idempotency record (it succeeds, or it is dead-lettered), except at most one
\* job per worker that died: nothing picks up a job left running, or left
\* queued by a worker that took its message, but no other job is held up.
AcceptedJobsFinish ==
    <>[](Cardinality({k \in Keys : idem[k] = "processing"}) <= crashes.workers)
=============================================================================
