# SoulClaw: TLA+ specifications

SoulClaw is a personal agent platform: a FastAPI application with an admin API,
a Celery worker, a cron scheduler, and a PostgreSQL database with Redis beside
it.  This directory models the parts of it in which several processes, requests
or human decisions meet, checks the models with TLC and proves theorems about
them with TLAPS.  Paths below are relative to `src/backend/`.

## 1. Inventory

| component | state | operations | talks to | what makes it correct |
|---|---|---|---|---|
| background jobs and outbox (`domain/jobs.py`, `worker/tasks.py`) | tables `background_jobs`, `outbox_messages`, `idempotency_records`; Celery messages | enqueue, dispatch, replay, start, succeed, retry, dead-letter, cancel | API, cron, worker, Celery | one job per idempotency key; an accepted job is neither lost nor run twice; outcome and record agree |
| cron scheduler (`runtime/cron.py`, `domain/cron_schedule.py`) | `cron_jobs` | tick, schedule_missing | jobs | a window fires once, a failing job backs off |
| agent runtime (`runtime/agent.py`) | none between requests; the checkpoint in `approvals` | run_turn, resume_turn, tool loop | LLM, tools, conversation, approvals, A2A | bounded rounds, complete transcripts, gated calls only after a decision |
| tools (`domain/tools.py`) | registry, `tool_runs` | register, execute, create approval | every domain service | gate, safety floor |
| approvals and platform rows (`domain/platform.py`, `api/admin/control.py`) | `approvals`, `mcp_servers`, `gateway_connections`, `cron_jobs` | create, resolve, approve-and-run, upserts | agent, tools | a decision covers what was asked |
| resilience (`infra/resilience.py`) | one `CircuitState` per policy, shared by threads | call, async_call | LLM, MCP, A2A, gateway | trips after the threshold, recovers, bounded attempts |
| rate limiting (`infra/rate_limit.py`) | Redis counters, a dictionary per process | check, enforce | middleware, LLM client | no more than the limit per window, nobody blocked for ever |
| evolution proposals (`domain/evolution.py`, `domain/skills.py`, `domain/memory.py`, `domain/workspace.py`, `domain/wiki.py`) | `evolution_proposals`, history tables, files of the workspace | propose, apply, reject, roll back | files and database, without a common commit | a proposal is applied at most once and to the files it was made for |
| skills (`domain/skills.py`) | skill directories, `skills`, `skill_files`, `skill_history` | scan, lint, test, apply, rollback | evolution, dream | index and files agree |
| memory (`domain/memory.py`) | `memories`, `memory_history`, `memory_conflicts`, `MEMORY.md` | create, supersede, archive, restore, sync, search | agent, dream, evolution | file and table mirror each other; replaced memories stay hidden; conflicts surface |
| conversation (`domain/conversation.py`) | `session_messages`, `session_summaries` | record, recent_context, update_summary_if_needed | agent | summary and recent messages cover the log |
| wiki (`domain/wiki.py`, `domain/wiki_eval.py`) | `wiki_pages`, links, claims, raw files | ingest, compile, search, lint, repair, apply | evolution, worker | links point at pages; a claim is checked against the Error Book; repair converges |
| A2A (`runtime/a2a.py`, `domain/a2a.py`) | `a2a_agent_connections`, `a2a_tasks`, `a2a_events` | delegate, stream, cancel, discover | remote agents | the recorded status is what the remote agent said last |
| MCP (`runtime/mcp.py`) | servers, registered tools | refresh, call | tools, resilience | the registry reflects the last refresh |
| gateway (`runtime/gateway.py`) | `gateway_connections`, nonce cache | inbound, webhook, send, heartbeat | agent, resilience | a webhook is accepted once |
| dream review, heartbeat (`runtime/dream.py`, `runtime/heartbeat.py`) | proposals, run records | review, check | memory, skills, gateway | run by the worker as job functions |
| LLM client, host runtime, policy (`runtime/llm.py`, `runtime/host_runtime.py`, `runtime/policy.py`) | none | complete, execute, decide | resilience, rate limit | pure translation and I/O |
| infrastructure (`infra/db.py`, `events.py`, `redis_cache.py`, `health.py`, `observability.py`, `security.py`, `trace.py`, `config.py`) | sessions, event log, metrics | session_scope, emit, cache, probes | everything | commit or roll back |
| application, CLI, migrations, front end (`app.py`, `cli/`, `alembic/`, `frontend/`) | wiring | lifespan, middleware, commands | everything | no protocol of its own |

Hard behaviours.  The API process, the scheduler and the workers share tables
without row locks (only the cron scan uses `FOR UPDATE SKIP LOCKED`), at READ
COMMITTED, through an ORM that writes back what it loaded.  Broker messages,
tool calls and file writes happen inside transactions that may still roll back.
A turn can stop for a human and continue in another request, days later.
`PROJECT.json` lists every hazard at its line.

## 2. Modules

| module | models |
|---|---|
| `JobQueue` | jobs, outbox, idempotency, tick, worker, broker, crashes |
| `JobLifecycle` | abstract: what one background job promises |
| `MCJobQueue` | instances of `JobQueue` |
| `JobQueueProofs` | theorems about `JobQueue` |
| `AgentTurn` | the tool loop, approval, resumption, the approval endpoints |
| `MCAgentTurn` | instances of `AgentTurn` |
| `AgentTurnProofs` | theorems about `AgentTurn` |
| `Resilience` | the circuit breaker and retry loop of one policy |
| `MCResilience` | instances of `Resilience` |
| `SkillEvolution` | proposals, rollback and scan of one skill directory |
| `MCSkillEvolution` | instances of `SkillEvolution` |
| `Wiki` | the wiki's files, their mirror, compile, lint, repair, proposals, the sufficiency check |
| `Memory` | memories, `MEMORY.md`, their history, conflicts and proposals |
| `A2ATask` | delegation to a remote agent, cancelling, discovery, the event log |
| `McpRegistry` | one MCP server, its refreshes, the tool registry and the calls |
| `Gateway` | a gateway's inbound and outbound messages, behind the rate limiter |
| `MCWiki`, `MCMemory`, `MCA2ATask`, `MCMcpRegistry`, `MCGateway` | their instances |
| `SkillEvolutionProofs`, `WikiProofs`, `MemoryProofs`, `A2ATaskProofs`, `McpRegistryProofs`, `GatewayProofs` | theorems about the module of that name; `McpRegistryProofs` also those about `Resilience` |

### JobQueue

`job`, `idem` and `outbox` are the three tables, `broker` counts the Celery
messages of each outbox row, `revoked` the ids a worker will drop.  `proc` is the
open transaction of every API request and scheduler, `worker` the state of every
worker slot between its sessions.  A row of the outbox is named by what its unique
key holds: `<<key, 0>>` for `dispatch:<key>:enqueue:0`, `<<key, n>>` for the retry
after attempt n.

A transaction is *load*, then private work, then one *commit* step that writes
what was computed from the loaded values without looking again; this is what the
ORM's UPDATE statements do at READ COMMITTED, and it is where the interleavings
come from.  `SendOk` and `SendFail` are steps of their own because a message that
was sent stays sent when the transaction is rolled back.  A tick is one
transaction: `TickSelect`, the sends, `TickCollect` (retryable jobs and due cron
windows), `Commit`; the commit arms the after-commit hook, which opens a second
transaction (`HookSelect` ... `HookCommit`).  The worker's three sessions are
`Receive`+`MarkStarted`, `FnCommit`/`FnRaise`, and `LoadJob`, `LoadRecord` and one of `MarkSucceeded`,
`MarkRetrying` and `MarkDeadLetter`.

A session that writes an outcome loads the job, then (`complete_idempotency`) its idempotency record, and
commits later; a dispatcher that gives up does the same (`SendFail`, `DoomRecord`, the commit).  The UPDATE leaves out
the columns whose value is the loaded one (`Written`), so two sessions that overlap can leave a job `succeeded`
with a record `failed`, or the other way round.  `OutcomeRecorded` says what survives that: a job that succeeded or was dead-lettered
has a completed record, and neither of the two reports a success that was not executed.  `OutcomesAgree` says
that the two agree where no two sessions mark the same job, which is what one dispatcher guarantees.

Time is one flag per retry window (`waiting`); a window opens at any later moment.
This covers every length of `_retry_delay_seconds`.

Abstractions.  Payloads, names, errors and events are left out, also the response that a record
stores.  The order of sends in a batch is
free (a superset of `ORDER BY created_at`).  The limits of 100, 500 and 10 rows are not reached.
The cron windows that are due are chosen freely.  No caller passes an explicit
idempotency key together with another payload, so the conflict error of
`enqueue_background_job` is unreachable and left out; `mark_failed` has no caller.
`queue_eager` and the fallback Celery, in which a send runs the task inline, are
not modelled.  An integrity error inside the cron `_run_job` is caught there, but
its session can only be rolled back, so the model rolls the whole tick back.

### AgentTurn

`appr` is the approvals table with its checkpoints, `req` the local state of each
request (one request is one transaction), `passed` the history of gated calls that
reached their handler.  A call is its kind (free, or gated by `requires_approval`)
and whether its arguments were edited; a result remembers with which arguments the
call ran and whether a decision covered it.  That is all the properties tell apart.
`Reply`, `ToolOk`, `ToolFail` and `NeedApproval` are the tool loop shared by `_run_llm`,
`_continue_llm_loop` and the resumed round of `resume_turn`; `Resume`, `Settle`,
`ApproveAndRun` and `Resolve` are the endpoints; `Commit` and `Crash` end a request.
`Lists(flat, rounds)` says that the list of results, cut into rounds, is the results of each round in order.

Abstractions.  Prompts, answers, the conversation log and tool_runs are left out
(appended only).  A call that the caller of `run_turn` marks as approved behaves as
a free one.  Unknown tool, unavailable tool, safety floor and a raising handler are
one failure.  A turn that is delegated to an A2A agent does not enter the tool loop
(`StartDelegated`).  PostgreSQL makes a second writer of an approval row wait for the first;
the model lets both proceed, which allows every order the lock allows and more.

### Resilience

`failures` and `opened` are the shared `CircuitState`, `caller` is the position of
each thread in `call` (or `async_call`, whose steps are the same), `answer` how its
last call ended.  The steps are cut where the code calls something that can let
another thread run: the upstream (`Admit` to `FnReturns`, `FnRaises` or `FnGivesUp`), the sleep
(`Wake`), the event bus between the check and the error text (`Refuse`,
`RefuseEnd`), `str(exc)` and `datetime.now` inside `_record_failure` (`FnGivesUp`,
`Compare`, `Trip`).  `inRow` and `earned` are history variables: how many calls have
failed since the last success, and whether that ever reached the threshold.

Abstractions.  `failures` is only compared with the threshold and is counted no
further.  The clock is the step `WindowPasses`.  Delays, jitter and `Retry-After` only
change how long a sleep takes.  A `max_attempts` below 1 behaves as 1.

### SkillEvolution

`disk` is the skill directory, `index` its `skill_files` rows, `skill` whether the
unique `skills` row exists, `prop` and `history` the two tables, `req` the open
transaction of each request.  Files change at once and for good (`WriteFile`);
the session has autoflush off, so rows change at the commit (`Commit`, `Decide`),
except that the DELETE of `scan` picks the rows it removes when it runs (`Scan`).
The checksum of a snapshot is the snapshot itself: SHA-256 is taken to be injective.
`torn` is a history variable: some request left files without their rows.

Abstractions.  A proposal brings contents of its own and one verdict of lint and of
its tests, which are pure functions of the proposed files.  One file is written in one step,
and a snapshot is read in one step.  The snapshot after an apply and the files that its scan reads are the same.
Base checksums given by the caller, the status `approved` (which nothing sets),
`skill_tests` rows and other skill directories are left out.  PostgreSQL makes a
second writer of a row wait; the model does not, which only adds orders.

### Wiki

`disk` is the directory of pages, `db` the committed tables (pages, links, sources,
open Error Book entries), `fixes` the proposals that carry a file's content, `tx` the running repair or
apply, `comp` a compile that runs beside it.  `Compile`
and `LintErrors` are functions of files and tables.
A compile is `CompileBegin` (it reads the files and deletes the links), `CompileLoad` (its
later statements see a commit that the DELETE did not) and `CompileCommit`.
A repair is `RepairAll` or `RepairSome` (lint, and the errors it reads), one
`RepairStep` per error in any order, because the rows share one `created_at`, and
`RepairCommit`; an applied proposal is `ApplyWrite` or `ApplyLog`, `ApplyCompile`, `ApplyCommit`.  Files change at once, tables
at the commit, so `Crash` and `Rollback` leave
files without rows.  `FollowLinks` and `Sufficient` are what readers
of the wiki compute from the tables.

Overlaps.  No key makes links or Error Book entries unique, and a compile of pages that exist inserts no page
row, so two compiles can both commit.  A session keeps the tables it loaded (`base`) and what they are
to it (`mine`); when another compile commits in between, `View` is what its own commit then leaves:
pages and sources merged row by row and column by column (`Merged`), links and errors added to those it has
not seen.  Its flush fails if a row it inserts exists by then, or one it updates is gone (`Clashes`).
`mixed` is history: the tables are of compiles that overlapped.  A compile that runs alone and finds no error
clears it, because it deletes all links and all pages but its own.

Abstractions.  A page is whether it parses, its key, one alias, its links and
whether it has a quality problem; a link or a problem that a page repeats counts once, so the limits of 500 (`RepairLimit`) and
200 (`ErrorLimit`) count problems, not rows.  What a compile loads after its DELETE it
loads at one moment, and the compile inside a repair or an apply is one step.  One repair, apply or lint
runs at a time, beside one compile: two requests that write files, and two lints, are left out.  Row locks are left
out too, which adds orders.  The review proposals that a repair makes for the other errors (`append_log`) are not
tracked: every lint and every compile renews the ids of the errors, so one problem gets a new one at each
repair (wiki.py:1541).  Ranking, text search and the choice of a route are
left out.

### Memory

`rows`, `hist`, `conflicts` and `prop` are tables, `file` is `MEMORY.md`: one entry
per marker, and the texts of append proposals.  `tx` is the session of a request:
what it loaded (`base`), what it would write (`view`), and the rewrites of the file
it still has to do (`todo`).  `FileRead` and `FileWrite` are the two halves of a
rewrite, with other requests between them; `FileReplace` is the second half of a `replace_file`
proposal, which keeps nothing of what the file held.  `write_text` empties the file and then
fills it: a request that reads in between finds it empty (`Readable`), and one that fails or dies in between leaves it so
(`Damage`).  `Flush` is the one INSERT that takes
a row lock early; `Commit` sends the columns that differ from `base`, merged into the rows as they
are by then (`Merged`).  `made` is history: what happened that the properties except.

Abstractions.  All contents are versions of one fact, so two that differ
contradict each other; `FirstLine` is what one line of the file keeps of a content.
A new memory is compared with at most `CandidateLimit` rows (50 in the code, those updated last; in the model any of
them).  A write cut in the middle leaves an empty file, not part of one; two writes at the same
moment are two writes in some order.
Confidence and stability are one clamped level.  Probes, expiry by date and ranking
are left out.

What `MirrorWhenCalm` excepts is what the code does not keep in step.  One exception was found by the
attempt to prove it, beyond the bounds of the run: overlapping requests leave a row whose `archived` and
`status` disagree, its next change records that row as a history snapshot, and `restore` brings it back
later, when everything is calm (memory.py:836-838).  A line of `MEMORY.md` has only the status, so it cannot show such
a row.

### A2ATask

`conn` is the connection, `agent` the remote agent (external), `tasks` and `events`
the tables, `tx` the open request.  A delegation is one transaction: `DelegateBegin`,
then the stream (`StreamOpens`, `StreamStatus`, `StreamContent`, `StreamEnds`, or
`StreamRefused` and `StreamBreaks`, which fall back) or the message (`SendAnswered`,
`SendTimesOut`, `SendRefused`), then `DelegateCommit` or `DelegateFails`; the last
depends on the caller (`Callers`), who rolls back or answers with the error.
`CancelMark` numbers its event when the row lock is free (`RowLocked`), because
`mark_task` flushes the row before it numbers.

Abstractions.  The text of answers, headers and the choice of a connection by
capability are left out; an artifact is one event.  Connections are never deleted, so a cancel always finds the one
its task names (the branch at a2a.py:187 is not taken).  An agent that answers CancelTask without an error has ended the
task, now or before: this is what the repository's own agent does (a2a.py:184, 204), and the answer itself is not
looked at.  `EventBound` bounds the events of a stream that are recorded, not how long the agent keeps it open: the
reading of a stream is not fair.

### McpRegistry

`row` is the server, `seed` its entry in the seed file, `web` the process with its
registry, `ref` the refreshes and `call` the calls under way.  A refresh is a load,
a discovery that is awaited, a second session (`PersistStatus`), and in the web
process the three steps of `install_into_registry`.  These three run without an
await, so no other refresh comes between them (`LoopFree`), but calls, which run in
threads, do.  The worker refreshes the row only.

Abstractions.  A configuration is a model value with the tools it overrides as
reads.  Transports, schemas and answers are left out, the breaker is in `Resilience`.
Two upserts that create one server at once are left out (the name is unique).  An upsert reads and
flushes the row in one step (`UpsertMcp`): a commit of a refresh that falls between its select (platform.py:174) and its
flush (platform.py:193), a few statements without an await, would survive in the columns that the upsert finds unchanged, and
is not modelled.

### Gateway

`redis` and `memory` are the two counters of one identity, `gw` the gateway's row,
`req` the request of each thread.  `Incr` and `Expire` are two commands, and TTL, the third, is
read with the one before it or fails after it (`TtlFails`); the counter in memory is the fallback, or the only
one where there is no Redis client (`fallback`).  A provider's clock is off by a member of `Drift`, ahead too, and the
timestamp is compared by its distance (`Fresh`).  `Load` is
the read of the row with the replay checks, `InboundCommit` the write of what
was computed from it: the cache of nonces is a part of the JSON configuration, so
a commit with a nonce also writes back the configuration that was loaded
(`InboundRow`).  `Send`, `Post` and `SendCommit` are the outbound half.
`admitted[b][k]` is history: the requests that counter b admitted in the last k ticks.

Abstractions.  Signatures are valid; time is ticks; a message without nonce is one
of the inbound endpoint, which asks for none.  The heartbeat endpoint and the status columns, which nothing reads back, are left out.
Failure counters are set in a transaction that is then rolled back, so they are
never changed (`InboundFails`, `PostFails`).

## 3. Runs

| run | question | instance |
|---|---|---|
| `job_race` | can racing triggers create two jobs, or half of one; does double dispatch make marks or outcomes lie, or lose the first dispatch? | 2 requests, 1 scheduler, 2 workers, 1 key, 2 copies, 1 cancel or crash |
| `job_single_scheduler` | what does a single dispatcher guarantee, do job and record agree, and does every accepted job finish? | 1 scheduler, 2 cron keys, 2 workers, 1 worker crash, `FairSpec` |
| `job_stranded` | is a queued job always carried by something? (violated) | 1 request, 1 scheduler, 2 workers |
| `agent` | what does the model see after several interruptions of a turn, and what can concurrent decisions execute? | 2 requests, 2 approvals, 2 rounds of up to 2 calls, 2 decisions |
| `circuit` | what can threads do to a circuit without a lock, and does it close again? | 3 threads, 2 attempts, threshold 2, `FairSpec` |
| `circuit_refused` | is a refused call told so? (violated) | 2 threads, 1 attempt, threshold 1 |
| `skills` | what do dying and overlapping requests leave behind? | 2 requests at a time, 4 in all, 2 proposals, 2 files, 1 crash |
| `wiki` | do files, tables and the Error Book stay consistent, and does repair converge? | 2 notes, 2 names, 1 compile beside 1 repair or apply, 2 edits, proposals, manual repairs, overlaps or crashes; 5 errors read by a repair, 4 by the check |
| `memory` | do table and file mirror each other, and what do overlaps and crashes break? | 3 memories, 2 requests, 1 proposal, 4 operations, 1 trouble |
| `a2a` | does the row agree with the remote agent, and which requests may never end? | 1 task, 2 remote tasks, 2 requests, 2 attempts, 2 troubles, 1 change of the connection, `FairSpec` |
| `mcp` | what do the row and the registry show, and what may a call do? | 2 refreshes and 1 call at a time, 2 configurations, 2 changes, 2 troubles |
| `gateway` | what is handled twice, overwritten or blocked for ever? | 2 webhooks, 2 requests, limit 1, cache of 1, 3 deliveries, 1 trouble, 1 upsert, 3 ticks, clocks on time or 1 tick ahead |

Bounds.  In `job_single_scheduler`, two attempts and two dispatch attempts are the smallest
numbers with a first, a last and an exceeded one, and `AttemptBound` is above them so that the
model, not the bound, decides.  `job_race` has one dispatch attempt, so that a single failed
send dead-letters a row while others race; its `AttemptBound` cuts executions after the second.  A cancel and a crash do not come in one
behaviour of it (`TroubleBound`).  Two copies of a message are what two dispatchers can
produce of one row.  Two approvals of a two-round turn give an interruption
nested in the same round or one in the next, and two requests resume one approval at once.  Requests stop coming after
`TurnBound` and `DecisionBound`, so the agent run does not check for deadlock; the
job runs and the wiki run do.  Symmetry is used for interchangeable ids only and in no run with a
temporal property.

`job_stranded` shows a disagreement with the comment "The outbox row remains
pending and can be replayed by scheduler/worker": after a duplicate dispatch, a late
`mark_retrying` sets `next_retry_at` on a job that a tick has just put back in the queue
(`mark_enqueued` does not clear it).  The retry message is then skipped, its row is
already dispatched, and `ready_for_retry` only looks at jobs in `retrying`.

`circuit_refused` disagrees with the test that expects `CircuitOpenError`: line 60 of
`infra/resilience.py` formats `opened_until` after events were emitted, and a call of another
thread that succeeds in between has set it to None, so `AttributeError` is raised.

Bounds of these runs.  Three threads are one that probes, one that fails late and
one that succeeds late; more threads add no new pair of steps, and the theorems of
section 4 hold for any number.  Two files are the one that must exist and one that may
not; four requests are an apply that dies, its repetition, another apply and a
rollback.  Once two requests have overlapped (`issued.overlap`), `AppliedOnItsBase` and
`IndexMirrors` do not hold and are not claimed: both may pass the comparison of checksums
before either writes.  A rollback leaves the files that the proposal had added; `OnlyCheckedContent`
shows that they were checked.  The skill run stops after `OpBound` requests and does not check for deadlock.

`wiki`: two names for two notes are enough for a clash of keys, an alias that takes
another page's name and a dangling link; two operations are an overlap and what goes before it, or an edit between
two others; a repair that reads 5 errors and a check that reads 4 meet fewer errors than that and more.  `memory`: three memories are a chain of two
replacements, and a limit of one candidate leaves a contradiction out.  One trouble is an overlap, a crash or a failed write; the properties
say which of them they except.  `a2a`: two remote tasks are an accepted message
whose answer was lost and its repetition.  `mcp`: one tool that is a read in one configuration
and a write in the other; the registry with its tools is replaced as a whole, so
a second tool adds nothing.  `gateway`: a limit and a cache of one fill up
with two webhooks; ticks 0 to 3 are two windows of two ticks, and `Skew` 1
lets a timestamp go out of date.  Without a Redis client the counter in memory admits a request in the last tick of a
window and one in the first tick of the next: twice the limit in the length of a window, so the bound of
`BurstBounded` is reached.  A window of Redis begins with its first request, and only a limit of two or more lets a burst straddle two of
them; that case is the theorem's, `BurstBoundedHolds`.  These runs, except `wiki`, stop when their bounds are spent and
do not check for deadlock.

Fairness (`circuit`).  A thread inside `call` goes on, because the upstream call has a
timeout and the sleep an end, and the clock passes `opened_until`.  Nothing forces
new calls: `Recovers` assumes that they keep coming and that the upstream stays up.

Fairness (`a2a`).  A request goes on: the HTTP client has timeouts, retries are
bounded and a row lock ends with its holder's transaction.  Reading a stream is excepted, because its timeout is one per
read: an agent that keeps sending keeps the delegation (`OnlyStreamsHang` says that nothing else does).  The remote agent owes
nothing, and new requests need not come.  The body of a plain answer, once it arrives, is taken to end.

Fairness (`job_single_scheduler`).  `CronScheduler._run` polls for ever, hence weak fairness of
a scheduler's steps; Celery gives waiting messages to free slots and a task function
returns or raises, hence of a worker's steps; instants pass, hence of the clock.  The broker may refuse
messages as often as it likes: the outbox gives up after `MaxDispatch` attempts
and the job is then dead-lettered.  A worker may die: `AcceptedJobsFinish` says that all jobs
finish except one per worker that died, because a job whose worker died stays `running` for ever:
nothing in the code collects it.

Types.  Every module states the types of its variables as `TypeOK` (`CBTypeOK` in `Resilience`).  It is proved for every
module (section 4).  Only the runs of `JobQueue` and `Resilience` check it as well; the
others are spent on what the code could get wrong.

## 4. Proofs

Every theorem holds for every value of the constants that the assumptions of its
module allow: any number of requests, processes, workers, rows and files, and any bounds.  The
assumptions say that limits are naturals (positive where the code needs one attempt or one
entry), that None is none of the values it stands beside, and what is listed with each module.
The shape is the same everywhere: an inductive invariant `IInv` that contains `TypeOK`, one lemma
per action (or per action and conjunct), the invariance, then what it implies.  The
inductive invariants were checked with TLC on the instances of section 3 before they were proved.

### JobQueueProofs

For every deployment (`JobQueueAssumption`, `NoneAssumption`):

- `TypeCorrect`: `TypeOK` is an invariant;
- `OneJobPerKeyHolds`: one job per key, created together with its record and row;
- `DispatchedWasSentHolds`: a row marked dispatched reached the broker;
- `OutcomeRecordedHolds`: a finished job has a completed record, and no success is reported without an execution,
  however many sessions that mark outcomes overlap.

`TypeOK` is not inductive: a commit writes `outbox[r].job`, a worker writes
`job[worker[w].job]`, and both need the rows to exist.  `Linked` says so: every
outbox row's job exists and carries its key, a row still to be dispatched has
attempts left, every message in the broker and every row in an open batch exists in
the outbox (with the values loaded still possible), and every job to be retried, to
be cancelled or held by a worker exists.  `IInv` = `TypeOK` and `Linked` is proved
action by action, with the lemma that no step deletes a row or changes a job's key; the
other three theorems add one conjunct each (`Created`, `SentInv`, `OutcomeInv`).
`SentInv` adds that the verdict "ok" of an open transaction implies the row was sent;
`OutcomeInv` that a worker in `committed` has its effect counted, and that a record which an open session has read as completed
is still completed (`ReadCompleted`): what the session leaves out of its UPDATE it need not write.

While no worker dies (`WorkerCrashBound = 0`, any number of dispatchers and of their crashes):

- `FirstDispatchSurvivesHolds`: a job that never started is still on its way.

`StartInv` says that a run once counted stays counted, however stale the values a transaction
writes back; `CarriedInv` that a row that was sent has its message in the broker, revoked or in a
worker's hands as long as its job has not started, and that the job of a row that was given up is no
longer waiting.  The hypothesis is what the code needs: a worker that dies between taking the
message and `mark_started` loses it.

With one dispatcher whose transactions commit (`OneDispatcher(s)`: no API requests,
scheduler s alone, `CrashBound = 0`; the deployment of run `job_single_scheduler`; workers may die):

- `ExclusiveExecutionHolds`: two workers never execute the same job;
- `EffectOnceHolds`: the function of a job commits at most once;
- `OutcomesAgreeHolds`: job and idempotency record report the same outcome;
- `LifecycleRefined`: the tables implement `JobLifecycle`.

`SoleInv` is the argument: the outbox rows of earlier runs are spent, the row of the next run is unsent
or its one message is in the broker, and both only while the job is queued and nobody works on it; a
worker agrees with its job; what the dispatcher has loaded is still current.  The refinement
is a step simulation: the same lemmas show for every action that each job makes one of the moves of
`JobLifecycle` or rests (`AllLawful`), which is one step of the abstract specification.

### AgentTurnProofs

`AgentTypeCorrect`, `TranscriptCompleteHolds`, `EditsReachTheModelHolds`, `RoundsBoundedHolds`,
`GatedCallWasDecidedHolds`, from `AgentTurnAssumption` (at least one round and one call).

A turn stops in one request and goes on in another, so everything a property says of the
messages has to survive in the checkpoint.  `RowsGood` says what a checkpoint keeps: the finished
rounds with all their results, in order, and a position right before the call it is about;
`NewGood` the same of checkpoints not yet committed, and that two requests never create the same row;
`LoopGood` what a running loop has, including which arguments may still differ from what the messages
show (`Underway`); `ViaGood` that a request with a decision acts on an existing row and on the very
call it describes.

### MemoryProofs

`MemoryTypeCorrect`, `ReplacedIsHiddenHolds`, `ConflictsNotedHolds`, `FileCompleteHolds`,
`MirrorWhenCalmHolds`, and the action property `RowsStayHolds` (no step removes a row or the mark that it was
replaced), from `FirstLineAssumption` (a first line is its own first line), `MemoryAssumption`
(people edit lines into lines, bounds are naturals) and `NoneAssumption`.

The properties are about tables and file, the invariant mostly about the sessions between them.
`Shapes` says what each operation makes of the rows it loaded.  `Linked` says that those rows are still there
and that what a session loaded as hidden is still hidden, or was brought back (`Gone`): without it a
commit that sends no flag could leave a replaced memory in sight.  `Apart` keeps new ids apart.
These hold however sessions overlap, and are all that `ReplacedIsHidden` and `RowsStay` need.

`Current` says that a session nobody overlapped is the only one and that the rows are what it loaded, so
that its commit writes exactly its view.  On it rest the other three: `Noted` (a creation past its flush has noted
what it contradicts among the rows it was compared with), `EntriesKept` (a new memory has its entry, or appends it next), `TextsCounted` (one
text for an applied proposal or one whose text is written, and at most one for every trouble: a
request that dies after its write turns the one into the other; texts in the file when it was overwritten or emptied do not count), and `Mirrored` (an entry shows its row, or
the row to come, or a rewrite of it is ahead; a sync under way will overwrite every row that has an entry).
A request starts in one of twelve ways; `GoodStart` is what they have in common, so that the invariant is
shown once for all of them, alone (`StartAlone`) or overlapping (`StartOverlapped`).

### SkillEvolutionProofs

`SkillTypeCorrect` and `OnlyCheckedContentHolds` for all interleavings, `AppliedOnItsBaseHolds` and
`IndexMirrorsHolds`, whose properties except overlapping requests; from `SkillEvolutionAssumption`
(finitely many files, one of them `SKILL.md`).

`HistoryGood` gives the rollback a latest entry to return to; `RequestsGood` says that whatever a
request has read or will write was checked.  Without overlap (`Alone`), `AppliedGood` says that the history has one
application of an applied proposal, on its base, and `ApplyingGood` how far the files of an open
application have come: the files not yet written are still those of the base.  `MirrorGood` says that
the mirror is that of one scan, unless a request is between its first write and its commit or died there.

### WikiProofs

`WikiTypeCorrect`, `ReferencesHoldHolds`, `SufficientIsBackedHolds`, `TwoPassesConvergeHolds`, from `RankOrders` (file names are ordered) and `WikiAssumption` (finitely many notes and
names, which are not the names of control files; ordinary notes declare ordinary names).

`Good` holds of the committed tables unless they are `mixed`, and of those of a session that was alone since its
compile: a resolved link joins two rows, an unresolved one has its open error, every page has its source.  `TablesInv` says
where: a session that another compile overtook owes nothing, and what it commits is mixed.  A compile whose files have
no error makes any tables good, mixed ones too, and one with errors keeps good tables good, because it keeps the rows.
`ReferencesHold` and `SufficientIsBacked` follow for any number of sessions, one after another or overlapping, and for
any `ErrorLimit`.  `PassGood` says of a repair that every error still to be handled is one it can handle, and,
when it is a safe pass that read every open error, what it owes (`PassOf`): the control files missing at its start come back,
and if none was missing, the index lists every page at its end.  The second pass starts where none is
missing, which is why two are enough.  `LastExists` shows that the compiler's choice of the last
of several pages of one key is defined, by the least-number principle on the ranks.

### A2ATaskProofs

`A2ATypeCorrect`, `LogIsExactHolds`, `AgreesWithAgentHolds`, `OrphansHaveACauseHolds`, from
`A2AAssumption` (finitely many remote tasks and requests, at least one attempt).

`TasksGood` and `RequestsGood` say of the rows, and of every request under way, that logs are
numbered and that a final status comes with the remote task that has it; `RequestsApart` that two
requests never hold the same new task and that two cancels never hold the same event number (the
row lock); `UsedGood` that no id is given out twice.  `Budget` is the account behind
`OrphansHaveACause`: the remote tasks nobody knows of, plus the delegations that have had their trouble
but may still leave a stream behind, are at most the troubles so far.

### McpRegistryProofs

`McpTypeCorrect`, `ConnectedWasTriedHolds`, `OneSnapshotHolds`, `HandSetKeptHolds`,
`CallsFollowTheRowHolds`, from `McpAssumption` (at least one attempt).

`Linked` says that a refresh which was not overtaken agrees with the row it loaded and that nothing is
offered before there is a row; `InstallAlone` that one refresh of the web process is inside
`install_into_registry` and found the registry empty; `HandIsManual` that what was set by hand is marked
`manual`, which is what the seed looks at; `CallInStep` that a call is repeated only if the row it
loaded says the tool reads.

The module also extends `Resilience`, the breaker that guards the calls; `Resilience` marks its
specification with `CB` so that the two can be read together.  From `ResilienceAssumption` (attempts
and threshold are positive):

- `CircuitTypeCorrect`: `CBTypeOK`, with it that no call makes more than `Attempts` attempts;
- `TripIsEarnedHolds`: the circuit opens only after a row of failed calls;
- `ThresholdTripsHolds`: at its threshold it is not closed with nobody on the way;
- `WindowHoldsAlways`, an action property: while the window lasts no further call gets through, and only the
  success of one that was let in before closes the circuit.

`BreakerInv` adds to `CBTypeOK` that `failures` and the history `inRow` agree (`CountIsExact`), that an open
circuit or a thread about to trip has been earned (`DebtKept`), that a circuit at its threshold with a
closed window has a thread in a call (`Probed`), and that a thread asleep has attempts left
(`AttemptsLeft`), without which `Wake` would break the type.

### GatewayProofs

`GatewayTypeCorrect`, `HandledOnceHolds`, `ConfigKeptHolds`, `BurstBoundedHolds`, `CounterExpiresHolds`,
from `GatewayAssumption` (limit, window, cache and attempts are positive).

`Configured` says that a turn which holds an older configuration was under way at the last upsert.
`Remembered` says that a webhook that was handled and would still be accepted is in the cache of the row
and of every turn under way, or is excused.  `Limited` is the account behind `BurstBounded`: there is a
number d of ticks, at most a window, so that the last d ticks hold what the counter's present window has
admitted and the ticks before them what one earlier window has; neither is above the limit (`Split`).  For Redis the
request between INCR and EXPIRE is counted already (`Pending`), and only one can be there (`ExpireAlone`).

### Only model-checked

Liveness (`AcceptedJobsFinish`, `Recovers`, `OnlyStreamsHang`): fairness and ENABLED are out of the
prover's reach.  Every safety property of a passing run is a theorem.
The two runs that end in a violation show disagreements and have none.

## 5. Plan

The components with a protocol between requests, processes or services have their module
(section 6 says why the rest has none), and every safety property that a run checks is proved.
What could follow:

1. `Wiki`: two requests that write files at the same time, and the review proposals of a repair
   (wiki.py:1541), the one hazard without a property.
2. `Memory`: requests that overlap lose entries of `MEMORY.md`; what they can lose at most
   would be a theorem about one rewrite per session.

## 6. Not modelled

The front end, migrations, CLI and configuration have no protocol.  Search ranking
(wiki, memory full text), prompt assembly and evaluation are data processing without
shared state.  Dream review and heartbeat are functions a job runs: they read, and create
pending proposals or messages; `JobQueue` has them as the function of a worker.  The conversation log
is appended in the turn's transaction and its summary is recomputed from it.  The computation of cron windows and the backoff read
the clock and write one row; the windows that are due are chosen freely in `JobQueue`.  Two requests that write wiki files at
the same time, review proposals of the wiki's repair, the gateway's heartbeat endpoint and probes of memory are left out as said in section 2.  Health, metrics and tracing only observe.  `security.py` and the token
checks are one comparison per request.  `queue_eager` mode turns the queue into a
function call.
