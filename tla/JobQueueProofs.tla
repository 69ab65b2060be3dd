--------------------------- MODULE JobQueueProofs ---------------------------
(***************************************************************************)
(* Safety of JobQueue for any number of jobs, keys, requests, schedulers   *)
(* and workers, with crashes and cancels.                                  *)
(***************************************************************************)
EXTENDS JobQueue, TLAPS

\* Every outbox row belongs to an existing job with the row's key.
RowsLinked ==
    \A r \in Rows : outbox[r] # None =>
        /\ job[outbox[r].job] # None
        /\ job[outbox[r].job].key = r[1]

\* A row still to be dispatched has attempts left.
RowsHaveAttempts ==
    \A r \in Rows : outbox[r] # None /\ outbox[r].status \in {"pending", "retrying"}
                      => outbox[r].attempts < MaxDispatch

\* Messages come from rows that exist.
BrokerLinked == \A r \in Rows : broker[r] > 0 => outbox[r] # None

\* What a transaction has loaded is still there.
BatchLinked ==
    \A p \in Procs, r \in Rows : proc[p].batch[r] # "skip" =>
        /\ outbox[r] # None
        /\ proc[p].seen[r] # None
        /\ proc[p].seen[r].job = outbox[r].job
        /\ proc[p].seen[r].status \in {"pending", "retrying"}
        /\ proc[p].seen[r].attempts < MaxDispatch
RetryLinked == \A p \in Procs : \A x \in proc[p].retry : job[x[1]] # None
ReadLinked == \A p \in Procs, j \in Jobs : proc[p].read[j] # None => job[j] # None
TargetLinked ==
    \A p \in Procs : proc[p].pc = "cancel" =>
        proc[p].target \in Jobs /\ job[proc[p].target] # None
WorkersLinked ==
    \A w \in Workers : worker[w].pc # "idle" =>
        worker[w].job \in Jobs /\ job[worker[w].job] # None

Linked == /\ RowsLinked /\ RowsHaveAttempts /\ BrokerLinked /\ BatchLinked
          /\ RetryLinked /\ ReadLinked /\ TargetLinked /\ WorkersLinked

IInv == TypeOK /\ Linked

\* What every step does to the two tables: nothing is deleted, a job keeps its
\* key and a row keeps its job.
JobsKept == \A j \in Jobs : job[j] # None => job'[j] # None /\ job'[j].key = job[j].key
RowsKept == \A r \in Rows : outbox[r] # None =>
                outbox'[r] # None /\ outbox'[r].job = outbox[r].job

----------------------------------------------------------------------------
(* Updates of the tables and of the processes' private state.              *)

\* Writing a well-formed record with the old key over a job keeps the table.
LEMMA JobUpdate ==
  ASSUME TypeOK, NEW i \in Jobs, NEW rec \in JobRecord, job[i] # None,
         rec.key = job[i].key, job' = [job EXCEPT ![i] = rec]
  PROVE  /\ job' \in [Jobs -> JobRecord \cup {None}] /\ JobsKept
         /\ \A j \in Jobs : job[j] = None => job'[j] = None
  BY NoneAssumption DEF TypeOK, JobsKept

\* One transaction changes, the others stay.
LEMMA TxUpdate ==
  ASSUME TypeOK, NEW p \in Procs, NEW tx \in TxType, proc' = [proc EXCEPT ![p] = tx]
  PROVE  /\ proc' \in [Procs -> TxType]
         /\ proc'[p] = tx
         /\ \A q \in Procs : q # p => proc'[q] = proc[q]
  BY DEF TypeOK

\* A process without transaction.
LEMMA IdleTxType == IdleTx \in TxType
  BY DEF IdleTx, Tx, TxType, Pcs, Verdicts, NoBatch, NoneRead, NoneSeen

\* One worker changes, the others stay.
LEMMA WorkerUpdate ==
  ASSUME TypeOK, NEW w \in Workers, NEW wk \in WorkerType,
         worker' = [worker EXCEPT ![w] = wk]
  PROVE  /\ worker' \in [Workers -> WorkerType]
         /\ worker'[w] = wk
         /\ \A v \in Workers : v # w => worker'[v] = worker[v]
  BY DEF TypeOK

\* A worker without message.
LEMMA IdleWorkerType == IdleWorker \in WorkerType
  BY JobQueueAssumption DEF IdleWorker, WorkerType, WorkerPcs

\* A job as a mark_ session leaves it: a column keeps its value or gets the new
\* one, and the status is the new one unless that is what the session loaded.
LEMMA FinishType ==
  ASSUME NEW rec \in JobRecord, NEW read, NEW st \in JobStatuses
  PROVE  /\ Finish(rec, read, st) \in JobRecord /\ Finish(rec, read, st) # None
         /\ Finish(rec, read, st).key = rec.key
         /\ Finish(rec, read, st).attempts = rec.attempts
         /\ Finish(rec, read, st).status \in {st, rec.status}
         /\ read.status # st => Finish(rec, read, st).status = st
         /\ Finish(rec, read, st).retry_at \in {"null", rec.retry_at}
  <1> DEFINE a == Written(st, read.status, rec.status)
             b == Written("null", read.retry_at, rec.retry_at)
  <1>1. a \in {st, rec.status} /\ (read.status # st => a = st) /\ b \in {"null", rec.retry_at}
    BY DEF Written
  <1>2. Finish(rec, read, st) = [rec EXCEPT !.status = a, !.retry_at = b]
    BY DEF Finish
  <1> HIDE DEF a, b
  <1>3. Finish(rec, read, st) \in JobRecord
    BY <1>1, <1>2 DEF JobRecord, RetryTimes
  <1> QED BY <1>1, <1>2, <1>3, NoneAssumption DEF JobRecord

\* What a session loads of a job that is there.
LEMMA ReadJobType ==
  ASSUME IInv, NEW j \in Jobs, job[j] # None
  PROVE  /\ ReadJob(j) \in Reading /\ ReadJob(j) # None
         /\ ReadJob(j).status = job[j].status /\ ReadJob(j).record = None
  <1>1. job[j] \in JobRecord
    BY DEF IInv, TypeOK
  <1> QED BY <1>1, NoneAssumption DEF ReadJob, Reading, JobRecord

\* Links survive when rows are unchanged and jobs are kept.
LEMMA KeptLinks ==
  ASSUME IInv, JobsKept, UNCHANGED <<outbox, broker, proc>>
  PROVE  /\ RowsLinked' /\ RowsHaveAttempts' /\ BrokerLinked' /\ BatchLinked'
         /\ RetryLinked' /\ ReadLinked' /\ TargetLinked'
  <1>1. RowsLinked' /\ RowsHaveAttempts' /\ BrokerLinked' /\ BatchLinked'
    BY DEF IInv, TypeOK, Linked, JobsKept, RowsLinked, RowsHaveAttempts, BrokerLinked,
           BatchLinked, RowRecord
  <1>2. RetryLinked' /\ ReadLinked' /\ TargetLinked'
    BY DEF IInv, TypeOK, Linked, JobsKept, RetryLinked, ReadLinked, TargetLinked, TxType
  <1> QED BY <1>1, <1>2

\* Links survive when one process changes its private state to one that is
\* itself linked.
LEMMA ProcLinks ==
  ASSUME IInv, NEW p \in Procs, NEW tx \in TxType, proc' = [proc EXCEPT ![p] = tx],
         UNCHANGED <<job, outbox, worker>>, BrokerLinked',
         \A r \in Rows : tx.batch[r] # "skip" =>
            /\ outbox[r] # None
            /\ tx.seen[r] # None
            /\ tx.seen[r].job = outbox[r].job
            /\ tx.seen[r].status \in {"pending", "retrying"}
            /\ tx.seen[r].attempts < MaxDispatch,
         \A x \in tx.retry : job[x[1]] # None,
         \A j \in Jobs : tx.read[j] # None => job[j] # None,
         tx.pc = "cancel" => tx.target \in Jobs /\ job[tx.target] # None
  PROVE  Linked'
  <1>1. /\ proc'[p] = tx
        /\ \A q \in Procs : q # p => proc'[q] = proc[q]
    BY TxUpdate DEF IInv
  <1>2. RowsLinked' /\ RowsHaveAttempts' /\ WorkersLinked'
    BY DEF IInv, Linked, RowsLinked, RowsHaveAttempts, WorkersLinked
  <1>3. BatchLinked'
    BY <1>1 DEF IInv, Linked, BatchLinked
  <1>4. RetryLinked' /\ ReadLinked' /\ TargetLinked'
    BY <1>1 DEF IInv, Linked, RetryLinked, ReadLinked, TargetLinked
  <1> QED BY <1>2, <1>3, <1>4 DEF Linked

\* Back to idle: commit, rollback and crash all end this way.
LEMMA IdleLinks ==
  ASSUME IInv, NEW p \in Procs, proc' = [proc EXCEPT ![p] = IdleTx],
         UNCHANGED <<job, idem, outbox, broker, revoked, worker, sent, effects, cancels>>,
         crashes' \in [procs: 0 .. CrashBound, workers: 0 .. WorkerCrashBound]
  PROVE  IInv'
  <1>1. proc' \in [Procs -> TxType]
    BY TxUpdate, IdleTxType DEF IInv
  <1>2. TypeOK'
    BY <1>1 DEF IInv, TypeOK
  <1>3. /\ \A r \in Rows : IdleTx.batch[r] = "skip"
        /\ IdleTx.retry = {}
        /\ \A j \in Jobs : IdleTx.read[j] = None
        /\ IdleTx.pc # "cancel"
    BY DEF IdleTx, Tx, NoBatch, NoneRead
  <1>4. BrokerLinked'
    BY DEF IInv, Linked, BrokerLinked
  <1>5. Linked'
    BY <1>3, <1>4, ProcLinks, IdleTxType
  <1> QED BY <1>2, <1>5 DEF IInv

----------------------------------------------------------------------------
\* The invariant holds initially.
LEMMA InitIInv == Init => IInv
  BY JobQueueAssumption, NoneAssumption
  DEF Init, IInv, TypeOK, Linked, RowsLinked, RowsHaveAttempts, BrokerLinked, BatchLinked,
      RetryLinked, ReadLinked, TargetLinked, WorkersLinked, IdleTx, Tx, NoBatch, NoneRead, NoneSeen, IdleWorker,
      TxType, WorkerType, Pcs, WorkerPcs, Verdicts, IdemStatuses

\* A rollback or the death of a process keeps the invariant: nothing was
\* written.
LEMMA RollbackStep ==
  ASSUME IInv, NEW p \in Procs,
         EnqueueRollback(p) \/ TickAbort(p) \/ ProcCrash(p)
  PROVE  IInv'
  <1>1. crashes' \in [procs: 0 .. CrashBound, workers: 0 .. WorkerCrashBound]
    BY JobQueueAssumption DEF IInv, TypeOK, EnqueueRollback, TickAbort, ProcCrash
  <1> QED BY <1>1, IdleLinks DEF EnqueueRollback, TickAbort, ProcCrash

\* Loading the due rows.
LEMMA SelectStep ==
  ASSUME IInv, NEW p \in Procs, HookSelect(p) \/ TickSelect(p)
  PROVE  IInv'
  <1> DEFINE tx(pc) == [proc[p] EXCEPT !.pc = pc,
                   !.batch = [r \in Rows |-> IF Due(r) THEN "todo" ELSE "skip"],
                   !.seen = [r \in Rows |-> IF Due(r) THEN outbox[r] ELSE None]]
  <1>1. PICK pc \in {"hookSend", "tickSend"} : proc' = [proc EXCEPT ![p] = tx(pc)]
    BY DEF HookSelect, TickSelect, Select
  <1>2. UNCHANGED <<job, idem, outbox, broker, revoked, worker, sent, effects, crashes, cancels>>
    BY DEF HookSelect, TickSelect
  <1>3. proc[p] \in TxType
    BY DEF IInv, TypeOK
  <1>4. tx(pc) \in TxType
    BY <1>3 DEF TxType, Pcs, Verdicts, IInv, TypeOK
  <1>5. /\ tx(pc).pc = pc
        /\ tx(pc).retry = proc[p].retry /\ tx(pc).read = proc[p].read
        /\ \A r \in Rows : tx(pc).batch[r] # "skip" => Due(r) /\ tx(pc).seen[r] = outbox[r]
    BY <1>3 DEF TxType
  <1>6. TypeOK'
    BY <1>1, <1>2, <1>4, TxUpdate DEF IInv, TypeOK
  <1>7. \A r \in Rows : tx(pc).batch[r] # "skip" =>
            /\ outbox[r] # None
            /\ tx(pc).seen[r] # None
            /\ tx(pc).seen[r].job = outbox[r].job
            /\ tx(pc).seen[r].status \in {"pending", "retrying"}
            /\ tx(pc).seen[r].attempts < MaxDispatch
    BY <1>5 DEF IInv, Linked, RowsHaveAttempts, Due
  <1>8. /\ \A x \in tx(pc).retry : job[x[1]] # None
        /\ \A j \in Jobs : tx(pc).read[j] # None => job[j] # None
    BY <1>5 DEF IInv, Linked, RetryLinked, ReadLinked
  <1>9. BrokerLinked'
    BY <1>2 DEF IInv, Linked, BrokerLinked
  <1> HIDE DEF tx
  <1>10. Linked'
    BY <1>1, <1>2, <1>4, <1>5, <1>7, <1>8, <1>9, ProcLinks
  <1> QED BY <1>6, <1>10 DEF IInv

\* A session that gives up on a row has loaded its job.
LEMMA ReadsAfterType ==
  ASSUME IInv, NEW p \in Procs, NEW r \in Rows, proc[p].batch[r] = "todo"
  PROVE  /\ proc[p].seen[r].job \in Jobs /\ proc[p].seen[r].job = outbox[r].job
         /\ outbox[r] # None
         /\ ReadsAfter(p, r) \in [Jobs -> Reading \cup {None}]
         /\ \A j \in Jobs : \/ ReadsAfter(p, r)[j] = proc[p].read[j]
                            \/ /\ ReadsAfter(p, r)[j] = ReadJob(j) /\ job[j] # None
                               /\ j = proc[p].seen[r].job
                               /\ FailStatus(p, r) = "dead_letter" /\ proc[p].read[j] = None
         /\ FailStatus(p, r) = "dead_letter" => ReadsAfter(p, r)[proc[p].seen[r].job] # None
  <1> DEFINE i == proc[p].seen[r].job
  <1>1. outbox[r] # None /\ i = outbox[r].job /\ proc[p].read \in [Jobs -> Reading \cup {None}]
    BY DEF IInv, TypeOK, TxType, Linked, BatchLinked
  <1>2. i \in Jobs /\ job[i] # None
    BY <1>1 DEF IInv, TypeOK, Linked, RowsLinked, RowRecord
  <1>3. ReadJob(i) \in Reading /\ ReadJob(i) # None
    BY <1>2, ReadJobType
  <1>4. ReadsAfter(p, r) = IF FailStatus(p, r) = "dead_letter" /\ proc[p].read[i] = None
                             THEN [proc[p].read EXCEPT ![i] = ReadJob(i)] ELSE proc[p].read
    BY DEF ReadsAfter
  <1> HIDE DEF i
  <1>5. /\ ReadsAfter(p, r) \in [Jobs -> Reading \cup {None}]
        /\ \A j \in Jobs : \/ ReadsAfter(p, r)[j] = proc[p].read[j]
                           \/ /\ ReadsAfter(p, r)[j] = ReadJob(j) /\ job[j] # None
                              /\ j = i
                              /\ FailStatus(p, r) = "dead_letter" /\ proc[p].read[j] = None
        /\ FailStatus(p, r) = "dead_letter" => ReadsAfter(p, r)[i] # None
    BY <1>1, <1>2, <1>3, <1>4
  <1> QED BY <1>1, <1>2, <1>5 DEF i

\* One row handed to the broker, or refused by it.
LEMMA SendStep ==
  ASSUME IInv, NEW p \in Procs, NEW r \in Rows, SendOk(p, r) \/ SendFail(p, r)
  PROVE  IInv'
  <1> DEFINE tx(v, rd) == [proc[p] EXCEPT !.batch[r] = v, !.read = rd]
  <1>2. UNCHANGED <<job, idem, outbox, revoked, worker, effects, crashes, cancels>>
    BY DEF SendOk, SendFail
  <1>3. proc[p] \in TxType /\ proc[p].batch[r] = "todo" /\ Sending(p)
    BY DEF IInv, TypeOK, SendOk, SendFail
  <1>a. /\ proc[p].read \in [Jobs -> Reading \cup {None}]
        /\ \A j \in Jobs : proc[p].read[j] # None => job[j] # None
    BY <1>3, SMTT(30) DEF TxType, IInv, Linked, ReadLinked
  <1>1. PICK v \in {"ok", "fail"}, rd \in [Jobs -> Reading \cup {None}] :
            /\ proc' = [proc EXCEPT ![p] = tx(v, rd)]
            /\ \A j \in Jobs : rd[j] # None => job[j] # None
    <2>1. CASE SendOk(p, r)
      <3>1. tx("ok", proc[p].read) = [proc[p] EXCEPT !.batch[r] = "ok"]
        BY <1>3 DEF TxType
      <3> QED BY <1>a, <2>1, <3>1 DEF SendOk
    <2>2. CASE SendFail(p, r)
      <3>1. proc' = [proc EXCEPT ![p] = tx("fail", ReadsAfter(p, r))]
        BY <2>2 DEF SendFail, IInv, TypeOK
      <3>2. /\ ReadsAfter(p, r) \in [Jobs -> Reading \cup {None}]
            /\ \A j \in Jobs : ReadsAfter(p, r)[j] # None => job[j] # None
        BY <1>3, <1>a, ReadsAfterType
      <3> QED BY <3>1, <3>2
    <2> QED BY <2>1, <2>2
  <1>4. tx(v, rd) \in TxType
    BY <1>3 DEF TxType, Verdicts
  <1>5. /\ tx(v, rd).pc = proc[p].pc
        /\ tx(v, rd).retry = proc[p].retry /\ tx(v, rd).read = rd
        /\ tx(v, rd).seen = proc[p].seen
        /\ \A q \in Rows : tx(v, rd).batch[q] # "skip" => proc[p].batch[q] # "skip"
    BY <1>3 DEF TxType
  <1>6. broker' \in [Rows -> 0 .. CopyBound] /\ sent' \subseteq Rows
    BY JobQueueAssumption DEF IInv, TypeOK, SendOk, SendFail
  <1>7. TypeOK'
    BY <1>1, <1>2, <1>4, <1>6, TxUpdate DEF IInv, TypeOK
  <1>8. \A q \in Rows : tx(v, rd).batch[q] # "skip" =>
            /\ outbox[q] # None
            /\ tx(v, rd).seen[q] # None
            /\ tx(v, rd).seen[q].job = outbox[q].job
            /\ tx(v, rd).seen[q].status \in {"pending", "retrying"}
            /\ tx(v, rd).seen[q].attempts < MaxDispatch
    BY <1>5 DEF IInv, Linked, BatchLinked
  <1>9. /\ \A x \in tx(v, rd).retry : job[x[1]] # None
        /\ \A j \in Jobs : tx(v, rd).read[j] # None => job[j] # None
    BY <1>1, <1>5 DEF IInv, Linked, RetryLinked
  <1>10. BrokerLinked'
    <2>1. outbox[r] # None
      BY <1>3 DEF IInv, Linked, BatchLinked
    <2>2. \A q \in Rows : q # r => broker'[q] = broker[q]
      BY DEF SendOk, SendFail, IInv, TypeOK
    <2> QED BY <1>2, <2>1, <2>2 DEF IInv, Linked, BrokerLinked
  <1> HIDE DEF tx
  <1>11. Linked'
    BY <1>1, <1>2, <1>3, <1>4, <1>5, <1>8, <1>9, <1>10, ProcLinks DEF Sending
  <1> QED BY <1>7, <1>11 DEF IInv

\* mark_dead_letter loads the record of a job it has loaded.
LEMMA DoomRecordTx ==
  ASSUME IInv, NEW p \in Procs, NEW i \in Jobs, DoomRecord(p, i)
  PROVE  \E rd \in Reading :
            /\ proc' = [proc EXCEPT ![p] = [proc[p] EXCEPT !.read[i] = rd]]
            /\ rd.status = proc[p].read[i].status /\ rd.record = idem[job[i].key]
            /\ [proc[p] EXCEPT !.read[i] = rd] \in TxType /\ job[i] # None
            /\ rd # None
  <1> DEFINE rd == [proc[p].read[i] EXCEPT !.record = idem[job[i].key]]
  <1>1. proc[p] \in TxType /\ proc[p].read[i] \in Reading
    BY DEF IInv, TypeOK, TxType, DoomRecord
  <1>2. job[i] # None /\ job[i] \in JobRecord
    BY DEF IInv, Linked, ReadLinked, DoomRecord, TypeOK
  <1>3. idem[job[i].key] \in IdemStatuses
    BY <1>2 DEF IInv, TypeOK, JobRecord
  <1>4. rd \in Reading /\ rd.status = proc[p].read[i].status /\ rd.record = idem[job[i].key]
    BY <1>1, <1>3 DEF Reading
  <1>5. proc' = [proc EXCEPT ![p] = [proc[p] EXCEPT !.read[i] = rd]]
    BY DEF DoomRecord, IInv, TypeOK
  <1> HIDE DEF rd
  <1>6. [proc[p] EXCEPT !.read[i] = rd] \in TxType
    BY <1>1, <1>4 DEF TxType
  <1> QED BY <1>2, <1>4, <1>5, <1>6, NoneAssumption

\* DoomRecord keeps the invariant.
LEMMA DoomRecordStep ==
  ASSUME IInv, NEW p \in Procs, NEW i \in Jobs, DoomRecord(p, i)
  PROVE  IInv'
  <1>1. PICK rd \in Reading :
            /\ proc' = [proc EXCEPT ![p] = [proc[p] EXCEPT !.read[i] = rd]]
            /\ [proc[p] EXCEPT !.read[i] = rd] \in TxType /\ job[i] # None
    BY DoomRecordTx
  <1> DEFINE tx == [proc[p] EXCEPT !.read[i] = rd]
  <1>2. UNCHANGED <<job, idem, outbox, broker, revoked, worker, sent, effects, crashes, cancels>>
    BY DEF DoomRecord
  <1>3. proc[p] \in TxType
    BY DEF IInv, TypeOK
  <1>4. /\ tx.pc = proc[p].pc /\ tx.target = proc[p].target /\ tx.batch = proc[p].batch
        /\ tx.seen = proc[p].seen /\ tx.retry = proc[p].retry
        /\ \A j \in Jobs : tx.read[j] # None => j = i \/ proc[p].read[j] # None
    BY <1>3 DEF TxType
  <1>5. tx \in TxType /\ proc' = [proc EXCEPT ![p] = tx]
    BY <1>1
  <1> HIDE DEF tx
  <1>6. TypeOK'
    BY <1>2, <1>5, TxUpdate DEF IInv, TypeOK
  <1>7. \A r \in Rows : tx.batch[r] # "skip" =>
            /\ outbox[r] # None
            /\ tx.seen[r] # None
            /\ tx.seen[r].job = outbox[r].job
            /\ tx.seen[r].status \in {"pending", "retrying"}
            /\ tx.seen[r].attempts < MaxDispatch
    BY <1>4 DEF IInv, Linked, BatchLinked
  <1>8. /\ \A x \in tx.retry : job[x[1]] # None
        /\ \A j \in Jobs : tx.read[j] # None => job[j] # None
    BY <1>1, <1>4 DEF IInv, Linked, RetryLinked, ReadLinked
  <1>9. tx.pc = "cancel" => tx.target \in Jobs /\ job[tx.target] # None
    BY <1>4 DEF IInv, Linked, TargetLinked
  <1>10. BrokerLinked'
    BY <1>2 DEF IInv, Linked, BrokerLinked
  <1>11. Linked'
    BY <1>2, <1>5, <1>7, <1>8, <1>9, <1>10, ProcLinks
  <1> QED BY <1>6, <1>11 DEF IInv

\* What a request or a tick collects before its commit.
LEMMA CollectStep ==
  ASSUME IInv, NEW p \in Procs,
         \/ \E k \in Keys : EnqueueBegin(p, k)
         \/ \E due \in SUBSET CronKeys : TickCollect(p, due)
         \/ \E j \in Jobs : CancelBegin(p, j)
  PROVE  IInv'
  <1>1. proc[p] \in TxType
    BY DEF TypeOK, IInv
  <1>2. UNCHANGED <<job, idem, outbox, broker, worker, sent, effects, crashes>>
    BY DEF EnqueueBegin, TickCollect, CancelBegin
  <1>3. revoked' \subseteq Rows /\ cancels' \in 0 .. CancelBound
    <2>1. \A j \in Jobs : job[j] # None => {job[j].queue} \ {None} \subseteq Rows
      BY DEF IInv, TypeOK, JobRecord
    <2>2. CASE \E j \in Jobs : CancelBegin(p, j)
      <3>1. PICK j \in Jobs : CancelBegin(p, j)
        BY <2>2
      <3>2. {job[j].queue} \ {None} \subseteq Rows
        BY <2>1, <3>1 DEF CancelBegin, Exists
      <3>3. revoked' \subseteq Rows
        BY <3>1, <3>2 DEF CancelBegin, IInv, TypeOK
      <3>4. cancels' \in 0 .. CancelBound
        <4>1. cancels \in 0 .. CancelBound /\ cancels < CancelBound /\ cancels' = cancels + 1
          BY <3>1 DEF CancelBegin, IInv, TypeOK
        <4> QED BY <4>1, JobQueueAssumption
      <3> QED BY <3>3, <3>4
    <2>3. CASE UNCHANGED <<revoked, cancels>>
      BY <2>3 DEF IInv, TypeOK
    <2> QED BY <2>2, <2>3 DEF EnqueueBegin, TickCollect
  <1>4. BrokerLinked'
    BY <1>2 DEF IInv, Linked, BrokerLinked
  <1> DEFINE Good(tx) == \A r \in Rows : tx.batch[r] # "skip" =>
                            /\ outbox[r] # None
                            /\ tx.seen[r] # None
                            /\ tx.seen[r].job = outbox[r].job
                            /\ tx.seen[r].status \in {"pending", "retrying"}
                            /\ tx.seen[r].attempts < MaxDispatch
  <1>g. \A tx \in TxType : tx.batch = proc[p].batch /\ tx.seen = proc[p].seen => Good(tx)
    BY DEF IInv, Linked, BatchLinked
  <1>r. /\ \A x \in proc[p].retry : job[x[1]] # None
        /\ \A j \in Jobs : proc[p].read[j] # None => job[j] # None
    BY DEF IInv, Linked, RetryLinked, ReadLinked
  <1>u. ASSUME NEW tx \in TxType, proc' = [proc EXCEPT ![p] = tx]
        PROVE  TypeOK'
    BY <1>2, <1>3, <1>u, TxUpdate DEF IInv, TypeOK
  <1>5. ASSUME NEW k \in Keys, EnqueueBegin(p, k)
        PROVE  IInv'
    <2> DEFINE tx == [proc[p] EXCEPT !.pc = "insert", !.want = {k}]
    <2>1. proc' = [proc EXCEPT ![p] = tx]
      BY <1>5 DEF EnqueueBegin
    <2>2. tx \in TxType
      BY <1>1 DEF TxType, Pcs
    <2>3. tx.batch = proc[p].batch /\ tx.seen = proc[p].seen /\ tx.retry = proc[p].retry
          /\ tx.read = proc[p].read /\ tx.pc = "insert"
      BY <1>1 DEF TxType
    <2> HIDE DEF tx
    <2>a. Good(tx) /\ \A x \in tx.retry : job[x[1]] # None
      BY <1>g, <1>r, <2>2, <2>3
    <2>4. Linked'
      BY <1>2, <1>4, <1>r, <2>a, <2>1, <2>2, <2>3, ProcLinks
    <2> QED BY <1>u, <2>1, <2>2, <2>4 DEF IInv
  <1>6. ASSUME NEW due \in SUBSET CronKeys, TickCollect(p, due)
        PROVE  IInv'
    <2> DEFINE load(j) == <<j, job[j].attempts, outbox[<<job[j].key, job[j].attempts>>] = None>>
               retry == {load(j) : j \in ReadyForRetry}
               want == {k \in due : idem[k] = "absent" /\ JobsWithKey(k) = {}}
               tx == [proc[p] EXCEPT !.pc = "insert", !.retry = retry, !.want = want]
    <2>1. proc' = [proc EXCEPT ![p] = tx]
      BY <1>6 DEF TickCollect
    <2>2. \A j \in ReadyForRetry : j \in Jobs /\ job[j] \in JobRecord /\ job[j] # None
      BY DEF ReadyForRetry, Exists, TypeOK, IInv
    <2>3. \A j \in ReadyForRetry : load(j) \in Jobs \X (0 .. AttemptBound) \X BOOLEAN
      BY <2>2 DEF JobRecord
    <2>4. retry \subseteq Jobs \X (0 .. AttemptBound) \X BOOLEAN
      BY <2>3
    <2>5. want \subseteq Keys
      BY JobQueueAssumption
    <2>6. ASSUME NEW x \in retry
          PROVE  job[x[1]] # None
      <3>1. PICK j \in ReadyForRetry : x = load(j)
        OBVIOUS
      <3>2. x[1] = j
        BY <3>1
      <3> QED BY <2>2, <3>2
    <2> HIDE DEF retry, want
    <2>7. tx \in TxType
      BY <1>1, <2>4, <2>5 DEF TxType, Pcs
    <2>8. tx.batch = proc[p].batch /\ tx.seen = proc[p].seen /\ tx.retry = retry
          /\ tx.read = proc[p].read /\ tx.pc = "insert"
      BY <1>1 DEF TxType
    <2> HIDE DEF tx
    <2>9. Linked'
      BY <1>2, <1>4, <1>g, <1>r, <2>1, <2>6, <2>7, <2>8, ProcLinks
    <2> QED BY <1>u, <2>1, <2>7, <2>9 DEF IInv
  <1>7. ASSUME NEW j \in Jobs, CancelBegin(p, j)
        PROVE  IInv'
    <2> DEFINE tx == [proc[p] EXCEPT !.pc = "cancel", !.target = j]
    <2>0. job[j] # None
      BY <1>7 DEF CancelBegin, Exists
    <2>1. proc' = [proc EXCEPT ![p] = tx]
      BY <1>7 DEF CancelBegin
    <2>2. tx \in TxType
      BY <1>1 DEF TxType, Pcs
    <2>3. tx.batch = proc[p].batch /\ tx.seen = proc[p].seen /\ tx.retry = proc[p].retry
          /\ tx.read = proc[p].read /\ tx.target = j
      BY <1>1 DEF TxType
    <2> HIDE DEF tx
    <2>a. Good(tx) /\ \A x \in tx.retry : job[x[1]] # None
      BY <1>g, <1>r, <2>2, <2>3
    <2>4. Linked'
      BY <1>2, <1>4, <1>r, <2>a, <2>0, <2>1, <2>2, <2>3, ProcLinks
    <2> QED BY <1>u, <2>1, <2>2, <2>4 DEF IInv
  <1> QED BY <1>5, <1>6, <1>7

\* A cancel changes a job that is there and keeps its key.
LEMMA CancelJob ==
  ASSUME IInv, NEW c \in Procs, CancelCommit(c)
  PROVE  /\ job' \in [Jobs -> JobRecord \cup {None}] /\ JobsKept
         /\ \A j \in Jobs : job[j] = None => job'[j] = None
  <1> DEFINE i == proc[c].target
             rec == [job[i] EXCEPT !.status = "cancelled"]
  <1>1. i \in Jobs /\ job[i] # None /\ job[i] \in JobRecord
    BY DEF IInv, Linked, TargetLinked, TypeOK, CancelCommit
  <1>2. rec \in JobRecord /\ rec.key = job[i].key
    BY <1>1 DEF JobRecord, JobStatuses, TERMINAL_JOB_STATUSES
  <1>3. job' = [job EXCEPT ![i] = rec]
    BY DEF CancelCommit
  <1> HIDE DEF rec
  <1> QED BY <1>1, <1>2, <1>3, JobUpdate DEF IInv

\* CancelCommit keeps the invariant.
LEMMA CancelCommitStep ==
  ASSUME IInv, NEW c \in Procs, CancelCommit(c)
  PROVE  IInv'
  <1>4. job' \in [Jobs -> JobRecord \cup {None}] /\ JobsKept
    BY CancelJob
  <1>5. /\ proc' \in [Procs -> TxType]
        /\ proc'[c] = IdleTx
        /\ \A q \in Procs : q # c => proc'[q] = proc[q]
    BY TxUpdate, IdleTxType DEF CancelCommit, IInv
  <1>6. TypeOK'
    BY <1>4, <1>5 DEF IInv, TypeOK, CancelCommit
  <1>7. UNCHANGED <<outbox, broker, worker>>
    BY DEF CancelCommit
  <1>8. /\ IdleTx.retry = {} /\ IdleTx.pc = "idle" /\ \A r \in Rows : IdleTx.batch[r] = "skip"
        /\ \A j \in Jobs : IdleTx.read[j] = None
    BY DEF IdleTx, Tx, NoBatch, NoneRead
  <1>9. RowsLinked' /\ WorkersLinked'
    BY <1>4, <1>7 DEF IInv, Linked, RowsLinked, WorkersLinked, JobsKept, TypeOK, RowRecord
  <1>10. RowsHaveAttempts' /\ BrokerLinked'
    BY <1>7 DEF IInv, Linked, RowsHaveAttempts, BrokerLinked
  <1>11. BatchLinked'
    BY <1>5, <1>7, <1>8 DEF IInv, Linked, BatchLinked
  <1>12. RetryLinked'
    <2>1. \A q \in Procs : \A x \in proc[q].retry : x[1] \in Jobs
      BY DEF IInv, TypeOK, TxType
    <2> QED BY <1>4, <1>5, <1>8, <2>1 DEF IInv, Linked, RetryLinked, JobsKept
  <1>13. TargetLinked' /\ ReadLinked'
    BY <1>4, <1>5, <1>8 DEF IInv, Linked, TargetLinked, ReadLinked, JobsKept
  <1> QED BY <1>6, <1>9, <1>10, <1>11, <1>12, <1>13 DEF IInv, Linked

----------------------------------------------------------------------------
(* Workers.                                                                *)

\* A worker's private step: the tables are as they were.
LEMMA WorkerLinks ==
  ASSUME IInv, NEW w \in Workers, NEW wk \in WorkerType,
         worker' = [worker EXCEPT ![w] = wk],
         wk.pc # "idle" => wk.job \in Jobs /\ job[wk.job] # None,
         UNCHANGED <<job, idem, outbox, revoked, proc, sent, cancels>>,
         broker' \in [Rows -> 0 .. CopyBound], BrokerLinked',
         effects' \in [Jobs -> 0 .. 2],
         crashes' \in [procs: 0 .. CrashBound, workers: 0 .. WorkerCrashBound]
  PROVE  IInv'
  <1>1. /\ worker' \in [Workers -> WorkerType]
        /\ worker'[w] = wk
        /\ \A v \in Workers : v # w => worker'[v] = worker[v]
    BY WorkerUpdate DEF IInv
  <1>2. TypeOK'
    BY <1>1 DEF IInv, TypeOK
  <1>3. WorkersLinked'
    BY <1>1 DEF IInv, Linked, WorkersLinked
  <1>4. Linked'
    BY <1>3 DEF IInv, Linked, RowsLinked, RowsHaveAttempts, BatchLinked, RetryLinked,
                ReadLinked, TargetLinked
  <1> QED BY <1>2, <1>4 DEF IInv

\* Receive keeps the invariant.
LEMMA ReceiveStep ==
  ASSUME IInv, NEW w \in Workers, NEW r \in Rows, Receive(w, r)
  PROVE  IInv'
  <1> DEFINE j == outbox[r].job
             loaded == [IdleWorker EXCEPT !.pc = "loaded", !.job = j, !.attempt = job[j].attempts + 1]
             wk == IF should_run(job[j]) THEN loaded ELSE IdleWorker
  <1>1. worker' = [worker EXCEPT ![w] = wk]
    BY DEF Receive
  <1>2. outbox[r] # None /\ outbox[r] \in RowRecord
    BY DEF Receive, IInv, Linked, BrokerLinked, TypeOK
  <1>3. j \in Jobs /\ job[j] # None /\ job[j] \in JobRecord
    BY <1>2 DEF IInv, Linked, RowsLinked, TypeOK, RowRecord
  <1>a. \A n \in 0 .. AttemptBound + 1, i \in Jobs :
           LET new == [IdleWorker EXCEPT !.pc = "loaded", !.job = i, !.attempt = n] IN
           new \in WorkerType /\ new.job = i
    BY IdleWorkerType DEF WorkerType, WorkerPcs
  <1>b. job[j].attempts + 1 \in 0 .. AttemptBound + 1
    BY <1>3, JobQueueAssumption DEF JobRecord
  <1>4. loaded \in WorkerType /\ loaded.job = j
    BY <1>3, <1>a, <1>b
  <1>5. wk \in WorkerType /\ (wk.pc # "idle" => wk.job \in Jobs /\ job[wk.job] # None)
    BY <1>3, <1>4, IdleWorkerType DEF IdleWorker
  <1>6. /\ broker' \in [Rows -> 0 .. CopyBound]
        /\ \A q \in Rows : broker'[q] > 0 => broker[q] > 0
    BY JobQueueAssumption DEF Receive, IInv, TypeOK
  <1>7. BrokerLinked'
    BY <1>6 DEF BrokerLinked, IInv, Linked, Receive
  <1> HIDE DEF wk
  <1> QED BY <1>1, <1>5, <1>6, <1>7, WorkerLinks DEF Receive, IInv, TypeOK

\* DropRevoked keeps the invariant.
LEMMA DropStep ==
  ASSUME IInv, NEW r \in Rows, DropRevoked(r)
  PROVE  IInv'
  <1>1. /\ broker' \in [Rows -> 0 .. CopyBound]
        /\ \A q \in Rows : broker'[q] > 0 => broker[q] > 0
    BY JobQueueAssumption DEF DropRevoked, IInv, TypeOK
  <1>2. TypeOK'
    BY <1>1 DEF DropRevoked, IInv, TypeOK
  <1>3. Linked'
    BY <1>1 DEF DropRevoked, IInv, Linked, RowsLinked, RowsHaveAttempts, BrokerLinked,
                BatchLinked, RetryLinked, ReadLinked, TargetLinked, WorkersLinked
  <1> QED BY <1>2, <1>3 DEF IInv

\* The session that marks the outcome loads the job, and then its record.
LEMMA LoadWorker ==
  ASSUME IInv, NEW w \in Workers, LoadJob(w) \/ LoadRecord(w)
  PROVE  /\ worker[w] \in WorkerType /\ worker[w].pc \in {"committed", "raised"}
         /\ worker[w].job \in Jobs /\ job[worker[w].job] # None
         /\ \E wk \in WorkerType :
              /\ worker' = [worker EXCEPT ![w] = wk]
              /\ wk.pc = worker[w].pc /\ wk.job = worker[w].job /\ wk.attempt = worker[w].attempt
              /\ wk.read # None
              /\ \/ wk.read = ReadJob(worker[w].job)
                 \/ /\ worker[w].read # None /\ wk.read.status = worker[w].read.status
                    /\ wk.read.record = idem[job[worker[w].job].key]
  <1> DEFINE i == worker[w].job
  <1>1. worker[w] \in WorkerType /\ worker[w].pc \in {"committed", "raised"}
    BY DEF IInv, TypeOK, LoadJob, LoadRecord, Finishing
  <1>2. i \in Jobs /\ job[i] # None /\ job[i] \in JobRecord
    BY <1>1 DEF IInv, TypeOK, Linked, WorkersLinked
  <1>3. ASSUME NEW rd \in Reading
        PROVE  LET wk == [worker[w] EXCEPT !.read = rd] IN
               /\ wk \in WorkerType /\ wk.pc = worker[w].pc /\ wk.job = i
               /\ wk.attempt = worker[w].attempt /\ wk.read = rd /\ rd # None
    BY <1>1, <1>3, NoneAssumption DEF WorkerType
  <1>4. CASE LoadJob(w)
    <2>1. worker' = [worker EXCEPT ![w] = [worker[w] EXCEPT !.read = ReadJob(i)]]
      BY <1>4 DEF LoadJob, IInv, TypeOK
    <2>2. ReadJob(i) \in Reading
      BY <1>2, ReadJobType
    <2> HIDE DEF i
    <2> QED BY <1>1, <1>2, <1>3, <2>1, <2>2 DEF i
  <1>5. CASE LoadRecord(w)
    <2> DEFINE rd == [worker[w].read EXCEPT !.record = idem[job[i].key]]
    <2>1. worker[w].read \in Reading /\ worker[w].read # None
      BY <1>1, <1>5 DEF LoadRecord, WorkerType
    <2>2. idem[job[i].key] \in IdemStatuses
      BY <1>2 DEF IInv, TypeOK, JobRecord
    <2>3. rd \in Reading /\ rd.status = worker[w].read.status /\ rd.record = idem[job[i].key]
      BY <2>1, <2>2 DEF Reading
    <2>4. worker' = [worker EXCEPT ![w] = [worker[w] EXCEPT !.read = rd]]
      BY <1>5 DEF LoadRecord, IInv, TypeOK
    <2> HIDE DEF rd
    <2>5. LET wk == [worker[w] EXCEPT !.read = rd] IN
          /\ wk \in WorkerType /\ wk.pc = worker[w].pc /\ wk.job = i
          /\ wk.attempt = worker[w].attempt /\ wk.read = rd /\ rd # None
      BY <1>3, <2>3
    <2> QED BY <1>1, <1>2, <2>1, <2>3, <2>4, <2>5
  <1> QED BY <1>4, <1>5

\* LoadJob and LoadRecord keep the invariant.
LEMMA LoadStep ==
  ASSUME IInv, NEW w \in Workers, LoadJob(w) \/ LoadRecord(w)
  PROVE  IInv'
  <1>1. PICK wk \in WorkerType : worker' = [worker EXCEPT ![w] = wk] /\ wk.job = worker[w].job
    BY LoadWorker
  <1>2. worker[w].job \in Jobs /\ job[worker[w].job] # None
    BY LoadWorker
  <1>3. UNCHANGED <<job, idem, outbox, broker, revoked, proc, sent, effects, crashes, cancels>>
    BY DEF LoadJob, LoadRecord
  <1>4. /\ broker' \in [Rows -> 0 .. CopyBound] /\ BrokerLinked' /\ effects' \in [Jobs -> 0 .. 2]
        /\ crashes' \in [procs: 0 .. CrashBound, workers: 0 .. WorkerCrashBound]
    BY <1>3 DEF IInv, TypeOK, Linked, BrokerLinked
  <1> QED BY <1>1, <1>2, <1>3, <1>4, WorkerLinks

\* The task function ends, or the worker dies.
LEMMA FunctionStep ==
  ASSUME IInv, NEW w \in Workers, FnCommit(w) \/ FnRaise(w) \/ WorkerCrash(w)
  PROVE  IInv'
  <1>1. worker[w] \in WorkerType /\ worker[w].job \in Jobs /\ job[worker[w].job] # None
    BY DEF IInv, TypeOK, Linked, WorkersLinked, FnCommit, FnRaise, WorkerCrash
  <1>2. /\ effects' \in [Jobs -> 0 .. 2]
        /\ crashes' \in [procs: 0 .. CrashBound, workers: 0 .. WorkerCrashBound]
    BY <1>1, JobQueueAssumption DEF IInv, TypeOK, FnCommit, FnRaise, WorkerCrash
  <1>3. broker' \in [Rows -> 0 .. CopyBound] /\ BrokerLinked'
    BY DEF IInv, TypeOK, Linked, BrokerLinked, FnCommit, FnRaise, WorkerCrash
  <1>4. \E wk \in WorkerType : /\ worker' = [worker EXCEPT ![w] = wk]
                               /\ wk.pc # "idle" => wk.job = worker[w].job
    <2>1. CASE WorkerCrash(w)
      BY <2>1, IdleWorkerType DEF WorkerCrash, IdleWorker
    <2>2. CASE FnCommit(w) \/ FnRaise(w)
      <3> DEFINE wk(pc) == [worker[w] EXCEPT !.pc = pc]
      <3>1. PICK pc \in {"committed", "raised"} : worker' = [worker EXCEPT ![w] = wk(pc)]
        BY <2>2 DEF FnCommit, FnRaise
      <3>2. wk(pc) \in WorkerType /\ wk(pc).job = worker[w].job
        BY <1>1 DEF WorkerType, WorkerPcs
      <3> QED BY <3>1, <3>2
    <2> QED BY <2>1, <2>2
  <1> QED BY <1>1, <1>2, <1>3, <1>4, WorkerLinks DEF FnCommit, FnRaise, WorkerCrash

\* A worker commits a new status for its job, and touches no other.
LEMMA MarkJob ==
  ASSUME IInv, NEW w \in Workers,
         MarkStarted(w) \/ MarkSucceeded(w) \/ MarkRetrying(w) \/ MarkDeadLetter(w)
  PROVE  /\ job' \in [Jobs -> JobRecord \cup {None}] /\ JobsKept
         /\ \A j \in Jobs : job[j] = None => job'[j] = None
         /\ worker[w] \in WorkerType /\ worker[w].job \in Jobs
         /\ job[worker[w].job] # None /\ job[worker[w].job] \in JobRecord
  <1> DEFINE i == worker[w].job
             put(st, n, b) == [job[i] EXCEPT !.status = st, !.attempts = n, !.retry_at = b]
  <1>1. /\ i \in Jobs /\ job[i] # None /\ job[i] \in JobRecord
        /\ worker[w] \in WorkerType
    BY SMTT(30) DEF IInv, Linked, WorkersLinked, TypeOK, MarkStarted, MarkSucceeded, MarkRetrying,
           MarkDeadLetter
  <1>2. \E rec \in JobRecord : rec.key = job[i].key /\ job' = [job EXCEPT ![i] = rec]
    <2>1. /\ job[i].attempts \in 0 .. AttemptBound
          /\ job[i].status \in JobStatuses
          /\ job[i].retry_at \in RetryTimes
          /\ worker[w].attempt \in 0 .. AttemptBound + 1
      BY <1>1 DEF JobRecord, WorkerType
    <2>a. ASSUME NEW st \in JobStatuses, NEW n \in 0 .. AttemptBound, NEW b \in RetryTimes
          PROVE  put(st, n, b) \in JobRecord /\ put(st, n, b).key = job[i].key
      BY <1>1, <2>a DEF JobRecord
    <2>2. CASE MarkStarted(w)
      <3>1. worker[w].attempt \in 0 .. AttemptBound
        BY <2>1, <2>2, JobQueueAssumption DEF MarkStarted
      <3>2. job' = [job EXCEPT ![i] = put("running", worker[w].attempt, job[i].retry_at)]
        BY <1>1, <2>2 DEF MarkStarted, JobRecord, TypeOK, IInv
      <3>3. "running" \in JobStatuses
        BY DEF JobStatuses
      <3> HIDE DEF put
      <3> QED BY <2>1, <2>a, <3>1, <3>2, <3>3
    <2>3. CASE MarkSucceeded(w)
      <3>1. job' = [job EXCEPT ![i] = Finish(job[i], worker[w].read, "succeeded")]
        BY <1>1, <2>3 DEF MarkSucceeded, FinishJob, TypeOK, IInv
      <3>2. "succeeded" \in JobStatuses
        BY DEF JobStatuses, TERMINAL_JOB_STATUSES
      <3> DEFINE rec == Finish(job[i], worker[w].read, "succeeded")
      <3>3. rec \in JobRecord /\ rec.key = job[i].key
        BY <1>1, <3>2, FinishType
      <3> QED BY <3>1, <3>3
    <2>4. CASE MarkRetrying(w)
      <3> DEFINE st == Written("retrying", worker[w].read.status, job[i].status)
      <3>1. job' = [job EXCEPT ![i] = put(st, job[i].attempts, "ahead")]
        BY <1>1, <2>4 DEF MarkRetrying, RetryJob, JobRecord, TypeOK, IInv
      <3>2. st \in JobStatuses /\ "ahead" \in RetryTimes
        BY <2>1 DEF JobStatuses, Written, RetryTimes
      <3> HIDE DEF put, st
      <3> QED BY <2>1, <2>a, <3>1, <3>2
    <2>5. CASE MarkDeadLetter(w)
      <3>1. job' = [job EXCEPT ![i] = Finish(job[i], worker[w].read, "dead_letter")]
        BY <1>1, <2>5 DEF MarkDeadLetter, FinishJob, TypeOK, IInv
      <3>2. "dead_letter" \in JobStatuses
        BY DEF JobStatuses, TERMINAL_JOB_STATUSES
      <3> DEFINE rec == Finish(job[i], worker[w].read, "dead_letter")
      <3>3. rec \in JobRecord /\ rec.key = job[i].key
        BY <1>1, <3>2, FinishType
      <3> QED BY <3>1, <3>3
    <2> QED BY <2>2, <2>3, <2>4, <2>5
  <1>3. /\ job' \in [Jobs -> JobRecord \cup {None}] /\ JobsKept
        /\ \A j \in Jobs : job[j] = None => job'[j] = None
    BY <1>1, <1>2, JobUpdate DEF IInv
  <1> QED BY <1>1, <1>3

\* The mark_ sessions of a worker keep the invariant.
LEMMA MarkStep ==
  ASSUME IInv, NEW w \in Workers,
         MarkStarted(w) \/ MarkSucceeded(w) \/ MarkRetrying(w) \/ MarkDeadLetter(w)
  PROVE  IInv'
  <1> DEFINE i == worker[w].job
  <1>1. /\ i \in Jobs /\ job[i] # None /\ job[i] \in JobRecord
        /\ worker[w] \in WorkerType
    BY MarkJob
  <1>3. job' \in [Jobs -> JobRecord \cup {None}] /\ JobsKept
    BY MarkJob
  <1>4. idem' \in [Keys -> IdemStatuses]
    BY <1>1 DEF MarkStarted, MarkSucceeded, MarkRetrying, MarkDeadLetter, FinishRecord, Written,
                IInv, TypeOK, IdemStatuses, JobRecord
  <1>5. \E wk \in WorkerType : /\ worker' = [worker EXCEPT ![w] = wk]
                               /\ wk.pc # "idle" => wk.job = i
    <2>1. CASE MarkStarted(w)
      <3>1. [worker[w] EXCEPT !.pc = "running"] \in WorkerType
        BY <1>1 DEF WorkerType, WorkerPcs
      <3>2. [worker[w] EXCEPT !.pc = "running"].job = i
        BY <1>1 DEF WorkerType
      <3> QED BY <2>1, <3>1, <3>2 DEF MarkStarted
    <2>2. CASE ~MarkStarted(w)
      BY <2>2, IdleWorkerType DEF MarkSucceeded, MarkRetrying, RetryJob, MarkDeadLetter, IdleWorker
    <2> QED BY <2>1, <2>2
  <1>6. UNCHANGED <<outbox, broker, revoked, proc, sent, effects, crashes, cancels>>
    BY DEF MarkStarted, MarkSucceeded, MarkRetrying, RetryJob, MarkDeadLetter
  <1>7. TypeOK'
    BY <1>3, <1>4, <1>5, <1>6, WorkerUpdate DEF IInv, TypeOK
  <1>8. WorkersLinked'
    BY <1>1, <1>3, <1>5, WorkerUpdate DEF IInv, Linked, WorkersLinked, JobsKept
  <1> QED BY <1>3, <1>6, <1>7, <1>8, KeptLinks DEF IInv, Linked

\* A window that opens changes nothing else of the job.
LEMMA WindowJob ==
  ASSUME IInv, NEW j \in Jobs, JobWindowOpens(j)
  PROVE  /\ job' \in [Jobs -> JobRecord \cup {None}] /\ JobsKept
         /\ \A i \in Jobs : job[i] = None => job'[i] = None
  <1> DEFINE rec == [job[j] EXCEPT !.retry_at = "past"]
  <1>1. job[j] # None /\ job[j] \in JobRecord
    BY DEF JobWindowOpens, Exists, IInv, TypeOK
  <1>2. rec \in JobRecord /\ rec.key = job[j].key
    BY <1>1 DEF JobRecord, RetryTimes
  <1>3. job' = [job EXCEPT ![j] = rec]
    BY DEF JobWindowOpens
  <1> HIDE DEF rec
  <1> QED BY <1>1, <1>2, <1>3, JobUpdate DEF IInv

\* The clock keeps the invariant.
LEMMA TimeStepIInv ==
  ASSUME IInv, TimeStep
  PROVE  IInv'
  <1>1. ASSUME NEW j \in Jobs, JobWindowOpens(j)
        PROVE  IInv'
    <2>4. job' \in [Jobs -> JobRecord \cup {None}] /\ JobsKept
      BY <1>1, WindowJob
    <2>5. WorkersLinked'
      BY <1>1, <2>4 DEF JobWindowOpens, IInv, Linked, WorkersLinked, JobsKept
    <2> QED BY <1>1, <2>4, <2>5, KeptLinks DEF JobWindowOpens, IInv, Linked, TypeOK
  <1>2. ASSUME NEW r \in Rows, RowWindowOpens(r)
        PROVE  IInv'
    <2> DEFINE rec == [outbox[r] EXCEPT !.waiting = FALSE]
    <2>1. outbox[r] # None /\ outbox[r] \in RowRecord
      BY <1>2 DEF RowWindowOpens, IInv, TypeOK
    <2>2. /\ rec \in RowRecord /\ rec.job = outbox[r].job
          /\ rec.status = outbox[r].status /\ rec.attempts = outbox[r].attempts
      BY <2>1 DEF RowRecord
    <2>3. outbox' = [outbox EXCEPT ![r] = rec]
      BY <1>2 DEF RowWindowOpens
    <2> HIDE DEF rec
    <2>4. rec # None
      BY <2>2, NoneAssumption
    <2>5. /\ outbox'[r] = rec
          /\ \A q \in Rows : q # r => outbox'[q] = outbox[q]
          /\ outbox' \in [Rows -> RowRecord \cup {None}]
      BY <2>2, <2>3 DEF IInv, TypeOK
    <2>6. TypeOK'
      BY <1>2, <2>5 DEF RowWindowOpens, IInv, TypeOK
    <2>a. UNCHANGED <<job, broker, proc>>
      BY <1>2 DEF RowWindowOpens
    <2>b. RowsLinked' /\ RowsHaveAttempts'
      BY <2>a, <2>1, <2>2, <2>5 DEF IInv, Linked, RowsLinked, RowsHaveAttempts
    <2>c. BrokerLinked' /\ BatchLinked'
      BY <2>a, <2>2, <2>4, <2>5 DEF IInv, Linked, BrokerLinked, BatchLinked
    <2>7. RowsLinked' /\ RowsHaveAttempts' /\ BrokerLinked' /\ BatchLinked'
      BY <2>b, <2>c
    <2>8. RetryLinked' /\ ReadLinked' /\ TargetLinked' /\ WorkersLinked'
      BY <1>2 DEF RowWindowOpens, IInv, Linked, RetryLinked, ReadLinked, TargetLinked, WorkersLinked
    <2> QED BY <2>6, <2>7, <2>8 DEF IInv, Linked
  <1> QED BY <1>1, <1>2 DEF TimeStep

----------------------------------------------------------------------------
(* Commits.                                                                *)

\* A row as a commit leaves it: well formed, with its job, and with attempts
\* left if it is to be tried again.
LEMMA RowAfterType ==
  ASSUME IInv, NEW p \in Procs, NEW r \in Rows, outbox[r] # None
  PROVE  /\ RowAfter(p, r) \in RowRecord
         /\ RowAfter(p, r) # None
         /\ RowAfter(p, r).job = outbox[r].job
         /\ RowAfter(p, r).status \in {"pending", "retrying"}
               => RowAfter(p, r).attempts < MaxDispatch
  <1>1. outbox[r] \in RowRecord
    BY DEF IInv, TypeOK
  <1>2. proc[p].batch[r] \in Verdicts
    BY DEF IInv, TypeOK, TxType
  <1>3. ASSUME proc[p].batch[r] # "skip"
        PROVE  /\ Tried(p, r) \in 0 .. MaxDispatch
               /\ FailStatus(p, r) = "retrying" => Tried(p, r) < MaxDispatch
               /\ FailStatus(p, r) \in {"retrying", "dead_letter"}
    <2>1. proc[p].seen[r] \in RowRecord /\ proc[p].seen[r].attempts < MaxDispatch
      BY <1>3 DEF IInv, TypeOK, TxType, Linked, BatchLinked
    <2>2. proc[p].seen[r].attempts \in 0 .. MaxDispatch
      BY <2>1 DEF RowRecord
    <2> QED BY <2>1, <2>2, JobQueueAssumption DEF Tried, FailStatus
  <1>4. CASE proc[p].batch[r] = "ok"
    <2>1. RowAfter(p, r) = [outbox[r] EXCEPT !.status = "dispatched",
                                             !.attempts = Tried(p, r), !.waiting = FALSE]
      BY <1>4 DEF RowAfter
    <2>2. /\ RowAfter(p, r) \in RowRecord
          /\ RowAfter(p, r).job = outbox[r].job
          /\ RowAfter(p, r).status = "dispatched"
      BY <1>1, <1>3, <1>4, <2>1 DEF RowRecord, RowStatuses
    <2> QED BY <2>2, NoneAssumption
  <1>5. CASE proc[p].batch[r] = "fail"
    <2> DEFINE st == IF FailStatus(p, r) = proc[p].seen[r].status
                       THEN outbox[r].status ELSE FailStatus(p, r)
               wt == IF FailStatus(p, r) = "retrying" THEN TRUE ELSE outbox[r].waiting
    <2>1. RowAfter(p, r) = [outbox[r] EXCEPT !.status = st, !.attempts = Tried(p, r),
                                             !.waiting = wt]
      BY <1>1, <1>5 DEF RowAfter, RowRecord
    <2>2. st \in RowStatuses /\ wt \in BOOLEAN
      BY <1>1, <1>3, <1>5 DEF RowRecord, RowStatuses
    <2>3. st \in {"pending", "retrying"} => FailStatus(p, r) = "retrying"
      <3>1. CASE FailStatus(p, r) = "dead_letter"
        <4>1. proc[p].seen[r].status \in {"pending", "retrying"}
          BY <1>5 DEF IInv, Linked, BatchLinked
        <4> QED BY <3>1, <4>1
      <3> QED BY <1>3, <1>5, <3>1
    <2> HIDE DEF st, wt
    <2>4. /\ RowAfter(p, r) \in RowRecord
          /\ RowAfter(p, r).job = outbox[r].job
          /\ RowAfter(p, r).status = st
          /\ RowAfter(p, r).attempts = Tried(p, r)
      BY <1>1, <1>3, <1>5, <2>1, <2>2 DEF RowRecord
    <2> QED BY <1>3, <1>5, <2>3, <2>4, NoneAssumption
  <1>6. CASE proc[p].batch[r] \in {"skip", "todo"}
    BY <1>1, <1>6 DEF RowAfter, IInv, Linked, RowsHaveAttempts
  <1> QED BY <1>2, <1>4, <1>5, <1>6 DEF Verdicts

\* A job the outbox gives up on exists.
LEMMA DoomedExist ==
  ASSUME IInv, NEW p \in Procs
  PROVE  /\ Doomed(p) \subseteq Jobs
         /\ \A j \in Doomed(p) : job[j] # None /\ job[j] \in JobRecord
  <1> SUFFICES ASSUME NEW j \in Doomed(p)
               PROVE  j \in Jobs /\ job[j] # None /\ job[j] \in JobRecord
    OBVIOUS
  <1>1. PICK r \in Rows : proc[p].batch[r] # "skip" /\ j = proc[p].seen[r].job
    BY DEF Doomed, Selected
  <1>2. outbox[r] # None /\ outbox[r] \in RowRecord /\ j = outbox[r].job
    BY <1>1 DEF IInv, TypeOK, Linked, BatchLinked
  <1>3. j \in Jobs /\ job[j] # None
    BY <1>2 DEF IInv, Linked, RowsLinked, RowRecord
  <1> QED BY <1>3 DEF IInv, TypeOK

\* A dead-lettered job is a job with the same key.
LEMMA DeadLetterType ==
  ASSUME NEW p \in Procs, NEW j \in Jobs, job[j] \in JobRecord
  PROVE  /\ DeadLetter(p, j) \in JobRecord /\ DeadLetter(p, j) # None
         /\ DeadLetter(p, j).key = job[j].key
         /\ DeadLetter(p, j).attempts = job[j].attempts
         /\ DeadLetter(p, j).status \in {"dead_letter", job[j].status}
         /\ proc[p].read[j].status # "dead_letter" => DeadLetter(p, j).status = "dead_letter"
         /\ DeadLetter(p, j).retry_at \in {"null", job[j].retry_at}
  <1>1. "dead_letter" \in JobStatuses
    BY DEF JobStatuses, TERMINAL_JOB_STATUSES
  <1> QED BY <1>1, FinishType DEF DeadLetter

\* Links after a commit of process p, from what happened to the two tables.
LEMMA CommitLinks ==
  ASSUME IInv, NEW p \in Procs, NEW tx \in TxType, proc' = [proc EXCEPT ![p] = tx],
         \A r \in Rows : tx.batch[r] = "skip", tx.retry = {}, tx.pc # "cancel",
         \A j \in Jobs : tx.read[j] = None,
         JobsKept, RowsKept, RowsLinked', RowsHaveAttempts', UNCHANGED <<broker, worker>>
  PROVE  Linked'
  <1>1. /\ proc'[p] = tx
        /\ \A q \in Procs : q # p => proc'[q] = proc[q]
    BY TxUpdate DEF IInv
  <1>2. BrokerLinked'
    BY DEF IInv, Linked, BrokerLinked, RowsKept
  <1>3. BatchLinked'
    BY <1>1 DEF IInv, Linked, BatchLinked, RowsKept
  <1>4. RetryLinked'
    <2>1. \A q \in Procs : \A x \in proc[q].retry : x[1] \in Jobs
      BY DEF IInv, TypeOK, TxType
    <2> QED BY <1>1, <2>1 DEF IInv, Linked, RetryLinked, JobsKept
  <1>5. TargetLinked' /\ ReadLinked' /\ WorkersLinked'
    BY <1>1 DEF IInv, Linked, TargetLinked, ReadLinked, WorkersLinked, JobsKept
  <1> QED BY <1>2, <1>3, <1>4, <1>5 DEF Linked

\* What the commit of a dispatcher does to jobs and rows.
LEMMA HookTables ==
  ASSUME IInv, NEW p \in Procs, HookCommit(p)
  PROVE  /\ job' \in [Jobs -> JobRecord \cup {None}] /\ JobsKept
         /\ \A j \in Jobs : job[j] = None => job'[j] = None
         /\ outbox' \in [Rows -> RowRecord \cup {None}]
         /\ RowsKept
         /\ RowsHaveAttempts'
         /\ \A r \in Rows : outbox'[r] # None => outbox[r] # None
  <1>1. /\ job' \in [Jobs -> JobRecord \cup {None}] /\ JobsKept
        /\ \A j \in Jobs : job[j] = None => job'[j] = None
    <2>1. ASSUME NEW j \in Jobs
          PROVE  /\ job'[j] \in JobRecord \cup {None}
                 /\ job[j] = None => job'[j] = None
                 /\ job[j] # None => job'[j] # None /\ job'[j].key = job[j].key
      <3>1. CASE j \in Doomed(p)
        BY <3>1, DoomedExist, DeadLetterType DEF HookCommit
      <3>2. CASE j \notin Doomed(p)
        BY <3>2 DEF HookCommit, IInv, TypeOK
      <3> QED BY <3>1, <3>2
    <2>2. DOMAIN job' = Jobs /\ job' = [j \in Jobs |-> job'[j]]
      BY DEF HookCommit
    <2> QED BY <2>1, <2>2 DEF JobsKept
  <1>2. /\ outbox' \in [Rows -> RowRecord \cup {None}]
        /\ RowsKept
        /\ RowsHaveAttempts'
        /\ \A r \in Rows : outbox'[r] # None => outbox[r] # None
    <2>1. ASSUME NEW r \in Rows
          PROVE  /\ outbox'[r] \in RowRecord \cup {None}
                 /\ outbox[r] # None => outbox'[r] # None /\ outbox'[r].job = outbox[r].job
                 /\ outbox'[r] # None => outbox[r] # None
                 /\ outbox'[r] # None /\ outbox'[r].status \in {"pending", "retrying"}
                       => outbox'[r].attempts < MaxDispatch
      <3>1. outbox'[r] = RowAfter(p, r)
        BY DEF HookCommit
      <3>2. CASE outbox[r] # None
        BY <3>1, <3>2, RowAfterType
      <3>3. CASE outbox[r] = None
        BY <3>1, <3>3 DEF RowAfter, IInv, Linked, BatchLinked
      <3> QED BY <3>2, <3>3
    <2>2. outbox' = [r \in Rows |-> outbox'[r]]
      BY DEF HookCommit
    <2> QED BY <2>1, <2>2 DEF RowsKept, RowsHaveAttempts
  <1> QED BY <1>1, <1>2

\* HookCommit keeps the invariant.
LEMMA HookCommitStep ==
  ASSUME IInv, NEW p \in Procs, HookCommit(p)
  PROVE  IInv'
  <1>1. job' \in [Jobs -> JobRecord \cup {None}] /\ JobsKept
    BY HookTables
  <1>2. /\ outbox' \in [Rows -> RowRecord \cup {None}]
        /\ RowsKept
        /\ RowsHaveAttempts'
        /\ \A r \in Rows : outbox'[r] # None => outbox[r] # None
    BY HookTables
  <1>3. idem' \in [Keys -> IdemStatuses]
    BY DEF HookCommit, RecordAfter, IInv, TypeOK, IdemStatuses
  <1>4. TypeOK'
    BY <1>1, <1>2, <1>3, TxUpdate, IdleTxType DEF HookCommit, IInv, TypeOK
  <1>5. RowsLinked'
    <2>1. \A r \in Rows : outbox[r] # None => outbox[r].job \in Jobs
      BY DEF IInv, TypeOK, RowRecord
    <2> QED BY <1>1, <1>2, <2>1 DEF RowsLinked, IInv, Linked, RowsKept, JobsKept
  <1>6. Linked'
    <2>1. /\ \A r \in Rows : IdleTx.batch[r] = "skip"
          /\ IdleTx.retry = {}
          /\ \A j \in Jobs : IdleTx.read[j] = None
          /\ IdleTx.pc # "cancel"
      BY DEF IdleTx, Tx, NoBatch, NoneRead
    <2> QED BY <1>1, <1>2, <1>5, <2>1, IdleTxType, CommitLinks DEF HookCommit
  <1> QED BY <1>4, <1>6 DEF IInv

----------------------------------------------------------------------------
(* The commit of an enqueue or of a tick.                                  *)

\* The new jobs and the rescheduled ones.
LEMMA JobAfterType ==
  ASSUME IInv, NEW p \in Procs, NEW ids \in FreshIds(p), NEW j \in Jobs
  PROVE  /\ JobAfter(p, ids, j) \in JobRecord \cup {None}
         /\ job[j] # None =>
               /\ JobAfter(p, ids, j) # None
               /\ JobAfter(p, ids, j).key = job[j].key
               /\ \A k \in proc[p].want : ids[k] # j
         /\ \A k \in proc[p].want : ids[k] = j =>
               JobAfter(p, ids, j) = NewJob(k)
         /\ JobAfter(p, ids, j) # None =>
               job[j] # None \/ \E k \in proc[p].want : ids[k] = j
  <1>1. /\ ids \in [proc[p].want -> {i \in Jobs : ~Exists(i)}]
        /\ \A a, b \in proc[p].want : a # b => ids[a] # ids[b]
    BY DEF FreshIds
  <1>2. proc[p].want \subseteq Keys
    BY DEF IInv, TypeOK, TxType
  <1>3. CASE \E k \in proc[p].want : ids[k] = j
    <2>1. PICK k \in proc[p].want : ids[k] = j
      BY <1>3
    <2>2. (CHOOSE a \in proc[p].want : ids[a] = j) = k
      BY <1>1, <2>1
    <2>3. JobAfter(p, ids, j) = NewJob(k)
      BY <1>3, <2>2 DEF JobAfter
    <2>4. NewJob(k) \in JobRecord
      BY <1>2, JobQueueAssumption DEF NewJob, JobRecord, JobStatuses, RetryTimes, Rows
    <2>5. job[j] = None
      BY <1>1, <2>1 DEF Exists
    <2>6. \A a \in proc[p].want : ids[a] = j => a = k
      BY <1>1, <2>1
    <2> QED BY <2>1, <2>3, <2>4, <2>5, <2>6
  <1>4. CASE ~\E k \in proc[p].want : ids[k] = j
    <2>1. CASE j \in Doomed(p)
      <3>1. JobAfter(p, ids, j) = DeadLetter(p, j)
        BY <1>4, <2>1 DEF JobAfter
      <3> QED BY <1>4, <2>1, <3>1, DoomedExist, DeadLetterType
    <2>2. CASE j \notin Doomed(p) /\ j \in Retried(p)
      <3>1. PICK x \in proc[p].retry : x = CHOOSE y \in proc[p].retry : y[1] = j
        BY <2>2 DEF Retried
      <3>2. x[1] = j
        BY <2>2, <3>1 DEF Retried
      <3>3. job[j] # None /\ job[j] \in JobRecord
        BY <3>2 DEF IInv, TypeOK, Linked, RetryLinked
      <3>4. x \in Jobs \X (0 .. AttemptBound) \X BOOLEAN
        BY DEF IInv, TypeOK, TxType
      <3>5. RetryRow(x) \in Rows
        BY <3>2, <3>3, <3>4 DEF RetryRow, Rows, JobRecord
      <3> DEFINE q == IF x[3] THEN RetryRow(x) ELSE None
                 rec == [job[j] EXCEPT !.status = "queued", !.queue = q]
      <3>6. Requeued(p, j) = rec
        BY <3>1 DEF Requeued
      <3>7. rec \in JobRecord /\ rec.key = job[j].key
        <4>1. q \in Rows \cup {None}
          BY <3>5
        <4> HIDE DEF q
        <4> QED BY <3>3, <4>1 DEF JobRecord, JobStatuses
      <3>8. JobAfter(p, ids, j) = Requeued(p, j)
        BY <1>4, <2>2 DEF JobAfter
      <3> HIDE DEF rec
      <3> QED BY <1>4, <3>3, <3>6, <3>7, <3>8, NoneAssumption
    <2>3. CASE j \notin Doomed(p) /\ j \notin Retried(p)
      BY <1>4, <2>3 DEF JobAfter, IInv, TypeOK
    <2> QED BY <2>1, <2>2, <2>3
  <1> QED BY <1>3, <1>4

\* The new outbox rows.
LEMMA OutboxAfterType ==
  ASSUME IInv, NEW p \in Procs, NEW ids \in FreshIds(p), NEW r \in Rows
  PROVE  /\ OutboxAfter(p, ids, r) \in RowRecord \cup {None}
         /\ outbox[r] # None => OutboxAfter(p, ids, r) = RowAfter(p, r)
         /\ OutboxAfter(p, ids, r) # None /\ outbox[r] = None =>
               /\ OutboxAfter(p, ids, r).status = "pending"
               /\ OutboxAfter(p, ids, r).attempts = 0
               /\ \/ /\ r[1] \in proc[p].want
                     /\ OutboxAfter(p, ids, r).job = ids[r[1]]
                  \/ LET i == OutboxAfter(p, ids, r).job
                     IN  i \in Jobs /\ job[i] # None /\ job[i].key = r[1]
  <1>1. ids \in [proc[p].want -> {i \in Jobs : ~Exists(i)}]
    BY DEF FreshIds
  <1>2. \A i \in Jobs : /\ NewRow(i) \in RowRecord
                        /\ NewRow(i).status = "pending"
                        /\ NewRow(i).attempts = 0
                        /\ NewRow(i).job = i
    BY JobQueueAssumption DEF NewRow, RowRecord, RowStatuses
  <1>3. CASE outbox[r] # None
    BY <1>3, RowAfterType DEF OutboxAfter
  <1>4. CASE outbox[r] = None /\ r[2] = 0 /\ r[1] \in proc[p].want
    <2>1. OutboxAfter(p, ids, r) = NewRow(ids[r[1]])
      BY <1>4 DEF OutboxAfter
    <2>2. ids[r[1]] \in Jobs
      BY <1>1, <1>4
    <2> QED BY <1>2, <1>4, <2>1, <2>2
  <1>5. CASE /\ outbox[r] = None
             /\ ~(r[2] = 0 /\ r[1] \in proc[p].want)
             /\ \E x \in proc[p].retry : RetryRow(x) = r
    <2>1. PICK x \in proc[p].retry : /\ RetryRow(x) = r
                                     /\ x = CHOOSE y \in proc[p].retry : RetryRow(y) = r
      BY <1>5
    <2>2. OutboxAfter(p, ids, r) = NewRow(x[1])
      BY <1>5, <2>1 DEF OutboxAfter
    <2>3. x[1] \in Jobs /\ job[x[1]] # None
      BY DEF IInv, TypeOK, TxType, Linked, RetryLinked
    <2>4. job[x[1]].key = r[1]
      BY <2>1 DEF RetryRow
    <2> QED BY <1>2, <1>5, <2>2, <2>3, <2>4
  <1>6. CASE /\ outbox[r] = None
             /\ ~(r[2] = 0 /\ r[1] \in proc[p].want)
             /\ ~\E x \in proc[p].retry : RetryRow(x) = r
    BY <1>6 DEF OutboxAfter
  <1> QED BY <1>3, <1>4, <1>5, <1>6

\* Commit keeps the invariant.
LEMMA CommitStep ==
  ASSUME IInv, NEW p \in Procs, Commit(p)
  PROVE  IInv'
  <1>1. PICK ids \in FreshIds(p) :
          /\ job' = [j \in Jobs |-> JobAfter(p, ids, j)]
          /\ outbox' = [r \in Rows |-> OutboxAfter(p, ids, r)]
    BY DEF Commit
  <1>2. job' \in [Jobs -> JobRecord \cup {None}] /\ JobsKept
    BY <1>1, JobAfterType DEF JobsKept
  <1>3. outbox' \in [Rows -> RowRecord \cup {None}]
    BY <1>1, OutboxAfterType
  <1>4. RowsKept
    BY <1>1, OutboxAfterType, RowAfterType DEF RowsKept
  <1>5. RowsHaveAttempts'
    <2> SUFFICES ASSUME NEW r \in Rows, outbox'[r] # None,
                        outbox'[r].status \in {"pending", "retrying"}
                 PROVE  outbox'[r].attempts < MaxDispatch
      BY DEF RowsHaveAttempts
    <2>1. outbox'[r] = OutboxAfter(p, ids, r)
      BY <1>1
    <2>2. CASE outbox[r] # None
      BY <2>1, <2>2, OutboxAfterType, RowAfterType
    <2>3. CASE outbox[r] = None
      BY <2>1, <2>3, OutboxAfterType, JobQueueAssumption
    <2> QED BY <2>2, <2>3
  <1>6. RowsLinked'
    <2> SUFFICES ASSUME NEW r \in Rows, outbox'[r] # None
                 PROVE  job'[outbox'[r].job] # None /\ job'[outbox'[r].job].key = r[1]
      BY DEF RowsLinked
    <2>1. outbox'[r] = OutboxAfter(p, ids, r)
      BY <1>1
    <2>2. CASE outbox[r] # None
      <3>1. outbox[r].job \in Jobs /\ job[outbox[r].job] # None
            /\ job[outbox[r].job].key = r[1]
        BY <2>2 DEF IInv, Linked, RowsLinked, TypeOK, RowRecord
      <3> QED BY <1>2, <1>4, <2>2, <3>1 DEF RowsKept, JobsKept
    <2>3. CASE outbox[r] = None /\ outbox'[r].job \in Jobs
               /\ job[outbox'[r].job] # None /\ job[outbox'[r].job].key = r[1]
      BY <1>2, <2>3 DEF JobsKept
    <2>4. CASE outbox[r] = None /\ r[1] \in proc[p].want /\ outbox'[r].job = ids[r[1]]
      <3>1. ids[r[1]] \in Jobs
        BY <2>4 DEF FreshIds
      <3>2. job'[ids[r[1]]] = NewJob(r[1])
        BY <1>1, <2>4, <3>1, JobAfterType
      <3>3. r[1] \in Keys
        BY DEF Rows
      <3>4. NewJob(r[1]) \in JobRecord /\ NewJob(r[1]).key = r[1]
        BY <3>3, JobQueueAssumption DEF NewJob, JobRecord, JobStatuses, RetryTimes, Rows
      <3> QED BY <2>4, <3>2, <3>4, NoneAssumption
    <2> QED BY <2>1, <2>2, <2>3, <2>4, OutboxAfterType
  <1>7. idem' \in [Keys -> IdemStatuses]
    BY DEF Commit, IdemAfter, RecordAfter, IInv, TypeOK, IdemStatuses
  <1>8. PICK tx \in TxType : /\ proc' = [proc EXCEPT ![p] = tx]
                             /\ \A r \in Rows : tx.batch[r] = "skip"
                             /\ tx.retry = {}
                             /\ tx.pc # "cancel"
                             /\ \A j \in Jobs : tx.read[j] = None
    <2>1. /\ [IdleTx EXCEPT !.pc = "hook"] \in TxType
          /\ \A r \in Rows : [IdleTx EXCEPT !.pc = "hook"].batch[r] = "skip"
          /\ [IdleTx EXCEPT !.pc = "hook"].retry = {}
          /\ [IdleTx EXCEPT !.pc = "hook"].pc # "cancel"
          /\ \A j \in Jobs : [IdleTx EXCEPT !.pc = "hook"].read[j] = None
      BY IdleTxType DEF TxType, Pcs, IdleTx, Tx, NoBatch, NoneRead
    <2>2. /\ \A r \in Rows : IdleTx.batch[r] = "skip"
          /\ IdleTx.retry = {}
          /\ IdleTx.pc # "cancel"
          /\ \A j \in Jobs : IdleTx.read[j] = None
      BY DEF IdleTx, Tx, NoBatch, NoneRead
    <2> QED BY <2>1, <2>2, IdleTxType DEF Commit
  <1>9. TypeOK'
    BY <1>2, <1>3, <1>7, <1>8, TxUpdate DEF Commit, IInv, TypeOK
  <1>a. UNCHANGED <<broker, worker>>
    BY DEF Commit
  <1>b. /\ proc' = [proc EXCEPT ![p] = tx]
        /\ \A r \in Rows : tx.batch[r] = "skip"
        /\ tx.retry = {} /\ tx.pc # "cancel" /\ \A j \in Jobs : tx.read[j] = None
    BY <1>8
  <1>c. JobsKept /\ RowsKept /\ RowsLinked' /\ RowsHaveAttempts'
    BY <1>2, <1>4, <1>5, <1>6
  <1>10. Linked'
    BY <1>a, <1>b, <1>c, CommitLinks, Zenon
  <1> QED BY <1>9, <1>10 DEF IInv

----------------------------------------------------------------------------
\* A stuttering step keeps the invariant.
LEMMA StutterIInv ==
  ASSUME IInv, UNCHANGED vars
  PROVE  IInv'
  BY DEF vars, IInv, TypeOK, Linked, RowsLinked, RowsHaveAttempts, BrokerLinked, BatchLinked,
         RetryLinked, ReadLinked, TargetLinked, WorkersLinked

\* Every step keeps the invariant.
LEMMA NextIInv ==
  ASSUME IInv, [Next]_vars
  PROVE  IInv'
  <1>1. ASSUME NEW s \in Schedulers, SchedulerStep(s)
        PROVE  IInv'
    BY <1>1, SelectStep, CollectStep, RollbackStep DEF SchedulerStep, Procs
  <1>2. ASSUME NEW p \in Procs, TxStep(p)
        PROVE  IInv'
    BY <1>2, SendStep, DoomRecordStep, CommitStep, RollbackStep, SelectStep, HookCommitStep DEF TxStep
  <1>3. ASSUME NEW c \in Clients, ClientStep(c)
        PROVE  IInv'
    BY <1>3, CollectStep, CancelCommitStep DEF ClientStep, Procs
  <1>4. ASSUME NEW w \in Workers, WorkerStep(w)
        PROVE  IInv'
    BY <1>4, ReceiveStep, LoadStep, FunctionStep, MarkStep DEF WorkerStep
  <1>5. ASSUME NEW r \in Rows, DropRevoked(r)
        PROVE  IInv'
    BY <1>5, DropStep
  <1>6. ASSUME CrashStep
        PROVE  IInv'
    BY <1>6, RollbackStep, FunctionStep DEF CrashStep
  <1> QED BY <1>1, <1>2, <1>3, <1>4, <1>5, <1>6, TimeStepIInv, StutterIInv DEF Next

\* Type correctness of the queue: in every reachable state the tables, the
\* broker and the transactions in flight are well formed, however many
\* processes run, crash and cancel.
THEOREM TypeCorrect == Spec => []TypeOK
  <1>1. Init => IInv
    BY InitIInv
  <1>2. IInv /\ [Next]_vars => IInv'
    BY NextIInv
  <1>3. IInv => TypeOK
    BY DEF IInv
  <1> QED BY <1>1, <1>2, <1>3, PTL DEF Spec

----------------------------------------------------------------------------
(* One job per key.                                                        *)

\* A step that neither creates nor deletes a row of any table.
Settled ==
    /\ JobsKept
    /\ \A j \in Jobs : job[j] = None => job'[j] = None
    /\ \A k \in Keys : idem'[k] = "absent" <=> idem[k] = "absent"
    /\ \A r \in Rows : outbox'[r] = None <=> outbox[r] = None

Created == OneJobPerKey /\ CreatedTogether

\* A job exists only under a recorded key.
LEMMA JobHasRecord ==
  ASSUME IInv, Created, NEW j \in Jobs, job[j] # None
  PROVE  job[j].key \in Keys /\ idem[job[j].key] # "absent"
  <1>1. job[j].key \in Keys
    BY DEF IInv, TypeOK, JobRecord
  <1>2. j \in JobsWithKey(job[j].key)
    BY DEF JobsWithKey, Exists
  <1>3. JobsWithKey(job[j].key) # {}
    BY <1>2
  <1>4. \A k \in Keys : idem[k] = "absent" => JobsWithKey(k) = {}
    BY DEF Created, CreatedTogether
  <1> QED BY <1>1, <1>3, <1>4

\* A step that neither creates nor removes jobs, rows or records keeps them
\* together.
LEMMA SettledCreated ==
  ASSUME IInv, Created, Settled
  PROVE  Created'
  <1>1. OneJobPerKey'
    BY DEF Created, OneJobPerKey, Settled, JobsKept, Exists
  <1>2. ASSUME NEW k \in Keys
        PROVE  JobsWithKey(k)' = {} <=> JobsWithKey(k) = {}
    BY DEF JobsWithKey, Exists, Settled, JobsKept
  <1>3. \A k \in Keys : <<k, 0>> \in Rows
    BY JobQueueAssumption DEF Rows
  <1>4. CreatedTogether'
    BY <1>2, <1>3 DEF Created, CreatedTogether, Settled
  <1> QED BY <1>1, <1>4 DEF Created

\* Every step but a commit of new work is settled.
LEMMA UnchangedSettled ==
  ASSUME UNCHANGED <<job, idem, outbox>>
  PROVE  Settled
  BY DEF Settled, JobsKept

\* The worker's marks create nothing.
LEMMA MarkSettled ==
  ASSUME IInv, Created, NEW w \in Workers,
         MarkStarted(w) \/ MarkSucceeded(w) \/ MarkRetrying(w) \/ MarkDeadLetter(w)
  PROVE  Settled
  <1>1. idem[job[worker[w].job].key] # "absent"
    BY MarkJob, JobHasRecord
  <1>2. \A k \in Keys : idem'[k] = "absent" <=> idem[k] = "absent"
    BY <1>1 DEF MarkStarted, MarkSucceeded, MarkRetrying, MarkDeadLetter, FinishRecord, Written,
                IInv, TypeOK
  <1>3. UNCHANGED outbox
    BY DEF MarkStarted, MarkSucceeded, MarkRetrying, RetryJob, MarkDeadLetter
  <1> QED BY <1>2, <1>3, MarkJob DEF Settled

\* A dispatcher that gives up on a job completes a record that is there.
LEMMA RecordKept ==
  ASSUME IInv, Created, NEW p \in Procs, NEW k \in Keys
  PROVE  RecordAfter(p, k) = "absent" <=> idem[k] = "absent"
  <1>1. (\E j \in Doomed(p) : job[j].key = k) => idem[k] # "absent"
    BY DoomedExist, JobHasRecord
  <1> QED BY <1>1 DEF RecordAfter

\* The commit of a dispatcher creates nothing.
LEMMA HookSettled ==
  ASSUME IInv, Created, NEW p \in Procs, HookCommit(p)
  PROVE  Settled
  <1>1. ASSUME NEW k \in Keys
        PROVE  idem'[k] = "absent" <=> idem[k] = "absent"
    BY RecordKept DEF HookCommit
  <1> QED BY <1>1, HookTables DEF Settled, RowsKept

\* The clock creates nothing.
LEMMA TimeSettled ==
  ASSUME IInv, TimeStep
  PROVE  Settled
  <1>1. ASSUME NEW j \in Jobs, JobWindowOpens(j)
        PROVE  Settled
    BY <1>1, WindowJob DEF Settled, JobWindowOpens
  <1>2. ASSUME NEW r \in Rows, RowWindowOpens(r)
        PROVE  Settled
    <2> DEFINE rec == [outbox[r] EXCEPT !.waiting = FALSE]
    <2>1. outbox[r] # None /\ outbox[r] \in RowRecord
      BY <1>2 DEF RowWindowOpens, IInv, TypeOK
    <2>2. rec \in RowRecord
      BY <2>1 DEF RowRecord
    <2>3. outbox' = [outbox EXCEPT ![r] = rec]
      BY <1>2 DEF RowWindowOpens
    <2> HIDE DEF rec
    <2>4. \A q \in Rows : outbox'[q] = None <=> outbox[q] = None
      BY <2>1, <2>2, <2>3, NoneAssumption DEF IInv, TypeOK
    <2> QED BY <1>2, <2>4 DEF RowWindowOpens, Settled, JobsKept
  <1> QED BY <1>1, <1>2 DEF TimeStep

\* The commit creates a job under each wanted key, none of which had one.
LEMMA CommitCreated ==
  ASSUME IInv, Created, NEW p \in Procs, Commit(p)
  PROVE  Created'
  <1>1. PICK ids \in FreshIds(p) :
          /\ job' = [j \in Jobs |-> JobAfter(p, ids, j)]
          /\ outbox' = [r \in Rows |-> OutboxAfter(p, ids, r)]
    BY DEF Commit
  <1> DEFINE want == proc[p].want
             New(j) == \E k \in want : ids[k] = j
  <1>2. /\ want \subseteq Keys
        /\ \A k \in want : ids[k] \in Jobs /\ job[ids[k]] = None
        /\ \A k \in want : idem[k] = "absent"
    BY DEF IInv, TypeOK, TxType, FreshIds, Exists, Commit, Clash
  <1>3. \A k \in want : job'[ids[k]] = NewJob(k)
    BY <1>1, <1>2, JobAfterType
  <1>4. \A k \in want : job'[ids[k]] # None /\ job'[ids[k]].key = k
    <2>1. \A k \in want : NewJob(k) \in JobRecord /\ NewJob(k).key = k
      BY <1>2, JobQueueAssumption DEF NewJob, JobRecord, JobStatuses, RetryTimes, Rows
    <2> QED BY <1>3, <2>1, NoneAssumption
  <1>5. \A j \in Jobs : job'[j] # None => job[j] # None \/ New(j)
    BY <1>1, JobAfterType
  <1>6. \A j \in Jobs : job[j] # None =>
            job'[j] # None /\ job'[j].key = job[j].key /\ job[j].key \notin want
    BY <1>1, <1>2, JobAfterType, JobHasRecord
  <1>7. OneJobPerKey'
    BY <1>2, <1>4, <1>5, <1>6 DEF Created, OneJobPerKey, Exists
  <1>8. ASSUME NEW k \in Keys
        PROVE  /\ idem'[k] = "absent" <=> idem[k] = "absent" /\ k \notin want
               /\ (JobsWithKey(k) = {})' <=> JobsWithKey(k) = {} /\ k \notin want
               /\ outbox'[<<k, 0>>] = None <=> outbox[<<k, 0>>] = None /\ k \notin want
    <2>1. idem'[k] = "absent" <=> idem[k] = "absent" /\ k \notin want
      BY RecordKept DEF Commit, IdemAfter
    <2>2. (JobsWithKey(k) = {})' <=> JobsWithKey(k) = {} /\ k \notin want
      BY <1>2, <1>4, <1>5, <1>6 DEF JobsWithKey, Exists
    <2>3. outbox'[<<k, 0>>] = None <=> outbox[<<k, 0>>] = None /\ k \notin want
      <3> DEFINE r == <<k, 0>>
      <3>1. r \in Rows /\ r[1] = k /\ r[2] = 0
        BY JobQueueAssumption DEF Rows
      <3>2. outbox'[r] = OutboxAfter(p, ids, r)
        BY <1>1, <3>1
      <3>3. CASE outbox[r] # None
        BY <3>1, <3>2, <3>3, OutboxAfterType, RowAfterType
      <3>4. CASE outbox[r] = None /\ k \in want
        <4>1. NewRow(ids[k]) \in RowRecord
          BY <1>2, <3>4, JobQueueAssumption DEF NewRow, RowRecord, RowStatuses
        <4>2. OutboxAfter(p, ids, r) = NewRow(ids[k])
          BY <3>1, <3>4 DEF OutboxAfter
        <4> QED BY <3>2, <3>4, <4>1, <4>2, NoneAssumption
      <3>5. CASE outbox[r] = None /\ k \notin want
        <4>1. idem[k] = "absent" /\ JobsWithKey(k) = {}
          BY <3>5 DEF Created, CreatedTogether
        <4>2. \A x \in proc[p].retry : RetryRow(x) # r
          <5> SUFFICES ASSUME NEW x \in proc[p].retry, RetryRow(x) = r PROVE FALSE
            OBVIOUS
          <5>1. x[1] \in Jobs /\ job[x[1]] # None
            BY DEF IInv, TypeOK, TxType, Linked, RetryLinked
          <5>2. job[x[1]].key = k
            BY <3>1 DEF RetryRow
          <5> QED BY <4>1, <5>1, <5>2 DEF JobsWithKey, Exists
        <4>3. OutboxAfter(p, ids, r) = None
          BY <3>1, <3>5, <4>2 DEF OutboxAfter
        <4> QED BY <3>2, <3>5, <4>3
      <3> QED BY <3>3, <3>4, <3>5
    <2> QED BY <2>1, <2>2, <2>3
  <1>9. CreatedTogether'
    BY <1>8 DEF Created, CreatedTogether
  <1> QED BY <1>7, <1>9 DEF Created

\* Every step keeps job, record and first row together.
LEMMA NextCreated ==
  ASSUME IInv, Created, [Next]_vars
  PROVE  Created'
  <1>1. ASSUME NEW s \in Schedulers, SchedulerStep(s)
        PROVE  Created'
    BY <1>1, UnchangedSettled, SettledCreated
    DEF SchedulerStep, TickSelect, TickCollect, TickAbort
  <1>2. ASSUME NEW p \in Procs, TxStep(p)
        PROVE  Created'
    BY <1>2, UnchangedSettled, SettledCreated, HookSettled, CommitCreated
    DEF TxStep, SendOk, SendFail, DoomRecord, EnqueueRollback, HookSelect
  <1>3. ASSUME NEW c \in Clients, ClientStep(c)
        PROVE  Created'
    <2>1. CASE CancelCommit(c)
      BY <2>1, CancelJob, SettledCreated DEF Settled, CancelCommit, Procs
    <2> QED BY <1>3, <2>1, UnchangedSettled, SettledCreated
            DEF ClientStep, EnqueueBegin, CancelBegin
  <1>4. ASSUME NEW w \in Workers, WorkerStep(w)
        PROVE  Created'
    BY <1>4, UnchangedSettled, SettledCreated, MarkSettled
    DEF WorkerStep, Receive, FnCommit, FnRaise, LoadJob, LoadRecord
  <1>5. CASE \/ \E r \in Rows : DropRevoked(r)
             \/ CrashStep
             \/ UNCHANGED vars
    BY <1>5, UnchangedSettled, SettledCreated
    DEF DropRevoked, CrashStep, ProcCrash, WorkerCrash, vars
  <1> QED BY <1>1, <1>2, <1>3, <1>4, <1>5, TimeSettled, SettledCreated DEF Next

\* However many requests, schedulers and workers run and crash, one
\* idempotency key never has two jobs, and a key's record, job and first
\* outbox row appear together.
THEOREM OneJobPerKeyHolds == Spec => [](OneJobPerKey /\ CreatedTogether)
  <1>1. Init => IInv /\ Created
    <2>1. Init => Created
      BY JobQueueAssumption
      DEF Init, Created, OneJobPerKey, CreatedTogether, JobsWithKey, Exists, Rows
    <2> QED BY <2>1, InitIInv
  <1>2. IInv /\ Created /\ [Next]_vars => IInv' /\ Created'
    BY NextIInv, NextCreated
  <1>3. Created => OneJobPerKey /\ CreatedTogether
    BY DEF Created
  <1> QED BY <1>1, <1>2, <1>3, PTL DEF Spec

----------------------------------------------------------------------------
(* Dispatched rows were sent.                                              *)

\* A verdict "ok" not yet committed is a send that happened.
OkWasSent == \A p \in Procs, r \in Rows : proc[p].batch[r] = "ok" => r \in sent

SentInv == OkWasSent /\ DispatchedWasSent

\* A commit marks a row dispatched only on an "ok" of its own, or leaves a mark
\* that was there.
LEMMA RowAfterDispatched ==
  ASSUME IInv, SentInv, NEW p \in Procs, NEW r \in Rows, outbox[r] # None,
         RowAfter(p, r).status = "dispatched"
  PROVE  r \in sent
  <1>1. outbox[r] \in RowRecord
    BY DEF IInv, TypeOK
  <1>2. CASE proc[p].batch[r] = "ok"
    BY <1>2 DEF SentInv, OkWasSent
  <1>3. CASE proc[p].batch[r] = "fail"
    <2>1. RowAfter(p, r).status \in {outbox[r].status, FailStatus(p, r)}
      BY <1>1, <1>3 DEF RowAfter, RowRecord
    <2>2. FailStatus(p, r) # "dispatched"
      BY DEF FailStatus
    <2> QED BY <2>1, <2>2 DEF SentInv, DispatchedWasSent
  <1>4. CASE proc[p].batch[r] \notin {"ok", "fail"}
    BY <1>4 DEF RowAfter, SentInv, DispatchedWasSent
  <1> QED BY <1>2, <1>3, <1>4

\* Steps that send nothing, record no new "ok" and mark no row.
LEMMA QuietSent ==
  ASSUME SentInv, sent \subseteq sent',
         \A p \in Procs, r \in Rows : proc'[p].batch[r] = "ok" => proc[p].batch[r] = "ok",
         \A r \in Rows : outbox'[r] # None /\ outbox'[r].status = "dispatched" => r \in sent
  PROVE  SentInv'
  BY DEF SentInv, OkWasSent, DispatchedWasSent

\* A transaction that ends forgets its verdicts.
LEMMA BackToIdleBatch ==
  ASSUME IInv, NEW p \in Procs, NEW pc \in Pcs,
         proc' = [proc EXCEPT ![p] = [IdleTx EXCEPT !.pc = pc]]
  PROVE  \A q \in Procs, r \in Rows : proc'[q].batch[r] = "ok" => proc[q].batch[r] = "ok"
  BY DEF IInv, TypeOK, IdleTx, Tx, NoBatch, NoneRead

\* The steps of a transaction keep SentInv.
LEMMA TxSent ==
  ASSUME IInv, SentInv, NEW p \in Procs, TxStep(p)
  PROVE  SentInv'
  <1>1. \A r \in Rows : outbox[r] # None /\ outbox[r].status = "dispatched" => r \in sent
    BY DEF SentInv, DispatchedWasSent
  <1>2. proc[p] \in TxType /\ \A q \in Procs : proc[q] \in TxType
    BY DEF IInv, TypeOK
  <1>3. IdleTx = [IdleTx EXCEPT !.pc = "idle"]
    BY DEF IdleTx, Tx
  <1>4. ASSUME NEW r \in Rows, SendOk(p, r)
        PROVE  SentInv'
    <2>1. \A q \in Procs, x \in Rows : proc'[q].batch[x] = "ok" =>
              proc[q].batch[x] = "ok" \/ x = r
      BY <1>2, <1>4 DEF SendOk, IInv, TypeOK, TxType
    <2>2. sent' = sent \cup {r} /\ outbox' = outbox
      BY <1>4 DEF SendOk
    <2> QED BY <1>1, <2>1, <2>2 DEF SentInv, OkWasSent, DispatchedWasSent
  <1>5. ASSUME NEW r \in Rows, SendFail(p, r)
        PROVE  SentInv'
    <2>1. \A q \in Procs, x \in Rows : proc'[q].batch[x] = "ok" => proc[q].batch[x] = "ok"
      BY <1>2, <1>5 DEF SendFail, IInv, TypeOK, TxType
    <2> QED BY <1>1, <1>5, <2>1, QuietSent DEF SendFail
  <1>a. ASSUME NEW j \in Jobs, DoomRecord(p, j)
        PROVE  SentInv'
    <2>1. \A q \in Procs : proc'[q].batch = proc[q].batch
      BY <1>2, <1>a DEF DoomRecord, IInv, TypeOK, TxType
    <2> QED BY <1>1, <1>a, <2>1, QuietSent DEF DoomRecord
  <1>6. CASE HookSelect(p)
    <2>1. \A q \in Procs, x \in Rows : proc'[q].batch[x] = "ok" => proc[q].batch[x] = "ok"
      BY <1>2, <1>6 DEF HookSelect, Select, IInv, TypeOK, TxType
    <2> QED BY <1>1, <1>6, <2>1, QuietSent DEF HookSelect
  <1>7. CASE EnqueueRollback(p)
    <2>1. \A q \in Procs, x \in Rows : proc'[q].batch[x] = "ok" => proc[q].batch[x] = "ok"
      BY <1>3, <1>7, BackToIdleBatch DEF EnqueueRollback, Pcs
    <2> QED BY <1>1, <1>7, <2>1, QuietSent DEF EnqueueRollback
  <1>8. CASE HookCommit(p)
    <2>1. \A q \in Procs, x \in Rows : proc'[q].batch[x] = "ok" => proc[q].batch[x] = "ok"
      BY <1>3, <1>8, BackToIdleBatch DEF HookCommit, Pcs
    <2>2. ASSUME NEW r \in Rows, outbox'[r] # None, outbox'[r].status = "dispatched"
          PROVE  r \in sent
      <3>1. outbox[r] # None
        BY <1>8, <2>2, HookTables
      <3>2. outbox'[r] = RowAfter(p, r)
        BY <1>8 DEF HookCommit
      <3> QED BY <2>2, <3>1, <3>2, RowAfterDispatched
    <2>3. sent' = sent
      BY <1>8 DEF HookCommit
    <2> QED BY <2>1, <2>2, <2>3, QuietSent
  <1>9. CASE Commit(p)
    <2>1. \A q \in Procs, x \in Rows : proc'[q].batch[x] = "ok" => proc[q].batch[x] = "ok"
      BY <1>3, <1>9, BackToIdleBatch DEF Commit, Pcs
    <2>2. PICK ids \in FreshIds(p) : outbox' = [r \in Rows |-> OutboxAfter(p, ids, r)]
      BY <1>9 DEF Commit
    <2>3. ASSUME NEW r \in Rows, outbox'[r] # None, outbox'[r].status = "dispatched"
          PROVE  r \in sent
      <3>1. outbox'[r] = OutboxAfter(p, ids, r)
        BY <2>2
      <3>2. outbox[r] # None /\ outbox'[r] = RowAfter(p, r)
        BY <2>3, <3>1, OutboxAfterType
      <3> QED BY <2>3, <3>2, RowAfterDispatched
    <2>4. sent' = sent
      BY <1>9 DEF Commit
    <2> QED BY <2>1, <2>3, <2>4, QuietSent
  <1> QED BY <1>4, <1>5, <1>a, <1>6, <1>7, <1>8, <1>9 DEF TxStep

\* Every step keeps SentInv.
LEMMA NextSent ==
  ASSUME IInv, SentInv, [Next]_vars
  PROVE  SentInv'
  <1>1. \A r \in Rows : outbox[r] # None /\ outbox[r].status = "dispatched" => r \in sent
    BY DEF SentInv, DispatchedWasSent
  <1>2. \A q \in Procs : proc[q] \in TxType
    BY DEF IInv, TypeOK
  <1>3. IdleTx = [IdleTx EXCEPT !.pc = "idle"]
    BY DEF IdleTx, Tx
  <1>4. ASSUME NEW s \in Schedulers, SchedulerStep(s)
        PROVE  SentInv'
    <2>0. s \in Procs
      BY DEF Procs
    <2>1. \A q \in Procs, x \in Rows : proc'[q].batch[x] = "ok" => proc[q].batch[x] = "ok"
      <3>1. CASE TickSelect(s)
        BY <1>2, <2>0, <3>1 DEF TickSelect, Select, IInv, TypeOK, TxType
      <3>2. ASSUME NEW due \in SUBSET CronKeys, TickCollect(s, due)
            PROVE  \A q \in Procs, x \in Rows :
                      proc'[q].batch[x] = "ok" => proc[q].batch[x] = "ok"
        BY <1>2, <2>0, <3>2 DEF TickCollect, IInv, TypeOK, TxType
      <3>3. CASE TickAbort(s)
        BY <1>3, <2>0, <3>3, BackToIdleBatch DEF TickAbort, Pcs
      <3> QED BY <1>4, <3>1, <3>2, <3>3 DEF SchedulerStep
    <2>2. UNCHANGED <<sent, outbox>>
      BY <1>4 DEF SchedulerStep, TickSelect, TickCollect, TickAbort
    <2> QED BY <1>1, <2>1, <2>2, QuietSent
  <1>5. ASSUME NEW c \in Clients, ClientStep(c)
        PROVE  SentInv'
    <2>0. c \in Procs
      BY DEF Procs
    <2>1. \A q \in Procs, x \in Rows : proc'[q].batch[x] = "ok" => proc[q].batch[x] = "ok"
      <3>1. ASSUME NEW k \in Keys, EnqueueBegin(c, k)
            PROVE  \A q \in Procs, x \in Rows :
                      proc'[q].batch[x] = "ok" => proc[q].batch[x] = "ok"
        BY <1>2, <2>0, <3>1 DEF EnqueueBegin, IInv, TypeOK, TxType
      <3>2. ASSUME NEW j \in Jobs, CancelBegin(c, j)
            PROVE  \A q \in Procs, x \in Rows :
                      proc'[q].batch[x] = "ok" => proc[q].batch[x] = "ok"
        BY <1>2, <2>0, <3>2 DEF CancelBegin, IInv, TypeOK, TxType
      <3>3. CASE CancelCommit(c)
        BY <1>3, <2>0, <3>3, BackToIdleBatch DEF CancelCommit, Pcs
      <3> QED BY <1>5, <3>1, <3>2, <3>3 DEF ClientStep
    <2>2. UNCHANGED <<sent, outbox>>
      BY <1>5 DEF ClientStep, EnqueueBegin, CancelBegin, CancelCommit
    <2> QED BY <1>1, <2>1, <2>2, QuietSent
  <1>6. ASSUME NEW p \in Procs, ProcCrash(p)
        PROVE  SentInv'
    <2>1. \A q \in Procs, x \in Rows : proc'[q].batch[x] = "ok" => proc[q].batch[x] = "ok"
      BY <1>3, <1>6, BackToIdleBatch DEF ProcCrash, Pcs
    <2> QED BY <1>1, <1>6, <2>1, QuietSent DEF ProcCrash
  <1>7. CASE UNCHANGED <<sent, outbox, proc>>
    BY <1>1, <1>7, QuietSent
  <1>8. ASSUME NEW r \in Rows, RowWindowOpens(r)
        PROVE  SentInv'
    <2>1. \A q \in Rows : outbox'[q] # None /\ outbox'[q].status = "dispatched" => q \in sent
      <3>1. outbox[r] # None /\ outbox[r] \in RowRecord
        BY <1>8 DEF RowWindowOpens, IInv, TypeOK
      <3>2. [outbox[r] EXCEPT !.waiting = FALSE].status = outbox[r].status
        BY <3>1, SMTT(30) DEF RowRecord
      <3> QED BY <1>1, <1>8, <3>1, <3>2 DEF RowWindowOpens, IInv, TypeOK
    <2> QED BY <1>8, <2>1, QuietSent DEF RowWindowOpens
  <1>9. ASSUME \/ \E w \in Workers : WorkerStep(w) \/ WorkerCrash(w)
               \/ \E r \in Rows : DropRevoked(r)
               \/ \E j \in Jobs : JobWindowOpens(j)
               \/ UNCHANGED vars
        PROVE  UNCHANGED <<sent, outbox, proc>>
    BY <1>9 DEF WorkerStep, Receive, MarkStarted, FnCommit, FnRaise, LoadJob, LoadRecord,
                MarkSucceeded, MarkRetrying, RetryJob, MarkDeadLetter, WorkerCrash, DropRevoked, JobWindowOpens, vars
  <1> QED BY <1>4, <1>5, <1>6, <1>7, <1>8, <1>9, TxSent DEF Next, CrashStep, TimeStep

\* Whatever dispatchers race, fail and crash, a row is marked dispatched only
\* if its message reached the broker.
THEOREM DispatchedWasSentHolds == Spec => []DispatchedWasSent
  <1>1. Init => IInv /\ SentInv
    <2>1. Init => SentInv
      BY DEF Init, SentInv, OkWasSent, DispatchedWasSent, IdleTx, Tx, NoBatch, NoneRead
    <2> QED BY <2>1, InitIInv
  <1>2. IInv /\ SentInv /\ [Next]_vars => IInv' /\ SentInv'
    BY NextIInv, NextSent
  <1>3. SentInv => DispatchedWasSent
    BY DEF SentInv
  <1> QED BY <1>1, <1>2, <1>3, PTL DEF Spec

----------------------------------------------------------------------------
(* What the sessions have loaded.                                          *)

\* A reading is the one of before, a job just loaded, or completed with the
\* record just loaded.
Reread(old, new, j) ==
    \/ new = old
    \/ new = ReadJob(j)
    \/ old # None /\ new.status = old.status /\ new.record = idem[job[j].key]

\* Steps that leave batches, loaded rows and readings, or empty them.
Quiet(q) ==
    \/ /\ proc'[q].batch = proc[q].batch /\ proc'[q].seen = proc[q].seen
       /\ proc'[q].read = proc[q].read
    \/ /\ \A r \in Rows : proc'[q].batch[r] # "fail"
       /\ proc'[q].read = proc[q].read \/ proc'[q].read = NoneRead
    \/ /\ \A r \in Rows : proc'[q].batch[r] = "fail" => proc[q].batch[r] = "fail"
       /\ proc'[q].seen = proc[q].seen /\ proc'[q].read = proc[q].read

\* What a step does to the readings of dispatchers, and to the jobs they are
\* about to give up on.
ReadsMove ==
    \A q \in Procs :
       /\ \A j \in Jobs : proc'[q].read[j] # None =>
             /\ Reread(proc[q].read[j], proc'[q].read[j], j)
             /\ proc'[q].read[j] = proc[q].read[j] \/ UNCHANGED <<job, idem>>
       /\ \A j \in Doomed(q)' : \/ j \in Doomed(q) /\ (proc[q].read[j] # None => proc'[q].read[j] # None)
                                \/ proc'[q].read[j] # None

\* What a step does to the readings of workers.
WorkerReadsMove ==
    \A w \in Workers : worker'[w].pc # "idle" /\ worker'[w].read # None =>
       /\ worker[w].pc # "idle" /\ worker'[w].job = worker[w].job
       /\ Reread(worker[w].read, worker'[w].read, worker[w].job)
       /\ worker'[w].read = worker[w].read \/ UNCHANGED <<job, idem>>

\* A quiet step of a process adds no job to those given up on.
LEMMA QuietMoves ==
  ASSUME IInv, NEW q \in Procs, Quiet(q)
  PROVE  /\ \A j \in Jobs : proc'[q].read[j] # None => proc'[q].read[j] = proc[q].read[j]
         /\ \A j \in Doomed(q)' : \/ j \in Doomed(q) /\ (proc[q].read[j] # None => proc'[q].read[j] # None)
                                  \/ proc'[q].read[j] # None
  <1>1. CASE /\ \A r \in Rows : proc'[q].batch[r] = "fail" => proc[q].batch[r] = "fail"
             /\ proc'[q].seen = proc[q].seen /\ proc'[q].read = proc[q].read
    <2>1. Doomed(q)' \subseteq Doomed(q)
      BY <1>1 DEF Doomed, Selected, FailStatus, Tried
    <2> QED BY <1>1, <2>1
  <1>2. CASE /\ \A r \in Rows : proc'[q].batch[r] # "fail"
             /\ proc'[q].read = proc[q].read \/ proc'[q].read = NoneRead
    <2>1. Doomed(q)' = {}
      BY <1>2 DEF Doomed, Selected
    <2> QED BY <1>2, <2>1 DEF NoneRead
  <1> QED BY <1>1, <1>2 DEF Quiet

\* Where nobody's transaction changes.
LEMMA SameReads ==
  ASSUME IInv, UNCHANGED proc PROVE ReadsMove
  BY QuietMoves DEF Quiet, ReadsMove, Reread

\* The steps of one process: the others are quiet.
LEMMA OneReads ==
  ASSUME IInv, NEW p \in Procs, NEW tx \in TxType, proc' = [proc EXCEPT ![p] = tx],
         \/ Quiet(p)
         \/ /\ UNCHANGED <<job, idem>>
            /\ \A j \in Jobs : tx.read[j] # None => Reread(proc[p].read[j], tx.read[j], j)
            /\ \A j \in Doomed(p)' : \/ j \in Doomed(p) /\ (proc[p].read[j] # None => tx.read[j] # None)
                                     \/ tx.read[j] # None
  PROVE  ReadsMove
  <1>1. proc'[p] = tx /\ \A q \in Procs : q # p => proc'[q] = proc[q]
    BY TxUpdate DEF IInv
  <1>2. \A q \in Procs : q # p => Quiet(q)
    BY <1>1 DEF Quiet
  <1>3. ASSUME NEW q \in Procs, Quiet(q)
        PROVE  /\ \A j \in Jobs : proc'[q].read[j] # None =>
                     /\ Reread(proc[q].read[j], proc'[q].read[j], j)
                     /\ proc'[q].read[j] = proc[q].read[j] \/ UNCHANGED <<job, idem>>
               /\ \A j \in Doomed(q)' : \/ j \in Doomed(q) /\ (proc[q].read[j] # None => proc'[q].read[j] # None)
                                        \/ proc'[q].read[j] # None
    BY <1>3, QuietMoves DEF Reread
  <1>4. ASSUME ~Quiet(p)
        PROVE  /\ \A j \in Jobs : proc'[p].read[j] # None =>
                     /\ Reread(proc[p].read[j], proc'[p].read[j], j)
                     /\ proc'[p].read[j] = proc[p].read[j] \/ UNCHANGED <<job, idem>>
               /\ \A j \in Doomed(p)' : \/ j \in Doomed(p) /\ (proc[p].read[j] # None => proc'[p].read[j] # None)
                                        \/ proc'[p].read[j] # None
    BY <1>1, <1>4
  <1> QED BY <1>2, <1>3, <1>4 DEF ReadsMove

\* A transaction that ends, or begins with nothing loaded.
LEMMA EndReads ==
  ASSUME IInv, NEW p \in Procs, NEW pc \in Pcs,
         proc' = [proc EXCEPT ![p] = [IdleTx EXCEPT !.pc = pc]]
  PROVE  ReadsMove
  <1> DEFINE tx == [IdleTx EXCEPT !.pc = pc]
  <1>1. tx \in TxType /\ tx.batch = NoBatch /\ tx.read = NoneRead
    BY IdleTxType DEF TxType, IdleTx, Tx
  <1>2. proc' = [proc EXCEPT ![p] = tx]
    OBVIOUS
  <1> HIDE DEF tx
  <1>3. Quiet(p)
    BY <1>1, <1>2, TxUpdate DEF IInv, Quiet, NoBatch
  <1> QED BY <1>1, <1>2, <1>3, OneReads

\* A refused message: the job is loaded when the row is given up on.
LEMMA FailReads ==
  ASSUME IInv, NEW p \in Procs, NEW r \in Rows, SendFail(p, r)
  PROVE  ReadsMove
  <1> DEFINE tx == [proc[p] EXCEPT !.batch[r] = "fail", !.read = ReadsAfter(p, r)]
             i == proc[p].seen[r].job
  <1>1. proc[p] \in TxType /\ proc[p].batch[r] = "todo" /\ UNCHANGED <<job, idem>>
    BY DEF SendFail, IInv, TypeOK
  <1>2. proc' = [proc EXCEPT ![p] = tx]
    BY DEF SendFail, IInv, TypeOK
  <1>3. /\ ReadsAfter(p, r) \in [Jobs -> Reading \cup {None}]
        /\ \A j \in Jobs : \/ ReadsAfter(p, r)[j] = proc[p].read[j]
                           \/ ReadsAfter(p, r)[j] = ReadJob(j) /\ job[j] # None
        /\ FailStatus(p, r) = "dead_letter" => ReadsAfter(p, r)[i] # None
    BY <1>1, ReadsAfterType
  <1>4. /\ tx \in TxType /\ tx.read = ReadsAfter(p, r) /\ tx.seen = proc[p].seen
        /\ \A q \in Rows : tx.batch[q] = "fail" => proc[p].batch[q] = "fail" \/ q = r
    BY <1>1, <1>3 DEF TxType, Verdicts
  <1> HIDE DEF tx
  <1>5. \A j \in Jobs : tx.read[j] # None => Reread(proc[p].read[j], tx.read[j], j)
    BY <1>3, <1>4 DEF Reread
  <1>6. proc'[p] = tx
    BY <1>2, <1>4, TxUpdate DEF IInv
  <1>7. ASSUME NEW j \in Doomed(p)', tx.read[j] = None
        PROVE  j \in Doomed(p) /\ proc[p].read[j] = None
    <2>1. PICK q \in Rows : /\ tx.batch[q] = "fail" /\ tx.batch[q] # "skip"
                            /\ FailStatus(p, q) = "dead_letter" /\ j = proc[p].seen[q].job
      BY <1>4, <1>6 DEF Doomed, Selected, FailStatus, Tried
    <2>2. q # r
      BY <1>3, <1>4, <1>7, <2>1
    <2>3. proc[p].batch[q] = "fail"
      BY <1>4, <2>1, <2>2
    <2>4. j \in Doomed(p)
      BY <2>1, <2>3 DEF Doomed, Selected
    <2>5. j \in Jobs
      BY <2>4, DoomedExist
    <2>6. ReadsAfter(p, r)[j] = None
      BY <1>4, <1>7
    <2>7. proc[p].read[j] = None
      BY <1>3, <2>5, <2>6, ReadJobType
    <2> QED BY <2>4, <2>7
  <1> QED BY <1>1, <1>2, <1>4, <1>5, <1>7, OneReads

\* The record of a job is loaded.
LEMMA RecordReads ==
  ASSUME IInv, NEW p \in Procs, NEW i \in Jobs, DoomRecord(p, i)
  PROVE  ReadsMove
  <1>1. PICK rd \in Reading :
            /\ proc' = [proc EXCEPT ![p] = [proc[p] EXCEPT !.read[i] = rd]]
            /\ rd.status = proc[p].read[i].status /\ rd.record = idem[job[i].key]
            /\ [proc[p] EXCEPT !.read[i] = rd] \in TxType /\ job[i] # None
            /\ rd # None
    BY DoomRecordTx, Zenon
  <1> DEFINE tx == [proc[p] EXCEPT !.read[i] = rd]
  <1>2. proc[p] \in TxType /\ UNCHANGED <<job, idem>> /\ proc[p].read[i] # None
    BY DEF DoomRecord, IInv, TypeOK
  <1>3. /\ tx.batch = proc[p].batch /\ tx.seen = proc[p].seen
        /\ tx.read[i] = rd /\ \A j \in Jobs : j # i => tx.read[j] = proc[p].read[j]
    BY <1>2 DEF TxType
  <1>4. tx \in TxType /\ proc' = [proc EXCEPT ![p] = tx]
    BY <1>1
  <1> HIDE DEF tx
  <1>5. \A j \in Jobs : tx.read[j] # None => Reread(proc[p].read[j], tx.read[j], j)
    BY <1>1, <1>2, <1>3 DEF Reread
  <1>6. proc'[p] = tx
    BY <1>4, TxUpdate DEF IInv
  <1>7. Doomed(p)' = Doomed(p)
    BY <1>3, <1>6 DEF Doomed, Selected, FailStatus, Tried
  <1>8. \A j \in Doomed(p) : proc[p].read[j] # None => tx.read[j] # None
    BY <1>1, <1>3, DoomedExist
  <1> QED BY <1>2, <1>4, <1>5, <1>7, <1>8, OneReads

\* Every step of a process.
LEMMA ProcReads ==
  ASSUME IInv, NEW p \in Procs,
         \/ TxStep(p) \/ ProcCrash(p) \/ TickSelect(p) \/ TickAbort(p) \/ CancelCommit(p)
         \/ \E due \in SUBSET CronKeys : TickCollect(p, due)
         \/ \E k \in Keys : EnqueueBegin(p, k)
         \/ \E j \in Jobs : CancelBegin(p, j)
  PROVE  ReadsMove
  <1>a. IdleTx = [IdleTx EXCEPT !.pc = "idle"]
    BY DEF IdleTx, Tx
  <1>0. proc[p] \in TxType /\ proc \in [Procs -> TxType] /\ IdleTx = [IdleTx EXCEPT !.pc = "idle"]
    BY <1>a DEF IInv, TypeOK
  <1>1. ASSUME NEW r \in Rows, SendOk(p, r) PROVE ReadsMove
    <2> DEFINE tx == [proc[p] EXCEPT !.batch[r] = "ok"]
    <2>1. proc' = [proc EXCEPT ![p] = tx]
      BY <1>1 DEF SendOk, IInv, TypeOK
    <2>2. /\ tx \in TxType /\ tx.seen = proc[p].seen /\ tx.read = proc[p].read
          /\ \A q \in Rows : tx.batch[q] = "fail" => proc[p].batch[q] = "fail"
      BY <1>0 DEF TxType, Verdicts
    <2> HIDE DEF tx
    <2>3. Quiet(p)
      BY <2>1, <2>2, TxUpdate DEF IInv, Quiet
    <2> QED BY <2>1, <2>2, <2>3, OneReads
  <1>2. ASSUME NEW pc \in {"hookSend", "tickSend"}, Select(p, pc) PROVE ReadsMove
    <2> DEFINE b == [r \in Rows |-> IF Due(r) THEN "todo" ELSE "skip"]
               sn == [r \in Rows |-> IF Due(r) THEN outbox[r] ELSE None]
               tx == [proc[p] EXCEPT !.pc = pc, !.batch = b, !.seen = sn]
    <2>1. proc' = [proc EXCEPT ![p] = tx]
      BY <1>2 DEF Select, IInv, TypeOK
    <2>2. b \in [Rows -> Verdicts] /\ sn \in [Rows -> RowRecord \cup {None}]
          /\ \A r \in Rows : b[r] # "fail"
      BY DEF Verdicts, IInv, TypeOK
    <2> HIDE DEF b, sn
    <2>3. tx \in TxType /\ tx.batch = b /\ tx.read = proc[p].read
      BY <1>0, <2>2 DEF TxType, Pcs
    <2> HIDE DEF tx
    <2>4. Quiet(p)
      BY <2>1, <2>2, <2>3, TxUpdate DEF IInv, Quiet
    <2> QED BY <2>1, <2>3, <2>4, OneReads
  <1>3. CASE \/ EnqueueRollback(p) \/ HookCommit(p) \/ Commit(p)
             \/ ProcCrash(p) \/ TickAbort(p) \/ CancelCommit(p)
    <2>1. \E pc \in Pcs : proc' = [proc EXCEPT ![p] = [IdleTx EXCEPT !.pc = pc]]
      BY <1>0, <1>3 DEF EnqueueRollback, HookCommit, Commit, ProcCrash, TickAbort, CancelCommit, Pcs
    <2> QED BY <2>1, EndReads
  <1>4. CASE \/ \E due \in SUBSET CronKeys : TickCollect(p, due)
             \/ \E k \in Keys : EnqueueBegin(p, k)
             \/ \E j \in Jobs : CancelBegin(p, j)
    <2>1. /\ proc' \in [Procs -> TxType]
          /\ \E tx : proc' = [proc EXCEPT ![p] = tx] /\ tx.batch = proc[p].batch
                     /\ tx.seen = proc[p].seen /\ tx.read = proc[p].read
      <3>1. IInv'
        BY <1>4, CollectStep
      <3>2. CASE \E due \in SUBSET CronKeys : TickCollect(p, due)
        <4>0. PICK due \in SUBSET CronKeys : TickCollect(p, due)
          BY <3>2
        <4> DEFINE ret == {<<j, job[j].attempts, outbox[<<job[j].key, job[j].attempts>>] = None>>
                              : j \in ReadyForRetry}
                   wa == {k \in due : idem[k] = "absent" /\ JobsWithKey(k) = {}}
        <4>1. proc' = [proc EXCEPT ![p] = [proc[p] EXCEPT !.pc = "insert", !.retry = ret, !.want = wa]]
          BY <4>0 DEF TickCollect, IInv, TypeOK
        <4> HIDE DEF ret, wa
        <4>2. LET tx == [proc[p] EXCEPT !.pc = "insert", !.retry = ret, !.want = wa] IN
              tx.batch = proc[p].batch /\ tx.seen = proc[p].seen /\ tx.read = proc[p].read
          BY <1>0 DEF TxType
        <4> QED BY <3>1, <4>1, <4>2 DEF IInv, TypeOK
      <3>3. CASE \E k \in Keys : EnqueueBegin(p, k)
        <4>1. PICK wa : proc' = [proc EXCEPT ![p] = [proc[p] EXCEPT !.pc = "insert", !.want = wa]]
          BY <3>3 DEF EnqueueBegin, IInv, TypeOK
        <4>2. LET tx == [proc[p] EXCEPT !.pc = "insert", !.want = wa] IN
              tx.batch = proc[p].batch /\ tx.seen = proc[p].seen /\ tx.read = proc[p].read
          BY <1>0 DEF TxType
        <4> QED BY <3>1, <4>1, <4>2 DEF IInv, TypeOK
      <3>4. CASE \E j \in Jobs : CancelBegin(p, j)
        <4>1. PICK tg : proc' = [proc EXCEPT ![p] = [proc[p] EXCEPT !.pc = "cancel", !.target = tg]]
          BY <3>4 DEF CancelBegin, IInv, TypeOK
        <4>2. LET tx == [proc[p] EXCEPT !.pc = "cancel", !.target = tg] IN
              tx.batch = proc[p].batch /\ tx.seen = proc[p].seen /\ tx.read = proc[p].read
          BY <1>0 DEF TxType
        <4> QED BY <3>1, <4>1, <4>2 DEF IInv, TypeOK
      <3> QED BY <1>4, <3>2, <3>3, <3>4
    <2>2. PICK tx : proc' = [proc EXCEPT ![p] = tx] /\ tx.batch = proc[p].batch
                     /\ tx.seen = proc[p].seen /\ tx.read = proc[p].read
      BY <2>1
    <2>3. tx \in TxType /\ proc'[p] = tx
      BY <1>0, <2>1, <2>2
    <2>4. Quiet(p)
      BY <2>2, <2>3 DEF Quiet
    <2> QED BY <2>2, <2>3, <2>4, OneReads
  <1>5. CASE TxStep(p)
    BY <1>1, <1>2, <1>3, <1>5, FailReads, RecordReads DEF TxStep, HookSelect
  <1> QED BY <1>2, <1>3, <1>4, <1>5 DEF TickSelect

\* Every step but a worker's leaves what the workers loaded.
LEMMA SameWorkerReads ==
  ASSUME UNCHANGED worker PROVE WorkerReadsMove
  BY DEF WorkerReadsMove, Reread

\* Every step of a worker.
LEMMA WorkerReads ==
  ASSUME IInv, NEW w \in Workers, WorkerStep(w) \/ WorkerCrash(w)
  PROVE  WorkerReadsMove
  <1>1. worker \in [Workers -> WorkerType] /\ worker[w] \in WorkerType
    BY DEF IInv, TypeOK
  <1>2. ASSUME NEW wk, worker' = [worker EXCEPT ![w] = wk],
               wk.pc # "idle" /\ wk.read # None =>
                  /\ worker[w].pc # "idle" /\ wk.job = worker[w].job
                  /\ Reread(worker[w].read, wk.read, worker[w].job)
                  /\ wk.read = worker[w].read \/ UNCHANGED <<job, idem>>
        PROVE  WorkerReadsMove
    <2>1. worker'[w] = wk /\ \A v \in Workers : v # w => worker'[v] = worker[v]
      BY <1>1, <1>2
    <2> QED BY <1>2, <2>1 DEF WorkerReadsMove, Reread
  <1>3. CASE LoadJob(w) \/ LoadRecord(w)
    <2>1. PICK wk \in WorkerType :
              /\ worker' = [worker EXCEPT ![w] = wk] /\ wk.job = worker[w].job
              /\ \/ wk.read = ReadJob(worker[w].job)
                 \/ /\ worker[w].read # None /\ wk.read.status = worker[w].read.status
                    /\ wk.read.record = idem[job[worker[w].job].key]
      BY <1>3, LoadWorker
    <2>2. worker[w].pc # "idle" /\ UNCHANGED <<job, idem>>
      BY <1>3, LoadWorker DEF LoadJob, LoadRecord
    <2> QED BY <1>2, <2>1, <2>2 DEF Reread
  <1>4. CASE MarkStarted(w) \/ FnCommit(w) \/ FnRaise(w)
    <2>1. PICK pc \in WorkerPcs : worker' = [worker EXCEPT ![w] = [worker[w] EXCEPT !.pc = pc]]
      BY <1>1, <1>4 DEF MarkStarted, FnCommit, FnRaise, WorkerPcs
    <2>2. worker[w].pc # "idle"
      BY <1>4 DEF MarkStarted, FnCommit, FnRaise
    <2> DEFINE wk == [worker[w] EXCEPT !.pc = pc]
    <2>3. wk.job = worker[w].job /\ wk.read = worker[w].read
      BY <1>1 DEF WorkerType
    <2> HIDE DEF wk
    <2> QED BY <1>2, <2>1, <2>2, <2>3 DEF Reread, wk
  <1>5. ASSUME NEW r \in Rows, Receive(w, r) PROVE WorkerReadsMove
    <2> DEFINE j == outbox[r].job
               wk == IF should_run(job[j])
                       THEN [IdleWorker EXCEPT !.pc = "loaded", !.job = j, !.attempt = job[j].attempts + 1]
                       ELSE IdleWorker
    <2>1. worker' = [worker EXCEPT ![w] = wk]
      BY <1>5 DEF Receive
    <2>2. wk.read = None
      BY DEF IdleWorker
    <2> HIDE DEF wk
    <2> QED BY <1>2, <2>1, <2>2
  <1>6. CASE MarkSucceeded(w) \/ MarkRetrying(w) \/ MarkDeadLetter(w) \/ WorkerCrash(w)
    <2>1. worker' = [worker EXCEPT ![w] = IdleWorker] /\ IdleWorker.pc = "idle"
      BY <1>6 DEF MarkSucceeded, MarkRetrying, RetryJob, MarkDeadLetter, WorkerCrash, IdleWorker
    <2> QED BY <1>2, <2>1
  <1> QED BY <1>3, <1>4, <1>5, <1>6 DEF WorkerStep

\* Every step of the queue.
LEMMA StepReads ==
  ASSUME IInv, [Next]_vars
  PROVE  ReadsMove /\ WorkerReadsMove
  <1>1. ASSUME NEW s \in Schedulers, SchedulerStep(s) PROVE ReadsMove /\ UNCHANGED worker
    BY <1>1, ProcReads DEF SchedulerStep, Procs, TickSelect, TickCollect, TickAbort
  <1>2. ASSUME NEW p \in Procs, TxStep(p) PROVE ReadsMove /\ UNCHANGED worker
    BY <1>2, ProcReads DEF TxStep, SendOk, SendFail, DoomRecord, Commit, EnqueueRollback, HookSelect, HookCommit
  <1>3. ASSUME NEW c \in Clients, ClientStep(c) PROVE ReadsMove /\ UNCHANGED worker
    BY <1>3, ProcReads DEF ClientStep, Procs, EnqueueBegin, CancelBegin, CancelCommit
  <1>4. ASSUME NEW w \in Workers, WorkerStep(w) \/ WorkerCrash(w) PROVE WorkerReadsMove /\ UNCHANGED proc
    <2>1. UNCHANGED proc
      BY <1>4 DEF WorkerStep, Receive, MarkStarted, FnCommit, FnRaise, LoadJob, LoadRecord, MarkSucceeded,
                  MarkRetrying, RetryJob, MarkDeadLetter, WorkerCrash
    <2> QED BY <1>4, <2>1, WorkerReads
  <1>5. ASSUME NEW p \in Procs, ProcCrash(p) PROVE ReadsMove /\ UNCHANGED worker
    BY <1>5, ProcReads DEF ProcCrash
  <1>6. CASE TimeStep \/ (\E r \in Rows : DropRevoked(r)) \/ UNCHANGED vars
    <2>1. UNCHANGED <<proc, worker>>
      BY <1>6 DEF TimeStep, JobWindowOpens, RowWindowOpens, DropRevoked, vars
    <2> QED BY <2>1, SameReads, SameWorkerReads
  <1> QED BY <1>1, <1>2, <1>3, <1>4, <1>5, <1>6, SameReads, SameWorkerReads DEF Next, CrashStep

----------------------------------------------------------------------------
(* Outcomes and the idempotency records.                                   *)

Completed == {"succeeded", "failed"}

\* A completed record stays completed.
RecordsStay == \A k \in Keys : idem[k] \in Completed => idem'[k] \in Completed

\* A worker about to mark success has committed its function's work.
CommittedRan == \A w \in Workers : worker[w].pc = "committed" => effects[worker[w].job] > 0

\* A record loaded as completed is completed, and a job about to be given up
\* on has been loaded.
ReadCompleted ==
    /\ \A p \in Procs, j \in Jobs :
          proc[p].read[j] # None /\ proc[p].read[j].record \in Completed => idem[job[j].key] \in Completed
    /\ \A p \in Procs : \A j \in Doomed(p) : proc[p].read[j] # None
    /\ \A w \in Workers :
          worker[w].pc # "idle" /\ worker[w].read # None /\ worker[w].read.record \in Completed
             => idem[job[worker[w].job].key] \in Completed

OutcomeInv == OutcomeRecorded /\ CommittedRan /\ ReadCompleted

\* The outcome of one job is in order.
Ordered(j) ==
    job[j] # None =>
        /\ job[j].status \in {"succeeded", "dead_letter"} => idem[job[j].key] \in Completed
        /\ "succeeded" \in {job[j].status, idem[job[j].key]} => effects[j] > 0

\* OutcomeRecorded job by job.
LEMMA OrderedAll == OutcomeRecorded <=> \A j \in Jobs : Ordered(j)
  BY DEF OutcomeRecorded, Ordered, Completed, Exists

\* Different jobs write different records.
LEMMA KeysApart ==
  ASSUME Created, NEW i \in Jobs, NEW j \in Jobs, i # j, job[i] # None, job[j] # None
  PROVE  job[i].key # job[j].key
  BY DEF Created, OneJobPerKey, Exists

\* What is loaded stays true while jobs are kept and records stay completed.
LEMMA KeptCompleted ==
  ASSUME IInv, ReadCompleted, ReadsMove, WorkerReadsMove, JobsKept, RecordsStay
  PROVE  ReadCompleted'
  <1>1. \A j \in Jobs : job[j] # None => job[j].key \in Keys /\ job'[j].key = job[j].key
    BY DEF IInv, TypeOK, JobRecord, JobsKept
  <1>2. None \notin Completed
    BY NoneAssumption DEF Completed, IdemStatuses
  <1>3. ASSUME NEW p \in Procs, NEW j \in Jobs, proc'[p].read[j] # None, proc'[p].read[j].record \in Completed
        PROVE  idem'[job'[j].key] \in Completed
    <2>1. /\ Reread(proc[p].read[j], proc'[p].read[j], j)
          /\ proc'[p].read[j] = proc[p].read[j] \/ UNCHANGED <<job, idem>>
      BY <1>3 DEF ReadsMove
    <2>2. CASE proc'[p].read[j] = proc[p].read[j]
      <3>1. job[j] # None /\ idem[job[j].key] \in Completed
        BY <1>3, <2>2 DEF ReadCompleted, IInv, Linked, ReadLinked
      <3> QED BY <1>1, <3>1 DEF RecordsStay
    <2>3. CASE proc'[p].read[j] = ReadJob(j)
      <3>1. proc'[p].read[j].record = None
        BY <2>3 DEF ReadJob
      <3> QED BY <1>2, <1>3, <3>1
    <2>4. CASE proc'[p].read[j] # proc[p].read[j] /\ proc'[p].read[j].record = idem[job[j].key]
      BY <1>3, <2>1, <2>4
    <2> QED BY <2>1, <2>2, <2>3, <2>4 DEF Reread
  <1>4. \A p \in Procs : \A j \in Doomed(p)' : proc'[p].read[j] # None
    BY DEF ReadsMove, ReadCompleted
  <1>5. ASSUME NEW w \in Workers, worker'[w].pc # "idle", worker'[w].read # None,
               worker'[w].read.record \in Completed
        PROVE  idem'[job'[worker'[w].job].key] \in Completed
    <2> DEFINE j == worker[w].job
    <2>1. /\ worker[w].pc # "idle" /\ worker'[w].job = j
          /\ Reread(worker[w].read, worker'[w].read, j)
          /\ worker'[w].read = worker[w].read \/ UNCHANGED <<job, idem>>
      BY <1>5 DEF WorkerReadsMove
    <2>0. j \in Jobs /\ job[j] # None
      BY <2>1 DEF IInv, Linked, WorkersLinked
    <2>2. CASE worker'[w].read = worker[w].read
      <3>1. idem[job[j].key] \in Completed
        BY <1>5, <2>1, <2>2 DEF ReadCompleted
      <3> QED BY <1>1, <2>0, <2>1, <3>1 DEF RecordsStay
    <2>3. CASE worker'[w].read = ReadJob(j)
      <3>1. worker'[w].read.record = None
        BY <2>3 DEF ReadJob
      <3> QED BY <1>2, <1>5, <3>1
    <2>4. CASE worker'[w].read # worker[w].read /\ worker'[w].read.record = idem[job[j].key]
      BY <1>5, <2>1, <2>4
    <2> QED BY <2>1, <2>2, <2>3, <2>4 DEF Reread
  <1> QED BY <1>3, <1>4, <1>5 DEF ReadCompleted

\* A step in which every job keeps its key, status, record and effects, takes a
\* status that is not an outcome, or is given up on with its record completed.
LEMMA CalmOutcome ==
  ASSUME OutcomeRecorded,
         \A j \in Jobs : effects[j] > 0 => effects'[j] > 0,
         \A j \in Jobs : job'[j] # None =>
            \/ job[j] = None /\ job'[j].status = "queued" /\ idem'[job'[j].key] = "processing"
            \/ /\ job[j] # None
               /\ job'[j].key = job[j].key
               /\ job'[j].status # "succeeded" \/ job'[j].status = job[j].status
               /\ job'[j].status # "dead_letter" \/ job'[j].status = job[j].status
               /\ idem'[job[j].key] = idem[job[j].key]
            \/ /\ job[j] # None
               /\ job'[j].key = job[j].key
               /\ job'[j].status # "succeeded" \/ job'[j].status = job[j].status
               /\ idem'[job'[j].key] = "failed"
            \/ /\ job[j] # None
               /\ job'[j].key = job[j].key
               /\ job'[j].status # "succeeded" \/ job'[j].status = job[j].status
               /\ idem'[job[j].key] = idem[job[j].key] /\ idem[job[j].key] \in Completed
  PROVE  OutcomeRecorded'
  <1> SUFFICES ASSUME NEW j \in Jobs, job'[j] # None
               PROVE  Ordered(j)'
    BY DEF OutcomeRecorded, Ordered, Completed, Exists
  <1>1. job[j] # None =>
        /\ job[j].status \in {"succeeded", "dead_letter"} => idem[job[j].key] \in Completed
        /\ "succeeded" \in {job[j].status, idem[job[j].key]} => effects[j] > 0
    BY OrderedAll DEF Ordered
  <1> QED BY <1>1 DEF Ordered, Completed

\* A worker writes the outcome of its job and the record, or finds them written.
LEMMA MarkOutcome ==
  ASSUME IInv, Created, OutcomeInv, NEW w \in Workers,
         MarkStarted(w) \/ MarkSucceeded(w) \/ MarkRetrying(w) \/ MarkDeadLetter(w)
  PROVE  OutcomeRecorded' /\ RecordsStay
  <1> DEFINE i == worker[w].job
             rd == worker[w].read
  <1>1. /\ i \in Jobs /\ job[i] # None /\ job[i] \in JobRecord
        /\ JobsKept
        /\ \A j \in Jobs : job[j] = None => job'[j] = None
    BY MarkJob
  <1>2. job[i].key \in Keys /\ idem \in [Keys -> IdemStatuses] /\ job \in [Jobs -> JobRecord \cup {None}]
    BY <1>1 DEF JobRecord, IInv, TypeOK
  <1>3. UNCHANGED effects
    BY DEF MarkStarted, MarkSucceeded, MarkRetrying, RetryJob, MarkDeadLetter
  <1>a. Ordered(i)
    BY <1>1, OrderedAll DEF OutcomeInv
  <1>b. worker[w].pc # "idle" /\ rd # None /\ rd.record \in Completed => idem[job[i].key] \in Completed
    BY SMTT(30) DEF OutcomeInv, ReadCompleted
  <1>4. /\ \A j \in Jobs : j # i => job'[j] = job[j]
        /\ \A k \in Keys : k # job[i].key => idem'[k] = idem[k]
    BY <1>2 DEF MarkStarted, MarkSucceeded, FinishJob, FinishRecord, MarkRetrying, RetryJob, MarkDeadLetter
  <1>5. job'[i].key = job[i].key /\ job'[i] # None
    BY <1>1 DEF JobsKept
  <1>6. /\ idem[job[i].key] \in Completed => idem'[job[i].key] \in Completed
        /\ job'[i].status \in {"succeeded", "dead_letter"} => idem'[job[i].key] \in Completed
        /\ "succeeded" \in {job'[i].status, idem'[job[i].key]} => effects[i] > 0
    <2>1. CASE MarkStarted(w)
      <3>1. job'[i].status = "running" /\ idem' = idem
        BY <1>1, <1>2, <2>1 DEF MarkStarted, JobRecord
      <3> QED BY <1>1, <1>a, <3>1 DEF Ordered
    <2>2. CASE MarkRetrying(w)
      <3> DEFINE st == Written("retrying", rd.status, job[i].status)
      <3>1. job' = [job EXCEPT ![i] = [job[i] EXCEPT !.status = st, !.retry_at = "ahead"]] /\ idem' = idem
        BY <1>1, <1>2, <2>2 DEF MarkRetrying, RetryJob
      <3>2. st \in {"retrying", job[i].status}
        BY DEF Written
      <3> HIDE DEF st
      <3>3. job'[i].status = st
        BY <1>1, <1>2, <3>1 DEF JobRecord
      <3> QED BY <1>1, <1>a, <3>1, <3>2, <3>3 DEF Ordered
    <2>3. CASE MarkSucceeded(w)
      <3>1. idem'[job[i].key] = Written("succeeded", rd.record, idem[job[i].key])
        BY <1>2, <2>3 DEF MarkSucceeded, FinishRecord
      <3>2. worker[w].pc # "idle" /\ rd # None /\ effects[i] > 0
        BY <2>3 DEF MarkSucceeded, ReadBoth, OutcomeInv, CommittedRan
      <3> QED BY <1>b, <3>1, <3>2 DEF Written, Completed
    <2>4. CASE MarkDeadLetter(w)
      <3>1. idem'[job[i].key] = Written("failed", rd.record, idem[job[i].key])
        BY <1>2, <2>4 DEF MarkDeadLetter, FinishRecord
      <3>2. worker[w].pc # "idle" /\ rd # None
        BY <2>4 DEF MarkDeadLetter, ReadBoth
      <3>3. job'[i] = Finish(job[i], rd, "dead_letter")
        BY <1>1, <1>2, <2>4 DEF MarkDeadLetter, FinishJob
      <3>4. job'[i].status \in {"dead_letter", job[i].status}
        BY <1>1, <3>3, FinishType DEF JobStatuses, TERMINAL_JOB_STATUSES
      <3>5. idem'[job[i].key] = "failed" \/ (idem'[job[i].key] = idem[job[i].key] /\ idem[job[i].key] \in Completed)
        BY <1>b, <3>1, <3>2 DEF Written, Completed
      <3> QED BY <1>1, <1>a, <3>4, <3>5 DEF Ordered, Completed
    <2> QED BY <2>1, <2>2, <2>3, <2>4
  <1>7. RecordsStay
    BY <1>4, <1>6 DEF RecordsStay
  <1>8. ASSUME NEW j \in Jobs, j # i
        PROVE  Ordered(j)'
    <2>1. job'[j] = job[j]
      BY <1>4, <1>8
    <2>2. job[j] # None => idem'[job[j].key] = idem[job[j].key]
      <3>1. job[j] # None => job[j].key # job[i].key /\ job[j].key \in Keys
        BY <1>1, <1>8, KeysApart DEF IInv, TypeOK, JobRecord
      <3> QED BY <1>4, <3>1
    <2> QED BY <1>3, <2>1, <2>2, OrderedAll DEF Ordered, OutcomeInv
  <1>9. ASSUME NEW j \in Jobs, j = i PROVE Ordered(j)'
    BY <1>3, <1>5, <1>6, <1>9 DEF Ordered, Completed
  <1>10. \A j \in Jobs : Ordered(j)'
    BY <1>8, <1>9
  <1>11. OutcomeRecorded'
    BY <1>10 DEF OutcomeRecorded, Ordered, Completed, Exists
  <1> QED BY <1>7, <1>11

\* The record of a job that a dispatcher gives up on, and of the others.
LEMMA RecordOutcome ==
  ASSUME IInv, Created, ReadCompleted, NEW p \in Procs
  PROVE  /\ \A j \in Doomed(p) :
              \/ RecordAfter(p, job[j].key) = "failed"
              \/ RecordAfter(p, job[j].key) = idem[job[j].key] /\ idem[job[j].key] \in Completed
         /\ \A j \in Jobs : job[j] # None /\ j \notin Doomed(p) => RecordAfter(p, job[j].key) = idem[job[j].key]
         /\ \A k \in Keys : RecordAfter(p, k) \in {idem[k], "failed"}
  <1>1. ASSUME NEW j \in Doomed(p)
        PROVE  \/ RecordAfter(p, job[j].key) = "failed"
               \/ RecordAfter(p, job[j].key) = idem[job[j].key] /\ idem[job[j].key] \in Completed
    <2>1. j \in Jobs /\ proc[p].read[j] # None
      BY DoomedExist DEF ReadCompleted
    <2>2. proc[p].read[j].record = "failed" => idem[job[j].key] \in Completed
      BY <2>1 DEF ReadCompleted, Completed
    <2> QED BY <2>2 DEF RecordAfter
  <1>2. ASSUME NEW j \in Jobs, job[j] # None, j \notin Doomed(p)
        PROVE  RecordAfter(p, job[j].key) = idem[job[j].key]
    <2>1. \A i \in Doomed(p) : job[i].key # job[j].key
      BY <1>2, DoomedExist, KeysApart
    <2> QED BY <2>1 DEF RecordAfter
  <1>3. \A k \in Keys : RecordAfter(p, k) \in {idem[k], "failed"}
    BY DEF RecordAfter
  <1> QED BY <1>1, <1>2, <1>3

\* A dispatcher that gives up on a job completes the record with it.
LEMMA CommitOutcome ==
  ASSUME IInv, Created, OutcomeInv, NEW p \in Procs, HookCommit(p) \/ Commit(p)
  PROVE  OutcomeRecorded' /\ RecordsStay
  <1>1. \A j \in Jobs : job[j] # None => job[j].key \in Keys /\ job[j] \in JobRecord
    BY JobHasRecord DEF OutcomeInv, IInv, TypeOK
  <1>2. /\ \A j \in Doomed(p) :
              \/ RecordAfter(p, job[j].key) = "failed"
              \/ RecordAfter(p, job[j].key) = idem[job[j].key] /\ idem[job[j].key] \in Completed
        /\ \A j \in Jobs : job[j] # None /\ j \notin Doomed(p) => RecordAfter(p, job[j].key) = idem[job[j].key]
        /\ \A k \in Keys : RecordAfter(p, k) \in {idem[k], "failed"}
    BY RecordOutcome DEF OutcomeInv
  <1>3. UNCHANGED effects
    BY DEF HookCommit, Commit
  <1>4. \A j \in Doomed(p) : /\ j \in Jobs /\ job[j] # None
                             /\ DeadLetter(p, j).key = job[j].key
                             /\ DeadLetter(p, j).status # "succeeded" \/ DeadLetter(p, j).status = job[j].status
    BY DoomedExist, DeadLetterType
  <1>5. CASE HookCommit(p)
    <2>1. \A k \in Keys : idem'[k] = RecordAfter(p, k)
      BY <1>5 DEF HookCommit
    <2>2. \A j \in Jobs : job'[j] = IF j \in Doomed(p) THEN DeadLetter(p, j) ELSE job[j]
      BY <1>5 DEF HookCommit
    <2>3. RecordsStay
      BY <1>2, <2>1 DEF RecordsStay, Completed
    <2>4. OutcomeRecorded'
      BY <1>1, <1>2, <1>3, <1>4, <2>1, <2>2, CalmOutcome DEF OutcomeInv
    <2> QED BY <2>3, <2>4
  <1>6. CASE Commit(p)
    <2>1. PICK ids \in FreshIds(p) : job' = [j \in Jobs |-> JobAfter(p, ids, j)]
      BY <1>6 DEF Commit
    <2>2. \A k \in Keys : idem'[k] = IF k \in proc[p].want THEN "processing" ELSE RecordAfter(p, k)
      BY <1>6 DEF Commit, IdemAfter
    <2>3. \A k \in proc[p].want : k \in Keys /\ idem[k] = "absent"
      BY <1>6 DEF Commit, Clash, IInv, TypeOK, TxType
    <2>4. RecordsStay
      BY <1>2, <2>2, <2>3 DEF RecordsStay, Completed
    <2>5. ASSUME NEW j \in Jobs, job'[j] # None
          PROVE  \/ job[j] = None /\ job'[j].status = "queued" /\ idem'[job'[j].key] = "processing"
                 \/ /\ job[j] # None
                    /\ job'[j].key = job[j].key
                    /\ job'[j].status # "succeeded" \/ job'[j].status = job[j].status
                    /\ job'[j].status # "dead_letter" \/ job'[j].status = job[j].status
                    /\ idem'[job[j].key] = idem[job[j].key]
                 \/ /\ job[j] # None
                    /\ job'[j].key = job[j].key
                    /\ job'[j].status # "succeeded" \/ job'[j].status = job[j].status
                    /\ idem'[job'[j].key] = "failed"
                 \/ /\ job[j] # None
                    /\ job'[j].key = job[j].key
                    /\ job'[j].status # "succeeded" \/ job'[j].status = job[j].status
                    /\ idem'[job[j].key] = idem[job[j].key] /\ idem[job[j].key] \in Completed
      <3>1. job'[j] = JobAfter(p, ids, j)
        BY <2>1
      <3>2. CASE \E k \in proc[p].want : ids[k] = j
        <4>1. PICK k \in proc[p].want : ids[k] = j
          BY <3>2
        <4>2. job'[j] = NewJob(k) /\ job[j] = None
          BY <3>1, <3>2, <4>1, JobAfterType
        <4> QED BY <2>2, <2>3, <4>2 DEF NewJob
      <3>3. CASE job[j] # None /\ ~\E k \in proc[p].want : ids[k] = j
        <4>1. job[j].key \in Keys /\ job[j].key \notin proc[p].want
          BY <1>1, <2>3, <3>3, JobHasRecord
        <4>0. idem'[job[j].key] = RecordAfter(p, job[j].key)
          BY <2>2, <4>1
        <4>2. CASE j \in Doomed(p)
          <5>1. job'[j] = DeadLetter(p, j)
            BY <3>1, <3>3, <4>2 DEF JobAfter
          <5> QED BY <1>2, <1>4, <4>0, <4>2, <5>1
        <4>3. CASE j \notin Doomed(p) /\ j \in Retried(p)
          <5>1. job'[j] = Requeued(p, j)
            BY <3>1, <3>3, <4>3 DEF JobAfter
          <5>2. job[j] \in JobRecord
            BY <1>1, <3>3
          <5>3. job'[j].status = "queued" /\ job'[j].key = job[j].key
            BY <5>1, <5>2 DEF Requeued, JobRecord
          <5> QED BY <1>2, <3>3, <4>0, <4>3, <5>3
        <4>4. CASE j \notin Doomed(p) /\ j \notin Retried(p)
          <5>1. job'[j] = job[j]
            BY <3>1, <3>3, <4>4 DEF JobAfter
          <5> QED BY <1>2, <3>3, <4>0, <4>4, <5>1
        <4> QED BY <4>2, <4>3, <4>4
      <3> QED BY <2>5, <3>1, <3>2, <3>3, JobAfterType
    <2>6. OutcomeRecorded'
      BY <1>3, <2>5, CalmOutcome DEF OutcomeInv
    <2> QED BY <2>4, <2>6
  <1> QED BY <1>5, <1>6

\* A commit of a dispatcher keeps the jobs that are there.
LEMMA CommitKeeps ==
  ASSUME IInv, NEW p \in Procs, HookCommit(p) \/ Commit(p)
  PROVE  JobsKept
  <1>1. CASE Commit(p)
    <2>1. PICK ids \in FreshIds(p) : job' = [j \in Jobs |-> JobAfter(p, ids, j)]
      BY <1>1 DEF Commit
    <2> QED BY <2>1, JobAfterType DEF JobsKept
  <1> QED BY <1>1, HookTables

\* Every step keeps what the tables say of outcomes, and completed records.
LEMMA NextTables ==
  ASSUME IInv, Created, OutcomeInv, [Next]_vars
  PROVE  OutcomeRecorded' /\ CommittedRan' /\ RecordsStay /\ JobsKept
  <1>1. ASSUME NEW p \in Procs, HookCommit(p) \/ Commit(p)
        PROVE  OutcomeRecorded' /\ CommittedRan' /\ RecordsStay /\ JobsKept
    <2>1. CommittedRan'
      BY <1>1 DEF HookCommit, Commit, OutcomeInv, CommittedRan
    <2>2. JobsKept
      BY <1>1, CommitKeeps
    <2> QED BY <1>1, <2>1, <2>2, CommitOutcome
  <1>2. ASSUME NEW w \in Workers,
               MarkStarted(w) \/ MarkSucceeded(w) \/ MarkRetrying(w) \/ MarkDeadLetter(w)
        PROVE  OutcomeRecorded' /\ CommittedRan' /\ RecordsStay /\ JobsKept
    <2>1. CommittedRan'
      <3>1. UNCHANGED effects
        BY <1>2 DEF MarkStarted, MarkSucceeded, MarkRetrying, RetryJob, MarkDeadLetter
      <3>2. worker'[w].pc # "committed"
        BY <1>2 DEF MarkStarted, MarkSucceeded, MarkRetrying, RetryJob, MarkDeadLetter, IdleWorker,
                    IInv, TypeOK, WorkerType
      <3>3. \A v \in Workers : v # w => worker'[v] = worker[v]
        BY <1>2 DEF MarkStarted, MarkSucceeded, MarkRetrying, RetryJob, MarkDeadLetter, IInv, TypeOK
      <3> QED BY <3>1, <3>2, <3>3 DEF OutcomeInv, CommittedRan
    <2> QED BY <1>2, <2>1, MarkOutcome, MarkJob
  <1>a. UNCHANGED idem => RecordsStay
    BY DEF RecordsStay
  <1>b. UNCHANGED job => JobsKept
    BY DEF JobsKept
  <1>3. ASSUME NEW c \in Clients, CancelCommit(c)
        PROVE  OutcomeRecorded' /\ CommittedRan' /\ RecordsStay /\ JobsKept
    <2>0. c \in Procs
      BY DEF Procs
    <2> DEFINE i == proc[c].target
    <2>1. i \in Jobs /\ job[i] # None /\ job[i] \in JobRecord
      BY <1>3, <2>0 DEF CancelCommit, IInv, Linked, TargetLinked, TypeOK
    <2>2. /\ job'[i].status = "cancelled" /\ \A j \in Jobs : j # i => job'[j] = job[j]
          /\ job'[i].key = job[i].key
      BY <1>3, <2>1 DEF CancelCommit, IInv, TypeOK, JobRecord
    <2>3. UNCHANGED <<idem, effects, worker>>
      BY <1>3 DEF CancelCommit
    <2>a. \A j \in Jobs : job[j] = None => job'[j] = None
      BY <2>1, <2>2
    <2>4. OutcomeRecorded'
      BY <2>1, <2>2, <2>3, <2>a, CalmOutcome DEF OutcomeInv
    <2>5. JobsKept
      BY <1>3, <2>0, CancelJob
    <2> QED BY <1>a, <2>3, <2>4, <2>5 DEF OutcomeInv, CommittedRan
  <1>4. ASSUME NEW j \in Jobs, JobWindowOpens(j)
        PROVE  OutcomeRecorded' /\ CommittedRan' /\ RecordsStay /\ JobsKept
    <2>1. job[j] # None /\ job[j] \in JobRecord
      BY <1>4 DEF JobWindowOpens, Exists, IInv, TypeOK
    <2>2. /\ job'[j].status = job[j].status /\ job'[j].key = job[j].key
          /\ \A i \in Jobs : i # j => job'[i] = job[i]
      BY <1>4, <2>1 DEF JobWindowOpens, IInv, TypeOK, JobRecord
    <2>3. UNCHANGED <<idem, effects, worker>>
      BY <1>4 DEF JobWindowOpens
    <2>a. \A i \in Jobs : job[i] = None => job'[i] = None
      BY <2>1, <2>2
    <2>4. OutcomeRecorded'
      BY <2>1, <2>2, <2>3, <2>a, CalmOutcome DEF OutcomeInv
    <2>5. JobsKept
      BY <1>4, WindowJob
    <2> QED BY <1>a, <2>3, <2>4, <2>5 DEF OutcomeInv, CommittedRan
  <1>5. ASSUME NEW w \in Workers, FnCommit(w)
        PROVE  OutcomeRecorded' /\ CommittedRan' /\ RecordsStay /\ JobsKept
    <2>1. worker[w].job \in Jobs /\ worker[w] \in WorkerType
      BY <1>5 DEF FnCommit, IInv, Linked, WorkersLinked, TypeOK
    <2>2. /\ effects'[worker[w].job] > 0
          /\ \A j \in Jobs : effects[j] > 0 => effects'[j] > 0
      BY <1>5, <2>1 DEF FnCommit, IInv, TypeOK
    <2>3. UNCHANGED <<job, idem>>
      BY <1>5 DEF FnCommit
    <2>4. OutcomeRecorded'
      BY <2>2, <2>3 DEF OutcomeInv, OutcomeRecorded, Exists
    <2>5. worker'[w].job = worker[w].job /\ \A v \in Workers : v # w => worker'[v] = worker[v]
      BY <1>5, <2>1 DEF FnCommit, IInv, TypeOK, WorkerType
    <2>6. \A v \in Workers : worker[v].pc = "committed" => worker[v].job \in Jobs
      BY DEF IInv, Linked, WorkersLinked
    <2>7. CommittedRan'
      BY <2>2, <2>5, <2>6 DEF OutcomeInv, CommittedRan
    <2> QED BY <1>a, <1>b, <2>3, <2>4, <2>7
  <1>6. ASSUME NEW w \in Workers, \/ \E r \in Rows : Receive(w, r)
                                  \/ FnRaise(w)
                                  \/ WorkerCrash(w)
        PROVE  OutcomeRecorded' /\ CommittedRan' /\ RecordsStay /\ JobsKept
    <2>0. worker \in [Workers -> WorkerType]
      BY DEF IInv, TypeOK
    <2>a. ASSUME NEW r \in Rows, Receive(w, r)
          PROVE  worker'[w].pc # "committed" /\ \A v \in Workers : v # w => worker'[v] = worker[v]
      BY <2>0, <2>a DEF Receive, IdleWorker
    <2>1. worker'[w].pc # "committed" /\ \A v \in Workers : v # w => worker'[v] = worker[v]
      BY <1>6, <2>0, <2>a DEF FnRaise, WorkerCrash, IdleWorker, WorkerType
    <2>2. UNCHANGED <<job, idem, effects>>
      BY <1>6 DEF Receive, FnRaise, WorkerCrash
    <2> QED BY <1>a, <1>b, <2>1, <2>2 DEF OutcomeInv, CommittedRan, OutcomeRecorded, Exists
  <1>c. ASSUME NEW w \in Workers, LoadJob(w) \/ LoadRecord(w)
        PROVE  OutcomeRecorded' /\ CommittedRan' /\ RecordsStay /\ JobsKept
    <2>1. PICK wk \in WorkerType : /\ worker' = [worker EXCEPT ![w] = wk]
                                   /\ wk.pc = worker[w].pc /\ wk.job = worker[w].job
      BY <1>c, LoadWorker
    <2>2. worker'[w] = wk /\ \A v \in Workers : v # w => worker'[v] = worker[v]
      BY <2>1, WorkerUpdate DEF IInv
    <2>3. UNCHANGED <<job, idem, effects>>
      BY <1>c DEF LoadJob, LoadRecord
    <2> QED BY <1>a, <1>b, <2>1, <2>2, <2>3 DEF OutcomeInv, CommittedRan, OutcomeRecorded, Exists
  <1>7. CASE UNCHANGED <<job, idem, effects, worker>>
    BY <1>7, <1>a, <1>b DEF OutcomeInv, CommittedRan, OutcomeRecorded, Exists
  <1>8. ASSUME NEW s \in Schedulers, SchedulerStep(s)
        PROVE  UNCHANGED <<job, idem, effects, worker>>
    BY <1>8 DEF SchedulerStep, TickSelect, TickCollect, TickAbort
  <1>9. ASSUME NEW p \in Procs, \/ \E r \in Rows : SendOk(p, r) \/ SendFail(p, r)
                                \/ \E j \in Jobs : DoomRecord(p, j)
                                \/ EnqueueRollback(p)
                                \/ HookSelect(p)
                                \/ ProcCrash(p)
        PROVE  UNCHANGED <<job, idem, effects, worker>>
    BY <1>9 DEF SendOk, SendFail, DoomRecord, EnqueueRollback, HookSelect, ProcCrash
  <1>10. ASSUME NEW c \in Clients, \/ \E k \in Keys : EnqueueBegin(c, k)
                                   \/ \E j \in Jobs : CancelBegin(c, j)
         PROVE  UNCHANGED <<job, idem, effects, worker>>
    BY <1>10 DEF EnqueueBegin, CancelBegin
  <1>11. ASSUME \/ \E r \in Rows : DropRevoked(r) \/ RowWindowOpens(r)
                \/ UNCHANGED vars
         PROVE  UNCHANGED <<job, idem, effects, worker>>
    BY <1>11 DEF DropRevoked, RowWindowOpens, vars
  <1> DEFINE Goal == OutcomeRecorded' /\ CommittedRan' /\ RecordsStay /\ JobsKept
  <1>12. ASSUME NEW p \in Procs, TxStep(p)
         PROVE  Goal
    BY <1>1, <1>7, <1>9, <1>12 DEF TxStep
  <1>13. ASSUME NEW c \in Clients, ClientStep(c)
         PROVE  Goal
    BY <1>3, <1>7, <1>10, <1>13 DEF ClientStep
  <1>14. ASSUME NEW w \in Workers, WorkerStep(w)
         PROVE  Goal
    BY <1>2, <1>5, <1>6, <1>c, <1>14 DEF WorkerStep
  <1>15. CASE TimeStep \/ CrashStep
    BY <1>4, <1>6, <1>7, <1>9, <1>11, <1>15 DEF TimeStep, CrashStep
  <1> QED BY <1>7, <1>8, <1>11, <1>12, <1>13, <1>14, <1>15 DEF Next

\* Every step keeps OutcomeInv.
LEMMA NextOutcome ==
  ASSUME IInv, Created, OutcomeInv, [Next]_vars
  PROVE  OutcomeInv'
  <1>1. OutcomeRecorded' /\ CommittedRan' /\ RecordsStay /\ JobsKept
    BY NextTables
  <1>2. ReadsMove /\ WorkerReadsMove
    BY StepReads
  <1>3. ReadCompleted'
    BY <1>1, <1>2, KeptCompleted DEF OutcomeInv
  <1> QED BY <1>1, <1>3 DEF OutcomeInv

\* Nothing is loaded initially.
LEMMA InitReads == Init => ReadCompleted
  <1> SUFFICES ASSUME Init PROVE ReadCompleted
    OBVIOUS
  <1>1. \A p \in Procs : proc[p] = IdleTx
    BY DEF Init
  <1>2. (\A r \in Rows : IdleTx.batch[r] # "fail") /\ (\A j \in Jobs : IdleTx.read[j] = None)
    BY DEF IdleTx, Tx, NoBatch, NoneRead
  <1>3. \A p \in Procs : Doomed(p) = {}
    BY <1>1, <1>2 DEF Doomed, Selected
  <1>4. \A w \in Workers : worker[w].pc = "idle"
    BY DEF Init, IdleWorker
  <1> QED BY <1>1, <1>2, <1>3, <1>4 DEF ReadCompleted

\* A job that is finished has a completed record, and neither of them says
\* "succeeded" unless the job's function has committed: no interleaving of the
\* sessions of workers, dispatchers and cancels breaks this, although each
\* writes only the columns that differ from what it loaded.
THEOREM OutcomeRecordedHolds == Spec => []OutcomeRecorded
  <1>1. Init => IInv /\ Created /\ OutcomeInv
    <2>1. Init => Created
      BY JobQueueAssumption
      DEF Init, Created, OneJobPerKey, CreatedTogether, JobsWithKey, Exists, Rows
    <2>2. Init => OutcomeInv
      BY InitReads DEF Init, OutcomeInv, OutcomeRecorded, CommittedRan, Exists, IdleWorker
    <2> QED BY <2>1, <2>2, InitIInv
  <1>2. IInv /\ Created /\ OutcomeInv /\ [Next]_vars => IInv' /\ Created' /\ OutcomeInv'
    BY NextIInv, NextCreated, NextOutcome
  <1>3. OutcomeInv => OutcomeRecorded
    BY DEF OutcomeInv
  <1> QED BY <1>1, <1>2, <1>3, PTL DEF Spec

----------------------------------------------------------------------------
(* The first dispatch of a job, while no worker dies.                      *)

\* A job that has never run: fresh while it is queued, and then never held
\* back by a retry.
Fresh(rec) == rec.status = "queued" /\ rec.attempts = 0
Calm(rec) == rec.attempts = 0 => rec.retry_at # "ahead" /\ rec.status # "retrying"

\* Only what has run is retried, and a worker past mark_started has counted.
JobsCalm == \A j \in Jobs : job[j] # None => Calm(job[j])
RetriesStarted == \A p \in Procs : \A x \in proc[p].retry : job[x[1]].attempts > 0
WorkersStarted ==
    \A w \in Workers :
        /\ worker[w].pc # "idle" => worker[w].attempt > 0
        /\ worker[w].pc \in {"running", "committed", "raised"} => job[worker[w].job].attempts > 0
StartInv == JobsCalm /\ RetriesStarted /\ WorkersStarted

\* A job that a dispatcher has not loaded as queued is not fresh, and one it
\* gives up on has been loaded.
ReadsFresh ==
    /\ \A p \in Procs, j \in Jobs :
          proc[p].read[j] # None /\ proc[p].read[j].status # "queued" => ~Fresh(job[j])
    /\ \A p \in Procs : \A j \in Doomed(p) : proc[p].read[j] # None

\* A row that was sent or given up has a job that is no longer fresh, or the
\* message is still on its way.
Loaded(ws, j) == \E w \in Workers : ws[w].pc = "loaded" /\ ws[w].job = j
OnItsWay(r) == broker[r] > 0 \/ r \in revoked \/ Loaded(worker, outbox[r].job)
SentCarried == \A r \in sent : outbox[r] # None /\ (Fresh(job[outbox[r].job]) => OnItsWay(r))
GivenUp == \A r \in Rows : outbox[r] # None /\ outbox[r].status = "dead_letter" => ~Fresh(job[outbox[r].job])
CarriedInv == SentCarried /\ GivenUp

\* What one job may do in a step: a run that was counted stays counted, and a
\* job that is no longer fresh never becomes so again.
Moves(old, new) == /\ old.attempts > 0 => new.attempts > 0
                   /\ Fresh(new) => Fresh(old)
                   /\ Calm(new)
Onward == \A j \in Jobs : /\ job[j] # None => Moves(job[j], job'[j])
                          /\ job[j] = None /\ job'[j] # None => Calm(job'[j])

\* Jobs that do not change move onward.
LEMMA SameOnward ==
  ASSUME JobsCalm, job' = job PROVE Onward
  BY DEF JobsCalm, Onward, Moves

\* To dead-letter a job is a move onward.
LEMMA DeadLetterMoves ==
  ASSUME NEW p \in Procs, NEW j \in Jobs, job[j] \in JobRecord, Calm(job[j])
  PROVE  /\ Moves(job[j], DeadLetter(p, j))
         /\ Fresh(DeadLetter(p, j)) => Fresh(job[j]) /\ proc[p].read[j].status = "dead_letter"
  <1> DEFINE rec == DeadLetter(p, j)
  <1>1. /\ rec.attempts = job[j].attempts
        /\ rec.status \in {"dead_letter", job[j].status}
        /\ proc[p].read[j].status # "dead_letter" => rec.status = "dead_letter"
        /\ rec.retry_at \in {"null", job[j].retry_at}
    BY DeadLetterType
  <1> HIDE DEF rec
  <1>2. Moves(job[j], rec) /\ (Fresh(rec) => Fresh(job[j]) /\ proc[p].read[j].status = "dead_letter")
    BY <1>1 DEF Moves, Fresh, Calm
  <1> QED BY <1>2 DEF rec

\* The worker's marks move a job onward that has been started.
LEMMA MarkOnward ==
  ASSUME IInv, StartInv, NEW w \in Workers,
         MarkStarted(w) \/ MarkSucceeded(w) \/ MarkRetrying(w) \/ MarkDeadLetter(w)
  PROVE  Onward /\ job'[worker[w].job].attempts > 0
  <1> DEFINE i == worker[w].job
  <1>1. i \in Jobs /\ job[i] # None /\ job[i] \in JobRecord /\ worker[w] \in WorkerType
    BY MarkJob
  <1>2. worker[w].attempt > 0 /\ (~MarkStarted(w) => job[i].attempts > 0)
    BY DEF StartInv, WorkersStarted, MarkStarted, MarkSucceeded, MarkRetrying, MarkDeadLetter
  <1>3. \A j \in Jobs : j # i => job'[j] = job[j]
    BY <1>1 DEF MarkStarted, MarkSucceeded, FinishJob, MarkRetrying, RetryJob, MarkDeadLetter, IInv, TypeOK
  <1>a. job \in [Jobs -> JobRecord \cup {None}]
    BY DEF IInv, TypeOK
  <1>b. \A st \in JobStatuses : Finish(job[i], worker[w].read, st).attempts = job[i].attempts
    BY <1>1, FinishType
  <1>c. "succeeded" \in JobStatuses /\ "dead_letter" \in JobStatuses
    BY DEF JobStatuses, TERMINAL_JOB_STATUSES
  <1>4. job'[i].attempts > 0
    <2>1. CASE MarkStarted(w)
      BY <1>1, <1>2, <2>1 DEF MarkStarted, IInv, TypeOK, JobRecord
    <2>2. CASE MarkSucceeded(w)
      BY <1>1, <1>2, <1>a, <1>b, <1>c, <2>2 DEF MarkSucceeded, MarkStarted, FinishJob
    <2>3. CASE MarkRetrying(w)
      <3> DEFINE st == Written("retrying", worker[w].read.status, job[i].status)
      <3>1. job' = [job EXCEPT ![i] = [job[i] EXCEPT !.status = st, !.retry_at = "ahead"]]
        BY <1>1, <1>a, <2>3 DEF MarkRetrying, RetryJob
      <3>2. ~MarkStarted(w)
        BY <2>3 DEF MarkRetrying, MarkStarted
      <3> HIDE DEF st
      <3> QED BY <1>1, <1>2, <1>a, <3>1, <3>2 DEF JobRecord
    <2>4. CASE MarkDeadLetter(w)
      BY <1>1, <1>2, <1>a, <1>b, <1>c, <2>4 DEF MarkDeadLetter, MarkStarted, FinishJob
    <2> QED BY <2>1, <2>2, <2>3, <2>4
  <1>5. job'[i].attempts # 0
    BY <1>4
  <1>6. Moves(job[i], job'[i])
    BY <1>4, <1>5 DEF Moves, Fresh, Calm
  <1>7. \A j \in Jobs : j # i /\ job[j] # None => Moves(job[j], job'[j])
    BY <1>3 DEF Moves, StartInv, JobsCalm
  <1> QED BY <1>1, <1>3, <1>4, <1>6, <1>7 DEF Onward

\* A cancel moves jobs onward.
LEMMA CancelOnward ==
  ASSUME IInv, StartInv, NEW c \in Procs, CancelCommit(c) PROVE Onward
  <1> DEFINE i == proc[c].target
  <1>1. i \in Jobs /\ job[i] # None /\ job[i] \in JobRecord
    BY DEF CancelCommit, IInv, Linked, TargetLinked, TypeOK
  <1>2. /\ job'[i].status = "cancelled" /\ job'[i].attempts = job[i].attempts /\ job'[i].retry_at = job[i].retry_at
        /\ \A j \in Jobs : j # i => job'[j] = job[j]
    BY <1>1 DEF CancelCommit, IInv, TypeOK, JobRecord
  <1>3. Calm(job[i])
    BY <1>1 DEF StartInv, JobsCalm
  <1>4. Moves(job[i], job'[i])
    BY <1>2, <1>3 DEF Moves, Fresh, Calm
  <1>5. \A j \in Jobs : j # i /\ job[j] # None => Moves(job[j], job'[j])
    BY <1>2 DEF Moves, StartInv, JobsCalm
  <1> QED BY <1>1, <1>2, <1>4, <1>5 DEF Onward

\* An opening window moves jobs onward.
LEMMA WindowOnward ==
  ASSUME IInv, StartInv, NEW i \in Jobs, JobWindowOpens(i) PROVE Onward
  <1>1. job[i] # None /\ job[i] \in JobRecord
    BY DEF JobWindowOpens, Exists, IInv, TypeOK
  <1>2. /\ job'[i].status = job[i].status /\ job'[i].attempts = job[i].attempts /\ job'[i].retry_at = "past"
        /\ \A j \in Jobs : j # i => job'[j] = job[j]
    BY <1>1 DEF JobWindowOpens, IInv, TypeOK, JobRecord
  <1>3. Calm(job[i])
    BY <1>1 DEF StartInv, JobsCalm
  <1>4. Moves(job[i], job'[i])
    BY <1>2, <1>3 DEF Moves, Fresh, Calm
  <1>5. \A j \in Jobs : j # i /\ job[j] # None => Moves(job[j], job'[j])
    BY <1>2 DEF Moves, StartInv, JobsCalm
  <1> QED BY <1>1, <1>2, <1>4, <1>5 DEF Onward

\* A commit dead-letters, requeues what has run, and inserts new jobs.
LEMMA CommitOnward ==
  ASSUME IInv, StartInv, ReadsFresh, NEW p \in Procs, HookCommit(p) \/ Commit(p)
  PROVE  Onward /\ \A j \in Doomed(p) : ~Fresh(job'[j])
  <1>a. ASSUME NEW j \in Doomed(p)
        PROVE  /\ j \in Jobs /\ job[j] \in JobRecord /\ job[j] # None
               /\ Moves(job[j], DeadLetter(p, j)) /\ ~Fresh(DeadLetter(p, j))
    <2>1. j \in Jobs /\ job[j] \in JobRecord /\ job[j] # None /\ Calm(job[j])
      BY DoomedExist DEF StartInv, JobsCalm
    <2>2. proc[p].read[j].status = "dead_letter" => ~Fresh(job[j])
      BY <2>1 DEF ReadsFresh
    <2> QED BY <2>1, <2>2, DeadLetterMoves
  <1>1. CASE HookCommit(p)
    <2>1. \A j \in Doomed(p) : job'[j] = DeadLetter(p, j) /\ j \in Jobs
      BY <1>1, <1>a DEF HookCommit
    <2>2. \A j \in Jobs : j \notin Doomed(p) => job'[j] = job[j]
      BY <1>1 DEF HookCommit
    <2>3. ASSUME NEW j \in Jobs, job[j] # None PROVE Moves(job[j], job'[j])
      <3>1. CASE j \in Doomed(p)
        BY <1>a, <2>1, <3>1
      <3>2. CASE j \notin Doomed(p)
        BY <2>2, <2>3, <3>2 DEF Moves, StartInv, JobsCalm
      <3> QED BY <3>1, <3>2
    <2>4. \A j \in Jobs : job[j] = None => job'[j] = None
      BY <1>1, HookTables
    <2> QED BY <1>a, <2>1, <2>3, <2>4 DEF Onward
  <1>2. CASE Commit(p)
    <2>1. PICK ids \in FreshIds(p) : job' = [j \in Jobs |-> JobAfter(p, ids, j)]
      BY <1>2 DEF Commit
    <2>2. \A j \in Jobs : job'[j] = JobAfter(p, ids, j)
      BY <2>1
    <2>3. ASSUME NEW j \in Jobs, job[j] # None
          PROVE  Moves(job[j], job'[j]) /\ (j \in Doomed(p) => ~Fresh(job'[j]))
      <3>1. job[j] \in JobRecord /\ \A k \in proc[p].want : ids[k] # j
        BY <2>3, JobAfterType DEF IInv, TypeOK
      <3>2. CASE j \in Doomed(p)
        <4>1. job'[j] = DeadLetter(p, j)
          BY <2>2, <3>1, <3>2 DEF JobAfter
        <4> QED BY <1>a, <3>2, <4>1
      <3>3. CASE j \notin Doomed(p) /\ j \in Retried(p)
        <4>1. job'[j] = Requeued(p, j)
          BY <2>2, <3>1, <3>3 DEF JobAfter
        <4>2. job'[j].attempts = job[j].attempts
          BY <3>1, <4>1 DEF Requeued, JobRecord
        <4>3. job[j].attempts > 0
          BY <3>3 DEF Retried, StartInv, RetriesStarted
        <4>4. job'[j].attempts # 0
          BY <4>2, <4>3
        <4> QED BY <3>3, <4>2, <4>4 DEF Moves, Fresh, Calm
      <3>4. CASE j \notin Doomed(p) /\ j \notin Retried(p)
        <4>1. job'[j] = job[j]
          BY <2>2, <3>1, <3>4 DEF JobAfter
        <4> QED BY <2>3, <3>4, <4>1 DEF Moves, StartInv, JobsCalm
      <3> QED BY <3>2, <3>3, <3>4
    <2>4. ASSUME NEW j \in Jobs, job[j] = None, job'[j] # None PROVE Calm(job'[j])
      <3>1. j \notin Doomed(p) /\ j \notin Retried(p)
        BY <2>4, DoomedExist DEF Retried, IInv, Linked, RetryLinked
      <3>2. \E k \in proc[p].want : job'[j] = NewJob(k)
        <4>1. \E k \in proc[p].want : ids[k] = j
          BY <2>2, <2>4, <3>1 DEF JobAfter
        <4> QED BY <2>2, <4>1 DEF JobAfter
      <3> QED BY <3>2 DEF NewJob, Calm
    <2> QED BY <2>3, <2>4, DoomedExist DEF Onward
  <1> QED BY <1>1, <1>2

\* Jobs that move onward stay calm.
LEMMA OnwardCalm == ASSUME JobsCalm, Onward PROVE JobsCalm'
  BY DEF JobsCalm, Onward, Moves

\* Every step moves the jobs onward.
LEMMA NextOnward ==
  ASSUME IInv, StartInv, ReadsFresh, [Next]_vars PROVE Onward
  <1>a. UNCHANGED job => Onward
    BY SameOnward DEF StartInv
  <1>1. ASSUME NEW s \in Schedulers, SchedulerStep(s) PROVE Onward
    BY <1>a, <1>1 DEF SchedulerStep, TickSelect, TickCollect, TickAbort
  <1>2. ASSUME NEW p \in Procs, TxStep(p) \/ ProcCrash(p) PROVE Onward
    BY <1>a, <1>2, CommitOnward DEF TxStep, SendOk, SendFail, DoomRecord, EnqueueRollback, HookSelect, ProcCrash
  <1>3. ASSUME NEW c \in Clients, ClientStep(c) PROVE Onward
    <2>1. c \in Procs
      BY DEF Procs
    <2> QED BY <1>a, <1>3, <2>1, CancelOnward DEF ClientStep, EnqueueBegin, CancelBegin
  <1>4. ASSUME NEW w \in Workers, WorkerStep(w) \/ WorkerCrash(w) PROVE Onward
    BY <1>a, <1>4, MarkOnward DEF WorkerStep, Receive, FnCommit, FnRaise, LoadJob, LoadRecord, WorkerCrash
  <1>5. CASE TimeStep \/ (\E r \in Rows : DropRevoked(r)) \/ UNCHANGED vars
    BY <1>a, <1>5, WindowOnward DEF TimeStep, RowWindowOpens, DropRevoked, vars
  <1> QED BY <1>1, <1>2, <1>3, <1>4, <1>5 DEF Next, CrashStep

\* What dispatchers have loaded stays true of jobs that move onward.
LEMMA ReadsStayFresh ==
  ASSUME IInv, ReadsFresh, ReadsMove, Onward PROVE ReadsFresh'
  <1>1. ASSUME NEW p \in Procs, NEW j \in Jobs, proc'[p].read[j] # None, proc'[p].read[j].status # "queued",
               Fresh(job'[j])
        PROVE  FALSE
    <2>1. /\ Reread(proc[p].read[j], proc'[p].read[j], j)
          /\ proc'[p].read[j] = proc[p].read[j] \/ UNCHANGED <<job, idem>>
      BY <1>1 DEF ReadsMove
    <2>2. job[j] # None => Fresh(job[j])
      BY <1>1 DEF Onward, Moves
    <2>3. CASE proc'[p].read[j] = proc[p].read[j]
      <3>1. job[j] # None
        BY <1>1, <2>3 DEF IInv, Linked, ReadLinked
      <3> QED BY <1>1, <2>2, <2>3, <3>1 DEF ReadsFresh
    <2>4. CASE proc'[p].read[j] # proc[p].read[j] /\ proc'[p].read[j] = ReadJob(j)
      <3>1. job' = job /\ proc'[p].read[j].status = job[j].status
        BY <2>1, <2>4 DEF ReadJob
      <3> QED BY <1>1, <3>1 DEF Fresh
    <2>5. CASE proc'[p].read[j] # proc[p].read[j] /\ proc[p].read[j] # None
               /\ proc'[p].read[j].status = proc[p].read[j].status
      <3>1. job[j] # None
        BY <2>5 DEF IInv, Linked, ReadLinked
      <3> QED BY <1>1, <2>2, <2>5, <3>1 DEF ReadsFresh
    <2> QED BY <2>1, <2>3, <2>4, <2>5 DEF Reread
  <1>2. \A p \in Procs : \A j \in Doomed(p)' : proc'[p].read[j] # None
    BY DEF ReadsMove, ReadsFresh
  <1> QED BY <1>1, <1>2 DEF ReadsFresh

\* Jobs that a tick retries stay started.
LEMMA RetriesKept ==
  ASSUME IInv, StartInv, Onward, \A q \in Procs : proc'[q].retry \subseteq proc[q].retry
  PROVE  RetriesStarted'
  <1> SUFFICES ASSUME NEW q \in Procs, NEW x \in proc'[q].retry PROVE job'[x[1]].attempts > 0
    BY DEF RetriesStarted
  <1>1. x \in proc[q].retry
    OBVIOUS
  <1>2. x[1] \in Jobs /\ job[x[1]] # None /\ job[x[1]].attempts > 0
    BY <1>1 DEF IInv, TypeOK, TxType, Linked, RetryLinked, StartInv, RetriesStarted
  <1> QED BY <1>2 DEF Onward, Moves

\* Workers that do not change hold started jobs.
LEMMA WorkersKept ==
  ASSUME IInv, StartInv, Onward, worker' = worker PROVE WorkersStarted'
  BY DEF StartInv, WorkersStarted, IInv, Linked, WorkersLinked, Onward, Moves

\* One worker changes and holds a started job.
LEMMA OneWorkerStarted ==
  ASSUME IInv, StartInv, Onward, NEW w \in Workers, NEW wk \in WorkerType, worker' = [worker EXCEPT ![w] = wk],
         wk.pc # "idle" => wk.attempt > 0,
         wk.pc \in {"running", "committed", "raised"} => job'[wk.job].attempts > 0
  PROVE  WorkersStarted'
  <1>1. worker'[w] = wk /\ \A v \in Workers : v # w => worker'[v] = worker[v]
    BY WorkerUpdate DEF IInv
  <1>2. ASSUME NEW v \in Workers, v # w
        PROVE  /\ worker[v].pc # "idle" => worker[v].attempt > 0
               /\ worker[v].pc \in {"running", "committed", "raised"} => job'[worker[v].job].attempts > 0
    BY DEF StartInv, WorkersStarted, IInv, Linked, WorkersLinked, Onward, Moves
  <1> QED BY <1>1, <1>2 DEF WorkersStarted

\* What a row carries is kept by a step that only adds to it.
LEMMA CarriedKept ==
  ASSUME IInv, CarriedInv, Onward, RowsKept,
         \A r \in Rows : outbox'[r] # None /\ outbox'[r].status = "dead_letter" =>
             outbox[r] # None /\ (outbox[r].status = "dead_letter" \/ ~Fresh(job'[outbox[r].job])),
         \A r \in sent' : r \in sent \/ (r \in Rows /\ outbox[r] # None /\ broker'[r] > 0),
         \A r \in sent : OnItsWay(r) /\ Fresh(job'[outbox[r].job]) => broker'[r] > 0 \/ r \in revoked' \/ Loaded(worker', outbox[r].job)
  PROVE  CarriedInv'
  <1>1. \A r \in Rows : outbox[r] # None => outbox[r].job \in Jobs /\ job[outbox[r].job] # None
    BY DEF IInv, Linked, RowsLinked, TypeOK, RowRecord
  <1>2. \A r \in Rows : outbox[r] # None => (Fresh(job'[outbox[r].job]) => Fresh(job[outbox[r].job]))
    BY <1>1 DEF Onward, Moves
  <1>3. GivenUp'
    <2> SUFFICES ASSUME NEW r \in Rows, outbox'[r] # None, outbox'[r].status = "dead_letter"
                 PROVE  ~Fresh(job'[outbox'[r].job])
      BY DEF GivenUp
    <2>1. outbox[r] # None /\ outbox'[r].job = outbox[r].job
      BY DEF RowsKept
    <2> QED BY <1>2, <2>1 DEF CarriedInv, GivenUp
  <1>4. SentCarried'
    <2> SUFFICES ASSUME NEW r \in sent'
                 PROVE  /\ outbox'[r] # None
                        /\ Fresh(job'[outbox'[r].job]) => broker'[r] > 0 \/ r \in revoked' \/ Loaded(worker', outbox'[r].job)
      BY DEF SentCarried, OnItsWay
    <2>1. CASE r \in sent
      <3>1. r \in Rows /\ outbox[r] # None /\ (Fresh(job[outbox[r].job]) => OnItsWay(r))
        BY <2>1 DEF IInv, TypeOK, CarriedInv, SentCarried
      <3>2. outbox'[r] # None /\ outbox'[r].job = outbox[r].job
        BY <3>1 DEF RowsKept
      <3>3. Fresh(job'[outbox[r].job]) => broker'[r] > 0 \/ r \in revoked' \/ Loaded(worker', outbox[r].job)
        BY <1>2, <2>1, <3>1
      <3> QED BY <3>2, <3>3
    <2>2. CASE r \notin sent
      BY <2>2 DEF RowsKept
    <2> QED BY <2>1, <2>2
  <1> QED BY <1>3, <1>4 DEF CarriedInv

\* Requests, schedulers and dispatchers before their commit.
LEMMA PrivateFirst ==
  ASSUME IInv, StartInv, CarriedInv, UNCHANGED <<job, outbox, worker>>, revoked \subseteq revoked',
         \A r \in Rows : broker[r] > 0 => broker'[r] > 0,
         \A r \in sent' : r \in sent \/ (r \in Rows /\ outbox[r] # None /\ broker'[r] > 0),
         RetriesStarted'
  PROVE  StartInv' /\ CarriedInv'
  <1>1. Onward
    BY SameOnward DEF StartInv
  <1>2. JobsCalm' /\ WorkersStarted'
    BY <1>1, OnwardCalm, WorkersKept DEF StartInv
  <1>3. RowsKept
    BY DEF RowsKept
  <1>4. ASSUME NEW r \in sent, OnItsWay(r) PROVE broker'[r] > 0 \/ r \in revoked' \/ Loaded(worker', outbox[r].job)
    <2>1. r \in Rows
      BY DEF IInv, TypeOK
    <2> QED BY <1>4, <2>1 DEF OnItsWay
  <1>5. CarriedInv'
    BY <1>1, <1>3, <1>4, CarriedKept
  <1> QED BY <1>2, <1>5 DEF StartInv

\* The steps of a request, a scheduler or a dispatcher that write no table.
LEMMA ProcFirst ==
  ASSUME IInv, StartInv, CarriedInv, NEW p \in Procs,
         \/ \E r \in Rows : SendOk(p, r) \/ SendFail(p, r)
         \/ \E j \in Jobs : DoomRecord(p, j)
         \/ EnqueueRollback(p) \/ HookSelect(p) \/ ProcCrash(p) \/ TickSelect(p) \/ TickAbort(p)
         \/ \E due \in SUBSET CronKeys : TickCollect(p, due)
         \/ \E k \in Keys : EnqueueBegin(p, k)
         \/ \E j \in Jobs : CancelBegin(p, j)
  PROVE  StartInv' /\ CarriedInv'
  <1>1. UNCHANGED <<job, outbox, worker>> /\ revoked \subseteq revoked'
    BY DEF SendOk, SendFail, DoomRecord, EnqueueRollback, HookSelect, ProcCrash, TickSelect, TickAbort, TickCollect,
           EnqueueBegin, CancelBegin
  <1>2. proc[p] \in TxType /\ proc \in [Procs -> TxType]
    BY DEF IInv, TypeOK
  <1>3. Onward
    BY <1>1, SameOnward DEF StartInv
  <1>4. ASSUME NEW r \in Rows, SendOk(p, r)
        PROVE  /\ \A q \in Rows : broker[q] > 0 => broker'[q] > 0
               /\ \A q \in sent' : q \in sent \/ (q \in Rows /\ outbox[q] # None /\ broker'[q] > 0)
    <2>1. broker \in [Rows -> 0 .. CopyBound] /\ broker' = [broker EXCEPT ![r] = broker[r] + 1] /\ sent' = sent \cup {r}
      BY <1>4 DEF SendOk, IInv, TypeOK
    <2>2. broker'[r] > 0 /\ \A q \in Rows : q # r => broker'[q] = broker[q]
      BY <2>1, JobQueueAssumption
    <2>3. outbox[r] # None
      BY <1>4, SMTT(30) DEF SendOk, IInv, Linked, BatchLinked
    <2> QED BY <2>1, <2>2, <2>3
  <1>5. /\ \A r \in Rows : broker[r] > 0 => broker'[r] > 0
        /\ \A r \in sent' : r \in sent \/ (r \in Rows /\ outbox[r] # None /\ broker'[r] > 0)
    <2>1. CASE \E r \in Rows : SendOk(p, r)
      BY <1>4, <2>1
    <2>2. CASE UNCHANGED <<broker, sent>>
      BY <2>2
    <2> QED BY <2>1, <2>2 DEF SendFail, DoomRecord, EnqueueRollback, HookSelect, ProcCrash, TickSelect, TickAbort,
           TickCollect, EnqueueBegin, CancelBegin
  <1>6. RetriesStarted'
    <2>1. CASE \/ \E r \in Rows : SendOk(p, r) \/ SendFail(p, r)
               \/ \E j \in Jobs : DoomRecord(p, j)
               \/ \E k \in Keys : EnqueueBegin(p, k)
               \/ \E j \in Jobs : CancelBegin(p, j)
      <3>1. \A q \in Procs : proc'[q].retry = proc[q].retry
        <4>1. ASSUME NEW r \in Rows, NEW v, proc' = [proc EXCEPT ![p].batch[r] = v]
              PROVE  \A q \in Procs : proc'[q].retry = proc[q].retry
          BY <1>2, <4>1 DEF TxType
        <4>2. ASSUME NEW k \in Keys, EnqueueBegin(p, k) PROVE \A q \in Procs : proc'[q].retry = proc[q].retry
          BY <1>2, <4>2 DEF EnqueueBegin, TxType
        <4>3. ASSUME NEW j \in Jobs, CancelBegin(p, j) PROVE \A q \in Procs : proc'[q].retry = proc[q].retry
          BY <1>2, <4>3 DEF CancelBegin, TxType
        <4>4. ASSUME NEW r \in Rows, SendFail(p, r) PROVE \A q \in Procs : proc'[q].retry = proc[q].retry
          BY <1>2, <4>4 DEF SendFail, TxType
        <4>5. ASSUME NEW j \in Jobs, DoomRecord(p, j) PROVE \A q \in Procs : proc'[q].retry = proc[q].retry
          BY <1>2, <4>5 DEF DoomRecord, TxType
        <4> QED BY <2>1, <4>1, <4>2, <4>3, <4>4, <4>5 DEF SendOk
      <3> QED BY <1>3, <3>1, RetriesKept
    <2>2. CASE HookSelect(p) \/ TickSelect(p)
      <3>1. \A q \in Procs : proc'[q].retry = proc[q].retry
        <4>1. ASSUME NEW pc, Select(p, pc) PROVE \A q \in Procs : proc'[q].retry = proc[q].retry
          BY <1>2, <4>1 DEF Select, TxType
        <4> QED BY <2>2, <4>1 DEF HookSelect, TickSelect
      <3> QED BY <1>3, <3>1, RetriesKept
    <2>3. CASE EnqueueRollback(p) \/ ProcCrash(p) \/ TickAbort(p)
      <3>1. \A q \in Procs : proc'[q].retry \subseteq proc[q].retry
        BY <1>2, <2>3 DEF EnqueueRollback, ProcCrash, TickAbort, IdleTx, Tx
      <3> QED BY <1>3, <3>1, RetriesKept
    <2>4. ASSUME NEW due \in SUBSET CronKeys, TickCollect(p, due) PROVE RetriesStarted'
      <3> DEFINE load(j) == <<j, job[j].attempts, outbox[<<job[j].key, job[j].attempts>>] = None>>
      <3>1. proc'[p].retry = {load(j) : j \in ReadyForRetry} /\ \A q \in Procs : q # p => proc'[q] = proc[q]
        BY <1>2, <2>4 DEF TickCollect, TxType
      <3>2. ASSUME NEW j \in ReadyForRetry PROVE load(j)[1] = j /\ job[j].attempts > 0
        <4>1. job[j] \in JobRecord /\ Calm(job[j]) /\ job[j].status = "retrying"
          BY DEF ReadyForRetry, Exists, IInv, TypeOK, StartInv, JobsCalm
        <4>2. job[j].attempts \in Nat /\ job[j].attempts # 0
          BY <4>1 DEF Calm, JobRecord
        <4> QED BY <4>2
      <3> HIDE DEF load
      <3> QED BY <1>1, <3>1, <3>2, SMTT(30) DEF RetriesStarted, StartInv
    <2> QED BY <2>1, <2>2, <2>3, <2>4
  <1> QED BY <1>1, <1>5, <1>6, PrivateFirst, SMTT(30)

\* What a row becomes at a commit: a job is told when its row is given up.
LEMMA RowAfterGivenUp ==
  ASSUME IInv, NEW p \in Procs, NEW r \in Rows, outbox[r] # None, RowAfter(p, r).status = "dead_letter"
  PROVE  outbox[r].status = "dead_letter" \/ outbox[r].job \in Doomed(p)
  <1>1. outbox[r] \in RowRecord
    BY DEF IInv, TypeOK
  <1>2. CASE proc[p].batch[r] = "ok"
    BY <1>1, <1>2 DEF RowAfter, RowRecord
  <1>3. CASE proc[p].batch[r] = "fail"
    <2>1. RowAfter(p, r).status \in {outbox[r].status, FailStatus(p, r)}
      BY <1>1, <1>3 DEF RowAfter, RowRecord
    <2>2. CASE FailStatus(p, r) = "dead_letter"
      <3>1. proc[p].seen[r].job = outbox[r].job
        BY <1>3 DEF IInv, Linked, BatchLinked
      <3> QED BY <1>3, <2>2, <3>1 DEF Doomed, Selected
    <2> QED BY <2>1, <2>2
  <1>4. CASE proc[p].batch[r] \notin {"ok", "fail"}
    BY <1>4 DEF RowAfter
  <1> QED BY <1>2, <1>3, <1>4

\* The commits of a dispatcher do not lose a first dispatch.
LEMMA CommitFirst ==
  ASSUME IInv, StartInv, ReadsFresh, CarriedInv, NEW p \in Procs, HookCommit(p) \/ Commit(p)
  PROVE  StartInv' /\ CarriedInv'
  <1>1. Onward /\ \A j \in Doomed(p) : ~Fresh(job'[j])
    BY CommitOnward
  <1>2. UNCHANGED <<broker, revoked, worker, sent>>
    BY DEF HookCommit, Commit
  <1>3. \A r \in Rows : /\ outbox[r] # None => outbox'[r] = RowAfter(p, r)
                        /\ outbox[r] = None /\ outbox'[r] # None => outbox'[r].status # "dead_letter"
    <2>1. CASE HookCommit(p)
      BY <2>1, HookTables DEF HookCommit
    <2>2. CASE Commit(p)
      <3>1. PICK ids \in FreshIds(p) : outbox' = [r \in Rows |-> OutboxAfter(p, ids, r)]
        BY <2>2 DEF Commit
      <3>2. ASSUME NEW r \in Rows
            PROVE  /\ outbox[r] # None => outbox'[r] = RowAfter(p, r)
                   /\ outbox[r] = None /\ outbox'[r] # None => outbox'[r].status # "dead_letter"
        BY <3>1, OutboxAfterType
      <3> QED BY <3>2
    <2> QED BY <2>1, <2>2
  <1>4. RowsKept
    BY <1>3, RowAfterType DEF RowsKept
  <1>5. \A r \in Rows : outbox'[r] # None /\ outbox'[r].status = "dead_letter" =>
            outbox[r] # None /\ (outbox[r].status = "dead_letter" \/ ~Fresh(job'[outbox[r].job]))
    BY <1>1, <1>3, RowAfterGivenUp
  <1>6. CarriedInv'
    BY <1>1, <1>2, <1>4, <1>5, CarriedKept DEF OnItsWay
  <1>7. \A q \in Procs : proc'[q].retry \subseteq proc[q].retry
    BY DEF HookCommit, Commit, IdleTx, Tx, IInv, TypeOK
  <1> QED BY <1>1, <1>2, <1>6, <1>7, OnwardCalm, RetriesKept, WorkersKept DEF StartInv

\* A fresh job is not held back: the worker that takes its message runs it.
LEMMA ReceiveFirst ==
  ASSUME IInv, StartInv, CarriedInv, NEW w \in Workers, NEW r \in Rows, Receive(w, r)
  PROVE  StartInv' /\ CarriedInv'
  <1> DEFINE j == outbox[r].job
             loaded == [IdleWorker EXCEPT !.pc = "loaded", !.job = j, !.attempt = job[j].attempts + 1]
             wk == IF should_run(job[j]) THEN loaded ELSE IdleWorker
  <1>1. /\ worker' = [worker EXCEPT ![w] = wk] /\ worker[w].pc = "idle" /\ broker' = [broker EXCEPT ![r] = @ - 1]
        /\ UNCHANGED <<job, outbox, revoked, proc, sent>>
    BY DEF Receive
  <1>2. outbox[r] # None /\ outbox[r] \in RowRecord
    BY DEF Receive, IInv, Linked, BrokerLinked, TypeOK
  <1>3. j \in Jobs /\ job[j] # None /\ job[j] \in JobRecord
    BY <1>2 DEF IInv, Linked, RowsLinked, TypeOK, RowRecord
  <1>a. \A n \in 0 .. AttemptBound + 1, i \in Jobs :
           LET new == [IdleWorker EXCEPT !.pc = "loaded", !.job = i, !.attempt = n] IN
           new \in WorkerType /\ new.pc = "loaded" /\ new.job = i /\ new.attempt = n
    BY IdleWorkerType DEF WorkerType, WorkerPcs
  <1>b. job[j].attempts + 1 \in 0 .. AttemptBound + 1 /\ job[j].attempts + 1 > 0
    BY <1>3, JobQueueAssumption DEF JobRecord
  <1>c. loaded \in WorkerType /\ loaded.pc = "loaded" /\ loaded.job = j /\ loaded.attempt = job[j].attempts + 1
    BY <1>3, <1>a, <1>b
  <1>4. loaded \in WorkerType /\ loaded.pc = "loaded" /\ loaded.job = j /\ loaded.attempt > 0
    BY ONLY <1>b, <1>c
  <1>5. wk \in WorkerType /\ (wk = loaded \/ (wk.pc = "idle" /\ ~should_run(job[j])))
    BY <1>4, IdleWorkerType DEF IdleWorker
  <1>6. Fresh(job[j]) => wk = loaded
    <2>1. Calm(job[j])
      BY <1>3 DEF StartInv, JobsCalm
    <2> QED BY <2>1 DEF Fresh, Calm, should_run, TERMINAL_JOB_STATUSES
  <1> HIDE DEF wk, loaded
  <1>7. Onward
    BY <1>1, SameOnward DEF StartInv
  <1>8. WorkersStarted'
    BY <1>1, <1>4, <1>5, <1>7, OneWorkerStarted
  <1>9. worker'[w] = wk /\ \A v \in Workers : v # w => worker'[v] = worker[v]
    BY <1>1, <1>5, WorkerUpdate DEF IInv
  <1>10. \A q \in Rows : q # r => broker'[q] = broker[q]
    BY <1>1 DEF IInv, TypeOK
  <1>11. \A i : Loaded(worker, i) => Loaded(worker', i)
    BY <1>1, <1>9 DEF Loaded
  <1>12. ASSUME NEW q \in sent, OnItsWay(q), Fresh(job'[outbox[q].job])
         PROVE  broker'[q] > 0 \/ q \in revoked' \/ Loaded(worker', outbox[q].job)
    <2>1. q \in Rows
      BY DEF IInv, TypeOK
    <2>2. CASE q = r
      <3>1. worker'[w] = loaded
        BY <1>1, <1>6, <1>9, <1>12, <2>2
      <3> QED BY <1>4, <2>2, <3>1 DEF Loaded
    <2>3. CASE q # r
      BY <1>1, <1>10, <1>11, <1>12, <2>1, <2>3 DEF OnItsWay
    <2> QED BY <2>2, <2>3
  <1>13. RowsKept
    BY <1>1 DEF RowsKept
  <1>14. CarriedInv'
    BY <1>1, <1>7, <1>12, <1>13, CarriedKept
  <1>15. RetriesStarted' /\ JobsCalm'
    BY <1>1, <1>7, RetriesKept, OnwardCalm DEF StartInv
  <1> QED BY <1>8, <1>14, <1>15 DEF StartInv

\* mark_started counts the run: the job is no longer fresh.
LEMMA MarkFirst ==
  ASSUME IInv, StartInv, CarriedInv, NEW w \in Workers,
         MarkStarted(w) \/ MarkSucceeded(w) \/ MarkRetrying(w) \/ MarkDeadLetter(w)
  PROVE  StartInv' /\ CarriedInv'
  <1> DEFINE i == worker[w].job
  <1>1. UNCHANGED <<outbox, broker, revoked, proc, sent>>
    BY DEF MarkStarted, MarkSucceeded, MarkRetrying, RetryJob, MarkDeadLetter
  <1>2. Onward /\ job'[i].attempts > 0
    BY MarkOnward
  <1>3. worker[w] \in WorkerType /\ i \in Jobs /\ worker[w].attempt > 0
    BY MarkJob DEF StartInv, WorkersStarted, MarkStarted, MarkSucceeded, MarkRetrying, MarkDeadLetter
  <1>4. PICK wk \in WorkerType : /\ worker' = [worker EXCEPT ![w] = wk]
                                 /\ wk.pc = "idle" \/ (wk.pc = "running" /\ wk.job = i /\ wk.attempt = worker[w].attempt)
    <2>1. CASE MarkStarted(w)
      <3> DEFINE wk == [worker[w] EXCEPT !.pc = "running"]
      <3>1. worker' = [worker EXCEPT ![w] = wk]
        BY <2>1 DEF MarkStarted
      <3>2. wk \in WorkerType /\ wk.pc = "running" /\ wk.job = i /\ wk.attempt = worker[w].attempt
        BY <1>3 DEF WorkerType, WorkerPcs
      <3> HIDE DEF wk
      <3> QED BY <3>1, <3>2
    <2>2. CASE ~MarkStarted(w)
      BY <2>2, IdleWorkerType DEF MarkSucceeded, MarkRetrying, RetryJob, MarkDeadLetter, IdleWorker
    <2> QED BY <2>1, <2>2
  <1>5. WorkersStarted'
    BY <1>2, <1>3, <1>4, OneWorkerStarted
  <1>6. \A v \in Workers : v # w => worker'[v] = worker[v]
    BY <1>4, WorkerUpdate DEF IInv
  <1>7. ~Fresh(job'[i])
    BY <1>2 DEF Fresh
  <1>8. ASSUME NEW q \in sent, OnItsWay(q), Fresh(job'[outbox[q].job])
        PROVE  broker'[q] > 0 \/ q \in revoked' \/ Loaded(worker', outbox[q].job)
    <2>1. outbox[q].job # i
      BY <1>7, <1>8
    <2> QED BY <1>1, <1>6, <1>8, <2>1 DEF OnItsWay, Loaded
  <1>9. RowsKept
    BY <1>1 DEF RowsKept
  <1>10. CarriedInv'
    BY <1>1, <1>2, <1>8, <1>9, CarriedKept
  <1>11. RetriesStarted' /\ JobsCalm'
    BY <1>1, <1>2, RetriesKept, OnwardCalm DEF StartInv
  <1> QED BY <1>5, <1>10, <1>11 DEF StartInv

\* The job's function, and the loads after it, do not lose a first dispatch.
LEMMA FunctionFirst ==
  ASSUME IInv, StartInv, CarriedInv, NEW w \in Workers,
         FnCommit(w) \/ FnRaise(w) \/ LoadJob(w) \/ LoadRecord(w)
  PROVE  StartInv' /\ CarriedInv'
  <1>1. UNCHANGED <<job, outbox, broker, revoked, proc, sent>> /\ worker[w].pc \in {"running", "committed", "raised"}
    BY DEF FnCommit, FnRaise, LoadJob, LoadRecord, Finishing
  <1>2. worker[w] \in WorkerType /\ worker[w].attempt > 0 /\ job[worker[w].job].attempts > 0
    BY <1>1 DEF IInv, TypeOK, StartInv, WorkersStarted
  <1>3. PICK wk \in WorkerType :
            /\ worker' = [worker EXCEPT ![w] = wk] /\ wk.pc \in {"committed", "raised"}
            /\ wk.job = worker[w].job /\ wk.attempt = worker[w].attempt
    <2>1. CASE FnCommit(w) \/ FnRaise(w)
      <3>1. PICK pc \in {"committed", "raised"} : worker' = [worker EXCEPT ![w] = [worker[w] EXCEPT !.pc = pc]]
        BY <2>1 DEF FnCommit, FnRaise
      <3> DEFINE wk == [worker[w] EXCEPT !.pc = pc]
      <3>2. wk \in WorkerType /\ wk.pc = pc /\ wk.job = worker[w].job /\ wk.attempt = worker[w].attempt
        BY <1>2 DEF WorkerType, WorkerPcs
      <3>3. worker' = [worker EXCEPT ![w] = wk]
        BY <3>1
      <3> HIDE DEF wk
      <3> QED BY <3>2, <3>3
    <2>2. CASE LoadJob(w) \/ LoadRecord(w)
      BY <2>2, LoadWorker
    <2> QED BY <2>1, <2>2
  <1>4. wk \in WorkerType /\ wk.pc \in {"committed", "raised"} /\ wk.job = worker[w].job
        /\ wk.attempt = worker[w].attempt
    BY <1>3
  <1>5. worker' = [worker EXCEPT ![w] = wk]
    BY <1>3
  <1>6. Onward
    BY <1>1, SameOnward DEF StartInv
  <1>7. WorkersStarted'
    BY <1>1, <1>2, <1>4, <1>5, <1>6, OneWorkerStarted
  <1>8. \A v \in Workers : v # w => worker'[v] = worker[v]
    BY <1>4, <1>5, WorkerUpdate DEF IInv
  <1>9. \A i : Loaded(worker, i) => Loaded(worker', i)
    BY <1>1, <1>8 DEF Loaded
  <1>10. RowsKept
    BY <1>1 DEF RowsKept
  <1>11. CarriedInv'
    BY <1>1, <1>6, <1>9, <1>10, CarriedKept DEF OnItsWay
  <1>12. RetriesStarted' /\ JobsCalm'
    BY <1>1, <1>6, RetriesKept, OnwardCalm DEF StartInv
  <1> QED BY <1>7, <1>11, <1>12 DEF StartInv

\* Steps that leave the workers alone and rewrite one job or one row.
LEMMA OtherFirst ==
  ASSUME IInv, StartInv, CarriedInv,
         \/ \E c \in Clients : CancelCommit(c)
         \/ \E j \in Jobs : JobWindowOpens(j)
         \/ \E r \in Rows : RowWindowOpens(r) \/ DropRevoked(r)
  PROVE  StartInv' /\ CarriedInv'
  <1>1. UNCHANGED <<revoked, worker, sent>>
    BY DEF CancelCommit, JobWindowOpens, RowWindowOpens, DropRevoked
  <1>2. Onward
    <2>1. CASE job' = job
      BY <2>1, SameOnward DEF StartInv
    <2>2. ASSUME NEW c \in Clients, CancelCommit(c) PROVE Onward
      BY <2>2, CancelOnward DEF Procs
    <2> QED BY <2>1, <2>2, WindowOnward DEF RowWindowOpens, DropRevoked
  <1>3. RowsKept /\ \A r \in Rows : outbox'[r] # None /\ outbox'[r].status = "dead_letter" =>
                        outbox[r] # None /\ outbox[r].status = "dead_letter"
    <2>1. CASE outbox' = outbox
      BY <2>1 DEF RowsKept
    <2>2. ASSUME NEW r \in Rows, RowWindowOpens(r)
          PROVE  RowsKept /\ \A q \in Rows : outbox'[q] # None /\ outbox'[q].status = "dead_letter" =>
                        outbox[q] # None /\ outbox[q].status = "dead_letter"
      <3> DEFINE rec == [outbox[r] EXCEPT !.waiting = FALSE]
      <3>1. outbox[r] # None /\ outbox[r] \in RowRecord
        BY <2>2 DEF RowWindowOpens, IInv, TypeOK
      <3>2. rec \in RowRecord /\ rec.status = outbox[r].status /\ rec.job = outbox[r].job
        BY <3>1 DEF RowRecord
      <3>3. outbox' = [outbox EXCEPT ![r] = rec]
        BY <2>2 DEF RowWindowOpens
      <3> HIDE DEF rec
      <3>4. rec # None /\ outbox'[r] = rec /\ \A q \in Rows : q # r => outbox'[q] = outbox[q]
        BY <3>2, <3>3, NoneAssumption DEF IInv, TypeOK
      <3> QED BY <3>1, <3>2, <3>4 DEF RowsKept
    <2> QED BY <2>1, <2>2 DEF CancelCommit, JobWindowOpens, DropRevoked
  <1>4. \A q \in Rows : broker[q] > 0 => broker'[q] > 0 \/ q \in revoked
    <2>1. CASE broker' = broker
      BY <2>1
    <2>2. ASSUME NEW r \in Rows, DropRevoked(r) PROVE r \in revoked /\ \A q \in Rows : q # r => broker'[q] = broker[q]
      BY <2>2 DEF DropRevoked, IInv, TypeOK
    <2> QED BY <2>1, <2>2 DEF CancelCommit, JobWindowOpens, RowWindowOpens
  <1>5. sent \subseteq Rows
    BY DEF IInv, TypeOK
  <1>6. CarriedInv'
    BY <1>1, <1>2, <1>3, <1>4, <1>5, CarriedKept DEF OnItsWay
  <1>7. \A q \in Procs : proc'[q].retry \subseteq proc[q].retry
    <2>1. CASE proc' = proc
      BY <2>1
    <2>2. ASSUME NEW c \in Clients, CancelCommit(c) PROVE \A q \in Procs : proc'[q].retry \subseteq proc[q].retry
      BY <2>2 DEF CancelCommit, IdleTx, Tx, IInv, TypeOK
    <2> QED BY <2>1, <2>2 DEF JobWindowOpens, RowWindowOpens, DropRevoked
  <1> QED BY <1>1, <1>2, <1>6, <1>7, OnwardCalm, RetriesKept, WorkersKept DEF StartInv

\* While no worker dies, no step loses a first dispatch.
LEMMA NextFirst ==
  ASSUME WorkerCrashBound = 0, IInv, StartInv, ReadsFresh, CarriedInv, [Next]_vars
  PROVE  StartInv' /\ CarriedInv'
  <1>1. ASSUME NEW s \in Schedulers, SchedulerStep(s) PROVE StartInv' /\ CarriedInv'
    <2>1. s \in Procs
      BY DEF Procs
    <2> QED BY <1>1, <2>1, ProcFirst DEF SchedulerStep
  <1>2. ASSUME NEW p \in Procs, TxStep(p) \/ ProcCrash(p) PROVE StartInv' /\ CarriedInv'
    BY <1>2, ProcFirst, CommitFirst DEF TxStep
  <1>3. ASSUME NEW c \in Clients, ClientStep(c) PROVE StartInv' /\ CarriedInv'
    <2>1. c \in Procs
      BY DEF Procs
    <2> QED BY <1>3, <2>1, ProcFirst, OtherFirst DEF ClientStep
  <1>4. ASSUME NEW w \in Workers, WorkerStep(w) PROVE StartInv' /\ CarriedInv'
    BY <1>4, ReceiveFirst, MarkFirst, FunctionFirst DEF WorkerStep
  <1>5. ASSUME NEW w \in Workers, WorkerCrash(w) PROVE FALSE
    BY <1>5 DEF WorkerCrash, IInv, TypeOK
  <1>6. CASE TimeStep \/ \E r \in Rows : DropRevoked(r)
    BY <1>6, OtherFirst DEF TimeStep
  <1>7. CASE UNCHANGED vars
    BY <1>7 DEF vars, StartInv, JobsCalm, RetriesStarted, WorkersStarted, CarriedInv, SentCarried, GivenUp, OnItsWay
  <1> QED BY <1>1, <1>2, <1>3, <1>4, <1>5, <1>6, <1>7 DEF Next, CrashStep

\* While no worker dies, a job that has never started is still on its way:
\* its row is due or in backoff, its message is in the broker or revoked, or a
\* worker has loaded it.  Crashes of requests and schedulers between a send
\* and its commit, and any race of dispatchers, are allowed.
THEOREM FirstDispatchSurvivesHolds ==
  ASSUME WorkerCrashBound = 0
  PROVE  Spec => []FirstDispatchSurvives
  <1> DEFINE I == IInv /\ Created /\ SentInv /\ StartInv /\ ReadsFresh /\ CarriedInv
  <1>1. Init => I
    <2>1. Init => Created
      BY JobQueueAssumption
      DEF Init, Created, OneJobPerKey, CreatedTogether, JobsWithKey, Exists, Rows
    <2>2. Init => SentInv
      BY DEF Init, SentInv, OkWasSent, DispatchedWasSent, IdleTx, Tx, NoBatch, NoneRead
    <2>3. Init => StartInv
      BY DEF Init, StartInv, JobsCalm, RetriesStarted, WorkersStarted, IdleTx, Tx, IdleWorker
    <2>4. Init => CarriedInv
      BY DEF Init, CarriedInv, SentCarried, GivenUp
    <2>5. Init => ReadsFresh
      <3>1. Init => \A p \in Procs : proc[p] = IdleTx
        BY DEF Init
      <3>2. \A j \in Jobs : IdleTx.read[j] = None
        BY DEF IdleTx, Tx, NoneRead
      <3> QED BY <3>1, <3>2, InitReads DEF ReadsFresh, ReadCompleted
    <2> QED BY <2>1, <2>2, <2>3, <2>4, <2>5, InitIInv
  <1>2. I /\ [Next]_vars => I'
    <2>1. I /\ [Next]_vars => Onward /\ ReadsMove
      BY NextOnward, StepReads
    <2>2. I /\ [Next]_vars => ReadsFresh'
      BY <2>1, ReadsStayFresh
    <2> QED BY <2>2, NextIInv, NextCreated, NextSent, NextFirst
  <1>3. I => FirstDispatchSurvives
    <2> SUFFICES ASSUME I, NEW j \in Jobs, job[j] # None, Fresh(job[j])
                 PROVE  LET r == <<job[j].key, 0>> IN
                        \/ outbox[r].status \in {"pending", "retrying"}
                        \/ broker[r] > 0 \/ r \in revoked \/ Loaded(worker, j)
      BY DEF FirstDispatchSurvives, Exists, Fresh, Loaded
    <2> DEFINE r == <<job[j].key, 0>>
    <2>1. job[j].key \in Keys /\ idem[job[j].key] # "absent"
      BY JobHasRecord
    <2>2. r \in Rows /\ r[1] = job[j].key
      BY <2>1, JobQueueAssumption DEF Rows
    <2>3. outbox[r] # None
      BY <2>1 DEF Created, CreatedTogether
    <2> HIDE DEF r
    <2>4. outbox[r] \in RowRecord /\ outbox[r].job \in Jobs /\ job[outbox[r].job] # None
          /\ job[outbox[r].job].key = job[j].key
      BY <2>2, <2>3 DEF IInv, TypeOK, RowRecord, Linked, RowsLinked
    <2>5. outbox[r].job = j
      BY <2>4 DEF Created, OneJobPerKey, Exists
    <2>6. outbox[r].status # "dead_letter"
      BY <2>2, <2>3, <2>5 DEF CarriedInv, GivenUp
    <2>7. outbox[r].status \in {"pending", "retrying", "dispatched"}
      BY <2>4, <2>6 DEF RowRecord, RowStatuses
    <2>8. outbox[r].status = "dispatched" => r \in sent
      BY <2>2, <2>3 DEF SentInv, DispatchedWasSent
    <2>9. r \in sent => OnItsWay(r)
      BY <2>5 DEF CarriedInv, SentCarried
    <2> QED BY <2>5, <2>7, <2>8, <2>9 DEF OnItsWay, r
  <1> HIDE DEF I
  <1> QED BY <1>1, <1>2, <1>3, PTL DEF Spec
----------------------------------------------------------------------------
(* The deployment with one dispatcher whose transactions commit.           *)

OneDispatcher(s) == Clients = {} /\ Schedulers = {s} /\ CrashBound = 0

\* Nobody works on j.
Unattended(j, ws) == \A w \in Workers : ws[w].pc # "idle" => ws[w].job # j

\* A row still to be sent, given the verdict of the open transaction.
Unsent(row, verdict) == row.status \in {"pending", "retrying"} /\ verdict # "ok"

\* Rows of earlier runs are spent.  The row of the next run is unsent, or its
\* one message is in the broker, only while the job is queued and unattended.
RowOK(r, row, verdict, copies, rec, ws) ==
    /\ r[2] < rec.attempts \/ (r[2] = rec.attempts /\ rec.status \in {"queued", "dead_letter"})
    /\ Unsent(row, verdict) \/ copies > 0 =>
          rec.status = "queued" /\ r[2] = rec.attempts /\ Unattended(row.job, ws)
    /\ copies = 0 \/ (copies = 1 /\ ~Unsent(row, verdict))

JobOK(j, rec, effect, ws) ==
    /\ rec.attempts <= MaxAttempts
    /\ rec.status \in {"queued", "retrying"} => rec.attempts < MaxAttempts
    /\ rec.status = "retrying" => Unattended(j, ws)
    /\ effect > 0 => rec.status \in {"running", "succeeded"}

WorkerOK(wk, rec, effect) ==
    /\ wk.pc = "loaded" => rec.status = "queued" /\ wk.attempt = rec.attempts + 1
    /\ wk.pc \in {"running", "committed", "raised"} => rec.status = "running" /\ wk.attempt = rec.attempts
    /\ wk.read # None => /\ wk.pc \in {"committed", "raised"}
                         /\ wk.read.status = "running" /\ wk.read.record \in {None, "processing"}
    /\ effect = IF wk.pc = "committed" THEN 1 ELSE 0

\* What the dispatcher has loaded is current.
LoadedOK(tx) ==
    /\ tx.pc \in {"idle", "hook"} => tx.batch = NoBatch
    /\ tx.pc # "insert" => tx.retry = {} /\ tx.want = {}
    /\ tx.pc # "cancel"

RowsOK(s) == \A r \in Rows : outbox[r] # None =>
    RowOK(r, outbox[r], proc[s].batch[r], broker[r], job[outbox[r].job], worker)
JobsOK == \A j \in Jobs : IF job[j] = None THEN effects[j] = 0 ELSE effects[j] <= 1 /\ JobOK(j, job[j], effects[j], worker)
WorkersOK == \A w \in Workers : worker[w].pc # "idle" => WorkerOK(worker[w], job[worker[w].job], effects[worker[w].job])
\* The dispatcher has loaded just the jobs it gives up on, each of them queued.
DispatcherReads(s) ==
    /\ \A j \in Jobs : proc[s].read[j] # None =>
          /\ j \in Doomed(s)
          /\ proc[s].read[j].status = "queued" /\ proc[s].read[j].record \in {None, "processing"}
    /\ \A j \in Doomed(s) : proc[s].read[j] # None
DispatcherOK(s) ==
    /\ LoadedOK(proc[s])
    /\ DispatcherReads(s)
    /\ \A r \in Rows : proc[s].batch[r] # "skip" => outbox[r].status \in {"pending", "retrying"}
    /\ \A x \in proc[s].retry : job[x[1]].status = "retrying" /\ x[2] = job[x[1]].attempts /\ x[3]
    /\ \A k \in proc[s].want : idem[k] = "absent"
SoleInv(s) == RowsOK(s) /\ JobsOK /\ WorkersOK /\ ExclusiveExecution /\ DispatcherOK(s)

\* Each idempotency record reports the outcome of its job.
Outcome(status) == IF status = "succeeded" THEN "succeeded"
                   ELSE IF status = "dead_letter" THEN "failed" ELSE "processing"
OutcomeOK == \A j \in Jobs : job[j] # None => idem[job[j].key] = Outcome(job[j].status)

\* How one transaction may change a job: the steps of JobLifecycle.
Lawful(a, b) ==
    \/ a = b
    \/ a # None /\ b # None /\ a.status = b.status /\ a.attempts = b.attempts
    \/ a = None /\ b # None /\ b.status = "queued" /\ b.attempts = 0
    \/ /\ a # None /\ b # None
       /\ \/ /\ a.status = "queued" /\ b.status = "running"
             /\ a.attempts < MaxAttempts /\ b.attempts = a.attempts + 1
          \/ /\ a.status = "running" /\ b.status = "succeeded" /\ b.attempts = a.attempts
          \/ /\ a.status = "running" /\ b.status = "retrying"
             /\ a.attempts < MaxAttempts /\ b.attempts = a.attempts
          \/ /\ a.status = "running" /\ b.status = "dead_letter"
             /\ a.attempts = MaxAttempts /\ b.attempts = a.attempts
          \/ /\ a.status = "retrying" /\ b.status = "queued" /\ b.attempts = a.attempts
          \/ /\ a.status = "queued" /\ b.status = "dead_letter" /\ b.attempts = a.attempts
AllLawful == \A j \in Jobs : Lawful(job[j], job'[j])

\* What the dispatcher gives up on depends on its verdicts and loaded rows only.
LEMMA SameDoomed ==
  ASSUME NEW s, proc'[s].batch = proc[s].batch, proc'[s].seen = proc[s].seen
  PROVE  Doomed(s)' = Doomed(s)
  BY DEF Doomed, Selected, FailStatus, Tried

\* Its loaded jobs stay as they are.
LEMMA SameDispatcherReads ==
  ASSUME NEW s, DispatcherReads(s), proc'[s].batch = proc[s].batch, proc'[s].seen = proc[s].seen,
         proc'[s].read = proc[s].read
  PROVE  DispatcherReads(s)'
  BY SameDoomed DEF DispatcherReads

\* Without refused messages nothing is given up on.
LEMMA NothingDoomed ==
  ASSUME NEW s, \A r \in Rows : proc'[s].batch[r] # "fail", \A j \in Jobs : proc'[s].read[j] = None
  PROVE  DispatcherReads(s)'
  <1>1. Doomed(s)' = {}
    BY DEF Doomed, Selected
  <1> QED BY <1>1 DEF DispatcherReads

\* Steps of the dispatcher's private state.
LEMMA PrivateSole ==
  ASSUME NEW s, SoleInv(s), UNCHANGED <<job, outbox, worker, effects>>, DispatcherOK(s)',
         \A r \in Rows : outbox[r] # None =>
            RowOK(r, outbox[r], proc'[s].batch[r], broker'[r], job[outbox[r].job], worker)
  PROVE  SoleInv(s)' /\ AllLawful
  <1>1. RowsOK(s)'
    BY DEF RowsOK
  <1>2. JobsOK' /\ WorkersOK' /\ ExclusiveExecution'
    BY DEF SoleInv, JobsOK, WorkersOK, ExclusiveExecution
  <1>3. AllLawful
    BY DEF AllLawful, Lawful
  <1> QED BY <1>1, <1>2, <1>3 DEF SoleInv

\* Steps that leave every status and count, and do not add a message.
LEMMA CalmSole ==
  ASSUME NEW s, IInv, SoleInv(s), UNCHANGED <<idem, proc, worker, effects>>,
         \A j \in Jobs : (job'[j] = None <=> job[j] = None)
            /\ (job[j] # None => job'[j].status = job[j].status /\ job'[j].attempts = job[j].attempts),
         \A r \in Rows : (outbox'[r] = None <=> outbox[r] = None)
            /\ (outbox[r] # None => outbox'[r].status = outbox[r].status /\ outbox'[r].job = outbox[r].job)
            /\ broker'[r] \in {broker[r], 0},
         s \in Procs
  PROVE  SoleInv(s)' /\ AllLawful
  <1>1. RowsOK(s)'
    <2> SUFFICES ASSUME NEW r \in Rows, outbox[r] # None
                 PROVE  RowOK(r, outbox'[r], proc[s].batch[r], broker'[r], job'[outbox[r].job], worker)
      BY DEF RowsOK
    <2>1. RowOK(r, outbox[r], proc[s].batch[r], broker[r], job[outbox[r].job], worker)
      BY DEF SoleInv, RowsOK
    <2>2. outbox[r].job \in Jobs /\ job[outbox[r].job] # None
      BY DEF IInv, TypeOK, Linked, RowsLinked, RowRecord
    <2> QED BY <2>1, <2>2 DEF RowOK, Unsent
  <1>2. JobsOK'
    BY DEF SoleInv, JobsOK, JobOK
  <1>3. WorkersOK' /\ ExclusiveExecution'
    <2>1. \A w \in Workers : worker[w].pc # "idle" => worker[w].job \in Jobs /\ job[worker[w].job] # None
      BY DEF IInv, Linked, WorkersLinked
    <2> QED BY <2>1 DEF SoleInv, WorkersOK, WorkerOK, ExclusiveExecution
  <1>4. DispatcherOK(s)'
    <2>1. \A x \in proc[s].retry : x[1] \in Jobs /\ job[x[1]] # None
      BY DEF IInv, TypeOK, TxType, Linked, RetryLinked
    <2>2. \A r \in Rows : proc[s].batch[r] # "skip" => outbox[r] # None
      BY DEF IInv, Linked, BatchLinked
    <2>3. DispatcherReads(s)'
      BY SameDispatcherReads DEF SoleInv, DispatcherOK
    <2> QED BY <2>1, <2>2, <2>3 DEF SoleInv, DispatcherOK
  <1>5. AllLawful
    BY DEF AllLawful, Lawful
  <1> QED BY <1>1, <1>2, <1>3, <1>4, <1>5 DEF SoleInv

\* Steps of one worker about the job i that nobody else works on.
LEMMA AboutOneJob ==
  ASSUME NEW s, s \in Procs, IInv, SoleInv(s), UNCHANGED <<outbox, proc>>,
         NEW w \in Workers, NEW i \in Jobs, job[i] # None,
         \A v \in Workers : v # w => worker'[v] = worker[v] /\ (worker[v].pc # "idle" => worker[v].job # i),
         worker[w].pc # "idle" => worker[w].job = i,
         worker'[w].pc # "idle" => worker'[w].job = i,
         \A j \in Jobs : j # i => job'[j] = job[j] /\ effects'[j] = effects[j],
         \A r \in Rows : outbox[r] # None => IF outbox[r].job = i
            THEN RowOK(r, outbox[r], proc[s].batch[r], broker'[r], job'[i], worker')
            ELSE broker'[r] = broker[r],
         job'[i] # None, effects'[i] <= 1, JobOK(i, job'[i], effects'[i], worker'),
         worker'[w].pc # "idle" => WorkerOK(worker'[w], job'[i], effects'[i]),
         job'[i] = job[i] \/ job[i].status # "retrying",
         \A k \in proc[s].want : idem'[k] = idem[k]
  PROVE  SoleInv(s)'
  <1>1. \A j \in Jobs : j # i /\ Unattended(j, worker) => Unattended(j, worker')
    BY DEF Unattended
  <1>2. RowsOK(s)'
    <2> SUFFICES ASSUME NEW r \in Rows, outbox[r] # None
                 PROVE  RowOK(r, outbox[r], proc[s].batch[r], broker'[r], job'[outbox[r].job], worker')
      BY DEF RowsOK
    <2>1. RowOK(r, outbox[r], proc[s].batch[r], broker[r], job[outbox[r].job], worker)
      BY DEF SoleInv, RowsOK
    <2>2. outbox[r].job \in Jobs
      BY DEF IInv, TypeOK, RowRecord
    <2>3. CASE outbox[r].job = i
      BY <2>3
    <2>4. CASE outbox[r].job # i
      <3>1. job'[outbox[r].job] = job[outbox[r].job] /\ broker'[r] = broker[r]
        BY <2>2, <2>4
      <3> QED BY <1>1, <2>1, <2>2, <2>4, <3>1 DEF RowOK
    <2> QED BY <2>3, <2>4
  <1>3. JobsOK'
    BY <1>1 DEF SoleInv, JobsOK, JobOK
  <1>4. WorkersOK'
    <2> SUFFICES ASSUME NEW v \in Workers, worker'[v].pc # "idle"
                 PROVE  WorkerOK(worker'[v], job'[worker'[v].job], effects'[worker'[v].job])
      BY DEF WorkersOK
    <2>1. CASE v = w
      BY <2>1
    <2>2. CASE v # w
      <3>1. worker[v].job \in Jobs /\ worker[v].job # i /\ worker'[v] = worker[v]
        BY <2>2 DEF IInv, Linked, WorkersLinked
      <3> QED BY <3>1 DEF SoleInv, WorkersOK
    <2> QED BY <2>1, <2>2
  <1>5. ExclusiveExecution'
    BY DEF SoleInv, ExclusiveExecution
  <1>6. DispatcherOK(s)'
    <2>1. \A x \in proc[s].retry : x[1] \in Jobs
      BY DEF IInv, TypeOK, TxType
    <2>2. \A x \in proc[s].retry : job'[x[1]].status = "retrying" /\ x[2] = job'[x[1]].attempts /\ x[3]
      BY <2>1 DEF SoleInv, DispatcherOK
    <2>3. DispatcherReads(s)'
      BY SameDispatcherReads DEF SoleInv, DispatcherOK
    <2> QED BY <2>2, <2>3 DEF SoleInv, DispatcherOK
  <1> QED BY <1>2, <1>3, <1>4, <1>5, <1>6 DEF SoleInv

\* A row's verdict "ok" is all that RowOK looks at.
LEMMA VerdictRows ==
  ASSUME NEW s, SoleInv(s), NEW batch, \A r \in Rows : batch[r] = "ok" <=> proc[s].batch[r] = "ok"
  PROVE  \A r \in Rows : outbox[r] # None =>
            RowOK(r, outbox[r], batch[r], broker[r], job[outbox[r].job], worker)
  <1> SUFFICES ASSUME NEW r \in Rows, outbox[r] # None
               PROVE  RowOK(r, outbox[r], batch[r], broker[r], job[outbox[r].job], worker)
    OBVIOUS
  <1>1. RowOK(r, outbox[r], proc[s].batch[r], broker[r], job[outbox[r].job], worker)
    BY DEF SoleInv, RowsOK
  <1> QED BY <1>1 DEF RowOK, Unsent

\* The only dispatcher loads the rows that are due.
LEMMA SelectSole ==
  ASSUME NEW s \in Procs, IInv, SoleInv(s), TickSelect(s) \/ HookSelect(s)
  PROVE  SoleInv(s)' /\ AllLawful
  <1> DEFINE b == [r \in Rows |-> IF Due(r) THEN "todo" ELSE "skip"]
             sn == [r \in Rows |-> IF Due(r) THEN outbox[r] ELSE None]
  <1>0. PICK pc \in {"tickSend", "hookSend"} :
            proc' = [proc EXCEPT ![s] = [proc[s] EXCEPT !.pc = pc, !.batch = b, !.seen = sn]]
    BY DEF TickSelect, HookSelect, Select, IInv, TypeOK
  <1>1. /\ UNCHANGED <<job, idem, outbox, broker, worker, effects>>
        /\ proc'[s].pc \in {"tickSend", "hookSend"} /\ proc'[s].batch = b
        /\ proc'[s].retry = proc[s].retry /\ proc'[s].want = proc[s].want
        /\ proc'[s].read = proc[s].read
        /\ proc[s].pc \in {"idle", "hook"}
    <2> HIDE DEF b, sn
    <2>1. /\ proc'[s].pc = pc /\ proc'[s].batch = b
          /\ proc'[s].retry = proc[s].retry /\ proc'[s].want = proc[s].want
          /\ proc'[s].read = proc[s].read
      BY <1>0 DEF IInv, TypeOK, TxType
    <2> QED BY <2>1 DEF TickSelect, HookSelect
  <1>2. \A r \in Rows : b[r] \notin {"ok", "fail"} /\ (b[r] # "skip" => Due(r))
    OBVIOUS
  <1>3. proc[s].batch = NoBatch /\ proc[s].retry = {} /\ proc[s].want = {}
    BY <1>1 DEF SoleInv, DispatcherOK, LoadedOK
  <1> HIDE DEF b
  <1>4. \A r \in Rows : b[r] = "ok" <=> proc[s].batch[r] = "ok"
    BY <1>2, <1>3 DEF NoBatch, NoneRead
  <1>a. Doomed(s) = {}
    BY <1>3 DEF Doomed, Selected, NoBatch
  <1>b. \A j \in Jobs : proc[s].read[j] = None
    BY <1>a DEF SoleInv, DispatcherOK, DispatcherReads
  <1>c. DispatcherReads(s)'
    BY <1>1, <1>2, <1>b, NothingDoomed
  <1>5. DispatcherOK(s)'
    BY <1>1, <1>2, <1>3, <1>c DEF DispatcherOK, LoadedOK, Due
  <1> QED BY <1>1, <1>4, <1>5, VerdictRows, PrivateSole

\* The broker refuses a message of the only dispatcher.
LEMMA SendFailSole ==
  ASSUME NEW s \in Procs, IInv, SoleInv(s), NEW r \in Rows, SendFail(s, r)
  PROVE  SoleInv(s)' /\ AllLawful
  <1>1. /\ UNCHANGED <<job, idem, outbox, broker, worker, effects>>
        /\ proc'[s].pc = proc[s].pc /\ proc[s].pc \in {"tickSend", "hookSend"}
        /\ proc'[s].batch = [proc[s].batch EXCEPT ![r] = "fail"]
        /\ proc'[s].retry = proc[s].retry /\ proc'[s].want = proc[s].want
        /\ proc'[s].seen = proc[s].seen /\ proc'[s].read = ReadsAfter(s, r)
        /\ proc[s].batch[r] = "todo"
    BY DEF SendFail, Sending, IInv, TypeOK, TxType
  <1>2. \A q \in Rows : /\ proc'[s].batch[q] = "ok" <=> proc[s].batch[q] = "ok"
                        /\ proc'[s].batch[q] # "skip" => proc[s].batch[q] # "skip"
                        /\ proc'[s].batch[q] = "fail" <=> proc[s].batch[q] = "fail" \/ q = r
    BY <1>1 DEF IInv, TypeOK, TxType
  <1> DEFINE i == proc[s].seen[r].job
  <1>a. /\ i \in Jobs /\ i = outbox[r].job /\ outbox[r] # None
        /\ \A j \in Jobs : \/ ReadsAfter(s, r)[j] = proc[s].read[j]
                           \/ /\ ReadsAfter(s, r)[j] = ReadJob(j) /\ job[j] # None /\ j = i
                              /\ FailStatus(s, r) = "dead_letter"
        /\ FailStatus(s, r) = "dead_letter" => ReadsAfter(s, r)[i] # None
    BY <1>1, ReadsAfterType
  <1>b. job[i].status = "queued"
    <2>1. RowOK(r, outbox[r], proc[s].batch[r], broker[r], job[i], worker)
      BY <1>a DEF SoleInv, RowsOK
    <2>2. outbox[r].status \in {"pending", "retrying"}
      BY <1>1 DEF SoleInv, DispatcherOK
    <2> QED BY <1>1, <2>1, <2>2 DEF RowOK, Unsent
  <1>c. \A j : j \in Doomed(s)' <=> j \in Doomed(s) \/ (FailStatus(s, r) = "dead_letter" /\ j = i)
    BY <1>1, <1>2 DEF Doomed, Selected, FailStatus, Tried
  <1> HIDE DEF i
  <1>d. ASSUME NEW j \in Jobs, ReadsAfter(s, r)[j] # None
        PROVE  /\ j \in Doomed(s)'
               /\ ReadsAfter(s, r)[j].status = "queued" /\ ReadsAfter(s, r)[j].record \in {None, "processing"}
    <2>1. CASE ReadsAfter(s, r)[j] = proc[s].read[j]
      BY <1>c, <1>d, <2>1 DEF SoleInv, DispatcherOK, DispatcherReads
    <2>2. CASE ReadsAfter(s, r)[j] # proc[s].read[j]
      <3>1. ReadsAfter(s, r)[j] = ReadJob(j) /\ j = i /\ FailStatus(s, r) = "dead_letter"
        BY <1>a, <2>2
      <3> QED BY <1>b, <1>c, <3>1 DEF ReadJob
    <2> QED BY <2>1, <2>2
  <1>e. ASSUME NEW j \in Doomed(s)' PROVE ReadsAfter(s, r)[j] # None
    <2>1. CASE j \in Doomed(s)
      <3>1. j \in Jobs /\ proc[s].read[j] # None
        BY <2>1, DoomedExist DEF SoleInv, DispatcherOK, DispatcherReads
      <3> QED BY <1>a, <3>1, ReadJobType
    <2> QED BY <1>a, <1>c, <2>1
  <1>f. DispatcherReads(s)'
    BY <1>1, <1>d, <1>e DEF DispatcherReads
  <1>3. DispatcherOK(s)'
    BY <1>1, <1>2, <1>f DEF SoleInv, DispatcherOK, LoadedOK
  <1> DEFINE b == [proc[s].batch EXCEPT ![r] = "fail"]
  <1>4. \A q \in Rows : b[q] = "ok" <=> proc[s].batch[q] = "ok"
    BY <1>1, <1>2
  <1> HIDE DEF b
  <1>5. \A q \in Rows : outbox[q] # None =>
            RowOK(q, outbox[q], b[q], broker[q], job[outbox[q].job], worker)
    BY <1>4, VerdictRows
  <1>6. proc'[s].batch = b
    BY <1>1 DEF b
  <1> QED BY <1>1, <1>3, <1>5, <1>6, PrivateSole

\* The only dispatcher sends a message: it is the row's only one.
LEMMA SendOkSole ==
  ASSUME NEW s \in Procs, IInv, SoleInv(s), NEW r \in Rows, SendOk(s, r)
  PROVE  SoleInv(s)' /\ AllLawful
  <1>1. /\ UNCHANGED <<job, idem, outbox, worker, effects>>
        /\ proc'[s].pc = proc[s].pc /\ proc[s].pc \in {"tickSend", "hookSend"}
        /\ proc'[s].batch = [proc[s].batch EXCEPT ![r] = "ok"]
        /\ proc'[s].retry = proc[s].retry /\ proc'[s].want = proc[s].want
        /\ proc'[s].seen = proc[s].seen /\ proc'[s].read = proc[s].read
        /\ proc[s].batch[r] = "todo"
        /\ broker' = [broker EXCEPT ![r] = @ + 1]
    BY DEF SendOk, Sending, IInv, TypeOK, TxType
  <1>2. /\ proc'[s].batch[r] = "ok" /\ broker'[r] = broker[r] + 1
        /\ \A q \in Rows : q # r => proc'[s].batch[q] = proc[s].batch[q] /\ broker'[q] = broker[q]
    BY <1>1 DEF IInv, TypeOK, TxType
  <1>a. Doomed(s)' = Doomed(s)
    BY <1>1, <1>2 DEF Doomed, Selected, FailStatus, Tried
  <1>b. DispatcherReads(s)'
    BY <1>1, <1>a DEF DispatcherReads, SoleInv, DispatcherOK
  <1>3. DispatcherOK(s)'
    BY <1>1, <1>2, <1>b DEF SoleInv, DispatcherOK, LoadedOK
  <1>4. outbox[r].status \in {"pending", "retrying"}
    BY <1>1 DEF SoleInv, DispatcherOK
  <1>5. ASSUME NEW q \in Rows, outbox[q] # None
        PROVE  RowOK(q, outbox[q], proc'[s].batch[q], broker'[q], job[outbox[q].job], worker)
    <2>1. RowOK(q, outbox[q], proc[s].batch[q], broker[q], job[outbox[q].job], worker)
      BY <1>5 DEF SoleInv, RowsOK
    <2>2. CASE q = r
      BY <1>1, <1>2, <1>4, <2>1, <2>2 DEF RowOK, Unsent
    <2> QED BY <1>2, <2>1, <2>2
  <1> QED BY <1>1, <1>3, <1>5, PrivateSole

\* The row of a job's next run does not exist while the job waits for its retry.
LEMMA RetryRowFree ==
  ASSUME NEW s, IInv, Created, SoleInv(s), NEW j \in Jobs, job[j] # None, job[j].status = "retrying"
  PROVE  outbox[<<job[j].key, job[j].attempts>>] = None
  <1> DEFINE r == <<job[j].key, job[j].attempts>>
  <1> SUFFICES ASSUME outbox[r] # None PROVE FALSE
    OBVIOUS
  <1>1. r \in Rows /\ r[1] = job[j].key /\ r[2] = job[j].attempts
    BY DEF IInv, TypeOK, JobRecord, Rows
  <1>2. outbox[r].job \in Jobs /\ job[outbox[r].job] # None /\ job[outbox[r].job].key = job[j].key
    BY <1>1 DEF IInv, TypeOK, Linked, RowsLinked, RowRecord
  <1>3. outbox[r].job = j
    BY <1>2, KeysApart
  <1>4. RowOK(r, outbox[r], proc[s].batch[r], broker[r], job[j], worker)
    BY <1>1, <1>3 DEF SoleInv, RowsOK
  <1>5. job[j].attempts \in Nat
    BY DEF IInv, TypeOK, JobRecord
  <1> QED BY <1>1, <1>4, <1>5 DEF RowOK

\* The only dispatcher collects jobs to retry and windows that are due.
LEMMA CollectSole ==
  ASSUME NEW s \in Procs, IInv, Created, SoleInv(s), NEW due, TickCollect(s, due)
  PROVE  SoleInv(s)' /\ AllLawful
  <1> DEFINE retry == {<<j, job[j].attempts, outbox[<<job[j].key, job[j].attempts>>] = None>> : j \in ReadyForRetry}
             want == {k \in due : idem[k] = "absent" /\ JobsWithKey(k) = {}}
  <1>1. /\ UNCHANGED <<job, idem, outbox, broker, worker, effects>>
        /\ proc'[s].pc = "insert" /\ proc'[s].batch = proc[s].batch
        /\ proc'[s].seen = proc[s].seen /\ proc'[s].read = proc[s].read
        /\ proc'[s].retry = retry /\ proc'[s].want = want
    <2>1. /\ UNCHANGED <<job, idem, outbox, broker, worker, effects>>
          /\ proc' = [proc EXCEPT ![s].pc = "insert", ![s].retry = retry, ![s].want = want]
      BY DEF TickCollect
    <2>2. proc \in [Procs -> TxType]
      BY DEF IInv, TypeOK
    <2> HIDE DEF retry, want
    <2>3. proc'[s] = [proc[s] EXCEPT !.pc = "insert", !.retry = retry, !.want = want]
      BY <2>1, <2>2
    <2>4. proc[s] \in TxType
      BY <2>2
    <2>5. \A t \in TxType : \A a, b :
             LET u == [t EXCEPT !.pc = "insert", !.retry = a, !.want = b] IN
             u.pc = "insert" /\ u.retry = a /\ u.want = b
             /\ u.batch = t.batch /\ u.seen = t.seen /\ u.read = t.read
      BY DEF TxType
    <2>6. LET u == [proc[s] EXCEPT !.pc = "insert", !.retry = retry, !.want = want] IN
          u.pc = "insert" /\ u.retry = retry /\ u.want = want
          /\ u.batch = proc[s].batch /\ u.seen = proc[s].seen /\ u.read = proc[s].read
      BY <2>4, <2>5
    <2> QED BY <2>1, <2>3, <2>6
  <1>2. \A x \in retry : job[x[1]].status = "retrying" /\ x[2] = job[x[1]].attempts /\ x[3]
    <2>1. \A j \in ReadyForRetry : j \in Jobs /\ job[j] # None /\ job[j].status = "retrying"
      BY DEF ReadyForRetry, Exists
    <2>2. retry = {<<j, job[j].attempts, TRUE>> : j \in ReadyForRetry}
      BY <2>1, RetryRowFree
    <2> HIDE DEF retry
    <2> SUFFICES ASSUME NEW x \in retry
                 PROVE  job[x[1]].status = "retrying" /\ x[2] = job[x[1]].attempts /\ x[3]
      OBVIOUS
    <2>3. PICK j \in ReadyForRetry : x = <<j, job[j].attempts, TRUE>>
      BY <2>2
    <2> QED BY <2>1, <2>3
  <1>3. \A k \in want : idem[k] = "absent"
    OBVIOUS
  <1> HIDE DEF retry, want
  <1>a. DispatcherReads(s)'
    BY <1>1, SameDispatcherReads DEF SoleInv, DispatcherOK
  <1>4. DispatcherOK(s)'
    BY <1>1, <1>2, <1>3, <1>a, SMTT(30) DEF SoleInv, DispatcherOK, LoadedOK
  <1> QED BY <1>1, <1>4, VerdictRows, PrivateSole

\* What the dispatcher gives up on is queued and nobody's.
LEMMA DoomedQueued ==
  ASSUME NEW s \in Procs, IInv, SoleInv(s), NEW j \in Doomed(s)
  PROVE  \E r \in Rows : /\ outbox[r] # None /\ outbox[r].job = j
                         /\ proc[s].batch[r] = "fail" /\ FailStatus(s, r) = "dead_letter"
                         /\ Unsent(outbox[r], proc[s].batch[r])
                         /\ r[2] = job[j].attempts /\ job[j].status = "queued"
                         /\ Unattended(j, worker)
  <1>1. PICK r \in Rows : /\ proc[s].batch[r] = "fail" /\ FailStatus(s, r) = "dead_letter"
                          /\ j = proc[s].seen[r].job
    BY DEF Doomed, Selected
  <1>2. outbox[r] # None /\ outbox[r].job = j
    BY <1>1 DEF IInv, Linked, BatchLinked
  <1>3. Unsent(outbox[r], proc[s].batch[r])
    BY <1>1 DEF SoleInv, DispatcherOK, Unsent
  <1>4. RowOK(r, outbox[r], proc[s].batch[r], broker[r], job[j], worker)
    BY <1>2 DEF SoleInv, RowsOK
  <1> QED BY <1>1, <1>2, <1>3, <1>4 DEF RowOK

\* The only dispatcher loads the record of a job it gives up on.
LEMMA DoomRecordSole ==
  ASSUME NEW s \in Procs, IInv, SoleInv(s), OutcomeOK, NEW i \in Jobs, DoomRecord(s, i)
  PROVE  SoleInv(s)' /\ AllLawful
  <1>1. PICK rd \in Reading :
            /\ proc' = [proc EXCEPT ![s] = [proc[s] EXCEPT !.read[i] = rd]]
            /\ rd.status = proc[s].read[i].status /\ rd.record = idem[job[i].key]
            /\ [proc[s] EXCEPT !.read[i] = rd] \in TxType /\ job[i] # None
            /\ rd # None
    BY DoomRecordTx, Zenon
  <1>2. proc[s] \in TxType /\ proc[s].read[i] # None /\ UNCHANGED <<job, idem, outbox, broker, worker, effects>>
    BY DEF DoomRecord, IInv, TypeOK
  <1> DEFINE tx == [proc[s] EXCEPT !.read[i] = rd]
  <1>3. /\ tx.pc = proc[s].pc /\ tx.batch = proc[s].batch /\ tx.seen = proc[s].seen
        /\ tx.retry = proc[s].retry /\ tx.want = proc[s].want
        /\ tx.read[i] = rd /\ \A j \in Jobs : j # i => tx.read[j] = proc[s].read[j]
    BY <1>2 DEF TxType
  <1>4. proc'[s] = tx
    BY <1>1 DEF IInv, TypeOK
  <1> HIDE DEF tx
  <1>5. i \in Doomed(s) /\ rd.status = "queued"
    BY <1>1, <1>2 DEF SoleInv, DispatcherOK, DispatcherReads
  <1>6. rd.record = "processing"
    <2>1. job[i].status = "queued"
      BY <1>5, DoomedQueued
    <2> QED BY <1>1, <2>1 DEF OutcomeOK, Outcome
  <1>7. Doomed(s)' = Doomed(s)
    BY <1>3, <1>4, SameDoomed
  <1>8. Doomed(s) \subseteq Jobs
    BY DoomedExist
  <1>9. DispatcherReads(s)'
    <2>1. ASSUME NEW j \in Jobs, tx.read[j] # None
          PROVE  j \in Doomed(s) /\ tx.read[j].status = "queued" /\ tx.read[j].record \in {None, "processing"}
      BY <1>3, <1>5, <1>6, <2>1 DEF SoleInv, DispatcherOK, DispatcherReads
    <2>2. \A j \in Doomed(s) : tx.read[j] # None
      BY <1>1, <1>3, <1>8 DEF SoleInv, DispatcherOK, DispatcherReads
    <2> QED BY <1>4, <1>7, <2>1, <2>2 DEF DispatcherReads
  <1>10. DispatcherOK(s)'
    BY <1>2, <1>3, <1>4, <1>9 DEF SoleInv, DispatcherOK, LoadedOK
  <1>11. \A q \in Rows : proc'[s].batch[q] = "ok" <=> proc[s].batch[q] = "ok"
    BY <1>3, <1>4
  <1> QED BY <1>2, <1>3, <1>4, <1>10, <1>11, VerdictRows, PrivateSole

\* The single dispatcher never has to roll back.
LEMMA NoRollback ==
  ASSUME NEW s \in Procs, IInv, Created, SoleInv(s)
  PROVE  ~TickAbort(s) /\ ~EnqueueRollback(s)
  <1>1. ~TickAbort(s)
    <2>1. \A j \in Doomed(s) : j \notin ReadyForRetry
      BY DoomedQueued DEF ReadyForRetry
    <2> QED BY <2>1 DEF TickAbort
  <1>2. ~Clash(s)
    <2>1. \A k \in proc[s].want : idem[k] = "absent"
      BY DEF SoleInv, DispatcherOK
    <2>2. ASSUME NEW x \in proc[s].retry PROVE outbox[RetryRow(x)] = None
      <3>1. x[1] \in Jobs /\ job[x[1]] # None
        BY DEF IInv, TypeOK, TxType, Linked, RetryLinked
      <3>2. job[x[1]].status = "retrying" /\ x[2] = job[x[1]].attempts
        BY DEF SoleInv, DispatcherOK
      <3> QED BY <3>1, <3>2, RetryRowFree DEF RetryRow
    <2> QED BY <2>1, <2>2 DEF Clash
  <1> QED BY <1>1, <1>2 DEF EnqueueRollback

\* What a commit writes to a row, by the verdict of its send.
LEMMA RowAfterVerdict ==
  ASSUME IInv, NEW p \in Procs, NEW r \in Rows, outbox[r] # None
  PROVE  \/ proc[p].batch[r] = "ok" /\ RowAfter(p, r).status = "dispatched"
         \/ proc[p].batch[r] \in {"skip", "todo"} /\ RowAfter(p, r) = outbox[r]
         \/ /\ proc[p].batch[r] = "fail" /\ FailStatus(p, r) = "dead_letter"
            /\ RowAfter(p, r).status = "dead_letter" /\ outbox[r].job \in Doomed(p)
         \/ /\ proc[p].batch[r] = "fail" /\ FailStatus(p, r) # "dead_letter"
            /\ RowAfter(p, r).status \in {outbox[r].status, "retrying"}
  <1>1. outbox[r] \in RowRecord
    BY DEF IInv, TypeOK
  <1>2. proc[p].batch[r] \in Verdicts
    BY DEF IInv, TypeOK, TxType
  <1>3. CASE proc[p].batch[r] = "ok"
    BY <1>1, <1>3 DEF RowAfter, RowRecord
  <1>4. CASE proc[p].batch[r] = "fail"
    <2>1. RowAfter(p, r).status = IF FailStatus(p, r) = proc[p].seen[r].status
                                    THEN outbox[r].status ELSE FailStatus(p, r)
      BY <1>1, <1>4 DEF RowAfter, RowRecord
    <2>2. proc[p].seen[r].status \in {"pending", "retrying"} /\ proc[p].seen[r].job = outbox[r].job
      BY <1>4 DEF IInv, Linked, BatchLinked
    <2>3. FailStatus(p, r) \in {"dead_letter", "retrying"}
      BY DEF FailStatus
    <2>4. FailStatus(p, r) = "dead_letter" => outbox[r].job \in Doomed(p)
      BY <1>4, <2>2 DEF Doomed, Selected
    <2> QED BY <1>4, <2>1, <2>2, <2>3, <2>4
  <1>5. CASE proc[p].batch[r] \in {"skip", "todo"}
    BY <1>5 DEF RowAfter
  <1> QED BY <1>2, <1>3, <1>4, <1>5 DEF Verdicts

\* What a commit of the dispatcher does to a job.
Settles(j, doomed, a, b) ==
    \/ j \notin doomed /\ b = a
    \/ j \in doomed /\ a # None /\ b # None /\ b.status = "dead_letter" /\ b.attempts = a.attempts
    \/ j \notin doomed /\ a = None /\ b # None /\ b.status = "queued" /\ b.attempts = 0
    \/ /\ j \notin doomed /\ a # None /\ a.status = "retrying"
       /\ b # None /\ b.status = "queued" /\ b.attempts = a.attempts

\* A row that a job is about to get.
Opens(r, row, a, b) ==
    /\ row.status = "pending" /\ (a = None \/ a.status = "retrying")
    /\ b # None /\ b.status = "queued" /\ b.attempts = r[2]

\* A row stays in order when its job is as before or dead-lettered with it.
LEMMA OldRowSole ==
  ASSUME NEW s \in Procs, IInv, SoleInv(s), NEW r \in Rows, outbox[r] # None, NEW b,
         Settles(outbox[r].job, Doomed(s), job[outbox[r].job], b)
  PROVE  RowOK(r, RowAfter(s, r), "skip", broker[r], b, worker)
  <1> DEFINE j == outbox[r].job
             row == RowAfter(s, r)
  <1>1. j \in Jobs /\ job[j] # None /\ job[j].key = r[1] /\ job[j].attempts \in Nat
    BY DEF IInv, TypeOK, Linked, RowsLinked, RowRecord, JobRecord
  <1>2. RowOK(r, outbox[r], proc[s].batch[r], broker[r], job[j], worker)
    BY DEF SoleInv, RowsOK
  <1>3. row.job = j
    BY RowAfterType
  <1>4. proc[s].batch[r] # "skip" => outbox[r].status \in {"pending", "retrying"}
    BY DEF SoleInv, DispatcherOK
  <1>5. broker[r] \in Nat /\ r[2] \in Nat
    BY JobQueueAssumption DEF IInv, TypeOK, Rows
  <1>6. CASE j \in Doomed(s)
    <2>1. PICK q \in Rows : /\ outbox[q] # None /\ outbox[q].job = j
                            /\ proc[s].batch[q] = "fail" /\ FailStatus(s, q) = "dead_letter"
                            /\ q[2] = job[j].attempts /\ job[j].status = "queued"
      BY <1>6, DoomedQueued
    <2>2. b.status = "dead_letter" /\ b.attempts = job[j].attempts
      BY <1>6 DEF Settles
    <2>3. CASE Unsent(outbox[r], proc[s].batch[r]) \/ broker[r] > 0
      <3>1. r[2] = q[2]
        BY <1>2, <2>1, <2>3 DEF RowOK
      <3>2. r[1] = q[1]
        BY <1>1, <2>1 DEF IInv, Linked, RowsLinked
      <3>3. r = q
        BY <3>1, <3>2 DEF Rows
      <3>4. row.status = "dead_letter"
        BY <2>1, <3>3, RowAfterVerdict
      <3>5. broker[r] = 0
        <4>1. Unsent(outbox[r], proc[s].batch[r])
          BY <1>4, <2>1, <3>3 DEF Unsent
        <4> QED BY <1>2, <4>1 DEF RowOK
      <3> QED BY <1>2, <1>5, <2>1, <2>2, <3>1, <3>4, <3>5 DEF RowOK, Unsent
    <2>4. CASE ~Unsent(outbox[r], proc[s].batch[r]) /\ ~(broker[r] > 0)
      <3>1. ~Unsent(row, "skip")
        BY <1>4, <2>4, RowAfterVerdict DEF Unsent
      <3> QED BY <1>2, <1>5, <2>2, <2>4, <3>1 DEF RowOK
    <2> QED BY <2>3, <2>4
  <1>7. CASE j \notin Doomed(s)
    <2>1. \/ b = job[j]
          \/ job[j].status = "retrying" /\ b.status = "queued" /\ b.attempts = job[j].attempts
      BY <1>1, <1>7 DEF Settles
    <2>2. CASE Unsent(outbox[r], proc[s].batch[r]) \/ broker[r] > 0
      <3>1. b = job[j]
        BY <1>2, <2>1, <2>2 DEF RowOK
      <3>2. Unsent(row, "skip") => Unsent(outbox[r], proc[s].batch[r])
        BY <1>4, <1>7, RowAfterVerdict DEF Unsent
      <3> QED BY <1>2, <1>3, <2>2, <3>1, <3>2 DEF RowOK
    <2>3. CASE ~Unsent(outbox[r], proc[s].batch[r]) /\ ~(broker[r] > 0)
      <3>1. ~Unsent(row, "skip")
        BY <1>4, <1>7, <2>3, RowAfterVerdict DEF Unsent
      <3> QED BY <1>2, <1>5, <2>1, <2>3, <3>1 DEF RowOK
    <2> QED BY <2>2, <2>3
  <1> QED BY <1>6, <1>7

\* The end of a transaction of the only dispatcher, once each job and row is
\* in order.
LEMMA DispatchSole ==
  ASSUME NEW s \in Procs, IInv, IInv', SoleInv(s), UNCHANGED <<broker, worker, effects>>,
         proc'[s].batch = NoBatch, proc'[s].read = NoneRead, proc'[s].retry = {}, proc'[s].want = {},
         proc'[s].pc \in {"idle", "hook"},
         \A j \in Jobs : Settles(j, Doomed(s), job[j], job'[j]),
         \A r \in Rows : outbox[r] # None => outbox'[r] = RowAfter(s, r),
         \A r \in Rows : outbox[r] = None /\ outbox'[r] # None =>
            Opens(r, outbox'[r], job[outbox'[r].job], job'[outbox'[r].job])
  PROVE  SoleInv(s)' /\ AllLawful
  <1>1. \A j \in Jobs : job[j] = None \/ job[j].status = "retrying" => Unattended(j, worker)
    BY DEF SoleInv, JobsOK, JobOK, Unattended, IInv, Linked, WorkersLinked
  <1>2. \A j \in Doomed(s) : j \in Jobs /\ job[j].status = "queued" /\ Unattended(j, worker)
    BY DoomedQueued, DoomedExist
  <1>3. RowsOK(s)'
    <2> SUFFICES ASSUME NEW r \in Rows, outbox'[r] # None
                 PROVE  RowOK(r, outbox'[r], "skip", broker[r], job'[outbox'[r].job], worker)
      BY DEF RowsOK, NoBatch, NoneRead
    <2>0. outbox'[r].job \in Jobs
      BY DEF IInv, TypeOK, RowRecord
    <2>1. CASE outbox[r] # None
      <3>1. outbox'[r] = RowAfter(s, r) /\ RowAfter(s, r).job = outbox[r].job
        BY <2>1, RowAfterType
      <3>2. Settles(outbox[r].job, Doomed(s), job[outbox[r].job], job'[outbox[r].job])
        BY <2>0, <3>1
      <3> QED BY <2>1, <3>1, <3>2, OldRowSole
    <2>2. CASE outbox[r] = None
      <3>1. broker[r] = 0
        BY <2>2, JobQueueAssumption DEF IInv, Linked, BrokerLinked, TypeOK
      <3> QED BY <1>1, <2>0, <2>2, <3>1 DEF RowOK, Opens, Unsent
    <2> QED BY <2>1, <2>2
  <1>4. JobsOK'
    <2> SUFFICES ASSUME NEW j \in Jobs
                 PROVE  IF job'[j] = None THEN effects[j] = 0
                        ELSE effects[j] <= 1 /\ JobOK(j, job'[j], effects[j], worker)
      BY DEF JobsOK
    <2>1. IF job[j] = None THEN effects[j] = 0
          ELSE effects[j] <= 1 /\ JobOK(j, job[j], effects[j], worker)
      BY DEF SoleInv, JobsOK
    <2>2. Settles(j, Doomed(s), job[j], job'[j])
      OBVIOUS
    <2> QED BY <1>2, <2>1, <2>2, JobQueueAssumption DEF Settles, JobOK
  <1>5. WorkersOK'
    <2> SUFFICES ASSUME NEW w \in Workers, worker[w].pc # "idle"
                 PROVE  WorkerOK(worker[w], job'[worker[w].job], effects[worker[w].job])
      BY DEF WorkersOK
    <2>1. worker[w].job \in Jobs /\ job[worker[w].job] # None
      BY DEF IInv, Linked, WorkersLinked
    <2>2. ~Unattended(worker[w].job, worker)
      BY DEF Unattended
    <2>3. job'[worker[w].job] = job[worker[w].job]
      BY <1>1, <1>2, <2>1, <2>2 DEF Settles
    <2> QED BY <2>3 DEF SoleInv, WorkersOK
  <1>6. ExclusiveExecution'
    BY DEF SoleInv, ExclusiveExecution
  <1>a. DispatcherReads(s)'
    BY NothingDoomed DEF NoBatch, NoneRead
  <1>7. DispatcherOK(s)'
    BY <1>a DEF DispatcherOK, LoadedOK, NoBatch, NoneRead
  <1>8. AllLawful
    BY <1>2 DEF AllLawful, Lawful, Settles
  <1> QED BY <1>3, <1>4, <1>5, <1>6, <1>7, <1>8 DEF SoleInv

\* A dead-lettered job is finished and keeps its attempts.
LEMMA DeadLetterSettles ==
  ASSUME NEW s \in Procs, IInv, SoleInv(s), NEW j \in Doomed(s)
  PROVE  /\ DeadLetter(s, j) # None /\ DeadLetter(s, j).status = "dead_letter"
         /\ DeadLetter(s, j).attempts = job[j].attempts
  <1>1. j \in Jobs /\ job[j] \in JobRecord
    BY DoomedExist
  <1>2. proc[s].read[j].status = "queued"
    BY <1>1 DEF SoleInv, DispatcherOK, DispatcherReads
  <1> QED BY <1>1, <1>2, DeadLetterType

\* The after-commit transaction of the only dispatcher commits.
LEMMA HookCommitSole ==
  ASSUME NEW s \in Procs, IInv, SoleInv(s), HookCommit(s)
  PROVE  SoleInv(s)' /\ AllLawful /\ \A j \in Jobs : Settles(j, Doomed(s), job[j], job'[j])
  <1>1. IInv'
    BY HookCommitStep
  <1>2. \A j \in Jobs : Settles(j, Doomed(s), job[j], job'[j])
    BY DoomedExist, DeadLetterSettles DEF HookCommit, Settles
  <1>3. proc'[s] = IdleTx
    BY DEF HookCommit, IInv, TypeOK
  <1>4. \A r \in Rows : /\ outbox[r] # None => outbox'[r] = RowAfter(s, r)
                        /\ outbox'[r] # None => outbox[r] # None
    BY HookTables DEF HookCommit
  <1>5. UNCHANGED <<broker, worker, effects>>
    BY DEF HookCommit
  <1>6. /\ proc'[s].batch = NoBatch /\ proc'[s].read = NoneRead /\ proc'[s].retry = {} /\ proc'[s].want = {}
        /\ proc'[s].pc \in {"idle", "hook"}
    BY <1>3 DEF IdleTx, Tx
  <1> QED BY <1>1, <1>2, <1>4, <1>5, <1>6, DispatchSole

\* The tick of the only dispatcher commits: new jobs and retries get their
\* rows.
LEMMA CommitSole ==
  ASSUME NEW s \in Procs, IInv, SoleInv(s), Commit(s)
  PROVE  SoleInv(s)' /\ AllLawful /\ \A j \in Jobs : Settles(j, Doomed(s), job[j], job'[j])
  <1>1. IInv'
    BY CommitStep
  <1>2. PICK ids \in FreshIds(s) :
          /\ job' = [j \in Jobs |-> JobAfter(s, ids, j)]
          /\ outbox' = [r \in Rows |-> OutboxAfter(s, ids, r)]
    BY DEF Commit
  <1>3. /\ ids \in [proc[s].want -> {i \in Jobs : ~Exists(i)}]
        /\ \A a, b \in proc[s].want : a # b => ids[a] # ids[b]
    BY DEF FreshIds
  <1>4. \A k \in Keys : NewJob(k) # None /\ NewJob(k).status = "queued" /\ NewJob(k).attempts = 0
    <2>1. \A k \in Keys : NewJob(k) \in JobRecord
      BY JobQueueAssumption DEF NewJob, JobRecord, JobStatuses, RetryTimes, Rows
    <2> QED BY <2>1, NoneAssumption DEF NewJob
  <1>5. proc[s].want \subseteq Keys
    BY DEF IInv, TypeOK, TxType
  <1>6. \A x \in proc[s].retry : /\ x[1] \in Jobs /\ job[x[1]] # None /\ job[x[1]] \in JobRecord
                                 /\ job[x[1]].status = "retrying" /\ x[2] = job[x[1]].attempts
                                 /\ x[1] \notin Doomed(s)
    <2>1. \A x \in proc[s].retry : x[1] \in Jobs /\ job[x[1]] # None /\ job[x[1]] \in JobRecord
      BY DEF IInv, TypeOK, TxType, Linked, RetryLinked
    <2>2. \A x \in proc[s].retry : job[x[1]].status = "retrying" /\ x[2] = job[x[1]].attempts
      BY DEF SoleInv, DispatcherOK
    <2> QED BY <2>1, <2>2, DoomedQueued
  <1>7. ASSUME NEW j \in Jobs, j \in Retried(s)
        PROVE  JobAfter(s, ids, j) # None /\ JobAfter(s, ids, j).status = "queued"
               /\ JobAfter(s, ids, j).attempts = job[j].attempts
               /\ j \notin Doomed(s) /\ job[j] # None /\ job[j].status = "retrying"
    <2>1. j \notin Doomed(s) /\ job[j] # None /\ job[j] \in JobRecord /\ job[j].status = "retrying"
      BY <1>6, <1>7 DEF Retried
    <2>2. JobAfter(s, ids, j) = Requeued(s, j)
      BY <1>3, <1>7, <2>1 DEF JobAfter, Exists
    <2> DEFINE x == CHOOSE y \in proc[s].retry : y[1] = j
               q == IF x[3] THEN RetryRow(x) ELSE None
    <2>3. Requeued(s, j) = [job[j] EXCEPT !.status = "queued", !.queue = q]
      BY DEF Requeued
    <2> HIDE DEF x, q
    <2>4. JobAfter(s, ids, j) # None
      BY <2>1, JobAfterType
    <2> QED BY <2>1, <2>2, <2>3, <2>4 DEF JobRecord
  <1>8. ASSUME NEW j \in Jobs
        PROVE  Settles(j, Doomed(s), job[j], JobAfter(s, ids, j))
    <2>1. CASE \E k \in proc[s].want : ids[k] = j
      <3>1. PICK k \in proc[s].want : ids[k] = j
        BY <2>1
      <3>2. JobAfter(s, ids, j) = NewJob(k)
        BY <3>1, JobAfterType
      <3>3. job[j] = None
        BY <1>3, <3>1 DEF Exists
      <3>4. j \notin Doomed(s)
        BY <3>3, DoomedExist
      <3> QED BY <1>4, <1>5, <3>2, <3>3, <3>4 DEF Settles
    <2>2. CASE j \in Retried(s)
      BY <1>7, <2>2 DEF Settles
    <2>3. CASE (~\E k \in proc[s].want : ids[k] = j) /\ j \notin Retried(s)
      BY <2>3, DoomedExist, DeadLetterSettles DEF JobAfter, Settles
    <2> QED BY <2>1, <2>2, <2>3
  <1>9. ASSUME NEW r \in Rows, outbox[r] = None, OutboxAfter(s, ids, r) # None
        PROVE  LET i == OutboxAfter(s, ids, r).job
               IN  Opens(r, OutboxAfter(s, ids, r), job[i], JobAfter(s, ids, i))
    <2>1. CASE r[2] = 0 /\ r[1] \in proc[s].want
      <3>1. OutboxAfter(s, ids, r) = NewRow(ids[r[1]])
        BY <1>9, <2>1 DEF OutboxAfter
      <3>2. ids[r[1]] \in Jobs /\ job[ids[r[1]]] = None
        BY <1>3, <2>1 DEF Exists
      <3>3. JobAfter(s, ids, ids[r[1]]) = NewJob(r[1])
        BY <2>1, <3>2, JobAfterType
      <3>4. r[1] \in Keys
        BY <1>5, <2>1
      <3> QED BY <1>4, <2>1, <3>1, <3>2, <3>3, <3>4 DEF NewRow, Opens
    <2>2. CASE ~(r[2] = 0 /\ r[1] \in proc[s].want)
      <3>1. PICK x \in proc[s].retry : /\ RetryRow(x) = r
                                       /\ OutboxAfter(s, ids, r) = NewRow(x[1])
        BY <1>9, <2>2 DEF OutboxAfter
      <3>2. x[1] \in Jobs /\ x[1] \in Retried(s) /\ x[2] = job[x[1]].attempts
        BY <1>6 DEF Retried
      <3>3. r[2] = x[2]
        BY <3>1 DEF RetryRow
      <3> QED BY <1>7, <3>1, <3>2, <3>3 DEF NewRow, Opens
    <2> QED BY <2>1, <2>2
  <1>10. proc'[s] \in {IdleTx, [IdleTx EXCEPT !.pc = "hook"]}
    BY DEF Commit, IInv, TypeOK
  <1>11. /\ proc'[s].batch = NoBatch /\ proc'[s].read = NoneRead /\ proc'[s].retry = {} /\ proc'[s].want = {}
         /\ proc'[s].pc \in {"idle", "hook"}
    BY <1>10 DEF IdleTx, Tx
  <1>12. UNCHANGED <<broker, worker, effects>>
    BY DEF Commit
  <1>13. \A j \in Jobs : Settles(j, Doomed(s), job[j], job'[j])
    BY <1>2, <1>8
  <1>14. \A r \in Rows : outbox[r] # None => outbox'[r] = RowAfter(s, r)
    BY <1>2, OutboxAfterType
  <1>15. ASSUME NEW r \in Rows, outbox[r] = None, outbox'[r] # None
         PROVE  Opens(r, outbox'[r], job[outbox'[r].job], job'[outbox'[r].job])
    <2>1. outbox'[r] = OutboxAfter(s, ids, r)
      BY <1>2
    <2>2. outbox'[r].job \in Jobs
      BY <1>1, <1>15 DEF IInv, TypeOK, RowRecord
    <2>3. job'[outbox'[r].job] = JobAfter(s, ids, outbox'[r].job)
      BY <1>2, <2>2
    <2> QED BY <1>9, <1>15, <2>1, <2>3
  <1> QED BY <1>1, <1>11, <1>12, <1>13, <1>14, <1>15, DispatchSole

\* What a working worker w finds: its job is its own and the rows are spent.
LEMMA Attended ==
  ASSUME NEW s \in Procs, IInv, SoleInv(s), NEW w \in Workers, worker[w].pc # "idle",
         NEW i, i = worker[w].job
  PROVE  /\ i \in Jobs /\ job[i] # None /\ job[i] \in JobRecord
         /\ WorkerOK(worker[w], job[i], effects[i])
         /\ JobOK(i, job[i], effects[i], worker) /\ job[i].status # "retrying"
         /\ effects[i] \in {0, 1}
         /\ \A v \in Workers : v # w => (worker[v].pc # "idle" => worker[v].job # i)
         /\ \A r \in Rows : outbox[r] # None /\ outbox[r].job = i =>
               /\ ~Unsent(outbox[r], proc[s].batch[r]) /\ broker[r] = 0
               /\ r[2] < job[i].attempts
                  \/ (r[2] = job[i].attempts /\ job[i].status \in {"queued", "dead_letter"})
  <1>1. i \in Jobs /\ job[i] # None /\ job[i] \in JobRecord
    BY DEF IInv, TypeOK, Linked, WorkersLinked
  <1>2. WorkerOK(worker[w], job[i], effects[i])
    BY DEF SoleInv, WorkersOK
  <1>3. JobOK(i, job[i], effects[i], worker) /\ effects[i] \in {0, 1}
    <2>1. effects[i] \in 0 .. 2
      BY <1>1 DEF IInv, TypeOK
    <2> QED BY <1>1, <2>1 DEF SoleInv, JobsOK
  <1>4. ~Unattended(i, worker)
    BY DEF Unattended
  <1>5. \A v \in Workers : v # w => (worker[v].pc # "idle" => worker[v].job # i)
    BY DEF SoleInv, ExclusiveExecution
  <1>6. ASSUME NEW r \in Rows, outbox[r] # None, outbox[r].job = i
        PROVE  /\ ~Unsent(outbox[r], proc[s].batch[r]) /\ broker[r] = 0
               /\ r[2] < job[i].attempts
                  \/ (r[2] = job[i].attempts /\ job[i].status \in {"queued", "dead_letter"})
    <2>1. RowOK(r, outbox[r], proc[s].batch[r], broker[r], job[i], worker)
      BY <1>6 DEF SoleInv, RowsOK
    <2>2. broker[r] \in Nat
      BY JobQueueAssumption DEF IInv, TypeOK
    <2> QED BY <1>4, <1>6, <2>1, <2>2 DEF RowOK
  <1> QED BY <1>1, <1>2, <1>3, <1>4, <1>5, <1>6 DEF JobOK

\* A step of a working worker.
LEMMA WorkingSole ==
  ASSUME NEW s \in Procs, IInv, SoleInv(s), NEW w \in Workers, worker[w].pc # "idle",
         NEW i, i = worker[w].job, NEW wk \in WorkerType, NEW rec, NEW e \in {0, 1},
         worker' = [worker EXCEPT ![w] = wk], wk.pc # "idle" => wk.job = i,
         UNCHANGED <<outbox, broker, proc>>,
         job' = [job EXCEPT ![i] = rec], rec # None,
         effects' = [effects EXCEPT ![i] = e],
         \/ rec = job[i]
         \/ rec.attempts = job[i].attempts + 1
         \/ rec.attempts = job[i].attempts /\ job[i].status = "running",
         rec.attempts <= MaxAttempts,
         rec.status \in {"queued", "retrying"} => rec.attempts < MaxAttempts,
         rec.status = "retrying" => wk.pc = "idle",
         e > 0 => rec.status \in {"running", "succeeded"},
         wk.pc # "idle" => WorkerOK(wk, rec, e),
         Lawful(job[i], rec),
         \A k \in proc[s].want : idem'[k] = idem[k]
  PROVE  SoleInv(s)' /\ AllLawful
  <1>1. /\ i \in Jobs /\ job[i] # None /\ job[i] \in JobRecord
        /\ job[i].status # "retrying"
        /\ \A v \in Workers : v # w => (worker[v].pc # "idle" => worker[v].job # i)
        /\ \A r \in Rows : outbox[r] # None /\ outbox[r].job = i =>
               /\ ~Unsent(outbox[r], proc[s].batch[r]) /\ broker[r] = 0
               /\ r[2] < job[i].attempts
                  \/ (r[2] = job[i].attempts /\ job[i].status \in {"queued", "dead_letter"})
    BY Attended
  <1>2. worker'[w] = wk /\ \A v \in Workers : v # w => worker'[v] = worker[v]
    BY WorkerUpdate DEF IInv
  <1>3. /\ job'[i] = rec /\ effects'[i] = e
        /\ \A j \in Jobs : j # i => job'[j] = job[j] /\ effects'[j] = effects[j]
    BY <1>1 DEF IInv, TypeOK
  <1>4. JobOK(i, rec, e, worker')
    <2>1. wk.pc = "idle" => Unattended(i, worker')
      BY <1>1, <1>2 DEF Unattended
    <2> QED BY <2>1 DEF JobOK
  <1>5. ASSUME NEW r \in Rows, outbox[r] # None, outbox[r].job = i
        PROVE  RowOK(r, outbox[r], proc[s].batch[r], broker[r], rec, worker')
    <2>1. r[2] \in Nat /\ job[i].attempts \in Nat
      BY <1>1 DEF Rows, JobRecord
    <2>2. r[2] < rec.attempts \/ (r[2] = rec.attempts /\ rec.status \in {"queued", "dead_letter"})
      BY <1>1, <1>5, <2>1
    <2> QED BY <1>1, <1>5, <2>2 DEF RowOK
  <1>6. SoleInv(s)'
    <2>1. /\ \A v \in Workers : v # w => worker'[v] = worker[v] /\ (worker[v].pc # "idle" => worker[v].job # i)
          /\ worker'[w].pc # "idle" => worker'[w].job = i
          /\ worker'[w].pc # "idle" => WorkerOK(worker'[w], job'[i], effects'[i])
      BY <1>1, <1>2, <1>3
    <2>2. \A r \in Rows : outbox[r] # None => IF outbox[r].job = i
            THEN RowOK(r, outbox[r], proc[s].batch[r], broker'[r], job'[i], worker')
            ELSE broker'[r] = broker[r]
      BY <1>3, <1>5
    <2>3. job'[i] # None /\ effects'[i] <= 1 /\ JobOK(i, job'[i], effects'[i], worker')
      BY <1>3, <1>4
    <2>4. worker[w].pc # "idle" => worker[w].job = i
      OBVIOUS
    <2> QED BY ONLY s \in Procs, IInv, SoleInv(s), UNCHANGED <<outbox, proc>>, w \in Workers,
               \A k \in proc[s].want : idem'[k] = idem[k],
               <1>1, <1>3, <2>1, <2>2, <2>3, <2>4, AboutOneJob
  <1>7. AllLawful
    BY <1>1, <1>3 DEF AllLawful, Lawful
  <1> QED BY <1>6, <1>7

\* A worker takes the only message of a row, and starts or skips.
LEMMA ReceiveSole ==
  ASSUME NEW s \in Procs, IInv, SoleInv(s), NEW w \in Workers, NEW r \in Rows, Receive(w, r)
  PROVE  SoleInv(s)' /\ AllLawful
  <1> DEFINE i == outbox[r].job
             loaded == [IdleWorker EXCEPT !.pc = "loaded", !.job = i, !.attempt = job[i].attempts + 1]
             wk == IF should_run(job[i]) THEN loaded ELSE IdleWorker
  <1>1. /\ worker' = [worker EXCEPT ![w] = wk] /\ worker[w].pc = "idle" /\ broker[r] > 0
        /\ broker' = [broker EXCEPT ![r] = @ - 1] /\ UNCHANGED <<job, idem, outbox, proc, effects>>
    BY DEF Receive
  <1>2. outbox[r] # None /\ outbox[r] \in RowRecord
    BY DEF Receive, IInv, Linked, BrokerLinked, TypeOK
  <1>3. i \in Jobs /\ job[i] # None /\ job[i] \in JobRecord /\ job[i].key = r[1]
    BY <1>2 DEF IInv, Linked, RowsLinked, TypeOK, RowRecord
  <1>a. \A n \in 0 .. AttemptBound + 1, j \in Jobs :
           LET new == [IdleWorker EXCEPT !.pc = "loaded", !.job = j, !.attempt = n] IN
           new \in WorkerType /\ new.pc = "loaded" /\ new.job = j /\ new.attempt = n /\ new.read = None
    BY IdleWorkerType DEF WorkerType, WorkerPcs, IdleWorker
  <1>b. job[i].attempts + 1 \in 0 .. AttemptBound + 1
    BY <1>3, JobQueueAssumption DEF JobRecord
  <1>4. /\ loaded \in WorkerType /\ loaded.pc = "loaded" /\ loaded.job = i
        /\ loaded.attempt = job[i].attempts + 1 /\ loaded.read = None
    <2> DEFINE n == job[i].attempts + 1
    <2>1. loaded = [IdleWorker EXCEPT !.pc = "loaded", !.job = i, !.attempt = n]
      OBVIOUS
    <2>2. n \in 0 .. AttemptBound + 1 /\ i \in Jobs
      BY <1>3, <1>b
    <2> HIDE DEF loaded, i, n
    <2>3. /\ loaded \in WorkerType /\ loaded.pc = "loaded" /\ loaded.job = i
          /\ loaded.attempt = n /\ loaded.read = None
      BY <1>a, <2>1, <2>2
    <2> QED BY <2>3 DEF n
  <1>5. wk \in WorkerType /\ (wk = loaded \/ wk.pc = "idle")
    BY <1>4, IdleWorkerType DEF IdleWorker
  <1> HIDE DEF wk, loaded
  <1>6. RowOK(r, outbox[r], proc[s].batch[r], broker[r], job[i], worker)
    BY <1>2 DEF SoleInv, RowsOK
  <1>7. /\ job[i].status = "queued" /\ r[2] = job[i].attempts /\ Unattended(i, worker)
        /\ broker[r] = 1 /\ ~Unsent(outbox[r], proc[s].batch[r])
    <2>1. broker[r] \in Nat
      BY JobQueueAssumption DEF IInv, TypeOK
    <2> QED BY <1>1, <1>6, <2>1 DEF RowOK
  <1>8. worker'[w] = wk /\ \A v \in Workers : v # w => worker'[v] = worker[v]
    BY <1>1, <1>5, WorkerUpdate DEF IInv
  <1>9. broker'[r] = 0 /\ \A q \in Rows : q # r => broker'[q] = broker[q]
    BY <1>1, <1>7 DEF IInv, TypeOK
  <1>10. JobOK(i, job[i], effects[i], worker) /\ effects[i] = 0
    <2>1. effects[i] \in 0 .. 2
      BY <1>3 DEF IInv, TypeOK
    <2> QED BY <1>3, <1>7, <2>1 DEF SoleInv, JobsOK, JobOK
  <1>11. JobOK(i, job[i], effects[i], worker')
    BY <1>7, <1>10 DEF JobOK
  <1>12. ASSUME NEW q \in Rows, outbox[q] # None, outbox[q].job = i
         PROVE  RowOK(q, outbox[q], proc[s].batch[q], broker'[q], job[i], worker')
    <2>1. RowOK(q, outbox[q], proc[s].batch[q], broker[q], job[i], worker)
      BY <1>12 DEF SoleInv, RowsOK
    <2>2. CASE q = r
      BY <1>7, <1>9, <2>1, <2>2 DEF RowOK
    <2>3. CASE q # r
      <3>1. q[1] = r[1]
        BY <1>3, <1>12 DEF IInv, Linked, RowsLinked
      <3>2. q[2] # r[2]
        BY <2>3, <3>1 DEF Rows
      <3>3. ~Unsent(outbox[q], proc[s].batch[q]) /\ ~(broker[q] > 0)
        BY <1>7, <2>1, <3>2 DEF RowOK
      <3> QED BY <1>9, <2>1, <2>3, <3>3 DEF RowOK
    <2> QED BY <2>2, <2>3
  <1>13. ASSUME NEW q \in Rows, outbox[q] # None
         PROVE  IF outbox[q].job = i
                  THEN RowOK(q, outbox[q], proc[s].batch[q], broker'[q], job'[i], worker')
                  ELSE broker'[q] = broker[q]
    BY <1>1, <1>9, <1>12, <1>13
  <1>14. worker'[w].pc # "idle" => worker'[w].job = i /\ WorkerOK(worker'[w], job'[i], effects'[i])
    BY <1>1, <1>4, <1>5, <1>7, <1>8, <1>10 DEF WorkerOK
  <1>15. \A v \in Workers : v # w => worker'[v] = worker[v] /\ (worker[v].pc # "idle" => worker[v].job # i)
    BY <1>7, <1>8 DEF Unattended
  <1>16. SoleInv(s)'
    <2>1. job'[i] # None /\ effects'[i] <= 1 /\ JobOK(i, job'[i], effects'[i], worker')
      BY <1>1, <1>3, <1>10, <1>11
    <2>2. \A j \in Jobs : j # i => job'[j] = job[j] /\ effects'[j] = effects[j]
      BY <1>1
    <2>3. UNCHANGED <<outbox, proc>> /\ job'[i] = job[i] /\ \A k \in proc[s].want : idem'[k] = idem[k]
      BY <1>1
    <2>4. worker[w].pc = "idle" /\ i \in Jobs /\ job[i] # None
      BY <1>1, <1>3
    <2> HIDE DEF i
    <2> QED BY ONLY s \in Procs, IInv, SoleInv(s), w \in Workers,
               <1>13, <1>14, <1>15, <2>1, <2>2, <2>3, <2>4, AboutOneJob
  <1>17. AllLawful
    BY <1>1 DEF AllLawful, Lawful
  <1> QED BY <1>16, <1>17

\* The wanted keys are absent, so no record of an existing job is among them.
LEMMA WantsOthers ==
  ASSUME NEW s \in Procs, IInv, Created, SoleInv(s), NEW j \in Jobs, job[j] # None,
         NEW v, idem' = [idem EXCEPT ![job[j].key] = v]
  PROVE  \A k \in proc[s].want : idem'[k] = idem[k]
  <1>1. idem[job[j].key] # "absent"
    BY JobHasRecord
  <1> QED BY <1>1 DEF SoleInv, DispatcherOK, IInv, TypeOK, TxType

\* The job's function commits or raises, or its worker dies.
LEMMA FunctionSole ==
  ASSUME NEW s \in Procs, IInv, SoleInv(s), NEW w \in Workers, FnCommit(w) \/ FnRaise(w) \/ WorkerCrash(w)
  PROVE  SoleInv(s)' /\ AllLawful
  <1> DEFINE i == worker[w].job
  <1>1. worker[w].pc # "idle" /\ UNCHANGED <<job, idem, outbox, broker, proc>>
    BY DEF FnCommit, FnRaise, WorkerCrash
  <1>2. /\ i \in Jobs /\ job[i] # None /\ job[i] \in JobRecord
        /\ WorkerOK(worker[w], job[i], effects[i])
        /\ JobOK(i, job[i], effects[i], worker) /\ job[i].status # "retrying"
        /\ effects[i] \in {0, 1}
    BY <1>1, Attended
  <1>3. job' = [job EXCEPT ![i] = job[i]]
    BY <1>1, <1>2 DEF IInv, TypeOK
  <1>4. worker[w] \in WorkerType
    BY DEF IInv, TypeOK
  <1>5. job[i].attempts <= MaxAttempts /\ (job[i].status \in {"queued", "retrying"} => job[i].attempts < MaxAttempts)
    BY <1>2, SMTT(30) DEF JobOK
  <1>6. CASE FnCommit(w)
    <2> DEFINE wk == [worker[w] EXCEPT !.pc = "committed"]
    <2>1. worker' = [worker EXCEPT ![w] = wk] /\ worker[w].pc = "running"
      BY <1>6 DEF FnCommit, IInv, TypeOK
    <2>2. /\ wk \in WorkerType /\ wk.pc = "committed" /\ wk.job = i /\ wk.attempt = worker[w].attempt
          /\ wk.read = worker[w].read
      BY <1>4 DEF WorkerType, WorkerPcs
    <2>3. /\ effects[i] = 0 /\ job[i].status = "running" /\ worker[w].attempt = job[i].attempts
          /\ worker[w].read = None
      BY <1>2, <2>1 DEF WorkerOK
    <2>4. effects' = [effects EXCEPT ![i] = 1]
      BY <1>2, <1>6, <2>3 DEF FnCommit, IInv, TypeOK
    <2>5. WorkerOK(wk, job[i], 1)
      BY <2>2, <2>3 DEF WorkerOK
    <2> HIDE DEF wk, i
    <2>6. Lawful(job[i], job[i])
      BY SMTT(30) DEF Lawful
    <2> QED BY <1>1, <1>2, <1>3, <1>5, <2>1, <2>2, <2>3, <2>4, <2>5, <2>6, WorkingSole DEF i
  <1>7. CASE FnRaise(w) \/ WorkerCrash(w)
    <2> DEFINE wk == IF FnRaise(w) THEN [worker[w] EXCEPT !.pc = "raised"] ELSE IdleWorker
    <2>1. worker' = [worker EXCEPT ![w] = wk] /\ (FnRaise(w) => worker[w].pc = "running")
      BY <1>7 DEF FnRaise, WorkerCrash, IInv, TypeOK
    <2>2. /\ wk \in WorkerType
          /\ \/ wk.pc = "idle"
             \/ /\ FnRaise(w) /\ wk.pc = "raised" /\ wk.job = i /\ wk.attempt = worker[w].attempt
                /\ wk.read = worker[w].read
      BY <1>4, IdleWorkerType DEF WorkerType, WorkerPcs, IdleWorker
    <2> HIDE DEF wk
    <2>3. effects' = [effects EXCEPT ![i] = effects[i]]
      BY <1>2, <1>7 DEF FnRaise, WorkerCrash, IInv, TypeOK
    <2>4. wk.pc # "idle" => WorkerOK(wk, job[i], effects[i])
      BY <1>2, <2>1, <2>2 DEF WorkerOK
    <2>5. effects[i] > 0 => job[i].status \in {"running", "succeeded"}
      BY <1>2 DEF JobOK
    <2>6. Lawful(job[i], job[i])
      BY SMTT(30) DEF Lawful
    <2> HIDE DEF i
    <2> QED BY <1>1, <1>2, <1>3, <1>5, <2>1, <2>2, <2>3, <2>4, <2>5, <2>6, WorkingSole DEF i
  <1> QED BY <1>6, <1>7

\* The session that marks the outcome finds its job running and its record open.
LEMMA LoadSole ==
  ASSUME NEW s \in Procs, IInv, SoleInv(s), OutcomeOK, NEW w \in Workers, LoadJob(w) \/ LoadRecord(w)
  PROVE  SoleInv(s)' /\ AllLawful
  <1> DEFINE i == worker[w].job
  <1>1. worker[w].pc \in {"committed", "raised"} /\ UNCHANGED <<job, idem, outbox, broker, proc, effects>>
    BY LoadWorker DEF LoadJob, LoadRecord
  <1>2. /\ i \in Jobs /\ job[i] # None /\ job[i] \in JobRecord
        /\ WorkerOK(worker[w], job[i], effects[i])
        /\ JobOK(i, job[i], effects[i], worker)
        /\ effects[i] \in {0, 1}
    BY <1>1, Attended
  <1>3. PICK wk \in WorkerType :
            /\ worker' = [worker EXCEPT ![w] = wk]
            /\ wk.pc = worker[w].pc /\ wk.job = i /\ wk.attempt = worker[w].attempt
            /\ \/ wk.read = ReadJob(i)
               \/ /\ worker[w].read # None /\ wk.read.status = worker[w].read.status
                  /\ wk.read.record = idem[job[i].key]
    BY LoadWorker
  <1>4. job[i].status = "running" /\ (worker[w].read # None => worker[w].read.status = "running")
    BY <1>1, <1>2 DEF WorkerOK
  <1>5. wk.read.status = "running" /\ wk.read.record \in {None, "processing"}
    BY <1>2, <1>3, <1>4 DEF ReadJob, OutcomeOK, Outcome
  <1>6. WorkerOK(wk, job[i], effects[i])
    BY <1>1, <1>2, <1>3, <1>5 DEF WorkerOK
  <1>7. job' = [job EXCEPT ![i] = job[i]] /\ effects' = [effects EXCEPT ![i] = effects[i]]
    BY <1>1, <1>2 DEF IInv, TypeOK
  <1>8. /\ job[i].attempts <= MaxAttempts /\ (job[i].status \in {"queued", "retrying"} => job[i].attempts < MaxAttempts)
        /\ effects[i] > 0 => job[i].status \in {"running", "succeeded"}
    BY <1>2 DEF JobOK
  <1>9. Lawful(job[i], job[i])
    BY DEF Lawful
  <1>10. /\ worker[w].pc # "idle" /\ (wk.pc # "idle" => wk.job = i) /\ (job[i].status = "retrying" => wk.pc = "idle")
         /\ \A k \in proc[s].want : idem'[k] = idem[k]
    BY <1>1, <1>3, <1>4
  <1> HIDE DEF i
  <1> QED BY <1>1, <1>2, <1>3, <1>6, <1>7, <1>8, <1>9, <1>10, WorkingSole, ZenonT(40) DEF i

\* What the marks write: nothing has been committed since they loaded.
LEMMA MarkWrites ==
  ASSUME NEW s \in Procs, IInv, SoleInv(s), NEW w \in Workers, NEW i, i = worker[w].job,
         MarkSucceeded(w) \/ MarkRetrying(w) \/ MarkDeadLetter(w)
  PROVE  /\ i \in Jobs /\ job[i] # None /\ job[i] \in JobRecord /\ job[i].status = "running"
         /\ worker' = [worker EXCEPT ![w] = IdleWorker]
         /\ \E rec \in JobRecord :
              /\ job' = [job EXCEPT ![i] = rec] /\ rec # None
              /\ rec.key = job[i].key /\ rec.attempts = job[i].attempts
              /\ \/ /\ worker[w].pc = "committed" /\ rec.status = "succeeded"
                    /\ idem' = [idem EXCEPT ![job[i].key] = "succeeded"]
                 \/ /\ worker[w].pc = "raised" /\ worker[w].attempt < MaxAttempts
                    /\ rec.status = "retrying" /\ idem' = idem
                 \/ /\ worker[w].pc = "raised" /\ worker[w].attempt >= MaxAttempts
                    /\ rec.status = "dead_letter" /\ idem' = [idem EXCEPT ![job[i].key] = "failed"]
  <1> DEFINE rd == worker[w].read
  <1>1. worker[w].pc \in {"committed", "raised"} /\ rd # None /\ worker' = [worker EXCEPT ![w] = IdleWorker]
    BY DEF MarkSucceeded, MarkRetrying, RetryJob, MarkDeadLetter, ReadBoth
  <1>2. i \in Jobs /\ job[i] # None /\ job[i] \in JobRecord /\ WorkerOK(worker[w], job[i], effects[i])
    BY <1>1, Attended
  <1>3. job[i].status = "running" /\ rd.status = "running" /\ rd.record \in {None, "processing"}
    BY <1>1, <1>2 DEF WorkerOK
  <1>4. \A st \in {"succeeded", "dead_letter"} :
           /\ Finish(job[i], rd, st) \in JobRecord /\ Finish(job[i], rd, st) # None
           /\ Finish(job[i], rd, st).key = job[i].key
           /\ Finish(job[i], rd, st).attempts = job[i].attempts
           /\ Finish(job[i], rd, st).status = st
    <2>1. {"succeeded", "dead_letter"} \subseteq JobStatuses
      BY DEF JobStatuses, TERMINAL_JOB_STATUSES
    <2> QED BY <1>2, <1>3, <2>1, FinishType
  <1>5. CASE MarkSucceeded(w)
    <2>1. job' = [job EXCEPT ![i] = Finish(job[i], rd, "succeeded")]
      BY <1>2, <1>5 DEF MarkSucceeded, FinishJob, IInv, TypeOK
    <2>2. worker[w].pc = "committed" /\ rd.record = "processing"
      BY <1>3, <1>5 DEF MarkSucceeded, ReadBoth
    <2>3. idem' = [idem EXCEPT ![job[i].key] = "succeeded"]
      BY <1>5, <2>2 DEF MarkSucceeded, FinishRecord, Written
    <2> HIDE DEF rd
    <2> QED BY <1>1, <1>2, <1>3, <1>4, <2>1, <2>2, <2>3
  <1>6. CASE MarkRetrying(w)
    <2> DEFINE rec == [job[i] EXCEPT !.status = "retrying", !.retry_at = "ahead"]
    <2>1. job' = [job EXCEPT ![i] = rec] /\ idem' = idem
      BY <1>2, <1>3, <1>6 DEF MarkRetrying, RetryJob, Written, IInv, TypeOK
    <2>2. /\ rec \in JobRecord /\ rec.key = job[i].key /\ rec.attempts = job[i].attempts
          /\ rec.status = "retrying"
      BY <1>2 DEF JobRecord, JobStatuses, RetryTimes
    <2>3. rec # None
      BY <2>2, NoneAssumption
    <2>4. worker[w].pc = "raised" /\ worker[w].attempt < MaxAttempts
      BY <1>6 DEF MarkRetrying
    <2> HIDE DEF rec, rd
    <2> QED BY <1>1, <1>2, <1>3, <2>1, <2>2, <2>3, <2>4
  <1>7. CASE MarkDeadLetter(w)
    <2>1. job' = [job EXCEPT ![i] = Finish(job[i], rd, "dead_letter")]
      BY <1>2, <1>7 DEF MarkDeadLetter, FinishJob, IInv, TypeOK
    <2>2. worker[w].pc = "raised" /\ worker[w].attempt >= MaxAttempts /\ rd.record = "processing"
      BY <1>3, <1>7 DEF MarkDeadLetter, ReadBoth
    <2>3. idem' = [idem EXCEPT ![job[i].key] = "failed"]
      BY <1>7, <2>2 DEF MarkDeadLetter, FinishRecord, Written
    <2> HIDE DEF rd
    <2> QED BY <1>1, <1>2, <1>3, <1>4, <2>1, <2>2, <2>3
  <1> QED BY <1>5, <1>6, <1>7

\* The worker's marks follow the abstract job's life.
LEMMA MarkSole ==
  ASSUME NEW s \in Procs, IInv, Created, SoleInv(s), NEW w \in Workers,
         MarkStarted(w) \/ MarkSucceeded(w) \/ MarkRetrying(w) \/ MarkDeadLetter(w)
  PROVE  SoleInv(s)' /\ AllLawful
  <1> DEFINE i == worker[w].job
  <1>1. worker[w].pc # "idle" /\ UNCHANGED <<outbox, broker, proc, effects>>
    BY DEF MarkStarted, MarkSucceeded, MarkRetrying, RetryJob, MarkDeadLetter
  <1>2. /\ i \in Jobs /\ job[i] # None /\ job[i] \in JobRecord
        /\ WorkerOK(worker[w], job[i], effects[i])
        /\ JobOK(i, job[i], effects[i], worker) /\ effects[i] \in {0, 1}
    BY <1>1, Attended
  <1>3. effects' = [effects EXCEPT ![i] = effects[i]]
    BY <1>1, <1>2 DEF IInv, TypeOK
  <1>4. worker[w] \in WorkerType /\ job[i].attempts \in Nat
    BY <1>2 DEF IInv, TypeOK, JobRecord
  <1>5. IdleWorker \in WorkerType /\ IdleWorker.pc = "idle"
    BY IdleWorkerType DEF IdleWorker
  <1>6. CASE MarkStarted(w)
    <2> DEFINE wk == [worker[w] EXCEPT !.pc = "running"]
               rec == [job[i] EXCEPT !.status = "running", !.attempts = worker[w].attempt]
    <2>1. /\ worker' = [worker EXCEPT ![w] = wk] /\ worker[w].pc = "loaded"
          /\ job' = [job EXCEPT ![i] = rec] /\ idem' = idem
      BY <1>2, <1>6 DEF MarkStarted, IInv, TypeOK
    <2>2. /\ wk \in WorkerType /\ wk.pc = "running" /\ wk.job = i /\ wk.attempt = worker[w].attempt
          /\ wk.read = worker[w].read
      BY <1>4 DEF WorkerType, WorkerPcs
    <2>3. rec # None /\ rec.status = "running" /\ rec.attempts = worker[w].attempt
      <3>1. worker[w].attempt \in 0 .. AttemptBound
        BY <1>4, <1>6, JobQueueAssumption DEF MarkStarted, WorkerType
      <3>2. rec \in JobRecord
        BY <1>2, <3>1 DEF JobRecord, JobStatuses
      <3> QED BY <1>2, <3>2, NoneAssumption DEF JobRecord
    <2> HIDE DEF wk, rec
    <2>4. /\ effects[i] = 0 /\ job[i].status = "queued" /\ rec.attempts = job[i].attempts + 1
          /\ worker[w].read = None
      BY <1>2, <2>1, <2>3 DEF WorkerOK
    <2>5. rec.attempts <= MaxAttempts /\ Lawful(job[i], rec)
      BY <1>2, <1>4, <2>3, <2>4, JobQueueAssumption DEF JobOK, Lawful
    <2>6. WorkerOK(wk, rec, effects[i])
      BY <2>2, <2>3, <2>4, SMTT(30) DEF WorkerOK
    <2> HIDE DEF i
    <2> QED BY <1>1, <1>2, <1>3, <2>1, <2>2, <2>3, <2>4, <2>5, <2>6, WorkingSole DEF i
  <1>7. CASE MarkSucceeded(w) \/ MarkRetrying(w) \/ MarkDeadLetter(w)
    <2>1. job[i].status = "running" /\ worker' = [worker EXCEPT ![w] = IdleWorker]
      BY <1>7, MarkWrites
    <2>2. PICK rec \in JobRecord :
              /\ job' = [job EXCEPT ![i] = rec] /\ rec # None
              /\ rec.key = job[i].key /\ rec.attempts = job[i].attempts
              /\ \/ /\ worker[w].pc = "committed" /\ rec.status = "succeeded"
                    /\ idem' = [idem EXCEPT ![job[i].key] = "succeeded"]
                 \/ /\ worker[w].pc = "raised" /\ worker[w].attempt < MaxAttempts
                    /\ rec.status = "retrying" /\ idem' = idem
                 \/ /\ worker[w].pc = "raised" /\ worker[w].attempt >= MaxAttempts
                    /\ rec.status = "dead_letter" /\ idem' = [idem EXCEPT ![job[i].key] = "failed"]
      BY <1>7, MarkWrites
    <2>3. /\ worker[w].attempt = job[i].attempts /\ job[i].attempts <= MaxAttempts
          /\ worker[w].pc = "raised" => effects[i] = 0
      BY <1>2, <2>2 DEF WorkerOK, JobOK
    <2>4. Lawful(job[i], rec)
      BY <1>2, <1>4, <2>1, <2>2, <2>3, JobQueueAssumption DEF Lawful
    <2>5. \A k \in proc[s].want : idem'[k] = idem[k]
      BY <1>2, <2>2, WantsOthers
    <2>6. /\ effects[i] > 0 => rec.status \in {"running", "succeeded"}
          /\ rec.status \in {"queued", "retrying"} => rec.attempts < MaxAttempts
      BY <2>2, <2>3
    <2>7. rec.attempts <= MaxAttempts /\ rec.attempts = job[i].attempts /\ job[i].status = "running"
      BY <2>1, <2>2, <2>3, SMTT(30)
    <2> HIDE DEF i
    <2> QED BY <1>1, <1>2, <1>3, <1>5, <2>1, <2>2, <2>4, <2>5, <2>6, <2>7, WorkingSole DEF i
  <1> QED BY <1>6, <1>7

\* A worker drops a revoked message.
LEMMA DropSole ==
  ASSUME NEW s \in Procs, IInv, SoleInv(s), NEW r \in Rows, DropRevoked(r)
  PROVE  SoleInv(s)' /\ AllLawful
  <1>1. UNCHANGED <<job, idem, outbox, proc, worker, effects>> /\ broker' = [broker EXCEPT ![r] = @ - 1]
        /\ broker[r] > 0
    BY DEF DropRevoked
  <1>2. RowOK(r, outbox[r], proc[s].batch[r], broker[r], job[outbox[r].job], worker)
    BY <1>1 DEF SoleInv, RowsOK, IInv, Linked, BrokerLinked
  <1>3. broker[r] = 1
    BY <1>1, <1>2 DEF RowOK
  <1>4. \A q \in Rows : broker'[q] \in {broker[q], 0}
    BY <1>1, <1>3 DEF IInv, TypeOK
  <1> QED BY <1>1, <1>4, CalmSole

\* The clock.
LEMMA TimeSole ==
  ASSUME NEW s \in Procs, IInv, SoleInv(s), TimeStep
  PROVE  SoleInv(s)' /\ AllLawful
  <1>1. ASSUME NEW j \in Jobs, JobWindowOpens(j)
        PROVE  SoleInv(s)' /\ AllLawful
    <2> DEFINE rec == [job[j] EXCEPT !.retry_at = "past"]
    <2>1. job[j] # None /\ job[j] \in JobRecord /\ job' = [job EXCEPT ![j] = rec]
          /\ UNCHANGED <<idem, outbox, broker, proc, worker, effects>>
      BY <1>1 DEF JobWindowOpens, Exists, IInv, TypeOK
    <2>2. rec # None /\ rec.status = job[j].status /\ rec.attempts = job[j].attempts
      <3>1. rec \in JobRecord
        BY <2>1 DEF JobRecord, RetryTimes
      <3> QED BY <2>1, <3>1, NoneAssumption DEF JobRecord
    <2> HIDE DEF rec
    <2>3. \A i \in Jobs : (job'[i] = None <=> job[i] = None)
            /\ (job[i] # None => job'[i].status = job[i].status /\ job'[i].attempts = job[i].attempts)
      BY <2>1, <2>2 DEF IInv, TypeOK
    <2> QED BY <2>1, <2>3, CalmSole
  <1>2. ASSUME NEW r \in Rows, RowWindowOpens(r)
        PROVE  SoleInv(s)' /\ AllLawful
    <2> DEFINE row == [outbox[r] EXCEPT !.waiting = FALSE]
    <2>1. outbox[r] # None /\ outbox[r] \in RowRecord /\ outbox' = [outbox EXCEPT ![r] = row]
          /\ UNCHANGED <<job, idem, broker, proc, worker, effects>>
      BY <1>2 DEF RowWindowOpens, IInv, TypeOK
    <2>2. row # None /\ row.status = outbox[r].status /\ row.job = outbox[r].job
      <3>1. row \in RowRecord
        BY <2>1 DEF RowRecord
      <3> QED BY <2>1, <3>1, NoneAssumption DEF RowRecord
    <2> HIDE DEF row
    <2>3. \A q \in Rows : (outbox'[q] = None <=> outbox[q] = None)
            /\ (outbox[q] # None => outbox'[q].status = outbox[q].status /\ outbox'[q].job = outbox[q].job)
      BY <2>1, <2>2 DEF IInv, TypeOK
    <2> QED BY <2>1, <2>3, CalmSole
  <1> QED BY <1>1, <1>2 DEF TimeStep

\* With one dispatcher every step keeps SoleInv and is lawful for every job.
LEMMA NextSole ==
  ASSUME NEW s, OneDispatcher(s), IInv, Created, SoleInv(s), OutcomeOK, [Next]_vars
  PROVE  SoleInv(s)' /\ AllLawful
  <1>1. Procs = {s} /\ s \in Procs /\ Schedulers = {s} /\ Clients = {}
    BY DEF OneDispatcher, Procs
  <1>2. CASE SchedulerStep(s)
    BY <1>1, <1>2, SelectSole, CollectSole, NoRollback DEF SchedulerStep
  <1>3. CASE TxStep(s)
    BY <1>1, <1>3, SendOkSole, SendFailSole, DoomRecordSole, CommitSole, NoRollback, SelectSole, HookCommitSole DEF TxStep
  <1>4. ASSUME NEW w \in Workers, WorkerStep(w)
        PROVE  SoleInv(s)' /\ AllLawful
    BY <1>1, <1>4, ReceiveSole, MarkSole, LoadSole, FunctionSole DEF WorkerStep
  <1>5. ASSUME NEW r \in Rows, DropRevoked(r)
        PROVE  SoleInv(s)' /\ AllLawful
    BY <1>1, <1>5, DropSole
  <1>6. CASE TimeStep
    BY <1>1, <1>6, TimeSole
  <1>7. CASE CrashStep
    <2>1. ~\E p \in Procs : ProcCrash(p)
      <3>1. crashes.procs \in 0 .. 0
        BY DEF IInv, TypeOK, OneDispatcher
      <3> QED BY <3>1 DEF ProcCrash, OneDispatcher
    <2> QED BY <1>1, <1>7, <2>1, FunctionSole DEF CrashStep
  <1>8. CASE UNCHANGED vars
    BY <1>1, <1>8, CalmSole DEF vars
  <1> QED BY <1>1, <1>2, <1>3, <1>4, <1>5, <1>6, <1>7, <1>8 DEF Next

\* SoleInv holds initially.
LEMMA InitSole ==
  ASSUME NEW s, OneDispatcher(s), Init
  PROVE  SoleInv(s)
  <1>1. proc[s] = IdleTx
    BY DEF Init, OneDispatcher, Procs
  <1>2. RowsOK(s) /\ JobsOK
    BY DEF Init, RowsOK, JobsOK
  <1>3. WorkersOK /\ ExclusiveExecution
    BY DEF Init, WorkersOK, ExclusiveExecution, IdleWorker
  <1>a. Doomed(s) = {}
    BY <1>1 DEF Doomed, Selected, IdleTx, Tx, NoBatch
  <1>b. DispatcherReads(s)
    BY <1>1, <1>a DEF DispatcherReads, IdleTx, Tx, NoneRead
  <1>4. DispatcherOK(s)
    BY <1>1, <1>b DEF DispatcherOK, LoadedOK, IdleTx, Tx, NoBatch, NoneRead
  <1> QED BY <1>2, <1>3, <1>4 DEF SoleInv

\* Nothing has been created initially.
LEMMA InitCreated == Init => Created
  BY JobQueueAssumption
  DEF Init, Created, OneJobPerKey, CreatedTogether, JobsWithKey, Exists, Rows

\* A commit of the only dispatcher closes the records of the jobs it gives up
\* on, opens those of new jobs, and leaves the others.
LEMMA CommitRecords ==
  ASSUME NEW s \in Procs, IInv, Created, SoleInv(s), HookCommit(s) \/ Commit(s)
  PROVE  \A j \in Jobs :
            /\ j \in Doomed(s) => idem'[job[j].key] = "failed"
            /\ job[j] # None /\ j \notin Doomed(s) => idem'[job[j].key] = idem[job[j].key]
            /\ job[j] = None /\ job'[j] # None => idem'[job'[j].key] = "processing"
  <1>1. \A j \in Jobs : job[j] # None => job[j].key \in Keys /\ idem[job[j].key] # "absent"
    BY JobHasRecord
  <1>2. \A k \in proc[s].want : k \in Keys /\ idem[k] = "absent"
    BY DEF SoleInv, DispatcherOK, IInv, TypeOK, TxType
  <1>3. \A j \in Jobs : job[j] # None => idem'[job[j].key] = RecordAfter(s, job[j].key)
    <2>1. CASE HookCommit(s)
      BY <1>1, <2>1 DEF HookCommit
    <2>2. CASE Commit(s)
      <3>1. \A k \in Keys : k \notin proc[s].want => idem'[k] = RecordAfter(s, k)
        BY <2>2 DEF Commit, IdemAfter
      <3> QED BY <1>1, <1>2, <3>1
    <2> QED BY <2>1, <2>2
  <1>4. \A j \in Doomed(s) : j \in Jobs /\ job[j] # None
    BY DoomedExist
  <1>5. ASSUME NEW j \in Doomed(s) PROVE RecordAfter(s, job[j].key) = "failed"
    <2>1. proc[s].read[j].record # "failed"
      <3>1. proc[s].read[j].record \in {None, "processing"}
        BY <1>4 DEF SoleInv, DispatcherOK, DispatcherReads
      <3>2. None # "failed"
        BY NoneAssumption DEF IdemStatuses
      <3> QED BY <3>1, <3>2
    <2> QED BY <2>1 DEF RecordAfter
  <1>6. ASSUME NEW j \in Jobs, job[j] # None, j \notin Doomed(s)
        PROVE  RecordAfter(s, job[j].key) = idem[job[j].key]
    <2>1. \A i \in Doomed(s) : job[i].key # job[j].key
      BY <1>4, <1>6, KeysApart
    <2> QED BY <2>1 DEF RecordAfter
  <1>7. ASSUME NEW j \in Jobs, job[j] = None, job'[j] # None
        PROVE  idem'[job'[j].key] = "processing"
    <2>1. CASE HookCommit(s)
      BY <1>7, <2>1, HookTables
    <2>2. CASE Commit(s)
      <3>1. PICK ids \in FreshIds(s) : job' = [i \in Jobs |-> JobAfter(s, ids, i)]
        BY <2>2 DEF Commit
      <3>2. PICK k \in proc[s].want : job'[j] = NewJob(k)
        <4>1. job'[j] = JobAfter(s, ids, j)
          BY <3>1
        <4>2. j \notin Doomed(s) /\ j \notin Retried(s)
          BY <1>4, <1>7 DEF Retried, IInv, Linked, RetryLinked
        <4>3. \E k \in proc[s].want : ids[k] = j
          BY <1>7, <4>1, <4>2 DEF JobAfter
        <4> QED BY <4>1, <4>3 DEF JobAfter
      <3>3. k \in Keys /\ job'[j].key = k
        BY <1>2, <3>2 DEF NewJob
      <3> QED BY <2>2, <3>2, <3>3 DEF Commit, IdemAfter
    <2> QED BY <2>1, <2>2
  <1> QED BY <1>3, <1>4, <1>5, <1>6, <1>7

\* Each record keeps reporting the outcome of its job.
LEMMA NextOutcomeOK ==
  ASSUME NEW s, OneDispatcher(s), IInv, Created, SoleInv(s), OutcomeOK, [Next]_vars
  PROVE  OutcomeOK'
  <1>1. Procs = {s} /\ s \in Procs /\ Schedulers = {s} /\ Clients = {}
    BY DEF OneDispatcher, Procs
  <1>a. CASE UNCHANGED <<job, idem>>
    BY <1>a DEF OutcomeOK
  <1>b. \A j \in Jobs : job[j] # None => job[j] \in JobRecord /\ job[j].key \in Keys
    BY DEF IInv, TypeOK, JobRecord
  <1>c. idem \in [Keys -> IdemStatuses] /\ job \in [Jobs -> JobRecord \cup {None}]
    BY DEF IInv, TypeOK
  <1>2. CASE HookCommit(s) \/ Commit(s)
    <2> SUFFICES ASSUME NEW j \in Jobs, job'[j] # None
                 PROVE  idem'[job'[j].key] = Outcome(job'[j].status)
      BY DEF OutcomeOK
    <2>1. Settles(j, Doomed(s), job[j], job'[j])
      BY <1>1, <1>2, HookCommitSole, CommitSole
    <2>2. /\ j \in Doomed(s) => idem'[job[j].key] = "failed"
          /\ job[j] # None /\ j \notin Doomed(s) => idem'[job[j].key] = idem[job[j].key]
          /\ job[j] = None /\ job'[j] # None => idem'[job'[j].key] = "processing"
      BY <1>1, <1>2, CommitRecords
    <2>3. job[j] # None => job'[j].key = job[j].key
      BY <1>1, <1>2, CommitKeeps DEF JobsKept
    <2>4. job[j] # None => idem[job[j].key] = Outcome(job[j].status)
      BY DEF OutcomeOK
    <2> QED BY <2>1, <2>2, <2>3, <2>4 DEF Settles, Outcome
  <1>3. ASSUME NEW w \in Workers,
               MarkStarted(w) \/ MarkSucceeded(w) \/ MarkRetrying(w) \/ MarkDeadLetter(w)
        PROVE  OutcomeOK'
    <2> DEFINE i == worker[w].job
    <2>1. /\ i \in Jobs /\ job[i] # None /\ job[i] \in JobRecord /\ job[i].key \in Keys
          /\ JobsKept /\ worker[w].pc # "idle"
      BY <1>3, <1>b, MarkJob DEF MarkStarted, MarkSucceeded, MarkRetrying, MarkDeadLetter
    <2>2. \A j \in Jobs : j # i => job'[j] = job[j]
      BY <1>3, <1>c, <2>1 DEF MarkStarted, MarkSucceeded, FinishJob, MarkRetrying, RetryJob, MarkDeadLetter
    <2>3. job'[i].key = job[i].key
      BY <2>1 DEF JobsKept
    <2>4. /\ idem'[job[i].key] = Outcome(job'[i].status)
          /\ \A k \in Keys : k # job[i].key => idem'[k] = idem[k]
      <3>1. CASE MarkStarted(w)
        <4>1. job'[i].status = "running" /\ idem' = idem
          BY <1>c, <2>1, <3>1 DEF MarkStarted, JobRecord
        <4>2. job[i].status = "queued"
          <5>1. WorkerOK(worker[w], job[i], effects[i])
            BY <1>1, <2>1, Attended
          <5> QED BY <3>1, <5>1 DEF WorkerOK, MarkStarted
        <4>3. idem[job[i].key] = "processing"
          BY <2>1, <4>2 DEF OutcomeOK, Outcome
        <4> QED BY <4>1, <4>3 DEF Outcome
      <3>2. CASE MarkSucceeded(w) \/ MarkRetrying(w) \/ MarkDeadLetter(w)
        <4>1. job[i].status = "running"
          BY <1>1, <3>2, MarkWrites
        <4>2. PICK rec \in JobRecord :
              /\ job' = [job EXCEPT ![i] = rec] /\ rec # None
              /\ rec.key = job[i].key /\ rec.attempts = job[i].attempts
              /\ \/ /\ worker[w].pc = "committed" /\ rec.status = "succeeded"
                    /\ idem' = [idem EXCEPT ![job[i].key] = "succeeded"]
                 \/ /\ worker[w].pc = "raised" /\ worker[w].attempt < MaxAttempts
                    /\ rec.status = "retrying" /\ idem' = idem
                 \/ /\ worker[w].pc = "raised" /\ worker[w].attempt >= MaxAttempts
                    /\ rec.status = "dead_letter" /\ idem' = [idem EXCEPT ![job[i].key] = "failed"]
          BY <1>1, <3>2, MarkWrites
        <4>3. job'[i].status = rec.status
          BY <1>c, <2>1, <4>2
        <4>4. idem[job[i].key] = "processing"
          BY <2>1, <4>1 DEF OutcomeOK, Outcome
        <4> QED BY <1>c, <2>1, <4>2, <4>3, <4>4 DEF Outcome
      <3> QED BY <1>3, <3>1, <3>2
    <2>5. ASSUME NEW j \in Jobs, job'[j] # None
          PROVE  idem'[job'[j].key] = Outcome(job'[j].status)
      <3>1. CASE j = i
        BY <2>3, <2>4, <3>1
      <3>2. CASE j # i
        <4>1. job'[j] = job[j] /\ job[j] # None
          BY <2>2, <2>5, <3>2
        <4>2. job[j].key # job[i].key /\ job[j].key \in Keys
          BY <1>b, <2>1, <3>2, <4>1, KeysApart
        <4> QED BY <2>4, <4>1, <4>2 DEF OutcomeOK
      <3> QED BY <3>1, <3>2
    <2> QED BY <2>5 DEF OutcomeOK
  <1>4. ASSUME NEW j \in Jobs, JobWindowOpens(j) PROVE OutcomeOK'
    <2>1. job[j] # None /\ job[j] \in JobRecord /\ idem' = idem
      BY <1>4, <1>b DEF JobWindowOpens, Exists
    <2>2. /\ job'[j].status = job[j].status /\ job'[j].key = job[j].key
          /\ \A i \in Jobs : i # j => job'[i] = job[i]
      BY <1>4, <1>c, <2>1 DEF JobWindowOpens, JobRecord
    <2> QED BY <2>1, <2>2 DEF OutcomeOK
  <1>5. CASE SchedulerStep(s)
    BY <1>a, <1>5 DEF SchedulerStep, TickSelect, TickCollect, TickAbort
  <1>6. CASE TxStep(s)
    BY <1>a, <1>2, <1>6 DEF TxStep, SendOk, SendFail, DoomRecord, EnqueueRollback, HookSelect
  <1>7. ASSUME NEW w \in Workers, WorkerStep(w) \/ WorkerCrash(w) PROVE OutcomeOK'
    BY <1>a, <1>3, <1>7 DEF WorkerStep, Receive, FnCommit, FnRaise, LoadJob, LoadRecord, WorkerCrash
  <1>8. CASE TimeStep \/ (\E r \in Rows : DropRevoked(r)) \/ (\E p \in Procs : ProcCrash(p)) \/ UNCHANGED vars
    BY <1>a, <1>4, <1>8 DEF TimeStep, RowWindowOpens, DropRevoked, ProcCrash, vars
  <1> QED BY <1>1, <1>5, <1>6, <1>7, <1>8 DEF Next, CrashStep

\* With one dispatcher SoleInv holds throughout.
LEMMA SoleHolds ==
  ASSUME NEW s, OneDispatcher(s)
  PROVE  Spec => [](IInv /\ Created /\ SoleInv(s) /\ OutcomeOK)
  <1>1. Init => IInv /\ Created /\ SoleInv(s) /\ OutcomeOK
    <2>1. Init => OutcomeOK
      BY DEF Init, OutcomeOK
    <2> QED BY <2>1, InitIInv, InitCreated, InitSole
  <1>2. IInv /\ Created /\ SoleInv(s) /\ OutcomeOK /\ [Next]_vars => (IInv /\ Created /\ SoleInv(s) /\ OutcomeOK)'
    BY NextIInv, NextCreated, NextSole, NextOutcomeOK
  <1> QED BY <1>1, <1>2, PTL DEF Spec

\* With one dispatcher whose transactions commit, two workers never execute the
\* same job, although should_run and mark_started look at the row without a
\* lock, and whenever workers die.
THEOREM ExclusiveExecutionHolds ==
  ASSUME NEW s, OneDispatcher(s)
  PROVE  Spec => []ExclusiveExecution
  <1>1. SoleInv(s) => ExclusiveExecution
    BY DEF SoleInv
  <1> QED BY <1>1, SoleHolds, PTL

\* In that deployment the task function of a job commits at most once, even if
\* the worker dies between the commit and mark_succeeded.
THEOREM EffectOnceHolds ==
  ASSUME NEW s, OneDispatcher(s)
  PROVE  Spec => []EffectOnce
  <1>1. IInv /\ SoleInv(s) => EffectOnce
    BY DEF SoleInv, JobsOK, EffectOnce
  <1> QED BY <1>1, SoleHolds, PTL

\* In that deployment the job and its idempotency record report the same
\* outcome at every moment, although mark_succeeded and mark_dead_letter write
\* only what differs from what they loaded: nothing commits in between.
THEOREM OutcomesAgreeHolds ==
  ASSUME NEW s, OneDispatcher(s)
  PROVE  Spec => []OutcomesAgree
  <1>1. OutcomeOK => OutcomesAgree
    BY DEF OutcomeOK, OutcomesAgree, Outcome, Exists
  <1> QED BY <1>1, SoleHolds, PTL

\* In that deployment the tables, seen through status and attempt_count, take
\* only the steps of JobLifecycle: at most MaxAttempts runs, one after the
\* other, and no way back from an outcome.
THEOREM LifecycleRefined ==
  ASSUME NEW s, OneDispatcher(s)
  PROVE  Spec => RefinesLifecycle
  <1>1. Init => Lifecycle!Init
    BY DEF Init, Lifecycle!Init, Exists
  <1>2. IInv /\ Created /\ SoleInv(s) /\ OutcomeOK /\ [Next]_vars => [Lifecycle!Next]_(Lifecycle!jobVars)
    <2> SUFFICES ASSUME IInv, Created, SoleInv(s), OutcomeOK, [Next]_vars
                 PROVE  Lifecycle!Next
      OBVIOUS
    <2>1. AllLawful
      BY NextSole
    <2>2. ASSUME NEW j \in Jobs PROVE Lifecycle!JobStep(j)
      <3>1. Lawful(job[j], job'[j])
        BY <2>1 DEF AllLawful
      <3> QED BY <3>1 DEF Lawful, Exists, Lifecycle!JobStep, Lifecycle!Submit, Lifecycle!Start,
                 Lifecycle!Succeed, Lifecycle!Retry, Lifecycle!Exhaust, Lifecycle!Requeue,
                 Lifecycle!GiveUp, Lifecycle!Rest, Lifecycle!Moves
    <2> QED BY <2>2 DEF Lifecycle!Next
  <1> QED BY <1>1, <1>2, SoleHolds, PTL DEF Spec, RefinesLifecycle, Lifecycle!Spec
=============================================================================
