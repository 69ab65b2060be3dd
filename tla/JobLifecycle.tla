---------------------------- MODULE JobLifecycle ----------------------------
(***************************************************************************)
(* What a background job promises its caller, with the tables, the outbox  *)
(* and the broker left out: it is submitted once, it runs at most          *)
(* MaxAttempts times, one run at a time, it waits between runs, and once   *)
(* it has a final status it keeps it.  The statuses are those that         *)
(* BackgroundJobService writes to background_jobs.status.                  *)
(***************************************************************************)
EXTENDS Naturals

CONSTANTS Jobs, MaxAttempts

VARIABLES status,  \* status of each job, "none" before it exists
          tries    \* runs started

jobVars == <<status, tries>>

Init == /\ status = [j \in Jobs |-> "none"]
        /\ tries = [j \in Jobs |-> 0]

\* From -> to of one job, together with the count of its runs.
Moves(j, from, to) == status[j] = from /\ status'[j] = to

Submit(j)  == Moves(j, "none", "queued") /\ tries'[j] = 0
Start(j)   == /\ Moves(j, "queued", "running")
              /\ tries[j] < MaxAttempts
              /\ tries'[j] = tries[j] + 1
Succeed(j) == Moves(j, "running", "succeeded") /\ tries'[j] = tries[j]
Retry(j)   == /\ Moves(j, "running", "retrying")
              /\ tries[j] < MaxAttempts
              /\ tries'[j] = tries[j]
Exhaust(j) == /\ Moves(j, "running", "dead_letter")
              /\ tries[j] = MaxAttempts
              /\ tries'[j] = tries[j]
Requeue(j) == Moves(j, "retrying", "queued") /\ tries'[j] = tries[j]
\* The broker stayed unreachable until the outbox gave up.
GiveUp(j)  == Moves(j, "queued", "dead_letter") /\ tries'[j] = tries[j]
Rest(j)    == status'[j] = status[j] /\ tries'[j] = tries[j]

JobStep(j) == \/ Submit(j) \/ Start(j) \/ Succeed(j) \/ Retry(j)
              \/ Exhaust(j) \/ Requeue(j) \/ GiveUp(j) \/ Rest(j)

\* One transaction may move several jobs.
Next == /\ DOMAIN status' = Jobs
        /\ DOMAIN tries' = Jobs
        /\ \A j \in Jobs : JobStep(j)

Spec == Init /\ [][Next]_jobVars
=============================================================================
