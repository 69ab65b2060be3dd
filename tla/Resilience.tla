----------------------------- MODULE Resilience -----------------------------
(***************************************************************************)
(* The circuit breaker of infra/resilience.py: ResilienceManager.call, and *)
(* async_call, which has the same steps, for one policy name.              *)
(*                                                                         *)
(* Request threads and event loops share one CircuitState without a lock.  *)
(* A thread can be preempted wherever the code calls something: the        *)
(* upstream, the sleep, the event bus, datetime.now.  Between two such     *)
(* points its reads and writes of the state are one step.                  *)
(*                                                                         *)
(* failures is only ever compared with the threshold, so it is counted up  *)
(* to the threshold and no further.  opened_until is "none", in the future *)
(* ("open") or in the past ("passed").                                     *)
(***************************************************************************)
EXTENDS Naturals

CONSTANTS Callers,      \* threads that use the policy
          Attempts,     \* policy.max_attempts
          Threshold     \* policy.failure_threshold

ASSUME ResilienceAssumption ==
    /\ Attempts \in Nat \ {0}
    /\ Threshold \in Nat \ {0}

VARIABLES failures,  \* CircuitState.failures
          opened,    \* CircuitState.opened_until
          caller,    \* where each thread is in call, and in which attempt
          answer,    \* how each thread's last call ended
          up,        \* whether the upstream answers
          inRow,     \* history: calls that failed since the last success
          earned     \* history: inRow has reached the threshold, and no success has
                     \* come since except while a thread was tripping

cbVars == <<failures, opened, caller, answer, up, inRow, earned>>

Pcs == {"idle",
        "refused",   \* found the circuit open, reports it
        "trying",    \* in fn
        "sleeping",  \* between two attempts
        "counted",   \* in _record_failure, after failures += 1
        "tripping"}  \* in _record_failure, about to set opened_until
Answers == {"none", "result", "error", "CircuitOpenError", "AttributeError"}

Idle == [pc |-> "idle", attempt |-> 0]

CBInit ==
    /\ failures = 0
    /\ opened = "none"
    /\ caller = [c \in Callers |-> Idle]
    /\ answer = [c \in Callers |-> "none"]
    /\ up = TRUE
    /\ inRow = 0
    /\ earned = FALSE

Goto(c, pc) == caller' = [caller EXCEPT ![c].pc = pc]

Return(c, a) ==
    /\ caller' = [caller EXCEPT ![c] = Idle]
    /\ answer' = [answer EXCEPT ![c] = a]

\* Mutant: a window that has passed is still taken for open.
IsOpenForEver == opened # "none"

IsOpen == opened = "open"

\* An open circuit refuses the call ...
Refuse(c) ==
    /\ caller[c].pc = "idle"
    /\ IsOpen
    /\ Goto(c, "refused")
    /\ UNCHANGED <<failures, opened, answer, up, inRow, earned>>

\* ... with an error whose text formats opened_until once more, after the
\* event bus and the metrics have been told.
RefuseEnd(c) ==
    /\ caller[c].pc = "refused"
    /\ Return(c, IF opened = "none" THEN "AttributeError" ELSE "CircuitOpenError")
    /\ UNCHANGED <<failures, opened, up, inRow, earned>>

\* Every call is admitted once the window has passed, and clears it.
Admit(c) ==
    /\ caller[c].pc = "idle"
    /\ ~IsOpen
    /\ opened' = "none"
    /\ caller' = [caller EXCEPT ![c] = [pc |-> "trying", attempt |-> 1]]
    /\ UNCHANGED <<failures, answer, up, inRow, earned>>

\* A success closes the circuit, even one that was opened meanwhile.
FnReturns(c) ==
    /\ caller[c].pc = "trying"
    /\ up
    /\ failures' = 0
    /\ opened' = "none"
    /\ inRow' = 0
    /\ earned' = (earned /\ \E d \in Callers : caller[d].pc = "tripping")
    /\ Return(c, "result")
    /\ UNCHANGED up

\* Mutants: one attempt too many; every failed attempt counts.
FnRaisesOnceMore(c) ==
    /\ caller[c].pc = "trying"
    /\ ~up
    /\ caller[c].attempt <= Attempts
    /\ Goto(c, "sleeping")
    /\ UNCHANGED <<failures, opened, answer, up, inRow, earned>>
FnRaisesCounted(c) ==
    /\ caller[c].pc = "trying"
    /\ ~up
    /\ caller[c].attempt < Attempts
    /\ Goto(c, "sleeping")
    /\ failures' = IF failures < Threshold THEN failures + 1 ELSE failures
    /\ UNCHANGED <<opened, answer, up, inRow, earned>>

\* A retryable error with attempts left.
FnRaises(c) ==
    /\ caller[c].pc = "trying"
    /\ ~up
    /\ caller[c].attempt < Attempts
    /\ Goto(c, "sleeping")
    /\ UNCHANGED <<failures, opened, answer, up, inRow, earned>>

\* The loop goes on without looking at the circuit again.
Wake(c) ==
    /\ caller[c].pc = "sleeping"
    /\ caller' = [caller EXCEPT ![c].pc = "trying", ![c].attempt = @ + 1]
    /\ UNCHANGED <<failures, opened, answer, up, inRow, earned>>

\* The last attempt failed, or the error is not retryable: _record_failure.
FnGivesUp(c) ==
    /\ caller[c].pc = "trying"
    /\ ~up
    /\ failures' = IF failures < Threshold THEN failures + 1 ELSE failures
    /\ inRow' = IF inRow < Threshold THEN inRow + 1 ELSE inRow
    /\ earned' = (earned \/ inRow' = Threshold)
    /\ Goto(c, "counted")
    /\ UNCHANGED <<opened, answer, up>>

\* Mutant: off by one.
ReachedAbove == failures > Threshold

Reached == failures >= Threshold

\* failures is read again after str(exc).
Compare(c) ==
    /\ caller[c].pc = "counted"
    /\ IF Reached THEN Goto(c, "tripping") /\ UNCHANGED answer
                  ELSE Return(c, "error")
    /\ UNCHANGED <<failures, opened, up, inRow, earned>>

Trip(c) ==
    /\ caller[c].pc = "tripping"
    /\ opened' = "open"
    /\ Return(c, "error")
    /\ UNCHANGED <<failures, up, inRow, earned>>

\* recovery_seconds pass.
WindowPasses ==
    /\ opened = "open"
    /\ opened' = "passed"
    /\ UNCHANGED <<failures, caller, answer, up, inRow, earned>>

\* The upstream goes away or comes back.
UpstreamTurns ==
    /\ up' = ~up
    /\ UNCHANGED <<failures, opened, caller, answer, inRow, earned>>

Begin(c) == Refuse(c) \/ Admit(c)

Continue(c) ==
    \/ RefuseEnd(c)
    \/ FnReturns(c)
    \/ FnRaises(c)
    \/ Wake(c)
    \/ FnGivesUp(c)
    \/ Compare(c)
    \/ Trip(c)

CBNext ==
    \/ \E c \in Callers : Begin(c) \/ Continue(c)
    \/ WindowPasses
    \/ UpstreamTurns

CBSpec == CBInit /\ [][CBNext]_cbVars

\* A thread that is in a call goes on: the upstream call has a timeout, the
\* sleep an end.
FairSpec == CBSpec /\ \A c \in Callers : WF_cbVars(Continue(c))
                   /\ WF_cbVars(WindowPasses)

----------------------------------------------------------------------------
\* The circuit's state and every thread's position are well formed; no thread
\* is in more than its last attempt.
CBTypeOK ==
    /\ failures \in 0 .. Threshold
    /\ opened \in {"none", "open", "passed"}
    /\ caller \in [Callers -> [pc: Pcs, attempt: 0 .. Attempts]]
    /\ answer \in [Callers -> Answers]
    /\ up \in BOOLEAN
    /\ inRow \in 0 .. Threshold
    /\ earned \in BOOLEAN

\* The circuit is open only if failure_threshold calls have failed in a row;
\* retries within a call do not count (_record_failure is reached once per
\* call), and a success wipes the slate, except for a thread that has already
\* decided to trip.
TripIsEarned == opened # "none" => earned

\* A circuit at its threshold is closed only while a call probes the upstream
\* or is about to record its failure: no interleaving of late failures, late
\* successes and expired windows leaves it closed with nobody on the way.
ThresholdTrips ==
    inRow = Threshold /\ opened = "none" => \E c \in Callers : caller[c].pc # "idle"

\* Once the upstream stays up and calls keep coming, the circuit closes for
\* good, whatever failures are still on their way to being recorded.
Recovers ==
    <>[]up /\ []<><<\E c \in Callers : Begin(c)>>_cbVars => <>[](opened = "none")

\* What the test of the open circuit expects: a refused call raises
\* CircuitOpenError.
RefusedAsOpen == \A c \in Callers : answer[c] # "AttributeError"
=============================================================================
