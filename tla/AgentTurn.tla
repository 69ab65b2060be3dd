------------------------------ MODULE AgentTurn ------------------------------
(***************************************************************************)
(* Agent turns and human approval: runtime/agent.py (run_turn, resume_turn *)
(* and the tool loop), ToolExecutor.execute in domain/tools.py and the     *)
(* approval endpoints of api/admin/control.py.                             *)
(*                                                                         *)
(* A turn alternates between the model, which asks for tool calls, and the *)
(* executor, which runs them in order.  A call that needs approval stops   *)
(* the turn: an Approval row with a checkpoint is committed and a later    *)
(* request resumes from it.  Every request is one database transaction,    *)
(* and a tool is an external effect that no rollback undoes.               *)
(*                                                                         *)
(* Abstracted: prompts, answers and tool payloads (a call is its kind and  *)
(* whether its arguments were edited), the conversation log and ToolRun    *)
(* rows, which are only ever appended.                                     *)
(***************************************************************************)
EXTENDS Naturals, Sequences, FiniteSets

CONSTANTS Approvals,     \* ids of Approval rows
          Requests,      \* HTTP requests in flight
          MaxRounds,     \* max_rounds of the tool loop (4 in the code)
          MaxCalls,      \* bound: tool calls in one answer of the model
          TurnBound,     \* bound: turns started in a behaviour
          DecisionBound, \* bound: decisions on approvals in a behaviour
          None           \* no such row

ASSUME AgentTurnAssumption ==
    /\ MaxRounds \in Nat \ {0}
    /\ MaxCalls \in Nat \ {0}
    /\ TurnBound \in Nat
    /\ DecisionBound \in Nat

VARIABLES appr,    \* the approvals table
          req,     \* requests: their open transaction and their local state
          passed,  \* history: gated calls that reached their handler
          issued   \* turns and decisions so far

vars == <<appr, req, passed, issued>>

\* requires_approval of a ToolDefinition.
Kinds == {"free", "gated"}
Args == {"asked", "edited"}
Call == [kind: Kinds, args: Args]

\* What a call returned: the arguments it ran with and whether a decision
\* covered it.  "approval_required" is the marker an interruption leaves.
Result == [st: {"ok", "failed", "approval_required"}, args: Args, approved: BOOLEAN]

\* An answered round, as _append_tool_messages adds it to the messages.
Round == [calls: Seq(Call), results: Seq(Result)]

\* turn_checkpoint.  at is pending_index + 1.
Checkpoint == [round: Nat, rounds: Seq(Round), calls: Seq(Call),
               done: Seq(Result), flat: Seq(Result), at: Nat, pending: Call]

ApprovalStatuses == {"pending", "approved", "rejected", "cancelled"}
ApprovalRecord == [status: ApprovalStatuses,
                   mode: {"agent_tool_loop", "rerun_tool"},
                   edited: BOOLEAN, ckpt: Checkpoint]

ASSUME NoneAssumption == None \notin Approvals /\ None \notin ApprovalRecord

NoCall == [kind |-> "free", args |-> "asked"]

\* A request:
\*   mode     run_turn with the model, run_turn with given tool_calls,
\*            resume_turn, or approve_and_run outside a turn
\*   via      the approval it resumes
\*   seen     that row's status as loaded
\*   edit     it carries edited_arguments
\*   round, rounds, calls, done, flat  the tool loop: round_index, messages,
\*            the calls of this round, their results so far, tool_results of
\*            the rounds before
\*   at, pending  the one position that runs approved, and what runs there
\*   new      approvals created and not yet committed
IdleReq == [pc |-> "idle", mode |-> "turn", via |-> None, seen |-> "pending",
            edit |-> FALSE, round |-> 0, rounds |-> <<>>, calls |-> <<>>,
            done |-> <<>>, flat |-> <<>>, at |-> 0, pending |-> NoCall, new |-> {}]

Init ==
    /\ appr = [a \in Approvals |-> None]
    /\ req = [q \in Requests |-> IdleReq]
    /\ passed = {}
    /\ issued = [turns |-> 0, decisions |-> 0]

Start(q, r) ==
    /\ req[q].pc = "idle"
    /\ req' = [req EXCEPT ![q] = r]

CountTurn == /\ issued.turns < TurnBound
             /\ issued' = [issued EXCEPT !.turns = @ + 1]
CountDecision == /\ issued.decisions < DecisionBound
                 /\ issued' = [issued EXCEPT !.decisions = @ + 1]

CallLists == UNION {[1 .. n -> [kind: Kinds, args: {"asked"}]] : n \in 1 .. MaxCalls}

----------------------------------------------------------------------------
(* The tool loop: _run_llm, _continue_llm_loop, _execute_tool_calls.       *)

StartTurn(q) ==
    /\ CountTurn
    /\ Start(q, [IdleReq EXCEPT !.pc = "llm"])
    /\ UNCHANGED <<appr, passed>>

\* A research question is delegated to an A2A agent: its answer, or its failure,
\* is the turn's answer, and the model is not asked.
StartDelegated(q) ==
    /\ CountTurn
    /\ Start(q, [IdleReq EXCEPT !.pc = "commit"])
    /\ UNCHANGED <<appr, passed>>

\* run_turn with tool_calls from the caller: they run in order, without the
\* model.  A call that the caller marks as approved is as good as free.
StartDirect(q, calls) ==
    /\ CountTurn
    /\ Start(q, [IdleReq EXCEPT !.pc = "tools", !.mode = "direct", !.calls = calls])
    /\ UNCHANGED <<appr, passed>>

\* The model answers.  Calls asked for after the last round are ignored.
Reply(q, calls) ==
    /\ req[q].pc = "llm"
    /\ req' = [req EXCEPT
          ![q].pc = IF calls = <<>> \/ req[q].round >= MaxRounds THEN "commit" ELSE "tools",
          ![q].calls = IF req[q].round >= MaxRounds THEN <<>> ELSE calls]
    /\ UNCHANGED <<appr, passed, issued>>

\* Rate limit, open circuit, timeout: the turn ends with a degraded answer.
LlmFail(q) ==
    /\ req[q].pc = "llm"
    /\ req' = [req EXCEPT ![q].pc = "commit"]
    /\ UNCHANGED <<appr, passed, issued>>

Index(q) == Len(req[q].done) + 1

\* Mutant: a decision covers the rest of the round.
ApprovedFrom(q) == req[q].at # 0 /\ Index(q) >= req[q].at

\* Only the call the decision is about runs with approved=True.
Approved(q) == req[q].at = Index(q)

Active(q) == IF Approved(q) THEN req[q].pending ELSE req[q].calls[Index(q)]

MayRun(q) == Active(q).kind = "free" \/ Approved(q)

\* The executor's gate, with the history of what went through it.
Pass(q) ==
    passed' = IF MayRun(q) /\ Active(q).kind = "gated"
                THEN passed \cup {[via |-> req[q].via, mode |-> req[q].mode,
                                   round |-> req[q].round, at |-> Index(q)]}
                ELSE passed

ResultOf(q, st) == [st |-> st, args |-> Active(q).args, approved |-> Approved(q)]

\* Mutant: the edited call is not put back into the round.
AnsweredUnedited(q) == req[q].calls

\* The calls of a finished round, the pending one as it ran.
Answered(q) == IF req[q].at = 0 THEN req[q].calls
                                ELSE [req[q].calls EXCEPT ![req[q].at] = req[q].pending]

\* Mutant: a resumed turn counts its rounds from zero.
NextRoundAfresh(q) == IF req[q].at # 0 THEN 0 ELSE req[q].round + 1

NextRound(q) == req[q].round + 1

\* The request after one more result.
After(q, res) ==
    LET r == req[q]
        done == Append(r.done, res)
    IN  IF Len(done) < Len(r.calls) THEN [r EXCEPT !.done = done]
        ELSE IF r.mode \in {"direct", "rerun"} THEN [r EXCEPT !.done = done, !.pc = "commit"]
        ELSE [r EXCEPT !.pc = "llm", !.round = NextRound(q),
                       !.rounds = Append(@, [calls |-> Answered(q), results |-> done]),
                       !.flat = @ \o done,
                       !.calls = <<>>, !.done = <<>>, !.at = 0, !.pending = NoCall]

ToolOk(q) ==
    /\ req[q].pc = "tools"
    /\ MayRun(q)
    /\ Pass(q)
    /\ req' = [req EXCEPT ![q] = After(q, ResultOf(q, "ok"))]
    /\ UNCHANGED <<appr, issued>>

\* An unknown or unavailable tool, the safety floor, or a handler that raised.
\* The loop of run_turn turns it into a result; resume_turn and
\* approve_and_run let it out, and get_db rolls the request back.
ToolFail(q) ==
    /\ req[q].pc = "tools"
    /\ Pass(q)
    /\ req' = [req EXCEPT ![q] =
                  IF \/ req[q].mode = "rerun"
                     \/ req[q].mode = "resume" /\ req[q].at # 0
                    THEN IdleReq ELSE After(q, ResultOf(q, "failed"))]
    /\ UNCHANGED <<appr, issued>>

FreshApproval ==
    {a \in Approvals : appr[a] = None /\ \A q \in Requests : a \notin {n[1] : n \in req[q].new}}

Marker(q) == [st |-> "approval_required", args |-> Active(q).args, approved |-> FALSE]

\* Mutant: the checkpoint keeps the results but not how many of them belong
\* to the interrupted round.
CheckpointOfLossy(q) ==
    [round |-> req[q].round, rounds |-> req[q].rounds, calls |-> req[q].calls,
     done |-> <<>>, flat |-> req[q].flat \o req[q].done \o <<Marker(q)>>,
     at |-> Index(q), pending |-> Active(q)]

\* The checkpoint of an interrupted round.
CheckpointOf(q) ==
    [round |-> req[q].round, rounds |-> req[q].rounds, calls |-> req[q].calls,
     done |-> req[q].done, flat |-> req[q].flat \o req[q].done \o <<Marker(q)>>,
     at |-> Index(q), pending |-> Active(q)]

NewApproval(q, mode) ==
    [status |-> "pending", mode |-> mode, edited |-> FALSE, ckpt |-> CheckpointOf(q)]

\* A gated tool that no decision covers, or a handler that raised
\* PermissionError: _create_tool_approval.  In the loop it interrupts the
\* turn; among given tool_calls the next call follows; approve_and_run
\* answers 400 and loses the row it has just created.
NeedApproval(q, a) ==
    /\ req[q].pc = "tools"
    /\ a \in FreshApproval
    /\ Pass(q)
    /\ req' = [req EXCEPT ![q] =
          IF req[q].mode = "rerun" THEN IdleReq
          ELSE IF req[q].mode = "direct"
            THEN [After(q, Marker(q)) EXCEPT !.new = @ \cup {<<a, NewApproval(q, "rerun_tool")>>}]
          ELSE [req[q] EXCEPT !.pc = "commit",
                              !.new = {<<a, NewApproval(q, "agent_tool_loop")>>}]]
    /\ UNCHANGED <<appr, issued>>

----------------------------------------------------------------------------
(* resume_turn and the approval endpoints.                                 *)

\* prior_tool_results: tool_results without those of the interrupted round.
Prior(ck) ==
    LET marker == IF ck.flat # <<>> /\ ck.flat[Len(ck.flat)].st = "approval_required"
                    THEN 1 ELSE 0
        kept == Len(ck.done) + marker
    IN  SubSeq(ck.flat, 1, IF Len(ck.flat) > kept THEN Len(ck.flat) - kept ELSE 0)

Resuming(a, edit) ==
    LET ck == appr[a].ckpt
        args == IF edit \/ appr[a].edited THEN "edited" ELSE ck.pending.args
    IN  [IdleReq EXCEPT !.pc = "tools", !.mode = "resume", !.via = a,
                        !.seen = appr[a].status, !.edit = edit,
                        !.round = ck.round, !.rounds = ck.rounds, !.calls = ck.calls,
                        !.done = ck.done, !.flat = Prior(ck), !.at = ck.at,
                        !.pending = [ck.pending EXCEPT !.args = args]]

Resumable(a) == appr[a] # None /\ appr[a].mode = "agent_tool_loop"

\* POST .../resume-turn with approve or edit.  The row's status is not looked
\* at: an approval can be resumed again.
Resume(q, a, edit) ==
    /\ Resumable(a)
    /\ CountDecision
    /\ Start(q, Resuming(a, edit))
    /\ UNCHANGED <<appr, passed>>

SettledStatus(d) == IF d = "respond" THEN "cancelled" ELSE "rejected"

\* resume-turn with respond or reject: the turn is answered without the tool.
Settle(a, d) ==
    /\ Resumable(a)
    /\ CountDecision
    /\ appr' = [appr EXCEPT ![a].status = SettledStatus(d)]
    /\ UNCHANGED <<req, passed>>

\* POST .../approve-and-run.  An approval made outside the loop runs its one
\* call.
ApproveAndRun(q, a) ==
    /\ appr[a] # None
    /\ appr[a].status \in {"pending", "approved"}
    /\ CountDecision
    /\ Start(q, IF appr[a].mode = "agent_tool_loop" THEN Resuming(a, FALSE)
                ELSE LET c == appr[a].ckpt.pending IN
                     [IdleReq EXCEPT
                        !.pc = "tools", !.mode = "rerun", !.via = a,
                        !.seen = appr[a].status, !.calls = <<c>>, !.at = 1,
                        !.pending = [c EXCEPT !.args = IF appr[a].edited THEN "edited" ELSE @]])
    /\ UNCHANGED <<appr, passed>>

\* POST .../resolve and .../reject: a blind write of the status, and of
\* edited_arguments when the request has some.
Resolve(a, status, edit) ==
    /\ appr[a] # None
    /\ CountDecision
    /\ appr' = [appr EXCEPT ![a].status = status, ![a].edited = @ \/ edit]
    /\ UNCHANGED <<req, passed>>

\* The end of a request.  The status is written if it is not the one loaded.
Commit(q) ==
    /\ req[q].pc = "commit"
    /\ appr' = [a \in Approvals |->
          IF \E n \in req[q].new : n[1] = a
            THEN (CHOOSE n \in req[q].new : n[1] = a)[2]
          ELSE IF a = req[q].via
            THEN [appr[a] EXCEPT !.status = IF req[q].seen = "approved" THEN @ ELSE "approved",
                                 !.edited = @ \/ req[q].edit]
          ELSE appr[a]]
    /\ req' = [req EXCEPT ![q] = IdleReq]
    /\ UNCHANGED <<passed, issued>>

\* The process dies, or the commit fails.
Crash(q) ==
    /\ req[q].pc # "idle"
    /\ req' = [req EXCEPT ![q] = IdleReq]
    /\ UNCHANGED <<appr, passed, issued>>

TurnStep(q) ==
    \/ StartTurn(q)
    \/ StartDelegated(q)
    \/ \E calls \in CallLists : StartDirect(q, calls)
    \/ \E calls \in CallLists \cup {<<>>} : Reply(q, calls)
    \/ LlmFail(q)
    \/ ToolOk(q)
    \/ ToolFail(q)
    \/ \E a \in Approvals : NeedApproval(q, a)
    \/ Commit(q)
    \/ Crash(q)

DecisionStep(a) ==
    \/ \E q \in Requests, edit \in BOOLEAN : Resume(q, a, edit)
    \/ \E q \in Requests : ApproveAndRun(q, a)
    \/ \E d \in {"respond", "reject"} : Settle(a, d)
    \/ \E st \in {"approved", "rejected", "cancelled"}, edit \in BOOLEAN : Resolve(a, st, edit)

Next == \/ \E q \in Requests : TurnStep(q)
        \/ \E a \in Approvals : DecisionStep(a)

Spec == Init /\ [][Next]_vars

----------------------------------------------------------------------------
ReqType ==
    [pc: {"idle", "llm", "tools", "commit"},
     mode: {"turn", "direct", "resume", "rerun"},
     via: Approvals \cup {None}, seen: ApprovalStatuses, edit: BOOLEAN,
     round: Nat, rounds: Seq(Round), calls: Seq(Call), done: Seq(Result),
     flat: Seq(Result), at: Nat, pending: Call,
     new: SUBSET (Approvals \X ApprovalRecord)]

PassType == [via: Approvals \cup {None}, mode: {"turn", "direct", "resume", "rerun"},
             round: Nat, at: Nat]

\* The approvals table and the state of every request are well formed.
TypeOK ==
    /\ appr \in [Approvals -> ApprovalRecord \cup {None}]
    /\ req \in [Requests -> ReqType]
    /\ passed \subseteq PassType
    /\ issued \in [turns: 0 .. TurnBound, decisions: 0 .. DecisionBound]

\* A gated tool asked for by the model reaches its handler only as the very
\* call that an approval describes: one decision never covers a second call,
\* whatever is nested, resumed twice or resumed concurrently (the approved
\* argument of ToolExecutor.execute in resume_turn).
GatedCallWasDecided ==
    \A p \in passed :
        /\ p.via # None
        /\ appr[p.via] # None
        /\ p.mode = "resume" => /\ appr[p.via].ckpt.round = p.round
                                /\ appr[p.via].ckpt.at = p.at
                                /\ appr[p.via].ckpt.pending.kind = "gated"

\* A turn executes at most max_rounds rounds of tools, counted across all the
\* interruptions and resumptions on the way (start_round in resume_turn).
RoundsBounded ==
    /\ \A q \in Requests : Len(req[q].rounds) <= MaxRounds
    /\ \A a \in Approvals : appr[a] # None => Len(appr[a].ckpt.rounds) < MaxRounds

\* flat is the results of the rounds, one round after the other: cut[n] of
\* them belong to the first n rounds.
Lists(flat, rounds) ==
    \E cut \in [0 .. Len(rounds) -> 0 .. Len(flat)] :
        /\ cut[0] = 0 /\ cut[Len(rounds)] = Len(flat)
        /\ \A n \in 1 .. Len(rounds) : /\ cut[n - 1] <= cut[n]
                                       /\ rounds[n].results = SubSeq(flat, cut[n - 1] + 1, cut[n])

\* Whenever the model is called, every tool call in the messages has exactly
\* one result, and tool_results is those results in order, with nothing twice
\* and no trace of the interruptions (_append_tool_messages, prior_count).
TranscriptComplete ==
    \A q \in Requests : req[q].pc = "llm" =>
        /\ \A n \in 1 .. Len(req[q].rounds) :
              Len(req[q].rounds[n].results) = Len(req[q].rounds[n].calls)
        /\ Lists(req[q].flat, req[q].rounds)

\* The arguments that the messages show for a call are the ones it ran with,
\* unless a later call of the same round was interrupted too: the nested
\* checkpoint of resume_turn keeps the calls as the model wrote them.
EditsReachTheModel ==
    \A q \in Requests : \A n \in 1 .. Len(req[q].rounds) :
        LET r == req[q].rounds[n] IN
        \A i \in 1 .. Len(r.calls) : r.calls[i].args # r.results[i].args =>
            \E j \in i + 1 .. Len(r.calls) : r.results[j].approved
=============================================================================
