-------------------------- MODULE AgentTurnProofs --------------------------
(***************************************************************************)
(* Safety of agent turns for any number of rounds, of calls in a round, of *)
(* approvals and of requests under way.                                    *)
(***************************************************************************)
EXTENDS AgentTurn, SequenceTheorems, TLAPS

\* A call whose arguments changed, in a round that is answered, was followed
\* by an interruption (EditsReachTheModel for one round).
EditShown(r) ==
    /\ Len(r.results) = Len(r.calls)
    /\ \A i \in 1 .. Len(r.calls) : r.calls[i].args # r.results[i].args =>
          \E j \in i + 1 .. Len(r.calls) : r.results[j].approved

\* What the messages hold: the rounds so far, and their results in order.
Told(rounds, flat) ==
    /\ \A n \in 1 .. Len(rounds) : EditShown(rounds[n])
    /\ Lists(flat, rounds)

\* The round under way: arguments differ only before the position the decision
\* is about, and there the result is the pending call's.
Underway(calls, done, at, pending) ==
    /\ at <= Len(calls)
    /\ \A i \in 1 .. Len(done) : i # at /\ calls[i].args # done[i].args => i < at
    /\ at # 0 /\ at <= Len(done) => done[at].approved /\ done[at].args = pending.args

\* A checkpoint stands right before the call it is about.
CheckpointGood(ck) ==
    /\ ck.round = Len(ck.rounds) /\ ck.round < MaxRounds
    /\ ck.at = Len(ck.done) + 1 /\ ck.at <= Len(ck.calls)
    /\ Told(ck.rounds, Prior(ck))
RowsGood == \A a \in Approvals : appr[a] # None => CheckpointGood(appr[a].ckpt)

\* Approvals not yet committed are as good, and belong to one request.
NewOK(q, new) ==
    \A n \in new :
        /\ appr[n[1]] = None
        /\ CheckpointGood(n[2].ckpt)
        /\ \A p \in Requests : p # q => \A m \in req[p].new : m[1] # n[1]
NewGood == \A q \in Requests : NewOK(q, req[q].new)

\* A request's tool loop.
LoopOK(r) ==
    /\ r.round = Len(r.rounds) /\ r.round <= MaxRounds
    /\ Told(r.rounds, r.flat)
    /\ r.mode = "direct" => r.at = 0
    /\ r.pc = "llm" => r.at = 0 /\ r.done = <<>> /\ r.mode \in {"turn", "resume"}
    /\ r.pc = "tools" =>
         /\ r.round < MaxRounds
         /\ Len(r.done) < Len(r.calls)
         /\ Underway(r.calls, r.done, r.at, r.pending)
LoopGood == \A q \in Requests : LoopOK(req[q])

\* A request with a decision acts on a row that is there, and the decision is
\* about the call that the row describes.
ViaOK(r) ==
    /\ r.via # None => appr[r.via] # None
    /\ r.pc = "tools" /\ r.at # 0 =>
         /\ r.via # None
         /\ r.mode = "resume" => /\ appr[r.via].ckpt.round = r.round
                                 /\ appr[r.via].ckpt.at = r.at
                                 /\ appr[r.via].ckpt.pending.kind = r.pending.kind
ViaGood == \A q \in Requests : ViaOK(req[q])

IInv == TypeOK /\ RowsGood /\ NewGood /\ LoopGood /\ ViaGood /\ GatedCallWasDecided
----------------------------------------------------------------------------
(* Sequences: what is appended to the messages, and what a checkpoint gives *)
(* back.                                                                    *)

\* One more round lists its results after the others.
LEMMA ListsAppend ==
  ASSUME NEW flat \in Seq(Result), NEW rounds \in Seq(Round), NEW round \in Round, Lists(flat, rounds)
  PROVE  Lists(flat \o round.results, Append(rounds, round))
  <1> DEFINE more == Append(rounds, round)
             all == flat \o round.results
             last == Len(rounds) + 1
  <1>1. PICK cut \in [0 .. Len(rounds) -> 0 .. Len(flat)] :
          /\ cut[0] = 0 /\ cut[Len(rounds)] = Len(flat)
          /\ \A n \in 1 .. Len(rounds) : /\ cut[n - 1] <= cut[n]
                                         /\ rounds[n].results = SubSeq(flat, cut[n - 1] + 1, cut[n])
    BY DEF Lists
  <1>2. round.results \in Seq(Result) /\ Len(rounds) \in Nat /\ Len(flat) \in Nat
    BY DEF Round
  <1>3. Len(more) = last /\ Len(all) = Len(flat) + Len(round.results) /\ Len(round.results) \in Nat
    BY <1>2
  <1>4. more[last] = round /\ \A n \in 1 .. Len(rounds) : more[n] = rounds[n]
    OBVIOUS
  <1>5. /\ SubSeq(all, Len(flat) + 1, Len(all)) = round.results
        /\ \A i, j \in 0 .. Len(flat) : SubSeq(all, i + 1, j) = SubSeq(flat, i + 1, j)
    BY <1>2, <1>3
  <1> DEFINE wide == [n \in 0 .. last |-> IF n = last THEN Len(all) ELSE cut[n]]
  <1>6. wide \in [0 .. Len(more) -> 0 .. Len(all)]
    BY <1>2, <1>3
  <1>7. wide[0] = 0 /\ wide[last] = Len(all) /\ wide[Len(rounds)] = Len(flat)
        /\ \A n \in 0 .. Len(rounds) : wide[n] = cut[n]
    BY <1>1, <1>2
  <1> HIDE DEF wide, more, all
  <1>8. ASSUME NEW n \in 1 .. last
        PROVE  wide[n - 1] <= wide[n] /\ more[n].results = SubSeq(all, wide[n - 1] + 1, wide[n])
    <2>1. CASE n = last
      <3>1. n - 1 = Len(rounds) /\ wide[n - 1] = Len(flat) /\ wide[n] = Len(all) /\ more[n] = round
        BY <1>2, <1>4, <1>7, <2>1
      <3>2. SubSeq(all, wide[n - 1] + 1, wide[n]) = round.results
        BY <1>5, <3>1
      <3> QED BY <1>2, <1>3, <3>1, <3>2
    <2>2. CASE n # last
      <3>1. n \in 1 .. Len(rounds) /\ n - 1 \in 0 .. Len(rounds) /\ n \in 0 .. Len(rounds)
        BY <1>2, <2>2
      <3>2. cut[n - 1] \in 0 .. Len(flat) /\ cut[n] \in 0 .. Len(flat)
        BY <3>1
      <3> QED BY <1>1, <1>4, <1>5, <1>7, <3>1, <3>2
    <2> QED BY <2>1, <2>2
  <1> QED BY <1>3, <1>6, <1>7, <1>8 DEF Lists, more, all

\* An empty transcript.
LEMMA ToldNothing == Told(<<>>, <<>>)
  <1> DEFINE cut == [n \in 0 .. 0 |-> 0]
  <1>1. Len(<<>>) = 0 /\ 1 .. 0 = {}
    OBVIOUS
  <1>2. cut \in [0 .. 0 -> 0 .. 0] /\ cut[0] = 0
    OBVIOUS
  <1> HIDE DEF cut
  <1>3. \E c \in [0 .. 0 -> 0 .. 0] :
           /\ c[0] = 0 /\ c[0] = 0
           /\ \A n \in 1 .. 0 : c[n - 1] <= c[n] /\ <<>>[n].results = SubSeq(<<>>, c[n - 1] + 1, c[n])
    BY <1>1, <1>2
  <1>4. Lists(<<>>, <<>>)
    BY <1>1, <1>3, Zenon DEF Lists
  <1> QED BY <1>1, <1>4 DEF Told

\* An answered round joins the messages.
LEMMA ToldAppend ==
  ASSUME NEW flat \in Seq(Result), NEW rounds \in Seq(Round), NEW round \in Round,
         Told(rounds, flat), EditShown(round)
  PROVE  Told(Append(rounds, round), flat \o round.results)
  <1>1. Lists(flat \o round.results, Append(rounds, round))
    BY ListsAppend DEF Told
  <1>2. ASSUME NEW n \in 1 .. Len(Append(rounds, round)) PROVE EditShown(Append(rounds, round)[n])
    <2>1. CASE n = Len(rounds) + 1
      BY <2>1
    <2>2. CASE n # Len(rounds) + 1
      <3>1. n \in 1 .. Len(rounds) /\ Append(rounds, round)[n] = rounds[n]
        BY <2>2
      <3> QED BY <3>1 DEF Told
    <2> QED BY <2>1, <2>2
  <1> QED BY <1>1, <1>2 DEF Told

\* The results that a checkpoint takes back are those of the earlier rounds.
LEMMA PriorGivesBack ==
  ASSUME NEW ck, NEW flat \in Seq(Result), NEW done \in Seq(Result), NEW marker \in Result,
         marker.st = "approval_required", ck.done = done, ck.flat = flat \o done \o <<marker>>
  PROVE  Prior(ck) = flat
  <1> DEFINE all == flat \o done \o <<marker>>
  <1>1. all \in Seq(Result) /\ Len(all) = Len(flat) + Len(done) + 1 /\ all[Len(all)] = marker
    OBVIOUS
  <1>2. Len(flat) \in Nat /\ Len(done) \in Nat
    OBVIOUS
  <1>3. all # <<>>
    BY <1>1, <1>2
  <1>4. SubSeq(all, 1, Len(flat)) = flat
    OBVIOUS
  <1> HIDE DEF all
  <1>5. (IF Len(all) > Len(done) + 1 THEN Len(all) - (Len(done) + 1) ELSE 0) = Len(flat)
    BY <1>1, <1>2
  <1> QED BY <1>1, <1>3, <1>4, <1>5 DEF Prior, all
----------------------------------------------------------------------------
(* One request changes and the table does not.                             *)

\* A step that changes one request and leaves the approvals.
LEMMA RequestStep ==
  ASSUME IInv, NEW q \in Requests, NEW r \in ReqType, req' = [req EXCEPT ![q] = r], appr' = appr,
         LoopOK(r), NewOK(q, r.new), ViaOK(r),
         issued' \in [turns: 0 .. TurnBound, decisions: 0 .. DecisionBound],
         passed' \subseteq PassType, GatedCallWasDecided'
  PROVE  IInv'
  <1>1. req \in [Requests -> ReqType] /\ req'[q] = r /\ \A p \in Requests \ {q} : req'[p] = req[p]
    BY DEF IInv, TypeOK
  <1>2. TypeOK' /\ RowsGood'
    BY <1>1 DEF IInv, TypeOK, RowsGood
  <1>3. LoopGood' /\ ViaGood'
    BY <1>1 DEF IInv, LoopGood, ViaGood, ViaOK
  <1>4. NewGood'
    <2> SUFFICES ASSUME NEW p \in Requests, NEW n \in req'[p].new
                 PROVE  /\ appr[n[1]] = None
                        /\ CheckpointGood(n[2].ckpt)
                        /\ \A o \in Requests : o # p => \A m \in req'[o].new : m[1] # n[1]
      BY DEF NewGood, NewOK
    <2>1. CASE p = q
      BY <1>1, <2>1 DEF NewOK
    <2>2. CASE p # q
      <3>1. n \in req[p].new
        BY <1>1, <2>2
      <3>2. \A m \in r.new : m[1] # n[1]
        BY <2>2, <3>1 DEF NewOK
      <3> QED BY <1>1, <2>2, <3>1, <3>2 DEF IInv, NewGood, NewOK
    <2> QED BY <2>1, <2>2
  <1> QED BY <1>2, <1>3, <1>4 DEF IInv

\* A request that has not begun.
LEMMA IdleGood == IdleReq \in ReqType /\ LoopOK(IdleReq) /\ ViaOK(IdleReq) /\ \A q \in Requests : NewOK(q, IdleReq.new)
  <1>1. IdleReq \in ReqType
    BY DEF IdleReq, ReqType, NoCall, Call, Kinds, Args, ApprovalStatuses
  <1>2. LoopOK(IdleReq)
    BY ToldNothing, AgentTurnAssumption DEF IdleReq, LoopOK
  <1> QED BY <1>1, <1>2 DEF IdleReq, ViaOK, NewOK

\* A request that ends without a commit.
LEMMA EndStep ==
  ASSUME IInv, NEW q \in Requests, req' = [req EXCEPT ![q] = IdleReq], appr' = appr,
         issued' = issued, passed' \subseteq PassType, GatedCallWasDecided'
  PROVE  IInv'
  BY IdleGood, RequestStep DEF IInv, TypeOK

\* History and table unchanged: the decisions still cover the calls.
LEMMA PassedStays == ASSUME IInv, UNCHANGED <<appr, passed>> PROVE passed' \subseteq PassType /\ GatedCallWasDecided'
  BY DEF IInv, TypeOK, GatedCallWasDecided

----------------------------------------------------------------------------
(* Counters and the calls a model may ask for.                             *)

\* Turns and decisions are counted within their bounds.
LEMMA Counting ==
  ASSUME IInv, CountTurn \/ CountDecision
  PROVE  issued' \in [turns: 0 .. TurnBound, decisions: 0 .. DecisionBound]
  <1>1. /\ issued \in [turns: 0 .. TurnBound, decisions: 0 .. DecisionBound]
        /\ TurnBound \in Nat /\ DecisionBound \in Nat
        /\ issued.turns \in 0 .. TurnBound /\ issued.decisions \in 0 .. DecisionBound
    BY AgentTurnAssumption DEF IInv, TypeOK
  <1>2. CASE CountTurn
    <2>1. issued.turns + 1 \in 0 .. TurnBound
      BY <1>1, <1>2 DEF CountTurn
    <2> QED BY <1>1, <1>2, <2>1 DEF CountTurn
  <1>3. CASE CountDecision
    <2>1. issued.decisions + 1 \in 0 .. DecisionBound
      BY <1>1, <1>3 DEF CountDecision
    <2> QED BY <1>1, <1>3, <2>1 DEF CountDecision
  <1> QED BY <1>2, <1>3

\* The empty sequence.
LEMMA Empty == <<>> \in Seq(Call) /\ <<>> \in Seq(Result) /\ Len(<<>>) = 0 /\ 1 .. 0 = {}
  OBVIOUS

\* What the model asks for is a sequence of at least one call.
LEMMA CallsTyped ==
  ASSUME NEW calls \in CallLists
  PROVE  calls \in Seq(Call) /\ Len(calls) \in Nat /\ Len(calls) > 0
  <1>1. PICK n \in 1 .. MaxCalls : calls \in [1 .. n -> [kind: Kinds, args: {"asked"}]]
    BY DEF CallLists
  <1>2. n \in Nat /\ n > 0
    BY <1>1, AgentTurnAssumption
  <1>3. [kind: Kinds, args: {"asked"}] \subseteq Call
    BY DEF Call, Args
  <1>4. calls \in [1 .. n -> Call]
    BY <1>1, <1>3
  <1> QED BY <1>2, <1>4

\* A round before its first result.
LEMMA NothingUnderway ==
  ASSUME NEW calls \in Seq(Call), NEW pending PROVE Underway(calls, <<>>, 0, pending)
  BY Empty DEF Underway
----------------------------------------------------------------------------
(* Turns begin.                                                            *)

\* The three ways in which a turn starts keep the invariant.
LEMMA StartStep ==
  ASSUME IInv, NEW q \in Requests,
         StartTurn(q) \/ StartDelegated(q) \/ (\E calls \in CallLists : StartDirect(q, calls))
  PROVE  IInv'
  <1>1. issued' \in [turns: 0 .. TurnBound, decisions: 0 .. DecisionBound]
    BY Counting DEF StartTurn, StartDelegated, StartDirect
  <1>2. UNCHANGED <<appr, passed>>
    BY DEF StartTurn, StartDelegated, StartDirect
  <1>3. 0 <= MaxRounds /\ 0 < MaxRounds /\ Len(<<>>) = 0
    BY AgentTurnAssumption
  <1> SUFFICES ASSUME NEW r, req' = [req EXCEPT ![q] = r],
                      \/ r = [IdleReq EXCEPT !.pc = "llm"]
                      \/ r = [IdleReq EXCEPT !.pc = "commit"]
                      \/ \E calls \in CallLists :
                           r = [IdleReq EXCEPT !.pc = "tools", !.mode = "direct", !.calls = calls]
               PROVE  r \in ReqType /\ LoopOK(r) /\ ViaOK(r) /\ r.new = {}
    <2>1. \E r : /\ req' = [req EXCEPT ![q] = r]
                 /\ \/ r = [IdleReq EXCEPT !.pc = "llm"]
                    \/ r = [IdleReq EXCEPT !.pc = "commit"]
                    \/ \E calls \in CallLists :
                         r = [IdleReq EXCEPT !.pc = "tools", !.mode = "direct", !.calls = calls]
      BY DEF StartTurn, StartDelegated, StartDirect, Start
    <2> QED BY <1>1, <1>2, <2>1, PassedStays, RequestStep DEF NewOK
  <1>4. ASSUME NEW pc \in {"llm", "commit"}, r = [IdleReq EXCEPT !.pc = pc]
        PROVE  r \in ReqType /\ LoopOK(r) /\ ViaOK(r) /\ r.new = {}
    <2>1. r \in ReqType
      BY <1>4, IdleGood DEF ReqType
    <2>2. /\ r.pc = pc /\ r.round = 0 /\ r.rounds = <<>> /\ r.flat = <<>> /\ r.done = <<>>
          /\ r.at = 0 /\ r.mode = "turn" /\ r.via = None /\ r.new = {}
      BY <1>4 DEF IdleReq
    <2> QED BY <1>3, <2>1, <2>2, ToldNothing DEF LoopOK, ViaOK
  <1>5. ASSUME NEW calls \in CallLists, r = [IdleReq EXCEPT !.pc = "tools", !.mode = "direct", !.calls = calls]
        PROVE  r \in ReqType /\ LoopOK(r) /\ ViaOK(r) /\ r.new = {}
    <2>1. calls \in Seq(Call) /\ Len(calls) \in Nat /\ Len(calls) > 0
      BY CallsTyped
    <2>2. r \in ReqType
      BY <1>5, <2>1, IdleGood DEF ReqType
    <2>3. /\ r.pc = "tools" /\ r.round = 0 /\ r.rounds = <<>> /\ r.flat = <<>> /\ r.done = <<>>
          /\ r.at = 0 /\ r.mode = "direct" /\ r.via = None /\ r.new = {} /\ r.calls = calls
      BY <1>5 DEF IdleReq
    <2>4. Underway(r.calls, r.done, r.at, r.pending)
      BY <2>1, <2>3, NothingUnderway
    <2> QED BY <1>3, <2>1, <2>2, <2>3, <2>4, ToldNothing DEF LoopOK, ViaOK
  <1> QED BY <1>4, <1>5

\* The model's answer, or its failure, keeps the invariant.
LEMMA ReplyStep ==
  ASSUME IInv, NEW q \in Requests, LlmFail(q) \/ (\E calls \in CallLists \cup {<<>>} : Reply(q, calls))
  PROVE  IInv'
  <1>1. /\ req[q] \in ReqType /\ req[q].pc = "llm" /\ LoopOK(req[q]) /\ ViaOK(req[q]) /\ NewOK(q, req[q].new)
        /\ req[q].at = 0 /\ req[q].done = <<>> /\ req[q].round \in Nat /\ MaxRounds \in Nat
    BY AgentTurnAssumption DEF IInv, TypeOK, LoopGood, LoopOK, ViaGood, NewGood, LlmFail, Reply, ReqType
  <1>2. UNCHANGED <<appr, passed, issued>>
    BY DEF LlmFail, Reply
  <1>3. CASE LlmFail(q)
    <2>1. req' = [req EXCEPT ![q] = [req[q] EXCEPT !.pc = "commit"]]
      BY <1>3 DEF LlmFail
    <2>2. [req[q] EXCEPT !.pc = "commit"] \in ReqType
      BY <1>1 DEF ReqType
    <2>3. /\ LoopOK([req[q] EXCEPT !.pc = "commit"]) /\ ViaOK([req[q] EXCEPT !.pc = "commit"])
          /\ [req[q] EXCEPT !.pc = "commit"].new = req[q].new
      BY <1>1 DEF ReqType, LoopOK, ViaOK
    <2> QED BY <1>1, <1>2, <2>1, <2>2, <2>3, PassedStays, RequestStep DEF IInv, TypeOK
  <1>4. ASSUME NEW calls \in CallLists \cup {<<>>}, Reply(q, calls) PROVE IInv'
    <2> DEFINE over == req[q].round >= MaxRounds
               pc == IF calls = <<>> \/ over THEN "commit" ELSE "tools"
               asked == IF over THEN <<>> ELSE calls
               r == [req[q] EXCEPT !.pc = pc, !.calls = asked]
    <2>1. calls \in Seq(Call) /\ Len(calls) \in Nat /\ (calls # <<>> => Len(calls) > 0)
      BY CallsTyped, Empty
    <2>2. req' = [req EXCEPT ![q] = r]
      BY <1>4 DEF Reply
    <2>3. /\ pc \in {"tools", "commit"} /\ asked \in Seq(Call)
          /\ pc = "tools" => asked = calls /\ calls # <<>> /\ req[q].round < MaxRounds
      BY <1>1, <2>1, Empty
    <2> HIDE DEF pc, asked
    <2>4. r \in ReqType
      BY <1>1, <2>3 DEF ReqType
    <2>5. /\ r.pc = pc /\ r.calls = asked /\ r.at = 0 /\ r.done = <<>> /\ r.new = req[q].new
          /\ r.round = req[q].round /\ r.rounds = req[q].rounds /\ r.flat = req[q].flat
          /\ r.mode = req[q].mode /\ r.via = req[q].via
      BY <1>1 DEF ReqType
    <2> HIDE DEF r
    <2>6. Underway(asked, <<>>, 0, r.pending) /\ Len(<<>>) = 0
      BY <2>3, NothingUnderway
    <2>7. LoopOK(r)
      BY <1>1, <2>1, <2>3, <2>5, <2>6 DEF LoopOK
    <2>8. ViaOK(r)
      BY <1>1, <2>5 DEF ViaOK
    <2> QED BY <1>1, <1>2, <2>2, <2>4, <2>5, <2>7, <2>8, PassedStays, RequestStep DEF IInv, TypeOK
  <1> QED BY <1>3, <1>4

----------------------------------------------------------------------------
(* The executor.                                                           *)

\* What a request in the tool loop holds.
LEMMA Position ==
  ASSUME IInv, NEW q \in Requests, req[q].pc = "tools"
  PROVE  /\ req[q] \in ReqType /\ LoopOK(req[q]) /\ ViaOK(req[q]) /\ NewOK(q, req[q].new)
         /\ req[q].calls \in Seq(Call) /\ req[q].done \in Seq(Result) /\ req[q].at \in Nat
         /\ req[q].round \in Nat /\ MaxRounds \in Nat /\ req[q].pending \in Call
         /\ req[q].rounds \in Seq(Round) /\ req[q].flat \in Seq(Result)
         /\ Len(req[q].calls) \in Nat /\ Len(req[q].done) \in Nat
         /\ Index(q) \in 1 .. Len(req[q].calls) /\ Index(q) = Len(req[q].done) + 1
         /\ Active(q) \in Call /\ Active(q).args \in Args
         /\ Approved(q) \in BOOLEAN /\ (Approved(q) => req[q].at # 0)
  <1>1. req[q] \in ReqType /\ LoopOK(req[q]) /\ ViaOK(req[q]) /\ NewOK(q, req[q].new)
    BY DEF IInv, TypeOK, LoopGood, ViaGood, NewGood
  <1>2. /\ req[q].calls \in Seq(Call) /\ req[q].done \in Seq(Result) /\ req[q].at \in Nat
        /\ req[q].round \in Nat /\ MaxRounds \in Nat /\ req[q].pending \in Call
        /\ req[q].rounds \in Seq(Round) /\ req[q].flat \in Seq(Result)
    BY <1>1, AgentTurnAssumption DEF ReqType
  <1>3. Len(req[q].calls) \in Nat /\ Len(req[q].done) \in Nat /\ Len(req[q].done) < Len(req[q].calls)
    BY <1>1, <1>2 DEF LoopOK
  <1>4. Index(q) \in 1 .. Len(req[q].calls) /\ Index(q) = Len(req[q].done) + 1
    BY <1>3 DEF Index
  <1>5. req[q].calls[Index(q)] \in Call
    BY <1>2, <1>4
  <1>6. Active(q) \in Call
    BY <1>2, <1>5 DEF Active
  <1>7. Active(q).args \in Args
    BY <1>6 DEF Call
  <1>8. Approved(q) \in BOOLEAN /\ (Approved(q) => req[q].at # 0)
    BY <1>2, <1>4 DEF Approved
  <1> QED BY <1>1, <1>2, <1>3, <1>4, <1>6, <1>7, <1>8

\* One more result of the round under way.
LEMMA UnderwayAppend ==
  ASSUME NEW calls \in Seq(Call), NEW done \in Seq(Result), NEW at \in Nat, NEW pending \in Call,
         NEW res \in Result, Len(done) < Len(calls), Underway(calls, done, at, pending),
         at = Len(done) + 1 => res.approved /\ res.args = pending.args,
         at # Len(done) + 1 => res.args = calls[Len(done) + 1].args
  PROVE  Underway(calls, Append(done, res), at, pending)
  <1> DEFINE more == Append(done, res)
             last == Len(done) + 1
  <1>1. /\ Len(done) \in Nat /\ Len(more) = last /\ more[last] = res
        /\ \A i \in 1 .. Len(done) : more[i] = done[i]
    OBVIOUS
  <1> HIDE DEF more
  <1>2. ASSUME NEW i \in 1 .. Len(more), i # at, calls[i].args # more[i].args PROVE i < at
    <2>1. i # last
      BY <1>1, <1>2
    <2>2. i \in 1 .. Len(done)
      BY <1>1, <2>1
    <2> QED BY <1>1, <1>2, <2>2 DEF Underway
  <1>3. ASSUME at # 0, at <= Len(more) PROVE more[at].approved /\ more[at].args = pending.args
    <2>1. CASE at = last
      BY <1>1, <2>1
    <2>2. CASE at # last
      <3>1. at \in 1 .. Len(done)
        BY <1>1, <1>3, <2>2
      <3> QED BY <1>1, <1>3, <3>1 DEF Underway
    <2> QED BY <2>1, <2>2
  <1> QED BY <1>2, <1>3 DEF Underway, more

\* A finished round shows the arguments its calls ran with.
LEMMA RoundShown ==
  ASSUME NEW calls \in Seq(Call), NEW done \in Seq(Result), NEW at \in Nat, NEW pending \in Call,
         Len(done) = Len(calls), Underway(calls, done, at, pending), NEW answered,
         answered = IF at = 0 THEN calls ELSE [calls EXCEPT ![at] = pending]
  PROVE  /\ [calls |-> answered, results |-> done] \in Round
         /\ EditShown([calls |-> answered, results |-> done])
  <1>1. Len(calls) \in Nat /\ at <= Len(calls)
    BY DEF Underway
  <1>2. /\ answered \in Seq(Call) /\ Len(answered) = Len(calls)
        /\ at # 0 => answered[at] = pending
        /\ \A i \in 1 .. Len(calls) : i # at => answered[i] = calls[i]
    BY <1>1
  <1>3. [calls |-> answered, results |-> done] \in Round
    BY <1>2 DEF Round
  <1>4. ASSUME NEW i \in 1 .. Len(answered), answered[i].args # done[i].args
        PROVE  \E j \in i + 1 .. Len(answered) : done[j].approved
    <2>1. i # at
      BY <1>1, <1>2, <1>4 DEF Underway
    <2>2. i < at /\ at # 0 /\ at <= Len(done)
      BY <1>1, <1>2, <1>4, <2>1 DEF Underway
    <2>3. done[at].approved /\ at \in i + 1 .. Len(answered)
      BY <1>1, <1>2, <2>2 DEF Underway
    <2> QED BY <2>3
  <1> QED BY <1>2, <1>3, <1>4 DEF EditShown

\* The loop goes on with one more result.
LEMMA AfterGood ==
  ASSUME IInv, NEW q \in Requests, req[q].pc = "tools", NEW res \in Result,
         res.args = Active(q).args, res.approved = Approved(q)
  PROVE  /\ After(q, res) \in ReqType /\ LoopOK(After(q, res)) /\ ViaOK(After(q, res))
         /\ After(q, res).new = req[q].new
  <1> DEFINE r == req[q]
             done == Append(r.done, res)
             round == [calls |-> Answered(q), results |-> done]
             a == After(q, res)
  <1>1. /\ r \in ReqType /\ LoopOK(r) /\ ViaOK(r) /\ r.pc = "tools"
        /\ r.calls \in Seq(Call) /\ r.done \in Seq(Result) /\ r.at \in Nat /\ r.pending \in Call
        /\ r.rounds \in Seq(Round) /\ r.flat \in Seq(Result) /\ r.round \in Nat /\ MaxRounds \in Nat
        /\ Len(r.calls) \in Nat /\ Len(r.done) \in Nat
        /\ Index(q) = Len(r.done) + 1
    BY Position
  <1>2. /\ Len(r.done) < Len(r.calls) /\ Underway(r.calls, r.done, r.at, r.pending)
        /\ r.round = Len(r.rounds) /\ r.round < MaxRounds /\ Told(r.rounds, r.flat)
        /\ r.mode = "direct" => r.at = 0
    BY <1>1 DEF LoopOK
  <1>3. /\ r.at = Len(r.done) + 1 => res.approved /\ res.args = r.pending.args
        /\ r.at # Len(r.done) + 1 => res.args = r.calls[Len(r.done) + 1].args
    BY <1>1 DEF Approved, Active
  <1>4. Underway(r.calls, done, r.at, r.pending)
    BY <1>1, <1>2, <1>3, UnderwayAppend
  <1>5. done \in Seq(Result) /\ Len(done) = Len(r.done) + 1
    BY <1>1
  <1>6. CASE Len(done) < Len(r.calls)
    <2>1. a = [r EXCEPT !.done = done]
      BY <1>6 DEF After
    <2> HIDE DEF a, done
    <2>2. a \in ReqType
      BY <1>1, <1>5, <2>1 DEF ReqType
    <2>3. /\ a.pc = "tools" /\ a.mode = r.mode /\ a.via = r.via /\ a.round = r.round /\ a.rounds = r.rounds
          /\ a.calls = r.calls /\ a.done = done /\ a.flat = r.flat /\ a.at = r.at
          /\ a.pending = r.pending /\ a.new = r.new
      BY <1>1, <2>1 DEF ReqType
    <2>4. LoopOK(a)
      BY <1>1, <1>2, <1>4, <1>6, <2>3 DEF LoopOK
    <2>5. ViaOK(a)
      BY <1>1, <2>3 DEF ViaOK
    <2> QED BY <2>2, <2>3, <2>4, <2>5 DEF a
  <1>7. CASE ~ (Len(done) < Len(r.calls)) /\ r.mode \in {"direct", "rerun"}
    <2>1. a = [r EXCEPT !.done = done, !.pc = "commit"]
      BY <1>7 DEF After
    <2> HIDE DEF a, done
    <2>2. a \in ReqType
      BY <1>1, <1>5, <2>1 DEF ReqType
    <2>3. /\ a.pc = "commit" /\ a.mode = r.mode /\ a.via = r.via /\ a.round = r.round /\ a.rounds = r.rounds
          /\ a.flat = r.flat /\ a.at = r.at /\ a.new = r.new
      BY <1>1, <2>1 DEF ReqType
    <2>4. LoopOK(a)
      BY <1>1, <1>2, <2>3 DEF LoopOK
    <2>5. ViaOK(a)
      BY <1>1, <2>3 DEF ViaOK
    <2> QED BY <2>2, <2>3, <2>4, <2>5 DEF a
  <1>8. CASE ~ (Len(done) < Len(r.calls)) /\ r.mode \notin {"direct", "rerun"}
    <2>1. a = [r EXCEPT !.pc = "llm", !.round = r.round + 1, !.rounds = Append(r.rounds, round),
                        !.flat = r.flat \o done, !.calls = <<>>, !.done = <<>>, !.at = 0, !.pending = NoCall]
      BY <1>8, <1>1 DEF After, NextRound, ReqType
    <2>2. Len(done) = Len(r.calls)
      BY <1>1, <1>2, <1>5, <1>8
    <2>3. round \in Round /\ EditShown(round)
      BY <1>1, <1>4, <1>5, <2>2, RoundShown DEF Answered
    <2>4. Told(Append(r.rounds, round), r.flat \o round.results) /\ round.results = done
      BY <1>1, <1>2, <2>3, ToldAppend
    <2> HIDE DEF a, done, round
    <2>5. /\ Append(r.rounds, round) \in Seq(Round) /\ Len(Append(r.rounds, round)) = Len(r.rounds) + 1
          /\ r.flat \o done \in Seq(Result) /\ r.round + 1 \in Nat /\ NoCall \in Call
      BY <1>1, <1>5, <2>3 DEF NoCall, Call, Kinds, Args
    <2>6. a \in ReqType
      BY <1>1, <2>1, <2>5, Empty DEF ReqType
    <2>7. /\ a.pc = "llm" /\ a.mode = r.mode /\ a.via = r.via /\ a.round = r.round + 1
          /\ a.rounds = Append(r.rounds, round) /\ a.done = <<>> /\ a.flat = r.flat \o done /\ a.at = 0
          /\ a.new = r.new
      BY <1>1, <2>1 DEF ReqType
    <2>8. LoopOK(a)
      <3>1. Told(a.rounds, a.flat)
        BY <2>4, <2>7
      <3>2. a.round = Len(a.rounds) /\ a.round <= MaxRounds
        BY <1>1, <1>2, <2>5, <2>7
      <3>3. a.mode \in {"turn", "resume"}
        BY <1>1, <1>8, <2>7 DEF ReqType
      <3> QED BY <2>7, <3>1, <3>2, <3>3 DEF LoopOK
    <2>9. ViaOK(a)
      BY <1>1, <2>7 DEF ViaOK
    <2> QED BY <2>6, <2>7, <2>8, <2>9 DEF a
  <1> QED BY <1>6, <1>7, <1>8

\* What passes the gate is the call a decision describes.
LEMMA PassGood ==
  ASSUME IInv, NEW q \in Requests, req[q].pc = "tools", Pass(q), appr' = appr
  PROVE  passed' \subseteq PassType /\ GatedCallWasDecided'
  <1> DEFINE p == [via |-> req[q].via, mode |-> req[q].mode, round |-> req[q].round, at |-> Index(q)]
  <1>1. passed \subseteq PassType /\ GatedCallWasDecided
    BY DEF IInv, TypeOK
  <1>2. CASE MayRun(q) /\ Active(q).kind = "gated"
    <2>1. passed' = passed \cup {p}
      BY <1>2 DEF Pass
    <2>2. Approved(q) /\ req[q].at # 0 /\ ViaOK(req[q]) /\ req[q] \in ReqType /\ Index(q) \in Nat
      BY <1>2, Position DEF MayRun
    <2>3. p \in PassType
      BY <2>2 DEF PassType, ReqType
    <2>4. /\ p.via # None /\ appr[p.via] # None
          /\ p.mode = "resume" => /\ appr[p.via].ckpt.round = p.round
                                  /\ appr[p.via].ckpt.at = p.at
                                  /\ appr[p.via].ckpt.pending.kind = "gated"
      BY <1>2, <2>2 DEF ViaOK, Approved, Active
    <2> HIDE DEF p
    <2>5. GatedCallWasDecided'
      BY <1>1, <2>1, <2>4 DEF GatedCallWasDecided
    <2> QED BY <1>1, <2>1, <2>3, <2>5
  <1>3. CASE ~ (MayRun(q) /\ Active(q).kind = "gated")
    <2>1. passed' = passed
      BY <1>3 DEF Pass
    <2> QED BY <1>1, <2>1 DEF GatedCallWasDecided
  <1> QED BY <1>2, <1>3

\* ToolOk keeps the invariant.
LEMMA ToolOkStep == ASSUME IInv, NEW q \in Requests, ToolOk(q) PROVE IInv'
  <1> DEFINE res == ResultOf(q, "ok")
  <1>1. req[q].pc = "tools" /\ Pass(q) /\ UNCHANGED <<appr, issued>> /\ req' = [req EXCEPT ![q] = After(q, res)]
    BY DEF ToolOk
  <1>2. res \in Result /\ res.args = Active(q).args /\ res.approved = Approved(q)
    BY <1>1, Position DEF ResultOf, Result
  <1> HIDE DEF res
  <1>3. /\ After(q, res) \in ReqType /\ LoopOK(After(q, res)) /\ ViaOK(After(q, res))
        /\ After(q, res).new = req[q].new
    BY <1>1, <1>2, AfterGood
  <1>4. NewOK(q, req[q].new) /\ passed' \subseteq PassType /\ GatedCallWasDecided'
    BY <1>1, Position, PassGood
  <1> QED BY <1>1, <1>3, <1>4, RequestStep DEF IInv, TypeOK

\* ToolFail keeps the invariant.
LEMMA ToolFailStep == ASSUME IInv, NEW q \in Requests, ToolFail(q) PROVE IInv'
  <1> DEFINE res == ResultOf(q, "failed")
  <1>1. /\ req[q].pc = "tools" /\ Pass(q) /\ UNCHANGED <<appr, issued>>
        /\ req' = [req EXCEPT ![q] = IdleReq] \/ req' = [req EXCEPT ![q] = After(q, res)]
    BY DEF ToolFail
  <1>2. res \in Result /\ res.args = Active(q).args /\ res.approved = Approved(q)
    BY <1>1, Position DEF ResultOf, Result
  <1> HIDE DEF res
  <1>3. /\ After(q, res) \in ReqType /\ LoopOK(After(q, res)) /\ ViaOK(After(q, res))
        /\ After(q, res).new = req[q].new
    BY <1>1, <1>2, AfterGood
  <1>4. NewOK(q, req[q].new) /\ passed' \subseteq PassType /\ GatedCallWasDecided'
    BY <1>1, Position, PassGood
  <1>5. CASE req' = [req EXCEPT ![q] = IdleReq]
    BY <1>1, <1>4, <1>5, EndStep
  <1>6. CASE req' = [req EXCEPT ![q] = After(q, res)]
    BY <1>1, <1>3, <1>4, <1>6, RequestStep DEF IInv, TypeOK
  <1> QED BY <1>1, <1>5, <1>6

----------------------------------------------------------------------------
(* A call that needs approval.                                             *)

\* The checkpoint that an interruption writes is good.
LEMMA CheckpointMade ==
  ASSUME IInv, NEW q \in Requests, req[q].pc = "tools"
  PROVE  CheckpointOf(q) \in Checkpoint /\ CheckpointGood(CheckpointOf(q))
  <1> DEFINE r == req[q]
             ck == CheckpointOf(q)
  <1>1. /\ LoopOK(r) /\ r.calls \in Seq(Call) /\ r.done \in Seq(Result) /\ r.rounds \in Seq(Round)
        /\ r.flat \in Seq(Result) /\ r.round \in Nat /\ Active(q) \in Call /\ Active(q).args \in Args
        /\ Index(q) \in 1 .. Len(r.calls) /\ Index(q) = Len(r.done) + 1 /\ Len(r.calls) \in Nat
        /\ r.pc = "tools"
    BY Position
  <1>2. Marker(q) \in Result /\ Marker(q).st = "approval_required"
    BY <1>1 DEF Marker, Result
  <1>3. /\ ck.done = r.done /\ ck.flat = r.flat \o r.done \o <<Marker(q)>> /\ ck.rounds = r.rounds
        /\ ck.round = r.round /\ ck.calls = r.calls /\ ck.at = Index(q)
    BY DEF CheckpointOf
  <1>4. r.flat \o r.done \o <<Marker(q)>> \in Seq(Result)
    BY <1>1, <1>2
  <1>5. ck \in Checkpoint
    BY <1>1, <1>4 DEF CheckpointOf, Checkpoint
  <1> HIDE DEF ck
  <1>6. Prior(ck) = r.flat
    BY <1>1, <1>2, <1>3, PriorGivesBack
  <1>7. CheckpointGood(ck)
    BY <1>1, <1>3, <1>6 DEF CheckpointGood, LoopOK
  <1> QED BY <1>5, <1>7 DEF ck

\* The approvals that a request creates do not matter to its loop.
LEMMA WithNew ==
  ASSUME NEW r \in ReqType, LoopOK(r), ViaOK(r), NEW new \in SUBSET (Approvals \X ApprovalRecord)
  PROVE  /\ [r EXCEPT !.new = new] \in ReqType
         /\ LoopOK([r EXCEPT !.new = new]) /\ ViaOK([r EXCEPT !.new = new])
         /\ [r EXCEPT !.new = new].new = new
  <1> DEFINE s == [r EXCEPT !.new = new]
  <1>1. s \in ReqType
    BY DEF ReqType
  <1>2. /\ s.pc = r.pc /\ s.mode = r.mode /\ s.via = r.via /\ s.round = r.round /\ s.rounds = r.rounds
        /\ s.calls = r.calls /\ s.done = r.done /\ s.flat = r.flat /\ s.at = r.at
        /\ s.pending = r.pending /\ s.new = new
    BY DEF ReqType
  <1> HIDE DEF s
  <1>3. LoopOK(s) /\ ViaOK(s)
    BY <1>2 DEF LoopOK, ViaOK
  <1> QED BY <1>1, <1>2, <1>3 DEF s

\* NeedApproval keeps the invariant.
LEMMA NeedApprovalStep == ASSUME IInv, NEW q \in Requests, NEW a \in Approvals, NeedApproval(q, a) PROVE IInv'
  <1>1. req[q].pc = "tools" /\ Pass(q) /\ UNCHANGED <<appr, issued>> /\ a \in FreshApproval
    BY DEF NeedApproval
  <1>2. /\ req[q] \in ReqType /\ LoopOK(req[q]) /\ ViaOK(req[q]) /\ NewOK(q, req[q].new)
        /\ req[q].new \in SUBSET (Approvals \X ApprovalRecord)
    BY <1>1, Position DEF ReqType
  <1>3. passed' \subseteq PassType /\ GatedCallWasDecided'
    BY <1>1, PassGood
  <1>4. ASSUME NEW mode \in {"agent_tool_loop", "rerun_tool"}
        PROVE  /\ NewApproval(q, mode) \in ApprovalRecord
               /\ NewOK(q, {<<a, NewApproval(q, mode)>>})
               /\ NewOK(q, req[q].new \cup {<<a, NewApproval(q, mode)>>})
    <2>1. NewApproval(q, mode) \in ApprovalRecord /\ CheckpointGood(NewApproval(q, mode).ckpt)
      BY <1>1, CheckpointMade DEF NewApproval, ApprovalRecord, ApprovalStatuses
    <2>2. appr[a] = None /\ \A p \in Requests : \A m \in req[p].new : m[1] # a
      BY <1>1 DEF FreshApproval
    <2>3. NewOK(q, {<<a, NewApproval(q, mode)>>})
      BY <2>1, <2>2 DEF NewOK
    <2> QED BY <1>2, <2>1, <2>3 DEF NewOK
  <1>5. CASE req[q].mode = "rerun"
    <2>1. req' = [req EXCEPT ![q] = IdleReq]
      BY <1>5 DEF NeedApproval
    <2> QED BY <1>1, <1>3, <2>1, EndStep
  <1>6. CASE req[q].mode = "direct"
    <2> DEFINE f == After(q, Marker(q))
               new == req[q].new \cup {<<a, NewApproval(q, "rerun_tool")>>}
    <2>1. req[q].at = 0 /\ Approved(q) = FALSE
      BY <1>1, <1>2, <1>6, Position DEF LoopOK
    <2>2. Marker(q) \in Result /\ Marker(q).args = Active(q).args /\ Marker(q).approved = Approved(q)
      BY <1>1, <2>1, Position DEF Marker, Result
    <2>3. f \in ReqType /\ LoopOK(f) /\ ViaOK(f) /\ f.new = req[q].new
      BY <1>1, <2>2, AfterGood
    <2>4. req' = [req EXCEPT ![q] = [f EXCEPT !.new = new]]
      BY <1>6, <2>3 DEF NeedApproval
    <2>5. new \in SUBSET (Approvals \X ApprovalRecord) /\ NewOK(q, new)
      BY <1>2, <1>4
    <2> HIDE DEF f, new
    <2>6. /\ [f EXCEPT !.new = new] \in ReqType
          /\ LoopOK([f EXCEPT !.new = new]) /\ ViaOK([f EXCEPT !.new = new])
          /\ [f EXCEPT !.new = new].new = new
      BY <2>3, <2>5, WithNew
    <2> QED BY <1>1, <1>3, <2>4, <2>5, <2>6, RequestStep DEF IInv, TypeOK
  <1>7. CASE req[q].mode \notin {"rerun", "direct"}
    <2> DEFINE f == [req[q] EXCEPT !.pc = "commit"]
               new == {<<a, NewApproval(q, "agent_tool_loop")>>}
    <2>1. req' = [req EXCEPT ![q] = [f EXCEPT !.new = new]]
      BY <1>7, <1>2 DEF NeedApproval, ReqType
    <2>2. f \in ReqType
      BY <1>2 DEF ReqType
    <2>3. LoopOK(f) /\ ViaOK(f)
      BY <1>2 DEF ReqType, LoopOK, ViaOK
    <2>4. new \in SUBSET (Approvals \X ApprovalRecord) /\ NewOK(q, new)
      BY <1>4
    <2> HIDE DEF f, new
    <2>5. /\ [f EXCEPT !.new = new] \in ReqType
          /\ LoopOK([f EXCEPT !.new = new]) /\ ViaOK([f EXCEPT !.new = new])
          /\ [f EXCEPT !.new = new].new = new
      BY <2>2, <2>3, <2>4, WithNew
    <2> QED BY <1>1, <1>3, <2>1, <2>4, <2>5, RequestStep DEF IInv, TypeOK
  <1> QED BY <1>5, <1>6, <1>7

----------------------------------------------------------------------------
(* Decisions.                                                              *)

\* The results before the interrupted round.
LEMMA PriorTyped == ASSUME NEW ck \in Checkpoint PROVE Prior(ck) \in Seq(Result)
  <1>1. ck.flat \in Seq(Result) /\ ck.done \in Seq(Result)
    BY DEF Checkpoint
  <1>2. Len(ck.flat) \in Nat /\ Len(ck.done) \in Nat
    BY <1>1
  <1>3. ASSUME NEW kept \in Nat
        PROVE  (IF Len(ck.flat) > kept THEN Len(ck.flat) - kept ELSE 0) \in 0 .. Len(ck.flat)
    BY <1>2
  <1>4. ASSUME NEW m \in 0 .. Len(ck.flat) PROVE SubSeq(ck.flat, 1, m) \in Seq(Result)
    BY <1>1, <1>2
  <1> DEFINE marker == IF ck.flat # <<>> /\ ck.flat[Len(ck.flat)].st = "approval_required" THEN 1 ELSE 0
             kept == Len(ck.done) + marker
  <1>5. marker = 0 \/ marker = 1
    OBVIOUS
  <1> HIDE DEF marker
  <1>6. kept \in Nat
    BY <1>2, <1>5
  <1>7. Prior(ck) = SubSeq(ck.flat, 1, IF Len(ck.flat) > kept THEN Len(ck.flat) - kept ELSE 0)
    BY DEF Prior, marker
  <1> HIDE DEF kept
  <1> QED BY <1>3, <1>4, <1>6, <1>7

\* What a row of the approvals table holds.
LEMMA RowTyped ==
  ASSUME IInv, NEW a \in Approvals, appr[a] # None
  PROVE  /\ appr[a] \in ApprovalRecord /\ appr[a].ckpt \in Checkpoint /\ CheckpointGood(appr[a].ckpt)
         /\ appr[a].status \in ApprovalStatuses /\ appr[a].edited \in BOOLEAN
         /\ appr[a].ckpt.pending \in Call /\ a # None
  <1>1. appr[a] \in ApprovalRecord /\ CheckpointGood(appr[a].ckpt) /\ a # None
    BY NoneAssumption DEF IInv, TypeOK, RowsGood
  <1>2. appr[a].ckpt \in Checkpoint /\ appr[a].status \in ApprovalStatuses /\ appr[a].edited \in BOOLEAN
    BY <1>1 DEF ApprovalRecord
  <1> QED BY <1>1, <1>2 DEF Checkpoint

\* A resumed turn stands where its checkpoint was taken.
LEMMA ResumingGood ==
  ASSUME IInv, NEW a \in Approvals, appr[a] # None, NEW edit \in BOOLEAN
  PROVE  /\ Resuming(a, edit) \in ReqType /\ LoopOK(Resuming(a, edit)) /\ ViaOK(Resuming(a, edit))
         /\ Resuming(a, edit).new = {}
  <1> DEFINE ck == appr[a].ckpt
             args == IF edit \/ appr[a].edited THEN "edited" ELSE ck.pending.args
             pending == [ck.pending EXCEPT !.args = args]
             r == Resuming(a, edit)
  <1>1. /\ ck \in Checkpoint /\ CheckpointGood(ck) /\ appr[a].status \in ApprovalStatuses
        /\ ck.pending \in Call /\ a # None
    BY RowTyped
  <1>2. args \in Args
    BY <1>1 DEF Call, Args
  <1> HIDE DEF args
  <1>3. pending \in Call /\ pending.kind = ck.pending.kind
    BY <1>1, <1>2 DEF Call
  <1> HIDE DEF pending
  <1>4. r = [IdleReq EXCEPT !.pc = "tools", !.mode = "resume", !.via = a,
                        !.seen = appr[a].status, !.edit = edit,
                        !.round = ck.round, !.rounds = ck.rounds, !.calls = ck.calls,
                        !.done = ck.done, !.flat = Prior(ck), !.at = ck.at,
                        !.pending = pending]
    BY DEF Resuming, pending, args
  <1> HIDE DEF r
  <1>5. /\ r.pc = "tools" /\ r.mode = "resume" /\ r.via = a /\ r.seen = appr[a].status /\ r.edit = edit
        /\ r.round = ck.round /\ r.rounds = ck.rounds /\ r.calls = ck.calls /\ r.done = ck.done
        /\ r.flat = Prior(ck) /\ r.at = ck.at /\ r.pending = pending /\ r.new = {}
    BY <1>4 DEF IdleReq
  <1>6. Prior(ck) \in Seq(Result)
    BY <1>1, PriorTyped
  <1>7. r \in ReqType
    BY <1>1, <1>3, <1>4, <1>6, IdleGood DEF ReqType, Checkpoint
  <1>8. ck.done \in Seq(Result) /\ ck.calls \in Seq(Call) /\ Len(ck.done) \in Nat /\ Len(ck.calls) \in Nat
    BY <1>1 DEF Checkpoint
  <1>9. Len(ck.done) < Len(ck.calls) /\ Underway(ck.calls, ck.done, ck.at, pending)
    <2>1. ck.at = Len(ck.done) + 1 /\ ck.at <= Len(ck.calls)
      BY <1>1 DEF CheckpointGood
    <2>2. ASSUME NEW n \in Nat PROVE ~ (n + 1 <= n) /\ \A i \in 1 .. n : i < n + 1
      OBVIOUS
    <2>3. ~ (ck.at <= Len(ck.done)) /\ \A i \in 1 .. Len(ck.done) : i < ck.at
      BY <1>8, <2>1, <2>2
    <2>4. Len(ck.done) < Len(ck.calls)
      BY <1>8, <2>1
    <2> QED BY <2>1, <2>3, <2>4 DEF Underway
  <1>10. ck.round = Len(ck.rounds) /\ ck.round < MaxRounds /\ ck.round <= MaxRounds /\ Told(ck.rounds, Prior(ck))
    <2>1. ck.round \in Nat
      BY <1>1 DEF Checkpoint
    <2> QED BY <1>1, <2>1, AgentTurnAssumption DEF CheckpointGood
  <1>11. LoopOK(r)
    BY <1>5, <1>9, <1>10 DEF LoopOK
  <1>12. ViaOK(r)
    BY <1>1, <1>3, <1>5 DEF ViaOK
  <1> QED BY <1>5, <1>7, <1>11, <1>12 DEF r

\* A request that starts under a decision.
LEMMA StartDecided ==
  ASSUME IInv, NEW q \in Requests, NEW r \in ReqType, LoopOK(r), ViaOK(r), r.new = {},
         Start(q, r), CountDecision, UNCHANGED <<appr, passed>>
  PROVE  IInv'
  <1>1. req' = [req EXCEPT ![q] = r] /\ appr' = appr
    BY DEF Start
  <1>2. NewOK(q, r.new)
    BY DEF NewOK
  <1>3. issued' \in [turns: 0 .. TurnBound, decisions: 0 .. DecisionBound]
    BY Counting
  <1>4. passed' \subseteq PassType /\ GatedCallWasDecided'
    BY PassedStays
  <1> QED BY <1>1, <1>2, <1>3, <1>4, RequestStep

\* Resume keeps the invariant.
LEMMA ResumeStep ==
  ASSUME IInv, NEW q \in Requests, NEW a \in Approvals, NEW edit \in BOOLEAN, Resume(q, a, edit)
  PROVE  IInv'
  BY ResumingGood, StartDecided DEF Resume, Resumable

\* ApproveAndRun keeps the invariant.
LEMMA ApproveAndRunStep ==
  ASSUME IInv, NEW q \in Requests, NEW a \in Approvals, ApproveAndRun(q, a)
  PROVE  IInv'
  <1>1. appr[a] # None /\ CountDecision /\ UNCHANGED <<appr, passed>>
    BY DEF ApproveAndRun
  <1>2. CASE appr[a].mode = "agent_tool_loop"
    <2>1. Start(q, Resuming(a, FALSE))
      BY <1>2 DEF ApproveAndRun
    <2>2. /\ Resuming(a, FALSE) \in ReqType /\ LoopOK(Resuming(a, FALSE)) /\ ViaOK(Resuming(a, FALSE))
          /\ Resuming(a, FALSE).new = {}
      BY <1>1, ResumingGood
    <2> QED BY <1>1, <2>1, <2>2, StartDecided
  <1>3. CASE appr[a].mode # "agent_tool_loop"
    <2> DEFINE c == appr[a].ckpt.pending
               args == IF appr[a].edited THEN "edited" ELSE c.args
               pending == [c EXCEPT !.args = args]
               r == [IdleReq EXCEPT
                        !.pc = "tools", !.mode = "rerun", !.via = a,
                        !.seen = appr[a].status, !.calls = <<c>>, !.at = 1,
                        !.pending = pending]
    <2>1. c \in Call /\ a # None /\ appr[a].status \in ApprovalStatuses
      BY <1>1, RowTyped
    <2>2. Start(q, r)
      BY <1>3, <2>1 DEF ApproveAndRun, Call
    <2>3. args \in Args
      BY <2>1 DEF Call, Args
    <2> HIDE DEF args
    <2>4. pending \in Call
      BY <2>1, <2>3 DEF Call
    <2> HIDE DEF pending, c
    <2>5. <<c>> \in Seq(Call) /\ Len(<<c>>) = 1
      BY <2>1
    <2>6. r \in ReqType
      BY <2>1, <2>4, <2>5, IdleGood DEF ReqType
    <2>7. /\ r.pc = "tools" /\ r.mode = "rerun" /\ r.via = a /\ r.round = 0 /\ r.rounds = <<>>
          /\ r.calls = <<c>> /\ r.done = <<>> /\ r.flat = <<>> /\ r.at = 1 /\ r.new = {}
      BY DEF IdleReq
    <2> HIDE DEF r
    <2>8. Underway(r.calls, r.done, r.at, r.pending)
      BY <2>5, <2>7, Empty DEF Underway
    <2>9. LoopOK(r)
      BY <2>5, <2>7, <2>8, ToldNothing, Empty, AgentTurnAssumption DEF LoopOK
    <2>10. ViaOK(r)
      BY <1>1, <2>1, <2>7 DEF ViaOK
    <2> QED BY <1>1, <2>2, <2>6, <2>7, <2>9, <2>10, StartDecided
  <1> QED BY <1>2, <1>3

----------------------------------------------------------------------------
(* The table changes.  No step takes a row away or touches its checkpoint.  *)

\* A step that changes the table and keeps the checkpoints.
LEMMA TableStep ==
  ASSUME IInv, appr' \in [Approvals -> ApprovalRecord \cup {None}], passed' = passed,
         \A a \in Approvals : appr[a] # None => appr'[a] # None /\ appr'[a].ckpt = appr[a].ckpt,
         RowsGood', NewGood', req' \in [Requests -> ReqType],
         \A q \in Requests : req'[q] = req[q] \/ req'[q] = IdleReq,
         issued' \in [turns: 0 .. TurnBound, decisions: 0 .. DecisionBound]
  PROVE  IInv'
  <1>1. TypeOK'
    BY DEF IInv, TypeOK
  <1>2. LoopGood'
    BY IdleGood DEF IInv, LoopGood
  <1>3. ASSUME NEW q \in Requests PROVE ViaOK(req[q])'
    <2>1. CASE req'[q] = IdleReq
      BY <2>1 DEF ViaOK, IdleReq
    <2>2. CASE req'[q] = req[q]
      <3>1. req[q].via \in Approvals \cup {None} /\ ViaOK(req[q])
        BY DEF IInv, TypeOK, ReqType, ViaGood
      <3> QED BY <2>2, <3>1 DEF ViaOK
    <2> QED BY <2>1, <2>2
  <1>4. GatedCallWasDecided'
    <2>1. \A p \in passed : p.via \in Approvals \cup {None}
      BY DEF IInv, TypeOK, PassType
    <2> QED BY <2>1 DEF IInv, GatedCallWasDecided
  <1> QED BY <1>1, <1>2, <1>3, <1>4 DEF IInv, ViaGood

\* A decision that changes only the status of one row.
LEMMA StatusStep ==
  ASSUME IInv, NEW a \in Approvals, appr[a] # None, NEW row \in ApprovalRecord, row.ckpt = appr[a].ckpt,
         appr' = [appr EXCEPT ![a] = row], UNCHANGED <<req, passed>>, CountDecision
  PROVE  IInv'
  <1>1. /\ appr \in [Approvals -> ApprovalRecord \cup {None}] /\ req \in [Requests -> ReqType]
        /\ None \notin ApprovalRecord
    BY NoneAssumption DEF IInv, TypeOK
  <1>2. /\ appr' \in [Approvals -> ApprovalRecord \cup {None}]
        /\ \A b \in Approvals : appr[b] = None <=> appr'[b] = None
        /\ \A b \in Approvals : appr[b] # None => appr'[b].ckpt = appr[b].ckpt
    BY <1>1
  <1>3. RowsGood'
    BY <1>2 DEF IInv, RowsGood
  <1>4. NewGood'
    <2>1. \A q \in Requests : \A n \in req[q].new : n[1] \in Approvals
      BY <1>1 DEF ReqType
    <2> QED BY <1>2, <2>1 DEF IInv, NewGood, NewOK
  <1>5. issued' \in [turns: 0 .. TurnBound, decisions: 0 .. DecisionBound]
    BY Counting
  <1> QED BY <1>1, <1>2, <1>3, <1>4, <1>5, TableStep

\* Settle keeps the invariant.
LEMMA SettleStep == ASSUME IInv, NEW a \in Approvals, NEW d \in {"respond", "reject"}, Settle(a, d) PROVE IInv'
  <1> DEFINE row == [appr[a] EXCEPT !.status = SettledStatus(d)]
  <1>1. appr[a] # None /\ CountDecision /\ UNCHANGED <<req, passed>>
    BY DEF Settle, Resumable
  <1>2. appr' = [appr EXCEPT ![a] = row]
    BY DEF Settle
  <1>3. row \in ApprovalRecord /\ row.ckpt = appr[a].ckpt
    BY <1>1, RowTyped DEF ApprovalRecord, ApprovalStatuses, SettledStatus
  <1> HIDE DEF row
  <1> QED BY <1>1, <1>2, <1>3, StatusStep

\* Resolve keeps the invariant.
LEMMA ResolveStep ==
  ASSUME IInv, NEW a \in Approvals, NEW st \in {"approved", "rejected", "cancelled"}, NEW edit \in BOOLEAN,
         Resolve(a, st, edit)
  PROVE  IInv'
  <1> DEFINE edited == appr[a].edited \/ edit
             row == [appr[a] EXCEPT !.status = st, !.edited = edited]
  <1>1. appr[a] # None /\ CountDecision /\ UNCHANGED <<req, passed>>
    BY DEF Resolve
  <1>2. appr[a] \in ApprovalRecord /\ edited \in BOOLEAN
    BY <1>1, RowTyped
  <1>3. appr' = [appr EXCEPT ![a] = row]
    BY <1>2 DEF Resolve, ApprovalRecord
  <1> HIDE DEF edited
  <1>4. row \in ApprovalRecord /\ row.ckpt = appr[a].ckpt
    BY <1>2 DEF ApprovalRecord, ApprovalStatuses
  <1> HIDE DEF row
  <1> QED BY <1>1, <1>3, <1>4, StatusStep

\* Commit keeps the invariant.
LEMMA CommitStep == ASSUME IInv, NEW q \in Requests, Commit(q) PROVE IInv'
  <1>1. /\ appr \in [Approvals -> ApprovalRecord \cup {None}] /\ req \in [Requests -> ReqType]
        /\ req[q] \in ReqType /\ None \notin ApprovalRecord
        /\ RowsGood /\ NewGood /\ ViaOK(req[q])
    BY NoneAssumption DEF IInv, TypeOK, ViaGood
  <1>2. /\ req' \in [Requests -> ReqType] /\ req'[q] = IdleReq
        /\ \A p \in Requests \ {q} : req'[p] = req[p]
        /\ UNCHANGED <<passed, issued>>
    BY <1>1, IdleGood DEF Commit
  <1> DEFINE made(a) == \E n \in req[q].new : n[1] = a
  <1>3. ASSUME NEW a \in Approvals
        PROVE  /\ made(a) => \E n \in req[q].new : n[1] = a /\ appr'[a] = n[2]
               /\ ~ made(a) /\ a # req[q].via => appr'[a] = appr[a]
    BY DEF Commit
  <1>4. ASSUME NEW a \in Approvals, ~ made(a), a = req[q].via
        PROVE  appr'[a] \in ApprovalRecord /\ appr'[a].ckpt = appr[a].ckpt /\ appr[a] # None
    <2> DEFINE st == IF req[q].seen = "approved" THEN appr[a].status ELSE "approved"
               edited == appr[a].edited \/ req[q].edit
    <2>1. appr[a] # None
      BY <1>1, <1>4, NoneAssumption DEF ViaOK
    <2>2. /\ appr[a] \in ApprovalRecord /\ appr[a].status \in ApprovalStatuses /\ appr[a].edited \in BOOLEAN
          /\ req[q].edit \in BOOLEAN
      BY <1>1, <2>1, RowTyped DEF ReqType
    <2>3. appr'[a] = [appr[a] EXCEPT !.status = st, !.edited = edited]
      BY <1>4, <2>2 DEF Commit, ApprovalRecord
    <2>4. st \in ApprovalStatuses /\ edited \in BOOLEAN
      BY <2>2 DEF ApprovalStatuses
    <2> HIDE DEF st, edited
    <2> QED BY <2>1, <2>2, <2>3, <2>4 DEF ApprovalRecord
  <1>5. ASSUME NEW n \in req[q].new
        PROVE  n[1] \in Approvals /\ n[2] \in ApprovalRecord /\ appr[n[1]] = None /\ CheckpointGood(n[2].ckpt)
    BY <1>1 DEF NewGood, NewOK, ReqType
  <1> HIDE DEF made
  <1>6. ASSUME NEW a \in Approvals
        PROVE  /\ appr'[a] \in ApprovalRecord \cup {None}
               /\ appr[a] # None => appr'[a] # None /\ appr'[a].ckpt = appr[a].ckpt
               /\ appr'[a] # None => CheckpointGood(appr'[a].ckpt)
    <2>1. CASE made(a)
      <3>1. PICK n \in req[q].new : n[1] = a /\ appr'[a] = n[2]
        BY <1>3, <2>1
      <3> QED BY <1>5, <3>1
    <2>2. CASE ~ made(a) /\ a = req[q].via
      BY <1>1, <1>4, <2>2 DEF RowsGood
    <2>3. CASE ~ made(a) /\ a # req[q].via
      <3>1. appr'[a] = appr[a]
        BY <1>3, <2>3
      <3> QED BY <1>1, <3>1 DEF RowsGood
    <2> QED BY <2>1, <2>2, <2>3
  <1>7. appr' \in [Approvals -> ApprovalRecord \cup {None}]
    <2>1. appr' = [a \in Approvals |-> appr'[a]]
      BY Zenon DEF Commit
    <2> QED BY <1>6, <2>1
  <1>8. RowsGood'
    BY <1>6 DEF RowsGood
  <1>9. NewGood'
    <2> SUFFICES ASSUME NEW p \in Requests, NEW n \in req'[p].new
                 PROVE  /\ appr'[n[1]] = None
                        /\ CheckpointGood(n[2].ckpt)
                        /\ \A o \in Requests : o # p => \A m \in req'[o].new : m[1] # n[1]
      BY DEF NewGood, NewOK
    <2>1. p # q
      BY <1>2 DEF IdleReq
    <2>2. n \in req[p].new /\ n[1] \in Approvals
      <3>1. req'[p] = req[p]
        BY <1>2, <2>1
      <3>2. req[p].new \subseteq Approvals \X ApprovalRecord
        BY <1>1 DEF ReqType
      <3> QED BY <3>1, <3>2
    <2>3. /\ appr[n[1]] = None /\ CheckpointGood(n[2].ckpt)
          /\ \A o \in Requests : o # p => \A m \in req[o].new : m[1] # n[1]
      BY <1>1, <2>2 DEF NewGood, NewOK
    <2>4. ~ made(n[1])
      BY <2>1, <2>3 DEF made
    <2>5. n[1] # req[q].via
      BY <1>4, <2>2, <2>3, <2>4
    <2>6. appr'[n[1]] = None
      BY <1>3, <2>2, <2>3, <2>4, <2>5
    <2>7. \A o \in Requests : \A m \in req'[o].new : m \in req[o].new
      BY <1>2 DEF IdleReq
    <2> QED BY <2>3, <2>6, <2>7
  <1> QED BY <1>2, <1>6, <1>7, <1>8, <1>9, TableStep DEF IInv, TypeOK

----------------------------------------------------------------------------
\* The invariant holds initially.
LEMMA InitIInv == ASSUME Init PROVE IInv
  <1>1. TypeOK
    BY IdleGood, AgentTurnAssumption DEF Init, TypeOK
  <1>2. \A q \in Requests : req[q] = IdleReq
    BY DEF Init
  <1>3. RowsGood /\ NewGood /\ LoopGood /\ ViaGood
    BY <1>2, IdleGood DEF Init, RowsGood, NewGood, LoopGood, ViaGood
  <1> QED BY <1>1, <1>3 DEF IInv, Init, GatedCallWasDecided

\* Every step keeps the invariant.
LEMMA NextIInv == ASSUME IInv, [Next]_vars PROVE IInv'
  <1>1. CASE UNCHANGED vars
    BY <1>1 DEF vars, IInv, TypeOK, RowsGood, NewGood, NewOK, LoopGood, ViaGood, ViaOK, GatedCallWasDecided
  <1>2. ASSUME NEW q \in Requests, TurnStep(q) PROVE IInv'
    <2>1. CASE Crash(q)
      BY <2>1, PassedStays, EndStep DEF Crash
    <2> QED BY <1>2, <2>1, StartStep, ReplyStep, ToolOkStep, ToolFailStep, NeedApprovalStep, CommitStep
            DEF TurnStep
  <1>3. ASSUME NEW a \in Approvals, DecisionStep(a) PROVE IInv'
    BY <1>3, ResumeStep, ApproveAndRunStep, SettleStep, ResolveStep DEF DecisionStep
  <1> QED BY <1>1, <1>2, <1>3 DEF Next

\* The invariant holds throughout.
LEMMA Inductive == Spec => []IInv
  BY InitIInv, NextIInv, PTL DEF Spec

----------------------------------------------------------------------------
\* Every request and every row of the approvals table stays well formed, with
\* any number of turns, approvals and decisions interleaved.
THEOREM AgentTypeCorrect == Spec => []TypeOK
  <1>1. IInv => TypeOK
    BY DEF IInv
  <1> QED BY <1>1, Inductive, PTL

\* A gated tool reaches its handler only as the very call an approval describes,
\* however often and however concurrently the approval is resumed.
THEOREM GatedCallWasDecidedHolds == Spec => []GatedCallWasDecided
  <1>1. IInv => GatedCallWasDecided
    BY DEF IInv
  <1> QED BY <1>1, Inductive, PTL

\* The rounds of a turn, counted across all its interruptions, never exceed
\* max_rounds.
THEOREM RoundsBoundedHolds == Spec => []RoundsBounded
  <1>1. IInv => RoundsBounded
    BY DEF IInv, RoundsBounded, LoopGood, LoopOK, RowsGood, CheckpointGood
  <1> QED BY <1>1, Inductive, PTL

\* Whenever the model is called, the messages pair every call with one result
\* and tool_results is those results in order, whatever interrupted the turn.
THEOREM TranscriptCompleteHolds == Spec => []TranscriptComplete
  <1>1. IInv => TranscriptComplete
    BY DEF IInv, TranscriptComplete, LoopGood, LoopOK, Told, EditShown
  <1> QED BY <1>1, Inductive, PTL

\* The messages show the arguments a call ran with, except before a later
\* interruption of the same round.
THEOREM EditsReachTheModelHolds == Spec => []EditsReachTheModel
  <1>1. IInv => EditsReachTheModel
    BY DEF IInv, EditsReachTheModel, LoopGood, LoopOK, Told, EditShown
  <1> QED BY <1>1, Inductive, PTL

=============================================================================
