------------------------ MODULE SkillEvolutionProofs ------------------------
(***************************************************************************)
(* Safety of skill proposals for any number of files, proposals, requests  *)
(* and crashes.                                                            *)
(***************************************************************************)
EXTENDS SkillEvolution, FiniteSetTheorems, TLAPS

\* What may be on disk: the seed and proposals that pass every check.
Checked(pr) == {"seed", None} \cup {p \in Proposals : pr[p] # None /\ pr[p].quality = "good"}
Clean(d, pr) == \A f \in Files : d[f] \in Checked(pr)

\* Some entry is the latest one, and an application names its proposal.
HasLatest(h) == h # <<>> => \E i \in 1 .. Len(h) : \A j \in 1 .. Len(h) : h[j].at <= h[i].at
NamesProposal(e, pr) == e.action = "apply_proposal" => e.of \in Proposals /\ pr[e.of] # None
HistoryGood == HasLatest(history) /\ \A i \in 1 .. Len(history) : NamesProposal(history[i], prop)

\* A request, however it is interleaved with others: it acts on a proposal that
\* is there, writes only what was checked, and carries only such snapshots.
RequestOK(q, pr) ==
    /\ q.pc = "idle" => q = IdleReq
    /\ q.pc = "loaded" => q.op = "apply"
    /\ q.pc = "writing" => q.op # "scan"
    /\ q.pc = "decided" \/ q.op = "apply" => q.of \in Proposals /\ pr[q.of] # None
    /\ q.pc = "decided" => q.verdict # "applied"
    /\ q.op = "apply" => pr[q.of].quality # "fails_lint"
    /\ q.op = "apply" /\ q.pc \in {"writing", "scanning", "commit"} => pr[q.of].quality = "good"
    /\ Clean(q.before, pr) /\ Clean(q.new, pr) /\ Clean(q.after, pr)
RequestsGood == \A r \in Requests : RequestOK(req[r], prop)

\* Until two requests were open at once, no two are.
Alone == ~issued.overlap =>
    \A r, s \in Requests : req[r].pc # "idle" /\ req[s].pc # "idle" => r = s

\* AppliedOnItsBase without counting.
Applications(h, p) == {i \in 1 .. Len(h) : h[i].action = "apply_proposal" /\ h[i].of = p}
Overlaid(row, p) == [f \in Files |-> IF f \in row.files THEN p ELSE row.base[f]]
Applied(p, row, h) ==
    /\ row.status = "applied" <=> Applications(h, p) # {}
    /\ \A i, j \in Applications(h, p) : i = j
    /\ \A i \in Applications(h, p) : h[i].before = row.base /\ h[i].after = Overlaid(row, p)
AppliedGood == ~issued.overlap => \A p \in Proposals : prop[p] # None => Applied(p, prop[p], history)

\* How far a request that applies a proposal has come.
Applying(q, pr, d) ==
    /\ q.pc = "decided" \/ q.op = "apply" => pr[q.of].status = "pending"
    /\ q.op = "apply" =>
        /\ q.pc \in {"writing", "scanning", "commit"} => q.before = pr[q.of].base
        /\ q.pc = "writing" =>
             /\ \A f \in pr[q.of].files : q.new[f] = q.of
             /\ q.todo \subseteq pr[q.of].files
             /\ \A f \in Files : d[f] = IF f \in pr[q.of].files \ q.todo THEN q.of ELSE pr[q.of].base[f]
        /\ q.pc = "scanning" => d = Overlaid(pr[q.of], q.of)
        /\ q.pc = "commit" => q.after = Overlaid(pr[q.of], q.of)
ApplyingGood == ~issued.overlap => \A r \in Requests : Applying(req[r], prop, disk)

\* The mirror is that of one scan, unless a request is between its first write
\* and its commit, or died there.
Dirty(q) == q.op # "scan" /\ q.pc \in {"writing", "scanning", "commit"}
Mirrored(ix, d, t) == ~t /\ d[Main] # None => \E n \in Nat : ix = Mirror(d, n)
Rescanned(q, ix, d) == q.pc = "commit" => q.after = d /\ (d[Main] # None => q.gone = ix)
MirrorGood ==
    ~issued.overlap =>
        /\ (\A r \in Requests : ~Dirty(req[r])) => Mirrored(index, disk, torn)
        /\ \A r \in Requests : Rescanned(req[r], index, disk)

IInv == /\ TypeOK /\ HistoryGood /\ RequestsGood /\ OnlyCheckedContent
        /\ Alone /\ AppliedGood /\ ApplyingGood /\ MirrorGood
----------------------------------------------------------------------------
(* The proposals table keeps what a proposal is.                           *)

Grows(a, b) == \A p \in Proposals : a[p] # None =>
    b[p] # None /\ b[p].files = a[p].files /\ b[p].quality = a[p].quality /\ b[p].base = a[p].base

\* What is true of a proposal that is there stays true while proposals only
\* gain a status or are added.
LEMMA RequestKept ==
  ASSUME NEW a, NEW b, Grows(a, b)
  PROVE  /\ Checked(a) \subseteq Checked(b)
         /\ \A d : Clean(d, a) => Clean(d, b)
         /\ \A e : NamesProposal(e, a) => NamesProposal(e, b)
         /\ \A q : RequestOK(q, a) => RequestOK(q, b)
  <1>1. Checked(a) \subseteq Checked(b)
    BY DEF Checked, Grows
  <1>2. \A d : Clean(d, a) => Clean(d, b)
    BY <1>1 DEF Clean
  <1>3. \A e : NamesProposal(e, a) => NamesProposal(e, b)
    BY DEF NamesProposal, Grows
  <1>4. ASSUME NEW q, RequestOK(q, a) PROVE RequestOK(q, b)
    BY <1>2, <1>4 DEF RequestOK, Grows
  <1> QED BY <1>1, <1>2, <1>3, <1>4

\* The empty directory.
LEMMA EmptyClean == ASSUME NEW pr PROVE EmptyDir \in Dir /\ Clean(EmptyDir, pr)
  BY DEF EmptyDir, Clean, Checked, Dir

\* A request that has not begun.
LEMMA IdleOK ==
  ASSUME NEW pr, NEW d
  PROVE  /\ IdleReq \in ReqType /\ IdleReq.pc = "idle" /\ RequestOK(IdleReq, pr) /\ Applying(IdleReq, pr, d)
         /\ ~Dirty(IdleReq)
  <1>1. IdleReq \in ReqType
    BY EmptyClean, SkillEvolutionAssumption DEF IdleReq, ReqType, Statuses
  <1>2. RequestOK(IdleReq, pr)
    BY EmptyClean DEF IdleReq, RequestOK
  <1> QED BY <1>1, <1>2 DEF IdleReq, Applying, Dirty

\* As long as requests come one at a time, the others are idle.
LEMMA Single ==
  ASSUME IInv, NEW r \in Requests, req[r].pc # "idle", ~issued.overlap
  PROVE  /\ \A s \in Requests \ {r} : req[s] = IdleReq
         /\ Applying(req[r], prop, disk)
         /\ ~Dirty(req[r]) => Mirrored(index, disk, torn)
         /\ Rescanned(req[r], index, disk)
  <1>1. \A s \in Requests \ {r} : req[s] = IdleReq
    BY DEF IInv, Alone, RequestsGood, RequestOK
  <1>2. \A s \in Requests \ {r} : ~Dirty(req[s])
    BY <1>1 DEF IdleReq, Dirty
  <1>3. ~Dirty(req[r]) => \A s \in Requests : ~Dirty(req[s])
    BY <1>2
  <1> QED BY <1>1, <1>3 DEF IInv, ApplyingGood, MirrorGood

\* A step of one request that is under way.
LEMMA RequestStep ==
  ASSUME IInv, NEW r \in Requests, req[r].pc # "idle", NEW q, req' = [req EXCEPT ![r] = q],
         TypeOK', Grows(prop, prop'), RequestOK(q, prop'), issued'.overlap = issued.overlap,
         HistoryGood', OnlyCheckedContent', AppliedGood',
         ~issued.overlap =>
            /\ Applying(q, prop', disk')
            /\ ~Dirty(q) => Mirrored(index', disk', torn')
            /\ Rescanned(q, index', disk')
  PROVE  IInv'
  <1>1. req'[r] = q /\ \A s \in Requests \ {r} : req'[s] = req[s]
    BY DEF IInv, TypeOK
  <1>2. RequestsGood'
    BY <1>1, RequestKept DEF IInv, RequestsGood
  <1>3. Alone'
    BY <1>1 DEF IInv, Alone
  <1>4. ApplyingGood' /\ MirrorGood'
    <2> SUFFICES ASSUME ~issued.overlap
                 PROVE  /\ \A s \in Requests : Applying(req'[s], prop', disk')
                        /\ (\A s \in Requests : ~Dirty(req'[s])) => Mirrored(index', disk', torn')
                        /\ \A s \in Requests : Rescanned(req'[s], index', disk')
      BY DEF ApplyingGood, MirrorGood
    <2>1. \A s \in Requests \ {r} : req'[s] = IdleReq
      BY <1>1, Single
    <2>2. \A s \in Requests : Applying(req'[s], prop', disk')
      BY <1>1, <2>1, IdleOK
    <2>3. \A s \in Requests : Rescanned(req'[s], index', disk')
      BY <1>1, <2>1, IdleOK DEF Rescanned
    <2> QED BY <1>1, <2>2, <2>3
  <1> QED BY <1>2, <1>3, <1>4 DEF IInv

----------------------------------------------------------------------------
(* Requests start.                                                         *)

\* A request starts and has loaded what it needs.
LEMMA StartStep ==
  ASSUME IInv, NEW r \in Requests, NEW rec \in ReqType, Start(r, rec),
         UNCHANGED <<disk, skill, index, prop, history, torn>>,
         rec.pc \notin {"idle", "commit"}, RequestOK(rec, prop), Applying(rec, prop, disk) \/ issued'.overlap
  PROVE  IInv'
  <1> DEFINE q == [rec EXCEPT !.at = issued.ops + 1]
  <1>1. /\ issued \in [ops: 0 .. OpBound, crashes: 0 .. CrashBound, overlap: BOOLEAN]
        /\ OpBound \in Nat /\ issued.ops + 1 \in 0 .. OpBound
    BY SkillEvolutionAssumption DEF IInv, TypeOK, Start
  <1>2. /\ q \in ReqType /\ q.pc = rec.pc /\ q.op = rec.op /\ q.of = rec.of /\ q.verdict = rec.verdict
        /\ q.before = rec.before /\ q.new = rec.new /\ q.todo = rec.todo /\ q.after = rec.after
    BY <1>1 DEF ReqType
  <1>3. req' = [req EXCEPT ![r] = q]
    BY DEF Start
  <1> HIDE DEF q
  <1>4. req'[r] = q /\ (\A s \in Requests \ {r} : req'[s] = req[s]) /\ req[r].pc = "idle"
    BY <1>3 DEF IInv, TypeOK, Start
  <1>5. /\ issued' \in [ops: 0 .. OpBound, crashes: 0 .. CrashBound, overlap: BOOLEAN]
        /\ ~issued'.overlap => ~issued.overlap /\ \A s \in Requests : req[s].pc = "idle"
    <2> DEFINE over == issued.overlap \/ \E s \in Requests : req[s].pc # "idle"
    <2>1. issued' = [issued EXCEPT !.ops = issued.ops + 1, !.overlap = over]
      BY <1>1 DEF Start
    <2>2. over \in BOOLEAN
      BY <1>1
    <2>3. issued'.overlap = over
      BY <1>1, <2>1
    <2>4. ~over => ~issued.overlap /\ \A s \in Requests : req[s].pc = "idle"
      OBVIOUS
    <2> HIDE DEF over
    <2> QED BY <1>1, <2>1, <2>2, <2>3, <2>4
  <1>6. TypeOK'
    BY <1>2, <1>3, <1>5 DEF IInv, TypeOK
  <1>7. RequestOK(q, prop)
    BY <1>2 DEF RequestOK
  <1>8. HistoryGood' /\ RequestsGood' /\ OnlyCheckedContent'
    BY <1>4, <1>7 DEF IInv, HistoryGood, RequestsGood, OnlyCheckedContent
  <1>9. Alone' /\ AppliedGood'
    BY <1>4, <1>5 DEF IInv, Alone, AppliedGood
  <1>10. ApplyingGood' /\ MirrorGood'
    <2> SUFFICES ASSUME ~issued'.overlap
                 PROVE  /\ \A s \in Requests : Applying(req'[s], prop, disk)
                        /\ (\A s \in Requests : ~Dirty(req'[s])) => Mirrored(index, disk, torn)
                        /\ \A s \in Requests : Rescanned(req'[s], index, disk)
      BY DEF ApplyingGood, MirrorGood
    <2>1. ~issued.overlap /\ \A s \in Requests : req[s].pc = "idle" /\ ~Dirty(req[s])
      BY <1>5 DEF Dirty
    <2>2. Applying(q, prop, disk) /\ Rescanned(q, index, disk)
      BY <1>2 DEF Applying, Rescanned
    <2> QED BY <1>4, <2>1, <2>2 DEF IInv, ApplyingGood, MirrorGood
  <1> QED BY <1>6, <1>8, <1>9, <1>10 DEF IInv

\* ApplyLoad keeps the invariant.
LEMMA ApplyLoadStep == ASSUME IInv, NEW r \in Requests, NEW p \in Proposals, ApplyLoad(r, p) PROVE IInv'
  <1> DEFINE bad == [IdleReq EXCEPT !.pc = "decided", !.of = p, !.verdict = "rejected"]
             good == [IdleReq EXCEPT !.pc = "loaded", !.op = "apply", !.of = p]
  <1>1. prop[p] # None /\ prop[p].status = "pending" /\ UNCHANGED <<disk, skill, index, prop, history, torn>>
    BY DEF ApplyLoad, Open
  <1>2. CASE prop[p].quality = "fails_lint"
    <2>1. Start(r, bad)
      BY <1>2 DEF ApplyLoad
    <2>2. bad \in ReqType
      BY IdleOK DEF ReqType, Statuses
    <2>3. /\ bad.pc = "decided" /\ bad.of = p /\ bad.verdict = "rejected" /\ bad.op = "scan"
          /\ bad.before = EmptyDir /\ bad.new = EmptyDir /\ bad.after = EmptyDir
      BY DEF IdleReq
    <2> HIDE DEF bad
    <2>4. RequestOK(bad, prop) /\ Applying(bad, prop, disk)
      BY <1>1, <2>3, EmptyClean DEF RequestOK, Applying
    <2> QED BY <1>1, <2>1, <2>2, <2>3, <2>4, StartStep
  <1>3. CASE prop[p].quality # "fails_lint"
    <2>1. Start(r, good)
      BY <1>3 DEF ApplyLoad
    <2>2. good \in ReqType
      BY IdleOK DEF ReqType
    <2>3. /\ good.pc = "loaded" /\ good.of = p /\ good.op = "apply"
          /\ good.before = EmptyDir /\ good.new = EmptyDir /\ good.after = EmptyDir
      BY DEF IdleReq
    <2> HIDE DEF good
    <2>4. RequestOK(good, prop) /\ Applying(good, prop, disk)
      BY <1>1, <1>3, <2>3, EmptyClean DEF RequestOK, Applying
    <2> QED BY <1>1, <2>1, <2>2, <2>3, <2>4, StartStep
  <1> QED BY <1>2, <1>3

\* RejectLoad keeps the invariant.
LEMMA RejectLoadStep == ASSUME IInv, NEW r \in Requests, NEW p \in Proposals, RejectLoad(r, p) PROVE IInv'
  <1> DEFINE bad == [IdleReq EXCEPT !.pc = "decided", !.of = p, !.verdict = "rejected"]
  <1>1. /\ prop[p] # None /\ prop[p].status = "pending" /\ UNCHANGED <<disk, skill, index, prop, history, torn>>
        /\ Start(r, bad)
    BY DEF RejectLoad, Open
  <1>2. bad \in ReqType
    BY IdleOK DEF ReqType, Statuses
  <1>3. /\ bad.pc = "decided" /\ bad.of = p /\ bad.verdict = "rejected" /\ bad.op = "scan"
        /\ bad.before = EmptyDir /\ bad.new = EmptyDir /\ bad.after = EmptyDir
    BY DEF IdleReq
  <1> HIDE DEF bad
  <1>4. RequestOK(bad, prop) /\ Applying(bad, prop, disk)
    BY <1>1, <1>3, EmptyClean DEF RequestOK, Applying
  <1> QED BY <1>1, <1>2, <1>3, <1>4, StartStep

\* ScanLoad keeps the invariant.
LEMMA ScanLoadStep == ASSUME IInv, NEW r \in Requests, ScanLoad(r) PROVE IInv'
  <1> DEFINE q == [IdleReq EXCEPT !.pc = "scanning"]
  <1>1. Start(r, q) /\ UNCHANGED <<disk, skill, index, prop, history, torn>>
    BY DEF ScanLoad
  <1>2. q \in ReqType
    BY IdleOK DEF ReqType
  <1>3. /\ q.pc = "scanning" /\ q.op = "scan"
        /\ q.before = EmptyDir /\ q.new = EmptyDir /\ q.after = EmptyDir
    BY DEF IdleReq
  <1> HIDE DEF q
  <1>4. RequestOK(q, prop) /\ Applying(q, prop, disk)
    BY <1>3, EmptyClean DEF RequestOK, Applying
  <1> QED BY <1>1, <1>2, <1>3, <1>4, StartStep

\* Directory and snapshots hold only checked contents.
LEMMA DiskClean ==
  ASSUME IInv
  PROVE  disk \in Dir /\ Clean(disk, prop) /\ \A i \in 1 .. Len(history) : Clean(history[i].before, prop)
  BY DEF IInv, TypeOK, OnlyCheckedContent, Clean, Checked

\* RollbackLoad keeps the invariant.
LEMMA RollbackLoadStep == ASSUME IInv, NEW r \in Requests, RollbackLoad(r) PROVE IInv'
  <1> DEFINE old == history[Latest].before
             todo == {f \in Files : old[f] # None}
             pc == IF todo = {} THEN "scanning" ELSE "writing"
             q == [IdleReq EXCEPT !.pc = pc, !.op = "rollback", !.before = disk, !.new = old, !.todo = todo]
  <1>1. Start(r, q) /\ history # <<>> /\ UNCHANGED <<disk, skill, index, prop, history, torn>>
    BY SMTT(30) DEF RollbackLoad
  <1>2. Latest \in 1 .. Len(history)
    BY <1>1 DEF IInv, HistoryGood, HasLatest, Latest
  <1>3. history[Latest] \in Entry
    BY <1>2 DEF IInv, TypeOK
  <1>4. old \in Dir /\ Clean(old, prop)
    BY <1>2, <1>3, DiskClean DEF Entry
  <1>5. pc \in {"scanning", "writing"} /\ todo \in SUBSET Files
    OBVIOUS
  <1> HIDE DEF old, todo, pc
  <1>6. q \in ReqType
    BY <1>4, <1>5, IdleOK, DiskClean DEF ReqType
  <1>7. /\ q.pc = pc /\ q.op = "rollback" /\ q.before = disk /\ q.new = old /\ q.after = EmptyDir
    BY DEF IdleReq
  <1> HIDE DEF q
  <1>8. RequestOK(q, prop) /\ Applying(q, prop, disk)
    BY <1>4, <1>5, <1>7, EmptyClean, DiskClean DEF RequestOK, Applying
  <1> QED BY <1>1, <1>5, <1>6, <1>7, <1>8, StartStep

----------------------------------------------------------------------------
(* A request goes on.                                                      *)

\* What the invariant says of one request.
LEMMA Running ==
  ASSUME IInv, NEW r \in Requests
  PROVE  /\ req \in [Requests -> ReqType] /\ req[r] \in ReqType /\ RequestOK(req[r], prop)
         /\ prop \in [Proposals -> ProposalRecord \cup {None}] /\ Grows(prop, prop)
  BY DEF IInv, TypeOK, RequestsGood, Grows

\* The tables stay as they are.
LEMMA TablesStay ==
  ASSUME IInv, UNCHANGED <<disk, index, prop, history>>, issued'.overlap = issued.overlap
  PROVE  HistoryGood' /\ OnlyCheckedContent' /\ AppliedGood' /\ Grows(prop, prop')
  BY DEF IInv, HistoryGood, OnlyCheckedContent, AppliedGood, Grows

\* ApplyCheck keeps the invariant.
LEMMA ApplyCheckStep == ASSUME IInv, NEW r \in Requests, ApplyCheck(r) PROVE IInv'
  <1> DEFINE p == prop[req[r].of]
             new == [f \in Files |-> IF f \in p.files THEN req[r].of ELSE None]
             go == [req[r] EXCEPT !.pc = "writing", !.before = disk, !.todo = p.files, !.new = new]
             stop == [req[r] EXCEPT !.pc = "decided", !.verdict = Verdict(r)]
  <1>1. /\ req[r].pc = "loaded" /\ UNCHANGED <<disk, skill, index, prop, history, issued, torn>>
        /\ req' = [req EXCEPT ![r] = IF Fresh(r) /\ Passes(r) THEN go ELSE stop]
    BY DEF ApplyCheck
  <1>2. /\ req[r] \in ReqType /\ RequestOK(req[r], prop) /\ req[r].op = "apply"
        /\ req[r].of \in Proposals /\ p # None /\ p.quality # "fails_lint" /\ p \in ProposalRecord
        /\ Clean(req[r].before, prop) /\ Clean(req[r].new, prop) /\ Clean(req[r].after, prop)
    BY <1>1, Running DEF RequestOK
  <1>3. p.quality \in Qualities /\ p.files \in SUBSET Files /\ p.base \in Dir
    BY <1>2 DEF ProposalRecord
  <1>4. HistoryGood' /\ OnlyCheckedContent' /\ AppliedGood' /\ Grows(prop, prop')
    BY <1>1, TablesStay
  <1>5. ~issued.overlap => /\ Applying(req[r], prop, disk)
                           /\ ~Dirty(req[r]) => Mirrored(index, disk, torn)
    BY <1>1, Single
  <1>6. CASE Fresh(r) /\ Passes(r)
    <2>1. req' = [req EXCEPT ![r] = go] /\ disk = p.base /\ p.quality = "good"
      BY <1>1, <1>2, <1>3, <1>6 DEF Fresh, Passes, Qualities
    <2>2. new \in Dir /\ Clean(new, prop) /\ \A f \in p.files : new[f] = req[r].of
      BY <1>2, <1>3, <2>1 DEF Dir, Contents, Clean, Checked
    <2> HIDE DEF new
    <2>3. go \in ReqType
      BY <1>2, <1>3, <2>2, DiskClean DEF ReqType
    <2>4. /\ go.pc = "writing" /\ go.op = "apply" /\ go.of = req[r].of /\ go.before = disk /\ go.new = new
          /\ go.todo = p.files /\ go.after = req[r].after
      BY <1>2 DEF ReqType
    <2> HIDE DEF go
    <2>5. RequestOK(go, prop)
      BY <1>2, <2>1, <2>2, <2>4, DiskClean DEF RequestOK
    <2>6. ~issued.overlap => Applying(go, prop, disk) /\ Dirty(go) /\ Rescanned(go, index, disk)
      BY <1>1, <1>5, <1>2, <2>1, <2>2, <2>4 DEF Applying, Dirty, Rescanned
    <2>7. TypeOK'
      BY <1>1, <2>1, <2>3, Running, SMTT(30) DEF IInv, TypeOK
    <2> QED BY <1>1, <1>4, <2>1, <2>5, <2>6, <2>7, RequestStep
  <1>7. CASE ~ (Fresh(r) /\ Passes(r))
    <2>1. req' = [req EXCEPT ![r] = stop]
      BY <1>1, <1>7
    <2>2. Verdict(r) \in Statuses /\ Verdict(r) # "applied"
      BY DEF Verdict, Statuses
    <2>3. stop \in ReqType
      BY <1>2, <2>2 DEF ReqType
    <2>4. /\ stop.pc = "decided" /\ stop.op = "apply" /\ stop.of = req[r].of /\ stop.before = req[r].before
          /\ stop.new = req[r].new /\ stop.after = req[r].after /\ stop.verdict = Verdict(r)
      BY <1>2 DEF ReqType
    <2> HIDE DEF stop
    <2>5. RequestOK(stop, prop)
      BY <1>2, <2>2, <2>4 DEF RequestOK
    <2>6. ~issued.overlap => /\ Applying(stop, prop, disk) /\ Rescanned(stop, index, disk)
                             /\ Mirrored(index, disk, torn)
      BY <1>1, <1>5, <1>2, <2>4 DEF Applying, Dirty, Rescanned
    <2>7. TypeOK'
      BY <1>1, <2>1, <2>3, Running DEF IInv, TypeOK
    <2> QED BY <1>1, <1>4, <2>1, <2>5, <2>6, <2>7, RequestStep
  <1> QED BY <1>6, <1>7

\* WriteFile keeps the invariant.
LEMMA WriteFileStep == ASSUME IInv, NEW r \in Requests, NEW f \in Files, WriteFile(r, f) PROVE IInv'
  <1> DEFINE q == req[r]
             p == prop[q.of]
             pc == IF q.todo = {f} THEN "scanning" ELSE "writing"
             q2 == [q EXCEPT !.todo = q.todo \ {f}, !.pc = pc]
  <1>1. /\ q.pc = "writing" /\ f \in q.todo /\ disk' = [disk EXCEPT ![f] = q.new[f]]
        /\ UNCHANGED <<skill, index, prop, history, issued, torn>>
    BY DEF WriteFile
  <1>2. q \in ReqType /\ RequestOK(q, prop) /\ q.op # "scan" /\ Clean(q.new, prop) /\ q.new \in Dir
    BY <1>1, Running DEF RequestOK, ReqType
  <1>3. req' = [req EXCEPT ![r] = q2]
    BY <1>2 DEF WriteFile, ReqType
  <1>4. pc \in {"scanning", "writing"}
    OBVIOUS
  <1>5. pc = "scanning" => q.todo = {f}
    OBVIOUS
  <1> HIDE DEF pc
  <1>6. q2 \in ReqType
    BY <1>2, <1>4 DEF ReqType
  <1>7. /\ q2.pc = pc /\ q2.op = q.op /\ q2.of = q.of /\ q2.before = q.before /\ q2.new = q.new
        /\ q2.todo = q.todo \ {f} /\ q2.after = q.after
    BY <1>2 DEF ReqType
  <1> HIDE DEF q2
  <1>8. disk' \in Dir /\ disk'[f] = q.new[f] /\ \A g \in Files \ {f} : disk'[g] = disk[g]
    BY <1>1, <1>2, DiskClean DEF Dir
  <1>9. TypeOK'
    BY <1>1, <1>3, <1>6, <1>8, Running DEF IInv, TypeOK
  <1>10. OnlyCheckedContent'
    <2>1. \A g \in Files : disk'[g] \in Checked(prop)
      BY <1>2, <1>8, DiskClean DEF Clean
    <2> QED BY <1>1, <2>1 DEF IInv, OnlyCheckedContent, Checked
  <1>11. HistoryGood' /\ AppliedGood' /\ Grows(prop, prop')
    BY <1>1 DEF IInv, HistoryGood, AppliedGood, Grows
  <1>12. RequestOK(q2, prop)
    BY <1>1, <1>2, <1>4, <1>7 DEF RequestOK
  <1>13. ASSUME ~issued.overlap PROVE Applying(q2, prop, disk')
    <2>1. Applying(q, prop, disk)
      BY <1>1, <1>13, Single
    <2>2. CASE q.op # "apply"
      BY <1>4, <1>7, <2>2 DEF Applying
    <2>3. CASE q.op = "apply"
      <3>1. /\ p.status = "pending" /\ q.before = p.base
            /\ \A g \in p.files : q.new[g] = q.of
            /\ q.todo \subseteq p.files
            /\ \A g \in Files : disk[g] = IF g \in p.files \ q.todo THEN q.of ELSE p.base[g]
        BY <1>1, <2>1, <2>3 DEF Applying
      <3>2. \A g \in Files : disk'[g] = IF g \in p.files \ q2.todo THEN q.of ELSE p.base[g]
        BY <1>1, <1>7, <1>8, <3>1
      <3>3. CASE pc = "writing"
        BY <1>7, <2>3, <3>1, <3>2, <3>3 DEF Applying
      <3>4. CASE pc = "scanning"
        <4>1. q2.todo = {}
          BY <1>5, <1>7, <3>4
        <4>2. \A g \in Files : disk'[g] = IF g \in p.files THEN q.of ELSE p.base[g]
          BY <3>2, <4>1
        <4>3. disk' = Overlaid(p, q.of)
          BY <1>8, <4>2 DEF Overlaid, Dir
        <4> QED BY <1>7, <2>3, <3>1, <3>4, <4>3 DEF Applying
      <3> QED BY <1>4, <3>3, <3>4
    <2> QED BY <2>2, <2>3
  <1>14. Dirty(q2) /\ Rescanned(q2, index', disk')
    BY <1>2, <1>4, <1>7 DEF Dirty, Rescanned
  <1> QED BY <1>1, <1>3, <1>9, <1>10, <1>11, <1>12, <1>13, <1>14, RequestStep

\* Scan keeps the invariant.
LEMMA ScanStep == ASSUME IInv, NEW r \in Requests, Scan(r) PROVE IInv'
  <1> DEFINE q == req[r]
             q2 == [q EXCEPT !.pc = "commit", !.saw = skill, !.gone = Gone, !.after = disk]
  <1>1. q.pc = "scanning" /\ UNCHANGED <<disk, skill, index, prop, history, issued, torn>>
    BY DEF Scan
  <1>2. q \in ReqType /\ RequestOK(q, prop)
    BY Running
  <1>3. req' = [req EXCEPT ![r] = q2]
    BY <1>2 DEF Scan, ReqType
  <1>4. Gone \in SUBSET Row /\ skill \in BOOLEAN /\ (disk[Main] # None => Gone = index)
    BY DEF IInv, TypeOK, Gone
  <1>5. q2 \in ReqType
    BY <1>2, <1>4, DiskClean DEF ReqType
  <1>6. /\ q2.pc = "commit" /\ q2.op = q.op /\ q2.of = q.of /\ q2.before = q.before /\ q2.new = q.new
        /\ q2.gone = Gone /\ q2.after = disk
    BY <1>2 DEF ReqType
  <1> HIDE DEF q2
  <1>7. TypeOK'
    BY <1>1, <1>3, <1>5, Running DEF IInv, TypeOK
  <1>8. HistoryGood' /\ OnlyCheckedContent' /\ AppliedGood' /\ Grows(prop, prop')
    BY <1>1, TablesStay
  <1>9. RequestOK(q2, prop)
    BY <1>1, <1>2, <1>6, DiskClean DEF RequestOK
  <1>10. ASSUME ~issued.overlap
         PROVE  /\ Applying(q2, prop, disk) /\ Rescanned(q2, index, disk)
                /\ ~Dirty(q2) => Mirrored(index, disk, torn)
    <2>1. Applying(q, prop, disk) /\ (~Dirty(q) => Mirrored(index, disk, torn))
      BY <1>1, <1>10, Single
    <2> QED BY <1>1, <1>4, <1>6, <2>1 DEF Applying, Rescanned, Dirty
  <1> QED BY <1>1, <1>3, <1>7, <1>8, <1>9, <1>10, RequestStep

----------------------------------------------------------------------------
(* A request ends.                                                         *)

\* What a request leaves to the others when it ends.
LEMMA EndStep ==
  ASSUME IInv, NEW r \in Requests, req[r].pc # "idle", req' = [req EXCEPT ![r] = IdleReq],
         TypeOK', Grows(prop, prop'), issued'.overlap = issued.overlap,
         HistoryGood', OnlyCheckedContent', AppliedGood',
         ~issued.overlap => Mirrored(index', disk', torn')
  PROVE  IInv'
  <1>1. RequestOK(IdleReq, prop') /\ Applying(IdleReq, prop', disk') /\ Rescanned(IdleReq, index', disk')
    BY IdleOK DEF Rescanned
  <1> QED BY <1>1, RequestStep

\* Decide keeps the invariant.
LEMMA DecideStep == ASSUME IInv, NEW r \in Requests, Decide(r) PROVE IInv'
  <1> DEFINE q == req[r]
             row == [prop[q.of] EXCEPT !.status = q.verdict]
  <1>1. /\ q.pc = "decided" /\ req' = [req EXCEPT ![r] = IdleReq] /\ prop' = [prop EXCEPT ![q.of] = row]
        /\ UNCHANGED <<disk, skill, index, history, issued, torn>>
    BY DEF Decide
  <1>2. /\ q \in ReqType /\ q.of \in Proposals /\ prop[q.of] # None /\ q.verdict # "applied"
        /\ prop \in [Proposals -> ProposalRecord \cup {None}] /\ prop[q.of] \in ProposalRecord
        /\ q.verdict \in Statuses
    BY <1>1, Running DEF RequestOK, ReqType
  <1>3. /\ row \in ProposalRecord /\ row.status = q.verdict /\ row.files = prop[q.of].files
        /\ row.quality = prop[q.of].quality /\ row.base = prop[q.of].base
    BY <1>2 DEF ProposalRecord
  <1> HIDE DEF row
  <1>4. /\ prop' \in [Proposals -> ProposalRecord \cup {None}] /\ prop'[q.of] = row
        /\ \A p \in Proposals \ {q.of} : prop'[p] = prop[p]
    BY <1>1, <1>2, <1>3
  <1>5. Grows(prop, prop')
    BY <1>2, <1>3, <1>4, NoneAssumption DEF Grows
  <1>6. TypeOK'
    BY <1>1, <1>4, IdleOK, Running DEF IInv, TypeOK
  <1>7. HistoryGood'
    BY <1>1, <1>5, RequestKept DEF IInv, HistoryGood
  <1>8. OnlyCheckedContent'
    <2>1. Checked(prop) \subseteq Checked(prop')
      BY <1>5, RequestKept
    <2> QED BY <1>1, <2>1 DEF IInv, OnlyCheckedContent, Checked
  <1>9. ASSUME ~issued.overlap
        PROVE  Mirrored(index, disk, torn) /\ \A p \in Proposals : prop'[p] # None => Applied(p, prop'[p], history)
    <2>1. Applying(q, prop, disk) /\ Mirrored(index, disk, torn) /\ prop[q.of].status = "pending"
      BY <1>1, <1>9, Single DEF Dirty, Applying
    <2>2. Applied(q.of, prop[q.of], history)
      BY <1>2, <1>9 DEF IInv, AppliedGood
    <2>3. Applied(q.of, row, history)
      BY <1>2, <1>3, <2>1, <2>2 DEF Applied, Overlaid
    <2> QED BY <1>4, <1>9, <2>1, <2>3 DEF IInv, AppliedGood
  <1>10. AppliedGood'
    BY <1>1, <1>9 DEF AppliedGood
  <1> QED BY <1>1, <1>5, <1>6, <1>7, <1>8, <1>9, <1>10, EndStep

\* A request that fails to commit or dies keeps the invariant.
LEMMA DieStep ==
  ASSUME IInv, NEW r \in Requests, CommitFails(r) \/ Crash(r)
  PROVE  IInv'
  <1>1. /\ req[r].pc # "idle" /\ req' = [req EXCEPT ![r] = IdleReq] /\ torn' = (torn \/ Dirty(req[r]))
        /\ UNCHANGED <<disk, skill, index, prop, history>>
    BY DEF CommitFails, Crash, Dirty, Unrecorded
  <1>2. /\ issued' \in [ops: 0 .. OpBound, crashes: 0 .. CrashBound, overlap: BOOLEAN]
        /\ issued'.overlap = issued.overlap
    <2>1. issued \in [ops: 0 .. OpBound, crashes: 0 .. CrashBound, overlap: BOOLEAN] /\ CrashBound \in Nat
      BY SkillEvolutionAssumption DEF IInv, TypeOK
    <2>2. CASE CommitFails(r)
      BY <2>1, <2>2 DEF CommitFails
    <2>3. CASE Crash(r)
      <3>1. issued.crashes + 1 \in 0 .. CrashBound
        BY <2>1, <2>3 DEF Crash
      <3> QED BY <2>1, <2>3, <3>1 DEF Crash
    <2> QED BY <2>2, <2>3
  <1>3. TypeOK'
    BY <1>1, <1>2, IdleOK, Running DEF IInv, TypeOK
  <1>4. HistoryGood' /\ OnlyCheckedContent' /\ AppliedGood' /\ Grows(prop, prop')
    BY <1>1, <1>2, TablesStay
  <1>5. ~issued.overlap => Mirrored(index', disk', torn')
    BY <1>1, Single DEF Mirrored
  <1> QED BY <1>1, <1>2, <1>3, <1>4, <1>5, EndStep

----------------------------------------------------------------------------
(* The commit.                                                             *)

\* The rows that a scan writes are the files it read.
LEMMA MirrorRows ==
  ASSUME NEW d \in Dir, NEW n \in Nat
  PROVE  Mirror(d, n) \subseteq Row /\ \A x \in Mirror(d, n) : \E f \in Files : x.content = d[f]
  BY DEF Mirror, Row, Dir

\* One more entry.
Extends(h2, h, e) == h2 = h \o <<e>>
Applies(e, p) == e.action = "apply_proposal" /\ e.of = p

\* One more entry: some entry of the longer history is the latest.
LEMMA HistoryExtended ==
  ASSUME NEW h \in Seq(Entry), NEW e \in Entry, NEW h2, Extends(h2, h, e)
  PROVE  /\ h2 \in Seq(Entry) /\ Len(h2) = Len(h) + 1 /\ h2[Len(h) + 1] = e /\ Len(h) \in Nat
         /\ \A i \in 1 .. Len(h) : h2[i] = h[i]
         /\ HasLatest(h) => HasLatest(h2)
  <1>1. /\ h2 \in Seq(Entry) /\ Len(h2) = Len(h) + 1 /\ h2[Len(h) + 1] = e /\ Len(h) \in Nat
        /\ \A i \in 1 .. Len(h) : h2[i] = h[i]
    BY DEF Extends
  <1>2. ASSUME NEW i \in 1 .. Len(h2) PROVE h2[i].at \in Nat
    <2>1. h2[i] \in Entry
      BY <1>1
    <2> QED BY <2>1 DEF Entry
  <1>3. ASSUME HasLatest(h) PROVE HasLatest(h2)
    <2>1. CASE h = <<>>
      <3>1. Len(h) = 0
        BY <2>1
      <3>2. \A i \in 1 .. Len(h2) : i = 1
        BY <1>1, <3>1
      <3>3. 1 \in 1 .. Len(h2)
        BY <1>1, <3>1
      <3>4. \A j \in 1 .. Len(h2) : h2[j].at <= h2[1].at
        BY <1>2, <3>2, <3>3
      <3> QED BY <3>3, <3>4 DEF HasLatest
    <2>2. CASE h # <<>>
      <3>1. PICK i \in 1 .. Len(h) : \A j \in 1 .. Len(h) : h[j].at <= h[i].at
        BY <1>3, <2>2 DEF HasLatest
      <3> DEFINE n == Len(h) + 1
      <3>2. i \in 1 .. Len(h2) /\ n \in 1 .. Len(h2) /\ \A j \in 1 .. Len(h2) : j \in 1 .. Len(h) \/ j = n
        BY <1>1
      <3>3. \A j \in 1 .. Len(h) : h2[j].at <= h2[i].at
        BY <1>1, <3>1
      <3>4. CASE h2[n].at <= h2[i].at
        BY <3>2, <3>3, <3>4 DEF HasLatest
      <3>5. CASE ~ (h2[n].at <= h2[i].at)
        <4>1. h2[n].at \in Nat /\ h2[i].at \in Nat /\ h2[i].at <= h2[n].at
          BY <1>2, <3>2, <3>5
        <4>2. ASSUME NEW j \in 1 .. Len(h2) PROVE h2[j].at <= h2[n].at
          BY <1>2, <3>2, <3>3, <4>1, SMTT(30)
        <4> QED BY <3>2, <4>2 DEF HasLatest
      <3> QED BY <3>4, <3>5
    <2> QED BY <2>1, <2>2
  <1> QED BY <1>1, <1>3

\* One more entry is one more application or none.
LEMMA ApplicationsExtended ==
  ASSUME NEW h \in Seq(Entry), NEW e \in Entry, NEW h2, Extends(h2, h, e), NEW p
  PROVE  /\ Applies(e, p) => Applications(h2, p) = Applications(h, p) \cup {Len(h) + 1}
         /\ ~Applies(e, p) => Applications(h2, p) = Applications(h, p)
  <1>1. /\ Len(h2) = Len(h) + 1 /\ h2[Len(h) + 1] = e /\ Len(h) \in Nat
        /\ \A i \in 1 .. Len(h) : h2[i] = h[i]
    BY HistoryExtended
  <1>2. 1 .. Len(h2) = (1 .. Len(h)) \cup {Len(h) + 1} /\ Len(h) + 1 \notin 1 .. Len(h)
    BY <1>1
  <1> QED BY <1>1, <1>2 DEF Applications, Applies

\* An entry that does not apply p leaves what is known of p.
LEMMA AppliedElsewhere ==
  ASSUME NEW h \in Seq(Entry), NEW e \in Entry, NEW h2, Extends(h2, h, e), NEW p, NEW row,
         ~Applies(e, p), Applied(p, row, h)
  PROVE  Applied(p, row, h2)
  <1>1. Applications(h2, p) = Applications(h, p)
    BY ApplicationsExtended
  <1>2. \A i \in Applications(h, p) : h2[i] = h[i]
    BY HistoryExtended DEF Applications
  <1> QED BY <1>1, <1>2 DEF Applied

\* The first application of a pending proposal makes it applied on its base.
LEMMA AppliedNow ==
  ASSUME NEW h \in Seq(Entry), NEW e \in Entry, NEW h2, Extends(h2, h, e), NEW p, NEW row, NEW row2,
         Applies(e, p), Applied(p, row, h), row.status = "pending",
         row2.status = "applied", row2.base = row.base, row2.files = row.files,
         e.before = row.base, e.after = Overlaid(row, p)
  PROVE  Applied(p, row2, h2)
  <1>1. Applications(h, p) = {}
    BY DEF Applied
  <1>2. Applications(h2, p) = {Len(h) + 1}
    <2>1. Applications(h2, p) = Applications(h, p) \cup {Len(h) + 1}
      BY ApplicationsExtended
    <2> QED BY <1>1, <2>1
  <1>3. h2[Len(h) + 1] = e
    BY HistoryExtended
  <1> QED BY <1>2, <1>3 DEF Applied, Overlaid

\* Commit keeps the invariant.
LEMMA CommitStep == ASSUME IInv, NEW r \in Requests, Commit(r) PROVE IInv'
  <1> DEFINE q == req[r]
             scanned == q.after[Main] # None
             rows == IF scanned THEN Mirror(q.after, q.at) ELSE {}
             row == [prop[q.of] EXCEPT !.status = "applied"]
  <1>1. /\ q.pc = "commit" /\ skill' = (skill \/ scanned) /\ index' = (index \ q.gone) \cup rows
        /\ history' = history \o EntryOf(q)
        /\ prop' = IF q.op = "apply" THEN [prop EXCEPT ![q.of] = row] ELSE prop
        /\ torn' = FALSE /\ req' = [req EXCEPT ![r] = IdleReq] /\ UNCHANGED <<disk, issued>>
    BY DEF Commit
  <1>2. /\ q \in ReqType /\ RequestOK(q, prop) /\ history \in Seq(Entry) /\ index \subseteq Row
        /\ prop \in [Proposals -> ProposalRecord \cup {None}]
    BY Running DEF IInv, TypeOK
  <1>3. /\ q.at \in Nat /\ q.after \in Dir /\ q.before \in Dir /\ q.new \in Dir
        /\ Clean(q.before, prop) /\ Clean(q.after, prop)
    BY <1>2, SkillEvolutionAssumption DEF ReqType, RequestOK
  <1>4. /\ index' \subseteq Row
        /\ \A x \in index' : x.content \in Checked(prop)
        /\ ~issued.overlap => Mirrored(index', disk, FALSE)
    <2>1. rows \subseteq Row /\ \A x \in rows : x.content \in Checked(prop)
      BY <1>3, MirrorRows DEF Clean
    <2>2. \A x \in index : x.content \in Checked(prop)
      BY DEF IInv, OnlyCheckedContent, Checked
    <2>3. ASSUME ~issued.overlap, disk[Main] # None PROVE index' = Mirror(disk, q.at)
      <3>1. q.after = disk /\ q.gone = index
        BY <1>1, <2>3, Single DEF Rescanned
      <3> QED BY <1>1, <2>3, <3>1
    <2> QED BY <1>1, <1>2, <1>3, <2>1, <2>2, <2>3 DEF Mirrored
  <1>5. /\ prop' \in [Proposals -> ProposalRecord \cup {None}] /\ Grows(prop, prop')
        /\ q.op = "apply" => /\ q.of \in Proposals /\ prop[q.of] # None
                             /\ prop'[q.of].status = "applied" /\ prop'[q.of].base = prop[q.of].base
                             /\ prop'[q.of].files = prop[q.of].files
                             /\ \A p \in Proposals \ {q.of} : prop'[p] = prop[p]
        /\ q.op # "apply" => prop' = prop
    <2>1. CASE q.op # "apply"
      BY <1>1, <1>2, <2>1 DEF Grows
    <2>2. CASE q.op = "apply"
      <3>1. q.of \in Proposals /\ prop[q.of] # None /\ prop[q.of] \in ProposalRecord
        BY <1>2, <2>2 DEF RequestOK
      <3>2. /\ row \in ProposalRecord /\ row.status = "applied" /\ row.files = prop[q.of].files
            /\ row.quality = prop[q.of].quality /\ row.base = prop[q.of].base
        BY <3>1 DEF ProposalRecord, Statuses
      <3> HIDE DEF row
      <3>3. /\ prop' \in [Proposals -> ProposalRecord \cup {None}] /\ prop'[q.of] = row
            /\ \A p \in Proposals \ {q.of} : prop'[p] = prop[p]
        BY <1>1, <1>2, <2>2, <3>1, <3>2
      <3>4. Grows(prop, prop')
        BY <3>1, <3>2, <3>3, NoneAssumption DEF Grows
      <3> QED BY <2>2, <3>1, <3>2, <3>3, <3>4
    <2> QED BY <2>1, <2>2
  <1>6. Checked(prop) \subseteq Checked(prop') /\ \A e : NamesProposal(e, prop) => NamesProposal(e, prop')
    BY <1>5, RequestKept
  <1>7. /\ history' \in Seq(Entry) /\ HistoryGood'
        /\ \A i \in 1 .. Len(history') : Clean(history'[i].before, prop)
        /\ ~issued.overlap => \A p \in Proposals : prop'[p] # None => Applied(p, prop'[p], history')
    <2>1. CASE q.op = "scan"
      <3>1. EntryOf(q) = <<>>
        BY <2>1 DEF EntryOf
      <3>2. history' = history /\ prop' = prop
        BY <1>1, <1>2, <1>5, <2>1, <3>1
      <3> QED BY <1>2, <3>2, DiskClean DEF IInv, HistoryGood, AppliedGood
    <2> DEFINE e == IF q.op = "apply"
                      THEN [action |-> "apply_proposal", of |-> q.of, before |-> q.before, after |-> q.after, at |-> q.at]
                      ELSE [action |-> "rollback", of |-> None, before |-> q.before, after |-> q.new, at |-> q.at]
    <2>2. CASE q.op # "scan"
      <3>1. EntryOf(q) = <<e>>
        BY <1>2, <2>2 DEF EntryOf, ReqType
      <3>2. /\ e \in Entry /\ e.before = q.before
            /\ q.op = "apply" => e.action = "apply_proposal" /\ e.of = q.of /\ e.after = q.after
            /\ q.op # "apply" => e.action = "rollback"
        BY <1>2, <1>3 DEF Entry, ReqType
      <3> HIDE DEF e
      <3>3. Extends(history', history, e)
        BY <1>1, <3>1 DEF Extends
      <3>4. /\ history' \in Seq(Entry) /\ Len(history') = Len(history) + 1 /\ history'[Len(history) + 1] = e
            /\ Len(history) \in Nat /\ \A i \in 1 .. Len(history) : history'[i] = history[i]
            /\ HasLatest(history')
        BY <1>2, <3>2, <3>3, HistoryExtended DEF IInv, HistoryGood
      <3>5. \A i \in 1 .. Len(history') : i \in 1 .. Len(history) \/ history'[i] = e
        BY <3>4
      <3>6. NamesProposal(e, prop)
        BY <1>5, <3>2 DEF NamesProposal
      <3>7. HistoryGood'
        BY <1>6, <3>4, <3>5, <3>6 DEF IInv, HistoryGood
      <3>8. \A i \in 1 .. Len(history') : Clean(history'[i].before, prop)
        BY <1>3, <3>2, <3>4, <3>5, DiskClean
      <3>9. ASSUME ~issued.overlap, NEW p \in Proposals, prop'[p] # None PROVE Applied(p, prop'[p], history')
        <4>1. CASE q.op = "apply" /\ p = q.of
          <5>1. Applying(q, prop, disk) /\ Applied(p, prop[p], history)
            BY <1>1, <1>5, <3>9, <4>1, Single DEF IInv, AppliedGood
          <5>2. /\ prop[p].status = "pending" /\ q.before = prop[p].base /\ q.after = Overlaid(prop[p], p)
                /\ Applies(e, p)
            BY <1>1, <3>2, <4>1, <5>1 DEF Applying, Applies
          <5> QED BY <1>2, <1>5, <3>2, <3>3, <4>1, <5>1, <5>2, AppliedNow
        <4>2. CASE ~ (q.op = "apply" /\ p = q.of)
          <5>1. prop'[p] = prop[p] /\ ~Applies(e, p)
            BY <1>5, <3>2, <4>2 DEF Applies
          <5>2. Applied(p, prop[p], history)
            BY <3>9, <5>1 DEF IInv, AppliedGood
          <5> QED BY <1>2, <3>2, <3>3, <5>1, <5>2, AppliedElsewhere
        <4> QED BY <4>1, <4>2
      <3> QED BY <3>4, <3>7, <3>8, <3>9
    <2> QED BY <2>1, <2>2
  <1>8. TypeOK'
    <2>1. skill' \in BOOLEAN
      BY <1>1 DEF IInv, TypeOK
    <2>2. req' \in [Requests -> ReqType]
      BY <1>1, IdleOK, Running
    <2> QED BY <1>1, <1>4, <1>5, <1>7, <2>1, <2>2 DEF IInv, TypeOK
  <1>9. OnlyCheckedContent'
    <2>1. /\ \A f \in Files : disk'[f] \in Checked(prop')
          /\ \A x \in index' : x.content \in Checked(prop')
          /\ \A i \in 1 .. Len(history'), f \in Files : history'[i].before[f] \in Checked(prop')
      BY <1>1, <1>4, <1>6, <1>7, DiskClean DEF Clean
    <2> QED BY <2>1 DEF OnlyCheckedContent, Checked
  <1>10. AppliedGood'
    BY <1>1, <1>7 DEF AppliedGood
  <1> QED BY <1>1, <1>4, <1>5, <1>7, <1>8, <1>9, <1>10, EndStep

----------------------------------------------------------------------------
(* Proposals are made at any time.                                         *)

\* Propose keeps the invariant.
LEMMA ProposeStep ==
  ASSUME IInv, NEW p \in Proposals, NEW files \in FileSets, NEW quality \in Qualities, Propose(p, files, quality)
  PROVE  IInv'
  <1> DEFINE row == [status |-> "pending", files |-> files, quality |-> quality, base |-> disk]
  <1>1. /\ prop[p] = None /\ prop' = [prop EXCEPT ![p] = row]
        /\ UNCHANGED <<disk, skill, index, history, req, issued, torn>>
    BY DEF Propose
  <1>2. row \in ProposalRecord /\ row.status = "pending"
    BY DiskClean DEF ProposalRecord, Statuses, FileSets
  <1> HIDE DEF row
  <1>3. /\ prop \in [Proposals -> ProposalRecord \cup {None}]
        /\ prop' \in [Proposals -> ProposalRecord \cup {None}] /\ prop'[p] = row
        /\ \A o \in Proposals \ {p} : prop'[o] = prop[o]
    BY <1>1, <1>2 DEF IInv, TypeOK
  <1>4. Grows(prop, prop')
    BY <1>1, <1>3 DEF Grows
  <1>5. TypeOK'
    BY <1>1, <1>3 DEF IInv, TypeOK
  <1>6. /\ Checked(prop) \subseteq Checked(prop') /\ \A e : NamesProposal(e, prop) => NamesProposal(e, prop')
        /\ \A q : RequestOK(q, prop) => RequestOK(q, prop')
    BY <1>4, RequestKept
  <1>7. HistoryGood' /\ RequestsGood' /\ Alone' /\ MirrorGood'
    BY <1>1, <1>6 DEF IInv, HistoryGood, RequestsGood, Alone, MirrorGood
  <1>8. OnlyCheckedContent'
    BY <1>1, <1>6 DEF IInv, OnlyCheckedContent, Checked
  <1>9. AppliedGood'
    <2>1. Applications(history, p) = {}
      BY <1>1 DEF IInv, HistoryGood, NamesProposal, Applications
    <2>2. Applied(p, row, history)
      BY <1>2, <2>1 DEF Applied
    <2> QED BY <1>1, <1>3, <2>2 DEF IInv, AppliedGood
  <1>10. ApplyingGood'
    <2> SUFFICES ASSUME ~issued.overlap, NEW r \in Requests PROVE Applying(req[r], prop', disk)
      BY <1>1 DEF ApplyingGood
    <2>1. Applying(req[r], prop, disk) /\ RequestOK(req[r], prop)
      BY Running DEF IInv, ApplyingGood
    <2>2. CASE req[r].pc = "decided" \/ req[r].op = "apply"
      <3>1. prop'[req[r].of] = prop[req[r].of]
        BY <1>1, <1>3, <2>1, <2>2 DEF RequestOK
      <3> QED BY <2>1, <3>1 DEF Applying
    <2>3. CASE ~ (req[r].pc = "decided" \/ req[r].op = "apply")
      BY <2>3 DEF Applying
    <2> QED BY <2>2, <2>3
  <1> QED BY <1>5, <1>7, <1>8, <1>9, <1>10 DEF IInv

----------------------------------------------------------------------------
\* The invariant holds initially.
LEMMA InitIInv == ASSUME Init PROVE IInv
  <1>1. disk \in Dir /\ \A f \in Files : disk[f] \in {"seed", None}
    BY DEF Init, EmptyDir, SeedDir, Dir, Contents
  <1>2. index \subseteq Row /\ \A x \in index : \E f \in Files : x.content = disk[f]
    BY <1>1, MirrorRows DEF Init
  <1>3. <<>> \in Seq(Entry) /\ Len(<<>>) = 0 /\ 1 .. 0 = {}
    OBVIOUS
  <1>4. TypeOK
    <2>1. issued \in [ops: 0 .. OpBound, crashes: 0 .. CrashBound, overlap: BOOLEAN]
      BY SkillEvolutionAssumption DEF Init
    <2>2. req \in [Requests -> ReqType] /\ prop \in [Proposals -> ProposalRecord \cup {None}]
      BY IdleOK DEF Init
    <2>3. skill \in BOOLEAN /\ torn \in BOOLEAN /\ history \in Seq(Entry)
      BY <1>3 DEF Init
    <2> QED BY <1>1, <1>2, <2>1, <2>2, <2>3 DEF TypeOK
  <1>5. \A r \in Requests : req[r] = IdleReq
    BY DEF Init
  <1>6. HistoryGood /\ RequestsGood /\ Alone
    BY <1>3, <1>5, IdleOK DEF Init, HistoryGood, HasLatest, RequestsGood, Alone
  <1>7. OnlyCheckedContent
    BY <1>1, <1>2, <1>3 DEF Init, OnlyCheckedContent
  <1>8. AppliedGood
    BY DEF Init, AppliedGood
  <1>9. ApplyingGood /\ MirrorGood
    <2>1. Mirrored(index, disk, torn)
      BY DEF Init, Mirrored
    <2>2. Rescanned(IdleReq, index, disk)
      BY DEF Rescanned, IdleReq
    <2> QED BY <1>5, <2>1, <2>2, IdleOK DEF ApplyingGood, MirrorGood
  <1> QED BY <1>4, <1>6, <1>7, <1>8, <1>9 DEF IInv

\* Every step keeps the invariant.
LEMMA NextIInv == ASSUME IInv, [Next]_vars PROVE IInv'
  <1>1. CASE UNCHANGED vars
    BY <1>1 DEF vars, IInv, TypeOK, HistoryGood, RequestsGood, OnlyCheckedContent, Alone, AppliedGood,
                ApplyingGood, MirrorGood
  <1>2. ASSUME NEW r \in Requests, Step(r) PROVE IInv'
    BY <1>2, ApplyLoadStep, RejectLoadStep, RollbackLoadStep, ScanLoadStep, ApplyCheckStep, WriteFileStep,
       DecideStep, ScanStep, CommitStep, DieStep DEF Step
  <1> QED BY <1>1, <1>2, ProposeStep DEF Next

\* The invariant holds throughout.
LEMMA Inductive == Spec => []IInv
  BY InitIInv, NextIInv, PTL DEF Spec

----------------------------------------------------------------------------
\* The directory, its mirror, the proposals, the history and every open
\* request stay well formed.
THEOREM SkillTypeCorrect == Spec => []TypeOK
  <1>1. IInv => TypeOK
    BY DEF IInv
  <1> QED BY <1>1, Inductive, PTL

\* However requests interleave and die, nothing of a proposal that fails lint
\* or its tests reaches the directory, the mirror or a snapshot.
THEOREM OnlyCheckedContentHolds == Spec => []OnlyCheckedContent
  <1>1. IInv => OnlyCheckedContent
    BY DEF IInv
  <1> QED BY <1>1, Inductive, PTL

\* Requests one at a time: a proposal is applied once, to the files it was made
\* for, and changes nothing else, wherever requests die.
THEOREM AppliedOnItsBaseHolds == Spec => []AppliedOnItsBase
  <1>1. ASSUME IInv, ~issued.overlap, NEW p \in Proposals, prop[p] # None
        PROVE  /\ prop[p].status = "applied" <=> AppliesOf(p) # {}
               /\ Cardinality(AppliesOf(p)) <= 1
               /\ \A i \in AppliesOf(p) : /\ history[i].before = prop[p].base
                                          /\ history[i].after = Overlay(prop[p].base, p)
    <2>1. Applied(p, prop[p], history)
      BY <1>1 DEF IInv, AppliedGood
    <2>2. AppliesOf(p) = Applications(history, p) /\ Overlay(prop[p].base, p) = Overlaid(prop[p], p)
      BY DEF AppliesOf, Applications, Overlay, Overlaid
    <2>3. Cardinality(AppliesOf(p)) <= 1
      <3>1. CASE AppliesOf(p) = {}
        BY <3>1, FS_EmptySet
      <3>2. CASE AppliesOf(p) # {}
        <4>1. PICK i : AppliesOf(p) = {i}
          BY <2>1, <2>2, <3>2 DEF Applied
        <4>2. Cardinality({i}) = 1
          BY FS_Singleton
        <4> QED BY <4>1, <4>2
      <3> QED BY <3>1, <3>2
    <2> QED BY <2>1, <2>2, <2>3 DEF Applied
  <1>2. IInv => AppliedOnItsBase
    BY <1>1 DEF AppliedOnItsBase
  <1> QED BY <1>2, Inductive, PTL

\* Each file has one row.
LEMMA MirrorCounts ==
  ASSUME NEW d \in Dir, NEW n \in Nat
  PROVE  Cardinality(Mirror(d, n)) = Cardinality({f \in Files : d[f] # None})
  <1> DEFINE fs == {f \in Files : d[f] # None}
             row == [f \in fs |-> [file |-> f, content |-> d[f], scan |-> n]]
  <1>1. IsFiniteSet(fs)
    BY FS_Subset, SkillEvolutionAssumption
  <1>2. row \in Bijection(fs, Mirror(d, n))
    <2>1. row \in [fs -> Mirror(d, n)]
      BY DEF Mirror
    <2>2. \A f, g \in fs : row[f] = row[g] => f = g
      OBVIOUS
    <2>3. \A x \in Mirror(d, n) : \E f \in fs : row[f] = x
      BY DEF Mirror
    <2> HIDE DEF row, fs
    <2> QED BY <2>1, <2>2, <2>3 DEF Bijection, Injection, Surjection, IsInjective
  <1>3. ExistsBijection(fs, Mirror(d, n))
    BY <1>2 DEF ExistsBijection
  <1> QED BY <1>1, <1>3, FS_Bijection

\* Requests one at a time: between requests the rows of skill_files are the
\* files of the directory, unless a request died and no scan followed.
THEOREM IndexMirrorsHolds == Spec => []IndexMirrors
  <1>1. ASSUME IInv, ~issued.overlap, ~torn, \A r \in Requests : req[r].pc = "idle", disk[Main] # None
        PROVE  /\ {<<x.file, x.content>> : x \in index}
                     = {<<f, disk[f]>> : f \in {g \in Files : disk[g] # None}}
               /\ Cardinality(index) = Cardinality({f \in Files : disk[f] # None})
    <2>1. \A r \in Requests : ~Dirty(req[r])
      BY <1>1 DEF Dirty
    <2>2. PICK n \in Nat : index = Mirror(disk, n)
      BY <1>1, <2>1 DEF IInv, MirrorGood, Mirrored
    <2>3. disk \in Dir
      BY <1>1, DiskClean
    <2>4. Cardinality(index) = Cardinality({f \in Files : disk[f] # None})
      BY <2>2, <2>3, MirrorCounts
    <2>5. {<<x.file, x.content>> : x \in index} = {<<f, disk[f]>> : f \in {g \in Files : disk[g] # None}}
      <3> DEFINE fs == {g \in Files : disk[g] # None}
      <3>1. \A x \in index : x.file \in fs /\ x.content = disk[x.file]
        BY <2>2 DEF Mirror
      <3>2. ASSUME NEW f \in fs PROVE \E x \in index : x.file = f /\ x.content = disk[f]
        <4> DEFINE x == [file |-> f, content |-> disk[f], scan |-> n]
        <4>1. x \in index /\ x.file = f /\ x.content = disk[f]
          BY <2>2 DEF Mirror
        <4> QED BY <4>1
      <3> HIDE DEF fs
      <3>3. {<<x.file, x.content>> : x \in index} = {<<f, disk[f]>> : f \in fs}
        BY <3>1, <3>2
      <3> QED BY <3>3 DEF fs
    <2> QED BY <2>4, <2>5
  <1>2. IInv => IndexMirrors
    BY <1>1 DEF IndexMirrors
  <1> QED BY <1>2, Inductive, PTL

=============================================================================
