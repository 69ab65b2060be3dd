--------------------------- MODULE SkillEvolution ---------------------------
(***************************************************************************)
(* Skill proposals: SkillService.create_proposal, apply_proposal, rollback *)
(* and scan of domain/skills.py and EvolutionService.reject, for one skill *)
(* directory.                                                              *)
(*                                                                         *)
(* A skill is a directory of files with a mirror in the database.  Files   *)
(* are written one by one, at once and for good; the proposal, the history *)
(* and the mirror change when the request commits, if it commits.  The     *)
(* checksum of a snapshot is the snapshot itself.                          *)
(***************************************************************************)
EXTENDS Naturals, Sequences, FiniteSets

CONSTANTS Proposals,   \* ids of evolution_proposals rows
          Requests,    \* admin requests in flight
          Files,       \* paths below the skill directory
          Main,        \* SKILL.md
          OpBound,     \* bound: requests started in a behaviour
          CrashBound,  \* bound: requests that die
          None         \* no such file or row

ASSUME SkillEvolutionAssumption ==
    /\ IsFiniteSet(Files) /\ Main \in Files
    /\ OpBound \in Nat
    /\ CrashBound \in Nat

VARIABLES disk,     \* the skill directory
          skill,    \* the skills table has a row for it
          index,    \* its skill_files rows
          prop,     \* the evolution_proposals table
          history,  \* the skill_history table
          req,      \* requests: their open transaction
          issued,   \* requests started and died so far; two were open at once
          torn      \* history: a request died after writing, no scan since

vars == <<disk, skill, index, prop, history, req, issued, torn>>

\* Each proposal brings contents of its own.
Contents == Proposals \cup {"seed"}
Dir == [Files -> Contents \cup {None}]
EmptyDir == [f \in Files |-> None]
SeedDir == [f \in Files |-> IF f = Main THEN "seed" ELSE None]

\* What lint_files and _test_files will say of the proposed files.
Qualities == {"good", "fails_lint", "fails_tests"}
Statuses == {"pending", "applied", "rejected", "stale"}
ProposalRecord == [status: Statuses, files: SUBSET Files, quality: Qualities, base: Dir]
Row == [file: Files, content: Contents, scan: Nat]
Entry == [action: {"apply_proposal", "rollback"}, of: Proposals \cup {None},
          before: Dir, after: Dir, at: Nat]

ASSUME NoneAssumption == None \notin Contents /\ None \notin ProposalRecord

\* A request: when its transaction began, what it does, the snapshot it took,
\* what it still has to write, and the mirror rows it has deleted.
IdleReq == [pc |-> "idle", at |-> 0, op |-> "scan", of |-> None, verdict |-> "pending",
            before |-> EmptyDir, new |-> EmptyDir, todo |-> {},
            saw |-> FALSE, gone |-> {}, after |-> EmptyDir]

Mirror(d, n) == {[file |-> f, content |-> d[f], scan |-> n] : f \in {g \in Files : d[g] # None}}

\* The skill is new, or came with the workspace seed and was scanned at start.
Init ==
    /\ \/ disk = EmptyDir /\ skill = FALSE
       \/ disk = SeedDir /\ skill = TRUE
    /\ index = Mirror(disk, 0)
    /\ prop = [p \in Proposals |-> None]
    /\ history = <<>>
    /\ req = [r \in Requests |-> IdleReq]
    /\ issued = [ops |-> 0, crashes |-> 0, overlap |-> FALSE]
    /\ torn = FALSE

Start(r, rec) ==
    /\ issued.ops < OpBound
    /\ req[r].pc = "idle"
    /\ issued' = [issued EXCEPT !.ops = @ + 1,
                                !.overlap = @ \/ \E q \in Requests : req[q].pc # "idle"]
    /\ req' = [req EXCEPT ![r] = [rec EXCEPT !.at = issued.ops + 1]]

\* create_proposal remembers the files it was made for.
Propose(p, files, quality) ==
    /\ prop[p] = None
    /\ prop' = [prop EXCEPT ![p] = [status |-> "pending", files |-> files,
                                    quality |-> quality, base |-> disk]]
    /\ UNCHANGED <<disk, skill, index, history, req, issued, torn>>

----------------------------------------------------------------------------
(* apply_proposal                                                          *)

Open(p) == prop[p] # None /\ prop[p].status = "pending"

\* The status as loaded; lint comes first.
ApplyLoad(r, p) ==
    /\ Open(p)
    /\ Start(r, IF prop[p].quality = "fails_lint"
                  THEN [IdleReq EXCEPT !.pc = "decided", !.of = p, !.verdict = "rejected"]
                  ELSE [IdleReq EXCEPT !.pc = "loaded", !.op = "apply", !.of = p])
    /\ UNCHANGED <<disk, skill, index, prop, history, torn>>

\* Mutant: the checksum is not compared.
FreshAlways(r) == TRUE

\* The checksum of the directory is the one the proposal was made for.
Fresh(r) == disk = prop[req[r].of].base

\* Mutant: the tests are not run.
PassesUntested(r) == TRUE

\* _test_files
Passes(r) == prop[req[r].of].quality # "fails_tests"

Verdict(r) == IF ~Fresh(r) THEN "stale" ELSE "rejected"

\* Snapshot, checksum, tests.
ApplyCheck(r) ==
    /\ req[r].pc = "loaded"
    /\ LET p == prop[req[r].of] IN
       req' = [req EXCEPT ![r] =
          IF Fresh(r) /\ Passes(r)
            THEN [@ EXCEPT !.pc = "writing", !.before = disk, !.todo = p.files,
                           !.new = [f \in Files |-> IF f \in p.files THEN req[r].of ELSE None]]
            ELSE [@ EXCEPT !.pc = "decided", !.verdict = Verdict(r)]]
    /\ UNCHANGED <<disk, skill, index, prop, history, issued, torn>>

WriteFile(r, f) ==
    /\ req[r].pc = "writing"
    /\ f \in req[r].todo
    /\ disk' = [disk EXCEPT ![f] = req[r].new[f]]
    /\ req' = [req EXCEPT ![r].todo = @ \ {f},
                          ![r].pc = IF req[r].todo = {f} THEN "scanning" ELSE "writing"]
    /\ UNCHANGED <<skill, index, prop, history, issued, torn>>

\* Rejected or stale: only the status is written, whatever it is by now.
Decide(r) ==
    /\ req[r].pc = "decided"
    /\ prop' = [prop EXCEPT ![req[r].of].status = req[r].verdict]
    /\ req' = [req EXCEPT ![r] = IdleReq]
    /\ UNCHANGED <<disk, skill, index, history, issued, torn>>

RejectLoad(r, p) ==
    /\ Open(p)
    /\ Start(r, [IdleReq EXCEPT !.pc = "decided", !.of = p, !.verdict = "rejected"])
    /\ UNCHANGED <<disk, skill, index, prop, history, torn>>

----------------------------------------------------------------------------
(* rollback and scan                                                       *)

\* created_at is now() of the database: when the transaction began.
Latest == CHOOSE i \in 1 .. Len(history) :
              \A j \in 1 .. Len(history) : history[j].at <= history[i].at

\* The snapshot before the latest change is written back; a file that was
\* not in it stays.
RollbackLoad(r) ==
    /\ history # <<>>
    /\ LET old == history[Latest].before
           todo == {f \in Files : old[f] # None}
       IN  Start(r, [IdleReq EXCEPT !.pc = IF todo = {} THEN "scanning" ELSE "writing",
                                    !.op = "rollback", !.before = disk,
                                    !.new = old, !.todo = todo])
    /\ UNCHANGED <<disk, skill, index, prop, history, torn>>

ScanLoad(r) ==
    /\ Start(r, [IdleReq EXCEPT !.pc = "scanning"])
    /\ UNCHANGED <<disk, skill, index, prop, history, torn>>

\* Mutant: the old rows are kept.
GoneNothing == {}

\* The rows that DELETE finds committed.  Without a SKILL.md the directory is
\* not a skill.
Gone == IF disk[Main] = None THEN {} ELSE index

\* scan deletes the rows at once and inserts the new ones at the commit.
Scan(r) ==
    /\ req[r].pc = "scanning"
    /\ req' = [req EXCEPT ![r].pc = "commit", ![r].saw = skill,
                          ![r].gone = Gone, ![r].after = disk]
    /\ UNCHANGED <<disk, skill, index, prop, history, issued, torn>>

\* Both found no skills row and one has inserted it: the unique index makes
\* the other fail.
Clash(r) == ~req[r].saw /\ skill

EntryOf(q) ==
    CASE q.op = "apply"    -> <<[action |-> "apply_proposal", of |-> q.of,
                                 before |-> q.before, after |-> q.after, at |-> q.at]>>
      [] q.op = "rollback" -> <<[action |-> "rollback", of |-> None,
                                 before |-> q.before, after |-> q.new, at |-> q.at]>>
      [] OTHER -> <<>>

Commit(r) ==
    LET q == req[r]
        scanned == q.after[Main] # None
    IN  /\ q.pc = "commit"
        /\ ~Clash(r)
        /\ skill' = (skill \/ scanned)
        /\ index' = (index \ q.gone) \cup (IF scanned THEN Mirror(q.after, q.at) ELSE {})
        /\ history' = history \o EntryOf(q)
        /\ prop' = IF q.op = "apply" THEN [prop EXCEPT ![q.of].status = "applied"] ELSE prop
        /\ torn' = FALSE
        /\ req' = [req EXCEPT ![r] = IdleReq]
        /\ UNCHANGED <<disk, issued>>

\* A request that dies now leaves files without their rows.
Unrecorded(r) == req[r].op # "scan" /\ req[r].pc \in {"writing", "scanning", "commit"}

CommitFails(r) ==
    /\ req[r].pc = "commit"
    /\ Clash(r)
    /\ torn' = (torn \/ Unrecorded(r))
    /\ req' = [req EXCEPT ![r] = IdleReq]
    /\ UNCHANGED <<disk, skill, index, prop, history, issued>>

\* The request dies, or is rolled back; what it wrote to the disk stays.
Crash(r) ==
    /\ issued.crashes < CrashBound
    /\ req[r].pc # "idle"
    /\ issued' = [issued EXCEPT !.crashes = @ + 1]
    /\ torn' = (torn \/ Unrecorded(r))
    /\ req' = [req EXCEPT ![r] = IdleReq]
    /\ UNCHANGED <<disk, skill, index, prop, history>>

FileSets == {s \in SUBSET Files : Main \in s}

Step(r) ==
    \/ \E p \in Proposals : ApplyLoad(r, p) \/ RejectLoad(r, p)
    \/ RollbackLoad(r)
    \/ ScanLoad(r)
    \/ ApplyCheck(r)
    \/ \E f \in Files : WriteFile(r, f)
    \/ Decide(r)
    \/ Scan(r)
    \/ Commit(r)
    \/ CommitFails(r)
    \/ Crash(r)

Next ==
    \/ \E p \in Proposals, s \in FileSets, q \in Qualities : Propose(p, s, q)
    \/ \E r \in Requests : Step(r)

Spec == Init /\ [][Next]_vars

----------------------------------------------------------------------------
ReqType ==
    [pc: {"idle", "loaded", "writing", "scanning", "commit", "decided"},
     at: 0 .. OpBound, op: {"apply", "rollback", "scan"}, of: Proposals \cup {None}, verdict: Statuses,
     before: Dir, new: Dir, todo: SUBSET Files, saw: BOOLEAN, gone: SUBSET Row, after: Dir]

\* The directory, the tables and the open transactions are well formed.
TypeOK ==
    /\ disk \in Dir
    /\ skill \in BOOLEAN
    /\ index \subseteq Row
    /\ prop \in [Proposals -> ProposalRecord \cup {None}]
    /\ history \in Seq(Entry)
    /\ req \in [Requests -> ReqType]
    /\ issued \in [ops: 0 .. OpBound, crashes: 0 .. CrashBound, overlap: BOOLEAN]
    /\ torn \in BOOLEAN

Overlay(d, p) == [f \in Files |-> IF f \in prop[p].files THEN p ELSE d[f]]
AppliesOf(p) == {i \in 1 .. Len(history) : history[i].action = "apply_proposal" /\ history[i].of = p}

\* As long as requests come one at a time, an applied proposal was applied
\* once, to the very files it was made for, and changed nothing else, although
\* requests may die between any two writes and be repeated (the checksum
\* comparison of apply_proposal).
AppliedOnItsBase ==
    ~issued.overlap => \A p \in Proposals : prop[p] # None =>
        /\ prop[p].status = "applied" <=> AppliesOf(p) # {}
        /\ Cardinality(AppliesOf(p)) <= 1
        /\ \A i \in AppliesOf(p) : /\ history[i].before = prop[p].base
                                   /\ history[i].after = Overlay(prop[p].base, p)

\* As long as requests come one at a time, the rows of skill_files mirror the
\* directory, one row for each file, and the next scan repairs what a request
\* that died has left behind.
IndexMirrors ==
    LET settled == ~issued.overlap /\ ~torn /\ \A r \in Requests : req[r].pc = "idle"
    IN  settled /\ disk[Main] # None =>
        /\ {<<x.file, x.content>> : x \in index}
              = {<<f, disk[f]>> : f \in {g \in Files : disk[g] # None}}
        /\ Cardinality(index) = Cardinality({f \in Files : disk[f] # None})

\* However requests interleave and die, nothing of a proposal that fails lint
\* or its tests is ever in the directory, in the mirror, or in a snapshot that
\* a rollback could bring back.
OnlyCheckedContent ==
    LET checked == {"seed", None} \cup
                   {p \in Proposals : prop[p] # None /\ prop[p].quality = "good"}
    IN  /\ \A f \in Files : disk[f] \in checked
        /\ \A x \in index : x.content \in checked
        /\ \A i \in 1 .. Len(history), f \in Files : history[i].before[f] \in checked
=============================================================================
