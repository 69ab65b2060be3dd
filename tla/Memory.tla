------------------------------- MODULE Memory -------------------------------
(***************************************************************************)
(* Long-term memory (src/backend/domain/memory.py): rows of the memories   *)
(* table, their entries in MEMORY.md, the history rows and the proposals   *)
(* that change a memory or append to the file (domain/workspace.py).       *)
(* A request reads and rewrites the whole file step by step and commits    *)
(* its rows at the end, so requests overlap in both.  People edit the file.*)
(***************************************************************************)
EXTENDS Naturals, Sequences, FiniteSets

CONSTANTS
    Ids,         \* memory ids
    Contents,    \* contents of a memory
    FirstLine,   \* what a line of MEMORY.md keeps of a content
    Requests,    \* requests that may run at the same time
    Proposals,
    EditedLines, \* what people may make of an entry; None removes it
    CandidateLimit, \* rows a new memory is compared with at most (50 in the code)
    OpBound,     \* bound: requests, proposals and edits in a behaviour
    TroubleBound, \* bound: overlaps, crashes and failed writes in a behaviour
    None

ASSUME FirstLineAssumption ==
    /\ FirstLine \in [Contents -> Contents]
    /\ \A c \in Contents : FirstLine[FirstLine[c]] = FirstLine[c]

VARIABLES
    rows,       \* the memories table
    hist,       \* snapshots a history row can restore
    conflicts,  \* the memory_conflicts table
    prop,       \* the evolution_proposals table
    file,       \* MEMORY.md: entries by marker, and appended proposal texts
    tx,         \* the session of each request, or None
    used,       \* ids given out
    made,       \* history: what happened so far that a property excepts
    spent       \* operations and troubles so far

vars == <<rows, hist, conflicts, prop, file, tx, used, made, spent>>

MEMORY_EXPIRED_STATUSES == {"archived", "superseded"}
Statuses == {"active"} \cup MEMORY_EXPIRED_STATUSES
MaxLevel == 1  \* confidence and stability, clamped

Row == [content: Contents, status: Statuses, archived: BOOLEAN,
        level: 0 .. MaxLevel, by: Ids \cup {None}]
Line == [content: {FirstLine[c] : c \in Contents}, status: Statuses, level: 0 .. MaxLevel]
Snapshot == [id: Ids, content: Contents, status: Statuses, archived: BOOLEAN, level: 0 .. MaxLevel]
FileActions == {"append_file", "replace_file"}  \* update_file is replace_file
Actions == {"create", "supersede", "archive", "verify"} \cup FileActions
Proposal == [status: {"pending", "applied", "rejected"}, action: Actions, target: Ids \cup {None}]
File == [entries: [Ids -> Line \cup {None}], texts: [Proposals -> Nat]]

\* The rows of a table or of a session, the rewrites of the file that a session
\* has ahead, the pairs of memories that a conflict names, and the session.
Table == [Ids -> Row \cup {None}]
Rewrite == {"append", "rewrite"} \X Ids \cup {"text", "replace"} \X Proposals
Pair == {{m, q} : m, q \in Ids}
Operations == {"create", "supersede", "archive", "verify", "restore", "sync", "append", "reject"}
MemorySession ==
    [pc: {"flush", "load", "file"}, op: Operations, base: Table, view: Table,
     todo: Seq(Rewrite), snaps: SUBSET Snapshot, copy: File \cup {None},
     noted: SUBSET Pair, prop: Proposals \cup {None}, alone: BOOLEAN]
History == [overlap: BOOLEAN, edit: BOOLEAN, calm: BOOLEAN, revived: SUBSET Ids,
            cut: SUBSET Pair, overwritten: SUBSET Proposals]

ASSUME MemoryAssumption ==
    /\ EditedLines \subseteq Line \cup {None}
    /\ OpBound \in Nat /\ TroubleBound \in Nat /\ CandidateLimit \in Nat

ASSUME NoneAssumption ==
    None \notin Ids \cup Proposals \cup Row \cup Line \cup Proposal \cup File \cup MemorySession

SnapshotOf(m, row) == [id |-> m, content |-> row.content, status |-> row.status,
                      archived |-> row.archived, level |-> row.level]

\* Sync reads one line per entry, so of a longer content only its first line.
MemoryFileLine(row) == [content |-> FirstLine[row.content], status |-> row.status, level |-> row.level]

NewRow(c, level) == [content |-> c, status |-> "active", archived |-> FALSE, level |-> level, by |-> None]
Hidden(row, status) == [row EXCEPT !.status = status, !.archived = TRUE]

\* Mutant: only the flag counts, as in MemoryService.list.
InactiveByFlag(row) == row.archived

IsInactive(row) == row.archived \/ row.status \in MEMORY_EXPIRED_STATUSES

\* The two columns that hide a memory say the same.
FlagsAgree(row) == row.archived <=> row.status \in MEMORY_EXPIRED_STATUSES

Visible(m) == rows[m] # None /\ ~IsInactive(rows[m])

NoTexts == [p \in Proposals |-> 0]
EmptyFile == [entries |-> [m \in Ids |-> None], texts |-> NoTexts]

Init ==
    /\ rows = [m \in Ids |-> None]
    /\ hist = {}
    /\ conflicts = {}
    /\ prop = [p \in Proposals |-> None]
    /\ file = EmptyFile
    /\ tx = [r \in Requests |-> None]
    /\ used = {}
    /\ made = [overlap |-> FALSE, edit |-> FALSE, calm |-> TRUE, revived |-> {},
               cut |-> {}, overwritten |-> {}]
    /\ spent = [ops |-> 0, troubles |-> 0]

----------------------------------------------------------------------------
(* A session: base is what it loaded, view what it will write, todo the    *)
(* file rewrites ahead, copy the file as last read.                        *)

NoRows == [m \in Ids |-> None]
Only(m, row) == [q \in Ids |-> IF q = m THEN row ELSE None]
Of(table) == {m \in Ids : table[m] # None}

Session(op, base, view, todo, snaps) ==
    [pc |-> "file", op |-> op, base |-> base, view |-> view, todo |-> todo, snaps |-> snaps,
     copy |-> None, noted |-> {}, prop |-> None, alone |-> TRUE]

Running == {r \in Requests : tx[r] # None}
Exists(m) == rows[m] # None
Spend(troubles) ==
    /\ spent.ops < OpBound
    /\ spent.troubles + troubles <= TroubleBound
    /\ spent' = [ops |-> spent.ops + 1, troubles |-> spent.troubles + troubles]

Trouble ==
    /\ spent.troubles < TroubleBound
    /\ spent' = [spent EXCEPT !.troubles = @ + 1]

\* A request starts; every request it overlaps stops being alone.
Start(r, session) ==
    /\ tx[r] = None
    /\ Spend(IF Running = {} THEN 0 ELSE 1)
    /\ IF Running = {}
         THEN tx' = [tx EXCEPT ![r] = session] /\ UNCHANGED made
         ELSE /\ tx' = [q \in Requests |-> IF q = r THEN [session EXCEPT !.alone = FALSE]
                        ELSE IF tx[q] = None THEN None ELSE [tx[q] EXCEPT !.alone = FALSE]]
              /\ made' = [made EXCEPT !.overlap = TRUE, !.calm = FALSE]
    /\ UNCHANGED <<rows, hist, conflicts, prop, file>>

\* create: with supersedes_id the previous row is hidden, and its entry left.
Creating(m, c, p) ==
    [Session("create",
        [q \in Ids |-> IF q = p THEN rows[q] ELSE None],
        [q \in Ids |-> CASE q = m -> NewRow(c, 0)
                        [] q = p -> Hidden(rows[q], "superseded")
                        [] OTHER -> None],
        <<<<"append", m>>>>,
        {SnapshotOf(m, NewRow(c, 0))} \cup {SnapshotOf(q, rows[q]) : q \in {p} \ {None}})
     EXCEPT !.pc = "flush"]

\* Mutant: supersede leaves the old entry as it is, like create.
SupersedingQuietly(m, c, p) ==
    [Creating(m, c, p) EXCEPT !.op = "supersede", !.view[p].by = m]

\* supersede: the old row is hidden first, so the history row that create
\* writes for it already shows it hidden; then both entries are rewritten.
Superseding(m, c, p) ==
    LET old == Hidden(rows[p], "superseded")
        new == NewRow(c, rows[p].level)
    IN [Session("supersede",
            Only(p, rows[p]),
            [Only(p, [old EXCEPT !.by = m]) EXCEPT ![m] = new],
            <<<<"append", m>>, <<"rewrite", p>>, <<"rewrite", m>>>>,
            {SnapshotOf(m, new), SnapshotOf(p, rows[p]), SnapshotOf(p, old)})
        EXCEPT !.pc = "flush"]

\* archive, mark_verified and restore change one row and rewrite its entry.
Changing(op, m, row) ==
    Session(op, Only(m, rows[m]), Only(m, row), <<<<"rewrite", m>>>>, {SnapshotOf(m, rows[m])})

archive(m) == Changing("archive", m, Hidden(rows[m], "archived"))

mark_verified(m) ==
    Changing("verify", m, [rows[m] EXCEPT !.level = IF @ < MaxLevel THEN @ + 1 ELSE @])

\* superseded_by is not part of a snapshot and stays.
ApplySnapshot(h) ==
    [rows[h.id] EXCEPT !.content = h.content, !.status = h.status,
                       !.archived = h.archived, !.level = h.level]

Fresh(m) == m \notin used

\* The admin API (api/admin/memory.py) and the agent's memory tools.
CreateRequest(r, m, c, p) ==
    /\ Fresh(m)
    /\ p # None => Exists(p)
    /\ Start(r, Creating(m, c, p))
    /\ used' = used \cup {m}

SupersedeRequest(r, m, c, p) ==
    /\ Fresh(m)
    /\ Exists(p)
    /\ Start(r, Superseding(m, c, p))
    /\ used' = used \cup {m}

ArchiveRequest(r, m) == Exists(m) /\ Start(r, archive(m)) /\ UNCHANGED used
VerifyRequest(r, m) == Exists(m) /\ Start(r, mark_verified(m)) /\ UNCHANGED used

\* A history row is committed with its memory, so the row is there.
RestoreRequest(r, h) ==
    /\ h \in hist
    /\ Start(r, Changing("restore", h.id, ApplySnapshot(h)))
    /\ UNCHANGED used

At(r, pc) == tx[r] # None /\ tx[r].pc = pc

\* A rewrite whose marker is not in the file writes nothing.
Absent(r) ==
    /\ Head(tx[r].todo)[1] = "rewrite"
    /\ tx[r].copy.entries[Head(tx[r].todo)[2]] = None

\* A session that has read the file and is about to write it.
Writing(r) ==
    /\ At(r, "file")
    /\ tx[r].todo # <<>>
    /\ tx[r].copy # None
    /\ ~Absent(r)

\* write_text empties the file before it writes: a reader may come between.
Readable(r) == {file} \cup {EmptyFile : q \in {s \in Requests \ {r} : Writing(s)}}

SyncRequest(r) ==
    /\ \E copy \in Readable(r) :
          Start(r, [Session("sync", NoRows, NoRows, <<>>, {}) EXCEPT !.pc = "load", !.copy = copy])
    /\ UNCHANGED used

\* WorkspaceService.apply_proposal on MEMORY.md: append_file adds a text,
\* replace_file puts one in the place of the whole file.
WritingText(p) ==
    Session("append", NoRows, NoRows,
            <<<<IF prop[p].action = "append_file" THEN "text" ELSE "replace", p>>>>, {})

\* EvolutionService.apply sends memory proposals to MemoryService and file
\* proposals to WorkspaceService; both look at the status as loaded.
ApplyRequest(r, p, m, c) ==
    /\ prop[p] # None
    /\ prop[p].status = "pending"
    /\ LET t == prop[p].target
           Applying(session) == Start(r, [session EXCEPT !.prop = p])
       IN \/ prop[p].action = "create" /\ Fresh(m) /\ Applying(Creating(m, c, None)) /\ used' = used \cup {m}
          \/ prop[p].action = "supersede" /\ Fresh(m) /\ Exists(t) /\ Applying(Superseding(m, c, t))
             /\ used' = used \cup {m}
          \/ prop[p].action = "archive" /\ Exists(t) /\ Applying(archive(t)) /\ UNCHANGED used
          \/ prop[p].action = "verify" /\ Exists(t) /\ Applying(mark_verified(t)) /\ UNCHANGED used
          \/ prop[p].action \in FileActions /\ Applying(WritingText(p)) /\ UNCHANGED used

RejectRequest(r, p) ==
    /\ prop[p] # None
    /\ prop[p].status = "pending"
    /\ Start(r, [Session("reject", NoRows, NoRows, <<>>, {}) EXCEPT !.prop = p])
    /\ UNCHANGED used

Propose(p, a, t) ==
    /\ prop[p] = None
    /\ a \in {"create"} \cup FileActions <=> t = None
    /\ t # None => Exists(t)
    /\ Spend(0)
    /\ prop' = [prop EXCEPT ![p] = [status |-> "pending", action |-> a, target |-> t]]
    /\ UNCHANGED <<rows, hist, conflicts, file, tx, used, made>>

----------------------------------------------------------------------------
(* The steps of a session.                                                 *)

\* create flushes: the INSERT, and the UPDATE of the superseded row, whose
\* lock it keeps until it ends.
Locked(r) == {m \in Ids : \E q \in Requests \ {r} :
                 /\ tx[q] # None
                 /\ tx[q].op \in {"create", "supersede"}
                 /\ tx[q].pc = "file"
                 /\ m \in Of(tx[q].base)}

\* _detect_conflicts compares the new memory with rows that are not archived, at
\* most so many.  It takes the rows updated last; here any of them.
Comparable(r) == {x \in Ids \ Of(tx[r].base) : Exists(x) /\ ~rows[x].archived}
Candidates(r) ==
    {some \in SUBSET Comparable(r) :
        \/ some = Comparable(r)
        \/ Cardinality(some) = CandidateLimit}

\* Mutant: a row that is in a conflict already is passed over, whatever the other
\* memory of that conflict is.
DetectConflictsOnce(r, new, candidates) ==
    {{new, q} : q \in {x \in candidates : /\ rows[x].content # tx[r].view[new].content
                                          /\ \A pair \in conflicts : x \notin pair}}

\* All contents of the model are versions of one fact, so any two that differ
\* are similar.
DetectConflicts(r, new, candidates) ==
    {{new, q} : q \in {x \in candidates : rows[x].content # tx[r].view[new].content}}

Flush(r) ==
    /\ At(r, "flush")
    /\ Of(tx[r].base) \cap Locked(r) = {}
    /\ \E new \in Of(tx[r].view) \ Of(tx[r].base), candidates \in Candidates(r) :
          /\ candidates # Comparable(r) => Cardinality(Comparable(r)) > CandidateLimit
          /\ tx' = [tx EXCEPT ![r].pc = "file", ![r].noted = DetectConflicts(r, new, candidates)]
          /\ made' = [made EXCEPT !.cut = @ \cup {{new, q} : q \in Comparable(r) \ candidates}]
    /\ UNCHANGED <<rows, hist, conflicts, prop, file, used, spent>>

\* sync_from_memory_file: each entry that has a row overwrites it.
Synced(row, line) ==
    [row EXCEPT !.content = line.content, !.status = line.status,
                !.archived = line.status \in MEMORY_EXPIRED_STATUSES, !.level = line.level]

SyncLoad(r) ==
    /\ At(r, "load")
    /\ LET seen == {m \in Ids : tx[r].copy.entries[m] # None /\ Exists(m)}
       IN tx' = [tx EXCEPT ![r].pc = "file", ![r].base = [m \in Ids |-> IF m \in seen THEN rows[m] ELSE None],
                           ![r].view = [m \in Ids |-> IF m \in seen THEN Synced(rows[m], tx[r].copy.entries[m])
                                                                     ELSE None]]
    /\ UNCHANGED <<rows, hist, conflicts, prop, file, used, made, spent>>

\* workspace.read("memory"), the first half of a rewrite.
FileRead(r) ==
    /\ At(r, "file")
    /\ tx[r].todo # <<>>
    /\ tx[r].copy = None
    /\ \E copy \in Readable(r) : tx' = [tx EXCEPT ![r].copy = copy]
    /\ UNCHANGED <<rows, hist, conflicts, prop, file, used, made, spent>>

Done(r) == tx' = [tx EXCEPT ![r].copy = None, ![r].todo = Tail(@)]

\* The second half writes the whole file back, from the copy.
FileWrite(r) ==
    /\ At(r, "file")
    /\ tx[r].todo # <<>>
    /\ tx[r].copy # None
    /\ LET how == Head(tx[r].todo)[1]
           what == Head(tx[r].todo)[2]
           copy == tx[r].copy
       IN /\ how # "replace"
          /\ file' = CASE Absent(r) -> file
                       [] how = "text" -> [copy EXCEPT !.texts[what] = @ + 1]
                       [] OTHER -> [copy EXCEPT !.entries[what] = MemoryFileLine(tx[r].view[what])]
    /\ Done(r)
    /\ UNCHANGED <<rows, hist, conflicts, prop, used, made, spent>>

\* The proposals whose text is in the file.
InFile == {p \in Proposals : file.texts[p] > 0}

\* A replacing text takes the place of every entry and of every other text.
FileReplace(r) ==
    /\ At(r, "file")
    /\ tx[r].todo # <<>>
    /\ tx[r].copy # None
    /\ Head(tx[r].todo)[1] = "replace"
    /\ LET p == Head(tx[r].todo)[2]
       IN /\ file' = [EmptyFile EXCEPT !.texts[p] = 1]
          /\ made' = [made EXCEPT !.edit = TRUE, !.calm = FALSE, !.overwritten = @ \cup (InFile \ {p})]
    /\ Done(r)
    /\ UNCHANGED <<rows, hist, conflicts, prop, used, spent>>

\* An error of the file system, before the write or in its middle, when the file is
\* already empty.
Damage(r) ==
    \/ /\ made' = [made EXCEPT !.edit = TRUE, !.calm = FALSE]
       /\ UNCHANGED file
    \/ /\ Writing(r)
       /\ made' = [made EXCEPT !.edit = TRUE, !.calm = FALSE, !.overwritten = @ \cup InFile]
       /\ file' = EmptyFile

\* The error is caught where an entry is written, and the request goes on.
FileFault(r) ==
    /\ At(r, "file")
    /\ tx[r].todo # <<>>
    /\ Head(tx[r].todo)[1] \in {"append", "rewrite"}
    /\ Done(r)
    /\ Trouble
    /\ Damage(r)
    /\ UNCHANGED <<rows, hist, conflicts, prop, used>>

\* The commit sends the columns that differ from what was loaded.
Sent(new, old, now) == IF new = old THEN now ELSE new
Merged(new, old, now) ==
    [content |-> Sent(new.content, old.content, now.content),
     status |-> Sent(new.status, old.status, now.status),
     archived |-> Sent(new.archived, old.archived, now.archived),
     level |-> Sent(new.level, old.level, now.level),
     by |-> Sent(new.by, old.by, now.by)]
Committed(r, m) ==
    IF m \notin Of(tx[r].view) THEN rows[m]
    ELSE IF m \notin Of(tx[r].base) THEN tx[r].view[m]
    ELSE Merged(tx[r].view[m], tx[r].base[m], rows[m])

Changes(r) == {m \in Of(tx[r].base) : tx[r].view[m] # tx[r].base[m]}

\* Ids whose columns the commit changes: by a sync or restore, or otherwise.
Revived(r) ==
    LET hides == {m \in Changes(r) : \/ tx[r].view[m].status # tx[r].base[m].status
                                     \/ tx[r].view[m].archived # tx[r].base[m].archived}
    IN IF tx[r].op \in {"sync", "restore"} THEN made.revived \cup Changes(r) ELSE made.revived \ hides

\* The proposal the request was about, if any.
Decided(r) == IF tx[r].prop = None THEN prop
              ELSE [prop EXCEPT ![tx[r].prop].status = IF tx[r].op = "reject" THEN "rejected" ELSE "applied"]

\* Mutant: the rows are committed before the file is written.
CommitReadyEarly(r) == At(r, "file")

CommitReady(r) == At(r, "file") /\ tx[r].todo = <<>>

Commit(r) ==
    /\ CommitReady(r)
    /\ Changes(r) \cap Locked(r) = {}
    /\ rows' = [m \in Ids |-> Committed(r, m)]
    /\ hist' = hist \cup tx[r].snaps
    /\ conflicts' = conflicts \cup tx[r].noted
    /\ prop' = Decided(r)
    /\ made' = [made EXCEPT !.revived = Revived(r),
                  !.calm = CASE tx[r].op = "sync" -> tx[r].alone
                             [] tx[r].op = "create" /\ Of(tx[r].base) # {} -> FALSE
                             [] tx[r].op = "restore" -> @ /\ \A m \in Of(tx[r].view) : FlagsAgree(tx[r].view[m])
                             [] OTHER -> @]
    /\ tx' = [tx EXCEPT ![r] = None]
    /\ UNCHANGED <<file, used, spent>>

\* The request dies, or an exception rolls it back; the file stays written.
Crash(r) ==
    /\ tx[r] # None
    /\ tx' = [tx EXCEPT ![r] = None]
    /\ Trouble
    /\ made' = [made EXCEPT !.calm = FALSE]
    /\ UNCHANGED <<rows, hist, conflicts, prop, file, used>>

\* It dies in the middle of a write.
CrashWriting(r) ==
    /\ Writing(r)
    /\ tx' = [tx EXCEPT ![r] = None]
    /\ Trouble
    /\ Damage(r)
    /\ UNCHANGED <<rows, hist, conflicts, prop, used>>

\* Somebody changes or removes an entry, and may remove the texts with it: an
\* administrator saves the whole file.
Edit(m, line, keep) ==
    /\ file.entries[m] # None
    /\ line # file.entries[m]
    /\ Spend(0)
    /\ file' = [entries |-> [file.entries EXCEPT ![m] = line], texts |-> IF keep THEN file.texts ELSE NoTexts]
    /\ tx' = [q \in Requests |-> IF tx[q] = None THEN None ELSE [tx[q] EXCEPT !.alone = FALSE]]
    /\ made' = [made EXCEPT !.edit = TRUE, !.calm = FALSE, !.overwritten = @ \cup (IF keep THEN {} ELSE InFile)]
    /\ UNCHANGED <<rows, hist, conflicts, prop, used>>

Requested(r) ==
    \/ \E m \in Ids, c \in Contents, p \in Ids \cup {None} : CreateRequest(r, m, c, p)
    \/ \E m, p \in Ids, c \in Contents : SupersedeRequest(r, m, c, p)
    \/ \E m \in Ids : ArchiveRequest(r, m)
    \/ \E m \in Ids : VerifyRequest(r, m)
    \/ \E h \in hist : RestoreRequest(r, h)
    \/ SyncRequest(r)
    \/ \E p \in Proposals, m \in Ids, c \in Contents : ApplyRequest(r, p, m, c)
    \/ \E p \in Proposals : RejectRequest(r, p)

SessionStep(r) ==
    \/ Flush(r)
    \/ SyncLoad(r)
    \/ FileRead(r)
    \/ FileWrite(r)
    \/ FileReplace(r)
    \/ FileFault(r)
    \/ Commit(r)
    \/ Crash(r)
    \/ CrashWriting(r)

Next ==
    \/ \E r \in Requests : Requested(r)
    \/ \E r \in Requests : SessionStep(r)
    \/ \E p \in Proposals, a \in Actions, t \in Ids \cup {None} : Propose(p, a, t)
    \/ \E m \in Ids, line \in EditedLines, keep \in BOOLEAN : Edit(m, line, keep)

Spec == Init /\ [][Next]_vars

----------------------------------------------------------------------------
(* Properties.                                                             *)

TypeOK ==
    /\ rows \in Table
    /\ hist \subseteq Snapshot
    /\ conflicts \subseteq Pair
    /\ prop \in [Proposals -> Proposal \cup {None}]
    /\ file \in File
    /\ tx \in [Requests -> MemorySession \cup {None}]
    /\ used \subseteq Ids
    /\ made \in History
    /\ spent \in [ops: 0 .. OpBound, troubles: 0 .. TroubleBound]

Agree(line, row) == line = MemoryFileLine(row) /\ FlagsAgree(row)

\* MEMORY.md and the table mirror each other: since the last sync that ran
\* alone (or the start), as long as requests came one by one, none died, nobody
\* touched the file, none used create's supersedes_id and none restored a
\* snapshot whose two flags disagree (an earlier overlap can leave one), every
\* entry shows its row, whichever of create, supersede, archive, verify,
\* restore and apply ran.
MirrorWhenCalm ==
    made.calm /\ Running = {} =>
        \A m \in Ids : Exists(m) /\ file.entries[m] # None => Agree(file.entries[m], rows[m])

\* Search and the resident context never show a memory whose replacement was
\* committed, unless a sync or a restore brought it back, however the requests
\* that write its two flags interleave.
ReplacedIsHidden ==
    \A m \in Ids : Exists(m) /\ rows[m].by # None /\ m \notin made.revived => ~Visible(m)

\* Two visible memories that contradict each other are listed as a conflict,
\* unless their creations overlapped, a sync or restore changed one, or the limit
\* kept the later one from being compared with the earlier.
ConflictsNoted ==
    ~made.overlap =>
        \A m, q \in Ids \ made.revived :
            Visible(m) /\ Visible(q) /\ rows[m].content # rows[q].content => {m, q} \in conflicts \cup made.cut

\* MEMORY.md is written before the commit, so although requests die between any
\* two steps every memory has its entry, and the text of an applied proposal is there
\* once, and once more for every request that died after its write.  Excepted: an
\* overlap, which loses entries and texts; a write that breaks in the middle, an
\* edit and a replace_file proposal, for the entries and for the texts that were in the file.
FileComplete ==
    ~made.overlap =>
        /\ ~made.edit => \A m \in Ids : Exists(m) => file.entries[m] # None
        /\ \A p \in Proposals \ made.overwritten : prop[p] # None =>
             LET applied == IF prop[p].status = "applied" /\ prop[p].action \in FileActions THEN 1 ELSE 0
             IN Running = {} => file.texts[p] \in applied .. applied + spent.troubles
=============================================================================
