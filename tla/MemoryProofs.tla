---------------------------- MODULE MemoryProofs ----------------------------
(***************************************************************************)
(* Safety of long-term memory for any memories, contents, proposals and    *)
(* requests, however they overlap, die or fail to write MEMORY.md.         *)
(***************************************************************************)
EXTENDS Memory, TLAPS

USE DEF History

----------------------------------------------------------------------------
(* The shape of a session, which says what its operation does.             *)

Creates(x) == x.op \in {"create", "supersede"}
New(x) == Of(x.view) \ Of(x.base)

HiddenRow(row) == row.archived /\ row.status \in MEMORY_EXPIRED_STATUSES

\* A new memory is active and replaces nothing by itself.
ShapeNew(x) ==
    /\ Creates(x) => \E n \in Ids : New(x) = {n} /\ x.view[n].by = None /\ FlagsAgree(x.view[n])
    /\ ~Creates(x) => New(x) = {}

\* What becomes of the rows that were loaded.
ShapeOld(x) ==
    /\ Of(x.base) \subseteq Of(x.view)
    /\ \A m \in Of(x.base) :
        /\ x.op \in {"create", "supersede", "archive"} =>
             HiddenRow(x.view[m]) /\ x.view[m].content = x.base[m].content
        /\ x.op = "verify" =>
             /\ x.view[m].content = x.base[m].content
             /\ x.view[m].status = x.base[m].status
             /\ x.view[m].archived = x.base[m].archived
        /\ IF x.op = "supersede" THEN x.view[m].by # None ELSE x.view[m].by = x.base[m].by

\* Where it is, and the rewrites of the file ahead.
ShapeFile(x) ==
    /\ x.pc = "flush" => Creates(x)
    /\ x.op = "sync" => x.todo = <<>> /\ x.copy # None
    /\ x.pc = "load" => x.op = "sync" /\ Of(x.view) = {}
    /\ x.op = "append" => x.prop \in Proposals /\ x.todo \in {<<>>, << <<"text", x.prop>> >>, << <<"replace", x.prop>> >>}
    /\ x.op \in {"append", "reject"} => Of(x.view) = {}
    /\ x.op # "append" => \A i \in 1 .. Len(x.todo) :
         /\ x.todo[i][1] \in {"append", "rewrite"} /\ x.todo[i][2] \in Of(x.view)
         /\ x.todo[i][1] = "append" => x.todo[i][2] \in New(x)

Shape(x) == ShapeNew(x) /\ ShapeOld(x) /\ ShapeFile(x)
Shapes == \A r \in Requests : tx[r] # None => Shape(tx[r])

----------------------------------------------------------------------------
(* Sessions and tables, whatever overlaps.                                 *)

\* Out of sight, or brought back by a sync or a restore.
Gone(m) == IsInactive(rows[m]) \/ m \in made.revived

\* The rows that a session loaded are still there, and hidden if they were;
\* its new ids have no rows; its proposal is of its kind.
LinkRows(x) ==
    /\ \A m \in Of(x.base) : rows[m] # None /\ (IsInactive(x.base[m]) => Gone(m))
    /\ \A m \in New(x) : rows[m] = None /\ m \in used
LinkProp(x) ==
    x.prop # None =>
        /\ prop[x.prop] # None
        /\ x.op = "append" => prop[x.prop].action \in FileActions
        /\ x.op \notin {"append", "reject"} => prop[x.prop].action \notin FileActions
Linked == /\ \A m \in Ids : rows[m] # None => m \in used
          /\ \A h \in hist : rows[h.id] # None
          /\ \A p \in Proposals : prop[p] # None /\ prop[p].target = None
                                  => prop[p].action \in {"create"} \cup FileActions
          /\ \A r \in Requests : tx[r] # None => LinkRows(tx[r]) /\ LinkProp(tx[r])
          /\ \A r \in Requests : tx[r] # None => \A s \in tx[r].snaps : s.id \in Of(tx[r].view)

\* No id is given out twice.
Apart == \A q, r \in Requests : q # r /\ tx[q] # None /\ tx[r] # None => New(tx[q]) \cap New(tx[r]) = {}

----------------------------------------------------------------------------
(* A session that has run alone.                                           *)

Solo(x) == ~made.overlap \/ x.alone
Copied(x) == x.op # "sync" /\ x.copy # None

\* No other session runs, and the rows are what it loaded.
SoloOK(r) ==
    Solo(tx[r]) => /\ \A q \in Requests : tx[q] # None => q = r
                   /\ \A m \in Of(tx[r].base) : tx[r].base[m] = rows[m]
Current == /\ \A r \in Requests : tx[r] # None => SoloOK(r)
           /\ made.calm => \A r \in Requests : tx[r] # None => tx[r].alone

\* A new memory has noted what it contradicts.
NotedOK(x) ==
    ~made.overlap /\ Creates(x) /\ x.pc = "file" =>
        \A n \in New(x), q \in Ids \ Of(x.base) :
            Visible(q) /\ rows[q].content # x.view[n].content => {n, q} \in x.noted \cup made.cut
Noted == ConflictsNoted /\ \A r \in Requests : tx[r] # None => NotedOK(tx[r])

----------------------------------------------------------------------------
(* MEMORY.md.                                                              *)

\* Entries: a memory has its entry before its row.
EntryOK(x) ==
    ~made.overlap /\ ~made.edit =>
        /\ Copied(x) => x.copy.entries = file.entries
        /\ \A n \in New(x) : file.entries[n] # None \/ (x.todo # <<>> /\ x.todo[1] = <<"append", n>>)
EntriesKept ==
    /\ ~made.overlap /\ ~made.edit => \A m \in Ids : rows[m] # None => file.entries[m] # None
    /\ \A r \in Requests : tx[r] # None => EntryOK(tx[r])

\* Texts: one for the proposal that is applied, or whose text is written, and
\* at most one for every trouble, unless the file lost them.
Applied(p) == prop[p] # None /\ prop[p].status = "applied" /\ prop[p].action \in FileActions
Written(p) == \E r \in Requests : tx[r] # None /\ tx[r].op = "append" /\ tx[r].prop = p /\ tx[r].todo = <<>>
TextOK(x) ==
    ~made.overlap =>
        /\ Copied(x) => \A p \in Proposals \ made.overwritten : x.copy.texts[p] = file.texts[p]
        /\ x.prop # None => prop[x.prop].status = "pending"
TextsCounted ==
    /\ ~made.overlap =>
         \A p \in Proposals \ made.overwritten :
             file.texts[p] \in IF Applied(p) \/ Written(p) THEN 1 .. 1 + spent.troubles ELSE 0 .. spent.troubles
    /\ \A r \in Requests : tx[r] # None => TextOK(tx[r])

\* Lines: in calm times an entry shows its row, or the row that is to come.
Pending(todo, m) == \E i \in 1 .. Len(todo) : todo[i][2] = m
Leaves(x, m) == x.op = "create" /\ m \in Of(x.base)
LineOK(x) ==
    made.calm /\ x.op # "sync" =>
        /\ Copied(x) => x.copy = file
        /\ \A m \in Of(x.view) : file.entries[m] # None /\ ~Leaves(x, m) =>
             /\ Pending(x.todo, m) \/ file.entries[m] = MemoryFileLine(x.view[m])
             /\ x.op # "restore" => FlagsAgree(x.view[m])
\* A sync that runs alone overwrites every row that has an entry.
SyncOK(x) ==
    x.op = "sync" /\ x.alone =>
        /\ x.copy = file
        /\ x.pc = "file" =>
             /\ \A m \in Ids : m \in Of(x.base) <=> file.entries[m] # None /\ rows[m] # None
             /\ \A m \in Of(x.base) : x.view[m] = Synced(x.base[m], file.entries[m])
Mirrored ==
    /\ made.calm => \A m \in Ids :
         /\ rows[m] # None /\ file.entries[m] # None
         /\ \A r \in Requests : tx[r] # None => m \notin Of(tx[r].view)
         => Agree(file.entries[m], rows[m])
    /\ \A r \in Requests : tx[r] # None => LineOK(tx[r]) /\ SyncOK(tx[r])

\* The inductive invariant.
IInv == /\ TypeOK /\ Shapes /\ Linked /\ Apart /\ Current
        /\ ReplacedIsHidden /\ Noted /\ EntriesKept /\ TextsCounted /\ Mirrored

----------------------------------------------------------------------------
(* Sessions that differ in being alone only.                               *)

Same(x, y) == /\ x.pc = y.pc /\ x.op = y.op /\ x.base = y.base /\ x.view = y.view /\ x.todo = y.todo
              /\ x.snaps = y.snaps /\ x.copy = y.copy /\ x.noted = y.noted /\ x.prop = y.prop

\* A session that another one overlapped is the same otherwise.
LEMMA Overlapped ==
  ASSUME NEW x \in MemorySession
  PROVE  /\ [x EXCEPT !.alone = FALSE] \in MemorySession
         /\ Same([x EXCEPT !.alone = FALSE], x)
         /\ ~[x EXCEPT !.alone = FALSE].alone
  BY DEF MemorySession, Same

\* What sessions are and what they are linked to does not depend on being alone.
LEMMA SameKeeps ==
  ASSUME NEW x, NEW y, Same(x, y)
  PROVE  /\ Shape(y) => Shape(x)
         /\ New(x) = New(y)
  <1> USE DEF Same
  <1>1. New(x) = New(y) /\ (Creates(x) <=> Creates(y))
    BY DEF New, Creates
  <1>2. Shape(y) => Shape(x)
    BY <1>1 DEF Shape, ShapeNew, ShapeOld, ShapeFile
  <1> QED BY <1>1, <1>2

----------------------------------------------------------------------------
(* The beginning.                                                          *)

\* The invariant holds initially.
LEMMA InitIInv == Init => IInv
  <1> SUFFICES ASSUME Init PROVE IInv
    OBVIOUS
  <1> USE MemoryAssumption DEF Init
  <1>1. TypeOK
    BY DEF TypeOK, Table, File, EmptyFile, NoTexts
  <1>2. Shapes /\ Linked /\ Apart /\ Current
    BY DEF Shapes, Linked, Apart, Current
  <1>3. ReplacedIsHidden /\ Noted
    BY DEF ReplacedIsHidden, Noted, ConflictsNoted, Visible, Exists
  <1>4. EntriesKept /\ TextsCounted /\ Mirrored
    BY DEF EntriesKept, TextsCounted, Applied, Written, Mirrored, EmptyFile, NoTexts
  <1> QED BY <1>1, <1>2, <1>3, <1>4 DEF IInv

----------------------------------------------------------------------------
(* A request starts.                                                       *)

\* What every new session is like: it has loaded the rows as they are, given
\* out its new id, and has every file rewrite ahead.
GoodStart(x) ==
    /\ x \in MemorySession /\ Shape(x) /\ x.alone
    /\ \A m \in Of(x.base) : rows[m] = x.base[m]
    /\ New(x) \cap used = {}
    /\ LinkProp(x) /\ (x.prop # None => prop[x.prop].status = "pending")
    /\ \A s \in x.snaps : s.id \in Of(x.view)
    /\ Creates(x) => x.pc = "flush"
    /\ x.op = "sync" => x.pc = "load"
    /\ IF x.op = "sync" THEN Running = {} => x.copy = file ELSE x.copy = None
    /\ x.op = "append" => x.todo # <<>>
    /\ \A n \in New(x) : x.todo # <<>> /\ x.todo[1] = <<"append", n>>
    /\ \A m \in Of(x.view) : ~Leaves(x, m) =>
         /\ Pending(x.todo, m)
         /\ made.calm /\ Running = {} /\ x.op # "restore" /\ file.entries[m] # None
              => FlagsAgree(x.view[m])

\* A request that starts while none runs.
LEMMA StartAlone ==
  ASSUME IInv, NEW r \in Requests, NEW x, GoodStart(x), Start(r, x), Running = {},
         used' = used \cup New(x)
  PROVE  IInv'
  <1>1. /\ tx \in [Requests -> MemorySession \cup {None}]
        /\ \A q \in Requests : tx[q] = None
    BY DEF IInv, TypeOK, Running
  <1>2. /\ tx' = [tx EXCEPT ![r] = x] /\ x # None /\ x \in MemorySession
        /\ rows' = rows /\ hist' = hist /\ conflicts' = conflicts /\ prop' = prop
        /\ file' = file /\ made' = made
    BY NoneAssumption DEF Start, GoodStart
  <1>3. tx'[r] = x /\ \A q \in Requests : q # r => tx'[q] = None
    BY <1>1, <1>2
  <1>3a. \A q \in Requests : tx'[q] # None => q = r
    BY <1>3
  <1>4. /\ spent' = [ops |-> spent.ops + 1, troubles |-> spent.troubles]
        /\ spent'.troubles = spent.troubles /\ spent.troubles \in Nat
        /\ spent' \in [ops: 0 .. OpBound, troubles: 0 .. TroubleBound]
    BY MemoryAssumption DEF Start, Spend, IInv, TypeOK
  <1>5. TypeOK'
    BY <1>1, <1>2, <1>4 DEF IInv, TypeOK, New, Of
  <1>6. Shapes'
    BY <1>3, <1>3a DEF Shapes, GoodStart
  <1>7. Linked'
    <2>1. LinkRows(tx[r])'
      BY <1>2, <1>3 DEF LinkRows, GoodStart, Gone, IInv, Linked, New, Of
    <2>2. LinkProp(tx[r])'
      BY <1>2, <1>3 DEF LinkProp, GoodStart
    <2> QED BY <2>1, <2>2, <1>2, <1>3, <1>3a DEF IInv, Linked, GoodStart
  <1>8. Apart'
    BY <1>3a DEF Apart
  <1>9. Current'
    BY <1>2, <1>3, <1>3a DEF Current, SoloOK, GoodStart
  <1>10. ReplacedIsHidden'
    BY <1>2 DEF IInv, ReplacedIsHidden, Visible, Exists
  <1>11. Noted'
    <2>1. ConflictsNoted'
      BY <1>2 DEF IInv, Noted, ConflictsNoted, Visible, Exists
    <2>2. NotedOK(tx[r])'
      BY <1>3 DEF NotedOK, GoodStart, Creates
    <2> QED BY <2>1, <2>2, <1>3a DEF Noted
  <1>12. EntriesKept'
    <2>1. EntryOK(tx[r])'
      BY <1>3 DEF EntryOK, Copied, GoodStart
    <2> QED BY <2>1, <1>2, <1>3a DEF IInv, EntriesKept
  <1>13. TextsCounted'
    <2>1. TextOK(tx[r])'
      BY <1>2, <1>3 DEF TextOK, Copied, GoodStart
    <2>2. \A p \in Proposals : (Applied(p)' <=> Applied(p)) /\ ~Written(p) /\ ~Written(p)'
      BY <1>1, <1>2, <1>3, <1>3a DEF Applied, Written, GoodStart
    <2> QED BY <2>1, <2>2, <1>2, <1>3a, <1>4 DEF IInv, TextsCounted
  <1>14. Mirrored'
    <2>1. LineOK(tx[r])'
      BY <1>2, <1>3 DEF LineOK, Copied, GoodStart
    <2>2. SyncOK(tx[r])'
      BY <1>2, <1>3 DEF SyncOK, GoodStart
    <2> QED BY <2>1, <2>2, <1>1, <1>2, <1>3a DEF IInv, Mirrored, Agree
  <1> QED BY <1>5, <1>6, <1>7, <1>8, <1>9, <1>10, <1>11, <1>12, <1>13, <1>14 DEF IInv

\* A request that starts while others run: none is alone any more.
LEMMA StartOverlapped ==
  ASSUME IInv, NEW r \in Requests, NEW x, GoodStart(x), Start(r, x), Running # {},
         used' = used \cup New(x)
  PROVE  IInv'
  <1> DEFINE Late(y) == [y EXCEPT !.alone = FALSE]
  <1>1. tx \in [Requests -> MemorySession \cup {None}] /\ tx[r] = None
    BY DEF IInv, TypeOK, Start
  <1>2. /\ tx' = [q \in Requests |-> IF q = r THEN Late(x) ELSE IF tx[q] = None THEN None ELSE Late(tx[q])]
        /\ x \in MemorySession
        /\ rows' = rows /\ hist' = hist /\ conflicts' = conflicts /\ prop' = prop
        /\ file' = file /\ made' = [made EXCEPT !.overlap = TRUE, !.calm = FALSE]
    BY DEF Start, GoodStart
  <1>3. made'.overlap /\ ~made'.calm /\ made'.revived = made.revived /\ made'.edit = made.edit
    BY <1>2 DEF IInv, TypeOK
  <1>4. /\ spent' = [ops |-> spent.ops + 1, troubles |-> spent.troubles + 1]
        /\ spent' \in [ops: 0 .. OpBound, troubles: 0 .. TroubleBound]
    BY MemoryAssumption DEF Start, Spend, IInv, TypeOK
  <1>5. tx'[r] \in MemorySession /\ Same(tx'[r], x) /\ ~tx'[r].alone
    BY <1>2, Overlapped
  <1>6. \A q \in Requests : q # r /\ tx'[q] # None =>
            /\ tx[q] # None /\ tx'[q] \in MemorySession
            /\ Same(tx'[q], tx[q]) /\ ~tx'[q].alone
    BY <1>1, <1>2, Overlapped
  <1> HIDE DEF Late
  <1>7. TypeOK'
    <2>1. tx' \in [Requests -> MemorySession \cup {None}]
      <3>1. \A q \in Requests : tx'[q] \in MemorySession \cup {None}
        BY <1>5, <1>6
      <3> QED BY <3>1, <1>2
    <2>2. made' \in History
      BY <1>2 DEF IInv, TypeOK
    <2> QED BY <2>1, <2>2, <1>2, <1>4 DEF IInv, TypeOK, New, Of
  <1>8. Shapes'
    BY <1>5, <1>6, SameKeeps DEF IInv, Shapes, GoodStart
  <1>9. /\ New(tx'[r]) = New(x)
        /\ \A q \in Requests : q # r /\ tx'[q] # None => New(tx'[q]) = New(tx[q])
    BY <1>5, <1>6, SameKeeps
  <1>10. Linked'
    <2>1. LinkRows(tx[r])' /\ LinkProp(tx[r])'
      <3>1. LinkRows(tx[r])'
        BY <1>2, <1>3, <1>5, <1>9 DEF LinkRows, GoodStart, Gone, IInv, Linked, New, Of, Same
      <3>2. LinkProp(tx[r])'
        BY <1>2, <1>5 DEF LinkProp, GoodStart, Same
      <3> QED BY <3>1, <3>2
    <2>2. ASSUME NEW q \in Requests, q # r, tx'[q] # None
          PROVE  LinkRows(tx[q])' /\ LinkProp(tx[q])'
      <3>1. LinkRows(tx[q]) /\ LinkProp(tx[q]) /\ Same(tx'[q], tx[q])
        BY <2>2, <1>6 DEF IInv, Linked
      <3>2. LinkRows(tx[q])'
        BY <2>2, <3>1, <1>2, <1>3, <1>9 DEF LinkRows, Gone, Same
      <3>3. LinkProp(tx[q])'
        BY <3>1, <1>2 DEF LinkProp, Same
      <3> QED BY <3>2, <3>3
    <2>3. \A q \in Requests : tx'[q] # None => \A s \in tx'[q].snaps : s.id \in Of(tx'[q].view)
      BY <1>5, <1>6 DEF Same, IInv, Linked, GoodStart
    <2> QED BY <2>1, <2>2, <2>3, <1>2 DEF IInv, Linked
  <1>11. Apart'
    <2>1. \A q \in Requests : q # r /\ tx'[q] # None => New(tx'[q]) \subseteq used
      BY <1>6, <1>9 DEF IInv, Linked, LinkRows
    <2>2. New(tx'[r]) \cap used = {}
      BY <1>9 DEF GoodStart
    <2> QED BY <2>1, <2>2, <1>6, <1>9 DEF IInv, Apart
  <1>12. Current'
    BY <1>3, <1>5, <1>6 DEF Current, SoloOK, Solo
  <1>13. ReplacedIsHidden'
    BY <1>2, <1>3 DEF IInv, ReplacedIsHidden, Visible, Exists
  <1>14. Noted' /\ EntriesKept' /\ TextsCounted'
    BY <1>3 DEF Noted, ConflictsNoted, NotedOK, EntriesKept, EntryOK, TextsCounted, TextOK
  <1>15. Mirrored'
    BY <1>3, <1>5, <1>6 DEF Mirrored, LineOK, SyncOK
  <1> QED BY <1>7, <1>8, <1>10, <1>11, <1>12, <1>13, <1>14, <1>15 DEF IInv

\* Either way.
LEMMA StartStep ==
  ASSUME IInv, NEW r \in Requests, NEW x, GoodStart(x), Start(r, x), used' = used \cup New(x)
  PROVE  IInv'
  BY StartAlone, StartOverlapped

\* Rows and lines that the requests make of a row.
LEMMA RowTypes ==
  /\ \A c \in Contents, level \in 0 .. MaxLevel :
        NewRow(c, level) \in Row /\ FlagsAgree(NewRow(c, level)) /\ NewRow(c, level).by = None
  /\ \A row \in Row, status \in MEMORY_EXPIRED_STATUSES :
        /\ Hidden(row, status) \in Row /\ HiddenRow(Hidden(row, status))
        /\ Hidden(row, status).content = row.content /\ Hidden(row, status).by = row.by
        /\ FlagsAgree(Hidden(row, status))
  /\ \A row \in Row : MemoryFileLine(row) \in Line
  /\ \A row \in Row, m \in Ids : SnapshotOf(m, row) \in Snapshot /\ SnapshotOf(m, row).id = m
  /\ None \notin Row /\ None \notin Ids /\ None \notin Proposals /\ None \notin Line
  <1>1. None \notin Row /\ None \notin Ids /\ None \notin Proposals /\ None \notin Line
    BY NoneAssumption
  <1>2. \A c \in Contents, level \in 0 .. MaxLevel :
        NewRow(c, level) \in Row /\ FlagsAgree(NewRow(c, level)) /\ NewRow(c, level).by = None
    BY DEF NewRow, Row, FlagsAgree, Statuses, MEMORY_EXPIRED_STATUSES
  <1>3. ASSUME NEW row \in Row, NEW status \in MEMORY_EXPIRED_STATUSES
        PROVE  /\ Hidden(row, status) \in Row /\ HiddenRow(Hidden(row, status))
               /\ Hidden(row, status).content = row.content /\ Hidden(row, status).by = row.by
               /\ FlagsAgree(Hidden(row, status))
    BY DEF Hidden, Row, Statuses, HiddenRow, FlagsAgree
  <1>4. \A row \in Row : MemoryFileLine(row) \in Line
    BY DEF MemoryFileLine, Row, Line
  <1>5. \A row \in Row, m \in Ids : SnapshotOf(m, row) \in Snapshot /\ SnapshotOf(m, row).id = m
    BY DEF SnapshotOf, Row, Snapshot
  <1> QED BY <1>1, <1>2, <1>3, <1>4, <1>5

\* A memory is created, and may replace one.
LEMMA CreatingGood ==
  ASSUME IInv, NEW m \in Ids, Fresh(m), NEW c \in Contents, NEW p \in Ids \cup {None},
         p # None => Exists(p)
  PROVE  /\ GoodStart(Creating(m, c, p)) /\ New(Creating(m, c, p)) = {m}
         /\ Creating(m, c, p).prop = None /\ Creating(m, c, p).op = "create"
  <1> DEFINE x == Creating(m, c, p)
             base == [q \in Ids |-> IF q = p THEN rows[q] ELSE None]
             view == [q \in Ids |-> CASE q = m -> NewRow(c, 0)
                                      [] q = p -> Hidden(rows[q], "superseded")
                                      [] OTHER -> None]
             snaps == {SnapshotOf(m, NewRow(c, 0))} \cup {SnapshotOf(q, rows[q]) : q \in {p} \ {None}}
  <1>1. /\ rows \in Table /\ rows[m] = None /\ p # m /\ (p # None => p \in Ids /\ rows[p] \in Row)
        /\ NewRow(c, 0) \in Row
    <2>1. rows \in Table /\ rows[m] = None
      BY DEF IInv, TypeOK, Linked, Fresh
    <2> QED BY <2>1, RowTypes DEF Exists, Table, MaxLevel
  <1>2. /\ base \in Table /\ view \in Table
        /\ Of(base) = {p} \ {None} /\ Of(view) = {m} \cup ({p} \ {None})
        /\ view[m] = NewRow(c, 0) /\ (p # None => view[p] = Hidden(rows[p], "superseded") /\ base[p] = rows[p])
    <2>1. p # None => Hidden(rows[p], "superseded") \in Row
      BY <1>1, RowTypes DEF MEMORY_EXPIRED_STATUSES
    <2>2. base \in Table /\ view \in Table
      <3>1. base \in Table
        BY <1>1 DEF Table
      <3>2. ASSUME NEW q \in Ids PROVE view[q] \in Row \cup {None}
        <4>1. CASE q = m
          BY <4>1, <1>1
        <4>2. CASE q # m /\ q = p
          BY <4>2, <1>1, <2>1, RowTypes
        <4>3. CASE q # m /\ q # p
          BY <4>3
        <4> QED BY <4>1, <4>2, <4>3
      <3>3. view \in [Ids -> Row \cup {None}]
        BY <3>2
      <3> QED BY <3>1, <3>3 DEF Table
    <2>3. Of(base) = {p} \ {None} /\ Of(view) = {m} \cup ({p} \ {None})
      BY <1>1, <2>1, RowTypes DEF Of
    <2> QED BY <2>2, <2>3, <1>1
  <1>3. snaps \in SUBSET Snapshot /\ \A s \in snaps : s.id \in Of(view)
    BY <1>1, <1>2, RowTypes
  <1>4. << <<"append", m>> >> \in Seq(Rewrite)
    BY DEF Rewrite
  <1> HIDE DEF base, view, snaps
  <1>5. x = [Session("create", base, view, << <<"append", m>> >>, snaps) EXCEPT !.pc = "flush"]
    BY DEF base, view, snaps, Creating
  <1>6. /\ x \in MemorySession /\ x.alone /\ x.prop = None /\ x.pc = "flush" /\ x.copy = None
        /\ x.op = "create" /\ x.base = base /\ x.view = view /\ x.todo = << <<"append", m>> >> /\ x.snaps = snaps
    BY <1>2, <1>3, <1>4, <1>5 DEF Session, MemorySession, Operations
  <1> HIDE DEF x
  <1>7. New(x) = {m}
    BY <1>1, <1>2, <1>6 DEF New
  <1>8. ShapeNew(x) /\ ShapeFile(x)
    BY <1>1, <1>2, <1>6, <1>7, RowTypes DEF ShapeNew, ShapeFile, Creates, MaxLevel
  <1>9. ShapeOld(x)
    BY <1>1, <1>2, <1>6, RowTypes DEF ShapeOld, MEMORY_EXPIRED_STATUSES
  <1>10. FlagsAgree(view[m]) /\ Pending(x.todo, m)
    BY <1>2, <1>6, RowTypes DEF Pending, MaxLevel
  <1>11. GoodStart(x)
    BY <1>1, <1>2, <1>3, <1>6, <1>7, <1>8, <1>9, <1>10 DEF GoodStart, Shape, LinkProp, Leaves, Fresh
  <1> QED BY <1>6, <1>7, <1>11 DEF x

\* A memory is superseded.
LEMMA SupersedingGood ==
  ASSUME IInv, NEW m \in Ids, Fresh(m), NEW c \in Contents, NEW p \in Ids, Exists(p)
  PROVE  /\ GoodStart(Superseding(m, c, p)) /\ New(Superseding(m, c, p)) = {m}
         /\ Superseding(m, c, p).prop = None /\ Superseding(m, c, p).op = "supersede"
  <1> DEFINE x == Superseding(m, c, p)
             old == Hidden(rows[p], "superseded")
             new == NewRow(c, rows[p].level)
             base == Only(p, rows[p])
             view == [Only(p, [old EXCEPT !.by = m]) EXCEPT ![m] = new]
             snaps == {SnapshotOf(m, new), SnapshotOf(p, rows[p]), SnapshotOf(p, old)}
             todo == << <<"append", m>>, <<"rewrite", p>>, <<"rewrite", m>> >>
  <1>1. rows \in Table /\ rows[m] = None /\ p # m /\ rows[p] \in Row /\ rows[p].level \in 0 .. MaxLevel
    <2>1. rows \in Table /\ rows[m] = None
      BY DEF IInv, TypeOK, Linked, Fresh
    <2> QED BY <2>1 DEF Exists, Table, Row
  <1>2. new \in Row /\ new.by = None /\ FlagsAgree(new) /\ old \in Row /\ HiddenRow(old) /\ old.content = rows[p].content
    BY <1>1, RowTypes DEF MEMORY_EXPIRED_STATUSES
  <1>3. /\ [old EXCEPT !.by = m] \in Row /\ HiddenRow([old EXCEPT !.by = m])
        /\ [old EXCEPT !.by = m].content = rows[p].content /\ FlagsAgree([old EXCEPT !.by = m])
        /\ [old EXCEPT !.by = m].by # None
    <2> HIDE DEF old
    <2> QED BY <1>2, NoneAssumption DEF Row, HiddenRow, FlagsAgree
  <1> HIDE DEF old, new
  <1>4. /\ base \in Table /\ view \in Table /\ Of(base) = {p} /\ Of(view) = {m, p}
        /\ view[m] = new /\ view[p] = [old EXCEPT !.by = m] /\ base[p] = rows[p]
    BY <1>1, <1>2, <1>3, RowTypes, SMTT(30) DEF Table, Of, Only
  <1>5. snaps \in SUBSET Snapshot /\ \A s \in snaps : s.id \in Of(view)
    <2>1. /\ SnapshotOf(m, new) \in Snapshot /\ SnapshotOf(m, new).id = m
          /\ SnapshotOf(p, rows[p]) \in Snapshot /\ SnapshotOf(p, rows[p]).id = p
          /\ SnapshotOf(p, old) \in Snapshot /\ SnapshotOf(p, old).id = p
      BY <1>1, <1>2, RowTypes
    <2> QED BY <2>1, <1>4
  <1>6. /\ todo \in Seq(Rewrite) /\ todo # <<>> /\ todo[1] = <<"append", m>> /\ Len(todo) = 3
        /\ \A i \in 1 .. 3 : todo[i][1] \in {"append", "rewrite"} /\ todo[i][2] \in {m, p} /\ (todo[i][1] = "append" => todo[i][2] = m)
        /\ Pending(todo, m) /\ Pending(todo, p)
    <2>1. todo \in Seq(Rewrite) /\ todo # <<>> /\ Len(todo) = 3
      BY DEF Rewrite
    <2>2. todo[1] = <<"append", m>> /\ todo[2] = <<"rewrite", p>> /\ todo[3] = <<"rewrite", m>>
      OBVIOUS
    <2>3. \A i \in 1 .. 3 : i = 1 \/ i = 2 \/ i = 3
      OBVIOUS
    <2> HIDE DEF todo
    <2> QED BY <2>1, <2>2, <2>3 DEF Pending
  <1> HIDE DEF base, view, snaps, todo
  <1>7. x = [Session("supersede", base, view, todo, snaps) EXCEPT !.pc = "flush"]
    BY DEF base, view, snaps, todo, old, new, Superseding
  <1>8. /\ x \in MemorySession /\ x.alone /\ x.prop = None /\ x.pc = "flush" /\ x.copy = None
        /\ x.op = "supersede" /\ x.base = base /\ x.view = view /\ x.todo = todo /\ x.snaps = snaps
    BY <1>4, <1>5, <1>6, <1>7 DEF Session, MemorySession, Operations
  <1> HIDE DEF x
  <1>9. New(x) = {m}
    BY <1>1, <1>4, <1>8 DEF New
  <1>10. ShapeNew(x) /\ ShapeFile(x)
    BY <1>1, <1>2, <1>4, <1>6, <1>8, <1>9 DEF ShapeNew, ShapeFile, Creates
  <1>11. ShapeOld(x)
    <2>1. Of(x.base) = {p} /\ p \in Of(x.view) /\ x.op = "supersede"
      BY <1>4, <1>8
    <2>2. HiddenRow(x.view[p]) /\ x.view[p].content = x.base[p].content /\ x.view[p].by # None
      BY <1>3, <1>4, <1>8
    <2> QED BY <2>1, <2>2 DEF ShapeOld
  <1>12. GoodStart(x)
    BY <1>1, <1>2, <1>3, <1>4, <1>5, <1>6, <1>8, <1>9, <1>10, <1>11 DEF GoodStart, Shape, LinkProp, Leaves, Fresh
  <1> QED BY <1>8, <1>9, <1>12 DEF x

\* archive, mark_verified and restore: one row changes.
LEMMA ChangingGood ==
  ASSUME IInv, NEW op \in {"archive", "verify", "restore"}, NEW m \in Ids, Exists(m), NEW row \in Row,
         row.by = rows[m].by,
         op = "archive" => HiddenRow(row) /\ row.content = rows[m].content,
         op = "verify" => /\ row.content = rows[m].content
                          /\ row.status = rows[m].status /\ row.archived = rows[m].archived
  PROVE  /\ GoodStart(Changing(op, m, row)) /\ New(Changing(op, m, row)) = {}
         /\ Changing(op, m, row).prop = None /\ Changing(op, m, row).op = op
  <1> DEFINE x == Changing(op, m, row)
             todo == << <<"rewrite", m>> >>
             snaps == {SnapshotOf(m, rows[m])}
  <1>1. rows[m] \in Row
    BY DEF IInv, TypeOK, Table, Exists
  <1>2. Only(m, rows[m]) \in Table /\ Only(m, row) \in Table
    BY <1>1 DEF Only, Table
  <1>3. /\ Of(Only(m, rows[m])) = {m} /\ Of(Only(m, row)) = {m}
        /\ Only(m, rows[m])[m] = rows[m] /\ Only(m, row)[m] = row
    BY <1>1, RowTypes DEF Only, Of
  <1>4. snaps \in SUBSET Snapshot /\ \A s \in snaps : s.id = m
    BY <1>1, RowTypes
  <1>5. todo \in Seq(Rewrite) /\ Len(todo) = 1 /\ todo[1] = <<"rewrite", m>> /\ Pending(todo, m)
    BY DEF Rewrite, Pending
  <1> HIDE DEF snaps, todo
  <1>6. x = Session(op, Only(m, rows[m]), Only(m, row), todo, snaps)
    BY DEF x, Changing, todo, snaps
  <1>7. /\ x \in MemorySession /\ x.alone /\ x.prop = None /\ x.pc = "file" /\ x.copy = None
        /\ x.op = op /\ x.base = Only(m, rows[m]) /\ x.view = Only(m, row) /\ x.todo = todo /\ x.snaps = snaps
    BY <1>2, <1>4, <1>5, <1>6 DEF Session, MemorySession, Operations
  <1> HIDE DEF x
  <1>8. New(x) = {} /\ ~Creates(x)
    BY <1>3, <1>7 DEF New, Creates
  <1>9. ShapeNew(x) /\ ShapeFile(x)
    <2>1. todo[1][1] = "rewrite" /\ todo[1][2] = m /\ \A i \in 1 .. Len(todo) : i = 1
      BY <1>5
    <2> QED BY <2>1, <1>3, <1>7, <1>8 DEF ShapeNew, ShapeFile
  <1>10. ShapeOld(x)
    BY <1>3, <1>7 DEF ShapeOld
  <1>11. ASSUME made.calm, Running = {}, op # "restore", file.entries[m] # None
         PROVE  FlagsAgree(row)
    <2>1. CASE op = "archive"
      BY <2>1 DEF FlagsAgree, HiddenRow
    <2>2. CASE op = "verify"
      <3>1. Agree(file.entries[m], rows[m])
        BY <1>11 DEF IInv, Mirrored, Running, Exists
      <3> QED BY <2>2, <3>1 DEF Agree, FlagsAgree
    <2> QED BY <1>11, <2>1, <2>2
  <1>12. GoodStart(x)
    BY <1>3, <1>4, <1>5, <1>7, <1>8, <1>9, <1>10, <1>11 DEF GoodStart, Shape, LinkProp
  <1> QED BY <1>7, <1>8, <1>12 DEF x

\* A memory is archived or verified.
LEMMA ArchiveVerifyGood ==
  ASSUME IInv, NEW m \in Ids, Exists(m)
  PROVE  /\ GoodStart(archive(m)) /\ New(archive(m)) = {} /\ archive(m).prop = None /\ archive(m).op = "archive"
         /\ GoodStart(mark_verified(m)) /\ New(mark_verified(m)) = {}
         /\ mark_verified(m).prop = None /\ mark_verified(m).op = "verify"
  <1>1. rows[m] \in Row
    BY DEF IInv, TypeOK, Table, Exists
  <1>2. /\ Hidden(rows[m], "archived") \in Row /\ HiddenRow(Hidden(rows[m], "archived"))
        /\ Hidden(rows[m], "archived").content = rows[m].content /\ Hidden(rows[m], "archived").by = rows[m].by
    BY <1>1, RowTypes DEF MEMORY_EXPIRED_STATUSES
  <1> DEFINE row == [rows[m] EXCEPT !.level = IF @ < MaxLevel THEN @ + 1 ELSE @]
  <1>3. /\ row \in Row /\ row.content = rows[m].content /\ row.by = rows[m].by
        /\ row.status = rows[m].status /\ row.archived = rows[m].archived
    BY <1>1 DEF Row, MaxLevel
  <1> HIDE DEF row
  <1>4. mark_verified(m) = Changing("verify", m, row)
    BY DEF mark_verified, row
  <1>5. /\ GoodStart(archive(m)) /\ New(archive(m)) = {}
        /\ archive(m).prop = None /\ archive(m).op = "archive"
    BY <1>2, ChangingGood DEF archive
  <1>6. /\ GoodStart(mark_verified(m)) /\ New(mark_verified(m)) = {}
        /\ mark_verified(m).prop = None /\ mark_verified(m).op = "verify"
    BY <1>3, <1>4, ChangingGood
  <1> QED BY <1>5, <1>6

\* A snapshot is restored.
LEMMA RestoringGood ==
  ASSUME IInv, NEW h \in hist
  PROVE  LET x == Changing("restore", h.id, ApplySnapshot(h)) IN GoodStart(x) /\ New(x) = {}
  <1>1. h \in Snapshot /\ h.id \in Ids /\ Exists(h.id) /\ rows[h.id] \in Row
    BY DEF IInv, TypeOK, Snapshot, Linked, Exists, Table
  <1>2. ApplySnapshot(h) \in Row /\ ApplySnapshot(h).by = rows[h.id].by
    BY <1>1 DEF ApplySnapshot, Row, Snapshot
  <1> QED BY <1>1, <1>2, ChangingGood

\* Sessions without rows: sync, append and reject.
LEMMA RowlessGood ==
  ASSUME IInv
  PROVE  /\ \A copy \in File : (Running = {} => copy = file) =>
              LET x == [Session("sync", NoRows, NoRows, <<>>, {}) EXCEPT !.pc = "load", !.copy = copy]
              IN GoodStart(x) /\ New(x) = {}
         /\ \A p \in Proposals : prop[p] # None /\ prop[p].status = "pending" =>
              LET x == [Session("reject", NoRows, NoRows, <<>>, {}) EXCEPT !.prop = p]
              IN GoodStart(x) /\ New(x) = {}
         /\ \A p \in Proposals : prop[p] # None /\ prop[p].status = "pending" /\ prop[p].action \in FileActions =>
              LET x == [WritingText(p) EXCEPT !.prop = p]
              IN GoodStart(x) /\ New(x) = {}
  <1>1. NoRows \in Table /\ Of(NoRows) = {}
    BY DEF NoRows, Table, Of
  <1>2. \A copy \in File : copy # None
    BY NoneAssumption
  <1>2a. <<>> \in Seq(Rewrite) /\ {} \in SUBSET Snapshot
    OBVIOUS
  <1>3. ASSUME NEW x, x \in MemorySession, x.base = NoRows, x.view = NoRows, x.op \in {"sync", "reject", "append"}
        PROVE  New(x) = {} /\ ShapeNew(x) /\ ShapeOld(x) /\ ~Creates(x)
    BY <1>1, <1>3 DEF New, ShapeNew, ShapeOld, Creates
  <1>4. ASSUME NEW copy \in File, Running = {} => copy = file
        PROVE  LET x == [Session("sync", NoRows, NoRows, <<>>, {}) EXCEPT !.pc = "load", !.copy = copy]
               IN GoodStart(x) /\ New(x) = {}
    <2> DEFINE x == [Session("sync", NoRows, NoRows, <<>>, {}) EXCEPT !.pc = "load", !.copy = copy]
    <2>1. /\ x \in MemorySession /\ x.alone /\ x.prop = None /\ x.pc = "load" /\ x.copy = copy
          /\ x.op = "sync" /\ x.base = NoRows /\ x.view = NoRows /\ x.todo = <<>> /\ x.snaps = {}
      BY <1>1, <1>2, <1>2a DEF Session, MemorySession, Operations
    <2> HIDE DEF x
    <2>2. ShapeFile(x)
      BY <2>1, <1>1, <1>2 DEF ShapeFile
    <2>3. GoodStart(x) /\ New(x) = {}
      BY <1>4, <2>1, <2>2, <1>1, <1>3 DEF GoodStart, Shape, LinkProp
    <2> QED BY <2>3 DEF x
  <1>5. ASSUME NEW p \in Proposals, prop[p] # None, prop[p].status = "pending"
        PROVE  LET x == [Session("reject", NoRows, NoRows, <<>>, {}) EXCEPT !.prop = p]
               IN GoodStart(x) /\ New(x) = {}
    <2> DEFINE x == [Session("reject", NoRows, NoRows, <<>>, {}) EXCEPT !.prop = p]
    <2>1. /\ x \in MemorySession /\ x.alone /\ x.prop = p /\ x.pc = "file" /\ x.copy = None
          /\ x.op = "reject" /\ x.base = NoRows /\ x.view = NoRows /\ x.todo = <<>> /\ x.snaps = {}
      BY <1>1, <1>2a DEF Session, MemorySession, Operations
    <2> HIDE DEF x
    <2>2. ShapeFile(x)
      BY <2>1, <1>1 DEF ShapeFile
    <2>3. GoodStart(x) /\ New(x) = {}
      BY <1>5, <2>1, <2>2, <1>1, <1>3 DEF GoodStart, Shape, LinkProp
    <2> QED BY <2>3 DEF x
  <1>6. ASSUME NEW p \in Proposals, prop[p] # None, prop[p].status = "pending", prop[p].action \in FileActions
        PROVE  LET x == [WritingText(p) EXCEPT !.prop = p] IN GoodStart(x) /\ New(x) = {}
    <2> DEFINE x == [WritingText(p) EXCEPT !.prop = p]
               todo == << <<IF prop[p].action = "append_file" THEN "text" ELSE "replace", p>> >>
    <2>0. todo \in Seq(Rewrite) /\ todo # <<>> /\ todo \in {<< <<"text", p>> >>, << <<"replace", p>> >>}
      BY DEF Rewrite
    <2>1. /\ x \in MemorySession /\ x.alone /\ x.prop = p /\ x.pc = "file" /\ x.copy = None
          /\ x.op = "append" /\ x.base = NoRows /\ x.view = NoRows /\ x.todo = todo /\ x.snaps = {}
      BY <1>1, <2>0 DEF WritingText, Session, MemorySession, Operations
    <2> HIDE DEF x, todo
    <2>2. ShapeFile(x)
      BY <2>0, <2>1, <1>1 DEF ShapeFile
    <2>3. GoodStart(x) /\ New(x) = {}
      BY <1>6, <2>0, <2>1, <2>2, <1>1, <1>3 DEF GoodStart, Shape, LinkProp
    <2> QED BY <2>3 DEF x
  <1> QED BY <1>4, <1>5, <1>6

\* A session that applies a proposal is the same otherwise.
LEMMA ProposedGood ==
  ASSUME NEW x, GoodStart(x), x.prop = None, x.op \in {"create", "supersede", "archive", "verify"},
         NEW p \in Proposals, prop[p] # None, prop[p].status = "pending", prop[p].action \notin FileActions
  PROVE  LET y == [x EXCEPT !.prop = p] IN GoodStart(y) /\ New(y) = New(x)
  <1> DEFINE y == [x EXCEPT !.prop = p]
  <1>1. x \in MemorySession
    BY DEF GoodStart
  <1>2. /\ y \in MemorySession /\ y.alone = x.alone /\ y.prop = p /\ y.pc = x.pc /\ y.copy = x.copy
        /\ y.op = x.op /\ y.base = x.base /\ y.view = x.view /\ y.todo = x.todo /\ y.snaps = x.snaps
    BY <1>1 DEF MemorySession
  <1> HIDE DEF y
  <1>3. New(y) = New(x) /\ (Creates(y) <=> Creates(x)) /\ \A m \in Ids : Leaves(y, m) <=> Leaves(x, m)
    BY <1>2 DEF New, Creates, Leaves
  <1>4. Shape(y)
    <2>1. ShapeNew(y)
      BY <1>2, <1>3 DEF GoodStart, Shape, ShapeNew
    <2>2. ShapeOld(y)
      BY <1>2 DEF GoodStart, Shape, ShapeOld
    <2>3. ShapeFile(y)
      BY <1>2, <1>3 DEF GoodStart, Shape, ShapeFile
    <2> QED BY <2>1, <2>2, <2>3 DEF Shape
  <1>5. LinkProp(y)
    BY <1>2 DEF LinkProp
  <1>6. GoodStart(y)
    BY <1>2, <1>3, <1>4, <1>5 DEF GoodStart, Of
  <1> QED BY <1>3, <1>6 DEF y

\* What a session may read: the file, unless another one is writing it.
LEMMA ReadableFacts ==
  ASSUME IInv, NEW r \in Requests
  PROVE  /\ Readable(r) \subseteq File /\ EmptyFile \in File
         /\ (\A q \in Requests : tx[q] # None => q = r) => Readable(r) = {file}
  <1>1. EmptyFile \in File
    BY DEF EmptyFile, NoTexts, File
  <1>2. file \in File
    BY DEF IInv, TypeOK
  <1> QED BY <1>1, <1>2 DEF Readable, Writing, At

\* Every request keeps the invariant.
LEMMA RequestedStep ==
  ASSUME IInv, NEW r \in Requests, Requested(r)
  PROVE  IInv'
  <1>1. ASSUME NEW m \in Ids, NEW c \in Contents, NEW p \in Ids \cup {None}, CreateRequest(r, m, c, p)
        PROVE  IInv'
    <2>1. Start(r, Creating(m, c, p)) /\ used' = used \cup {m} /\ Fresh(m) /\ (p # None => Exists(p))
      BY <1>1 DEF CreateRequest
    <2> QED BY <2>1, CreatingGood, StartStep
  <1>2. ASSUME NEW m \in Ids, NEW p \in Ids, NEW c \in Contents, SupersedeRequest(r, m, c, p)
        PROVE  IInv'
    <2>1. Start(r, Superseding(m, c, p)) /\ used' = used \cup {m} /\ Fresh(m) /\ Exists(p)
      BY <1>2 DEF SupersedeRequest
    <2> QED BY <2>1, SupersedingGood, StartStep
  <1>3. ASSUME NEW m \in Ids, ArchiveRequest(r, m) \/ VerifyRequest(r, m)
        PROVE  IInv'
    <2>1. Exists(m) /\ used' = used /\ (Start(r, archive(m)) \/ Start(r, mark_verified(m)))
      BY <1>3 DEF ArchiveRequest, VerifyRequest
    <2> QED BY <2>1, ArchiveVerifyGood, StartStep
  <1>4. ASSUME NEW h \in hist, RestoreRequest(r, h)
        PROVE  IInv'
    <2> DEFINE x == Changing("restore", h.id, ApplySnapshot(h))
    <2>1. Start(r, x) /\ used' = used
      BY <1>4 DEF RestoreRequest
    <2>2. GoodStart(x) /\ New(x) = {}
      BY RestoringGood
    <2> HIDE DEF x
    <2> QED BY <2>1, <2>2, StartStep
  <1>5. ASSUME SyncRequest(r) PROVE IInv'
    <2>0. PICK copy \in Readable(r) :
             Start(r, [Session("sync", NoRows, NoRows, <<>>, {}) EXCEPT !.pc = "load", !.copy = copy])
      BY <1>5 DEF SyncRequest
    <2> DEFINE x == [Session("sync", NoRows, NoRows, <<>>, {}) EXCEPT !.pc = "load", !.copy = copy]
    <2>1. Start(r, x) /\ used' = used
      BY <1>5, <2>0 DEF SyncRequest
    <2>2. copy \in File /\ (Running = {} => copy = file)
      BY <2>0, ReadableFacts DEF Running
    <2>3. GoodStart(x) /\ New(x) = {}
      BY <2>2, RowlessGood
    <2> HIDE DEF x
    <2> QED BY <2>1, <2>3, StartStep
  <1>6. ASSUME NEW p \in Proposals, NEW m \in Ids, NEW c \in Contents, ApplyRequest(r, p, m, c)
        PROVE  IInv'
    <2> DEFINE t == prop[p].target
               With(x) == [x EXCEPT !.prop = p]
    <2>1. /\ prop[p] # None /\ prop[p].status = "pending"
          /\ prop[p].action \notin {"create"} \cup FileActions => t \in Ids
      <3>1. prop[p] # None /\ prop[p].status = "pending"
        BY <1>6 DEF ApplyRequest
      <3>2. prop[p] \in Proposal /\ (t = None => prop[p].action \in {"create"} \cup FileActions)
        BY <3>1 DEF IInv, TypeOK, Linked
      <3> QED BY <3>1, <3>2 DEF Proposal
    <2>2. ASSUME NEW x, GoodStart(x), x.prop = None, x.op \in {"create", "supersede", "archive", "verify"},
                 prop[p].action \notin FileActions, Start(r, With(x)), used' = used \cup New(x)
          PROVE  IInv'
      <3>1. GoodStart(With(x)) /\ New(With(x)) = New(x)
        BY <2>1, <2>2, ProposedGood
      <3> HIDE DEF With
      <3> QED BY <2>2, <3>1, StartStep
    <2>3. CASE prop[p].action = "create" /\ Fresh(m) /\ Start(r, With(Creating(m, c, None))) /\ used' = used \cup {m}
      BY <2>2, <2>3, CreatingGood DEF FileActions
    <2>4. CASE /\ prop[p].action = "supersede" /\ Fresh(m) /\ Exists(t)
               /\ Start(r, With(Superseding(m, c, t))) /\ used' = used \cup {m}
      BY <2>1, <2>2, <2>4, SupersedingGood DEF FileActions
    <2>5. CASE prop[p].action = "archive" /\ Exists(t) /\ Start(r, With(archive(t))) /\ UNCHANGED used
      BY <2>1, <2>2, <2>5, ArchiveVerifyGood DEF FileActions
    <2>6. CASE prop[p].action = "verify" /\ Exists(t) /\ Start(r, With(mark_verified(t))) /\ UNCHANGED used
      BY <2>1, <2>2, <2>6, ArchiveVerifyGood DEF FileActions
    <2>7. CASE prop[p].action \in FileActions /\ Start(r, With(WritingText(p))) /\ UNCHANGED used
      <3>1. GoodStart(With(WritingText(p))) /\ New(With(WritingText(p))) = {}
        BY <2>1, <2>7, RowlessGood
      <3> HIDE DEF With
      <3> QED BY <2>7, <3>1, StartStep
    <2> QED BY <1>6, <2>3, <2>4, <2>5, <2>6, <2>7 DEF ApplyRequest
  <1>7. ASSUME NEW p \in Proposals, RejectRequest(r, p) PROVE IInv'
    <2> DEFINE x == [Session("reject", NoRows, NoRows, <<>>, {}) EXCEPT !.prop = p]
    <2>1. prop[p] # None /\ prop[p].status = "pending" /\ Start(r, x) /\ used' = used
      BY <1>7 DEF RejectRequest
    <2>2. GoodStart(x) /\ New(x) = {}
      BY <2>1, RowlessGood
    <2> HIDE DEF x
    <2> QED BY <2>1, <2>2, StartStep
  <1> QED BY <1>1, <1>2, <1>3, <1>4, <1>5, <1>6, <1>7 DEF Requested

----------------------------------------------------------------------------
(* Proposals and people.                                                   *)

\* A proposal is made.
LEMMA ProposeStep ==
  ASSUME IInv, NEW p \in Proposals, NEW a \in Actions, NEW t \in Ids \cup {None}, Propose(p, a, t)
  PROVE  IInv'
  <1> DEFINE new == [status |-> "pending", action |-> a, target |-> t]
  <1>1. /\ prop[p] = None /\ (t = None => a \in {"create"} \cup FileActions)
        /\ prop' = [prop EXCEPT ![p] = new]
        /\ rows' = rows /\ hist' = hist /\ conflicts' = conflicts /\ file' = file /\ tx' = tx
        /\ used' = used /\ made' = made
    BY DEF Propose
  <1>2. /\ spent'.troubles = spent.troubles
        /\ spent' \in [ops: 0 .. OpBound, troubles: 0 .. TroubleBound]
    BY MemoryAssumption DEF Propose, Spend, IInv, TypeOK
  <1>3. new \in Proposal /\ new # None /\ new.status = "pending"
    BY NoneAssumption DEF Proposal
  <1>4. prop \in [Proposals -> Proposal \cup {None}]
    BY DEF IInv, TypeOK
  <1> HIDE DEF new
  <1>5. prop'[p] = new /\ \A u \in Proposals : u # p => prop'[u] = prop[u]
    BY <1>1, <1>4
  <1>6. \A r \in Requests : tx[r] # None /\ tx[r].prop # None =>
           tx[r].prop \in Proposals /\ tx[r].prop # p /\ prop'[tx[r].prop] = prop[tx[r].prop]
    <2>1. \A r \in Requests : tx[r] # None /\ tx[r].prop # None => tx[r].prop \in Proposals /\ tx[r].prop # p
      BY <1>1 DEF IInv, TypeOK, MemorySession, Linked, LinkProp
    <2> QED BY <2>1, <1>5
  <1>7. TypeOK'
    BY <1>1, <1>2, <1>3, <1>4 DEF IInv, TypeOK
  <1>8. Shapes' /\ Apart' /\ Current' /\ ReplacedIsHidden' /\ Noted' /\ EntriesKept' /\ Mirrored'
    <2>1. Shapes' /\ Apart' /\ Current'
      BY <1>1 DEF IInv, Shapes, Apart, Current, SoloOK, Solo
    <2>2. ReplacedIsHidden' /\ Noted'
      BY <1>1 DEF IInv, ReplacedIsHidden, Noted, ConflictsNoted, NotedOK, Visible, Exists
    <2>3. EntriesKept'
      BY <1>1 DEF IInv, EntriesKept, EntryOK
    <2>4. Mirrored'
      BY <1>1 DEF IInv, Mirrored, LineOK, SyncOK
    <2> QED BY <2>1, <2>2, <2>3, <2>4
  <1>9. Linked'
    <2>1. \A r \in Requests : tx'[r] # None => LinkProp(tx[r])'
      BY <1>1, <1>6 DEF IInv, Linked, LinkProp
    <2>2. \A r \in Requests : tx'[r] # None => LinkRows(tx[r])'
      BY <1>1 DEF IInv, Linked, LinkRows, Gone
    <2>3. \A u \in Proposals : prop'[u] # None /\ prop'[u].target = None
                               => prop'[u].action \in {"create"} \cup FileActions
      BY <1>1, <1>5 DEF IInv, Linked, new
    <2> QED BY <2>1, <2>2, <2>3, <1>1 DEF IInv, Linked
  <1>10. TextsCounted'
    <2>1. \A u \in Proposals : (Applied(u)' <=> Applied(u)) /\ (Written(u)' <=> Written(u))
      BY <1>1, <1>3, <1>5 DEF Applied, Written
    <2>2. \A r \in Requests : tx'[r] # None => TextOK(tx[r])'
      BY <1>1, <1>6 DEF IInv, TextsCounted, TextOK
    <2> QED BY <2>1, <2>2, <1>1, <1>2 DEF IInv, TextsCounted
  <1> QED BY <1>7, <1>8, <1>9, <1>10 DEF IInv

\* Somebody edits the file.
LEMMA EditStep ==
  ASSUME IInv, NEW m \in Ids, NEW line \in EditedLines, NEW keep \in BOOLEAN, Edit(m, line, keep)
  PROVE  IInv'
  <1> DEFINE Late(y) == [y EXCEPT !.alone = FALSE]
  <1>1. /\ tx' = [q \in Requests |-> IF tx[q] = None THEN None ELSE Late(tx[q])]
        /\ rows' = rows /\ hist' = hist /\ conflicts' = conflicts /\ prop' = prop /\ used' = used
        /\ file' = [entries |-> [file.entries EXCEPT ![m] = line], texts |-> IF keep THEN file.texts ELSE NoTexts]
        /\ made' = [made EXCEPT !.edit = TRUE, !.calm = FALSE, !.overwritten = @ \cup (IF keep THEN {} ELSE InFile)]
    BY DEF Edit
  <1>2. /\ spent'.troubles = spent.troubles
        /\ spent' \in [ops: 0 .. OpBound, troubles: 0 .. TroubleBound]
    BY MemoryAssumption DEF Edit, Spend, IInv, TypeOK
  <1>3. /\ made' \in History /\ made'.cut = made.cut
        /\ made'.overwritten = made.overwritten \cup (IF keep THEN {} ELSE InFile)
        /\ made'.edit /\ ~made'.calm /\ made'.revived = made.revived /\ made'.overlap = made.overlap
    BY <1>1 DEF IInv, TypeOK, InFile
  <1>4. tx \in [Requests -> MemorySession \cup {None}] /\ None \notin MemorySession
    BY NoneAssumption DEF IInv, TypeOK
  <1>5. \A q \in Requests : tx[q] = None => tx'[q] = None
    BY <1>1
  <1>6. \A q \in Requests : tx[q] # None =>
            tx'[q] \in MemorySession /\ Same(tx'[q], tx[q]) /\ ~tx'[q].alone
    BY <1>1, <1>4, Overlapped
  <1> HIDE DEF Late
  <1>7. /\ TypeOK' /\ made.overwritten \subseteq made'.overwritten
        /\ \A p \in Proposals \ made'.overwritten : file'.texts[p] = file.texts[p]
    <2>1. tx' \in [Requests -> MemorySession \cup {None}]
      <3>1. \A q \in Requests : tx'[q] \in MemorySession \cup {None}
        BY <1>5, <1>6
      <3> QED BY <3>1, <1>1
    <2>2. file' \in File
      BY <1>1, MemoryAssumption DEF IInv, TypeOK, File, NoTexts
    <2>3. \A p \in Proposals \ made'.overwritten : file'.texts[p] = file.texts[p]
      <3>1. file.texts \in [Proposals -> Nat]
        BY DEF IInv, TypeOK, File
      <3>2. file'.texts = IF keep THEN file.texts ELSE NoTexts
        BY <1>1
      <3>3. \A p \in Proposals \ InFile : NoTexts[p] = file.texts[p]
        BY <3>1 DEF InFile, NoTexts
      <3> QED BY <3>2, <3>3, <1>3
    <2>4. TypeOK'
      BY <2>1, <2>2, <1>1, <1>2, <1>3 DEF IInv, TypeOK
    <2> QED BY <2>3, <2>4, <1>3
  <1>8. \A q \in Requests : tx'[q] # None => tx[q] # None /\ Same(tx'[q], tx[q]) /\ New(tx'[q]) = New(tx[q])
    BY <1>5, <1>6, SameKeeps
  <1>9. Shapes' /\ Apart'
    BY <1>5, <1>6, <1>8, SameKeeps DEF IInv, Shapes, Apart
  <1>10. Linked'
    <2>1. ASSUME NEW q \in Requests, tx'[q] # None
          PROVE  LinkRows(tx[q])' /\ LinkProp(tx[q])'
      <3>1. LinkRows(tx[q]) /\ LinkProp(tx[q]) /\ Same(tx'[q], tx[q])
        BY <2>1, <1>8 DEF IInv, Linked
      <3>2. LinkRows(tx[q])'
        BY <2>1, <3>1, <1>1, <1>3, <1>8 DEF LinkRows, Gone, Same
      <3>3. LinkProp(tx[q])'
        BY <3>1, <1>1 DEF LinkProp, Same
      <3> QED BY <3>2, <3>3
    <2>3. \A q \in Requests : tx'[q] # None => \A s \in tx'[q].snaps : s.id \in Of(tx'[q].view)
      BY <1>8 DEF Same, IInv, Linked
    <2> QED BY <2>1, <2>3, <1>1 DEF IInv, Linked
  <1>11. Current'
    <2>1. ASSUME NEW q \in Requests, tx'[q] # None PROVE SoloOK(q)'
      <3>1. tx[q] # None /\ SoloOK(q) /\ Same(tx'[q], tx[q]) /\ ~tx'[q].alone
        BY <2>1, <1>5, <1>6 DEF IInv, Current
      <3> QED BY <3>1, <1>1, <1>3, <1>5 DEF SoloOK, Solo, Same
    <2> QED BY <2>1, <1>3 DEF Current
  <1>12. ReplacedIsHidden' /\ ConflictsNoted'
    BY <1>1, <1>3 DEF IInv, ReplacedIsHidden, Noted, ConflictsNoted, Visible, Exists
  <1>13. Noted'
    <2>1. ASSUME NEW q \in Requests, tx'[q] # None PROVE NotedOK(tx[q])'
      <3>1. NotedOK(tx[q]) /\ Same(tx'[q], tx[q]) /\ New(tx'[q]) = New(tx[q])
        BY <2>1, <1>8 DEF IInv, Noted
      <3> QED BY <3>1, <1>1, <1>3 DEF NotedOK, Same, Visible, Exists, Creates
    <2> QED BY <2>1, <1>12 DEF Noted
  <1>14. EntriesKept'
    BY <1>3 DEF EntriesKept, EntryOK
  <1>15. TextsCounted'
    <2>1. \A q \in Requests : tx'[q] # None => TextOK(tx[q])'
      BY <1>1, <1>3, <1>7, <1>8 DEF IInv, TextsCounted, TextOK, Copied, Same
    <2>2. \A u \in Proposals : (Applied(u)' <=> Applied(u)) /\ (Written(u)' <=> Written(u))
      <3>1. \A q \in Requests : (tx'[q] # None) <=> (tx[q] # None)
        BY <1>4, <1>5, <1>6
      <3> QED BY <3>1, <1>1, <1>8 DEF Applied, Written, Same
    <2> QED BY <2>1, <2>2, <1>2, <1>3, <1>7 DEF IInv, TextsCounted
  <1>16. Mirrored'
    BY <1>3, <1>5, <1>6 DEF Mirrored, LineOK, SyncOK
  <1> QED BY <1>7, <1>9, <1>10, <1>11, <1>12, <1>13, <1>14, <1>15, <1>16 DEF IInv

----------------------------------------------------------------------------
(* The steps of a session.                                                 *)

\* The session moves on with the rows it has.
Moves(x, y) == /\ y.op = x.op /\ y.base = x.base /\ y.view = x.view /\ y.snaps = x.snaps
               /\ y.prop = x.prop /\ y.alone = x.alone

\* Such a step keeps what is about rows.
LEMMA SessionMoves ==
  ASSUME IInv, NEW r \in Requests, tx[r] # None, NEW y \in MemorySession, Moves(tx[r], y), ShapeFile(y),
         tx' = [tx EXCEPT ![r] = y], UNCHANGED <<rows, hist, conflicts, prop, used>>, file' \in File,
         made' \in History,
         made'.overlap = made.overlap, made'.revived = made.revived, made.cut \subseteq made'.cut,
         made'.calm => made.calm,
         spent' \in [ops: 0 .. OpBound, troubles: 0 .. TroubleBound]
  PROVE  /\ TypeOK' /\ Shapes' /\ Linked' /\ Apart' /\ Current' /\ ReplacedIsHidden' /\ ConflictsNoted'
         /\ tx'[r] = y /\ New(y) = New(tx[r]) /\ (Creates(y) <=> Creates(tx[r]))
         /\ \A q \in Requests : q # r => tx'[q] = tx[q]
  <1> DEFINE x == tx[r]
  <1>1. tx \in [Requests -> MemorySession \cup {None}]
    BY DEF IInv, TypeOK
  <1>2. tx'[r] = y /\ \A q \in Requests : q # r => tx'[q] = tx[q]
    BY <1>1
  <1>3. /\ y.op = x.op /\ y.base = x.base /\ y.view = x.view /\ y.snaps = x.snaps
        /\ y.prop = x.prop /\ y.alone = x.alone
    BY DEF Moves
  <1>4. New(y) = New(x) /\ (Creates(y) <=> Creates(x))
    BY <1>3 DEF New, Creates
  <1>5. TypeOK'
    BY <1>1 DEF IInv, TypeOK
  <1>6. Shapes'
    <2>1. Shape(x)
      BY DEF IInv, Shapes
    <2>2. Shape(y)
      <3>1. ShapeNew(y)
        BY <2>1, <1>3, <1>4 DEF Shape, ShapeNew
      <3>2. ShapeOld(y)
        BY <2>1, <1>3 DEF Shape, ShapeOld
      <3> QED BY <3>1, <3>2 DEF Shape
    <2> QED BY <2>2, <1>2 DEF IInv, Shapes
  <1>7. Linked'
    <2>1. LinkRows(tx[r])' /\ LinkProp(tx[r])'
      <3>1. LinkRows(x) /\ LinkProp(x)
        BY DEF IInv, Linked
      <3>2. LinkRows(tx[r])'
        BY <3>1, <1>2, <1>3, <1>4 DEF LinkRows, Gone
      <3>3. LinkProp(tx[r])'
        BY <3>1, <1>2, <1>3 DEF LinkProp
      <3> QED BY <3>2, <3>3
    <2>2. ASSUME NEW q \in Requests, q # r, tx'[q] # None PROVE LinkRows(tx[q])' /\ LinkProp(tx[q])'
      <3>1. LinkRows(tx[q]) /\ LinkProp(tx[q]) /\ tx'[q] = tx[q]
        BY <2>2, <1>2 DEF IInv, Linked
      <3>2. LinkRows(tx[q])'
        BY <3>1 DEF LinkRows, Gone
      <3>3. LinkProp(tx[q])'
        BY <3>1 DEF LinkProp
      <3> QED BY <3>2, <3>3
    <2>3. \A q \in Requests : tx'[q] # None => \A s \in tx'[q].snaps : s.id \in Of(tx'[q].view)
      BY <1>2, <1>3 DEF IInv, Linked
    <2> QED BY <2>1, <2>2, <2>3 DEF IInv, Linked
  <1>8. Apart'
    BY <1>2, <1>4 DEF IInv, Apart
  <1>9. Current'
    <2>1. ASSUME NEW q \in Requests, tx'[q] # None PROVE SoloOK(q)' /\ (made'.calm => tx'[q].alone)
      <3>1. tx[q] # None /\ SoloOK(q) /\ (made.calm => tx[q].alone)
        BY <2>1, <1>2 DEF IInv, Current
      <3>2. tx'[q].alone = tx[q].alone /\ tx'[q].base = tx[q].base
        BY <1>2, <1>3
      <3> QED BY <3>1, <3>2, <1>2 DEF SoloOK, Solo
    <2> QED BY <2>1 DEF Current
  <1>10. ReplacedIsHidden' /\ ConflictsNoted'
    BY DEF IInv, ReplacedIsHidden, Noted, ConflictsNoted, Visible, Exists
  <1> QED BY <1>2, <1>4, <1>5, <1>6, <1>7, <1>8, <1>9, <1>10

\* Nothing else runs while nothing overlapped, or while a session runs alone.
LEMMA OnlyOne ==
  ASSUME IInv, NEW r \in Requests, tx[r] # None
  PROVE  /\ ~made.overlap => \A q \in Requests : tx[q] # None => q = r
         /\ \A q \in Requests : tx[q] # None /\ tx[q].alone => q = r
         /\ made.calm => \A q \in Requests : tx[q] # None => q = r
  <1>1. SoloOK(r) /\ (made.calm => tx[r].alone)
    BY DEF IInv, Current
  <1>2. \A q \in Requests : tx[q] # None => SoloOK(q)
    BY DEF IInv, Current
  <1> QED BY <1>1, <1>2 DEF SoloOK, Solo

\* create flushes and notes what it contradicts.
LEMMA FlushStep ==
  ASSUME IInv, NEW r \in Requests, Flush(r)
  PROVE  IInv'
  <1> DEFINE x == tx[r]
  <1>1. PICK new \in Of(x.view) \ Of(x.base), candidates \in Candidates(r) :
           /\ tx' = [tx EXCEPT ![r].pc = "file", ![r].noted = DetectConflicts(r, new, candidates)]
           /\ made' = [made EXCEPT !.cut = @ \cup {{new, q} : q \in Comparable(r) \ candidates}]
    BY DEF Flush
  <1> DEFINE y == [x EXCEPT !.pc = "file", !.noted = DetectConflicts(r, new, candidates)]
  <1>2. /\ x # None /\ x.pc = "flush" /\ x \in MemorySession
        /\ UNCHANGED <<rows, hist, conflicts, prop, file, used, spent>>
    BY DEF Flush, At, IInv, TypeOK
  <1>3. Creates(x) /\ New(x) = {new} /\ Shape(x) /\ x.op # "append" /\ x.op # "sync"
    <2>1. Shape(x)
      BY <1>2 DEF IInv, Shapes
    <2>2. Creates(x)
      BY <2>1, <1>2 DEF Shape, ShapeFile
    <2>3. PICK n \in Ids : New(x) = {n}
      BY <2>1, <2>2 DEF Shape, ShapeNew
    <2> QED BY <1>1, <2>1, <2>2, <2>3 DEF New, Creates
  <1>4. /\ DetectConflicts(r, new, candidates) \subseteq Pair
        /\ {{new, q} : q \in Comparable(r) \ candidates} \subseteq Pair
    BY <1>1 DEF DetectConflicts, Pair, Candidates, Comparable, Of
  <1>4a. /\ made' \in History /\ made'.cut = made.cut \cup {{new, q} : q \in Comparable(r) \ candidates}
         /\ made'.overlap = made.overlap /\ made'.edit = made.edit /\ made'.calm = made.calm
         /\ made'.revived = made.revived /\ made'.overwritten = made.overwritten
    BY <1>1, <1>4 DEF IInv, TypeOK
  <1>5. /\ y \in MemorySession /\ Moves(x, y) /\ y.pc = "file" /\ y.noted = DetectConflicts(r, new, candidates)
        /\ y.todo = x.todo /\ y.copy = x.copy
    BY <1>2, <1>4 DEF MemorySession, Moves
  <1>6. tx' = [tx EXCEPT ![r] = y]
    BY <1>1
  <1> HIDE DEF y
  <1>7. ShapeFile(y)
    BY <1>3, <1>5 DEF Shape, ShapeFile, Moves, Creates, New
  <1>8. /\ TypeOK' /\ Shapes' /\ Linked' /\ Apart' /\ Current' /\ ReplacedIsHidden' /\ ConflictsNoted'
        /\ tx'[r] = y /\ New(y) = New(x) /\ (Creates(y) <=> Creates(x))
        /\ \A q \in Requests : q # r => tx'[q] = tx[q]
    <2>1. /\ file' \in File
          /\ spent' \in [ops: 0 .. OpBound, troubles: 0 .. TroubleBound]
      BY <1>2 DEF IInv, TypeOK
    <2> QED BY <2>1, <1>2, <1>4a, <1>5, <1>6, <1>7, SessionMoves
  <1>9. y.op = x.op /\ y.base = x.base /\ y.view = x.view /\ y.prop = x.prop /\ y.alone = x.alone
    BY <1>5 DEF Moves
  <1>10. Noted'
    <2>1. NotedOK(tx[r])'
      <3>1. SUFFICES ASSUME NEW n \in New(y), NEW q \in Ids \ Of(y.base), Visible(q), rows[q].content # y.view[n].content
                     PROVE  {n, q} \in y.noted \cup made'.cut
        BY <1>2, <1>4a, <1>8 DEF NotedOK, Visible, Exists
      <3>2. n = new /\ q \in Comparable(r) /\ rows[q].content # x.view[new].content
        BY <3>1, <1>3, <1>8, <1>9 DEF Comparable, Visible, Exists, IsInactive
      <3>3. CASE q \in candidates
        BY <3>2, <3>3, <1>5 DEF DetectConflicts
      <3>4. CASE q \notin candidates
        BY <3>2, <3>4, <1>4a
      <3> QED BY <3>3, <3>4
    <2>2. \A q \in Requests : q # r /\ tx'[q] # None => NotedOK(tx[q])'
      BY <1>2, <1>4a, <1>8, OnlyOne DEF NotedOK
    <2> QED BY <2>1, <2>2, <1>8 DEF Noted
  <1>11. EntriesKept'
    <2>1. EntryOK(tx[r])'
      <3>1. EntryOK(x)
        BY <1>2 DEF IInv, EntriesKept
      <3> QED BY <3>1, <1>2, <1>4a, <1>5, <1>8, <1>9 DEF EntryOK, Copied
    <2>2. \A q \in Requests : q # r /\ tx'[q] # None => EntryOK(tx[q])'
      BY <1>2, <1>4a, <1>8, OnlyOne DEF EntryOK
    <2> QED BY <2>1, <2>2, <1>2, <1>4a DEF IInv, EntriesKept
  <1>12. TextsCounted'
    <2>1. TextOK(tx[r])'
      <3>1. TextOK(x)
        BY <1>2 DEF IInv, TextsCounted
      <3> QED BY <3>1, <1>2, <1>4a, <1>5, <1>8, <1>9 DEF TextOK, Copied
    <2>2. \A q \in Requests : q # r /\ tx'[q] # None => TextOK(tx[q])'
      BY <1>2, <1>4a, <1>8, OnlyOne DEF TextOK
    <2>3. \A u \in Proposals : (Applied(u)' <=> Applied(u)) /\ (Written(u)' <=> Written(u))
      <3>1. \A u \in Proposals : Applied(u)' <=> Applied(u)
        BY <1>2 DEF Applied
      <3>2. \A q \in Requests : tx'[q] = tx[q] \/ (q = r /\ tx'[q].op # "append" /\ tx[q].op # "append")
        BY <1>3, <1>8, <1>9
      <3> QED BY <3>1, <3>2 DEF Written
    <2> QED BY <2>1, <2>2, <2>3, <1>2, <1>4a DEF IInv, TextsCounted
  <1>13. Mirrored'
    <2>1. LineOK(tx[r])' /\ SyncOK(tx[r])'
      <3>1. LineOK(x)
        BY <1>2 DEF IInv, Mirrored
      <3>2. LineOK(tx[r])'
        BY <3>1, <1>2, <1>4a, <1>5, <1>8, <1>9 DEF LineOK, Copied, Leaves
      <3>3. SyncOK(tx[r])'
        BY <1>3, <1>8, <1>9 DEF SyncOK
      <3> QED BY <3>2, <3>3
    <2>2. \A q \in Requests : q # r /\ tx'[q] # None => LineOK(tx[q])' /\ SyncOK(tx[q])'
      BY <1>2, <1>4a, <1>8, OnlyOne DEF LineOK, SyncOK
    <2>3. y # None /\ tx'[r].view = x.view
      BY <1>5, <1>8, <1>9, NoneAssumption
    <2> QED BY <2>1, <2>2, <2>3, <1>2, <1>4a, <1>8 DEF IInv, Mirrored, Agree
  <1> QED BY <1>8, <1>10, <1>11, <1>12, <1>13 DEF IInv

\* The file is read.
LEMMA FileReadStep ==
  ASSUME IInv, NEW r \in Requests, FileRead(r)
  PROVE  IInv'
  <1>0. PICK copy \in Readable(r) : tx' = [tx EXCEPT ![r].copy = copy]
    BY DEF FileRead
  <1> DEFINE x == tx[r]
             y == [x EXCEPT !.copy = copy]
  <1>1. /\ x # None /\ x.pc = "file" /\ x.todo # <<>> /\ x.copy = None /\ x \in MemorySession
        /\ UNCHANGED <<rows, hist, conflicts, prop, file, used, made, spent>>
        /\ tx' = [tx EXCEPT ![r] = y] /\ copy \in File
        /\ ~made.overlap \/ made.calm => copy = file
    <2>1. /\ x # None /\ x.pc = "file" /\ x.todo # <<>> /\ x.copy = None /\ x \in MemorySession
          /\ UNCHANGED <<rows, hist, conflicts, prop, file, used, made, spent>>
      BY DEF FileRead, At, IInv, TypeOK
    <2> QED BY <2>1, <1>0, ReadableFacts, OnlyOne
  <1>2. Shape(x) /\ x.op # "sync"
    BY <1>1 DEF IInv, Shapes, Shape, ShapeFile
  <1>3. y \in MemorySession /\ Moves(x, y) /\ y.pc = x.pc /\ y.noted = x.noted /\ y.todo = x.todo /\ y.copy = copy
    BY <1>1 DEF MemorySession, Moves
  <1> HIDE DEF y
  <1>4. ShapeFile(y)
    BY <1>2, <1>3 DEF Shape, ShapeFile, Moves, Creates, New
  <1>5. /\ TypeOK' /\ Shapes' /\ Linked' /\ Apart' /\ Current' /\ ReplacedIsHidden' /\ ConflictsNoted'
        /\ tx'[r] = y /\ New(y) = New(x) /\ (Creates(y) <=> Creates(x))
        /\ \A q \in Requests : q # r => tx'[q] = tx[q]
    <2>1. /\ file' \in File /\ made' \in History
          /\ spent' \in [ops: 0 .. OpBound, troubles: 0 .. TroubleBound]
      BY <1>1 DEF IInv, TypeOK
    <2> QED BY <2>1, <1>1, <1>3, <1>4, SessionMoves
  <1>6. y.op = x.op /\ y.base = x.base /\ y.view = x.view /\ y.prop = x.prop /\ y.alone = x.alone
    BY <1>3 DEF Moves
  <1>7. Noted'
    <2>1. NotedOK(tx[r])'
      <3>1. NotedOK(x)
        BY <1>1 DEF IInv, Noted
      <3>2. rows' = rows /\ made' = made
        BY <1>1
      <3> QED BY <3>1, <3>2, <1>3, <1>5, <1>6 DEF NotedOK, Visible, Exists
    <2>2. \A q \in Requests : q # r /\ tx'[q] # None => NotedOK(tx[q])'
      BY <1>1, <1>5, OnlyOne DEF NotedOK
    <2> QED BY <2>1, <2>2, <1>5 DEF Noted
  <1>8. EntriesKept'
    <2>1. EntryOK(tx[r])'
      <3>1. EntryOK(x)
        BY <1>1 DEF IInv, EntriesKept
      <3> QED BY <3>1, <1>1, <1>3, <1>5 DEF EntryOK
    <2>2. \A q \in Requests : q # r /\ tx'[q] # None => EntryOK(tx[q])'
      BY <1>1, <1>5, OnlyOne DEF EntryOK
    <2> QED BY <2>1, <2>2, <1>1 DEF IInv, EntriesKept
  <1>9. TextsCounted'
    <2>1. TextOK(tx[r])'
      <3>1. TextOK(x)
        BY <1>1 DEF IInv, TextsCounted
      <3> QED BY <3>1, <1>1, <1>3, <1>5, <1>6 DEF TextOK
    <2>2. \A q \in Requests : q # r /\ tx'[q] # None => TextOK(tx[q])'
      BY <1>1, <1>5, OnlyOne DEF TextOK
    <2>3. \A u \in Proposals : (Applied(u)' <=> Applied(u)) /\ (Written(u)' <=> Written(u))
      <3>1. \A u \in Proposals : Applied(u)' <=> Applied(u)
        BY <1>1 DEF Applied
      <3>2. \A q \in Requests : tx'[q] = tx[q] \/ (q = r /\ tx'[q].todo # <<>> /\ tx[q].todo # <<>>)
        BY <1>1, <1>3, <1>5
      <3> QED BY <3>1, <3>2 DEF Written
    <2> QED BY <2>1, <2>2, <2>3, <1>1 DEF IInv, TextsCounted
  <1>10. Mirrored'
    <2>1. LineOK(tx[r])' /\ SyncOK(tx[r])'
      <3>1. LineOK(x)
        BY <1>1 DEF IInv, Mirrored
      <3>2. LineOK(tx[r])'
        BY <3>1, <1>1, <1>3, <1>5, <1>6 DEF LineOK, Leaves
      <3>3. SyncOK(tx[r])'
        BY <1>2, <1>5, <1>6 DEF SyncOK
      <3> QED BY <3>2, <3>3
    <2>2. \A q \in Requests : q # r /\ tx'[q] # None => LineOK(tx[q])' /\ SyncOK(tx[q])'
      BY <1>1, <1>5, OnlyOne DEF LineOK, SyncOK
    <2>3. y # None /\ tx'[r].view = x.view
      BY <1>3, <1>5, <1>6, NoneAssumption
    <2> QED BY <2>1, <2>2, <2>3, <1>1, <1>5 DEF IInv, Mirrored, Agree
  <1> QED BY <1>5, <1>7, <1>8, <1>9, <1>10 DEF IInv

\* The next rewrite of the file.
LEMMA HeadFacts ==
  ASSUME IInv, NEW r \in Requests, At(r, "file"), tx[r].todo # <<>>
  PROVE  /\ tx[r] \in MemorySession /\ tx[r] # None /\ tx[r].op # "sync" /\ Shape(tx[r])
         /\ Head(tx[r].todo) = tx[r].todo[1]
         /\ tx[r].op = "append" => /\ Head(tx[r].todo)[1] \in {"text", "replace"} /\ Head(tx[r].todo)[2] = tx[r].prop
                                   /\ tx[r].prop \in Proposals /\ Tail(tx[r].todo) = <<>>
         /\ tx[r].op # "append" => /\ Head(tx[r].todo)[1] \in {"append", "rewrite"} /\ Head(tx[r].todo)[2] \in Of(tx[r].view)
                                   /\ Head(tx[r].todo)[1] = "append" => Head(tx[r].todo)[2] \in New(tx[r])
  <1> DEFINE x == tx[r]
  <1>1. x \in MemorySession /\ x # None /\ Shape(x) /\ x.op # "sync"
    BY DEF At, IInv, TypeOK, Shapes, Shape, ShapeFile
  <1>2. x.todo \in Seq(Rewrite) /\ x.todo # <<>>
    BY <1>1 DEF MemorySession
  <1>3. Head(x.todo) = x.todo[1] /\ Len(x.todo) \in Nat \ {0}
    BY <1>2
  <1>4. CASE x.op = "append"
    <2>1. x.todo \in {<< <<"text", x.prop>> >>, << <<"replace", x.prop>> >>} /\ x.prop \in Proposals
      BY <1>4, <1>1, <1>2 DEF Shape, ShapeFile
    <2>2. PICK how \in {"text", "replace"} : x.todo = << <<how, x.prop>> >>
      BY <2>1
    <2>3. Head(x.todo) = <<how, x.prop>> /\ Tail(x.todo) = <<>>
      BY <2>2
    <2> QED BY <2>1, <2>2, <2>3, <1>1, <1>3, <1>4
  <1>5. CASE x.op # "append"
    BY <1>5, <1>1, <1>3 DEF Shape, ShapeFile
  <1> QED BY <1>4, <1>5

\* A rewrite of the file is behind.
LEMMA DoneFacts ==
  ASSUME IInv, NEW r \in Requests, At(r, "file"), tx[r].todo # <<>>
  PROVE  LET x == tx[r]
             y == [x EXCEPT !.copy = None, !.todo = Tail(@)]
         IN /\ y \in MemorySession /\ Moves(x, y) /\ ShapeFile(y) /\ (x.op = "append" => y.todo = <<>>)
            /\ y.pc = "file" /\ y.noted = x.noted /\ y.copy = None /\ y.todo = Tail(x.todo)
            /\ \A m \in Ids : Pending(x.todo, m) /\ m # Head(x.todo)[2] => Pending(y.todo, m)
  <1> DEFINE x == tx[r]
             y == [x EXCEPT !.copy = None, !.todo = Tail(@)]
  <1>1. x \in MemorySession /\ x.pc = "file" /\ Shape(x) /\ x.op # "sync" /\ (x.op = "append" => Tail(x.todo) = <<>>)
    BY HeadFacts DEF At
  <1>2. x.todo \in Seq(Rewrite) /\ x.todo # <<>>
    BY <1>1 DEF MemorySession
  <1>3. /\ Head(x.todo) = x.todo[1] /\ Len(x.todo) \in Nat \ {0}
        /\ Tail(x.todo) \in Seq(Rewrite) /\ Len(Tail(x.todo)) = Len(x.todo) - 1
        /\ \A i \in 1 .. Len(x.todo) - 1 : Tail(x.todo)[i] = x.todo[i + 1]
    BY <1>2
  <1>4. y \in MemorySession /\ Moves(x, y) /\ y.pc = "file" /\ y.noted = x.noted /\ y.copy = None /\ y.todo = Tail(x.todo)
    BY <1>1, <1>3 DEF MemorySession, Moves
  <1> HIDE DEF y
  <1>6. New(y) = New(x) /\ (Creates(y) <=> Creates(x)) /\ y.op = x.op /\ y.view = x.view /\ y.prop = x.prop
    BY <1>4 DEF Moves, New, Creates
  <1>7. ShapeFile(y)
    <2>1. CASE x.op = "append"
      BY <2>1, <1>1, <1>4, <1>6 DEF Shape, ShapeFile
    <2>2. CASE x.op # "append"
      <3>1. ASSUME NEW i \in 1 .. Len(y.todo)
            PROVE  /\ y.todo[i][1] \in {"append", "rewrite"} /\ y.todo[i][2] \in Of(y.view)
                   /\ y.todo[i][1] = "append" => y.todo[i][2] \in New(y)
        <4>1. i + 1 \in 1 .. Len(x.todo) /\ y.todo[i] = x.todo[i + 1]
          BY <1>3, <1>4
        <4> QED BY <4>1, <2>2, <1>1, <1>6 DEF Shape, ShapeFile
      <3> QED BY <3>1, <2>2, <1>1, <1>4, <1>6 DEF Shape, ShapeFile
    <2> QED BY <2>1, <2>2
  <1>8. ASSUME NEW m \in Ids, Pending(x.todo, m), m # Head(x.todo)[2] PROVE Pending(y.todo, m)
    <2>1. PICK i \in 1 .. Len(x.todo) : x.todo[i][2] = m
      BY <1>8 DEF Pending
    <2>2. i # 1
      BY <2>1, <1>3, <1>8
    <2>3. i - 1 \in 1 .. Len(y.todo) /\ y.todo[i - 1] = x.todo[i]
      BY <2>2, <1>3, <1>4
    <2> QED BY <2>1, <2>3 DEF Pending
  <1> QED BY <1>1, <1>4, <1>7, <1>8 DEF y

\* What a text that the file does not hold says of its proposal.
LEMMA NoTextFacts ==
  ASSUME IInv, ~made.overlap, NEW p \in Proposals, p \notin made.overwritten, p \notin InFile
  PROVE  ~Applied(p) /\ ~Written(p) /\ file.texts[p] = 0
  <1>1. file.texts[p] = 0 /\ spent.troubles \in Nat
    BY DEF IInv, TypeOK, File, InFile
  <1>2. file.texts[p] \in IF Applied(p) \/ Written(p) THEN 1 .. 1 + spent.troubles ELSE 0 .. spent.troubles
    BY DEF IInv, TextsCounted
  <1> QED BY <1>1, <1>2

\* A write that breaks leaves the file, or empties it.
LEMMA DamageFacts ==
  ASSUME IInv, NEW r \in Requests, Damage(r)
  PROVE  /\ made' \in History /\ made'.cut = made.cut /\ made.overwritten \subseteq made'.overwritten
         /\ made'.edit /\ ~made'.calm /\ made'.revived = made.revived /\ made'.overlap = made.overlap
         /\ file' \in File
         /\ \A p \in Proposals \ made'.overwritten : file'.texts[p] = file.texts[p]
  <1>1. file \in File /\ made \in History /\ EmptyFile \in File /\ InFile \subseteq Proposals
    BY ReadableFacts DEF IInv, TypeOK, InFile
  <1>2. CASE made' = [made EXCEPT !.edit = TRUE, !.calm = FALSE] /\ UNCHANGED file
    BY <1>1, <1>2
  <1>3. CASE /\ made' = [made EXCEPT !.edit = TRUE, !.calm = FALSE, !.overwritten = @ \cup InFile]
             /\ file' = EmptyFile
    <2>1. /\ made' \in History /\ made'.cut = made.cut /\ made'.overwritten = made.overwritten \cup InFile
          /\ made'.edit /\ ~made'.calm /\ made'.revived = made.revived /\ made'.overlap = made.overlap
      BY <1>1, <1>3
    <2>2. \A p \in Proposals \ InFile : file'.texts[p] = file.texts[p]
      BY <1>1, <1>3 DEF InFile, EmptyFile, NoTexts, File
    <2> QED BY <1>1, <1>3, <2>1, <2>2
  <1> QED BY <1>2, <1>3 DEF Damage

\* The file system fails and the request goes on.
LEMMA FileFaultStep ==
  ASSUME IInv, NEW r \in Requests, FileFault(r)
  PROVE  IInv'
  <1> DEFINE x == tx[r]
             y == [x EXCEPT !.copy = None, !.todo = Tail(@)]
  <1>1. /\ At(r, "file") /\ x.todo # <<>> /\ Head(x.todo)[1] \in {"append", "rewrite"}
        /\ tx' = [tx EXCEPT ![r] = y]
        /\ UNCHANGED <<rows, hist, conflicts, prop, used>>
        /\ Damage(r)
    BY DEF FileFault, Done
  <1>2. /\ x \in MemorySession /\ x # None /\ x.op # "sync" /\ x.pc = "file"
        /\ y \in MemorySession /\ Moves(x, y) /\ ShapeFile(y)
        /\ y.pc = "file" /\ y.noted = x.noted /\ y.copy = None /\ y.todo = Tail(x.todo)
        /\ x.op # "append"
    BY <1>1, HeadFacts, DoneFacts DEF At
  <1> HIDE DEF y
  <1>3. /\ made' \in History /\ made'.cut = made.cut /\ made.overwritten \subseteq made'.overwritten
        /\ made'.edit /\ ~made'.calm /\ made'.revived = made.revived /\ made'.overlap = made.overlap
        /\ file' \in File
        /\ \A p \in Proposals \ made'.overwritten : file'.texts[p] = file.texts[p]
    BY <1>1, DamageFacts
  <1>4. /\ spent'.troubles = spent.troubles + 1 /\ spent.troubles \in Nat
        /\ spent' \in [ops: 0 .. OpBound, troubles: 0 .. TroubleBound]
    BY MemoryAssumption DEF FileFault, Trouble, IInv, TypeOK
  <1>5. /\ TypeOK' /\ Shapes' /\ Linked' /\ Apart' /\ Current' /\ ReplacedIsHidden' /\ ConflictsNoted'
        /\ tx'[r] = y /\ New(y) = New(x) /\ (Creates(y) <=> Creates(x))
        /\ \A q \in Requests : q # r => tx'[q] = tx[q]
    BY <1>1, <1>2, <1>3, <1>4, SessionMoves
  <1>6. y.op = x.op /\ y.base = x.base /\ y.view = x.view /\ y.prop = x.prop /\ y.alone = x.alone
    BY <1>2 DEF Moves
  <1>7. Noted'
    <2>1. NotedOK(tx[r])'
      <3>1. NotedOK(x)
        BY <1>2 DEF IInv, Noted
      <3>2. rows' = rows
        BY <1>1
      <3> QED BY <3>1, <3>2, <1>2, <1>3, <1>5, <1>6 DEF NotedOK, Visible, Exists
    <2>2. \A q \in Requests : q # r /\ tx'[q] # None => NotedOK(tx[q])'
      BY <1>2, <1>3, <1>5, OnlyOne DEF NotedOK
    <2> QED BY <2>1, <2>2, <1>5 DEF Noted
  <1>8. EntriesKept'
    BY <1>3 DEF EntriesKept, EntryOK
  <1>9. TextsCounted'
    <2>1. TextOK(tx[r])'
      <3>1. TextOK(x)
        BY <1>2 DEF IInv, TextsCounted
      <3> QED BY <3>1, <1>1, <1>2, <1>3, <1>5, <1>6 DEF TextOK, Copied
    <2>2. \A q \in Requests : q # r /\ tx'[q] # None => TextOK(tx[q])'
      BY <1>2, <1>3, <1>5, OnlyOne DEF TextOK
    <2>3. \A u \in Proposals : (Applied(u)' <=> Applied(u)) /\ (Written(u)' <=> Written(u))
      <3>1. \A u \in Proposals : Applied(u)' <=> Applied(u)
        BY <1>1 DEF Applied
      <3>2. \A q \in Requests : tx'[q] = tx[q] \/ (q = r /\ tx'[q].op # "append" /\ tx[q].op # "append")
        BY <1>2, <1>5, <1>6
      <3> QED BY <3>1, <3>2 DEF Written
    <2>4. \A u \in Proposals : file.texts[u] \in Nat
      BY DEF IInv, TypeOK, File
    <2> QED BY <2>1, <2>2, <2>3, <2>4, <1>3, <1>4 DEF IInv, TextsCounted
  <1>10. Mirrored'
    <2>1. SyncOK(tx[r])'
      BY <1>2, <1>5, <1>6 DEF SyncOK
    <2>2. \A q \in Requests : q # r /\ tx'[q] # None => SyncOK(tx[q])'
      BY <1>2, <1>5, OnlyOne, SMTT(30) DEF SyncOK
    <2> QED BY <2>1, <2>2, <1>3 DEF Mirrored, LineOK
  <1> QED BY <1>5, <1>7, <1>8, <1>9, <1>10 DEF IInv

\* The file is written: what changes in it.
LEMMA FileWritten ==
  ASSUME IInv, NEW r \in Requests, FileWrite(r)
  PROVE  LET x == tx[r]
             what == Head(x.todo)[2]
         IN /\ file' \in File
            /\ \A p \in Proposals : x.copy.texts[p] = file.texts[p] =>
                 file'.texts[p] = IF x.op = "append" /\ p = x.prop THEN file.texts[p] + 1 ELSE file.texts[p]
            /\ x.op = "append" /\ x.copy.entries = file.entries => file'.entries = file.entries
            /\ x.op # "append" /\ x.copy.entries = file.entries =>
                 /\ \A m \in Ids : m # what => file'.entries[m] = file.entries[m]
                 /\ \/ file'.entries[what] = MemoryFileLine(x.view[what]) /\ file'.entries[what] # None
                    \/ file'.entries[what] = None /\ file.entries[what] = None /\ Head(x.todo)[1] # "append"
  <1> DEFINE x == tx[r]
             how == Head(x.todo)[1]
             what == Head(x.todo)[2]
  <1>0. At(r, "file") /\ x.todo # <<>>
    BY SMTT(30) DEF FileWrite
  <1>1. /\ x.copy # None
        /\ how # "replace"
        /\ file' = CASE how = "rewrite" /\ x.copy.entries[what] = None -> file
                      [] how = "text" -> [x.copy EXCEPT !.texts[what] = @ + 1]
                      [] OTHER -> [x.copy EXCEPT !.entries[what] = MemoryFileLine(x.view[what])]
    BY DEF FileWrite, Absent
  <1>2. /\ x \in MemorySession /\ x # None
        /\ x.op = "append" => how = "text" /\ what = x.prop /\ x.prop \in Proposals
        /\ x.op # "append" => how \in {"append", "rewrite"} /\ what \in Of(x.view)
    BY <1>0, <1>1, HeadFacts
  <1> HIDE DEF how, what
  <1>3. x.copy \in File /\ file \in File /\ x.view \in Table
    BY <1>1, <1>2 DEF MemorySession, IInv, TypeOK
  <1>4. CASE x.op = "append"
    <2>1. file' = [x.copy EXCEPT !.texts[x.prop] = @ + 1]
      BY <1>1, <1>2, <1>4
    <2>2. file' \in File /\ file'.entries = x.copy.entries /\ file'.texts = [x.copy.texts EXCEPT ![x.prop] = @ + 1]
      BY <2>1, <1>2, <1>3, <1>4 DEF File
    <2>3. \A p \in Proposals : file'.texts[p] = IF p = x.prop THEN x.copy.texts[p] + 1 ELSE x.copy.texts[p]
      BY <2>2, <1>2, <1>3, <1>4 DEF File
    <2> QED BY <2>2, <2>3, <1>4
  <1>5. CASE x.op # "append" /\ how = "rewrite" /\ x.copy.entries[what] = None
    <2>1. UNCHANGED file
      BY <1>1, <1>5
    <2> QED BY <2>1, <1>3, <1>5 DEF how, what
  <1>6. CASE x.op # "append" /\ ~(how = "rewrite" /\ x.copy.entries[what] = None)
    <2>1. file' = [x.copy EXCEPT !.entries[what] = MemoryFileLine(x.view[what])]
      BY <1>1, <1>2, <1>6
    <2>2. what \in Ids /\ x.view[what] \in Row
      BY <1>2, <1>3, <1>6 DEF Of, Table
    <2>3. MemoryFileLine(x.view[what]) \in Line /\ MemoryFileLine(x.view[what]) # None
      BY <2>2, RowTypes
    <2>4. /\ file' \in File /\ file'.texts = x.copy.texts
          /\ file'.entries = [x.copy.entries EXCEPT ![what] = MemoryFileLine(x.view[what])]
      BY <2>1, <2>2, <2>3, <1>3, SMTT(30) DEF File
    <2>5. file'.entries[what] = MemoryFileLine(x.view[what]) /\ \A m \in Ids : m # what => file'.entries[m] = x.copy.entries[m]
      BY <2>2, <2>4, <1>3 DEF File
    <2> QED BY <2>3, <2>4, <2>5, <1>6 DEF what
  <1> QED BY <1>4, <1>5, <1>6

\* The file is written.
LEMMA FileWriteStep ==
  ASSUME IInv, NEW r \in Requests, FileWrite(r)
  PROVE  IInv'
  <1> DEFINE x == tx[r]
             y == [x EXCEPT !.copy = None, !.todo = Tail(@)]
             how == Head(x.todo)[1]
             what == Head(x.todo)[2]
  <1>0. At(r, "file") /\ x.todo # <<>>
    BY SMTT(30) DEF FileWrite
  <1>1. /\ x.todo # <<>> /\ x.copy # None /\ how # "replace"
        /\ tx' = [tx EXCEPT ![r] = y]
        /\ UNCHANGED <<rows, hist, conflicts, prop, used, made, spent>>
    BY DEF FileWrite, Done
  <1>2. /\ x \in MemorySession /\ x # None /\ x.op # "sync" /\ x.pc = "file" /\ Head(x.todo) = x.todo[1]
        /\ y \in MemorySession /\ Moves(x, y) /\ ShapeFile(y)
        /\ y.pc = "file" /\ y.noted = x.noted /\ y.copy = None /\ y.todo = Tail(x.todo)
        /\ \A m \in Ids : Pending(x.todo, m) /\ m # what => Pending(y.todo, m)
        /\ x.op = "append" => how = "text" /\ what = x.prop /\ y.todo = <<>> /\ x.prop \in Proposals
        /\ x.op # "append" => how \in {"append", "rewrite"} /\ what \in Of(x.view) /\ (how = "append" => what \in New(x))
    <2>1. /\ y \in MemorySession /\ Moves(x, y) /\ ShapeFile(y) /\ (x.op = "append" => y.todo = <<>>)
          /\ y.pc = "file" /\ y.noted = x.noted /\ y.copy = None /\ y.todo = Tail(x.todo)
          /\ \A m \in Ids : Pending(x.todo, m) /\ m # what => Pending(y.todo, m)
      BY <1>0, DoneFacts
    <2>2. x.pc = "file"
      BY <1>0 DEF At
    <2>3. /\ x \in MemorySession /\ x # None /\ x.op # "sync" /\ Head(x.todo) = x.todo[1]
          /\ x.op = "append" => how = "text" /\ what = x.prop /\ x.prop \in Proposals
          /\ x.op # "append" => how \in {"append", "rewrite"} /\ what \in Of(x.view) /\ (how = "append" => what \in New(x))
      BY <1>0, <1>1, HeadFacts
    <2> QED BY <2>1, <2>2, <2>3
  <1>3. /\ file' \in File
        /\ \A p \in Proposals : x.copy.texts[p] = file.texts[p] =>
             file'.texts[p] = IF x.op = "append" /\ p = x.prop THEN file.texts[p] + 1 ELSE file.texts[p]
        /\ x.op = "append" /\ x.copy.entries = file.entries => file'.entries = file.entries
        /\ x.op # "append" /\ x.copy.entries = file.entries =>
             /\ \A m \in Ids : m # what => file'.entries[m] = file.entries[m]
             /\ \/ file'.entries[what] = MemoryFileLine(x.view[what]) /\ file'.entries[what] # None
                \/ file'.entries[what] = None /\ file.entries[what] = None /\ how # "append"
    BY FileWritten
  <1> HIDE DEF y, how, what
  <1>4. /\ TypeOK' /\ Shapes' /\ Linked' /\ Apart' /\ Current' /\ ReplacedIsHidden' /\ ConflictsNoted'
        /\ tx'[r] = y /\ New(y) = New(x) /\ (Creates(y) <=> Creates(x))
        /\ \A q \in Requests : q # r => tx'[q] = tx[q]
    <2>1. /\ made' \in History
          /\ spent' \in [ops: 0 .. OpBound, troubles: 0 .. TroubleBound]
      BY <1>1 DEF IInv, TypeOK
    <2> QED BY <2>1, <1>1, <1>2, <1>3, SessionMoves
  <1>5. y.op = x.op /\ y.base = x.base /\ y.view = x.view /\ y.prop = x.prop /\ y.alone = x.alone
    BY <1>2 DEF Moves
  <1>6. Copied(x) /\ ~Copied(y)
    BY <1>1, <1>2 DEF Copied
  <1>7. Noted'
    <2>1. NotedOK(tx[r])'
      <3>1. NotedOK(x)
        BY <1>2 DEF IInv, Noted
      <3>2. rows' = rows /\ made' = made
        BY <1>1
      <3> QED BY <3>1, <3>2, <1>2, <1>4, <1>5 DEF NotedOK, Visible, Exists
    <2>2. \A q \in Requests : q # r /\ tx'[q] # None => NotedOK(tx[q])'
      BY <1>1, <1>2, <1>4, OnlyOne DEF NotedOK
    <2> QED BY <2>1, <2>2, <1>4 DEF Noted
  <1>8. EntriesKept'
    <2>1. ASSUME ~made.overlap, ~made.edit
          PROVE  /\ \A m \in Ids : file.entries[m] # None => file'.entries[m] # None
                 /\ \A n \in New(x) : file'.entries[n] # None
      <3>1. EntryOK(x)
        BY <1>2 DEF IInv, EntriesKept
      <3>2. x.copy.entries = file.entries
        BY <2>1, <3>1, <1>6 DEF EntryOK
      <3>3. \A m \in Ids : file.entries[m] # None => file'.entries[m] # None
        BY <3>2, <1>3
      <3>4. ASSUME NEW n \in New(x), file.entries[n] = None PROVE file'.entries[n] # None
        <4>1. x.todo[1] = <<"append", n>>
          BY <3>1, <3>4, <2>1 DEF EntryOK
        <4>2. how = "append" /\ what = n
          BY <4>1, <1>2 DEF how, what
        <4>3. x.op # "append"
          BY <4>2, <1>2 DEF how
        <4> QED BY <4>2, <4>3, <3>2, <1>3
      <3> QED BY <3>3, <3>4 DEF New, Of
    <2>2. EntryOK(tx[r])'
      BY <2>1, <1>1, <1>4, <1>6 DEF EntryOK, New, Of
    <2>3. \A q \in Requests : q # r /\ tx'[q] # None => EntryOK(tx[q])'
      BY <1>1, <1>2, <1>4, OnlyOne DEF EntryOK
    <2> QED BY <2>1, <2>2, <2>3, <1>1 DEF IInv, EntriesKept
  <1>9. TextsCounted'
    <2>1. TextOK(x)
      BY <1>2 DEF IInv, TextsCounted
    <2>2. TextOK(tx[r])'
      BY <2>1, <1>1, <1>4, <1>5, <1>6 DEF TextOK
    <2>3. \A q \in Requests : q # r /\ tx'[q] # None => TextOK(tx[q])'
      BY <1>1, <1>2, <1>4, OnlyOne DEF TextOK
    <2>4. ASSUME ~made.overlap, NEW p \in Proposals \ made.overwritten
          PROVE  file'.texts[p] \in IF Applied(p)' \/ Written(p)' THEN 1 .. 1 + spent.troubles ELSE 0 .. spent.troubles
      <3>1. file.texts[p] \in IF Applied(p) \/ Written(p) THEN 1 .. 1 + spent.troubles ELSE 0 .. spent.troubles
        BY <2>4 DEF IInv, TextsCounted
      <3>2. x.copy.texts[p] = file.texts[p] /\ (x.prop # None => prop[x.prop].status = "pending")
        BY <2>1, <2>4, <1>6 DEF TextOK
      <3>3. Applied(p)' <=> Applied(p)
        BY <1>1 DEF Applied
      <3>4. ~Written(p)
        BY <2>4, <1>1, <1>2, OnlyOne DEF Written
      <3>5. file.texts \in [Proposals -> Nat] /\ spent.troubles \in Nat
        BY DEF IInv, TypeOK, File
      <3>6. CASE x.op = "append" /\ p = x.prop
        <4>1. Written(p)'
          BY <3>6, <1>2, <1>4, <1>5, NoneAssumption DEF Written
        <4>2. ~Applied(p)
          BY <3>2, <3>6, RowTypes DEF Applied
        <4>3. file'.texts[p] = file.texts[p] + 1
          BY <3>2, <3>5, <3>6, <1>3
        <4> QED BY <4>1, <4>2, <4>3, <3>1, <3>4, <3>5
      <3>7. CASE ~(x.op = "append" /\ p = x.prop)
        <4>1. ~Written(p)'
          BY <3>7, <2>4, <1>2, <1>4, <1>5, OnlyOne DEF Written
        <4>2. file'.texts[p] = file.texts[p]
          BY <3>2, <3>5, <3>7, <1>2, <1>3
        <4> QED BY <4>1, <4>2, <3>1, <3>3, <3>4
      <3> QED BY <3>6, <3>7
    <2> QED BY <2>2, <2>3, <2>4, <1>1 DEF TextsCounted
  <1>10. Mirrored'
    <2>1. ASSUME made.calm PROVE x.copy = file /\ x.copy.entries = file.entries /\ LineOK(x)
      BY <2>1, <1>2, <1>6 DEF IInv, Mirrored, LineOK
    <2>2. LineOK(tx[r])'
      <3>1. SUFFICES ASSUME made.calm, NEW m \in Of(x.view), file'.entries[m] # None, ~Leaves(x, m)
                     PROVE  /\ Pending(y.todo, m) \/ file'.entries[m] = MemoryFileLine(x.view[m])
                            /\ x.op # "restore" => FlagsAgree(x.view[m])
        BY <1>1, <1>4, <1>5, <1>6 DEF LineOK, Leaves
      <3>2. m \in Ids
        BY DEF Of
      <3>3. CASE x.op = "append"
        <4>1. Of(x.view) = {}
          BY <3>3, <1>2 DEF IInv, Shapes, Shape, ShapeFile
        <4> QED BY <4>1
      <3>4. CASE x.op # "append" /\ m # what
        <4>1. file'.entries[m] = file.entries[m]
          BY <3>2, <3>4, <2>1, <3>1, <1>3
        <4> QED BY <4>1, <3>1, <3>2, <3>4, <2>1, <1>2 DEF LineOK
      <3>5. CASE x.op # "append" /\ m = what /\ file.entries[m] # None
        <4>1. file'.entries[m] = MemoryFileLine(x.view[m])
          BY <3>2, <3>5, <2>1, <3>1, <1>3
        <4> QED BY <4>1, <3>1, <3>5, <2>1, <1>2 DEF LineOK
      <3>6. CASE x.op # "append" /\ m = what /\ file.entries[m] = None
        <4>1. file'.entries[m] = MemoryFileLine(x.view[m])
          BY <3>2, <3>6, <2>1, <3>1, <1>3
        <4>2. how = "append"
          <5>1. how \in {"append", "rewrite"} 
            BY <3>6, <1>1, <1>2, SMTT(30) DEF MemorySession, Rewrite, how
          <5>2. CASE how = "rewrite"
            <6>1. UNCHANGED file
              BY <5>2, <3>1, <3>6, <2>1 DEF FileWrite, Absent, how, what
            <6> QED BY <6>1, <3>1, <3>6
          <5> QED BY <5>1, <5>2
        <4>3. m \in New(x)
          BY <4>2, <3>6, <1>2
        <4>4. FlagsAgree(x.view[m])
          BY <4>3, <1>2 DEF IInv, Shapes, Shape, ShapeNew
        <4> QED BY <4>1, <4>4
      <3> QED BY <3>3, <3>4, <3>5, <3>6
    <2>3. SyncOK(tx[r])'
      BY <1>2, <1>4, <1>5 DEF SyncOK
    <2>4. \A q \in Requests : q # r /\ tx'[q] # None => LineOK(tx[q])' /\ SyncOK(tx[q])'
      BY <1>1, <1>2, <1>4, OnlyOne DEF LineOK, SyncOK
    <2>5. ASSUME made.calm, NEW m \in Ids, rows[m] # None, file'.entries[m] # None,
                 \A q \in Requests : tx'[q] # None => m \notin Of(tx'[q].view)
          PROVE  Agree(file'.entries[m], rows[m])
      <3>1. m \notin Of(x.view) /\ \A q \in Requests : tx[q] # None => m \notin Of(tx[q].view)
        BY <2>5, <1>2, <1>4, <1>5, NoneAssumption
      <3>2. file'.entries[m] = file.entries[m]
        BY <3>1, <2>1, <2>5, <1>2, <1>3
      <3> QED BY <3>1, <3>2, <2>5 DEF IInv, Mirrored
    <2> QED BY <2>2, <2>3, <2>4, <2>5, <1>1 DEF Mirrored, Agree
  <1> QED BY <1>4, <1>7, <1>8, <1>9, <1>10 DEF IInv

\* A replacing text is written.
LEMMA FileReplaceStep ==
  ASSUME IInv, NEW r \in Requests, FileReplace(r)
  PROVE  IInv'
  <1> DEFINE x == tx[r]
             y == [x EXCEPT !.copy = None, !.todo = Tail(@)]
  <1>0. At(r, "file") /\ x.todo # <<>> /\ Head(x.todo)[1] = "replace"
    BY DEF FileReplace
  <1>1. /\ x \in MemorySession /\ x # None /\ x.op = "append" /\ x.pc = "file"
        /\ Head(x.todo)[2] = x.prop /\ x.prop \in Proposals
        /\ y \in MemorySession /\ Moves(x, y) /\ ShapeFile(y)
        /\ y.pc = "file" /\ y.noted = x.noted /\ y.copy = None /\ y.todo = <<>>
    BY <1>0, HeadFacts, DoneFacts DEF At
  <1>2. /\ tx' = [tx EXCEPT ![r] = y] /\ file' = [EmptyFile EXCEPT !.texts[x.prop] = 1]
        /\ made' = [made EXCEPT !.edit = TRUE, !.calm = FALSE, !.overwritten = @ \cup (InFile \ {x.prop})]
        /\ UNCHANGED <<rows, hist, conflicts, prop, used, spent>>
    BY <1>1 DEF FileReplace, Done
  <1> HIDE DEF y
  <1>3. /\ made' \in History /\ made'.cut = made.cut
        /\ made'.overwritten = made.overwritten \cup (InFile \ {x.prop})
        /\ made'.edit /\ ~made'.calm /\ made'.revived = made.revived /\ made'.overlap = made.overlap
    BY <1>2 DEF IInv, TypeOK, InFile
  <1>4. file' \in File /\ \A p \in Proposals : file'.texts[p] = IF p = x.prop THEN 1 ELSE 0
    BY <1>1, <1>2 DEF EmptyFile, NoTexts, File
  <1>5. /\ TypeOK' /\ Shapes' /\ Linked' /\ Apart' /\ Current' /\ ReplacedIsHidden' /\ ConflictsNoted'
        /\ tx'[r] = y /\ New(y) = New(x) /\ (Creates(y) <=> Creates(x))
        /\ \A q \in Requests : q # r => tx'[q] = tx[q]
    <2>1. spent' \in [ops: 0 .. OpBound, troubles: 0 .. TroubleBound]
      BY <1>2 DEF IInv, TypeOK
    <2> QED BY <2>1, <1>1, <1>2, <1>3, <1>4, SessionMoves
  <1>6. y.op = x.op /\ y.prop = x.prop /\ y.alone = x.alone
    BY <1>1 DEF Moves
  <1>7. Noted'
    <2>1. NotedOK(tx[r])'
      BY <1>1, <1>5, <1>6 DEF NotedOK, Creates
    <2>2. \A q \in Requests : q # r /\ tx'[q] # None => NotedOK(tx[q])'
      BY <1>1, <1>3, <1>5, OnlyOne DEF NotedOK
    <2> QED BY <2>1, <2>2, <1>5 DEF Noted
  <1>8. EntriesKept'
    BY <1>3 DEF EntriesKept, EntryOK
  <1>9. TextsCounted'
    <2>1. TextOK(tx[r])'
      <3>1. TextOK(x)
        BY <1>1 DEF IInv, TextsCounted
      <3> QED BY <3>1, <1>1, <1>2, <1>3, <1>5, <1>6 DEF TextOK, Copied
    <2>2. \A q \in Requests : q # r /\ tx'[q] # None => TextOK(tx[q])'
      BY <1>1, <1>3, <1>5, OnlyOne DEF TextOK
    <2>3. ASSUME ~made.overlap, NEW p \in Proposals \ made'.overwritten
          PROVE  file'.texts[p] \in IF Applied(p)' \/ Written(p)' THEN 1 .. 1 + spent.troubles ELSE 0 .. spent.troubles
      <3>1. spent.troubles \in Nat
        BY DEF IInv, TypeOK
      <3>2. CASE p = x.prop
        <4>1. Written(p)'
          BY <3>2, <1>1, <1>5, <1>6, NoneAssumption DEF Written
        <4> QED BY <4>1, <3>1, <3>2, <1>4
      <3>3. CASE p # x.prop
        <4>1. ~Applied(p) /\ ~Written(p)
          BY <2>3, <3>3, <1>3, NoTextFacts
        <4>2. ~Applied(p)'
          BY <4>1, <1>2 DEF Applied
        <4>3. ~Written(p)'
          BY <2>3, <3>3, <1>1, <1>5, <1>6, OnlyOne DEF Written
        <4> QED BY <4>2, <4>3, <3>1, <3>3, <1>4
      <3> QED BY <3>2, <3>3
    <2> QED BY <2>1, <2>2, <2>3, <1>2, <1>3 DEF TextsCounted
  <1>10. Mirrored'
    <2>1. SyncOK(tx[r])'
      BY <1>1, <1>5, <1>6 DEF SyncOK
    <2>2. \A q \in Requests : q # r /\ tx'[q] # None => SyncOK(tx[q])'
      BY <1>1, <1>5, OnlyOne, SMTT(30) DEF SyncOK
    <2> QED BY <2>1, <2>2, <1>3 DEF Mirrored, LineOK
  <1> QED BY <1>5, <1>7, <1>8, <1>9, <1>10 DEF IInv

\* A row that a line overwrote shows that line, and its flags agree.
LEMMA SyncedFacts ==
  ASSUME NEW row \in Row, NEW line \in Line
  PROVE  /\ Synced(row, line) \in Row /\ Synced(row, line).by = row.by
         /\ Agree(line, Synced(row, line))
  <1>1. PICK c \in Contents : line.content = FirstLine[c]
    BY DEF Line
  <1>2. line.content \in Contents /\ FirstLine[line.content] = line.content
    BY <1>1, FirstLineAssumption
  <1>3. line.status \in Statuses /\ line.level \in 0 .. MaxLevel
    BY DEF Line
  <1>4. /\ Synced(row, line) \in Row /\ Synced(row, line).by = row.by
        /\ Synced(row, line).content = line.content /\ Synced(row, line).status = line.status
        /\ Synced(row, line).level = line.level
        /\ Synced(row, line).archived <=> line.status \in MEMORY_EXPIRED_STATUSES
    <2> DEFINE flag == line.status \in MEMORY_EXPIRED_STATUSES
    <2>1. flag \in BOOLEAN
      OBVIOUS
    <2>2. Synced(row, line) = [row EXCEPT !.content = line.content, !.status = line.status,
                                          !.archived = flag, !.level = line.level]
      BY DEF Synced
    <2> HIDE DEF flag
    <2>3. /\ Synced(row, line) \in Row /\ Synced(row, line).by = row.by
          /\ Synced(row, line).content = line.content /\ Synced(row, line).status = line.status
          /\ Synced(row, line).level = line.level /\ Synced(row, line).archived = flag
      BY <2>1, <2>2, <1>2, <1>3 DEF Row
    <2> QED BY <2>3 DEF flag
  <1>5. line = MemoryFileLine(Synced(row, line))
    BY <1>2, <1>4 DEF MemoryFileLine, Line
  <1> QED BY <1>4, <1>5 DEF Agree, FlagsAgree

\* A sync loads the rows that have an entry.
LEMMA SyncLoadStep ==
  ASSUME IInv, NEW r \in Requests, SyncLoad(r)
  PROVE  IInv'
  <1> DEFINE x == tx[r]
             seen == {m \in Ids : x.copy.entries[m] # None /\ rows[m] # None}
             base == [m \in Ids |-> IF m \in seen THEN rows[m] ELSE None]
             view == [m \in Ids |-> IF m \in seen THEN Synced(rows[m], x.copy.entries[m]) ELSE None]
             y == [x EXCEPT !.pc = "file", !.base = base, !.view = view]
  <1>1. /\ x # None /\ x.pc = "load" /\ tx' = [tx EXCEPT ![r] = y]
        /\ UNCHANGED <<rows, hist, conflicts, prop, file, used, made, spent>>
    BY DEF SyncLoad, At, Exists
  <1>2. /\ tx \in [Requests -> MemorySession \cup {None}] /\ x \in MemorySession
        /\ rows \in Table /\ Shape(x) /\ x.op = "sync" /\ Of(x.view) = {} /\ Of(x.base) = {}
        /\ x.copy # None /\ x.todo = <<>>
    BY <1>1 DEF IInv, TypeOK, Shapes, Shape, ShapeFile, ShapeOld
  <1>3. x.copy \in File /\ x.copy.entries \in [Ids -> Line \cup {None}]
    BY <1>2 DEF MemorySession, File
  <1>4. \A m \in seen : m \in Ids /\ rows[m] \in Row /\ x.copy.entries[m] \in Line
    BY <1>2, <1>3 DEF Table
  <1>5. \A m \in seen : Synced(rows[m], x.copy.entries[m]) \in Row /\ Synced(rows[m], x.copy.entries[m]).by = rows[m].by
    BY <1>4, SyncedFacts
  <1>6. /\ base \in Table /\ view \in Table /\ Of(base) = seen /\ Of(view) = seen
        /\ \A m \in seen : base[m] = rows[m] /\ view[m] = Synced(rows[m], x.copy.entries[m])
    <2>1. base \in Table /\ view \in Table
      BY <1>4, <1>5 DEF Table
    <2>2. Of(base) = seen /\ Of(view) = seen
      BY <1>4, <1>5, RowTypes DEF Of
    <2> QED BY <2>1, <2>2, <1>4
  <1> HIDE DEF base, view
  <1>7. /\ y \in MemorySession /\ y.pc = "file" /\ y.base = base /\ y.view = view /\ y.op = "sync"
        /\ y.todo = <<>> /\ y.snaps = x.snaps /\ y.copy = x.copy /\ y.prop = x.prop /\ y.alone = x.alone
    BY <1>2, <1>6 DEF MemorySession
  <1> HIDE DEF y, seen
  <1>8. tx'[r] = y /\ y # None /\ \A q \in Requests : q # r => tx'[q] = tx[q]
    BY <1>1, <1>2, <1>7, NoneAssumption
  <1>9. New(y) = {} /\ New(x) = {} /\ ~Creates(y)
    BY <1>2, <1>6, <1>7 DEF New, Creates
  <1>10. TypeOK'
    BY <1>1, <1>2, <1>7 DEF IInv, TypeOK
  <1>11. Shapes'
    <2>1. ShapeNew(y) /\ ShapeFile(y)
      BY <1>2, <1>7, <1>9 DEF ShapeNew, ShapeFile
    <2>2. ShapeOld(y)
      BY <1>5, <1>6, <1>7 DEF ShapeOld
    <2> QED BY <2>1, <2>2, <1>8 DEF IInv, Shapes, Shape
  <1>12. Linked'
    <2>1. LinkRows(tx[r])'
      BY <1>1, <1>2, <1>6, <1>7, <1>8, <1>9 DEF LinkRows, Gone, Of
    <2>2. LinkProp(tx[r])'
      BY <1>1, <1>2, <1>7, <1>8 DEF IInv, Linked, LinkProp
    <2>3. ASSUME NEW q \in Requests, q # r, tx'[q] # None PROVE LinkRows(tx[q])' /\ LinkProp(tx[q])'
      <3>1. LinkRows(tx[q]) /\ LinkProp(tx[q]) /\ tx'[q] = tx[q]
        BY <2>3, <1>8 DEF IInv, Linked
      <3>2. LinkRows(tx[q])'
        BY <3>1, <1>1 DEF LinkRows, Gone
      <3>3. LinkProp(tx[q])'
        BY <3>1, <1>1 DEF LinkProp
      <3> QED BY <3>2, <3>3
    <2>4. \A q \in Requests : tx'[q] # None => \A s \in tx'[q].snaps : s.id \in Of(tx'[q].view)
      BY <1>1, <1>2, <1>7, <1>8 DEF IInv, Linked
    <2> QED BY <2>1, <2>2, <2>3, <2>4, <1>1 DEF IInv, Linked
  <1>13. Apart'
    BY <1>8, <1>9 DEF IInv, Apart
  <1>14. Current'
    <2>1. ASSUME NEW q \in Requests, tx'[q] # None PROVE SoloOK(q)' /\ (made'.calm => tx'[q].alone)
      <3>1. tx[q] # None /\ SoloOK(q) /\ (made.calm => tx[q].alone)
        BY <2>1, <1>1, <1>8 DEF IInv, Current
      <3>2. tx'[q].alone = tx[q].alone /\ (q # r => tx'[q].base = tx[q].base)
        BY <1>7, <1>8
      <3>3. \A m \in Of(y.base) : y.base[m] = rows[m]
        BY <1>6, <1>7
      <3> QED BY <3>1, <3>2, <3>3, <1>1, <1>8 DEF SoloOK, Solo
    <2> QED BY <2>1 DEF Current
  <1>15. ReplacedIsHidden' /\ ConflictsNoted'
    BY <1>1 DEF IInv, ReplacedIsHidden, Noted, ConflictsNoted, Visible, Exists
  <1>16. Noted'
    BY <1>1, <1>8, <1>9, <1>15, OnlyOne DEF Noted, NotedOK
  <1>17. EntriesKept'
    <2>1. EntryOK(tx[r])'
      BY <1>7, <1>8, <1>9 DEF EntryOK, Copied
    <2>2. \A q \in Requests : q # r /\ tx'[q] # None => EntryOK(tx[q])'
      BY <1>1, <1>8, OnlyOne DEF EntryOK
    <2> QED BY <2>1, <2>2, <1>1 DEF IInv, EntriesKept
  <1>18. TextsCounted'
    <2>1. TextOK(tx[r])'
      BY <1>1, <1>7, <1>8 DEF IInv, TextsCounted, TextOK, Copied
    <2>2. \A q \in Requests : q # r /\ tx'[q] # None => TextOK(tx[q])'
      BY <1>1, <1>8, OnlyOne DEF TextOK
    <2>3. \A u \in Proposals : (Applied(u)' <=> Applied(u)) /\ (Written(u)' <=> Written(u))
      <3>1. \A u \in Proposals : Applied(u)' <=> Applied(u)
        BY <1>1 DEF Applied
      <3>2. \A q \in Requests : tx'[q] = tx[q] \/ (q = r /\ tx'[q].op # "append" /\ tx[q].op # "append")
        BY <1>2, <1>7, <1>8
      <3> QED BY <3>1, <3>2 DEF Written
    <2> QED BY <2>1, <2>2, <2>3, <1>1 DEF IInv, TextsCounted
  <1>19. Mirrored'
    <2>1. LineOK(tx[r])'
      BY <1>7, <1>8 DEF LineOK
    <2>2. SyncOK(tx[r])'
      <3>1. SUFFICES ASSUME x.alone
                     PROVE  /\ y.copy = file
                            /\ \A m \in Ids : m \in Of(y.base) <=> file.entries[m] # None /\ rows[m] # None
                            /\ \A m \in Of(y.base) : y.view[m] = Synced(y.base[m], file.entries[m])
        BY <1>1, <1>7, <1>8 DEF SyncOK
      <3>2. x.copy = file
        BY <3>1, <1>1, <1>2 DEF IInv, Mirrored, SyncOK
      <3> QED BY <3>2, <1>6, <1>7 DEF seen
    <2>3. \A q \in Requests : q # r /\ tx'[q] # None => LineOK(tx[q])' /\ SyncOK(tx[q])'
      BY <1>1, <1>8, OnlyOne DEF LineOK, SyncOK
    <2>4. \A m \in Ids : (\A q \in Requests : tx'[q] # None => m \notin Of(tx'[q].view))
                         => \A q \in Requests : tx[q] # None => m \notin Of(tx[q].view)
      BY <1>2, <1>8
    <2> QED BY <2>1, <2>2, <2>3, <2>4, <1>1 DEF IInv, Mirrored, Agree
  <1> QED BY <1>10, <1>11, <1>12, <1>13, <1>14, <1>15, <1>16, <1>17, <1>18, <1>19 DEF IInv

\* A request dies, in the middle of a write or not.
LEMMA CrashStep ==
  ASSUME IInv, NEW r \in Requests, Crash(r) \/ CrashWriting(r)
  PROVE  IInv'
  <1>1. /\ tx[r] # None /\ tx' = [tx EXCEPT ![r] = None]
        /\ UNCHANGED <<rows, hist, conflicts, prop, used>>
        /\ Trouble
    BY DEF Crash, CrashWriting, Writing, At
  <1>2. /\ made' \in History /\ made'.cut = made.cut /\ made.overwritten \subseteq made'.overwritten
        /\ ~made'.calm /\ made'.revived = made.revived /\ made'.overlap = made.overlap
        /\ file' \in File
        /\ made'.edit \/ (file' = file /\ made'.edit = made.edit)
        /\ \A p \in Proposals \ made'.overwritten : file'.texts[p] = file.texts[p]
    <2>1. CASE Crash(r)
      BY <2>1 DEF Crash, IInv, TypeOK
    <2>2. CASE CrashWriting(r)
      BY <2>2, DamageFacts DEF CrashWriting
    <2> QED BY <2>1, <2>2
  <1>3. /\ spent'.troubles = spent.troubles + 1 /\ spent.troubles \in Nat
        /\ spent' \in [ops: 0 .. OpBound, troubles: 0 .. TroubleBound]
    BY <1>1, MemoryAssumption DEF Trouble, IInv, TypeOK
  <1>4. tx \in [Requests -> MemorySession \cup {None}]
    BY DEF IInv, TypeOK
  <1>5. \A q \in Requests : tx'[q] # None => q # r /\ tx'[q] = tx[q]
    BY <1>1, <1>4
  <1>6. TypeOK'
    BY <1>1, <1>2, <1>3, <1>4 DEF IInv, TypeOK
  <1>7. Shapes' /\ Apart'
    BY <1>5 DEF IInv, Shapes, Apart
  <1>8. Linked'
    <2>1. ASSUME NEW q \in Requests, tx'[q] # None PROVE LinkRows(tx[q])' /\ LinkProp(tx[q])'
      <3>1. LinkRows(tx[q]) /\ LinkProp(tx[q]) /\ tx'[q] = tx[q]
        BY <2>1, <1>5 DEF IInv, Linked
      <3>2. LinkRows(tx[q])'
        BY <3>1, <1>1, <1>2 DEF LinkRows, Gone
      <3>3. LinkProp(tx[q])'
        BY <3>1, <1>1 DEF LinkProp
      <3> QED BY <3>2, <3>3
    <2> QED BY <2>1, <1>1, <1>5 DEF IInv, Linked
  <1>9. Current'
    <2>1. ASSUME NEW q \in Requests, tx'[q] # None PROVE SoloOK(q)'
      <3>1. SoloOK(q) /\ tx'[q] = tx[q]
        BY <2>1, <1>5 DEF IInv, Current
      <3> QED BY <3>1, <1>1, <1>2, <1>5 DEF SoloOK, Solo
    <2> QED BY <2>1, <1>2 DEF Current
  <1>10. ReplacedIsHidden' /\ ConflictsNoted'
    BY <1>1, <1>2 DEF IInv, ReplacedIsHidden, Noted, ConflictsNoted, Visible, Exists
  <1>11. ~made.overlap => \A q \in Requests : tx'[q] = None
    BY <1>1, <1>5, OnlyOne
  <1>12. Noted'
    BY <1>2, <1>10, <1>11 DEF Noted, NotedOK
  <1>13. EntriesKept'
    BY <1>1, <1>2, <1>11 DEF IInv, EntriesKept, EntryOK
  <1>14. TextsCounted'
    <2>1. \A q \in Requests : tx'[q] # None => TextOK(tx[q])'
      BY <1>2, <1>11 DEF TextOK
    <2>2. \A p \in Proposals : (Applied(p)' <=> Applied(p)) /\ (Written(p)' => Written(p))
      BY <1>1, <1>5 DEF Applied, Written
    <2>3. \A p \in Proposals : file.texts[p] \in Nat
      BY DEF IInv, TypeOK, File
    <2> QED BY <2>1, <2>2, <2>3, <1>2, <1>3 DEF IInv, TextsCounted
  <1>15. Mirrored'
    BY <1>1, <1>2, <1>5, OnlyOne DEF Mirrored, LineOK, SyncOK
  <1> QED BY <1>6, <1>7, <1>8, <1>9, <1>10, <1>12, <1>13, <1>14, <1>15 DEF IInv

----------------------------------------------------------------------------
(* The commit.                                                             *)

\* What the columns of a merged row are.
LEMMA MergedFacts ==
  ASSUME NEW new \in Row, NEW old \in Row, NEW now \in Row
  PROVE  /\ Merged(new, old, now) \in Row
         /\ new = old => Merged(new, old, now) = now
         /\ old = now => Merged(new, old, now) = new
         /\ new.status = old.status /\ new.archived = old.archived
              => (IsInactive(Merged(new, old, now)) <=> IsInactive(now))
         /\ HiddenRow(new) /\ (new.status # old.status \/ new.archived # old.archived)
              => IsInactive(Merged(new, old, now))
         /\ Merged(new, old, now).by = IF new.by = old.by THEN now.by ELSE new.by
  <1>1. Merged(new, old, now) \in Row
    BY DEF Merged, Sent, Row
  <1>2. new = old => Merged(new, old, now) = now
    BY DEF Merged, Sent, Row
  <1>3. old = now => Merged(new, old, now) = new
    BY DEF Merged, Sent, Row
  <1>4. /\ new.status = old.status /\ new.archived = old.archived
              => (IsInactive(Merged(new, old, now)) <=> IsInactive(now))
        /\ HiddenRow(new) /\ (new.status # old.status \/ new.archived # old.archived)
              => IsInactive(Merged(new, old, now))
    BY DEF Merged, Sent, HiddenRow, IsInactive
  <1>5. Merged(new, old, now).by = IF new.by = old.by THEN now.by ELSE new.by
    BY DEF Merged, Sent
  <1> QED BY <1>1, <1>2, <1>3, <1>4, <1>5

\* The rows that the commit writes.
LEMMA CommitRows ==
  ASSUME IInv, NEW r \in Requests, Commit(r)
  PROVE  /\ rows' \in Table
         /\ \A m \in Ids \ Of(tx[r].view) : rows'[m] = rows[m]
         /\ \A m \in New(tx[r]) : m \in Ids /\ rows'[m] = tx[r].view[m]
         /\ \A m \in Of(tx[r].base) : /\ m \in Ids /\ rows[m] \in Row /\ tx[r].base[m] \in Row /\ tx[r].view[m] \in Row
                                      /\ rows'[m] = Merged(tx[r].view[m], tx[r].base[m], rows[m])
         /\ \A m \in Ids : rows'[m] # None <=> rows[m] # None \/ m \in New(tx[r])
         /\ \A m \in Of(tx[r].view) : rows'[m] # None
         /\ Solo(tx[r]) => \A m \in Of(tx[r].view) : rows'[m] = tx[r].view[m]
  <1> DEFINE x == tx[r]
  <1>1. /\ x # None /\ x \in MemorySession /\ Shape(x) /\ LinkRows(x) /\ SoloOK(r)
        /\ rows \in Table /\ rows' = [m \in Ids |-> Committed(r, m)]
    BY DEF Commit, CommitReady, At, IInv, TypeOK, Shapes, Linked, Current
  <1>2. x.base \in Table /\ x.view \in Table /\ Of(x.base) \subseteq Of(x.view)
    BY <1>1 DEF MemorySession, Shape, ShapeOld
  <1>3. \A m \in Of(x.view) : m \in Ids /\ x.view[m] \in Row /\ x.view[m] # None
    BY <1>2, RowTypes DEF Of, Table
  <1>4. \A m \in Of(x.base) : m \in Ids /\ x.base[m] \in Row /\ x.view[m] \in Row /\ rows[m] \in Row
    BY <1>1, <1>2, <1>3 DEF Of, Table, LinkRows
  <1>5. \A m \in Ids \ Of(x.view) : rows'[m] = rows[m]
    BY <1>1 DEF Committed
  <1>6. \A m \in New(x) : m \in Ids /\ rows'[m] = x.view[m] /\ m \in Of(x.view)
    BY <1>1, <1>3 DEF Committed, New
  <1>7. \A m \in Of(x.base) : /\ rows'[m] = Merged(x.view[m], x.base[m], rows[m])
                              /\ Merged(x.view[m], x.base[m], rows[m]) \in Row
    BY <1>1, <1>2, <1>4, MergedFacts DEF Committed
  <1>8. \A m \in Of(x.view) : m \in New(x) \/ m \in Of(x.base)
    BY DEF New
  <1>9. \A m \in Of(x.view) : rows'[m] \in Row
    BY <1>3, <1>6, <1>7, <1>8
  <1>10. rows' \in Table
    <2>1. \A m \in Ids : rows'[m] \in Row \cup {None}
      BY <1>1, <1>5, <1>9 DEF Table
    <2> QED BY <2>1, <1>1 DEF Table
  <1>11. \A m \in Of(x.view) : rows'[m] # None
    BY <1>9, RowTypes
  <1>12. \A m \in Ids : rows'[m] # None <=> rows[m] # None \/ m \in New(x)
    BY <1>4, <1>5, <1>6, <1>8, <1>11, RowTypes
  <1>13. ASSUME Solo(x), NEW m \in Of(x.view) PROVE rows'[m] = x.view[m]
    <2>1. CASE m \in New(x)
      BY <2>1, <1>6
    <2>2. CASE m \in Of(x.base)
      <3>1. x.base[m] = rows[m]
        BY <1>13, <2>2, <1>1 DEF SoloOK
      <3> QED BY <3>1, <2>2, <1>4, <1>7, MergedFacts
    <2> QED BY <2>1, <2>2, <1>8
  <1> QED BY <1>4, <1>5, <1>6, <1>7, <1>10, <1>11, <1>12, <1>13

\* Which ids the commit brings back or hides.
LEMMA CommitRevived ==
  ASSUME IInv, NEW r \in Requests, Commit(r)
  PROVE  LET x == tx[r]
         IN /\ made' \in History /\ made'.cut = made.cut /\ made'.overwritten = made.overwritten
            /\ made'.overlap = made.overlap /\ made'.edit = made.edit
            /\ \A m \in Ids \ Of(x.view) : m \in made'.revived <=> m \in made.revived
            /\ x.op \in {"sync", "restore"} =>
                 /\ made.revived \subseteq made'.revived
                 /\ \A m \in Of(x.base) : x.view[m] # x.base[m] => m \in made'.revived
            /\ x.op \notin {"sync", "restore"} =>
                 \A m \in Of(x.base) : x.view[m].status = x.base[m].status /\ x.view[m].archived = x.base[m].archived
                                      => (m \in made'.revived <=> m \in made.revived)
            /\ made'.calm => x.alone /\ (x.op = "sync" \/ made.calm)
            /\ made'.calm /\ x.op = "create" => Of(x.base) = {}
            /\ made'.calm /\ x.op = "restore" => \A m \in Of(x.view) : FlagsAgree(x.view[m])
  <1> DEFINE x == tx[r]
             calm == CASE x.op = "sync" -> x.alone
                       [] x.op = "create" /\ Of(x.base) # {} -> FALSE
                       [] x.op = "restore" -> made.calm /\ \A m \in Of(x.view) : FlagsAgree(x.view[m])
                       [] OTHER -> made.calm
             hides == {m \in Changes(r) : x.view[m].status # x.base[m].status \/ x.view[m].archived # x.base[m].archived}
  <1>1. /\ x # None /\ x \in MemorySession /\ Shape(x) /\ (made.calm => x.alone)
        /\ made' = [made EXCEPT !.revived = Revived(r), !.calm = calm]
        /\ made \in History
    BY DEF Commit, CommitReady, At, IInv, TypeOK, Shapes, Current
  <1>2. x.alone \in BOOLEAN /\ Of(x.base) \subseteq Of(x.view) /\ Of(x.view) \subseteq Ids
    BY <1>1 DEF MemorySession, Shape, ShapeOld, Of
  <1>3. Revived(r) = IF x.op \in {"sync", "restore"} THEN made.revived \cup Changes(r) ELSE made.revived \ hides
    BY DEF Revived
  <1>4. calm \in BOOLEAN
    <2>1. (made.calm /\ \A m \in Of(x.view) : FlagsAgree(x.view[m])) \in BOOLEAN
      OBVIOUS
    <2> QED BY <2>1, <1>1, <1>2
  <1>5. /\ calm => x.alone /\ (x.op = "sync" \/ made.calm)
        /\ calm /\ x.op = "create" => Of(x.base) = {}
        /\ calm /\ x.op = "restore" => \A m \in Of(x.view) : FlagsAgree(x.view[m])
    BY <1>1
  <1>6. Changes(r) \subseteq Of(x.base) /\ hides \subseteq Of(x.base)
    BY DEF Changes
  <1>7. Revived(r) \in SUBSET Ids
    BY <1>1, <1>2, <1>3, <1>6
  <1>8. \A m \in Of(x.base) : x.view[m] # x.base[m] => m \in Changes(r)
    BY DEF Changes
  <1>8a. \A m \in Of(x.base) : x.view[m].status = x.base[m].status /\ x.view[m].archived = x.base[m].archived
                               => m \notin hides
    OBVIOUS
  <1> HIDE DEF calm, hides
  <1>9. /\ made' \in History /\ made'.cut = made.cut /\ made'.overwritten = made.overwritten
        /\ made'.overlap = made.overlap /\ made'.edit = made.edit
        /\ made'.revived = Revived(r) /\ made'.calm = calm
    BY <1>1, <1>4, <1>7
  <1>10. \A m \in Ids \ Of(x.view) : m \in made'.revived <=> m \in made.revived
    BY <1>2, <1>3, <1>6, <1>9
  <1>11. x.op \in {"sync", "restore"} =>
                 /\ made.revived \subseteq made'.revived
                 /\ \A m \in Of(x.base) : x.view[m] # x.base[m] => m \in made'.revived
    BY <1>3, <1>8, <1>9
  <1>12. x.op \notin {"sync", "restore"} =>
                 \A m \in Of(x.base) : x.view[m].status = x.base[m].status /\ x.view[m].archived = x.base[m].archived
                                      => (m \in made'.revived <=> m \in made.revived)
    BY <1>3, <1>8a, <1>9
  <1> QED BY <1>5, <1>9, <1>10, <1>11, <1>12

\* What is out of sight stays so, and what the session hides gets out of sight.
LEMMA CommitGone ==
  ASSUME IInv, NEW r \in Requests, Commit(r), NEW m \in Ids, m \notin New(tx[r])
  PROVE  /\ Gone(m) => Gone(m)'
         /\ m \in Of(tx[r].base) /\ tx[r].op \in {"create", "supersede", "archive"} => Gone(m)'
  <1> DEFINE x == tx[r]
  <1>1. x # None /\ Shape(x) /\ LinkRows(x)
    BY DEF Commit, CommitReady, At, IInv, Shapes, Linked
  <1>2. CASE m \notin Of(x.view)
    <2>1. rows'[m] = rows[m] /\ (m \in made'.revived <=> m \in made.revived) /\ m \notin Of(x.base)
      BY <1>1, <1>2, CommitRows, CommitRevived DEF Shape, ShapeOld
    <2> QED BY <2>1 DEF Gone
  <1>3. CASE m \in Of(x.base)
    <2>1. /\ rows[m] \in Row /\ x.base[m] \in Row /\ x.view[m] \in Row
          /\ rows'[m] = Merged(x.view[m], x.base[m], rows[m])
      BY <1>3, CommitRows
    <2>2. IsInactive(x.base[m]) => Gone(m)
      BY <1>1, <1>3 DEF LinkRows
    <2>3. CASE x.op \in {"sync", "restore"}
      <3>1. made.revived \subseteq made'.revived /\ (x.view[m] # x.base[m] => m \in made'.revived)
        BY <1>3, <2>3, CommitRevived
      <3>2. CASE x.view[m] # x.base[m]
        BY <3>1, <3>2, <2>3 DEF Gone
      <3>3. CASE x.view[m] = x.base[m]
        <4>1. rows'[m] = rows[m]
          BY <3>3, <2>1, MergedFacts
        <4> QED BY <4>1, <3>1, <2>3 DEF Gone
      <3> QED BY <3>2, <3>3
    <2>4. CASE x.op \notin {"sync", "restore"} /\ x.view[m].status = x.base[m].status /\ x.view[m].archived = x.base[m].archived
      <3>1. m \in made'.revived <=> m \in made.revived
        BY <1>3, <2>4, CommitRevived
      <3>2. IsInactive(rows'[m]) <=> IsInactive(rows[m])
        BY <2>1, <2>4, MergedFacts
      <3>3. Gone(m) => Gone(m)'
        BY <3>1, <3>2 DEF Gone
      <3>4. x.op \in {"create", "supersede", "archive"} => IsInactive(x.base[m])
        BY <1>1, <1>3, <2>4 DEF Shape, ShapeOld, HiddenRow, IsInactive
      <3> QED BY <3>3, <3>4, <2>2
    <2>5. CASE x.op \notin {"sync", "restore"} /\ (x.view[m].status # x.base[m].status \/ x.view[m].archived # x.base[m].archived)
      <3>1. x.op \in {"create", "supersede", "archive", "verify"}
        BY <1>1, <1>3, <2>5 DEF IInv, TypeOK, MemorySession, Operations, Shape, ShapeOld, ShapeFile
      <3>2. HiddenRow(x.view[m])
        BY <3>1, <1>1, <1>3, <2>5 DEF Shape, ShapeOld
      <3> QED BY <3>2, <2>1, <2>5, MergedFacts DEF Gone
    <2> QED BY <2>3, <2>4, <2>5
  <1> QED BY <1>2, <1>3 DEF New

\* What is in sight after a commit was so before, unless it is new.
LEMMA CommitVisible ==
  ASSUME IInv, NEW r \in Requests, Commit(r), ~made.overlap,
         NEW m \in Ids, m \notin New(tx[r]), m \notin made'.revived, Visible(m)'
  PROVE  /\ Visible(m) /\ m \notin made.revived /\ rows'[m].content = rows[m].content
         /\ Creates(tx[r]) => m \notin Of(tx[r].base)
  <1> DEFINE x == tx[r]
  <1>1. x # None /\ Shape(x) /\ SoloOK(r) /\ x.op \in Operations
    BY DEF Commit, CommitReady, At, IInv, TypeOK, MemorySession, Shapes, Current
  <1>2. ~IsInactive(rows'[m]) /\ rows'[m] # None
    BY DEF Visible, Exists
  <1>3. CASE m \notin Of(x.view)
    <2>1. rows'[m] = rows[m] /\ (m \in made'.revived <=> m \in made.revived) /\ m \notin Of(x.base)
      BY <1>1, <1>3, CommitRows, CommitRevived DEF Shape, ShapeOld
    <2> QED BY <2>1, <1>2 DEF Visible, Exists
  <1>4. CASE m \in Of(x.base)
    <2>1. rows'[m] = x.view[m] /\ x.base[m] = rows[m] /\ rows[m] # None
      BY <1>1, <1>4, CommitRows, RowTypes DEF SoloOK, Solo, Shape, ShapeOld
    <2>2. x.op \notin {"create", "supersede", "archive"}
      BY <1>1, <1>2, <1>4, <2>1 DEF Shape, ShapeOld, HiddenRow, IsInactive
    <2>3. CASE x.op = "verify"
      <3>1. x.view[m].content = rows[m].content /\ x.view[m].status = rows[m].status /\ x.view[m].archived = rows[m].archived
        BY <1>1, <1>4, <2>1, <2>3 DEF Shape, ShapeOld
      <3>2. m \notin made.revived
        BY <3>1, <1>4, <2>1, <2>3, CommitRevived
      <3> QED BY <3>1, <3>2, <2>1, <2>3, <1>2 DEF Visible, Exists, IsInactive, Creates
    <2>4. CASE x.op \in {"sync", "restore"}
      <3>1. x.view[m] = x.base[m] /\ m \notin made.revived
        BY <1>4, <2>4, CommitRevived
      <3> QED BY <3>1, <2>1, <2>4, <1>2 DEF Visible, Exists, Creates
    <2>5. CASE x.op \in {"append", "reject"}
      BY <1>1, <1>4, <2>5 DEF Shape, ShapeFile, ShapeOld
    <2> QED BY <1>1, <2>2, <2>3, <2>4, <2>5 DEF Operations
  <1> QED BY <1>3, <1>4 DEF New

\* The commit keeps the list of conflicts complete.
LEMMA CommitNoted ==
  ASSUME IInv, NEW r \in Requests, Commit(r)
  PROVE  ConflictsNoted'
  <1> DEFINE x == tx[r]
  <1>1. /\ x # None /\ Shape(x) /\ x.pc = "file" /\ NotedOK(x)
        /\ conflicts' = conflicts \cup x.noted
    BY DEF Commit, CommitReady, At, IInv, Shapes, Noted
  <1>1a. made'.cut = made.cut
    BY CommitRevived
  <1>2. SUFFICES ASSUME ~made.overlap, NEW m \in Ids \ made'.revived, NEW q \in Ids \ made'.revived,
                        Visible(m)', Visible(q)', rows'[m].content # rows'[q].content
                 PROVE  {m, q} \in conflicts' \cup made'.cut
    BY CommitRevived DEF ConflictsNoted
  <1>3. ASSUME NEW a \in New(x), NEW b \in Ids \ made'.revived, b \notin New(x), Visible(b)',
               rows'[a].content # rows'[b].content
        PROVE  {a, b} \in x.noted \cup made.cut
    <2>1. Creates(x)
      BY <1>1, <1>3 DEF Shape, ShapeNew
    <2>2. Visible(b) /\ rows'[b].content = rows[b].content /\ b \notin Of(x.base)
      BY <2>1, <1>2, <1>3, CommitVisible
    <2>3. rows'[a] = x.view[a]
      BY <1>3, CommitRows
    <2> QED BY <2>1, <2>2, <2>3, <1>1, <1>2, <1>3 DEF NotedOK
  <1>4. CASE m \notin New(x) /\ q \notin New(x)
    <2>1. /\ Visible(m) /\ m \notin made.revived /\ rows'[m].content = rows[m].content
          /\ Visible(q) /\ q \notin made.revived /\ rows'[q].content = rows[q].content
      BY <1>2, <1>4, CommitVisible
    <2> QED BY <2>1, <1>1, <1>1a, <1>2 DEF IInv, Noted, ConflictsNoted
  <1>5. CASE m \in New(x) /\ q \notin New(x)
    BY <1>1, <1>1a, <1>2, <1>3, <1>5
  <1>6. CASE q \in New(x) /\ m \notin New(x)
    <2>1. {q, m} \in x.noted \cup made.cut
      BY <1>2, <1>3, <1>6
    <2>2. {q, m} = {m, q}
      OBVIOUS
    <2> QED BY <2>1, <2>2, <1>1, <1>1a
  <1>7. CASE m \in New(x) /\ q \in New(x)
    <2>1. m = q
      BY <1>1, <1>7 DEF Shape, ShapeNew
    <2> QED BY <2>1, <1>2
  <1> QED BY <1>4, <1>5, <1>6, <1>7

\* The commit keeps the mirror.
LEMMA CommitMirrored ==
  ASSUME IInv, NEW r \in Requests, Commit(r), made'.calm, NEW m \in Ids,
         rows'[m] # None, file.entries[m] # None
  PROVE  Agree(file.entries[m], rows'[m])
  <1> DEFINE x == tx[r]
  <1>1. /\ x # None /\ Shape(x) /\ x.pc = "file" /\ x.todo = <<>> /\ LineOK(x) /\ SyncOK(x)
        /\ file \in File /\ x \in MemorySession
    BY DEF Commit, CommitReady, At, IInv, TypeOK, Shapes, Mirrored
  <1>2. x.alone /\ (x.op = "sync" \/ made.calm) /\ Solo(x)
    BY CommitRevived DEF Solo
  <1>3. CASE x.op = "sync"
    <2>1. rows[m] # None /\ New(x) = {}
      BY <1>1, <1>3, CommitRows DEF Shape, ShapeNew, Creates
    <2>2. m \in Of(x.base) /\ x.view[m] = Synced(x.base[m], file.entries[m])
      BY <2>1, <1>1, <1>2, <1>3 DEF SyncOK
    <2>3. rows'[m] = x.view[m] /\ x.base[m] \in Row
      BY <2>2, <1>1, <1>2, CommitRows DEF Shape, ShapeOld
    <2>4. file.entries[m] \in Line
      BY <1>1 DEF File
    <2> QED BY <2>2, <2>3, <2>4, SyncedFacts
  <1>4. CASE x.op # "sync" /\ m \notin Of(x.view)
    <2>1. rows'[m] = rows[m]
      BY <1>4, CommitRows
    <2>2. \A q \in Requests : tx[q] # None => m \notin Of(tx[q].view)
      BY <1>1, <1>2, <1>4, OnlyOne
    <2> QED BY <2>1, <2>2, <1>2, <1>4 DEF IInv, Mirrored
  <1>5. CASE x.op # "sync" /\ m \in Of(x.view)
    <2>1. rows'[m] = x.view[m]
      BY <1>2, <1>5, CommitRows
    <2>2. ~Leaves(x, m) /\ made.calm
      BY <1>2, <1>5, CommitRevived DEF Leaves
    <2>3. ~Pending(x.todo, m)
      BY <1>1 DEF Pending
    <2>4. file.entries[m] = MemoryFileLine(x.view[m]) /\ (x.op # "restore" => FlagsAgree(x.view[m]))
      BY <2>2, <2>3, <1>1, <1>5 DEF LineOK
    <2>5. FlagsAgree(x.view[m])
      BY <2>4, <1>5, CommitRevived
    <2> QED BY <2>1, <2>4, <2>5 DEF Agree
  <1> QED BY <1>3, <1>4, <1>5

\* The commit.
LEMMA CommitStep ==
  ASSUME IInv, NEW r \in Requests, Commit(r)
  PROVE  IInv'
  <1> DEFINE x == tx[r]
  <1>1. /\ x # None /\ x \in MemorySession /\ Shape(x) /\ LinkRows(x) /\ LinkProp(x) /\ x.todo = <<>> /\ x.pc = "file"
        /\ tx \in [Requests -> MemorySession \cup {None}] /\ prop \in [Proposals -> Proposal \cup {None}]
    BY DEF Commit, CommitReady, At, IInv, TypeOK, Shapes, Linked
  <1>2. /\ hist' = hist \cup x.snaps /\ conflicts' = conflicts \cup x.noted /\ prop' = Decided(r)
        /\ tx' = [tx EXCEPT ![r] = None] /\ file' = file /\ used' = used /\ spent' = spent
    BY DEF Commit
  <1>3. \A q \in Requests : tx'[q] # None => q # r /\ tx'[q] = tx[q]
    BY <1>1, <1>2
  <1>4. /\ prop' \in [Proposals -> Proposal \cup {None}]
        /\ \A u \in Proposals : prop[u] # None =>
             /\ prop'[u] # None /\ prop'[u].action = prop[u].action /\ prop'[u].target = prop[u].target
             /\ prop'[u].status = IF u # x.prop THEN prop[u].status ELSE IF x.op = "reject" THEN "rejected" ELSE "applied"
        /\ \A u \in Proposals : prop[u] = None => prop'[u] = None
    <2>1. CASE x.prop = None
      <3>1. prop' = prop
        BY <1>2, <2>1 DEF Decided
      <3> QED BY <3>1, <2>1, <1>1, RowTypes
    <2>2. CASE x.prop # None
      <3> DEFINE status == IF x.op = "reject" THEN "rejected" ELSE "applied"
      <3>1. x.prop \in Proposals /\ prop[x.prop] # None /\ prop[x.prop] \in Proposal
        BY <1>1, <2>2 DEF MemorySession, LinkProp
      <3>2. prop' = [prop EXCEPT ![x.prop] = [prop[x.prop] EXCEPT !.status = status]]
        BY <1>2, <2>2 DEF Decided
      <3>3. status \in {"pending", "applied", "rejected"}
        OBVIOUS
      <3> HIDE DEF status
      <3>4. LET new == [prop[x.prop] EXCEPT !.status = status]
            IN new \in Proposal /\ new.status = status /\ new.action = prop[x.prop].action /\ new.target = prop[x.prop].target
        BY <3>1, <3>3 DEF Proposal
      <3>5. \A new \in Proposal : new # None
        BY NoneAssumption
      <3> QED BY <3>1, <3>2, <3>4, <3>5, <1>1 DEF status
    <2> QED BY <2>1, <2>2
  <1>5. TypeOK'
    <2>1. hist' \subseteq Snapshot /\ conflicts' \subseteq Pair
      BY <1>1, <1>2 DEF IInv, TypeOK, MemorySession
    <2>2. tx' \in [Requests -> MemorySession \cup {None}]
      BY <1>1, <1>2
    <2> QED BY <2>1, <2>2, <1>2, <1>4, CommitRows, CommitRevived DEF IInv, TypeOK
  <1>6. Shapes' /\ Apart'
    BY <1>3 DEF IInv, Shapes, Apart
  <1>7. Linked'
    <2>1. \A m \in Ids : rows'[m] # None => m \in used'
      BY <1>1, <1>2, CommitRows DEF IInv, Linked, LinkRows
    <2>2. \A h \in hist' : rows'[h.id] # None
      <3>1. \A h \in hist : h.id \in Ids /\ rows[h.id] # None
        BY DEF IInv, TypeOK, Snapshot, Linked
      <3>2. \A h \in x.snaps : h.id \in Of(x.view)
        BY <1>1 DEF IInv, Linked
      <3> QED BY <3>1, <3>2, <1>2, CommitRows
    <2>3. \A u \in Proposals : prop'[u] # None /\ prop'[u].target = None => prop'[u].action \in {"create"} \cup FileActions
      BY <1>4 DEF IInv, Linked
    <2>4. ASSUME NEW q \in Requests, tx'[q] # None
          PROVE  LinkRows(tx[q])' /\ LinkProp(tx[q])'
      <3>1. q # r /\ tx[q] # None /\ tx'[q] = tx[q] /\ LinkRows(tx[q]) /\ LinkProp(tx[q])
        BY <2>4, <1>3 DEF IInv, Linked
      <3>2. ASSUME NEW m \in Of(tx[q].base)
            PROVE  rows'[m] # None /\ (IsInactive(tx[q].base[m]) => Gone(m)')
        <4>1. m \in Ids /\ rows[m] # None /\ (IsInactive(tx[q].base[m]) => Gone(m))
          BY <3>1, <3>2 DEF LinkRows, Of
        <4>2. m \notin New(x)
          BY <4>1, <1>1 DEF LinkRows
        <4> QED BY <4>1, <4>2, CommitRows, CommitGone
      <3>3. ASSUME NEW m \in New(tx[q]) PROVE rows'[m] = None /\ m \in used'
        <4>1. m \in Ids /\ rows[m] = None /\ m \in used
          BY <3>1, <3>3 DEF LinkRows, New, Of
        <4>2. m \notin New(x)
          BY <3>1, <3>3, <1>1 DEF IInv, Apart
        <4> QED BY <4>1, <4>2, <1>2, CommitRows
      <3>4. LinkRows(tx[q])'
        BY <3>1, <3>2, <3>3 DEF LinkRows
      <3>5. LinkProp(tx[q])'
        <4>1. tx[q].prop # None => tx[q].prop \in Proposals
          BY <3>1, <1>1 DEF MemorySession
        <4> QED BY <4>1, <3>1, <1>4 DEF LinkProp
      <3> QED BY <3>4, <3>5
    <2>5. \A q \in Requests : tx'[q] # None => \A h \in tx'[q].snaps : h.id \in Of(tx'[q].view)
      BY <1>3 DEF IInv, Linked
    <2> QED BY <2>1, <2>2, <2>3, <2>4, <2>5 DEF Linked
  <1>8. /\ made'.overlap = made.overlap /\ made'.edit = made.edit /\ (made'.calm => x.alone)
        /\ made'.overwritten = made.overwritten
    BY CommitRevived
  <1>9. /\ \A q \in Requests : tx'[q] # None => ~Solo(tx'[q]) /\ ~tx'[q].alone
        /\ ~made.overlap \/ made'.calm => \A q \in Requests : tx'[q] = None
    <2>1. \A q \in Requests : tx'[q] # None => ~Solo(tx'[q])
      BY <1>1, <1>3, OnlyOne DEF Solo
    <2>2. made'.calm => \A q \in Requests : tx'[q] = None
      <3>1. x.alone => \A q \in Requests : tx[q] # None => q = r
        BY <1>1 DEF IInv, Current, SoloOK, Solo
      <3> QED BY <3>1, <1>3, <1>8
    <2> QED BY <2>1, <2>2 DEF Solo
  <1>10. Current'
    BY <1>8, <1>9 DEF Current, SoloOK, Solo
  <1>11. ReplacedIsHidden'
    <2>1. SUFFICES ASSUME NEW m \in Ids, rows'[m] # None, rows'[m].by # None PROVE Gone(m)'
      BY DEF ReplacedIsHidden, Gone, Visible, Exists
    <2>2. m \notin New(x)
      <3>1. \A n \in New(x) : x.view[n].by = None
        BY <1>1 DEF Shape, ShapeNew
      <3> QED BY <2>1, <3>1, CommitRows
    <2>3. rows[m] # None /\ (rows[m].by # None => Gone(m))
      BY <2>1, <2>2, CommitRows DEF IInv, ReplacedIsHidden, Gone, Visible, Exists
    <2>4. CASE rows[m].by # None
      BY <2>2, <2>3, <2>4, CommitGone
    <2>5. CASE rows[m].by = None
      <3>1. m \in Of(x.base)
        BY <2>1, <2>2, <2>5, CommitRows DEF New
      <3>2. x.view[m].by # x.base[m].by
        BY <2>1, <2>5, <3>1, CommitRows, MergedFacts
      <3>3. x.op = "supersede"
        BY <3>1, <3>2, <1>1 DEF Shape, ShapeOld
      <3> QED BY <2>2, <3>1, <3>3, CommitGone
    <2> QED BY <2>4, <2>5
  <1>12. Noted'
    BY <1>8, <1>9, CommitNoted DEF Noted, NotedOK
  <1>13. EntriesKept'
    <2>1. ASSUME ~made.overlap, ~made.edit, NEW m \in Ids, rows'[m] # None PROVE file.entries[m] # None
      <3>1. rows[m] # None \/ m \in New(x)
        BY <2>1, CommitRows
      <3>2. EntryOK(x)
        BY <1>1 DEF IInv, EntriesKept
      <3> QED BY <2>1, <3>1, <3>2, <1>1 DEF IInv, EntriesKept, EntryOK
    <2> QED BY <2>1, <1>2, <1>8, <1>9 DEF EntriesKept, EntryOK
  <1>14. TextsCounted'
    <2>1. ASSUME ~made.overlap, NEW p \in Proposals
          PROVE  ~Written(p)' /\ (Applied(p)' <=> Applied(p) \/ Written(p))
      <3>1. ~Written(p)'
        BY <2>1, <1>9 DEF Written
      <3>2. Written(p) <=> x.op = "append" /\ x.prop = p
        BY <2>1, <1>1, OnlyOne DEF Written
      <3>3. TextOK(x)
        BY <1>1 DEF IInv, TextsCounted
      <3>4. CASE x.prop # p
        BY <3>1, <3>2, <3>4, <1>4 DEF Applied
      <3>5. CASE x.prop = p
        <4>1. /\ p # None /\ prop[p] # None /\ prop[p].status = "pending"
              /\ (x.op = "append" => prop[p].action \in FileActions)
              /\ (x.op \notin {"append", "reject"} => prop[p].action \notin FileActions)
          BY <2>1, <3>3, <3>5, <1>1, RowTypes DEF TextOK, LinkProp
        <4> QED BY <4>1, <3>1, <3>2, <3>5, <1>4 DEF Applied
      <3> QED BY <3>4, <3>5
    <2>2. \A q \in Requests : tx'[q] # None => TextOK(tx[q])'
      BY <1>8, <1>9 DEF TextOK
    <2> QED BY <2>1, <2>2, <1>2, <1>8 DEF IInv, TextsCounted
  <1>15. Mirrored'
    <2>1. \A q \in Requests : tx'[q] # None => LineOK(tx[q])' /\ SyncOK(tx[q])'
      BY <1>9 DEF LineOK, SyncOK
    <2>2. made'.calm => \A m \in Ids : rows'[m] # None /\ file'.entries[m] # None => Agree(file'.entries[m], rows'[m])
      BY <1>2, CommitMirrored
    <2> QED BY <2>1, <2>2 DEF Mirrored, Agree
  <1> QED BY <1>5, <1>6, <1>7, <1>10, <1>11, <1>12, <1>13, <1>14, <1>15 DEF IInv

----------------------------------------------------------------------------
(* The invariant, and what it implies.                                     *)

\* Every step keeps the invariant.
LEMMA NextIInv == IInv /\ [Next]_vars => IInv'
  <1> SUFFICES ASSUME IInv, [Next]_vars PROVE IInv'
    OBVIOUS
  <1>1. ASSUME NEW r \in Requests, Requested(r) PROVE IInv'
    BY <1>1, RequestedStep
  <1>2. ASSUME NEW r \in Requests, SessionStep(r) PROVE IInv'
    BY <1>2, FlushStep, SyncLoadStep, FileReadStep, FileWriteStep, FileReplaceStep, FileFaultStep, CommitStep, CrashStep
    DEF SessionStep
  <1>3. ASSUME NEW p \in Proposals, NEW a \in Actions, NEW t \in Ids \cup {None}, Propose(p, a, t) PROVE IInv'
    BY <1>3, ProposeStep
  <1>4. ASSUME NEW m \in Ids, NEW line \in EditedLines, NEW keep \in BOOLEAN, Edit(m, line, keep) PROVE IInv'
    BY <1>4, EditStep
  <1>5. CASE UNCHANGED vars
    <2>1. /\ rows' = rows /\ hist' = hist /\ conflicts' = conflicts /\ prop' = prop /\ file' = file
          /\ tx' = tx /\ used' = used /\ made' = made /\ spent' = spent
      BY <1>5 DEF vars
    <2>2. TypeOK' /\ Shapes' /\ Apart'
      BY <2>1 DEF IInv, TypeOK, Shapes, Apart
    <2>3. Linked' /\ Current'
      BY <2>1 DEF IInv, Linked, LinkRows, LinkProp, Gone, Current, SoloOK, Solo
    <2>4. ReplacedIsHidden' /\ Noted'
      BY <2>1 DEF IInv, ReplacedIsHidden, Noted, ConflictsNoted, NotedOK, Visible, Exists
    <2>5. EntriesKept' /\ TextsCounted'
      BY <2>1 DEF IInv, EntriesKept, EntryOK, TextsCounted, TextOK, Applied, Written
    <2>6. Mirrored'
      BY <2>1 DEF IInv, Mirrored, LineOK, SyncOK
    <2> QED BY <2>2, <2>3, <2>4, <2>5, <2>6 DEF IInv
  <1> QED BY <1>1, <1>2, <1>3, <1>4, <1>5 DEF Next

\* The invariant holds throughout.
LEMMA AlwaysIInv == Spec => []IInv
  BY InitIInv, NextIInv, PTL DEF Spec

\* The tables, MEMORY.md and the sessions always have their types.
THEOREM MemoryTypeCorrect == Spec => []TypeOK
  <1>1. IInv => TypeOK
    BY DEF IInv
  <1> QED BY <1>1, AlwaysIInv, PTL

\* A memory whose replacement was committed is out of sight, unless a sync or a
\* restore brought it back, however the sessions that write its flags overlap.
THEOREM ReplacedIsHiddenHolds == Spec => []ReplacedIsHidden
  <1>1. IInv => ReplacedIsHidden
    BY DEF IInv
  <1> QED BY <1>1, AlwaysIInv, PTL

\* While creations do not overlap, any two visible memories that contradict
\* each other are listed as a conflict, unless the limit on the rows compared, whatever
\* it is, kept the later one from being compared with the earlier.
THEOREM ConflictsNotedHolds == Spec => []ConflictsNoted
  <1>1. IInv => ConflictsNoted
    BY DEF IInv, Noted
  <1> QED BY <1>1, AlwaysIInv, PTL

\* While requests do not overlap, every memory has its entry and every applied
\* text is there, once and at most once more for every request that died, except
\* what an edit, a replacing text or a broken write took away.
THEOREM FileCompleteHolds == Spec => []FileComplete
  <1>1. IInv => FileComplete
    <2> SUFFICES ASSUME IInv, ~made.overlap
                 PROVE  /\ ~made.edit => \A m \in Ids : Exists(m) => file.entries[m] # None
                        /\ \A p \in Proposals \ made.overwritten : prop[p] # None =>
                             LET applied == IF prop[p].status = "applied" /\ prop[p].action \in FileActions THEN 1 ELSE 0
                             IN Running = {} => file.texts[p] \in applied .. applied + spent.troubles
      BY DEF FileComplete
    <2>1. ~made.edit => \A m \in Ids : Exists(m) => file.entries[m] # None
      BY DEF IInv, EntriesKept, Exists
    <2>2. ASSUME NEW p \in Proposals \ made.overwritten, prop[p] # None, Running = {}
          PROVE  LET applied == IF prop[p].status = "applied" /\ prop[p].action \in FileActions THEN 1 ELSE 0
                 IN file.texts[p] \in applied .. applied + spent.troubles
      <3>1. ~Written(p)
        BY <2>2 DEF Written, Running
      <3>2. file.texts[p] \in IF Applied(p) THEN 1 .. 1 + spent.troubles ELSE 0 .. spent.troubles
        BY <3>1 DEF IInv, TextsCounted
      <3>3. spent.troubles \in Nat
        BY DEF IInv, TypeOK
      <3> QED BY <2>2, <3>2, <3>3 DEF Applied
    <2> QED BY <2>1, <2>2
  <1> QED BY <1>1, AlwaysIInv, PTL

\* In calm times MEMORY.md and the table mirror each other.
THEOREM MirrorWhenCalmHolds == Spec => []MirrorWhenCalm
  <1>1. IInv => MirrorWhenCalm
    BY DEF IInv, Mirrored, MirrorWhenCalm, Running, Exists
  <1> QED BY <1>1, AlwaysIInv, PTL

----------------------------------------------------------------------------
(* What no step does.                                                      *)

\* A memory once committed stays in the table, and one that was replaced stays
\* marked as replaced: no session writes back the superseded_by that it loaded
\* before the replacement was committed.
RowsStay ==
    \A m \in Ids : rows[m] # None =>
        rows'[m] # None /\ (rows[m].by # None => rows'[m].by # None)

\* Only a commit writes rows.
LEMMA RowsOnlyByCommit ==
  ASSUME [Next]_vars
  PROVE  rows' = rows \/ \E r \in Requests : Commit(r)
  <1>1. ASSUME NEW r \in Requests, Requested(r) PROVE rows' = rows
    <2>1. \A x : Start(r, x) => rows' = rows
      BY DEF Start
    <2> QED BY <1>1, <2>1
        DEF Requested, CreateRequest, SupersedeRequest, ArchiveRequest, VerifyRequest, RestoreRequest,
            SyncRequest, ApplyRequest, RejectRequest
  <1>2. ASSUME NEW r \in Requests, SessionStep(r) PROVE rows' = rows \/ Commit(r)
    BY <1>2 DEF SessionStep, Flush, SyncLoad, FileRead, FileWrite, FileReplace, FileFault,
                Crash, CrashWriting
  <1>3. ASSUME NEW p \in Proposals, NEW a \in Actions, NEW t \in Ids \cup {None}, Propose(p, a, t) PROVE rows' = rows
    BY <1>3 DEF Propose
  <1>4. ASSUME NEW m \in Ids, NEW line \in EditedLines, NEW keep \in BOOLEAN, Edit(m, line, keep) PROVE rows' = rows
    BY <1>4 DEF Edit
  <1>5. CASE UNCHANGED vars
    BY <1>5 DEF vars
  <1> QED BY <1>1, <1>2, <1>3, <1>4, <1>5 DEF Next

\* Rows and replacements are never lost, however the sessions overlap or die.
THEOREM RowsStayHolds == Spec => [][RowsStay]_vars
  <1>1. ASSUME IInv, [Next]_vars PROVE RowsStay
    <2>1. CASE rows' = rows
      BY <2>1 DEF RowsStay
    <2>2. ASSUME NEW r \in Requests, Commit(r) PROVE RowsStay
      <3> SUFFICES ASSUME NEW m \in Ids, rows[m] # None
                   PROVE  rows'[m] # None /\ (rows[m].by # None => rows'[m].by # None)
        BY DEF RowsStay
      <3>1. tx[r] # None /\ Shape(tx[r]) /\ LinkRows(tx[r])
        BY <2>2, <1>1 DEF Commit, CommitReady, At, IInv, Shapes, Linked
      <3>2. m \notin New(tx[r])
        BY <3>1 DEF LinkRows
      <3>3. rows'[m] # None
        BY <1>1, <2>2, CommitRows
      <3>4. CASE m \notin Of(tx[r].view)
        BY <3>3, <3>4, <1>1, <2>2, CommitRows
      <3>5. CASE m \in Of(tx[r].base)
        <4>1. /\ rows[m] \in Row /\ tx[r].base[m] \in Row /\ tx[r].view[m] \in Row
              /\ rows'[m] = Merged(tx[r].view[m], tx[r].base[m], rows[m])
          BY <3>5, <1>1, <2>2, CommitRows
        <4>2. tx[r].view[m].by = tx[r].base[m].by \/ tx[r].view[m].by # None
          BY <3>1, <3>5 DEF Shape, ShapeOld
        <4> QED BY <3>3, <4>1, <4>2, MergedFacts
      <3> QED BY <3>2, <3>4, <3>5 DEF New
    <2> QED BY <1>1, <2>1, <2>2, RowsOnlyByCommit
  <1>2. IInv /\ [Next]_vars => [RowsStay]_vars
    BY <1>1
  <1> QED BY <1>2, AlwaysIInv, PTL DEF Spec
=============================================================================
