-------------------------------- MODULE Wiki --------------------------------
(***************************************************************************)
(* The Markdown wiki (src/backend/domain/wiki.py): pages on disk, their    *)
(* mirror in the database, the Error Book, and the proposals that change   *)
(* the pages.  Files are written at once; the tables change when the       *)
(* request or the worker's task commits.  People edit the files at any     *)
(* time.  One repair, apply or lint runs at a time (tx), beside a compile  *)
(* (comp): the sessions overlap, and each commits what it wrote over what  *)
(* the other committed meanwhile.                                          *)
(***************************************************************************)
EXTENDS Naturals, FiniteSets

CONSTANTS
    Notes,         \* paths of ordinary pages
    NoteRank,      \* their places in sorted(rglob) order
    Names,         \* page keys, aliases and link targets of ordinary pages
    NoteContents,  \* what an author may write into a note
    StartNotes,    \* the notes on disk when the service first sees the root
    RepairLimit,   \* open errors that one repair reads (500 in the code)
    ErrorLimit,    \* open errors that the sufficiency check reads (200)
    OpBound,       \* edits, proposals, reviews, manual repairs, overlaps, crashes
    None

ASSUME RankOrders ==
    /\ NoteRank \in [Notes -> Nat \ {0}]
    /\ \A m, n \in Notes : NoteRank[m] = NoteRank[n] => m = n

VARIABLES
    disk,    \* the files under the wiki root
    db,      \* the committed tables
    fixes,   \* pending proposals that carry the whole content of a file
    tx,      \* the repair or apply that is running, or None
    comp,    \* the compile that is running, or None
    mixed,   \* history: the tables are of two compiles that overlapped
    ops,     \* edits, proposals, reviews, manual repairs, overlaps and crashes
    passes   \* whole safe repairs since the files last changed otherwise, up to 2

vars == <<disk, db, fixes, tx, comp, mixed, ops, passes>>

CANONICAL_WIKI_FILES == {"SCHEMA.md", "index.md", "log.md"}

Paths == CANONICAL_WIKI_FILES \cup Notes

\* The page keys the default control files declare (log.md: its file name).
CanonicalKey == [c \in CANONICAL_WIKI_FILES |->
    CASE c = "SCHEMA.md" -> "schema" [] c = "index.md" -> "index" [] OTHER -> "log"]

Keys == Names \cup {"schema", "index", "log"}

\* A parsed page: alias stands for an alias or the normalised title; weak for
\* low confidence, contested or unproven claims, missing sources, staleness.
ParsedWikiPage == [parses: BOOLEAN, key: Keys, alias: Names \cup {None},
                   links: SUBSET Names, weak: BOOLEAN]

DEFAULT_CANONICAL_CONTENT == [c \in CANONICAL_WIKI_FILES |->
    [parses |-> TRUE, key |-> CanonicalKey[c], alias |-> None, links |-> {}, weak |-> FALSE]]

COMPILE_TYPES == {"dangling_link", "compile_error", "duplicate_page_key"}

LOW_RISK_REPAIR_TYPES == {"missing_canonical_file", "missing_index_entry", "orphan_page"}

LINT_TYPES == LOW_RISK_REPAIR_TYPES \cup {"broken_link", "quality"}

WikiErrorBook == [type: COMPILE_TYPES \cup LINT_TYPES, key: Keys \cup Paths,
                  about: Names \cup Paths \cup {None}]

WikiLink == [src: Keys, dst: Keys, status: {"resolved", "unresolved"}]

WikiPage == [path: Paths, page: ParsedWikiPage]

\* The tables, of the Error Book only the open errors.
Tables == [pages: [Keys -> WikiPage \cup {None}], sources: SUBSET Paths,
           links: SUBSET WikiLink, errors: SUBSET WikiErrorBook]

NoTables == [pages |-> [k \in Keys |-> None], sources |-> {}, links |-> {}, errors |-> {}]

\* A proposal that carries a file.
Fix == [path: Paths, content: ParsedWikiPage]

\* Whether a session has compiled, and what others committed since: nothing
\* (alone), a compile it has not seen, or one only its DELETE has not seen.
Since == {"idle", "alone", "unseen", "seen"}

\* A compile: the files it read, and the tables when it loaded its rows.
CompileSession == [files: [Paths -> ParsedWikiPage \cup {None}], base: Tables,
                   since: Since \ {"idle"}, mixed: BOOLEAN]

\* Sessions that write files: mine is what the tables are to them since their
\* last compile, base what was committed then, lint what lint opened.
RepairSession == [kind: {"repair"}, safe: BOOLEAN, whole: BOOLEAN, fixes: SUBSET Fix,
                  todo: SUBSET WikiErrorBook, lint: SUBSET WikiErrorBook,
                  base: Tables, mine: Tables, since: Since, mixed: BOOLEAN]
ApplySession == [kind: {"apply"}, fix: SUBSET Fix,
                 base: Tables, mine: Tables, since: Since, mixed: BOOLEAN]

\* An ordinary page declares a name; if that may be "index", so may a name.
NotePage == {c \in ParsedWikiPage : c.key \in Names}

\* normalize_page_key leaves no dot, so no page is named like a control file.
ASSUME WikiAssumption ==
    /\ IsFiniteSet(Notes) /\ IsFiniteSet(Names)
    /\ Notes \cap CANONICAL_WIKI_FILES = {}
    /\ Names \cap CANONICAL_WIKI_FILES = {}
    /\ NoteContents \subseteq NotePage
    /\ StartNotes \subseteq [Notes -> NotePage \cup {None}]
    /\ RepairLimit \in Nat /\ ErrorLimit \in Nat
    /\ OpBound \in Nat

ASSUME NoneAssumption ==
    None \notin ParsedWikiPage /\ None \notin WikiPage

-----------------------------------------------------------------------------
(* The compiler. *)

MarkdownPaths(d) == {p \in Paths : d[p] # None}

Parsed(d) == {p \in MarkdownPaths(d) : d[p].parses}

Rank(p) == IF p \in Notes THEN NoteRank[p] ELSE 0

\* Of the pages that declare one key, the first path is compiled.
Compiled(d) == {p \in Parsed(d) : \A q \in Parsed(d) : d[q].key = d[p].key => Rank(p) <= Rank(q)}

\* known: a later page's alias or title takes a name from an earlier page.
\* C is Compiled(d).
Claimants(d, C, name) == {p \in C : d[p].key = name \/ d[p].alias = name}

Known(d, C) ==
    [name \in {n \in Names : Claimants(d, C, n) # {}} |->
        LET P == Claimants(d, C, name)
        IN d[CHOOSE p \in P : \A q \in P : Rank(q) <= Rank(p)].key]

CompileErrors(d, C) ==
    {[type |-> "compile_error", key |-> p, about |-> None] : p \in MarkdownPaths(d) \ Parsed(d)}
    \cup {[type |-> "duplicate_page_key", key |-> d[p].key, about |-> p] : p \in Parsed(d) \ C}

\* The links of the compiled pages: <<page key, target>>.
PageLinks(d, C) == UNION {{<<d[p].key, target>> : target \in d[p].links} : p \in C}

DanglingErrors(d, C) ==
    LET known == Known(d, C)
    IN {[type |-> "dangling_link", key |-> l[1], about |-> l[2]] :
            l \in {x \in PageLinks(d, C) : x[2] \notin DOMAIN known}}

Links(d, C) ==
    LET known == Known(d, C)
    IN {IF l[2] \in DOMAIN known
          THEN [src |-> l[1], dst |-> known[l[2]], status |-> "resolved"]
          ELSE [src |-> l[1], dst |-> l[2], status |-> "unresolved"] : l \in PageLinks(d, C)}

\* Slip: the new links are added to the old ones.
LinksAdded(t, d, C) == t.links \cup Links(d, C)
LinksAfter(t, d, C) == Links(d, C)

SourcesAfter(t, d, C) ==
    C \cup IF CompileErrors(d, C) = {} THEN t.sources \cap MarkdownPaths(d) ELSE t.sources

\* Rows of pages that are gone are deleted only by a compile without errors.
PagesAfter(t, d, C) ==
    LET kept == IF CompileErrors(d, C) = {} THEN [k \in Keys |-> None] ELSE t.pages
        RowOf(p) == [path |-> p, page |-> d[p]]
    IN [k \in Keys |-> IF \E p \in C : d[p].key = k
                         THEN RowOf(CHOOSE p \in C : d[p].key = k) ELSE kept[k]]

\* Every open error of these types is closed; errors E are opened.
Reopen(errors, types, E) == {e \in errors : e.type \notin types} \cup E

\* Slip: only the errors of the files that failed are renewed.
ReopenedForFailures(t, d, C) ==
    Reopen(t.errors, {"compile_error", "duplicate_page_key"}, CompileErrors(d, C))
ReopenedByCompile(t, d, C) ==
    Reopen(t.errors, COMPILE_TYPES, CompileErrors(d, C) \cup DanglingErrors(d, C))

Compile(t, d) ==
    LET C == Compiled(d)
    IN [pages |-> PagesAfter(t, d, C), sources |-> SourcesAfter(t, d, C),
        links |-> LinksAfter(t, d, C), errors |-> ReopenedByCompile(t, d, C)]

-----------------------------------------------------------------------------
(* Lint. *)

\* scan raises on the first page that does not parse: lint and repair fail.
Scannable(d) == MarkdownPaths(d) = Parsed(d)

IndexedPageKeys(d) == IF d["index.md"] = None THEN {} ELSE d["index.md"].links

LinkedTargets(d) == UNION {d[p].links : p \in Parsed(d)}

\* An error of the type for each of the notes among these pages.
OnNotes(d, type, pages) == {[type |-> type, key |-> d[p].key, about |-> p] : p \in pages \cap Notes}

\* A link that only an alias answers counts as broken here.
BrokenLinks(d) ==
    {[type |-> "broken_link", key |-> d[x[1]].key, about |-> x[2]] :
        x \in {y \in Parsed(d) \X Names : y[2] \in d[y[1]].links
                                          /\ \A q \in Parsed(d) : d[q].key # y[2]}}

\* Low confidence, contested, stale, without sources, or with such claims.
QualityErrors(d) == OnNotes(d, "quality", {p \in Parsed(d) : d[p].weak})

LintErrors(d) ==
    LET Outside(keys) == {p \in Parsed(d) : d[p].key \notin keys}
    IN {[type |-> "missing_canonical_file", key |-> c, about |-> None] :
            c \in CANONICAL_WIKI_FILES \ MarkdownPaths(d)}
       \cup BrokenLinks(d)
       \cup OnNotes(d, "missing_index_entry", Outside(IndexedPageKeys(d)))
       \cup OnNotes(d, "orphan_page", Outside(LinkedTargets(d)))
       \cup QualityErrors(d)

-----------------------------------------------------------------------------
(* Two sessions over the same tables.  Row locks, which only delay or fail *)
(* a session, are left out: every order of their statements is possible.   *)

\* What a session writes of a row: nothing if it has it as it was loaded.
Column(base, mine, cur) == IF mine = base THEN cur ELSE mine

MergedRow(base, mine, cur) ==
    IF mine = base THEN cur
    ELSE IF mine = None \/ base = None \/ cur = None THEN mine
    ELSE [path |-> Column(base.path, mine.path, cur.path),
          page |-> Column(base.page, mine.page, cur.page)]

\* It inserts a row that exists by now, or updates one that is gone.
Clashes(base, mine, cur) ==
    \/ \E k \in Keys : /\ mine.pages[k] # base.pages[k] /\ mine.pages[k] # None
                       /\ (base.pages[k] = None) # (cur.pages[k] = None)
    \/ (mine.sources \ base.sources) \cap cur.sources # {}

\* No key makes links or errors unique: those the session has not seen stay.
Merged(base, mine, cur) ==
    [pages |-> [k \in Keys |-> MergedRow(base.pages[k], mine.pages[k], cur.pages[k])],
     sources |-> (cur.sources \ (base.sources \ mine.sources)) \cup (mine.sources \ base.sources),
     links |-> cur.links \cup mine.links,
     errors |-> cur.errors \cup mine.errors]

\* The tables to session x, for which they are mine since its last compile.
View(x, mine) ==
    CASE x.since = "idle" -> db
      [] x.since = "alone" -> mine
      [] x.since = "seen" -> [mine EXCEPT !.links = @ \cup db.links]
      [] x.since = "unseen" -> Merged(x.base, mine, db)

Fails(x, mine) == x.since = "unseen" /\ Clashes(x.base, mine, db)

\* Only lint and repair open and close lint's errors.
WithLint(t, L) == [t EXCEPT !.errors = {e \in @ : e.type \notin LINT_TYPES} \cup L]

LintOf(t) == {e \in t.errors : e.type \in LINT_TYPES}

\* Whether the tables to session x are of compiles that overlapped.
MixedTo(x) == CASE x.since = "idle" -> mixed [] x.since = "alone" -> x.mixed [] OTHER -> TRUE

\* A compile of files d that deletes whatever it finds leaves nothing mixed.
MixedAfter(m, d) == m /\ CompileErrors(d, Compiled(d)) # {}

\* Session x compiles the files d; it finds what was committed before.
Compiling(x, d) == [x EXCEPT !.base = WithLint(db, {}), !.since = "alone",
                             !.mine = WithLint(Compile(View(x, x.mine), d), {}),
                             !.mixed = MixedAfter(MixedTo(x), d)]

\* Another session commits a compile while x runs.
Overtaken(x) == IF x = None \/ x.since = "idle" THEN x ELSE [x EXCEPT !.since = "unseen"]

-----------------------------------------------------------------------------
Init ==
    /\ \E missing \in {{}, {"index.md", "log.md"}}, note \in StartNotes :
        disk = [p \in Paths |-> IF p \in Notes THEN note[p] ELSE IF p \in missing THEN None
                                ELSE DEFAULT_CANONICAL_CONTENT[p]]
    /\ db = NoTables
    /\ fixes = {}
    /\ tx = None
    /\ comp = None
    /\ mixed = FALSE
    /\ ops = 0
    /\ passes = 0

Count(n) == ops + n <= OpBound /\ ops' = ops + n

\* A session begins, for n operations; if the other one, x, is running, they
\* overlap.
Begins(x, n) == Count(IF x = None THEN n ELSE n + 1)

\* A person or the agent's file tools write or remove a file.
Edit ==
    /\ Count(1)
    /\ \/ \E n \in Notes, c \in NoteContents \cup {None} : disk' = [disk EXCEPT ![n] = c]
       \/ disk' = [disk EXCEPT !["index.md"] = None]
       \/ /\ disk["index.md"] # None
          /\ \/ \E ok \in BOOLEAN : disk' = [disk EXCEPT !["index.md"].parses = ok]
             \/ disk' = [disk EXCEPT !["index.md"].links = {}]
    /\ disk' # disk
    /\ passes' = 0
    /\ tx' = IF tx # None /\ tx.kind = "repair" THEN [tx EXCEPT !.whole = FALSE] ELSE tx
    /\ UNCHANGED <<db, fixes, comp, mixed>>

\* wiki_lint.
LintRun ==
    /\ tx = None
    /\ Scannable(disk)
    /\ db' = WithLint(db, LintErrors(disk))
    /\ UNCHANGED <<disk, fixes, tx, comp, mixed, ops, passes>>

-----------------------------------------------------------------------------
(* wiki_compile, the endpoint with enqueue off, or the start of the service. *)

\* It reads the files and deletes the links.
CompileBegin ==
    /\ comp = None
    /\ Begins(tx, 0)
    /\ comp' = [files |-> disk, base |-> WithLint(db, {}), since |-> "alone", mixed |-> mixed]
    /\ UNCHANGED <<disk, db, fixes, tx, mixed, passes>>

\* Its later statements, which close errors and load rows, see a commit that
\* its DELETE of the links did not.
CompileLoad ==
    /\ comp # None
    /\ comp.since = "unseen"
    /\ comp' = [comp EXCEPT !.base = WithLint(db, {}), !.since = "seen"]
    /\ UNCHANGED <<disk, db, fixes, tx, mixed, ops, passes>>

CompileCommit ==
    /\ comp # None
    /\ \E mine \in {Compile(comp.base, comp.files)} :
        /\ ~Fails(comp, mine)
        /\ db' = WithLint(View(comp, mine), LintOf(db))
    /\ mixed' = (comp.since # "alone" \/ MixedAfter(comp.mixed, comp.files))
    /\ comp' = None
    /\ tx' = Overtaken(tx)
    /\ UNCHANGED <<disk, fixes, ops, passes>>

-----------------------------------------------------------------------------
(* Repair: lint, then one pass over the open errors in any order (they     *)
(* share the transaction's created_at), then one commit.                   *)

\* What error_book may return of the open errors, which it orders by a time
\* that many of them share.  An error that has several rows counts as one.
ErrorBook(errors, limit) ==
    {S \in SUBSET errors : IF Cardinality(errors) <= limit THEN S = errors ELSE Cardinality(S) = limit}

\* Ids that an administrator selected were given before lint renewed its
\* errors: such a repair finds only errors that it proposes to review.  The
\* proposals for review (append_log) carry no file and are not tracked.
RepairBegin(safe, n) ==
    /\ tx = None
    /\ Begins(comp, n)
    /\ Scannable(disk)
    /\ \E lint \in {LintErrors(disk)} :
       \E errors \in {Reopen(db.errors, LINT_TYPES, lint)} :
       \E read \in ErrorBook(errors, RepairLimit) :
          tx' = [kind |-> "repair", safe |-> safe, whole |-> (read = errors), fixes |-> fixes,
                 todo |-> {e \in read : e.type \in LOW_RISK_REPAIR_TYPES}, lint |-> lint,
                 base |-> NoTables, mine |-> NoTables, since |-> "idle", mixed |-> FALSE]
    /\ UNCHANGED <<disk, db, fixes, comp, mixed, passes>>

RepairAll == RepairBegin(TRUE, 0)
RepairSome == RepairBegin(FALSE, 1)

\* Slip: the new index starts from the default page.
IndexFromDefault(d, key) == [DEFAULT_CANONICAL_CONTENT["index.md"] EXCEPT !.links = {key}]
IndexContentWithLink(d, key) ==
    LET current == IF d["index.md"] = None THEN DEFAULT_CANONICAL_CONTENT["index.md"] ELSE d["index.md"]
    IN [current EXCEPT !.links = @ \cup {key}]

LowRiskRepairProposal(e) ==
    IF e.type = "missing_canonical_file"
      THEN [path |-> e.key, content |-> DEFAULT_CANONICAL_CONTENT[e.key]]
      ELSE [path |-> "index.md", content |-> IndexContentWithLink(disk, e.key)]

\* apply_proposal writes the file and then a line of log.md, which exists
\* from then on.
Written(d, f) ==
    LET w == [d EXCEPT ![f.path] = f.content]
    IN IF w["log.md"] = None THEN [w EXCEPT !["log.md"] = DEFAULT_CANONICAL_CONTENT["log.md"]] ELSE w

\* The errors the pass leaves out from here on, open as they are: a second
\* error with the same target is a duplicate safe repair.
Rest(e) == {x \in tx.todo \ {e} : x.key # e.key}

\* A low-risk error is repaired on the spot, with a compile.
RepairSafe(e) ==
    /\ ~Fails(tx, tx.mine)
    /\ \E d \in {Written(disk, LowRiskRepairProposal(e))} :
        /\ disk' = d
        /\ tx' = [Compiling(tx, d) EXCEPT !.todo = Rest(e), !.lint = @ \ {e}]

RepairPropose(e) ==
    /\ tx' = [tx EXCEPT !.todo = Rest(e), !.fixes = @ \cup {LowRiskRepairProposal(e)}]
    /\ UNCHANGED disk

RepairStep ==
    /\ tx # None
    /\ tx.kind = "repair"
    /\ \E e \in tx.todo : IF tx.safe THEN RepairSafe(e) ELSE RepairPropose(e)
    /\ UNCHANGED <<db, fixes, comp, mixed, ops, passes>>

RepairCommit ==
    /\ tx # None
    /\ tx.kind = "repair"
    /\ tx.todo = {}
    /\ ~Fails(tx, tx.mine)
    /\ db' = WithLint(View(tx, tx.mine), tx.lint)
    /\ mixed' = MixedTo(tx)
    /\ fixes' = tx.fixes
    /\ passes' = IF tx.safe /\ tx.whole /\ passes < 2 THEN passes + 1 ELSE passes
    /\ tx' = None
    /\ comp' = IF tx.since = "idle" THEN comp ELSE Overtaken(comp)
    /\ UNCHANGED <<disk, ops>>

-----------------------------------------------------------------------------
(* Proposals that a person applies. *)

\* create_page, update_page and fix_link proposals from the API.
Propose ==
    /\ Count(1)
    /\ \E n \in Notes, c \in NoteContents : fixes' = fixes \cup {[path |-> n, content |-> c]}
    /\ fixes' # fixes
    /\ UNCHANGED <<disk, db, tx, comp, mixed, passes>>

\* apply_proposal writes the file first.
ApplyOf(F) == [kind |-> "apply", fix |-> F, base |-> NoTables, mine |-> NoTables,
               since |-> "idle", mixed |-> FALSE]

ApplyWrite ==
    /\ tx = None
    /\ Begins(comp, 1)
    /\ \E f \in fixes : disk' = Written(disk, f) /\ tx' = ApplyOf({f})
    /\ passes' = 0
    /\ UNCHANGED <<db, fixes, comp, mixed>>

\* append_log: repair's reviews, and the entries the Dream review proposes.
ApplyLog ==
    /\ tx = None
    /\ Begins(comp, 1)
    /\ disk' = Written(disk, [path |-> "log.md", content |-> DEFAULT_CANONICAL_CONTENT["log.md"]])
    /\ tx' = ApplyOf({})
    /\ passes' = 0
    /\ UNCHANGED <<db, fixes, comp, mixed>>

\* It then compiles.
ApplyCompile ==
    /\ tx # None
    /\ tx.kind = "apply"
    /\ tx.since = "idle"
    /\ tx' = Compiling(tx, disk)
    /\ UNCHANGED <<disk, db, fixes, comp, mixed, ops, passes>>

\* It marks the proposal applied, and the request commits.
ApplyCommit ==
    /\ tx # None
    /\ tx.kind = "apply"
    /\ tx.since # "idle"
    /\ ~Fails(tx, tx.mine)
    /\ db' = WithLint(View(tx, tx.mine), LintOf(db))
    /\ mixed' = MixedTo(tx)
    /\ fixes' = fixes \ tx.fix
    /\ tx' = None
    /\ comp' = Overtaken(comp)
    /\ UNCHANGED <<disk, ops, passes>>

\* What another session committed makes a flush fail: all is rolled back but
\* the files.
Rollback ==
    /\ \/ /\ tx # None /\ Fails(tx, tx.mine)
          /\ tx' = None /\ UNCHANGED comp
       \/ /\ comp # None /\ Fails(comp, Compile(comp.base, comp.files))
          /\ comp' = None /\ UNCHANGED tx
    /\ UNCHANGED <<disk, db, fixes, mixed, ops, passes>>

\* The process dies: the files stay as they are.
Crash ==
    /\ Count(1)
    /\ \/ tx # None /\ tx' = None /\ UNCHANGED comp
       \/ comp # None /\ comp' = None /\ UNCHANGED tx
    /\ UNCHANGED <<disk, db, fixes, mixed, passes>>

Next == \/ Edit \/ LintRun \/ CompileBegin \/ CompileLoad \/ CompileCommit
        \/ RepairAll \/ RepairSome \/ RepairStep \/ RepairCommit
        \/ Propose \/ ApplyWrite \/ ApplyLog \/ ApplyCompile \/ ApplyCommit
        \/ Rollback \/ Crash

Spec == Init /\ [][Next]_vars

-----------------------------------------------------------------------------
\* The type of every variable.
TypeOK ==
    /\ disk \in [Paths -> ParsedWikiPage \cup {None}]
    /\ db \in Tables
    /\ fixes \subseteq Fix
    /\ tx \in RepairSession \cup ApplySession \cup {None}
    /\ comp \in CompileSession \cup {None}
    /\ mixed \in BOOLEAN
    /\ ops \in 0..OpBound
    /\ passes \in 0..2

\* Pages that follow_links reaches from k, in both directions.
FollowLinks(k) ==
    {IF l.src = k THEN l.dst ELSE l.src :
        l \in {x \in db.links : x.status = "resolved" /\ k \in {x.src, x.dst}}}

\* Whatever failed to parse or was removed since, every page that can be
\* reached by following links has a row, and every row, also one that is kept
\* because a compile failed, has the source it was compiled from.  Compiles
\* that overlap may leave the links of one beside the rows of the other; the
\* next compile that runs alone and finds no error mends that.
ReferencesHold ==
    ~mixed => \A k \in Keys :
        /\ \A j \in FollowLinks(k) : db.pages[j] # None
        /\ db.pages[k] # None => db.pages[k].path \in db.sources

\* The page an error speaks of: normalize_page_key drops the .md of a path.
ErrorPage(e) == IF e.key \in CANONICAL_WIKI_FILES THEN CanonicalKey[e.key] ELSE e.key

\* The errors that concern pages R, among those that were read.
ConstraintsForPages(read, R) == {e \in read : ErrorPage(e) \in R}

\* What sufficiency_check at least demands of the pages R that were read,
\* beside their number and the terms of the claim.
Sufficient(read, R) ==
    /\ R # {}
    /\ \A k \in R : db.pages[k] # None
    /\ ConstraintsForPages(read, R) = {}

\* Pages that pass the check have no link that the compiler left unresolved,
\* as long as the check reads every open error and the tables are not of
\* compiles that overlapped.
SufficientIsBacked ==
    ~mixed /\ Cardinality(db.errors) <= ErrorLimit =>
        \A read \in ErrorBook(db.errors, ErrorLimit), R \in SUBSET Keys :
            Sufficient(read, R) => \A l \in db.links : l.src \in R => l.status = "resolved"

\* Every control file exists and index.md lists every page.
Navigable ==
    /\ CANONICAL_WIKI_FILES \subseteq MarkdownPaths(disk)
    /\ \A n \in Notes : disk[n] # None => disk[n].key \in IndexedPageKeys(disk)

\* Two whole repairs, with nobody else writing files, make the wiki navigable
\* in whatever order they take the errors; whole: each read every open error.
\* (One is not enough: the page that is created for a missing index.md may
\* replace the links added before it.)
TwoPassesConverge == passes = 2 => Navigable
=============================================================================
