----------------------------- MODULE WikiProofs -----------------------------
(***************************************************************************)
(* Safety of the wiki for any notes, names, contents, edits and crashes,   *)
(* with a compile that overlaps the other sessions.                        *)
(***************************************************************************)
EXTENDS Wiki, FiniteSetTheorems, WellFoundedInduction, TLAPS

DiskOK(d) == d \in [Paths -> ParsedWikiPage \cup {None}]

\* The error that the compiler opens for an unresolved link.
Dangling(l) == [type |-> "dangling_link", key |-> l.src, about |-> l.dst]

\* What holds of tables that are not mixed, committed or in a session.
LinkOK(t, l) ==
    /\ l.status = "resolved" => t.pages[l.src] # None /\ t.pages[l.dst] # None
    /\ l.status = "unresolved" => Dangling(l) \in t.errors
LinksGood(t) == \A l \in t.links : LinkOK(t, l)
SourcesGood(t) == \A k \in Keys : t.pages[k] # None => t.pages[k].path \in t.sources
Good(t) == LinksGood(t) /\ SourcesGood(t)

\* An ordinary page declares a name, on disk and in a proposal.
NotesNamed(d) == \A n \in Notes : d[n] # None => d[n].key \in Names
FixesNamed(F) == \A f \in F : f.path \in Notes => f.content.key \in Names

-----------------------------------------------------------------------------
(* The last of finitely many pages. *)

Less == {ss \in Nat \X Nat : ss[1] < ss[2]}

\* The order on the naturals is well founded.
LEMMA LessWF == IsWellFoundedOn(Less, Nat)
  <1>1. OpToRel(<, Nat) = Less
    BY Zenon DEF OpToRel, Less
  <1> QED BY Zenon, <1>1, NatLessThanWellFounded

\* A nonempty set of naturals has a least element.
LEMMA Least ==
  ASSUME NEW T, T \subseteq Nat, T # {}
  PROVE  \E x \in T : \A y \in T : x <= y
  <1>1. PICK x \in T : \A y \in T : ~(<<y, x>> \in Less)
    BY LessWF, WFMin
  <1>2. ASSUME NEW y \in T PROVE x <= y
    <2>1. x \in Nat /\ y \in Nat
      OBVIOUS
    <2>2. <<y, x>> \in Nat \X Nat
      BY <2>1
    <2>3. ~(y < x)
      BY <1>1, <2>2 DEF Less
    <2> QED BY <2>1, <2>3
  <1> QED BY <1>2

\* A page that no other page of P follows.
Last(P, p) == p \in P /\ \A q \in P : Rank(q) <= Rank(p)

\* Ranks are naturals.
LEMMA RankNat == \A p : Rank(p) \in Nat
  BY RankOrders DEF Rank

\* Of finitely many pages one is the last.
LEMMA LastExists ==
  ASSUME NEW P, IsFiniteSet(P), P # {}
  PROVE  \E p : Last(P, p)
  <1> DEFINE Bad == {Q \in SUBSET P : Q # {} /\ ~ \E p : Last(Q, p)}
             T == {Cardinality(Q) : Q \in Bad}
  <1>1. \A Q \in SUBSET P : IsFiniteSet(Q) /\ Cardinality(Q) \in Nat
    BY FS_Subset, FS_CardinalityType
  <1>2. T \subseteq Nat
    BY <1>1
  <1>3. SUFFICES ASSUME T # {} PROVE FALSE
    BY DEF Bad
  <1>4. PICK c \in T : \A y \in T : c <= y
    BY <1>2, <1>3, Least
  <1>5. PICK Q \in Bad : c = Cardinality(Q)
    OBVIOUS
  <1>6. PICK x : x \in Q
    BY <1>5
  <1>7. IsFiniteSet(Q) /\ Cardinality(Q) \in Nat
    BY <1>1
  <1>8. Cardinality(Q \ {x}) = Cardinality(Q) - 1
    BY <1>6, <1>7, FS_RemoveElement
  <1>9. Q \ {x} \notin Bad
    <2>1. SUFFICES ASSUME Q \ {x} \in Bad PROVE FALSE
      OBVIOUS
    <2>2. Cardinality(Q \ {x}) \in T
      BY <2>1
    <2>3. Cardinality(Q) <= Cardinality(Q) - 1
      BY <2>2, <1>4, <1>5, <1>8
    <2> QED BY <2>3, <1>7
  <1>10. CASE Q \ {x} = {}
    <2>1. Last(Q, x)
      <3>1. \A q \in Q : q = x
        BY <1>10
      <3> QED BY <3>1, <1>6, RankNat DEF Last
    <2> QED BY <2>1, <1>5
  <1>11. CASE Q \ {x} # {}
    <2>1. PICK y : Last(Q \ {x}, y)
      BY <1>9, <1>11
    <2>2. CASE Rank(x) <= Rank(y)
      <3>1. Last(Q, y)
        BY <2>1, <2>2 DEF Last
      <3> QED BY <3>1, <1>5
    <2>3. CASE ~(Rank(x) <= Rank(y))
      <3>1. Rank(x) \in Nat /\ Rank(y) \in Nat /\ \A q \in Q : Rank(q) \in Nat
        BY RankNat
      <3>2. Rank(y) <= Rank(x)
        BY <2>3, <3>1
      <3>3. \A q \in Q : q = x \/ Rank(q) <= Rank(y)
        BY <2>1 DEF Last
      <3>4. \A q \in Q : Rank(q) <= Rank(x)
        <4>1. TAKE q \in Q
        <4>2. Rank(q) \in Nat
          BY <3>1
        <4>3. CASE q = x
          BY <4>3, <3>1
        <4>4. CASE Rank(q) <= Rank(y)
          BY <4>2, <4>4, <3>1, <3>2
        <4> QED BY <4>3, <4>4, <3>3
      <3>5. Last(Q, x)
        BY <3>4, <1>6 DEF Last
      <3> QED BY <3>5, <1>5
    <2> QED BY <2>2, <2>3
  <1> QED BY <1>10, <1>11

-----------------------------------------------------------------------------
(* The compiler. *)

\* There are finitely many paths.
LEMMA PathsFinite == IsFiniteSet(Paths)
  <1>1. IsFiniteSet({"SCHEMA.md"} \cup {"index.md"} \cup {"log.md"})
    BY FS_Singleton, FS_Union
  <1>2. {"SCHEMA.md"} \cup {"index.md"} \cup {"log.md"} = CANONICAL_WIKI_FILES
    BY DEF CANONICAL_WIKI_FILES
  <1> QED BY <1>1, <1>2, FS_Union, WikiAssumption DEF Paths

\* A compiled page is a parsed page of the disk.
LEMMA CompiledIsPage ==
  ASSUME NEW d, DiskOK(d), NEW p \in Compiled(d)
  PROVE  p \in Paths /\ d[p] # None /\ d[p] \in ParsedWikiPage
  BY DEF DiskOK, Compiled, Parsed, MarkdownPaths

\* The fields of a parsed page.
LEMMA PageFields ==
  ASSUME NEW x \in ParsedWikiPage
  PROVE  x.key \in Keys /\ x.links \subseteq Names /\ x.parses \in BOOLEAN
  BY DEF ParsedWikiPage

\* A known name leads to the key of a compiled page.
LEMMA KnownIsKey ==
  ASSUME NEW d, DiskOK(d), NEW name \in DOMAIN Known(d, Compiled(d))
  PROVE  \E p \in Compiled(d) : Known(d, Compiled(d))[name] = d[p].key
  <1> DEFINE C == Compiled(d)
             P == Claimants(d, C, name)
  <1>1. P # {} /\ P \subseteq C
    BY DEF Known, Claimants
  <1>2. C \subseteq Paths
    BY CompiledIsPage
  <1>3. IsFiniteSet(P)
    BY <1>1, <1>2, PathsFinite, FS_Subset
  <1>4. \E p \in P : \A q \in P : Rank(q) <= Rank(p)
    BY <1>1, <1>3, LastExists DEF Last
  <1>5. PICK p \in P : p = CHOOSE x \in P : \A q \in P : Rank(q) <= Rank(x)
    BY <1>4
  <1>6. Known(d, C)[name] = d[p].key
    BY <1>5 DEF Known
  <1> QED BY <1>1, <1>5, <1>6

\* A link of the new tables starts at a compiled page.
LEMMA LinkStarts ==
  ASSUME NEW d, DiskOK(d), NEW x \in PageLinks(d, Compiled(d))
  PROVE  \E p \in Compiled(d), n \in Names : x = <<d[p].key, n>> /\ d[p].key \in Keys
  <1>1. PICK p \in Compiled(d) : x \in {<<d[p].key, target>> : target \in d[p].links}
    BY DEF PageLinks
  <1>2. PICK n \in d[p].links : x = <<d[p].key, n>>
    BY <1>1
  <1>3. d[p].key \in Keys /\ d[p].links \subseteq Names
    BY CompiledIsPage, PageFields
  <1> QED BY <1>2, <1>3

\* A link is resolved between compiled pages or left with its error.
LEMMA LinkIsKept ==
  ASSUME NEW d, DiskOK(d), NEW l \in Links(d, Compiled(d))
  PROVE  /\ l \in WikiLink
         /\ l.status = "resolved" =>
              /\ \E p \in Compiled(d) : d[p].key = l.src
              /\ \E p \in Compiled(d) : d[p].key = l.dst
         /\ l.status = "unresolved" => Dangling(l) \in DanglingErrors(d, Compiled(d))
  <1> DEFINE C == Compiled(d)
             known == Known(d, C)
  <1>1. PICK x \in PageLinks(d, C) :
          l = IF x[2] \in DOMAIN known
                THEN [src |-> x[1], dst |-> known[x[2]], status |-> "resolved"]
                ELSE [src |-> x[1], dst |-> x[2], status |-> "unresolved"]
    BY DEF Links
  <1>2. PICK p \in C, n \in Names : x = <<d[p].key, n>> /\ d[p].key \in Keys
    BY LinkStarts
  <1>3. x[1] = d[p].key /\ x[2] = n
    BY <1>2
  <1>4. CASE n \in DOMAIN known
    <2>1. PICK q \in C : known[n] = d[q].key
      BY <1>4, KnownIsKey
    <2>2. d[q].key \in Keys
      BY CompiledIsPage, PageFields
    <2>3. l = [src |-> d[p].key, dst |-> d[q].key, status |-> "resolved"]
      BY <1>1, <1>3, <1>4, <2>1
    <2> QED BY <1>2, <2>2, <2>3 DEF WikiLink
  <1>5. CASE n \notin DOMAIN known
    <2>1. l = [src |-> d[p].key, dst |-> n, status |-> "unresolved"]
      BY <1>1, <1>3, <1>5
    <2>2. [type |-> "dangling_link", key |-> x[1], about |-> x[2]] \in DanglingErrors(d, C)
      BY <1>3, <1>5 DEF DanglingErrors
    <2>3. Dangling(l) \in DanglingErrors(d, C)
      BY <2>1, <2>2, <1>3 DEF Dangling
    <2> QED BY <1>2, <2>1, <2>3 DEF WikiLink, Keys
  <1> QED BY <1>4, <1>5

\* What the rows of the pages are after a compile.
LEMMA RowsAfter ==
  ASSUME NEW t, NEW d, NEW k \in Keys
  PROVE  /\ (\E p \in Compiled(d) : d[p].key = k) =>
              \E p \in Compiled(d) : PagesAfter(t, d, Compiled(d))[k] = [path |-> p, page |-> d[p]]
         /\ ~(\E p \in Compiled(d) : d[p].key = k) =>
              PagesAfter(t, d, Compiled(d))[k] =
                IF CompileErrors(d, Compiled(d)) = {} THEN None ELSE t.pages[k]
  BY DEF PagesAfter

\* The compiler's errors are errors of its types.
LEMMA CompilerErrors ==
  ASSUME NEW d, DiskOK(d)
  PROVE  CompileErrors(d, Compiled(d)) \cup DanglingErrors(d, Compiled(d))
            \subseteq {e \in WikiErrorBook : e.type \in COMPILE_TYPES}
  <1> DEFINE C == Compiled(d)
  <1>1. ASSUME NEW p \in MarkdownPaths(d)
        PROVE  p \in Paths /\ d[p].key \in Keys
    BY PageFields DEF MarkdownPaths, DiskOK
  <1>2. ASSUME NEW e \in CompileErrors(d, C)
        PROVE  e \in WikiErrorBook /\ e.type \in COMPILE_TYPES
    <2>1. CASE \E p \in MarkdownPaths(d) : e = [type |-> "compile_error", key |-> p, about |-> None]
      BY <2>1, <1>1 DEF WikiErrorBook, COMPILE_TYPES
    <2>2. CASE \E p \in Parsed(d) : e = [type |-> "duplicate_page_key", key |-> d[p].key, about |-> p]
      BY <2>2, <1>1 DEF WikiErrorBook, COMPILE_TYPES, Parsed
    <2> QED BY <1>2, <2>1, <2>2 DEF CompileErrors
  <1>3. ASSUME NEW e \in DanglingErrors(d, C)
        PROVE  e \in WikiErrorBook /\ e.type \in COMPILE_TYPES
    <2>1. PICK x \in PageLinks(d, C) : e = [type |-> "dangling_link", key |-> x[1], about |-> x[2]]
      BY <1>3 DEF DanglingErrors
    <2>2. x[1] \in Keys /\ x[2] \in Names
      BY LinkStarts
    <2> QED BY <2>1, <2>2 DEF WikiErrorBook, COMPILE_TYPES
  <1> QED BY <1>2, <1>3

\* A compile keeps the tables well formed.  It leaves good tables if they were
\* good, or if it finds no error in the files: it then keeps no old row.
LEMMA CompileGood ==
  ASSUME NEW t \in Tables, NEW d, DiskOK(d)
  PROVE  /\ Compile(t, d) \in Tables
         /\ Good(t) \/ CompileErrors(d, Compiled(d)) = {} => Good(Compile(t, d))
  <1> DEFINE C == Compiled(d)
             u == Compile(t, d)
             E == CompileErrors(d, C) \cup DanglingErrors(d, C)
             r == Reopen(t.errors, COMPILE_TYPES, E)
  <1>1. /\ u = [pages |-> u.pages, sources |-> u.sources, links |-> u.links, errors |-> u.errors]
        /\ u.pages = PagesAfter(t, d, C) /\ u.sources = SourcesAfter(t, d, C)
        /\ u.links = Links(d, C) /\ u.errors = r
    BY DEF Compile, LinksAfter, ReopenedByCompile
  <1>2. /\ t.pages \in [Keys -> WikiPage \cup {None}]
        /\ t.sources \subseteq Paths /\ t.errors \subseteq WikiErrorBook
    BY DEF Tables
  <1>3. E \subseteq {e \in WikiErrorBook : e.type \in COMPILE_TYPES}
    BY CompilerErrors
  <1>4. r \subseteq WikiErrorBook /\ E \subseteq r
    BY <1>2, <1>3 DEF Reopen
  <1>5. C \subseteq Paths
    BY CompiledIsPage
  <1>6. u.sources \subseteq Paths /\ C \subseteq u.sources
    BY <1>1, <1>2, <1>5 DEF SourcesAfter
  <1>7. ASSUME NEW k \in Keys, \E p \in C : d[p].key = k
        PROVE  u.pages[k] \in WikiPage /\ u.pages[k] # None /\ u.pages[k].path \in u.sources
    <2>1. PICK p \in C : u.pages[k] = [path |-> p, page |-> d[p]]
      BY <1>1, <1>7, RowsAfter
    <2>2. p \in Paths /\ d[p] \in ParsedWikiPage
      BY CompiledIsPage
    <2>3. u.pages[k] \in WikiPage /\ u.pages[k].path = p
      BY <2>1, <2>2 DEF WikiPage
    <2> QED BY <2>3, <1>6, NoneAssumption
  <1>8. ASSUME NEW k \in Keys, ~ \E p \in C : d[p].key = k, u.pages[k] # None
        PROVE  /\ u.pages[k] \in WikiPage /\ CompileErrors(d, C) # {}
               /\ Good(t) => u.pages[k].path \in u.sources
    <2>1. CompileErrors(d, C) # {} /\ u.pages[k] = t.pages[k]
      BY <1>1, <1>8, RowsAfter
    <2>2. u.sources = C \cup t.sources
      BY <1>1, <2>1 DEF SourcesAfter
    <2>3. Good(t) => t.pages[k].path \in t.sources
      BY <1>8, <2>1 DEF Good, SourcesGood
    <2> QED BY <1>2, <1>8, <2>1, <2>2, <2>3
  <1>9. u.pages \in [Keys -> WikiPage \cup {None}]
    <2>1. DOMAIN u.pages = Keys /\ u.pages = [k \in Keys |-> u.pages[k]]
      BY <1>1 DEF PagesAfter
    <2>2. \A k \in Keys : u.pages[k] \in WikiPage \cup {None}
      BY <1>7, <1>8
    <2> HIDE DEF u
    <2> QED BY <2>1, <2>2
  <1>10. \A l \in u.links : l \in WikiLink
    BY <1>1, LinkIsKept
  <1>11. u \in Tables
    <2> HIDE DEF u, r
    <2> QED BY <1>1, <1>4, <1>6, <1>9, <1>10 DEF Tables
  <1>12. LinksGood(u)
    <2>1. SUFFICES ASSUME NEW l \in u.links PROVE LinkOK(u, l)
      BY DEF LinksGood
    <2>2. l \in Links(d, C) /\ l.src \in Keys /\ l.dst \in Keys
      BY <1>1, <1>10 DEF WikiLink
    <2>3. l.status = "resolved" => u.pages[l.src] # None /\ u.pages[l.dst] # None
      BY <2>2, <1>7, LinkIsKept
    <2>4. l.status = "unresolved" => Dangling(l) \in u.errors
      BY <2>2, <1>1, <1>4, LinkIsKept
    <2> QED BY <2>3, <2>4 DEF LinkOK
  <1>13. Good(t) \/ CompileErrors(d, C) = {} => SourcesGood(u)
    BY <1>7, <1>8 DEF SourcesGood
  <1> HIDE DEF u
  <1>14. Good(t) \/ CompileErrors(d, C) = {} => Good(u)
    BY <1>12, <1>13 DEF Good
  <1> QED BY <1>11, <1>14 DEF u

\* Lint's errors leave the compiler's tables as they are.
LEMMA WithLintGood ==
  ASSUME NEW t \in Tables, NEW L, L \subseteq WikiErrorBook
  PROVE  WithLint(t, L) \in Tables /\ (Good(t) => Good(WithLint(t, L)))
  <1> DEFINE u == WithLint(t, L)
  <1>1. /\ u \in Tables /\ u.pages = t.pages /\ u.sources = t.sources /\ u.links = t.links
        /\ u.errors = {e \in t.errors : e.type \notin LINT_TYPES} \cup L
    BY DEF Tables, WithLint
  <1> HIDE DEF u
  <1>2. ASSUME Good(t), NEW l \in u.links
        PROVE  LinkOK(u, l)
    <2>1. LinkOK(t, l)
      BY <1>1, <1>2 DEF Good, LinksGood
    <2>2. Dangling(l).type = "dangling_link" /\ "dangling_link" \notin LINT_TYPES
      BY DEF Dangling, LINT_TYPES, LOW_RISK_REPAIR_TYPES
    <2> QED BY <1>1, <2>1, <2>2 DEF LinkOK
  <1>3. Good(t) => SourcesGood(u)
    BY <1>1 DEF Good, SourcesGood
  <1>4. Good(t) => Good(u)
    BY <1>2, <1>3 DEF Good, LinksGood
  <1> QED BY <1>1, <1>4 DEF u

\* Lint's errors of the tables.
LEMMA LintOfErrors ==
  ASSUME NEW t \in Tables PROVE LintOf(t) \subseteq WikiErrorBook
  BY DEF LintOf, Tables

-----------------------------------------------------------------------------
(* Sessions that overlap. *)

\* The tables of a session, which are good unless they are mixed.
MineGood(x) == x # None /\ x.since = "alone" /\ ~x.mixed => Good(x.mine)
BaseGood(c) == c # None /\ c.since = "alone" /\ ~c.mixed => Good(c.base)

\* Merged tables are well formed.
LEMMA MergedTyped ==
  ASSUME NEW base \in Tables, NEW mine \in Tables, NEW cur \in Tables
  PROVE  Merged(base, mine, cur) \in Tables
  <1> DEFINE u == Merged(base, mine, cur)
  <1>1. /\ u = [pages |-> u.pages, sources |-> u.sources, links |-> u.links, errors |-> u.errors]
        /\ u.pages = [k \in Keys |-> MergedRow(base.pages[k], mine.pages[k], cur.pages[k])]
        /\ u.sources = (cur.sources \ (base.sources \ mine.sources)) \cup (mine.sources \ base.sources)
        /\ u.links = cur.links \cup mine.links
        /\ u.errors = cur.errors \cup mine.errors
    BY DEF Merged
  <1> HIDE DEF u
  <1>2. \A b, m, c \in WikiPage \cup {None} : MergedRow(b, m, c) \in WikiPage \cup {None}
    BY DEF MergedRow, Column, WikiPage
  <1>3. \A k \in Keys : {base.pages[k], mine.pages[k], cur.pages[k]} \subseteq WikiPage \cup {None}
    BY DEF Tables
  <1>4. u.pages \in [Keys -> WikiPage \cup {None}]
    <2>1. ASSUME NEW k \in Keys
          PROVE  MergedRow(base.pages[k], mine.pages[k], cur.pages[k]) \in WikiPage \cup {None}
      BY <1>2, <1>3
    <2> QED BY <1>1, <2>1
  <1>5. u.sources \subseteq Paths /\ u.links \subseteq WikiLink /\ u.errors \subseteq WikiErrorBook
    BY <1>1 DEF Tables
  <1> QED BY <1>1, <1>4, <1>5 DEF Tables, u

\* What a session sees is well formed, and good unless it is mixed.
LEMMA ViewGood ==
  ASSUME db \in Tables, ~mixed => Good(db), NEW x, x.since \in Since, x.base \in Tables,
         NEW mine \in Tables, x.since = "alone" /\ ~x.mixed => Good(mine)
  PROVE  View(x, mine) \in Tables /\ (~MixedTo(x) => Good(View(x, mine)))
  <1>1. CASE x.since = "idle"
    BY <1>1 DEF View, MixedTo
  <1>2. CASE x.since = "alone"
    BY <1>2 DEF View, MixedTo
  <1>3. CASE x.since = "seen"
    <2>1. View(x, mine) = [mine EXCEPT !.links = @ \cup db.links] /\ MixedTo(x)
      BY <1>3 DEF View, MixedTo
    <2>2. [mine EXCEPT !.links = @ \cup db.links] \in Tables
      BY DEF Tables
    <2> QED BY <2>1, <2>2
  <1>4. CASE x.since = "unseen"
    <2>1. View(x, mine) = Merged(x.base, mine, db) /\ MixedTo(x)
      BY <1>4 DEF View, MixedTo
    <2> QED BY <2>1, MergedTyped
  <1> QED BY <1>1, <1>2, <1>3, <1>4 DEF Since

\* A session that commits: db is what it saw, with lint's errors L.
LEMMA CommitGood ==
  ASSUME db \in Tables, ~mixed => Good(db), NEW x, x.since \in Since, x.base \in Tables,
         NEW mine \in Tables, x.since = "alone" /\ ~x.mixed => Good(mine),
         NEW L, L \subseteq WikiErrorBook
  PROVE  /\ WithLint(View(x, mine), L) \in Tables
         /\ ~MixedTo(x) => Good(WithLint(View(x, mine), L))
  BY ViewGood, WithLintGood

\* What a session has of the tables after a compile.
LEMMA CompilingGood ==
  ASSUME db \in Tables, ~mixed => Good(db), NEW x, x.since \in Since, x.base \in Tables,
         x.mine \in Tables, x.since = "alone" /\ ~x.mixed => Good(x.mine),
         NEW d, DiskOK(d)
  PROVE  LET mine == WithLint(Compile(View(x, x.mine), d), {})
         IN mine \in Tables /\ (~MixedAfter(MixedTo(x), d) => Good(mine))
  <1> DEFINE v == View(x, x.mine)
             w == Compile(v, d)
  <1>1. v \in Tables /\ (~MixedTo(x) => Good(v))
    BY ViewGood
  <1> HIDE DEF v
  <1>2. w \in Tables /\ (Good(v) \/ CompileErrors(d, Compiled(d)) = {} => Good(w))
    BY <1>1, CompileGood
  <1> HIDE DEF w
  <1>3. WithLint(w, {}) \in Tables /\ (Good(w) => Good(WithLint(w, {})))
    BY <1>2, WithLintGood
  <1>4. ~MixedAfter(MixedTo(x), d) => Good(w)
    BY <1>1, <1>2 DEF MixedAfter
  <1> QED BY <1>3, <1>4 DEF v, w

\* A session is overtaken: only what it knows of the others changes.
LEMMA OvertakenRepair ==
  ASSUME NEW x \in RepairSession
  PROVE  /\ Overtaken(x) \in RepairSession
         /\ \/ Overtaken(x) = x /\ (x = None \/ x.since = "idle")
            \/ Overtaken(x).since = "unseen"
         /\ Overtaken(x).safe = x.safe /\ Overtaken(x).whole = x.whole
         /\ Overtaken(x).todo = x.todo /\ Overtaken(x).fixes = x.fixes
  BY DEF Overtaken, RepairSession, Since

LEMMA OvertakenApply ==
  ASSUME NEW x \in ApplySession
  PROVE  /\ Overtaken(x) \in ApplySession
         /\ \/ Overtaken(x) = x /\ (x = None \/ x.since = "idle")
            \/ Overtaken(x).since = "unseen"
  BY DEF Overtaken, ApplySession, Since

LEMMA OvertakenCompile ==
  ASSUME NEW x \in CompileSession \cup {None}
  PROVE  /\ Overtaken(x) \in CompileSession \cup {None}
         /\ \/ Overtaken(x) = x /\ (x = None \/ x.since = "idle")
            \/ Overtaken(x).since = "unseen"
  BY DEF Overtaken, CompileSession, Since

-----------------------------------------------------------------------------
(* Lint. *)

\* Errors that ask for a line of index.md.
LINK_TYPES == {"missing_index_entry", "orphan_page"}

\* What the low-risk errors of a lint are about.
LowRiskGood(e) ==
    /\ e.type = "missing_canonical_file" => e.key \in CANONICAL_WIKI_FILES
    /\ e.type \in LINK_TYPES => e.key \in Names

\* The errors of a lint are of its types, and the low-risk ones name a control
\* file or an ordinary page.
LEMMA LintErrorsGood ==
  ASSUME NEW d, DiskOK(d), NotesNamed(d), NEW e \in LintErrors(d)
  PROVE  e \in WikiErrorBook /\ e.type \in LINT_TYPES /\ LowRiskGood(e)
  <1> DEFINE On(type) == \E p \in Parsed(d) \cap Notes : e = [type |-> type, key |-> d[p].key, about |-> p]
  <1>1. \A p \in Parsed(d) : p \in Paths /\ d[p] # None /\ d[p].key \in Keys /\ d[p].links \subseteq Names
    BY PageFields DEF Parsed, MarkdownPaths, DiskOK
  <1>2. CASE \E c \in CANONICAL_WIKI_FILES : e = [type |-> "missing_canonical_file", key |-> c, about |-> None]
    BY <1>2 DEF WikiErrorBook, LINT_TYPES, LOW_RISK_REPAIR_TYPES, LowRiskGood, LINK_TYPES, Paths
  <1>3. CASE e \in BrokenLinks(d)
    <2>1. PICK x \in Parsed(d) \X Names : e = [type |-> "broken_link", key |-> d[x[1]].key, about |-> x[2]]
      BY <1>3 DEF BrokenLinks
    <2>2. x[1] \in Parsed(d) /\ x[2] \in Names
      BY <2>1
    <2> QED BY <2>1, <2>2, <1>1 DEF WikiErrorBook, LINT_TYPES, LOW_RISK_REPAIR_TYPES, LowRiskGood, LINK_TYPES
  <1>4. ASSUME NEW type \in LINK_TYPES \cup {"quality"}, On(type)
        PROVE  e \in WikiErrorBook /\ e.type \in LINT_TYPES /\ LowRiskGood(e)
    <2>1. PICK p \in Parsed(d) \cap Notes : e = [type |-> type, key |-> d[p].key, about |-> p]
      BY <1>4
    <2>2. d[p].key \in Names /\ d[p].key \in Keys /\ p \in Paths
      BY <1>1 DEF NotesNamed
    <2> QED BY <2>1, <2>2 DEF WikiErrorBook, LINT_TYPES, LOW_RISK_REPAIR_TYPES, LowRiskGood, LINK_TYPES
  <1>5. CASE \E type \in LINK_TYPES \cup {"quality"} : On(type)
    BY <1>4, <1>5
  <1>6. \/ \E c \in CANONICAL_WIKI_FILES : e = [type |-> "missing_canonical_file", key |-> c, about |-> None]
        \/ e \in BrokenLinks(d)
        \/ On("missing_index_entry") \/ On("orphan_page") \/ On("quality")
    BY DEF LintErrors, OnNotes, QualityErrors
  <1>7. {"missing_index_entry", "orphan_page", "quality"} \subseteq LINK_TYPES \cup {"quality"}
    BY DEF LINK_TYPES
  <1> QED BY <1>2, <1>3, <1>5, <1>6, <1>7

-----------------------------------------------------------------------------
(* Repair and the files it writes. *)

\* Every control file exists; index.md lists every page.
AllControl(d) == \A c \in CANONICAL_WIKI_FILES : d[c] # None
AllListed(d) == \A n \in Notes : d[n] # None => d[n].key \in IndexedPageKeys(d)

\* The rest of a pass restores this control file, or lists this page.
Restores(todo, c) == \E e \in todo : e.type = "missing_canonical_file" /\ e.key = c
WillList(todo, k) == \E e \in todo : e.type \in LINK_TYPES /\ e.key = k

\* The errors left to a pass are of its types.
TodoGood(todo) == \A e \in todo : e.type \in LOW_RISK_REPAIR_TYPES /\ LowRiskGood(e)

\* A whole safe pass restores every control file that is missing.  When none
\* was missing at its start, it replaces no file, so it lists every page.
PassOf(d, x, n) ==
    /\ n >= 1 => \A e \in x.todo : e.type # "missing_canonical_file"
    /\ x.whole /\ x.safe =>
        /\ \A c \in CANONICAL_WIKI_FILES : d[c] # None \/ Restores(x.todo, c)
        /\ n >= 1 => \A m \in Notes : d[m] # None =>
              d[m].key \in IndexedPageKeys(d) \/ WillList(x.todo, d[m].key)

PassGood(x, d, n) == TodoGood(x.todo) /\ FixesNamed(x.fixes) /\ PassOf(d, x, n)

\* What the passes so far have achieved.
PassesGood(d, n) == (n >= 1 => AllControl(d)) /\ (n = 2 => AllListed(d))

Repairing(x) == x # None /\ x.kind = "repair"

\* The inductive invariant: types, files and tables.
FilesInv(d, F, x, n) ==
    /\ NotesNamed(d)
    /\ FixesNamed(F)
    /\ PassesGood(d, n)
    /\ Repairing(x) => PassGood(x, d, n)

TablesInv(t, m, x, c) ==
    /\ ~m => Good(t)
    /\ MineGood(x)
    /\ BaseGood(c)

IInv ==
    /\ TypeOK
    /\ FilesInv(disk, fixes, tx, passes)
    /\ TablesInv(db, mixed, tx, comp)

\* The default control files are pages.
LEMMA DefaultPage ==
  ASSUME NEW c \in CANONICAL_WIKI_FILES
  PROVE  /\ DEFAULT_CANONICAL_CONTENT[c] \in ParsedWikiPage
         /\ c \in Paths /\ c \notin Notes
  <1>1. CanonicalKey[c] \in Keys
    BY DEF CanonicalKey, CANONICAL_WIKI_FILES, Keys
  <1> HIDE DEF CanonicalKey
  <1>2. DEFAULT_CANONICAL_CONTENT[c] =
          [parses |-> TRUE, key |-> CanonicalKey[c], alias |-> None, links |-> {}, weak |-> FALSE]
    BY DEF DEFAULT_CANONICAL_CONTENT
  <1>3. DEFAULT_CANONICAL_CONTENT[c] \in ParsedWikiPage
    BY <1>1, <1>2 DEF ParsedWikiPage
  <1> QED BY <1>3, WikiAssumption DEF Paths

\* The new index.md has the old links and the new one.
LEMMA IndexGood ==
  ASSUME NEW d, DiskOK(d), NEW key \in Names
  PROVE  /\ IndexContentWithLink(d, key) \in ParsedWikiPage
         /\ IndexedPageKeys(d) \cup {key} \subseteq IndexContentWithLink(d, key).links
  <1> DEFINE current == IF d["index.md"] = None THEN DEFAULT_CANONICAL_CONTENT["index.md"] ELSE d["index.md"]
  <1>1. "index.md" \in CANONICAL_WIKI_FILES
    BY DEF CANONICAL_WIKI_FILES
  <1>2. current \in ParsedWikiPage
    BY <1>1, DefaultPage DEF DiskOK
  <1>3. IndexContentWithLink(d, key) = [current EXCEPT !.links = @ \cup {key}]
    BY DEF IndexContentWithLink
  <1>4. d["index.md"] # None => current = d["index.md"]
    OBVIOUS
  <1> HIDE DEF current
  <1>5. [current EXCEPT !.links = @ \cup {key}] \in ParsedWikiPage
    BY <1>2 DEF ParsedWikiPage
  <1>6. [current EXCEPT !.links = @ \cup {key}].links = current.links \cup {key}
    BY <1>2 DEF ParsedWikiPage
  <1> QED BY <1>3, <1>4, <1>5, <1>6 DEF IndexedPageKeys

\* A safe repair writes a control file.
LEMMA ProposalGood ==
  ASSUME DiskOK(disk), NEW e, e.type \in LOW_RISK_REPAIR_TYPES, LowRiskGood(e)
  PROVE  /\ LowRiskRepairProposal(e) \in Fix
         /\ LowRiskRepairProposal(e).path \in CANONICAL_WIKI_FILES
         /\ e.type = "missing_canonical_file" => LowRiskRepairProposal(e).path = e.key
         /\ e.type \in LINK_TYPES =>
              /\ LowRiskRepairProposal(e).path = "index.md"
              /\ IndexedPageKeys(disk) \cup {e.key} \subseteq LowRiskRepairProposal(e).content.links
  <1>1. CASE e.type = "missing_canonical_file"
    <2>1. e.key \in CANONICAL_WIKI_FILES
      BY <1>1 DEF LowRiskGood
    <2>2. LowRiskRepairProposal(e) = [path |-> e.key, content |-> DEFAULT_CANONICAL_CONTENT[e.key]]
      BY <1>1 DEF LowRiskRepairProposal
    <2>3. LowRiskRepairProposal(e) \in Fix /\ LowRiskRepairProposal(e).path = e.key
      BY <2>1, <2>2, DefaultPage DEF Fix
    <2> QED BY <1>1, <2>1, <2>3 DEF LINK_TYPES
  <1>2. CASE e.type \in LINK_TYPES
    <2>1. e.key \in Names
      BY <1>2 DEF LowRiskGood
    <2>2. e.type # "missing_canonical_file"
      BY <1>2 DEF LINK_TYPES
    <2>3. LowRiskRepairProposal(e) = [path |-> "index.md", content |-> IndexContentWithLink(disk, e.key)]
      BY <2>2 DEF LowRiskRepairProposal
    <2>4. "index.md" \in CANONICAL_WIKI_FILES /\ "index.md" \in Paths
      BY DEF CANONICAL_WIKI_FILES, Paths
    <2>5. LowRiskRepairProposal(e) \in Fix
      BY <2>1, <2>3, <2>4, IndexGood DEF Fix
    <2>6. IndexedPageKeys(disk) \cup {e.key} \subseteq LowRiskRepairProposal(e).content.links
      BY <2>1, <2>3, IndexGood
    <2> QED BY <2>2, <2>3, <2>4, <2>5, <2>6
  <1> QED BY <1>1, <1>2 DEF LOW_RISK_REPAIR_TYPES, LINK_TYPES

\* apply_proposal removes no file and touches only its own and log.md.
LEMMA WriteGood ==
  ASSUME NEW d, DiskOK(d), NotesNamed(d), NEW f \in Fix, FixesNamed({f})
  PROVE  /\ DiskOK(Written(d, f)) /\ NotesNamed(Written(d, f))
         /\ Written(d, f)[f.path] = f.content /\ f.content # None
         /\ \A p \in Paths : p # f.path /\ p # "log.md" => Written(d, f)[p] = d[p]
         /\ \A p \in Paths : d[p] # None => Written(d, f)[p] # None
  <1> DEFINE w == [d EXCEPT ![f.path] = f.content]
             log == DEFAULT_CANONICAL_CONTENT["log.md"]
             v == Written(d, f)
  <1>1. f.path \in Paths /\ f.content \in ParsedWikiPage /\ f.content # None
    BY NoneAssumption DEF Fix
  <1>2. "log.md" \in Paths /\ "log.md" \notin Notes /\ log \in ParsedWikiPage /\ log # None
    BY DefaultPage, NoneAssumption DEF CANONICAL_WIKI_FILES
  <1> HIDE DEF log
  <1>3. w \in [Paths -> ParsedWikiPage \cup {None}]
    BY <1>1 DEF DiskOK
  <1>4. w[f.path] = f.content /\ \A p \in Paths : p # f.path => w[p] = d[p]
    BY <1>1 DEF DiskOK
  <1>5. v = IF w["log.md"] = None THEN [w EXCEPT !["log.md"] = log] ELSE w
    BY DEF Written, log
  <1> HIDE DEF w, v
  <1>6. v \in [Paths -> ParsedWikiPage \cup {None}]
    BY <1>2, <1>3, <1>5
  <1>7. \A p \in Paths : v[p] = IF p = "log.md" /\ w[p] = None THEN log ELSE w[p]
    BY <1>2, <1>3, <1>5
  <1>8. v[f.path] = f.content
    BY <1>1, <1>4, <1>7
  <1>9. \A p \in Paths : p # f.path /\ p # "log.md" => v[p] = d[p]
    BY <1>4, <1>7
  <1>10. \A p \in Paths : d[p] # None => v[p] # None
    BY <1>1, <1>2, <1>4, <1>7
  <1>11. NotesNamed(v)
    <2>1. SUFFICES ASSUME NEW n \in Notes, v[n] # None PROVE v[n].key \in Names
      BY DEF NotesNamed
    <2>2. n \in Paths /\ n # "log.md"
      BY <1>2 DEF Paths
    <2>3. CASE n = f.path
      BY <2>3, <1>8 DEF FixesNamed
    <2>4. CASE n # f.path
      BY <2>1, <2>2, <2>4, <1>9 DEF NotesNamed
    <2> QED BY <2>3, <2>4
  <1> QED BY <1>1, <1>6, <1>8, <1>9, <1>10, <1>11 DEF DiskOK, v

\* Two disks with the same notes, of which the second has every control file
\* of the first and an index.md that lists at least as much.
Onward(d, v) ==
    /\ \A n \in Notes : v[n] = d[n]
    /\ \A c \in CANONICAL_WIKI_FILES : d[c] # None => v[c] # None
    /\ d["index.md"] # None => IndexedPageKeys(d) \subseteq IndexedPageKeys(v)

\* What was achieved stays so.
LEMMA OnwardKeeps ==
  ASSUME NEW d, NEW v, Onward(d, v), NEW n \in 0 .. 2, PassesGood(d, n)
  PROVE  PassesGood(v, n)
  <1>1. n >= 1 => AllControl(v)
    BY DEF Onward, PassesGood, AllControl
  <1>2. n = 2 => AllListed(v)
    <2>1. SUFFICES ASSUME n = 2, NEW m \in Notes, v[m] # None PROVE v[m].key \in IndexedPageKeys(v)
      BY DEF AllListed
    <2>2. n >= 1
      BY <2>1
    <2>3. "index.md" \in CANONICAL_WIKI_FILES
      BY DEF CANONICAL_WIKI_FILES
    <2>4. d["index.md"] # None
      BY <2>2, <2>3 DEF PassesGood, AllControl
    <2>5. v[m] = d[m] /\ IndexedPageKeys(d) \subseteq IndexedPageKeys(v)
      BY <2>4 DEF Onward
    <2>6. d[m].key \in IndexedPageKeys(d)
      BY <2>1, <2>5 DEF PassesGood, AllListed
    <2> QED BY <2>5, <2>6
  <1> QED BY <1>1, <1>2 DEF PassesGood

\* A safe repair leads onward, unless it creates the index.md that was missing.
LEMMA SafeWrite ==
  ASSUME DiskOK(disk), NotesNamed(disk), NEW e, e.type \in LOW_RISK_REPAIR_TYPES, LowRiskGood(e),
         NEW v, v = Written(disk, LowRiskRepairProposal(e))
  PROVE  /\ DiskOK(v) /\ NotesNamed(v)
         /\ \A n \in Notes : v[n] = disk[n]
         /\ \A c \in CANONICAL_WIKI_FILES : disk[c] # None => v[c] # None
         /\ e.type = "missing_canonical_file" => v[e.key] # None
         /\ e.type \in LINK_TYPES => Onward(disk, v) /\ e.key \in IndexedPageKeys(v)
  <1> DEFINE f == LowRiskRepairProposal(e)
  <1>1. /\ f \in Fix /\ f.path \in CANONICAL_WIKI_FILES
        /\ e.type = "missing_canonical_file" => f.path = e.key
        /\ e.type \in LINK_TYPES =>
              /\ f.path = "index.md"
              /\ IndexedPageKeys(disk) \cup {e.key} \subseteq f.content.links
    BY ProposalGood
  <1> HIDE DEF f
  <1>2. f.path \notin Notes /\ "log.md" \notin Notes
    BY <1>1, WikiAssumption DEF CANONICAL_WIKI_FILES
  <1>3. FixesNamed({f})
    BY <1>2 DEF FixesNamed
  <1>4. /\ DiskOK(v) /\ NotesNamed(v)
        /\ v[f.path] = f.content /\ f.content # None
        /\ \A p \in Paths : p # f.path /\ p # "log.md" => v[p] = disk[p]
        /\ \A p \in Paths : disk[p] # None => v[p] # None
    BY <1>1, <1>3, WriteGood DEF f
  <1>5. \A n \in Notes : v[n] = disk[n]
    BY <1>2, <1>4 DEF Paths
  <1>6. \A c \in CANONICAL_WIKI_FILES : disk[c] # None => v[c] # None
    BY <1>4 DEF Paths
  <1>7. ASSUME e.type \in LINK_TYPES
        PROVE  IndexedPageKeys(disk) \cup {e.key} \subseteq IndexedPageKeys(v)
    BY <1>1, <1>4, <1>7 DEF IndexedPageKeys
  <1>8. e.type \in LINK_TYPES => Onward(disk, v) /\ e.key \in IndexedPageKeys(v)
    BY <1>5, <1>6, <1>7 DEF Onward
  <1> QED BY <1>1, <1>4, <1>5, <1>6, <1>8

\* What a safe repair of e leaves of the pass is still enough.
LEMMA SafePass ==
  ASSUME DiskOK(disk), NotesNamed(disk), NEW x, NEW y, NEW n \in 0 .. 2, PassOf(disk, x, n),
         TodoGood(x.todo), PassesGood(disk, n),
         NEW e \in x.todo,
         NEW v, v = Written(disk, LowRiskRepairProposal(e)),
         y.whole = x.whole, y.safe = x.safe, x.safe, y.todo \subseteq x.todo,
         \A z \in x.todo : z.key # e.key => z \in y.todo
  PROVE  PassOf(v, y, n) /\ PassesGood(v, n)
  <1>1. LowRiskGood(e) /\ e.type \in LOW_RISK_REPAIR_TYPES
    BY DEF TodoGood
  <1>2. /\ \A m \in Notes : v[m] = disk[m]
        /\ \A c \in CANONICAL_WIKI_FILES : disk[c] # None => v[c] # None
        /\ e.type = "missing_canonical_file" => v[e.key] # None
        /\ e.type \in LINK_TYPES => Onward(disk, v) /\ e.key \in IndexedPageKeys(v)
    BY <1>1, SafeWrite
  <1>3. e.type = "missing_canonical_file" \/ e.type \in LINK_TYPES
    BY <1>1 DEF LOW_RISK_REPAIR_TYPES, LINK_TYPES
  <1>4. n >= 1 => AllControl(disk)
    BY DEF PassesGood
  <1>5. ASSUME x.whole, NEW c \in CANONICAL_WIKI_FILES, v[c] = None
        PROVE  Restores(y.todo, c)
    <2>1. disk[c] = None
      BY <1>2, <1>5
    <2>2. PICK z \in x.todo : z.type = "missing_canonical_file" /\ z.key = c
      BY <1>5, <2>1 DEF PassOf, Restores
    <2>3. z.key # e.key
      <3>1. CASE e.type = "missing_canonical_file"
        BY <1>2, <1>5, <2>2, <3>1
      <3>2. CASE e.type \in LINK_TYPES
        BY <1>1, <1>5, <2>2, <3>2, WikiAssumption DEF LowRiskGood
      <3> QED BY <1>3, <3>1, <3>2
    <2> QED BY <2>2, <2>3 DEF Restores
  <1>6. ASSUME n >= 1
        PROVE  /\ \A z \in y.todo : z.type # "missing_canonical_file"
               /\ e.type \in LINK_TYPES
    BY <1>3, <1>6 DEF PassOf
  <1>7. ASSUME x.whole, n >= 1, NEW m \in Notes, v[m] # None
        PROVE  v[m].key \in IndexedPageKeys(v) \/ WillList(y.todo, v[m].key)
    <2>1. v[m] = disk[m] /\ Onward(disk, v) /\ e.key \in IndexedPageKeys(v)
      BY <1>2, <1>6, <1>7
    <2>2. IndexedPageKeys(disk) \subseteq IndexedPageKeys(v)
      BY <1>4, <1>7, <2>1 DEF Onward, AllControl, CANONICAL_WIKI_FILES
    <2>3. CASE disk[m].key \in IndexedPageKeys(disk)
      BY <2>1, <2>2, <2>3
    <2>4. CASE disk[m].key = e.key
      BY <2>1, <2>4
    <2>5. CASE WillList(x.todo, disk[m].key) /\ disk[m].key # e.key
      <3>1. PICK z \in x.todo : z.type \in LINK_TYPES /\ z.key = disk[m].key
        BY <2>5 DEF WillList
      <3>2. z \in y.todo
        BY <2>5, <3>1
      <3> QED BY <2>1, <3>1, <3>2 DEF WillList
    <2> QED BY <1>7, <2>1, <2>3, <2>4, <2>5 DEF PassOf
  <1>8. PassOf(v, y, n)
    <2>1. n >= 1 => \A z \in y.todo : z.type # "missing_canonical_file"
      BY <1>6
    <2>2. y.whole /\ y.safe => \A c \in CANONICAL_WIKI_FILES : v[c] # None \/ Restores(y.todo, c)
      BY <1>5
    <2>3. y.whole /\ y.safe /\ n >= 1 =>
            \A m \in Notes : v[m] # None => v[m].key \in IndexedPageKeys(v) \/ WillList(y.todo, v[m].key)
      BY <1>7
    <2> QED BY <2>1, <2>2, <2>3 DEF PassOf
  <1>9. PassesGood(v, n)
    <2>1. CASE n = 0
      BY <2>1 DEF PassesGood
    <2>2. CASE n >= 1
      <3>1. Onward(disk, v)
        BY <1>2, <1>6, <2>2
      <3> QED BY <3>1, OnwardKeeps
    <2> QED BY <2>1, <2>2
  <1> QED BY <1>8, <1>9

-----------------------------------------------------------------------------
(* The steps. *)

\* The invariant holds initially.
LEMMA InitIInv == Init => IInv
  <1> SUFFICES ASSUME Init PROVE IInv
    OBVIOUS
  <1>1. PICK missing \in {{}, {"index.md", "log.md"}}, note \in StartNotes :
          disk = [p \in Paths |-> IF p \in Notes THEN note[p] ELSE IF p \in missing THEN None
                                  ELSE DEFAULT_CANONICAL_CONTENT[p]]
    BY DEF Init
  <1>2. note \in [Notes -> NotePage \cup {None}]
    BY WikiAssumption
  <1>3. \A n \in Notes : n \in Paths /\ disk[n] = note[n]
    BY <1>1 DEF Paths
  <1>4. DiskOK(disk)
    <2>1. \A p \in Paths : disk[p] \in ParsedWikiPage \cup {None}
      BY <1>1, <1>2, DefaultPage DEF Paths, NotePage
    <2> QED BY <1>1, <2>1 DEF DiskOK
  <1>5. NotesNamed(disk)
    BY <1>2, <1>3 DEF NotesNamed, NotePage
  <1>6. db \in Tables /\ Good(db)
    <2>1. db = [pages |-> [k \in Keys |-> None], sources |-> {}, links |-> {}, errors |-> {}]
      BY DEF Init, NoTables
    <2> QED BY <2>1 DEF Tables, Good, LinksGood, SourcesGood
  <1>7. TypeOK
    <2>1. fixes = {} /\ tx = None /\ comp = None /\ mixed = FALSE /\ ops = 0 /\ passes = 0
      BY DEF Init
    <2>2. ops \in 0 .. OpBound /\ passes \in 0 .. 2
      BY <2>1, WikiAssumption
    <2>3. mixed \in BOOLEAN /\ fixes \subseteq Fix
      BY <2>1
    <2>4. tx \in RepairSession \cup ApplySession \cup {None} /\ comp \in CompileSession \cup {None}
      BY <2>1
    <2> QED BY <1>4, <1>6, <2>2, <2>3, <2>4 DEF TypeOK, DiskOK
  <1>8. FilesInv(disk, fixes, tx, passes)
    BY <1>5 DEF Init, FilesInv, FixesNamed, PassesGood, Repairing
  <1>9. TablesInv(db, mixed, tx, comp)
    BY <1>6 DEF Init, TablesInv, MineGood, BaseGood
  <1> QED BY <1>7, <1>8, <1>9 DEF IInv

\* What the invariant says of the files and of the session that writes them.
LEMMA Has ==
  ASSUME IInv
  PROVE  /\ DiskOK(disk) /\ NotesNamed(disk) /\ fixes \subseteq Fix /\ FixesNamed(fixes)
         /\ passes \in 0 .. 2 /\ PassesGood(disk, passes)
         /\ Repairing(tx) => tx \in RepairSession /\ PassGood(tx, disk, passes)
         /\ db \in Tables /\ (~mixed => Good(db)) /\ mixed \in BOOLEAN
         /\ MineGood(tx) /\ BaseGood(comp)
  BY DEF IInv, TypeOK, FilesInv, TablesInv, DiskOK, Repairing, ApplySession

\* The sessions of each kind.
LEMMA KindOf ==
  ASSUME IInv, tx # None
  PROVE  /\ tx.kind = "repair" => tx \in RepairSession /\ Repairing(tx)
         /\ tx.kind = "apply" => tx \in ApplySession /\ ~Repairing(tx)
         /\ tx.since \in Since /\ tx.base \in Tables /\ tx.mine \in Tables /\ tx.mixed \in BOOLEAN
         /\ tx.kind \in {"repair", "apply"}
  BY DEF IInv, TypeOK, RepairSession, ApplySession, Repairing

\* Counted operations stay within their bound.
LEMMA CountGood ==
  ASSUME IInv, NEW n \in 0 .. 2, Count(n)
  PROVE  ops' \in 0 .. OpBound
  BY WikiAssumption DEF IInv, TypeOK, Count

\* So do those of a session that begins.
LEMMA BeginsGood ==
  ASSUME IInv, NEW x, NEW n \in 0 .. 1, Begins(x, n)
  PROVE  ops' \in 0 .. OpBound
  <1>1. CASE x = None
    BY <1>1, CountGood DEF Begins
  <1>2. CASE x # None
    <2>1. n + 1 \in 0 .. 2 /\ Count(n + 1)
      BY <1>2 DEF Begins
    <2> QED BY <2>1, CountGood
  <1> QED BY <1>1, <1>2

\* A file changed, the passes start anew, and a repair that runs is not whole
\* any more.
LEMMA DiskChanged ==
  ASSUME IInv, DiskOK(disk'), NotesNamed(disk'), passes' = 0, ops' \in 0 .. OpBound,
         tx' = (IF tx # None /\ tx.kind = "repair" THEN [tx EXCEPT !.whole = FALSE] ELSE tx),
         UNCHANGED <<db, fixes, comp, mixed>>
  PROVE  IInv'
  <1>1. PassesGood(disk', passes')
    BY DEF PassesGood
  <1>2. CASE Repairing(tx)
    <2>1. tx \in RepairSession /\ PassGood(tx, disk, passes)
      BY <1>2, Has
    <2>2. tx' = [tx EXCEPT !.whole = FALSE]
      BY <1>2 DEF Repairing
    <2>3. /\ tx' \in RepairSession /\ tx'.todo = tx.todo /\ tx'.fixes = tx.fixes /\ ~tx'.whole
          /\ tx'.since = tx.since /\ tx'.mixed = tx.mixed /\ tx'.mine = tx.mine
      BY <2>1, <2>2 DEF RepairSession
    <2>4. PassGood(tx', disk', passes')
      BY <2>1, <2>3 DEF PassGood, PassOf
    <2>5. MineGood(tx')
      <3>1. MineGood(tx) /\ tx # None
        BY <1>2, Has DEF Repairing
      <3> QED BY <2>3, <3>1 DEF MineGood
    <2>6. TypeOK'
      BY <2>3 DEF IInv, TypeOK, DiskOK
    <2>7. FilesInv(disk, fixes, tx, passes)'
      BY <1>1, <2>4, Has DEF FilesInv
    <2>8. TablesInv(db, mixed, tx, comp)'
      BY <2>5 DEF IInv, TablesInv
    <2> QED BY <2>6, <2>7, <2>8 DEF IInv
  <1>3. CASE ~Repairing(tx)
    <2>1. tx' = tx
      BY <1>3 DEF Repairing
    <2>2. TypeOK'
      <3>1. tx' \in RepairSession \cup ApplySession \cup {None}
        BY <2>1 DEF IInv, TypeOK
      <3> QED BY <3>1 DEF IInv, TypeOK, DiskOK
    <2>3. FilesInv(disk, fixes, tx, passes)'
      BY <1>1, <1>3, <2>1, Has DEF FilesInv
    <2>4. TablesInv(db, mixed, tx, comp)'
      BY <2>1 DEF IInv, TablesInv
    <2> QED BY <2>2, <2>3, <2>4 DEF IInv
  <1> QED BY <1>2, <1>3

\* A person writes or removes a file.
LEMMA EditIInv == IInv /\ Edit => IInv'
  <1> SUFFICES ASSUME IInv, Edit PROVE IInv'
    OBVIOUS
  <1>1. DiskOK(disk) /\ NotesNamed(disk)
    BY Has
  <1>2. "index.md" \in Paths /\ "index.md" \notin Notes /\ Notes \subseteq Paths
    BY WikiAssumption DEF Paths, CANONICAL_WIKI_FILES
  <1>3. ASSUME NEW p \in Paths, NEW c \in ParsedWikiPage \cup {None}, disk' = [disk EXCEPT ![p] = c],
               p \in Notes /\ c # None => c.key \in Names
        PROVE  DiskOK(disk') /\ NotesNamed(disk')
    <2>1. \A q \in Paths : disk'[q] = IF q = p THEN c ELSE disk[q]
      BY <1>1, <1>3 DEF DiskOK
    <2>2. DiskOK(disk')
      BY <1>1, <1>3 DEF DiskOK
    <2> QED BY <1>1, <1>2, <1>3, <2>1, <2>2 DEF NotesNamed
  <1>4. ASSUME NEW n \in Notes, NEW c \in NoteContents \cup {None}, disk' = [disk EXCEPT ![n] = c]
        PROVE  DiskOK(disk') /\ NotesNamed(disk')
    <2>1. c \in ParsedWikiPage \cup {None} /\ (c # None => c.key \in Names) /\ n \in Paths
      BY <1>2, WikiAssumption DEF NotePage
    <2> QED BY <1>3, <1>4, <2>1
  <1>5. ASSUME disk' = [disk EXCEPT !["index.md"] = None]
        PROVE  DiskOK(disk') /\ NotesNamed(disk')
    BY <1>2, <1>3, <1>5
  <1>6. ASSUME disk["index.md"] # None,
               \/ \E ok \in BOOLEAN : disk' = [disk EXCEPT !["index.md"].parses = ok]
               \/ disk' = [disk EXCEPT !["index.md"].links = {}]
        PROVE  DiskOK(disk') /\ NotesNamed(disk')
    <2>1. disk["index.md"] \in ParsedWikiPage
      BY <1>1, <1>2, <1>6 DEF DiskOK
    <2>2. CASE \E ok \in BOOLEAN : disk' = [disk EXCEPT !["index.md"].parses = ok]
      <3>1. PICK ok \in BOOLEAN : disk' = [disk EXCEPT !["index.md"].parses = ok]
        BY <2>2
      <3> DEFINE c == [disk["index.md"] EXCEPT !.parses = ok]
      <3>2. c \in ParsedWikiPage
        BY <2>1 DEF ParsedWikiPage
      <3>3. disk' = [disk EXCEPT !["index.md"] = c]
        BY <1>1, <1>2, <3>1 DEF DiskOK
      <3> HIDE DEF c
      <3> QED BY <1>2, <1>3, <3>2, <3>3
    <2>3. CASE disk' = [disk EXCEPT !["index.md"].links = {}]
      <3> DEFINE c == [disk["index.md"] EXCEPT !.links = {}]
      <3>1. c \in ParsedWikiPage
        BY <2>1 DEF ParsedWikiPage
      <3>2. disk' = [disk EXCEPT !["index.md"] = c]
        BY <1>1, <1>2, <2>3 DEF DiskOK
      <3> HIDE DEF c
      <3> QED BY <1>2, <1>3, <3>1, <3>2
    <2> QED BY <1>6, <2>2, <2>3
  <1>7. DiskOK(disk') /\ NotesNamed(disk')
    BY <1>4, <1>5, <1>6 DEF Edit
  <1>8. ops' \in 0 .. OpBound
    BY CountGood DEF Edit
  <1> QED BY <1>7, <1>8, DiskChanged DEF Edit

\* A lint.
LEMMA LintIInv == IInv /\ LintRun => IInv'
  <1> SUFFICES ASSUME IInv, LintRun PROVE IInv'
    OBVIOUS
  <1>1. LintErrors(disk) \subseteq WikiErrorBook
    BY Has, LintErrorsGood
  <1>2. db' \in Tables /\ (~mixed => Good(db'))
    BY <1>1, Has, WithLintGood DEF LintRun
  <1>3. UNCHANGED <<disk, fixes, tx, comp, mixed, ops, passes>>
    BY DEF LintRun
  <1>4. TypeOK'
    BY <1>2, <1>3 DEF IInv, TypeOK
  <1>5. FilesInv(disk, fixes, tx, passes)'
    BY <1>3 DEF IInv
  <1>6. TablesInv(db, mixed, tx, comp)'
    BY <1>2, <1>3 DEF IInv, TablesInv
  <1> QED BY <1>4, <1>5, <1>6 DEF IInv

-----------------------------------------------------------------------------
(* The steps of a compile. *)

\* Only the compile's own state changes.
LEMMA CompChanged ==
  ASSUME IInv, comp' \in CompileSession \cup {None}, BaseGood(comp'), ops' \in 0 .. OpBound,
         UNCHANGED <<disk, db, fixes, tx, mixed, passes>>
  PROVE  IInv'
  <1>1. TypeOK'
    BY DEF IInv, TypeOK
  <1>2. FilesInv(disk, fixes, tx, passes)'
    BY DEF IInv
  <1>3. TablesInv(db, mixed, tx, comp)'
    BY DEF IInv, TablesInv
  <1> QED BY <1>1, <1>2, <1>3 DEF IInv

\* A compile begins.
LEMMA CompileBeginIInv == IInv /\ CompileBegin => IInv'
  <1> SUFFICES ASSUME IInv, CompileBegin PROVE IInv'
    OBVIOUS
  <1>1. comp' = [files |-> disk, base |-> WithLint(db, {}), since |-> "alone", mixed |-> mixed]
    BY DEF CompileBegin
  <1>2. WithLint(db, {}) \in Tables /\ (~mixed => Good(WithLint(db, {})))
    BY Has, WithLintGood
  <1>3. comp' \in CompileSession
    BY <1>1, <1>2, Has DEF CompileSession, Since, DiskOK
  <1>4. BaseGood(comp')
    BY <1>1, <1>2 DEF BaseGood
  <1>5. ops' \in 0 .. OpBound
    BY BeginsGood DEF CompileBegin
  <1> QED BY <1>3, <1>4, <1>5, CompChanged DEF CompileBegin

\* It loads its rows after another session's commit.
LEMMA CompileLoadIInv == IInv /\ CompileLoad => IInv'
  <1> SUFFICES ASSUME IInv, CompileLoad PROVE IInv'
    OBVIOUS
  <1>1. comp \in CompileSession /\ comp' = [comp EXCEPT !.base = WithLint(db, {}), !.since = "seen"]
    BY DEF IInv, TypeOK, CompileLoad
  <1>2. WithLint(db, {}) \in Tables
    BY Has, WithLintGood
  <1>3. comp' \in CompileSession /\ comp'.since = "seen"
    BY <1>1, <1>2 DEF CompileSession, Since
  <1>4. BaseGood(comp')
    BY <1>3 DEF BaseGood
  <1>5. ops' \in 0 .. OpBound
    BY DEF CompileLoad, IInv, TypeOK
  <1> QED BY <1>3, <1>4, <1>5, CompChanged DEF CompileLoad

\* The other session is overtaken by a commit.
LEMMA TxOvertaken ==
  ASSUME IInv, tx' = Overtaken(tx)
  PROVE  /\ tx' \in RepairSession \cup ApplySession \cup {None}
         /\ MineGood(tx')
         /\ Repairing(tx') => PassGood(tx', disk, passes)
  <1>1. CASE tx = None
    BY <1>1 DEF Overtaken, MineGood, Repairing
  <1>2. CASE tx # None /\ tx.kind = "repair"
    <2>1. tx \in RepairSession /\ Repairing(tx)
      BY <1>2, KindOf
    <2>2. PassGood(tx, disk, passes)
      BY <2>1, Has
    <2>3. PassGood(tx', disk, passes)
      BY <2>1, <2>2, OvertakenRepair DEF PassGood, PassOf
    <2>4. tx' \in RepairSession
      BY <2>1, OvertakenRepair
    <2>5. MineGood(tx')
      BY <2>1, OvertakenRepair DEF MineGood
    <2> QED BY <2>3, <2>4, <2>5
  <1>3. CASE tx # None /\ tx.kind = "apply"
    <2>1. tx \in ApplySession
      BY <1>3, KindOf
    <2>2. tx' \in ApplySession
      BY <2>1, OvertakenApply
    <2>3. MineGood(tx')
      BY <2>1, OvertakenApply DEF MineGood
    <2>4. ~Repairing(tx')
      BY <2>2 DEF Repairing, ApplySession
    <2> QED BY <2>2, <2>3, <2>4
  <1> QED BY <1>1, <1>2, <1>3, KindOf

\* A compile commits.
LEMMA CompileCommitIInv == IInv /\ CompileCommit => IInv'
  <1> SUFFICES ASSUME IInv, CompileCommit PROVE IInv'
    OBVIOUS
  <1> DEFINE mine == Compile(comp.base, comp.files)
             clean == CompileErrors(comp.files, Compiled(comp.files)) = {}
  <1>1. /\ db' = WithLint(View(comp, mine), LintOf(db))
        /\ mixed' = (comp.since # "alone" \/ MixedAfter(comp.mixed, comp.files))
        /\ comp' = None /\ tx' = Overtaken(tx) /\ UNCHANGED <<disk, fixes, ops, passes>>
    BY DEF CompileCommit
  <1>2. /\ comp \in CompileSession /\ comp # None /\ comp.since \in Since /\ comp.base \in Tables
        /\ comp.mixed \in BOOLEAN /\ DiskOK(comp.files)
    BY DEF IInv, TypeOK, CompileCommit, CompileSession, DiskOK
  <1>3. mine \in Tables /\ (Good(comp.base) \/ clean => Good(mine))
    BY <1>2, CompileGood
  <1>4. LintOf(db) \subseteq WikiErrorBook /\ db \in Tables /\ (~mixed => Good(db))
    BY Has, LintOfErrors
  <1>5. View(comp, mine) \in Tables
    <2>1. CASE comp.since = "alone"
      BY <1>3, <2>1 DEF View
    <2>2. CASE comp.since # "alone"
      BY <1>2, <1>3, <1>4, <2>2, ViewGood
    <2> QED BY <2>1, <2>2
  <1>6. ASSUME ~mixed' PROVE Good(View(comp, mine))
    <2>1. comp.since = "alone" /\ ~MixedAfter(comp.mixed, comp.files)
      BY <1>1, <1>6
    <2>2. Good(comp.base) \/ clean
      BY <1>2, <2>1, Has DEF MixedAfter, BaseGood
    <2>3. View(comp, mine) = mine
      BY <2>1 DEF View
    <2> QED BY <1>3, <2>2, <2>3
  <1> HIDE DEF mine, clean
  <1>7. db' \in Tables /\ (~mixed' => Good(db'))
    BY <1>1, <1>4, <1>5, <1>6, WithLintGood
  <1>8. /\ tx' \in RepairSession \cup ApplySession \cup {None}
        /\ MineGood(tx') /\ (Repairing(tx') => PassGood(tx', disk, passes))
    BY <1>1, TxOvertaken
  <1>9. mixed' \in BOOLEAN
    BY <1>1
  <1>10. TypeOK'
    BY <1>1, <1>7, <1>8, <1>9 DEF IInv, TypeOK
  <1>11. FilesInv(disk, fixes, tx, passes)'
    BY <1>1, <1>8, Has DEF FilesInv
  <1>12. TablesInv(db, mixed, tx, comp)'
    BY <1>1, <1>7, <1>8 DEF TablesInv, BaseGood
  <1> QED BY <1>10, <1>11, <1>12 DEF IInv

-----------------------------------------------------------------------------
(* The steps of a repair. *)

\* The pass that a repair has ahead of it when it begins.
LEMMA BeginPass ==
  ASSUME NEW d, DiskOK(d), NotesNamed(d), Scannable(d), NEW n \in 0 .. 2, PassesGood(d, n), NEW x,
         NEW E, LintErrors(d) \subseteq E, \A e \in E : e.type \in LINT_TYPES => e \in LintErrors(d),
         NEW read, read \subseteq E, x.whole => read = E,
         x.todo = {e \in read : e.type \in LOW_RISK_REPAIR_TYPES}
  PROVE  TodoGood(x.todo) /\ PassOf(d, x, n)
  <1>1. \A e \in x.todo : e \in LintErrors(d) /\ e.type \in LOW_RISK_REPAIR_TYPES
    BY DEF LINT_TYPES
  <1>2. TodoGood(x.todo)
    BY <1>1, LintErrorsGood DEF TodoGood
  <1>3. ASSUME x.whole, NEW c \in CANONICAL_WIKI_FILES, d[c] = None
        PROVE  Restores(x.todo, c)
    <2> DEFINE e == [type |-> "missing_canonical_file", key |-> c, about |-> None]
    <2>1. e \in LintErrors(d)
      BY <1>3 DEF LintErrors, MarkdownPaths
    <2>2. e.type = "missing_canonical_file" /\ e.key = c
      OBVIOUS
    <2> HIDE DEF e
    <2>3. e \in x.todo
      BY <1>3, <2>1, <2>2 DEF LOW_RISK_REPAIR_TYPES
    <2> QED BY <2>2, <2>3 DEF Restores
  <1>4. ASSUME n >= 1, NEW e \in x.todo, e.type = "missing_canonical_file"
        PROVE  FALSE
    <2>1. e \in LintErrors(d)
      BY <1>1
    <2>2. PICK c \in CANONICAL_WIKI_FILES \ MarkdownPaths(d) : TRUE
      BY <1>4, <2>1 DEF LintErrors, BrokenLinks, OnNotes, QualityErrors
    <2>3. d[c] = None
      BY <2>2 DEF MarkdownPaths, Paths
    <2> QED BY <1>4, <2>2, <2>3 DEF PassesGood, AllControl
  <1>5. ASSUME x.whole, NEW m \in Notes, d[m] # None, d[m].key \notin IndexedPageKeys(d)
        PROVE  WillList(x.todo, d[m].key)
    <2> DEFINE e == [type |-> "missing_index_entry", key |-> d[m].key, about |-> m]
    <2>1. m \in Parsed(d)
      BY <1>5 DEF Scannable, MarkdownPaths, Paths
    <2>2. e \in LintErrors(d)
      BY <1>5, <2>1 DEF LintErrors, OnNotes
    <2>3. e.type = "missing_index_entry" /\ e.key = d[m].key
      OBVIOUS
    <2> HIDE DEF e
    <2>4. e \in x.todo
      BY <1>5, <2>2, <2>3 DEF LOW_RISK_REPAIR_TYPES
    <2> QED BY <2>3, <2>4 DEF WillList, LINK_TYPES
  <1>6. PassOf(d, x, n)
    BY <1>3, <1>4, <1>5 DEF PassOf
  <1> QED BY <1>2, <1>6

\* The tables of a session that has not compiled.
LEMMA NoTablesTyped == NoTables \in Tables
  BY DEF NoTables, Tables

\* A session begins: it has not compiled.
LEMMA TxBegins ==
  ASSUME IInv, NEW d, DiskOK(d), NotesNamed(d), disk' = d, PassesGood(d, passes'), passes' \in 0 .. 2,
         tx' \in RepairSession \cup ApplySession, tx'.since = "idle",
         Repairing(tx') => PassGood(tx', d, passes'),
         ops' \in 0 .. OpBound, UNCHANGED <<db, fixes, comp, mixed>>
  PROVE  IInv'
  <1>1. TypeOK'
    BY DEF IInv, TypeOK, DiskOK
  <1>2. FilesInv(disk, fixes, tx, passes)'
    BY Has DEF FilesInv
  <1>3. TablesInv(db, mixed, tx, comp)'
    BY DEF IInv, TablesInv, MineGood
  <1> QED BY <1>1, <1>2, <1>3 DEF IInv

\* A repair begins.
LEMMA BeginIInv ==
  ASSUME IInv, NEW safe \in BOOLEAN, NEW n \in 0 .. 1, RepairBegin(safe, n)
  PROVE  IInv'
  <1> DEFINE lint == LintErrors(disk)
             E == Reopen(db.errors, LINT_TYPES, lint)
  <1>1. PICK read \in ErrorBook(E, RepairLimit) :
          tx' = [kind |-> "repair", safe |-> safe, whole |-> (read = E), fixes |-> fixes,
                 todo |-> {e \in read : e.type \in LOW_RISK_REPAIR_TYPES}, lint |-> lint,
                 base |-> NoTables, mine |-> NoTables, since |-> "idle", mixed |-> FALSE]
    BY DEF RepairBegin
  <1>2. /\ DiskOK(disk) /\ NotesNamed(disk) /\ Scannable(disk) /\ db \in Tables
        /\ passes \in 0 .. 2 /\ PassesGood(disk, passes) /\ fixes \subseteq Fix /\ FixesNamed(fixes)
    BY Has DEF RepairBegin
  <1>3. \A e \in lint : e \in WikiErrorBook /\ e.type \in LINT_TYPES
    BY <1>2, LintErrorsGood
  <1>4. /\ lint \subseteq E /\ E \subseteq WikiErrorBook
        /\ \A e \in E : e.type \in LINT_TYPES => e \in lint
    BY <1>2, <1>3 DEF Reopen, Tables
  <1>5. read \subseteq E
    BY DEF ErrorBook
  <1>6. /\ tx'.kind = "repair" /\ tx'.whole = (read = E) /\ tx'.fixes = fixes /\ tx'.since = "idle"
        /\ tx'.todo = {e \in read : e.type \in LOW_RISK_REPAIR_TYPES}
    BY <1>1
  <1> HIDE DEF E
  <1>7. TodoGood(tx'.todo) /\ PassOf(disk, tx', passes)
    BY <1>2, <1>4, <1>5, <1>6, BeginPass
  <1>8. PassGood(tx', disk, passes)
    BY <1>2, <1>6, <1>7 DEF PassGood
  <1> HIDE DEF lint
  <1>9. tx' \in RepairSession
    <2>1. {e \in read : e.type \in LOW_RISK_REPAIR_TYPES} \subseteq WikiErrorBook /\ lint \subseteq WikiErrorBook
      BY <1>4, <1>5
    <2>2. (read = E) \in BOOLEAN
      OBVIOUS
    <2> QED BY <1>1, <1>2, <2>1, <2>2, NoTablesTyped DEF RepairSession, Since
  <1>10. ops' \in 0 .. OpBound
    BY BeginsGood DEF RepairBegin
  <1>11. UNCHANGED <<disk, db, fixes, comp, mixed, passes>>
    BY DEF RepairBegin
  <1> QED BY <1>2, <1>6, <1>8, <1>9, <1>10, <1>11, TxBegins

\* A step of a session that commits nothing.
LEMMA TxSteps ==
  ASSUME IInv, DiskOK(disk'), NotesNamed(disk'), PassesGood(disk', passes),
         tx' \in RepairSession \cup ApplySession \cup {None}, MineGood(tx'),
         Repairing(tx') => PassGood(tx', disk', passes),
         UNCHANGED <<db, fixes, comp, mixed, ops, passes>>
  PROVE  IInv'
  <1>1. TypeOK'
    BY DEF IInv, TypeOK, DiskOK
  <1>2. FilesInv(disk, fixes, tx, passes)'
    BY Has DEF FilesInv
  <1>3. TablesInv(db, mixed, tx, comp)'
    BY DEF IInv, TablesInv
  <1> QED BY <1>1, <1>2, <1>3 DEF IInv

\* A repair proposes what it could do.
LEMMA ProposeIInv ==
  ASSUME IInv, Repairing(tx), NEW e \in tx.todo, RepairPropose(e),
         UNCHANGED <<db, fixes, comp, mixed, ops, passes>>, ~tx.safe
  PROVE  IInv'
  <1> DEFINE todo == Rest(e)
             F == tx.fixes \cup {LowRiskRepairProposal(e)}
  <1>1. /\ DiskOK(disk) /\ NotesNamed(disk) /\ passes \in 0 .. 2 /\ PassesGood(disk, passes)
        /\ tx \in RepairSession /\ PassGood(tx, disk, passes) /\ MineGood(tx)
    BY Has
  <1>2. TodoGood(tx.todo) /\ FixesNamed(tx.fixes) /\ PassOf(disk, tx, passes)
    BY <1>1 DEF PassGood
  <1>3. e.type \in LOW_RISK_REPAIR_TYPES /\ LowRiskGood(e)
    BY <1>2 DEF TodoGood
  <1>4. /\ LowRiskRepairProposal(e) \in Fix
        /\ LowRiskRepairProposal(e).path \in CANONICAL_WIKI_FILES
    BY <1>1, <1>3, ProposalGood
  <1>5. tx.fixes \subseteq Fix /\ tx.todo \subseteq WikiErrorBook
    BY <1>1 DEF RepairSession
  <1>6. F \subseteq Fix /\ FixesNamed(F)
    BY <1>2, <1>4, <1>5, WikiAssumption DEF FixesNamed
  <1>7. todo \subseteq tx.todo
    BY DEF Rest
  <1>8. tx' = [tx EXCEPT !.todo = todo, !.fixes = F] /\ disk' = disk
    BY DEF RepairPropose
  <1> HIDE DEF todo, F
  <1>9. /\ tx' \in RepairSession /\ tx'.todo = todo /\ tx'.fixes = F /\ tx'.safe = tx.safe
        /\ tx'.since = tx.since /\ tx'.mixed = tx.mixed /\ tx'.mine = tx.mine
    BY <1>1, <1>5, <1>6, <1>7, <1>8 DEF RepairSession
  <1>10. MineGood(tx')
    BY <1>1, <1>9 DEF MineGood, Repairing
  <1>11. PassGood(tx', disk', passes)
    <2>1. TodoGood(tx'.todo)
      BY <1>2, <1>7, <1>9 DEF TodoGood
    <2>2. PassOf(disk', tx', passes)
      BY <1>2, <1>7, <1>8, <1>9 DEF PassOf
    <2> QED BY <1>6, <1>9, <2>1, <2>2 DEF PassGood
  <1> QED BY <1>1, <1>8, <1>9, <1>10, <1>11, TxSteps

\* A repair applies a safe repair and compiles.
LEMMA SafeIInv ==
  ASSUME IInv, Repairing(tx), NEW e \in tx.todo, RepairSafe(e),
         UNCHANGED <<db, fixes, comp, mixed, ops, passes>>, tx.safe
  PROVE  IInv'
  <1> DEFINE d == Written(disk, LowRiskRepairProposal(e))
             mine == WithLint(Compile(View(tx, tx.mine), d), {})
             base == WithLint(db, {})
             mx == MixedAfter(MixedTo(tx), d)
             todo == Rest(e)
             lint == tx.lint \ {e}
  <1>1. /\ DiskOK(disk) /\ NotesNamed(disk) /\ passes \in 0 .. 2 /\ PassesGood(disk, passes)
        /\ tx \in RepairSession /\ PassGood(tx, disk, passes) /\ MineGood(tx)
        /\ db \in Tables /\ (~mixed => Good(db)) /\ mixed \in BOOLEAN
    BY Has
  <1>2. TodoGood(tx.todo) /\ FixesNamed(tx.fixes) /\ PassOf(disk, tx, passes)
    BY <1>1 DEF PassGood
  <1>3. e.type \in LOW_RISK_REPAIR_TYPES /\ LowRiskGood(e)
    BY <1>2 DEF TodoGood
  <1>4. DiskOK(d) /\ NotesNamed(d)
    BY <1>1, <1>3, SafeWrite
  <1>5. /\ tx.since \in Since /\ tx.base \in Tables /\ tx.mine \in Tables /\ tx.mixed \in BOOLEAN
        /\ tx.fixes \subseteq Fix /\ tx.todo \subseteq WikiErrorBook /\ tx.lint \subseteq WikiErrorBook
    BY <1>1 DEF RepairSession
  <1>6. mine \in Tables /\ (~mx => Good(mine))
    <2>1. tx.since = "alone" /\ ~tx.mixed => Good(tx.mine)
      BY <1>1 DEF MineGood, Repairing
    <2> HIDE DEF d
    <2> QED BY <1>1, <1>4, <1>5, <2>1, CompilingGood
  <1>7. base \in Tables
    BY <1>1, WithLintGood
  <1>8. mx \in BOOLEAN
    BY DEF MixedAfter
  <1>9. /\ todo \subseteq tx.todo /\ lint \subseteq tx.lint
        /\ \A z \in tx.todo : z.key # e.key => z \in todo
    BY DEF Rest
  <1>10. /\ disk' = d
         /\ tx' = [Compiling(tx, d) EXCEPT !.todo = Rest(e), !.lint = @ \ {e}]
    BY DEF RepairSafe
  <1>11. Compiling(tx, d) = [tx EXCEPT !.base = base, !.since = "alone", !.mine = mine, !.mixed = mx]
    BY DEF Compiling
  <1> HIDE DEF d, mine, base, mx
  <1>12. tx' = [tx EXCEPT !.base = base, !.since = "alone", !.mine = mine, !.mixed = mx,
                          !.todo = todo, !.lint = lint]
    BY <1>1, <1>10, <1>11 DEF RepairSession
  <1> HIDE DEF todo, lint
  <1>13. /\ tx' \in RepairSession /\ tx'.todo = todo /\ tx'.fixes = tx.fixes
         /\ tx'.whole = tx.whole /\ tx'.safe = tx.safe
         /\ tx'.since = "alone" /\ tx'.mixed = mx /\ tx'.mine = mine
    BY <1>1, <1>5, <1>6, <1>7, <1>8, <1>9, <1>12 DEF RepairSession, Since
  <1>14. MineGood(tx')
    BY <1>6, <1>13 DEF MineGood
  <1>15. PassOf(d, tx', passes) /\ PassesGood(d, passes)
    <2>1. d = Written(disk, LowRiskRepairProposal(e))
      BY DEF d
    <2> QED BY <1>1, <1>2, <1>9, <1>13, <2>1, SafePass
  <1>16. PassGood(tx', disk', passes)
    <2>1. TodoGood(tx'.todo)
      BY <1>2, <1>9, <1>13 DEF TodoGood
    <2> QED BY <1>2, <1>10, <1>13, <1>15, <2>1 DEF PassGood
  <1> QED BY <1>4, <1>10, <1>13, <1>14, <1>15, <1>16, TxSteps

\* A step of the pass.
LEMMA RepairStepIInv == IInv /\ RepairStep => IInv'
  <1> SUFFICES ASSUME IInv, RepairStep PROVE IInv'
    OBVIOUS
  <1>1. Repairing(tx) /\ UNCHANGED <<db, fixes, comp, mixed, ops, passes>>
    BY DEF RepairStep, Repairing
  <1>2. PICK e \in tx.todo : IF tx.safe THEN RepairSafe(e) ELSE RepairPropose(e)
    BY DEF RepairStep
  <1>3. CASE tx.safe
    BY <1>1, <1>2, <1>3, SafeIInv
  <1>4. CASE ~tx.safe
    BY <1>1, <1>2, <1>4, ProposeIInv
  <1> QED BY <1>3, <1>4

\* A session commits: its tables are what it sees.
LEMMA TxCommits ==
  ASSUME IInv, tx # None, NEW L, L \subseteq WikiErrorBook, db' = WithLint(View(tx, tx.mine), L),
         mixed' = MixedTo(tx), tx' = None, comp' = comp \/ comp' = Overtaken(comp),
         fixes' \subseteq Fix, FixesNamed(fixes'), passes' \in 0 .. 2, PassesGood(disk, passes'),
         UNCHANGED <<disk, ops>>
  PROVE  IInv'
  <1>1. /\ tx.since \in Since /\ tx.base \in Tables /\ tx.mine \in Tables /\ tx.mixed \in BOOLEAN
        /\ tx.since = "alone" /\ ~tx.mixed => Good(tx.mine)
    BY KindOf, Has DEF MineGood
  <1>2. db \in Tables /\ (~mixed => Good(db)) /\ mixed \in BOOLEAN /\ BaseGood(comp) /\ NotesNamed(disk)
    BY Has
  <1>3. db' \in Tables /\ (~mixed' => Good(db'))
    BY <1>1, <1>2, CommitGood
  <1>4. mixed' \in BOOLEAN
    BY <1>1, <1>2 DEF MixedTo, Since
  <1>5. comp' \in CompileSession \cup {None} /\ BaseGood(comp')
    <2>1. comp \in CompileSession \cup {None}
      BY DEF IInv, TypeOK
    <2>2. CASE comp' = comp
      BY <1>2, <2>1, <2>2
    <2>3. CASE comp' = Overtaken(comp)
      BY <1>2, <2>1, <2>3, OvertakenCompile DEF BaseGood
    <2> QED BY <2>2, <2>3
  <1>6. TypeOK'
    BY <1>3, <1>4, <1>5 DEF IInv, TypeOK
  <1>7. FilesInv(disk, fixes, tx, passes)'
    BY <1>2 DEF FilesInv, Repairing
  <1>8. TablesInv(db, mixed, tx, comp)'
    BY <1>3, <1>5 DEF TablesInv, MineGood
  <1> QED BY <1>6, <1>7, <1>8 DEF IInv

\* The committed repair: with nothing left to do, the pass has kept its word.
LEMMA CommitIInv == IInv /\ RepairCommit => IInv'
  <1> SUFFICES ASSUME IInv, RepairCommit PROVE IInv'
    OBVIOUS
  <1>1. /\ tx # None /\ tx.todo = {} /\ db' = WithLint(View(tx, tx.mine), tx.lint)
        /\ mixed' = MixedTo(tx) /\ fixes' = tx.fixes /\ tx' = None
        /\ comp' = (IF tx.since = "idle" THEN comp ELSE Overtaken(comp)) /\ UNCHANGED <<disk, ops>>
        /\ passes' = IF tx.safe /\ tx.whole /\ passes < 2 THEN passes + 1 ELSE passes
    BY DEF RepairCommit
  <1>2. Repairing(tx)
    BY DEF RepairCommit, Repairing
  <1>3. /\ tx \in RepairSession /\ PassGood(tx, disk, passes)
        /\ passes \in 0 .. 2 /\ PassesGood(disk, passes)
    BY <1>2, Has
  <1>4. tx.fixes \subseteq Fix /\ tx.lint \subseteq WikiErrorBook /\ FixesNamed(tx.fixes)
    BY <1>3 DEF RepairSession, PassGood
  <1>5. passes' \in 0 .. 2 /\ PassesGood(disk, passes')
    <2>1. CASE tx.safe /\ tx.whole /\ passes < 2
      <3>1. passes' = passes + 1
        BY <1>1, <2>1
      <3>2. PassOf(disk, tx, passes)
        BY <1>3 DEF PassGood
      <3>3. AllControl(disk)
        BY <1>1, <2>1, <3>2 DEF PassOf, Restores, AllControl
      <3>4. passes >= 1 => AllListed(disk)
        BY <1>1, <2>1, <3>2 DEF PassOf, WillList, AllListed
      <3>5. passes' = 2 => passes >= 1
        BY <1>3, <3>1
      <3>6. passes' \in 0 .. 2
        BY <1>3, <2>1, <3>1
      <3> QED BY <3>3, <3>4, <3>5, <3>6 DEF PassesGood
    <2>2. CASE ~(tx.safe /\ tx.whole /\ passes < 2)
      BY <1>1, <1>3, <2>2
    <2> QED BY <2>1, <2>2
  <1>6. comp' = comp \/ comp' = Overtaken(comp)
    BY <1>1
  <1> QED BY <1>1, <1>4, <1>5, <1>6, TxCommits

-----------------------------------------------------------------------------
(* The steps of proposals, and failures. *)

\* A page is proposed.
LEMMA NewProposalIInv == IInv /\ Propose => IInv'
  <1> SUFFICES ASSUME IInv, Propose PROVE IInv'
    OBVIOUS
  <1>1. PICK n \in Notes, c \in NoteContents : fixes' = fixes \cup {[path |-> n, content |-> c]}
    BY DEF Propose
  <1>2. [path |-> n, content |-> c] \in Fix /\ c.key \in Names
    BY WikiAssumption DEF Fix, NotePage, Paths
  <1>3. fixes \subseteq Fix /\ FixesNamed(fixes)
    BY Has
  <1>4. fixes' \subseteq Fix /\ FixesNamed(fixes')
    BY <1>1, <1>2, <1>3 DEF FixesNamed
  <1>5. ops' \in 0 .. OpBound
    BY CountGood DEF Propose
  <1>6. UNCHANGED <<disk, db, tx, comp, mixed, passes>>
    BY DEF Propose
  <1>7. TypeOK'
    BY <1>4, <1>5, <1>6 DEF IInv, TypeOK
  <1>8. FilesInv(disk, fixes, tx, passes)'
    BY <1>4, <1>6 DEF IInv, FilesInv
  <1>9. TablesInv(db, mixed, tx, comp)'
    BY <1>6 DEF IInv
  <1> QED BY <1>7, <1>8, <1>9 DEF IInv

\* A proposal is written, with a line of log.md.
LEMMA ApplyWriteGood ==
  ASSUME IInv, NEW f \in Fix, FixesNamed({f}), Begins(comp, 1), disk' = Written(disk, f),
         NEW F \in SUBSET Fix, tx' = ApplyOf(F), passes' = 0, UNCHANGED <<db, fixes, comp, mixed>>
  PROVE  IInv'
  <1>1. DiskOK(disk) /\ NotesNamed(disk)
    BY Has
  <1>2. DiskOK(disk') /\ NotesNamed(disk')
    BY <1>1, WriteGood
  <1>3. ops' \in 0 .. OpBound
    BY BeginsGood
  <1>4. tx' \in ApplySession /\ ~Repairing(tx') /\ tx'.since = "idle"
    BY NoTablesTyped DEF ApplyOf, ApplySession, Since, Repairing
  <1>5. PassesGood(disk', passes') /\ passes' \in 0 .. 2
    BY DEF PassesGood
  <1> QED BY <1>2, <1>3, <1>4, <1>5, TxBegins

\* apply_proposal for a page.
LEMMA ApplyWriteIInv == IInv /\ ApplyWrite => IInv'
  <1> SUFFICES ASSUME IInv, ApplyWrite PROVE IInv'
    OBVIOUS
  <1>1. PICK f \in fixes : disk' = Written(disk, f) /\ tx' = ApplyOf({f})
    BY DEF ApplyWrite
  <1>2. f \in Fix /\ {f} \in SUBSET Fix /\ FixesNamed({f})
    BY Has DEF FixesNamed
  <1> QED BY <1>1, <1>2, ApplyWriteGood DEF ApplyWrite

\* apply_proposal for a line of the log.
LEMMA ApplyLogIInv == IInv /\ ApplyLog => IInv'
  <1> SUFFICES ASSUME IInv, ApplyLog PROVE IInv'
    OBVIOUS
  <1> DEFINE f == [path |-> "log.md", content |-> DEFAULT_CANONICAL_CONTENT["log.md"]]
  <1>1. f \in Fix /\ f.path \notin Notes
    BY DefaultPage DEF Fix, CANONICAL_WIKI_FILES
  <1>2. disk' = Written(disk, f) /\ tx' = ApplyOf({})
    BY DEF ApplyLog
  <1> HIDE DEF f
  <1>3. FixesNamed({f})
    BY <1>1 DEF FixesNamed
  <1>4. {} \in SUBSET Fix
    OBVIOUS
  <1> QED BY <1>1, <1>2, <1>3, <1>4, ApplyWriteGood DEF ApplyLog

\* An apply compiles.
LEMMA ApplyCompileIInv == IInv /\ ApplyCompile => IInv'
  <1> SUFFICES ASSUME IInv, ApplyCompile PROVE IInv'
    OBVIOUS
  <1> DEFINE mine == WithLint(Compile(View(tx, tx.mine), disk), {})
             base == WithLint(db, {})
             mx == MixedAfter(MixedTo(tx), disk)
  <1>1. /\ tx' = [tx EXCEPT !.base = base, !.since = "alone", !.mine = mine, !.mixed = mx]
        /\ UNCHANGED <<disk, db, fixes, comp, mixed, ops, passes>>
    BY DEF ApplyCompile, Compiling
  <1>2. tx \in ApplySession /\ tx.since \in Since /\ tx.base \in Tables /\ tx.mine \in Tables
    BY KindOf DEF ApplyCompile
  <1>3. /\ DiskOK(disk) /\ NotesNamed(disk) /\ PassesGood(disk, passes)
        /\ db \in Tables /\ (~mixed => Good(db))
        /\ tx.since = "alone" /\ ~tx.mixed => Good(tx.mine)
    BY Has DEF MineGood, ApplyCompile
  <1>4. mine \in Tables /\ (~mx => Good(mine))
    BY <1>2, <1>3, CompilingGood
  <1>5. base \in Tables /\ mx \in BOOLEAN
    BY <1>3, WithLintGood DEF MixedAfter
  <1> HIDE DEF mine, base, mx
  <1>6. /\ tx' \in ApplySession /\ tx'.since = "alone" /\ tx'.mine = mine /\ tx'.mixed = mx
        /\ tx'.kind = "apply"
    BY <1>1, <1>2, <1>4, <1>5 DEF ApplySession, Since
  <1>7. MineGood(tx') /\ ~Repairing(tx')
    BY <1>4, <1>6 DEF MineGood, Repairing
  <1> QED BY <1>1, <1>3, <1>6, <1>7, TxSteps

\* The commit that ends an apply.
LEMMA ApplyCommitIInv == IInv /\ ApplyCommit => IInv'
  <1> SUFFICES ASSUME IInv, ApplyCommit PROVE IInv'
    OBVIOUS
  <1>1. /\ tx # None /\ db' = WithLint(View(tx, tx.mine), LintOf(db)) /\ mixed' = MixedTo(tx)
        /\ fixes' = fixes \ tx.fix /\ tx' = None /\ comp' = Overtaken(comp)
        /\ UNCHANGED <<disk, ops, passes>>
    BY DEF ApplyCommit
  <1>2. LintOf(db) \subseteq WikiErrorBook
    BY Has, LintOfErrors
  <1>3. fixes' \subseteq Fix /\ FixesNamed(fixes')
    BY <1>1, Has DEF FixesNamed
  <1>4. passes' \in 0 .. 2 /\ PassesGood(disk, passes')
    BY <1>1, Has
  <1> QED BY <1>1, <1>2, <1>3, <1>4, TxCommits

\* A session ends without a commit.
LEMMA SessionEnds ==
  ASSUME IInv, (tx' = None /\ comp' = comp) \/ (comp' = None /\ tx' = tx),
         ops' \in 0 .. OpBound,
         UNCHANGED <<disk, db, fixes, mixed, passes>>
  PROVE  IInv'
  <1>1. CASE tx' = None /\ comp' = comp
    <2>1. TypeOK'
      BY <1>1 DEF IInv, TypeOK
    <2>2. FilesInv(disk, fixes, tx, passes)'
      BY <1>1 DEF IInv, FilesInv, Repairing
    <2>3. TablesInv(db, mixed, tx, comp)'
      BY <1>1 DEF IInv, TablesInv, MineGood
    <2> QED BY <2>1, <2>2, <2>3 DEF IInv
  <1>2. CASE comp' = None /\ tx' = tx
    <2>1. BaseGood(comp')
      BY <1>2 DEF BaseGood
    <2> QED BY <1>2, <2>1, CompChanged
  <1> QED BY <1>1, <1>2

\* A flush fails, and all is rolled back but the files.
LEMMA RollbackIInv == IInv /\ Rollback => IInv'
  <1> SUFFICES ASSUME IInv, Rollback PROVE IInv'
    OBVIOUS
  <1>1. ops' \in 0 .. OpBound
    BY DEF Rollback, IInv, TypeOK
  <1> QED BY <1>1, SessionEnds DEF Rollback

\* A process dies: the files it wrote stay.
LEMMA CrashIInv == IInv /\ Crash => IInv'
  <1> SUFFICES ASSUME IInv, Crash PROVE IInv'
    OBVIOUS
  <1>1. ops' \in 0 .. OpBound
    BY CountGood DEF Crash
  <1> QED BY <1>1, SessionEnds DEF Crash

\* Every step keeps the invariant.
LEMMA NextIInv == IInv /\ [Next]_vars => IInv'
  <1> SUFFICES ASSUME IInv, [Next]_vars PROVE IInv'
    OBVIOUS
  <1>1. CASE RepairAll
    <2>1. RepairBegin(TRUE, 0)
      BY <1>1 DEF RepairAll
    <2>2. TRUE \in BOOLEAN /\ 0 \in 0 .. 1
      OBVIOUS
    <2> QED BY <2>1, <2>2, BeginIInv, ZenonT(30)
  <1>2. CASE RepairSome
    <2>1. RepairBegin(FALSE, 1)
      BY <1>2 DEF RepairSome
    <2>2. FALSE \in BOOLEAN /\ 1 \in 0 .. 1
      OBVIOUS
    <2> QED BY <2>1, <2>2, BeginIInv, ZenonT(30)
  <1>3. CASE UNCHANGED vars
    <2>1. TypeOK'
      BY <1>3 DEF vars, IInv, TypeOK
    <2>2. FilesInv(disk, fixes, tx, passes)' /\ TablesInv(db, mixed, tx, comp)'
      BY <1>3 DEF vars, IInv
    <2> QED BY <2>1, <2>2 DEF IInv
  <1> QED BY <1>1, <1>2, <1>3, EditIInv, LintIInv, CompileBeginIInv, CompileLoadIInv,
             CompileCommitIInv, RepairStepIInv, CommitIInv, NewProposalIInv, ApplyWriteIInv,
             ApplyLogIInv, ApplyCompileIInv, ApplyCommitIInv, RollbackIInv, CrashIInv DEF Next

\* The invariant holds throughout.
LEMMA Invariance == Spec => []IInv
  BY InitIInv, NextIInv, PTL DEF Spec

-----------------------------------------------------------------------------
(* What it says. *)

\* Every variable keeps its type, with any notes, names and contents.
THEOREM WikiTypeCorrect == Spec => []TypeOK
  <1>1. IInv => TypeOK
    BY DEF IInv
  <1> QED BY <1>1, Invariance, PTL

\* After any edits, failed parses, removals, repairs, crashes and overlaps, a
\* page that follow_links reaches has a row and every row has its source, once
\* a compile without errors has run alone since the last overlap.
THEOREM ReferencesHoldHolds == Spec => []ReferencesHold
  <1>1. ASSUME IInv PROVE ReferencesHold
    <2>1. SUFFICES ASSUME ~mixed PROVE ReferencesHold
      BY DEF ReferencesHold
    <2>2. LinksGood(db) /\ SourcesGood(db)
      BY <1>1, <2>1, Has DEF Good
    <2>3. ASSUME NEW k \in Keys, NEW j \in FollowLinks(k) PROVE db.pages[j] # None
      <3>1. PICK l \in db.links : l.status = "resolved" /\ (j = l.dst \/ j = l.src)
        BY <2>3 DEF FollowLinks
      <3>2. LinkOK(db, l)
        BY <2>2 DEF LinksGood
      <3> QED BY <3>1, <3>2 DEF LinkOK
    <2> QED BY <2>2, <2>3 DEF ReferencesHold, SourcesGood
  <1> QED BY <1>1, Invariance, PTL

\* Pages that pass the sufficiency check have only resolved links, for any
\* limit of the check that the open errors stay within.
THEOREM SufficientIsBackedHolds == Spec => []SufficientIsBacked
  <1>1. ASSUME IInv PROVE SufficientIsBacked
    <2>1. SUFFICES ASSUME ~mixed, Cardinality(db.errors) <= ErrorLimit,
                          NEW read \in ErrorBook(db.errors, ErrorLimit), NEW R \in SUBSET Keys,
                          Sufficient(read, R), NEW l \in db.links, l.src \in R
                   PROVE  l.status = "resolved"
      BY DEF SufficientIsBacked
    <2>2. read = db.errors
      BY <2>1 DEF ErrorBook
    <2>3. l.status \in {"resolved", "unresolved"} /\ LinkOK(db, l) /\ l.src \in Keys
      BY <1>1, <2>1, Has DEF Good, LinksGood, Tables, WikiLink
    <2>4. CASE l.status = "unresolved"
      <3>1. Dangling(l) \in db.errors /\ Dangling(l).key = l.src
        BY <2>3, <2>4 DEF LinkOK, Dangling
      <3>2. l.src \notin CANONICAL_WIKI_FILES
        BY <2>3, WikiAssumption DEF Keys, CANONICAL_WIKI_FILES
      <3>3. ErrorPage(Dangling(l)) = l.src
        BY <3>1, <3>2 DEF ErrorPage
      <3>4. Dangling(l) \in ConstraintsForPages(read, R)
        BY <2>1, <2>2, <3>1, <3>3 DEF ConstraintsForPages
      <3> QED BY <2>1, <3>4 DEF Sufficient
    <2> QED BY <2>3, <2>4
  <1> QED BY <1>1, Invariance, PTL

\* Two whole safe repairs with nobody else writing files make any wiki
\* navigable, in whatever order each of them takes the errors, if no more
\* errors are open than a repair reads.
THEOREM TwoPassesConvergeHolds == Spec => []TwoPassesConverge
  <1>1. ASSUME IInv PROVE TwoPassesConverge
    <2>1. SUFFICES ASSUME passes = 2 PROVE Navigable
      BY DEF TwoPassesConverge
    <2>2. AllControl(disk) /\ AllListed(disk)
      BY <1>1, <2>1, Has DEF PassesGood
    <2> QED BY <2>2 DEF Navigable, AllControl, AllListed, MarkdownPaths, Paths
  <1> QED BY <1>1, Invariance, PTL
=============================================================================
