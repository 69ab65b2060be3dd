------------------------------- MODULE MCWiki -------------------------------
(* Two notes and the contents that make them clash, dangle or fail.        *)
EXTENDS Wiki, TLC

CONSTANTS k1, k2, n1, n2

MCNoteRank == n1 :> 1 @@ n2 :> 2

Page(key, alias, links) ==
    [parses |-> TRUE, key |-> key, alias |-> alias, links |-> links, weak |-> FALSE]

MCStartNotes == {[n \in Notes |-> None], n1 :> Page(k1, None, {k2}) @@ n2 :> Page(k2, None, {})}

MCNoteContents ==
    {Page(k1, None, {k2}),
     [Page(k2, k1, {}) EXCEPT !.weak = TRUE],
     [Page(k1, None, {}) EXCEPT !.parses = FALSE]}
=============================================================================
