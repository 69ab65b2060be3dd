------------------------------ MODULE MCMemory ------------------------------
(* Memories; content "ab" has a second line that an entry loses.     *)
EXTENDS Memory, TLC

MCContents == {"a", "ab"}
MCFirstLine == [c \in MCContents |-> IF c = "ab" THEN "a" ELSE c]

MCEditedLines == {None, [content |-> "a", status |-> "active", level |-> 0],
                  [content |-> "a", status |-> "archived", level |-> 0]}

Symmetry == Permutations(Ids) \cup Permutations(Requests) \cup Permutations(Proposals)
=============================================================================
