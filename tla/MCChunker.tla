------------------------------ MODULE MCChunker -----------------------------
(* Documents for TLC, with the lengths scaled down to ChunkChars = 10 and  *)
(* SectionChars = 6.                                                       *)
EXTENDS Chunker

CONSTANT MaxBlocks

(* Texts that fit, fit twice only without a separator, just fit, do not    *)
(* fit; headings within and beyond the section title; a long table.        *)
Kinds == {[type |-> "text", size |-> 1, boxed |-> TRUE],
          [type |-> "text", size |-> 5, boxed |-> FALSE],
          [type |-> "footer", size |-> 10, boxed |-> TRUE],
          [type |-> "text", size |-> 11, boxed |-> TRUE],
          [type |-> "heading", size |-> 2, boxed |-> TRUE],
          [type |-> "heading", size |-> 8, boxed |-> FALSE],
          [type |-> "table", size |-> 12, boxed |-> TRUE]}

(* Blocks bs of which the first n are on page 1 and the others on page 2.  *)
TwoPages(bs, n) ==
    <<[number |-> 1, blocks |-> SubSeq(bs, 1, n), size |-> 0],
      [number |-> 2, blocks |-> SubSeq(bs, n + 1, Len(bs)), size |-> 0]>>

(* A page without a number, a page with no block but with content, and     *)
(* blank blocks.                                                           *)
OddPages ==
    {<<[number |-> 0, blocks |-> <<k>>, size |-> 0],
       [number |-> 1, blocks |-> <<[k EXCEPT !.size = 0], k>>, size |-> 1],
       [number |-> 2, blocks |-> <<>>, size |-> n],
       [number |-> 4, blocks |-> <<k>>, size |-> 0]>> : k \in Kinds, n \in {0, 5, 11}}

Documents ==
    OddPages \cup
    UNION {{TwoPages(bs, n) : bs \in [1 .. m -> Kinds], n \in 0 .. m - 1} :
             m \in 1 .. MaxBlocks}

MCSources == {Flatten(pages) : pages \in Documents}
=============================================================================
