---------------------------- MODULE MCRetrieval ----------------------------
(* Instances of Retrieval for TLC: one channel with two reports, one with  *)
(* one, and one that does not exist.                                       *)
EXTENDS Retrieval

CONSTANTS c1, c2, c3, r1, r2, r3

(* What rag_service asks for, and what the command line may ask for.       *)
MCOptions == {[command |-> FALSE, rerank |-> TRUE, expand |-> FALSE, around |-> 1],
              [command |-> TRUE, rerank |-> FALSE, expand |-> TRUE, around |-> 0]}

HomeOf == [r \in Reports |-> IF r = r3 THEN c2 ELSE c1]
=============================================================================
