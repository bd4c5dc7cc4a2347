-------------------------- MODULE MCIngestPipeline --------------------------
(* Instances of IngestPipeline for TLC.                                    *)
EXTENDS IngestPipeline, TLC

CONSTANTS w1, w2, w3, c1, c2, f1, r1, r2, short, long, empty

(* short and long are on pages of their own; empty has no text at all.     *)
AllPages == (short :> <<3>>) @@ (long :> <<2, 2>>) @@ (empty :> <<>>)
MCPages == [d \in Docs |-> AllPages[d]]

WorkerSymmetry == Permutations(Workers)
=============================================================================
