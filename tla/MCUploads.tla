----------------------------- MODULE MCUploads -----------------------------
(* Instances of Uploads for TLC, beside the command line.                  *)
EXTENDS CommandLine, TLC

CONSTANTS c1, c2, f1, f2, d1, d2, d3, r1, r2, r3, j1, j2, j3

(* The first channel has two versions of its file and another file; the    *)
(* second has another document, under a name of its own or under that of   *)
(* the first.                                                              *)
MCChoices == {[chan |-> c1, file |-> f1, doc |-> d1],
              [chan |-> c1, file |-> f1, doc |-> d2],
              [chan |-> c2, file |-> f2, doc |-> d3],
              [chan |-> c2, file |-> f1, doc |-> d3]}

(* A list of two files, or no command at all.                              *)
MCBatches == {<<>>} \cup {b \in Attempts \X Attempts : b[1] # b[2]}

UploadsSymmetry == Permutations(Attempts) \cup Permutations(ReportIds)
=============================================================================
