---------------------------- MODULE ReportStore ----------------------------
(***************************************************************************)
(* What the write side of the RAG service promises its readers: a catalog  *)
(* of reports, one per channel and file name, and for each the documents   *)
(* it serves.  A document appears in one step, never in part; it replaces  *)
(* documents served before, although not necessarily all of them when      *)
(* ingests of one report overlap; a report disappears with everything it   *)
(* served.                                                                 *)
(***************************************************************************)
CONSTANTS Channels, Files, ReportIds, Docs,
          Textless, \* the documents with no text, of which nothing is served
          NoRow

VARIABLES catalog, serves

Row == [channel : Channels, file : Files]

Init == /\ catalog = [r \in ReportIds |-> NoRow]
        /\ serves = [r \in ReportIds |-> {}]

(* registry.upsert_report of a file the channel does not have.             *)
Register(r, c, f) ==
    /\ catalog[r] = NoRow
    /\ \A q \in ReportIds : catalog[q] # [channel |-> c, file |-> f]
    /\ catalog' = [catalog EXCEPT ![r] = [channel |-> c, file |-> f]]
    /\ UNCHANGED serves

(* The commit of _persist.                                                 *)
Publish(r, d) ==
    /\ d \notin Textless => catalog[r] # NoRow
    /\ \E kept \in SUBSET serves[r] :
         serves' = [serves EXCEPT ![r] = kept \cup ({d} \ Textless)]
    /\ UNCHANGED catalog

(* The commit of delete_report.                                            *)
Remove(r) ==
    /\ catalog' = [catalog EXCEPT ![r] = NoRow]
    /\ serves' = [serves EXCEPT ![r] = {}]

Next == \E r \in ReportIds :
          \/ \E c \in Channels, f \in Files : Register(r, c, f)
          \/ \E d \in Docs : Publish(r, d)
          \/ Remove(r)

Spec == Init /\ [][Next]_<<catalog, serves>>
=============================================================================
