---------------------------- MODULE CommandLine -----------------------------
(***************************************************************************)
(* The ingest command line (epsilon_rag/main.py) beside the service: an    *)
(* operator ingests a list of local PDFs, one after another, into one      *)
(* channel, in a process of its own, while admins upload, ingest and       *)
(* delete.  A file of the list is an attempt of Uploads that starts at the *)
(* upsert and never touches the volume.  Which files a folder gives, and   *)
(* in which order, is any list; files of several folders may share a name. *)
(***************************************************************************)
EXTENDS Uploads, Sequences, Functions

CONSTANT Batches \* the lists of files an operator may ingest

ASSUME BatchesAssumption ==
    \A b \in Batches : b \in Seq(Attempts) /\ IsInjective(b)

VARIABLES
    batch, \* pdfs
    stop,  \* args.stop_on_error
    turn,  \* the file whose turn it is; 0 before the loop
    exit   \* the exit code

command == <<batch, stop, turn, exit>>
allVars == <<vars, command>>

Commands == Range(batch)
Current  == batch[turn]

CommandTypeOK ==
    /\ TypeOK
    /\ batch \in Batches
    /\ stop \in BOOLEAN
    /\ turn \in 0 .. Len(batch)
    /\ exit \in {"none", "zero", "nonzero"}

(* Every file goes to the channel of --channel-id.  An empty list stands   *)
(* for no command; of a single file it does not matter how to go on.       *)
CommandInit ==
    /\ Init
    /\ batch \in Batches
    /\ \A i, j \in Commands : choice[i].chan = choice[j].chan
    /\ stop \in {Len(batch) > 1, FALSE}
    /\ turn = 0
    /\ exit = "none"

-----------------------------------------------------------------------------
Starting == batch # <<>> /\ turn = 0 /\ exit = "none"

(* No database, no PDF, no such channel; or the pool or the lookup fails.  *)
Refuse ==
    /\ Starting
    /\ exit' = "nonzero"
    /\ UNCHANGED <<vars, batch, stop, turn>>

Begin ==
    /\ Starting
    /\ turn' = 1
    /\ UNCHANGED <<vars, batch, stop, exit>>

(* _ingest_one of the next file.                                           *)
Take ==
    /\ stage[Current] = "new"
    /\ stage' = [stage EXCEPT ![Current] = "found"]
    /\ UNCHANGED <<waiting, report, got>> /\ Stays

ReadLocal ==
    /\ stage[Current] = "upserted"
    /\ got' = [got EXCEPT ![Current] = choice[Current].doc]
    /\ stage' = [stage EXCEPT ![Current] = "read"]
    /\ UNCHANGED <<waiting, report>> /\ Stays

Work ==
    /\ exit = "none" /\ turn # 0
    /\ \/ Take \/ ReadLocal
       \/ Upsert(Current) \/ Publish(Current) \/ Fail(Current)
    /\ UNCHANGED command

(* Mutated form of ExitCode: that of the last file.                        *)
ExitCodeOfLast == IF stage[Current] = "ok" THEN "zero" ELSE "nonzero"

ExitCode == IF \E n \in 1 .. turn : stage[batch[n]] = "error" THEN "nonzero" ELSE "zero"

(* The file is in succeeded or failed: go on, or leave the loop.           *)
Account ==
    /\ exit = "none" /\ turn # 0
    /\ stage[Current] \in Ended
    /\ IF turn = Len(batch) \/ (stop /\ stage[Current] = "error")
       THEN exit' = ExitCode /\ UNCHANGED turn
       ELSE turn' = turn + 1 /\ UNCHANGED exit
    /\ UNCHANGED <<vars, batch, stop>>

(* The operator interrupts it, or it crashes.                              *)
Kill ==
    /\ exit = "none" /\ turn # 0
    /\ Stop(Commands)
    /\ exit' = "nonzero"
    /\ UNCHANGED <<batch, stop, turn>>

-----------------------------------------------------------------------------
(* What goes on at the page and in the services meanwhile.                 *)
Service ==
    /\ \/ \E j \in Attempts \ Commands :
            \/ Send(j) \/ Ask(j) \/ GiveUp(j)
            \/ Open(j) \/ Write(j)
            \/ Find(j) \/ Upsert(j) \/ Read(j) \/ Publish(j) \/ Fail(j)
       \/ BackendRestart
       \/ Stop(Attempts \ Commands)
       \/ \E r \in ReportIds : Delete(r)
    /\ UNCHANGED command

CommandNext == Refuse \/ Begin \/ Work \/ Account \/ Kill \/ Service

CommandSpec == CommandInit /\ [][CommandNext]_allVars

-----------------------------------------------------------------------------
(* The report of the n-th file has been deleted since, or serves what it   *)
(* was given last: that file, or the one that an admin's ingest or a later *)
(* file of the list has put in its place under the same name.              *)
ServedOrReplaced(n) ==
    LET r == report[batch[n]] IN
    /\ r \in ReportIds
    /\ \/ catalog[r] = NoRow
       \/ \E j \in Attempts \ {batch[m] : m \in 1 .. n - 1} :
            /\ report[j] = r
            /\ stage[j] \in Ended
            /\ {got[j]} \ Textless \subseteq serves[r]

(* "exit 0" can be relied on: every file of the list is served, save those *)
(* replaced or deleted since, whatever failed files, interruptions,        *)
(* restarts and other people's ingests the list has gone through.          *)
ExitZeroIsTrue == exit = "zero" => \A n \in DOMAIN batch : ServedOrReplaced(n)
=============================================================================
