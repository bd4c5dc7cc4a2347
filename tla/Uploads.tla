------------------------------ MODULE Uploads ------------------------------
(***************************************************************************)
(* From an admin's file to a report.  The frontend (handle_ingest) posts   *)
(* the file to the backend, which writes it to the shared volume under its *)
(* own name (POST /upload), and then asks for an ingest of that path       *)
(* (orchestrator._ingest), which rag_service runs as a job: check the      *)
(* path, upsert the report, read the path, extract, persist.  The reports  *)
(* are the abstract ReportStore that IngestPipeline implements.            *)
(*                                                                         *)
(* Callers give up after a timeout; what they asked for goes on.  Backend  *)
(* and rag_service may restart at any time.                                *)
(***************************************************************************)
EXTENDS Integers, FiniteSets

CONSTANTS
    Attempts,     \* the ingests admins ask for
    Choices,      \* what they may ask for: a channel, a file name, a document
    Channels, Files, ReportIds, Docs, Textless,
    NoRow, NoDoc, NoReport, NoFile, Torn

ASSUME ConstantsAssumption ==
    /\ Choices \subseteq [chan : Channels, file : Files, doc : Docs]
    /\ Textless \subseteq Docs
    /\ NoDoc \notin Docs
    /\ NoReport \notin ReportIds
    /\ {NoFile, Torn} \cap Docs = {}
    /\ NoFile # Torn
    /\ NoRow \notin [channel : Channels, file : Files]

VARIABLES
    volume,   \* the shared uploads volume, by path
    catalog, serves, \* the report store
    issued,   \* the report ids handed out so far: gen_random_uuid() never repeats
    stage,    \* where an attempt is
    waiting,  \* whether the frontend still waits for it
    choice,   \* what the admins choose
    queued,   \* whether they share one queue of the frontend, and uploads are quick
    report,   \* the report id its job has upserted
    got       \* the pdf_bytes its job has read

scenario == <<choice, queued>>
job   == <<scenario, report, got>>
store == <<catalog, serves, issued>>
vars  == <<volume, store, stage, waiting, job>>

Store == INSTANCE ReportStore

Uploading == {"sent", "open"}
Running   == {"asked", "found", "upserted", "read"}
Ended     == {"ok", "error"}

TypeOK ==
    /\ volume \in [Files -> Docs \cup {NoFile, Torn}]
    /\ catalog \in [ReportIds -> Store!Row \cup {NoRow}]
    /\ serves \in [ReportIds -> SUBSET (Docs \ Textless)]
    /\ issued \subseteq ReportIds
    /\ stage \in [Attempts -> {"new", "stored"} \cup Uploading \cup Running \cup Ended]
    /\ waiting \in [Attempts -> BOOLEAN]
    /\ choice \in [Attempts -> Choices]
    /\ queued \in BOOLEAN
    /\ report \in [Attempts -> ReportIds \cup {NoReport}]
    /\ got \in [Attempts -> Docs \cup {NoDoc}]

Init ==
    /\ volume = [f \in Files |-> NoFile]
    /\ Store!Init
    /\ issued = {}
    /\ stage = [j \in Attempts |-> "new"]
    /\ waiting = [j \in Attempts |-> FALSE]
    /\ choice \in [Attempts -> Choices]
    /\ queued \in BOOLEAN
    /\ report = [j \in Attempts |-> NoReport]
    /\ got = [j \in Attempts |-> NoDoc]

Stays == UNCHANGED <<volume, store, scenario>>

End(j, how) ==
    /\ stage' = [stage EXCEPT ![j] = how]
    /\ waiting' = [waiting EXCEPT ![j] = FALSE]

-----------------------------------------------------------------------------
(* The frontend                                                            *)

(* handle_ingest, first call: api_upload.  The queue of a frontend serves  *)
(* one ingest at a time; the admins of several frontends do not wait.      *)
Send(j) ==
    /\ stage[j] = "new"
    /\ queued => \A i \in Attempts : ~waiting[i]
    /\ stage' = [stage EXCEPT ![j] = "sent"]
    /\ waiting' = [waiting EXCEPT ![j] = TRUE]
    /\ UNCHANGED <<report, got>> /\ Stays

(* Mutated form of Ask: the answer to the upload is not waited for.        *)
AskEarly(j) ==
    /\ stage[j] \in {"sent", "stored"}
    /\ waiting[j]
    /\ stage' = [stage EXCEPT ![j] = "asked"]
    /\ UNCHANGED <<waiting, report, got>> /\ Stays

(* handle_ingest, second call: api_orchestrate with the returned path.     *)
Ask(j) ==
    /\ stage[j] = "stored"
    /\ waiting[j]
    /\ stage' = [stage EXCEPT ![j] = "asked"]
    /\ UNCHANGED <<waiting, report, got>> /\ Stays

(* The timeouts, 120 s for the upload and 600 s for the ingest, or a call  *)
(* that cannot be made.                                                    *)
GiveUp(j) ==
    /\ waiting[j]
    /\ stage[j] \in {"stored"} \cup Running
                     \cup (IF queued THEN {} ELSE Uploading)
    /\ waiting' = [waiting EXCEPT ![j] = FALSE]
    /\ UNCHANGED <<stage, report, got>> /\ Stays

-----------------------------------------------------------------------------
(* The backend: upload_file                                                *)

(* Mutated form of Path: uploads share a temporary name.                   *)
PathFixed(f) == CHOOSE g \in Files : TRUE

Path(f) == f

(* open(dest, "wb") truncates; until the write that follows, with no await *)
(* between them, no other upload of this process runs.                     *)
Open(j) ==
    /\ stage[j] = "sent"
    /\ \A i \in Attempts : stage[i] # "open"
    /\ volume' = [volume EXCEPT ![Path(choice[j].file)] = Torn]
    /\ stage' = [stage EXCEPT ![j] = "open"]
    /\ UNCHANGED <<store, waiting, job>>

Write(j) ==
    /\ stage[j] = "open"
    /\ volume' = [volume EXCEPT ![Path(choice[j].file)] = choice[j].doc]
    /\ stage' = [stage EXCEPT ![j] = "stored"]
    /\ UNCHANGED <<store, waiting, job>>

(* An upload that fails, or dies with the backend, leaves its file as it   *)
(* is; the callers of the running jobs get an error.                       *)
BackendRestart ==
    /\ stage' = [j \in Attempts |->
                   IF stage[j] \in Uploading THEN "error" ELSE stage[j]]
    /\ waiting' = [j \in Attempts |-> waiting[j] /\ stage[j] = "stored"]
    /\ UNCHANGED <<report, got>> /\ Stays

-----------------------------------------------------------------------------
(* rag_service: POST /ingest                                               *)

(* 400 when there is no such file.                                         *)
Find(j) ==
    /\ stage[j] = "asked"
    /\ volume[Path(choice[j].file)] # NoFile
    /\ stage' = [stage EXCEPT ![j] = "found"]
    /\ UNCHANGED <<waiting, report, got>> /\ Stays

(* registry.upsert_report: the report of that channel and file, or a new   *)
(* one.                                                                    *)
Upsert(j) ==
    /\ stage[j] = "found"
    /\ LET c == choice[j].chan
           f == choice[j].file
       IN \E r \in ReportIds :
            /\ \/ /\ r \notin issued
                  /\ Store!Register(r, c, f)
                  /\ issued' = issued \cup {r}
               \/ /\ catalog[r] = [channel |-> c, file |-> f]
                  /\ UNCHANGED store
            /\ report' = [report EXCEPT ![j] = r]
    /\ stage' = [stage EXCEPT ![j] = "upserted"]
    /\ UNCHANGED <<volume, waiting, scenario, got>>

(* Mutated form of Read: half a file passes for a document.                *)
ReadTorn(j) ==
    /\ stage[j] = "upserted"
    /\ got' = [got EXCEPT ![j] = volume[Path(choice[j].file)]]
    /\ stage' = [stage EXCEPT ![j] = "read"]
    /\ UNCHANGED <<waiting, report>> /\ Stays

(* path.read_bytes(); a file that is being rewritten does not parse, and   *)
(* the ingest then fails.                                                  *)
Read(j) ==
    /\ stage[j] = "upserted"
    /\ volume[Path(choice[j].file)] # Torn
    /\ got' = [got EXCEPT ![j] = volume[Path(choice[j].file)]]
    /\ stage' = [stage EXCEPT ![j] = "read"]
    /\ UNCHANGED <<waiting, report>> /\ Stays

(* The chunks are committed; writing the account of it may still fail.     *)
Publish(j) ==
    /\ stage[j] = "read"
    /\ Store!Publish(report[j], got[j])
    /\ \E how \in Ended : End(j, how)
    /\ UNCHANGED <<volume, issued, job>>

(* 400, or 500 at any stage.                                               *)
Fail(j) ==
    /\ stage[j] \in Running
    /\ End(j, "error")
    /\ UNCHANGED <<report, got>> /\ Stays

(* A process stops, with those of the jobs js that are running.            *)
Stop(js) ==
    /\ stage' = [j \in Attempts |->
                   IF j \in js /\ stage[j] \in Running THEN "error" ELSE stage[j]]
    /\ waiting' = [j \in Attempts |-> waiting[j] /\ ~(j \in js /\ stage[j] \in Running)]
    /\ UNCHANGED <<report, got>> /\ Stays

RagRestart == Stop(Attempts)

(* DELETE /admin/reports/{id}.                                             *)
Delete(r) ==
    /\ catalog[r] # NoRow
    /\ Store!Remove(r)
    /\ UNCHANGED <<volume, issued, stage, waiting, job>>

Next ==
    \/ \E j \in Attempts :
         \/ Send(j) \/ Ask(j) \/ GiveUp(j)
         \/ Open(j) \/ Write(j)
         \/ Find(j) \/ Upsert(j) \/ Read(j) \/ Publish(j) \/ Fail(j)
    \/ BackendRestart
    \/ RagRestart
    \/ \E r \in ReportIds : Delete(r)

Spec == Init /\ [][Next]_vars

-----------------------------------------------------------------------------
(* Properties                                                              *)

(* Tenant isolation of the corpus: unless two channels upload files of one *)
(* name, what a report serves was uploaded for its channel, whatever       *)
(* callers give up, services restart and reports are deleted.  (The volume *)
(* is keyed by the name alone.)                                            *)
NamesNotShared ==
    \A i, j \in Attempts :
        choice[i].file = choice[j].file => choice[i].chan = choice[j].chan

OwnDocuments ==
    NamesNotShared =>
        \A r \in ReportIds : \A d \in serves[r] :
            \E j \in Attempts :
                choice[j].doc = d /\ choice[j].chan = catalog[r].channel

(* An ingest answered with success to its admin has indexed the file the   *)
(* admin uploaded, although jobs of earlier ingests are still running and  *)
(* channels share file names.  Holds when the frontend serves one ingest   *)
(* at a time and no upload outlasts it.                                    *)
AnsweredDocument ==
    [][\A j \in Attempts :
         queued /\ waiting[j] /\ stage'[j] = "ok" /\ stage[j] # "ok" =>
            serves'[report[j]] \ serves[report[j]] \subseteq {choice[j].doc}
            /\ (choice[j].doc \notin Textless =>
                   choice[j].doc \in serves'[report[j]])]_vars
=============================================================================
