--------------------------- MODULE IngestPipeline ---------------------------
(***************************************************************************)
(* The write side of the RAG service: POST /ingest                         *)
(* (rag_service/main.py, epsilon_rag/pipeline/ingest.py) and               *)
(* DELETE /reports/{id}, run by the threads of one process against         *)
(* PostgreSQL (tables reports and report_chunks) and MinIO (raw, markdown  *)
(* and metadata objects).                                                  *)
(*                                                                         *)
(* A worker is one request thread.  Its control state names the stage of   *)
(* run_ingest_from_path, or the statement of the transaction, it is about  *)
(* to execute.  Every statement of a transaction is a step of its own, and *)
(* transactions run at PostgreSQL's default READ COMMITTED level: a DELETE *)
(* sees the rows committed when it starts, waits for the rows another      *)
(* transaction has locked, and skips the ones that transaction removed; an *)
(* INSERT waits for an undecided duplicate key and takes a key-share lock  *)
(* on the report row its foreign key names.                                *)
(***************************************************************************)
EXTENDS Integers, Sequences, FiniteSets

CONSTANTS
    Workers,      \* request threads
    Channels,     \* rows of the channels table
    Files,        \* file names
    ReportIds,    \* the ids gen_random_uuid() may hand out
    Docs,         \* document contents
    Pages,        \* Pages[d][i] is the page of the i-th chunk of document d
    MaxAttempts,  \* attempts of _retry
    PoolSize,     \* connections of the psycopg pool
    MaxRequests,  \* bound on the number of requests of a run
    NoDoc, NoRow, NoReport, NoChannel

ASSUME ConstantsAssumption ==
    /\ Pages \in [Docs -> Seq(Nat)]
    /\ MaxAttempts \in Nat \ {0}
    /\ PoolSize \in Nat \ {0}
    /\ MaxRequests \in Nat
    /\ IsFiniteSet(Workers)
    /\ NoDoc \notin Docs
    /\ NoReport \notin ReportIds
    /\ NoChannel \notin Channels
    /\ NoRow \notin [channel : Channels, file : Files]

VARIABLES
    reports,     \* the reports table, by id
    issued,      \* the report ids handed out so far
    chunks,      \* the committed rows of report_chunks
    bucket,      \* whether the MinIO bucket exists
    raw, markdown, metadata, \* the objects of each report: the document they hold
    published,   \* history: the <<report, document>> pairs ever committed
    requests,    \* how many requests have been accepted
    pc, attempt, \* a worker's stage, and the attempt of _retry it is in
    chan, rid, doc, \* its channel_id, report_id and pdf_bytes
    target,      \* rows its running DELETE statement has yet to lock
    locked,      \* rows its transaction has deleted
    inserted,    \* how many rows its transaction has inserted
    counted      \* rows that delete_report's first DELETE has counted

tables  == <<reports, issued, chunks>>
objects == <<bucket, raw, markdown, metadata>>
history == <<published, requests>>
job     == <<chan, rid, doc>>
txn     == <<target, locked, inserted, counted>>
vars    == <<tables, objects, history, pc, attempt, job, txn>>

ReportRow == [channel : Channels, file : Files]

ChunkRow == [report : ReportIds, channel : Channels,
             page : Nat, index : Nat, doc : Docs]

(* "idle", "ok" and "error" are a free thread: unused yet, or after a 2xx  *)
(* or an error answer.                                                     *)
Free == {"idle", "ok", "error"}

(* The stages of run_ingest_from_path in order, up to the transaction.     *)
Stages == {"read", "bucket", "make_bucket", "raw", "extract", "markdown",
           "embed", "persist", "metadata"}

(* Statements of _persist and of delete_report inside their transactions.  *)
PersistTxn == {"deleting", "inserting"}
DeleteTxn  == {"d_chunks", "d_report", "d_cascade", "d_commit"}
InTxn      == PersistTxn \cup DeleteTxn

TypeOK ==
    /\ reports \in [ReportIds -> ReportRow \cup {NoRow}]
    /\ issued \subseteq ReportIds
    /\ chunks \subseteq ChunkRow
    /\ bucket \in BOOLEAN
    /\ raw \in [ReportIds -> Docs \cup {NoDoc}]
    /\ markdown \in [ReportIds -> Docs \cup {NoDoc}]
    /\ metadata \in [ReportIds -> Docs \cup {NoDoc}]
    /\ published \subseteq ReportIds \X Docs
    /\ requests \in Nat
    /\ pc \in [Workers -> Free \cup Stages \cup InTxn]
    /\ attempt \in [Workers -> 1 .. MaxAttempts]
    /\ chan \in [Workers -> Channels \cup {NoChannel}]
    /\ rid \in [Workers -> ReportIds \cup {NoReport}]
    /\ doc \in [Workers -> Docs \cup {NoDoc}]
    /\ target \in [Workers -> SUBSET ChunkRow]
    /\ locked \in [Workers -> SUBSET ChunkRow]
    /\ inserted \in [Workers -> Nat]
    /\ counted \in [Workers -> SUBSET ChunkRow]

Init ==
    /\ reports = [r \in ReportIds |-> NoRow]
    /\ issued = {}
    /\ chunks = {}
    /\ bucket = FALSE
    /\ raw = [r \in ReportIds |-> NoDoc]
    /\ markdown = [r \in ReportIds |-> NoDoc]
    /\ metadata = [r \in ReportIds |-> NoDoc]
    /\ published = {}
    /\ requests = 0
    /\ pc = [w \in Workers |-> "idle"]
    /\ attempt = [w \in Workers |-> 1]
    /\ chan = [w \in Workers |-> NoChannel]
    /\ rid = [w \in Workers |-> NoReport]
    /\ doc = [w \in Workers |-> NoDoc]
    /\ target = [w \in Workers |-> {}]
    /\ locked = [w \in Workers |-> {}]
    /\ inserted = [w \in Workers |-> 0]
    /\ counted = [w \in Workers |-> {}]

-----------------------------------------------------------------------------
(* Rows and locks.                                                         *)

RowsOf(r) == {c \in chunks : c.report = r}

(* The i-th row worker w inserts: chunk_index is the position in the       *)
(* whole document, page_number the page of the chunk's first block.        *)
Row(w, i) == [report |-> rid[w], channel |-> chan[w],
              page |-> Pages[doc[w]][i], index |-> i - 1, doc |-> doc[w]]

Pending(w) == {Row(w, i) : i \in 1 .. inserted[w]}

(* UNIQUE ("ReportId", "PageNumber", "ChunkIndex")                         *)
SameKey(c, d) == /\ c.report = d.report
                 /\ c.page = d.page
                 /\ c.index = d.index

Others(w) == Workers \ {w}

(* A connection of the pool is held for the length of a transaction.       *)
ConnectionFree == Cardinality({w \in Workers : pc[w] \in InTxn}) < PoolSize

(* v has deleted the row of report r and has not committed.                *)
RemovesReport(v, r) == pc[v] \in {"d_cascade", "d_commit"} /\ rid[v] = r

(* v has inserted a row that references report r.                          *)
HoldsKeyShare(v, r) == pc[v] = "inserting" /\ inserted[v] > 0 /\ rid[v] = r

(* The next row w inserts duplicates a key whose fate v's transaction      *)
(* decides: a row it has inserted, or a committed one it has deleted.      *)
UndecidedKey(w, v) ==
    \E c \in Pending(v) \cup locked[v] : SameKey(c, Row(w, inserted[w] + 1))

(* What worker w's current statement waits for.                            *)
WaitsFor(w, v) ==
    /\ v # w
    /\ \/ /\ pc[w] \in {"deleting", "d_chunks", "d_cascade"}
          /\ target[w] \cap locked[v] # {}
       \/ /\ pc[w] = "inserting"
          /\ inserted[w] < Len(Pages[doc[w]])
          /\ UndecidedKey(w, v) \/ RemovesReport(v, rid[w])
       \/ /\ pc[w] = "d_report"
          /\ HoldsKeyShare(v, rid[w]) \/ RemovesReport(v, rid[w])

Waits(w) == \E v \in Workers : WaitsFor(w, v)

Goto(w, stage) == /\ pc' = [pc EXCEPT ![w] = stage]
                  /\ attempt' = [attempt EXCEPT ![w] = 1]

(* A worker that answers with an error forgets its request.                *)
Abandon(w) ==
    /\ Goto(w, "error")
    /\ chan' = [chan EXCEPT ![w] = NoChannel]
    /\ rid' = [rid EXCEPT ![w] = NoReport]
    /\ doc' = [doc EXCEPT ![w] = NoDoc]

(* Mutated forms of RetryFrom: one attempt too many, and no last attempt.  *)
RetryFromOffByOne(w, stage) ==
    IF attempt[w] <= MaxAttempts
    THEN /\ pc' = [pc EXCEPT ![w] = stage]
         /\ attempt' = [attempt EXCEPT ![w] = @ + 1]
         /\ UNCHANGED job
    ELSE Abandon(w)
RetryFromForever(w, stage) ==
    /\ pc' = [pc EXCEPT ![w] = stage]
    /\ UNCHANGED <<attempt, job>>

(* except Exception in _retry: run fn again, or re-raise after the last    *)
(* attempt; ingest() turns that into a 500.                                *)
RetryFrom(w, stage) ==
    IF attempt[w] < MaxAttempts
    THEN /\ pc' = [pc EXCEPT ![w] = stage]
         /\ attempt' = [attempt EXCEPT ![w] = @ + 1]
         /\ UNCHANGED job
    ELSE Abandon(w)

Rollback(w) ==
    /\ target' = [target EXCEPT ![w] = {}]
    /\ locked' = [locked EXCEPT ![w] = {}]
    /\ inserted' = [inserted EXCEPT ![w] = 0]
    /\ counted' = [counted EXCEPT ![w] = {}]

(* Rows that w's commit removes are gone for the DELETEs that wait on them.*)
EndTxn(w) ==
    /\ target' = [v \in Workers |->
                    IF v = w THEN {} ELSE target[v] \ locked[w]]
    /\ locked' = [locked EXCEPT ![w] = {}]
    /\ inserted' = [inserted EXCEPT ![w] = 0]
    /\ UNCHANGED counted

-----------------------------------------------------------------------------
(* POST /ingest                                                            *)

(* Mutated form of UpsertReport: the conflict target forgets the channel.  *)
UpsertReportAnyChannel(w, c, f) ==
    /\ pc[w] \in Free
    /\ requests < MaxRequests
    /\ ConnectionFree
    /\ \E r \in ReportIds :
        /\ \/ reports[r] # NoRow /\ reports[r].file = f
           \/ /\ r \notin issued
              /\ \A q \in ReportIds : reports[q] # NoRow => reports[q].file # f
        /\ \A v \in Workers : ~RemovesReport(v, r)
        /\ reports' = [reports EXCEPT ![r] =
                        IF @ = NoRow THEN [channel |-> c, file |-> f] ELSE @]
        /\ issued' = issued \cup {r}
        /\ rid' = [rid EXCEPT ![w] = r]
    /\ chan' = [chan EXCEPT ![w] = c]
    /\ doc' = [doc EXCEPT ![w] = NoDoc]
    /\ counted' = [counted EXCEPT ![w] = {}]
    /\ Goto(w, "read")
    /\ requests' = requests + 1
    /\ UNCHANGED <<chunks, objects, published, target, locked, inserted>>

(* Mutated form of UpsertReport: a plain INSERT without a conflict target. *)
UpsertReportAlwaysNew(w, c, f) ==
    /\ pc[w] \in Free
    /\ requests < MaxRequests
    /\ ConnectionFree
    /\ \E r \in ReportIds \ issued :
        /\ reports' = [reports EXCEPT ![r] = [channel |-> c, file |-> f]]
        /\ issued' = issued \cup {r}
        /\ rid' = [rid EXCEPT ![w] = r]
    /\ chan' = [chan EXCEPT ![w] = c]
    /\ doc' = [doc EXCEPT ![w] = NoDoc]
    /\ counted' = [counted EXCEPT ![w] = {}]
    /\ Goto(w, "read")
    /\ requests' = requests + 1
    /\ UNCHANGED <<chunks, objects, published, target, locked, inserted>>

(* INSERT ... ON CONFLICT ("ChannelId", "Filename") DO UPDATE: the row of  *)
(* that channel and file name keeps its id, a new one gets a fresh id.     *)
UpsertReport(w, c, f) ==
    /\ pc[w] \in Free
    /\ requests < MaxRequests
    /\ ConnectionFree
    /\ \E r \in ReportIds :
        /\ \/ reports[r] = [channel |-> c, file |-> f]
           \/ /\ r \notin issued
              /\ \A q \in ReportIds : reports[q] # [channel |-> c, file |-> f]
        /\ \A v \in Workers : ~RemovesReport(v, r)
        /\ reports' = [reports EXCEPT ![r] = [channel |-> c, file |-> f]]
        /\ issued' = issued \cup {r}
        /\ rid' = [rid EXCEPT ![w] = r]
    /\ chan' = [chan EXCEPT ![w] = c]
    /\ doc' = [doc EXCEPT ![w] = NoDoc]
    /\ counted' = [counted EXCEPT ![w] = {}]
    /\ Goto(w, "read")
    /\ requests' = requests + 1
    /\ UNCHANGED <<chunks, objects, published, target, locked, inserted>>

(* pdf_bytes = path.read_bytes(): whatever the path holds at this moment.  *)
ReadFile(w, d) ==
    /\ pc[w] = "read"
    /\ doc' = [doc EXCEPT ![w] = d]
    /\ Goto(w, "bucket")
    /\ UNCHANGED <<tables, objects, history, chan, rid, txn>>

(* ensure_bucket: bucket_exists, then make_bucket.                         *)
CheckBucket(w) ==
    /\ pc[w] = "bucket"
    /\ IF bucket
       THEN Goto(w, "raw")
       ELSE pc' = [pc EXCEPT ![w] = "make_bucket"] /\ UNCHANGED attempt
    /\ UNCHANGED <<tables, objects, history, job, txn>>

(* make_bucket raises when another worker has made it in between.          *)
MakeBucket(w) ==
    /\ pc[w] = "make_bucket"
    /\ IF bucket
       THEN RetryFrom(w, "bucket")
       ELSE Goto(w, "raw") /\ UNCHANGED job
    /\ bucket' = TRUE
    /\ UNCHANGED <<tables, raw, markdown, metadata, history, txn>>

UploadRaw(w) ==
    /\ pc[w] = "raw"
    /\ raw' = [raw EXCEPT ![rid[w]] = doc[w]]
    /\ Goto(w, "extract")
    /\ UNCHANGED <<tables, bucket, markdown, metadata, history, job, txn>>

Extract(w) ==
    /\ pc[w] = "extract"
    /\ Goto(w, "markdown")
    /\ UNCHANGED <<tables, objects, history, job, txn>>

UploadMarkdown(w) ==
    /\ pc[w] = "markdown"
    /\ markdown' = [markdown EXCEPT ![rid[w]] = doc[w]]
    /\ Goto(w, "embed")
    /\ UNCHANGED <<tables, bucket, raw, metadata, history, job, txn>>

(* Chunking is deterministic and in memory; embedding is skipped when      *)
(* there is no chunk.                                                      *)
Embed(w) ==
    /\ pc[w] = "embed"
    /\ Goto(w, "persist")
    /\ UNCHANGED <<tables, objects, history, job, txn>>

(* The metadata JSON; on success ingest() answers 200.                     *)
UploadMetadata(w) ==
    /\ pc[w] = "metadata"
    /\ metadata' = [metadata EXCEPT ![rid[w]] = doc[w]]
    /\ Goto(w, "ok")
    /\ UNCHANGED <<tables, bucket, raw, markdown, history, job, txn>>

(* Mutated form of StageFails: a failed markdown upload is swallowed.      *)
StageFailsBestEffort(w) ==
    /\ pc[w] \in {"bucket", "make_bucket", "raw", "extract", "markdown",
                  "embed", "metadata"}
    /\ pc[w] = "embed" => Pages[doc[w]] # <<>>
    /\ IF pc[w] = "markdown"
       THEN Goto(w, "embed") /\ UNCHANGED job
       ELSE RetryFrom(w, IF pc[w] = "make_bucket" THEN "bucket" ELSE pc[w])
    /\ UNCHANGED <<tables, objects, history, txn>>

(* A stage under _retry raises: MinIO, the extractor or the GPU.           *)
StageFails(w) ==
    /\ pc[w] \in {"bucket", "make_bucket", "raw", "extract", "markdown",
                  "embed", "metadata"}
    /\ pc[w] = "embed" => Pages[doc[w]] # <<>>
    /\ RetryFrom(w, IF pc[w] = "make_bucket" THEN "bucket" ELSE pc[w])
    /\ UNCHANGED <<tables, objects, history, txn>>

(* What _retry does not repeat: an unreadable file, InvalidPdfError, a     *)
(* model that is not loaded, and the vector count check after the embed    *)
(* stage, which an out-of-memory embed fails because it returns no vectors.*)
StageAborts(w) ==
    /\ pc[w] \in {"read", "extract", "embed"}
    /\ pc[w] = "embed" => Pages[doc[w]] # <<>>
    /\ Abandon(w)
    /\ UNCHANGED <<tables, objects, history, txn>>

-----------------------------------------------------------------------------
(* _persist: DELETE the report's chunks, INSERT the new ones in ascending  *)
(* chunk_index, commit.                                                    *)

(* Mutated form of PersistBegin: the old chunks are not deleted.           *)
PersistBeginAppend(w) ==
    /\ pc[w] = "persist"
    /\ ConnectionFree
    /\ pc' = [pc EXCEPT ![w] = "deleting"]
    /\ UNCHANGED <<tables, objects, history, attempt, job, txn>>

PersistBegin(w) ==
    /\ pc[w] = "persist"
    /\ ConnectionFree
    /\ target' = [target EXCEPT ![w] = RowsOf(rid[w])]
    /\ pc' = [pc EXCEPT ![w] = "deleting"]
    /\ UNCHANGED <<tables, objects, history, attempt, job,
                   locked, inserted, counted>>

PersistDelete(w) ==
    /\ pc[w] = "deleting"
    /\ ~Waits(w)
    /\ locked' = [locked EXCEPT ![w] = target[w]]
    /\ target' = [target EXCEPT ![w] = {}]
    /\ pc' = [pc EXCEPT ![w] = "inserting"]
    /\ UNCHANGED <<tables, objects, history, attempt, job, inserted, counted>>

(* The unique index and the foreign key accept w's next row.               *)
Insertable(w) ==
    /\ \A c \in chunks \ locked[w] : ~SameKey(c, Row(w, inserted[w] + 1))
    /\ reports[rid[w]] # NoRow

PersistInsert(w) ==
    /\ pc[w] = "inserting"
    /\ inserted[w] < Len(Pages[doc[w]])
    /\ ~Waits(w)
    /\ Insertable(w)
    /\ inserted' = [inserted EXCEPT ![w] = @ + 1]
    /\ UNCHANGED <<tables, objects, history, pc, attempt, job,
                   target, locked, counted>>

(* Mutated form of PersistWrites: a commit inside the insert loop.         *)
PersistWritesEarly(w) ==
    /\ pc[w] = "inserting"
    /\ inserted[w] <= Len(Pages[doc[w]])
    /\ chunks' = (chunks \ locked[w]) \cup Pending(w)
    /\ published' = published \cup {<<rid[w], doc[w]>>}
    /\ EndTxn(w)
    /\ UNCHANGED <<reports, issued, objects, requests>>

PersistWrites(w) ==
    /\ pc[w] = "inserting"
    /\ inserted[w] = Len(Pages[doc[w]])
    /\ chunks' = (chunks \ locked[w]) \cup Pending(w)
    /\ published' = published \cup {<<rid[w], doc[w]>>}
    /\ EndTxn(w)
    /\ UNCHANGED <<reports, issued, objects, requests>>

PersistCommit(w) ==
    /\ PersistWrites(w)
    /\ Goto(w, "metadata")
    /\ UNCHANGED job

(* The connection breaks after the server has committed.                   *)
PersistCommitUnacknowledged(w) ==
    /\ PersistWrites(w)
    /\ RetryFrom(w, "persist")

(* A unique or foreign key violation, a lost connection, or no connection  *)
(* in time: the transaction rolls back and _retry decides.                 *)
PersistFails(w) ==
    /\ pc[w] \in {"persist"} \cup PersistTxn
    /\ RetryFrom(w, "persist")
    /\ Rollback(w)
    /\ UNCHANGED <<tables, objects, history>>

-----------------------------------------------------------------------------
(* DELETE /reports/{report_id}                                             *)

DeleteReport(w, r) ==
    /\ pc[w] \in Free
    /\ requests < MaxRequests
    /\ ConnectionFree
    /\ r \in issued
    /\ rid' = [rid EXCEPT ![w] = r]
    /\ chan' = [chan EXCEPT ![w] = NoChannel]
    /\ doc' = [doc EXCEPT ![w] = NoDoc]
    /\ target' = [target EXCEPT ![w] = RowsOf(r)]
    /\ counted' = [counted EXCEPT ![w] = {}]
    /\ Goto(w, "d_chunks")
    /\ requests' = requests + 1
    /\ UNCHANGED <<tables, objects, published, locked, inserted>>

(* DELETE FROM report_chunks; deleted_chunks = cur.rowcount                *)
DeleteChunks(w) ==
    /\ pc[w] = "d_chunks"
    /\ ~Waits(w)
    /\ locked' = [locked EXCEPT ![w] = target[w]]
    /\ counted' = [counted EXCEPT ![w] = target[w]]
    /\ target' = [target EXCEPT ![w] = {}]
    /\ Goto(w, "d_report")
    /\ UNCHANGED <<tables, objects, history, job, inserted>>

(* DELETE FROM reports, which cascades to the rows committed meanwhile.    *)
DeleteRow(w) ==
    /\ pc[w] = "d_report"
    /\ ~Waits(w)
    /\ reports[rid[w]] # NoRow
    /\ target' = [target EXCEPT ![w] = RowsOf(rid[w]) \ locked[w]]
    /\ Goto(w, "d_cascade")
    /\ UNCHANGED <<tables, objects, history, job, locked, inserted, counted>>

DeleteCascade(w) ==
    /\ pc[w] = "d_cascade"
    /\ ~Waits(w)
    /\ locked' = [locked EXCEPT ![w] = @ \cup target[w]]
    /\ target' = [target EXCEPT ![w] = {}]
    /\ Goto(w, "d_commit")
    /\ UNCHANGED <<tables, objects, history, job, inserted, counted>>

DeleteCommit(w) ==
    /\ pc[w] = "d_commit"
    /\ reports' = [reports EXCEPT ![rid[w]] = NoRow]
    /\ chunks' = chunks \ locked[w]
    /\ EndTxn(w)
    /\ Goto(w, "ok")
    /\ UNCHANGED <<issued, objects, history, job>>

(* The 404 of a report that is gone, and every database error: 500.        *)
DeleteFails(w) ==
    /\ pc[w] \in DeleteTxn
    /\ Abandon(w)
    /\ Rollback(w)
    /\ UNCHANGED <<tables, objects, history>>

-----------------------------------------------------------------------------

(* PostgreSQL aborts one transaction of a cycle of waiting ones.           *)
Deadlocked(w) ==
    \E S \in SUBSET Workers :
        /\ w \in S
        /\ \E next \in [S -> S] :
            /\ \A v \in S : WaitsFor(v, next[v])
            /\ \A u \in S : \E v \in S : next[v] = u

(* The process dies: threads and transactions are lost, the tables and     *)
(* the objects are not.                                                    *)
Restart ==
    /\ pc' = [w \in Workers |-> "idle"]
    /\ attempt' = [w \in Workers |-> 1]
    /\ chan' = [w \in Workers |-> NoChannel]
    /\ rid' = [w \in Workers |-> NoReport]
    /\ doc' = [w \in Workers |-> NoDoc]
    /\ target' = [w \in Workers |-> {}]
    /\ locked' = [w \in Workers |-> {}]
    /\ inserted' = [w \in Workers |-> 0]
    /\ counted' = [w \in Workers |-> {}]
    /\ UNCHANGED <<tables, objects, history>>

(* The steps that go on without anything failing.                          *)
Progress(w) ==
    \/ \E d \in Docs : ReadFile(w, d)
    \/ CheckBucket(w) \/ MakeBucket(w) \/ UploadRaw(w) \/ Extract(w)
    \/ UploadMarkdown(w) \/ Embed(w) \/ UploadMetadata(w)
    \/ PersistBegin(w) \/ PersistDelete(w) \/ PersistInsert(w)
    \/ PersistCommit(w)
    \/ DeleteChunks(w) \/ DeleteRow(w) \/ DeleteCascade(w) \/ DeleteCommit(w)

Failure(w) ==
    \/ StageFails(w) \/ StageAborts(w)
    \/ PersistFails(w) \/ PersistCommitUnacknowledged(w)
    \/ DeleteFails(w)

Next ==
    \/ \E w \in Workers :
        \/ \E c \in Channels, f \in Files : UpsertReport(w, c, f)
        \/ \E r \in ReportIds : DeleteReport(w, r)
        \/ Progress(w)
        \/ Failure(w)
    \/ Restart

Spec == Init /\ [][Next]_vars

(* A failure that is bound to come: the statement is refused, the report   *)
(* is gone (404), or the transaction is the victim of a deadlock.          *)
Refused(w) ==
    \/ /\ pc[w] = "inserting"
       /\ inserted[w] < Len(Pages[doc[w]])
       /\ ~Waits(w)
       /\ ~Insertable(w)
       /\ PersistFails(w)
    \/ /\ pc[w] = "d_report"
       /\ ~Waits(w)
       /\ reports[rid[w]] = NoRow
       /\ DeleteFails(w)
    \/ /\ Deadlocked(w)
       /\ PersistFails(w) \/ DeleteFails(w)

(* Threads run, calls to MinIO and the models return, PostgreSQL decides   *)
(* every statement; nothing obliges a failure to happen.                   *)
Fairness == \A w \in Workers : WF_vars(Progress(w)) /\ WF_vars(Refused(w))

FairSpec == Spec /\ Fairness

-----------------------------------------------------------------------------
(* Properties                                                              *)

(* Tenant isolation at the source: a committed chunk row has a report, and *)
(* the ChannelId copied onto it (main.py ingest -> run_ingest_from_path)   *)
(* is the channel of that report, whatever uploads, deletions and retries  *)
(* overlap.                                                                *)
ChunksBelongToReport ==
    \A c \in chunks : /\ reports[c.report] # NoRow
                      /\ reports[c.report].channel = c.channel

(* The rows a whole document has in report r.                              *)
DocumentRows(r, c, d) ==
    {[report |-> r, channel |-> c, page |-> Pages[d][i],
      index |-> i - 1, doc |-> d] : i \in 1 .. Len(Pages[d])}

(* _persist replaces a report's rows in one transaction: no reader finds   *)
(* a part of a document, even when several ingests of it overlap, fail,    *)
(* or are retried after a commit whose acknowledgement was lost.           *)
WholeDocuments ==
    \A c \in chunks : DocumentRows(c.report, c.channel, c.doc) \subseteq chunks

(* Stage 0, "so the source survives even if a later stage fails": a report *)
(* has its raw and markdown objects before its chunks become visible, and  *)
(* the metadata JSON describes a document whose chunks were committed.     *)
ObjectsFollowStages ==
    /\ \A c \in chunks : /\ raw[c.report] # NoDoc
                         /\ markdown[c.report] # NoDoc
    /\ \A r \in ReportIds : metadata[r] # NoDoc => <<r, metadata[r]>> \in published

(* The documents a report serves are those its committed rows come from,   *)
(* and every step of the service is a step of the abstract store: readers  *)
(* see documents appear, be replaced and disappear in single steps.        *)
Store == INSTANCE ReportStore WITH
            catalog <- reports,
            serves <- [r \in ReportIds |-> {c.doc : c \in RowsOf(r)}],
            Textless <- {d \in Docs : Pages[d] = <<>>}
ImplementsReportStore == Store!Spec

(* Every request is answered: _retry is bounded, lock waits end, and two   *)
(* connections are enough for any number of threads.                       *)
EveryRequestAnswered ==
    \A w \in Workers : pc[w] \notin Free ~> pc[w] \in Free

(* An ingest that was answered with success, and that no other request of  *)
(* this process overlapped, leaves exactly its document's rows and the     *)
(* three objects of that document, whatever earlier ingests of the report  *)
(* have left behind and however often its own stages were retried.         *)
AnsweredIngestStands ==
    \A w \in Workers :
        /\ pc[w] = "ok" /\ doc[w] # NoDoc
        /\ \A v \in Workers \ {w} : pc[v] = "idle"
        => /\ RowsOf(rid[w]) = DocumentRows(rid[w], chan[w], doc[w])
           /\ raw[rid[w]] = doc[w]
           /\ markdown[rid[w]] = doc[w]
           /\ metadata[rid[w]] = doc[w]

-----------------------------------------------------------------------------
(* What the repository says and the code does not do.                      *)

(* migrations/003_reports.sql: re-ingesting a file re-uses the row and     *)
(* "deletes the old report_chunks before re-inserting", so a report holds  *)
(* one document.                                                           *)
OneDocumentPerReport ==
    \A c, d \in chunks : c.report = d.report => c.doc = d.doc
=============================================================================
