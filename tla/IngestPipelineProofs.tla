------------------------ MODULE IngestPipelineProofs ------------------------
(***************************************************************************)
(* Proofs about IngestPipeline, for every number of threads, tenants,      *)
(* reports, documents, attempts and connections: its types, then tenant    *)
(* isolation, whole documents and the order of stages, each from an        *)
(* inductive invariant of its own, and last that every behaviour is one of *)
(* the abstract ReportStore.                                               *)
(***************************************************************************)
EXTENDS IngestPipeline, TLAPS

(* What a worker knows about its request at each stage.                    *)
WorkerOK(w) ==
    /\ pc[w] \in Stages \cup PersistTxn =>
         /\ chan[w] \in Channels
         /\ rid[w] \in issued
         /\ reports[rid[w]] # NoRow => reports[rid[w]].channel = chan[w]
    /\ pc[w] \in (Stages \ {"read"}) \cup PersistTxn => doc[w] \in Docs
    /\ pc[w] \in DeleteTxn => rid[w] \in issued
    /\ pc[w] = "inserting" => inserted[w] \in 0 .. Len(Pages[doc[w]])
    /\ pc[w] # "inserting" => inserted[w] = 0

JobOK == \A w \in Workers : WorkerOK(w)

(* Ids are never handed out twice.                                         *)
IssuedOK == \A r \in ReportIds : reports[r] # NoRow => r \in issued

TypeInv == TypeOK /\ JobOK /\ IssuedOK

LEMMA InitTypeInv == Init => TypeInv
<1> SUFFICES ASSUME Init PROVE TypeInv
  OBVIOUS
<1> USE ConstantsAssumption DEF Init
<1>1. TypeOK
  <2>1. /\ reports \in [ReportIds -> ReportRow \cup {NoRow}]
        /\ raw \in [ReportIds -> Docs \cup {NoDoc}]
        /\ markdown \in [ReportIds -> Docs \cup {NoDoc}]
        /\ metadata \in [ReportIds -> Docs \cup {NoDoc}]
    OBVIOUS
  <2>2. /\ pc \in [Workers -> Free \cup Stages \cup InTxn]
        /\ attempt \in [Workers -> 1 .. MaxAttempts]
    BY DEF Free
  <2>3. /\ chan \in [Workers -> Channels \cup {NoChannel}]
        /\ rid \in [Workers -> ReportIds \cup {NoReport}]
        /\ doc \in [Workers -> Docs \cup {NoDoc}]
    OBVIOUS
  <2>4. /\ target \in [Workers -> SUBSET ChunkRow]
        /\ locked \in [Workers -> SUBSET ChunkRow]
        /\ counted \in [Workers -> SUBSET ChunkRow]
    OBVIOUS
  <2>5. inserted \in [Workers -> Nat]
    OBVIOUS
  <2> QED
    BY <2>1, <2>2, <2>3, <2>4, <2>5 DEF TypeOK
<1>2. JobOK /\ IssuedOK
  BY DEF JobOK, WorkerOK, IssuedOK, Stages, PersistTxn, DeleteTxn
<1> QED
  BY <1>1, <1>2 DEF TypeInv

(* Leaving a request with an error keeps the worker's variables typed.     *)
LEMMA AbandonType ==
  ASSUME NEW w \in Workers, TypeOK, Abandon(w)
  PROVE  /\ pc' \in [Workers -> Free \cup Stages \cup InTxn]
         /\ attempt' \in [Workers -> 1 .. MaxAttempts]
         /\ chan' \in [Workers -> Channels \cup {NoChannel}]
         /\ rid' \in [Workers -> ReportIds \cup {NoReport}]
         /\ doc' \in [Workers -> Docs \cup {NoDoc}]
  BY ConstantsAssumption DEF TypeOK, Abandon, Goto, Free

LEMMA RetryType ==
  ASSUME NEW w \in Workers, NEW stage \in Stages, TypeOK, RetryFrom(w, stage)
  PROVE  /\ pc' \in [Workers -> Free \cup Stages \cup InTxn]
         /\ attempt' \in [Workers -> 1 .. MaxAttempts]
         /\ chan' \in [Workers -> Channels \cup {NoChannel}]
         /\ rid' \in [Workers -> ReportIds \cup {NoReport}]
         /\ doc' \in [Workers -> Docs \cup {NoDoc}]
<1>1. CASE attempt[w] < MaxAttempts
  <2>1. /\ pc' = [pc EXCEPT ![w] = stage]
        /\ attempt' = [attempt EXCEPT ![w] = attempt[w] + 1]
        /\ UNCHANGED <<chan, rid, doc>>
    BY <1>1 DEF RetryFrom, job
  <2>2. attempt[w] + 1 \in 1 .. MaxAttempts
    BY <1>1, ConstantsAssumption DEF TypeOK
  <2> QED
    BY <2>1, <2>2 DEF TypeOK
<1>2. CASE ~(attempt[w] < MaxAttempts)
  BY <1>2, AbandonType DEF RetryFrom
<1> QED
  BY <1>1, <1>2

(* The rows a transaction inserts are rows of the table.                   *)
LEMMA PendingType ==
  ASSUME TypeInv, NEW w \in Workers, pc[w] = "inserting"
  PROVE  Pending(w) \subseteq ChunkRow
<1>1. /\ rid[w] \in ReportIds
      /\ chan[w] \in Channels
      /\ doc[w] \in Docs
      /\ inserted[w] \in 0 .. Len(Pages[doc[w]])
  BY DEF TypeInv, TypeOK, JobOK, WorkerOK, PersistTxn
<1>2. Pages[doc[w]] \in Seq(Nat)
  BY <1>1, ConstantsAssumption
<1>3. \A i \in 1 .. inserted[w] : Row(w, i) \in ChunkRow
  <2> TAKE i \in 1 .. inserted[w]
  <2>1. i \in 1 .. Len(Pages[doc[w]])
    BY <1>1, <1>2
  <2>2. Pages[doc[w]][i] \in Nat /\ i - 1 \in Nat
    BY <1>2, <2>1
  <2> QED
    BY <1>1, <2>2 DEF Row, ChunkRow
<1> QED
  BY <1>3 DEF Pending

-----------------------------------------------------------------------------
(* Type correctness, one step per action.                                  *)

LEMMA UpsertType ==
  ASSUME TypeInv, NEW w \in Workers, NEW c \in Channels, NEW f \in Files,
         UpsertReport(w, c, f)
  PROVE  TypeInv'
<1> USE ConstantsAssumption DEF TypeInv
<1>1. PICK r \in ReportIds :
        /\ \/ reports[r] = [channel |-> c, file |-> f]
           \/ /\ r \notin issued
              /\ \A q \in ReportIds : reports[q] # [channel |-> c, file |-> f]
        /\ reports' = [reports EXCEPT ![r] = [channel |-> c, file |-> f]]
        /\ issued' = issued \cup {r}
        /\ rid' = [rid EXCEPT ![w] = r]
  BY DEF UpsertReport
<1>2. /\ chan' = [chan EXCEPT ![w] = c]
      /\ doc' = [doc EXCEPT ![w] = NoDoc]
      /\ counted' = [counted EXCEPT ![w] = {}]
      /\ pc' = [pc EXCEPT ![w] = "read"]
      /\ attempt' = [attempt EXCEPT ![w] = 1]
      /\ requests' = requests + 1
      /\ UNCHANGED <<chunks, objects, published, target, locked, inserted>>
      /\ pc[w] \in Free
  BY DEF UpsertReport, Goto
<1>3. [channel |-> c, file |-> f] \in ReportRow
  BY DEF ReportRow
<1>4. TypeOK'
  <2>1. /\ reports' \in [ReportIds -> ReportRow \cup {NoRow}]
        /\ issued' \subseteq ReportIds
        /\ rid' \in [Workers -> ReportIds \cup {NoReport}]
    BY <1>1, <1>3 DEF TypeOK
  <2>2. /\ pc' \in [Workers -> Free \cup Stages \cup InTxn]
        /\ attempt' \in [Workers -> 1 .. MaxAttempts]
    BY <1>2 DEF TypeOK, Stages
  <2>3. /\ chan' \in [Workers -> Channels \cup {NoChannel}]
        /\ doc' \in [Workers -> Docs \cup {NoDoc}]
        /\ counted' \in [Workers -> SUBSET ChunkRow]
        /\ requests' \in Nat
    BY <1>2 DEF TypeOK
  <2> QED
    BY <1>2, <2>1, <2>2, <2>3 DEF TypeOK, objects
<1>5. \A q \in issued : reports'[q] # NoRow => reports'[q] = reports[q]
  BY <1>1, <1>3 DEF TypeOK, ReportRow
<1>6. JobOK'
  <2> SUFFICES ASSUME NEW v \in Workers PROVE WorkerOK(v)'
    BY DEF JobOK
  <2>1. CASE v = w
    BY <1>1, <1>2, <1>4, <2>1
       DEF JobOK, WorkerOK, TypeOK, Free, Stages, PersistTxn, DeleteTxn
  <2>2. CASE v # w
    BY <1>1, <1>2, <1>4, <1>5, <2>2 DEF JobOK, WorkerOK, TypeOK
  <2> QED
    BY <2>1, <2>2
<1>7. IssuedOK'
  BY <1>1, <1>4 DEF IssuedOK, TypeOK
<1> QED
  BY <1>4, <1>6, <1>7

(* Nothing a worker knows depends on what another worker does to its own   *)
(* variables, as long as the table of reports stays as it is.              *)
LEMMA OtherWorkersOK ==
  ASSUME TypeInv, NEW w \in Workers, UNCHANGED <<reports, issued>>,
         \A v \in Workers \ {w} :
            /\ pc'[v] = pc[v]
            /\ chan'[v] = chan[v]
            /\ rid'[v] = rid[v]
            /\ doc'[v] = doc[v]
            /\ inserted'[v] = inserted[v],
         WorkerOK(w)'
  PROVE  JobOK' /\ IssuedOK'
<1>1. ASSUME NEW v \in Workers \ {w} PROVE WorkerOK(v)'
  BY <1>1 DEF TypeInv, JobOK, WorkerOK
<1>2. IssuedOK'
  BY DEF TypeInv, IssuedOK
<1> QED
  BY <1>1, <1>2 DEF JobOK

(* A worker that goes on to a later stage, or has answered, knows as much  *)
(* as before.                                                              *)
LEMMA AdvanceOK ==
  ASSUME TypeInv, NEW w \in Workers, pc[w] \in Stages \ {"read"},
         NEW stage \in (Stages \ {"read"}) \cup Free,
         pc' = [pc EXCEPT ![w] = stage],
         UNCHANGED <<reports, issued, job, inserted>>
  PROVE  JobOK' /\ IssuedOK'
<1> USE DEF TypeInv, TypeOK, job
<1>1. WorkerOK(w) /\ inserted[w] = 0
  BY DEF JobOK, WorkerOK, Stages
<1>2. pc'[w] = stage
  OBVIOUS
<1>3. stage \notin DeleteTxn /\ stage # "inserting"
  BY DEF Stages, Free, DeleteTxn
<1>4. WorkerOK(w)'
  BY <1>1, <1>2, <1>3 DEF WorkerOK
<1> QED
  BY <1>4, OtherWorkersOK

(* After Abandon a worker is free and knows nothing.                       *)
LEMMA AbandonOK ==
  ASSUME TypeInv, NEW w \in Workers, Abandon(w), inserted'[w] = 0,
         \A v \in Workers \ {w} : inserted'[v] = inserted[v],
         UNCHANGED <<reports, issued>>
  PROVE  JobOK' /\ IssuedOK'
<1>1. pc'[w] = "error"
  BY DEF Abandon, Goto, TypeInv, TypeOK
<1>2. WorkerOK(w)'
  BY <1>1 DEF WorkerOK, Stages, PersistTxn, DeleteTxn
<1>3. \A v \in Workers \ {w} : /\ pc'[v] = pc[v]
                               /\ chan'[v] = chan[v]
                               /\ rid'[v] = rid[v]
                               /\ doc'[v] = doc[v]
  BY DEF Abandon, Goto, TypeInv, TypeOK
<1> QED
  BY <1>2, <1>3, OtherWorkersOK

(* _retry from a stage or from inside the transaction.                     *)
LEMMA RetryOK ==
  ASSUME TypeInv, NEW w \in Workers,
         pc[w] \in (Stages \ {"read"}) \cup PersistTxn,
         NEW stage \in Stages \ {"read"}, RetryFrom(w, stage),
         inserted'[w] = 0,
         \A v \in Workers \ {w} : inserted'[v] = inserted[v],
         UNCHANGED <<reports, issued>>
  PROVE  JobOK' /\ IssuedOK'
<1>1. CASE attempt[w] < MaxAttempts
  <2>1. pc' = [pc EXCEPT ![w] = stage] /\ UNCHANGED <<chan, rid, doc>>
    BY <1>1 DEF RetryFrom, job
  <2>2. pc'[w] = stage
    BY <2>1 DEF TypeInv, TypeOK
  <2>3. WorkerOK(w)
    BY DEF TypeInv, JobOK
  <2>4. stage \notin DeleteTxn /\ stage # "inserting"
    BY DEF Stages, DeleteTxn
  <2>5. WorkerOK(w)'
    BY <2>1, <2>2, <2>3, <2>4 DEF WorkerOK
  <2>6. \A v \in Workers \ {w} : pc'[v] = pc[v]
    BY <2>1 DEF TypeInv, TypeOK
  <2> QED
    BY <2>1, <2>5, <2>6, OtherWorkersOK
<1>2. CASE ~(attempt[w] < MaxAttempts)
  BY <1>2, AbandonOK DEF RetryFrom
<1> QED
  BY <1>1, <1>2

(* The step of worker w moves to a stage with attempt 1.                   *)
LEMMA GotoType ==
  ASSUME TypeOK, NEW w \in Workers, NEW stage \in Free \cup Stages \cup InTxn,
         Goto(w, stage)
  PROVE  /\ pc' \in [Workers -> Free \cup Stages \cup InTxn]
         /\ attempt' \in [Workers -> 1 .. MaxAttempts]
  BY ConstantsAssumption DEF Goto, TypeOK

LEMMA StageType ==
  ASSUME TypeInv, NEW w \in Workers,
         \/ CheckBucket(w) \/ MakeBucket(w) \/ UploadRaw(w) \/ Extract(w)
         \/ UploadMarkdown(w) \/ Embed(w) \/ UploadMetadata(w)
  PROVE  TypeInv'
<1> USE DEF tables, objects, history, job, txn
<1>0. TypeOK
  BY DEF TypeInv
<1>1. CASE CheckBucket(w)
  <2>1. CASE bucket
    <3>1. Goto(w, "raw") /\ pc[w] = "bucket"
      BY <1>1, <2>1 DEF CheckBucket
    <3>2. TypeOK'
      BY <1>0, <1>1, <3>1, GotoType DEF CheckBucket, TypeOK, Stages
    <3> QED
      BY <1>1, <3>1, <3>2, AdvanceOK DEF CheckBucket, TypeInv, Goto, Stages
  <2>2. CASE ~bucket
    <3>1. pc[w] = "bucket" /\ pc' = [pc EXCEPT ![w] = "make_bucket"]
      BY <1>1, <2>2 DEF CheckBucket
    <3>2. TypeOK'
      BY <1>0, <1>1, <2>2, <3>1 DEF CheckBucket, TypeOK, Stages
    <3> QED
      BY <1>1, <3>1, <3>2, AdvanceOK DEF CheckBucket, TypeInv, Stages
  <2> QED
    BY <2>1, <2>2
<1>2. CASE MakeBucket(w)
  <2>1. CASE bucket
    <3>1. RetryFrom(w, "bucket") /\ pc[w] = "make_bucket"
      BY <1>2, <2>1 DEF MakeBucket
    <3>2. TypeOK'
      BY <1>0, <1>2, <3>1, RetryType DEF MakeBucket, TypeOK, Stages
    <3>3. inserted'[w] = 0
      BY <1>2, <3>1 DEF MakeBucket, TypeInv, JobOK, WorkerOK
    <3> QED
      BY <1>2, <3>1, <3>2, <3>3, RetryOK DEF MakeBucket, TypeInv, Stages
  <2>2. CASE ~bucket
    <3>1. Goto(w, "raw") /\ pc[w] = "make_bucket"
      BY <1>2, <2>2 DEF MakeBucket
    <3>2. TypeOK'
      BY <1>0, <1>2, <2>2, <3>1, GotoType DEF MakeBucket, TypeOK, Stages
    <3> QED
      BY <1>2, <2>2, <3>1, <3>2, AdvanceOK DEF MakeBucket, TypeInv, Goto, Stages
  <2> QED
    BY <2>1, <2>2
<1>3. CASE UploadRaw(w)
  <2>1. Goto(w, "extract") /\ pc[w] = "raw"
    BY <1>3 DEF UploadRaw
  <2>2. TypeOK'
    BY <1>0, <1>3, <2>1, GotoType DEF UploadRaw, TypeOK, Stages
  <2> QED
    BY <1>3, <2>1, <2>2, AdvanceOK DEF UploadRaw, TypeInv, Goto, Stages
<1>4. CASE Extract(w)
  <2>1. Goto(w, "markdown") /\ pc[w] = "extract"
    BY <1>4 DEF Extract
  <2>2. TypeOK'
    BY <1>0, <1>4, <2>1, GotoType DEF Extract, TypeOK, Stages
  <2> QED
    BY <1>4, <2>1, <2>2, AdvanceOK DEF Extract, TypeInv, Goto, Stages
<1>5. CASE UploadMarkdown(w)
  <2>1. Goto(w, "embed") /\ pc[w] = "markdown"
    BY <1>5 DEF UploadMarkdown
  <2>2. TypeOK'
    BY <1>0, <1>5, <2>1, GotoType DEF UploadMarkdown, TypeOK, Stages
  <2> QED
    BY <1>5, <2>1, <2>2, AdvanceOK DEF UploadMarkdown, TypeInv, Goto, Stages
<1>6. CASE Embed(w)
  <2>1. Goto(w, "persist") /\ pc[w] = "embed"
    BY <1>6 DEF Embed
  <2>2. TypeOK'
    BY <1>0, <1>6, <2>1, GotoType DEF Embed, TypeOK, Stages
  <2> QED
    BY <1>6, <2>1, <2>2, AdvanceOK DEF Embed, TypeInv, Goto, Stages
<1>7. CASE UploadMetadata(w)
  <2>1. Goto(w, "ok") /\ pc[w] = "metadata"
    BY <1>7 DEF UploadMetadata
  <2>2. TypeOK'
    BY <1>0, <1>7, <2>1, GotoType DEF UploadMetadata, TypeOK, Free
  <2> QED
    BY <1>7, <2>1, <2>2, AdvanceOK DEF UploadMetadata, TypeInv, Goto, Stages, Free
<1> QED
  BY <1>1, <1>2, <1>3, <1>4, <1>5, <1>6, <1>7

LEMMA ReadFileType ==
  ASSUME TypeInv, NEW w \in Workers, NEW d \in Docs, ReadFile(w, d)
  PROVE  TypeInv'
<1> USE DEF tables, objects, history, txn
<1>1. /\ pc[w] = "read" /\ Goto(w, "bucket")
      /\ doc' = [doc EXCEPT ![w] = d]
      /\ UNCHANGED <<tables, objects, history, chan, rid, txn>>
  BY DEF ReadFile
<1>2. TypeOK'
  BY <1>1, GotoType DEF TypeInv, TypeOK, Stages
<1>3. WorkerOK(w)'
  BY <1>1 DEF TypeInv, TypeOK, JobOK, WorkerOK, Goto, Stages, DeleteTxn
<1>4. \A v \in Workers \ {w} : pc'[v] = pc[v] /\ doc'[v] = doc[v]
  BY <1>1 DEF Goto, TypeInv, TypeOK
<1> QED
  BY <1>1, <1>2, <1>3, <1>4, OtherWorkersOK DEF TypeInv

LEMMA StageFailureType ==
  ASSUME TypeInv, NEW w \in Workers, StageFails(w) \/ StageAborts(w)
  PROVE  TypeInv'
<1> USE DEF tables, objects, history, txn
<1>1. CASE StageFails(w)
  <2>1. PICK stage \in Stages \ {"read"} : RetryFrom(w, stage)
    BY <1>1 DEF StageFails, Stages
  <2>2. pc[w] \in Stages \ {"read"}
    BY <1>1 DEF StageFails, Stages
  <2>3. TypeOK'
    BY <1>1, <2>1, RetryType DEF StageFails, TypeInv, TypeOK
  <2>4. inserted'[w] = 0
    BY <1>1, <2>2 DEF StageFails, TypeInv, JobOK, WorkerOK, Stages
  <2> QED
    BY <1>1, <2>1, <2>2, <2>3, <2>4, RetryOK DEF StageFails, TypeInv
<1>2. CASE StageAborts(w)
  <2>1. TypeOK'
    BY <1>2, AbandonType DEF StageAborts, TypeInv, TypeOK
  <2>2. inserted'[w] = 0
    BY <1>2 DEF StageAborts, TypeInv, JobOK, WorkerOK
  <2> QED
    BY <1>2, <2>1, <2>2, AbandonOK DEF StageAborts, TypeInv
<1> QED
  BY <1>1, <1>2

LEMMA PersistType ==
  ASSUME TypeInv, NEW w \in Workers,
         PersistBegin(w) \/ PersistDelete(w) \/ PersistInsert(w)
  PROVE  TypeInv'
<1> USE DEF tables, objects, history, job
<1>0. TypeOK /\ WorkerOK(w)
  BY DEF TypeInv, JobOK
<1>1. CASE PersistBegin(w)
  <2>1. /\ pc[w] = "persist"
        /\ pc' = [pc EXCEPT ![w] = "deleting"]
        /\ target' = [target EXCEPT ![w] = RowsOf(rid[w])]
        /\ UNCHANGED <<tables, objects, history, attempt, job,
                       locked, inserted, counted>>
    BY <1>1 DEF PersistBegin
  <2>2. RowsOf(rid[w]) \subseteq ChunkRow
    BY <1>0 DEF RowsOf, TypeOK
  <2>3. TypeOK'
    BY <1>0, <2>1, <2>2 DEF TypeOK, InTxn, PersistTxn
  <2>4. WorkerOK(w)'
    BY <1>0, <2>1 DEF TypeOK, WorkerOK, Stages, PersistTxn, DeleteTxn
  <2>5. \A v \in Workers \ {w} : pc'[v] = pc[v]
    BY <1>0, <2>1 DEF TypeOK
  <2> QED
    BY <2>1, <2>3, <2>4, <2>5, OtherWorkersOK DEF TypeInv
<1>2. CASE PersistDelete(w)
  <2>1. /\ pc[w] = "deleting"
        /\ pc' = [pc EXCEPT ![w] = "inserting"]
        /\ locked' = [locked EXCEPT ![w] = target[w]]
        /\ target' = [target EXCEPT ![w] = {}]
        /\ UNCHANGED <<tables, objects, history, attempt, job,
                       inserted, counted>>
    BY <1>2 DEF PersistDelete
  <2>2. TypeOK'
    BY <1>0, <2>1 DEF TypeOK, InTxn, PersistTxn
  <2>3. Len(Pages[doc[w]]) \in Nat
    BY <1>0, <2>1, ConstantsAssumption DEF WorkerOK, PersistTxn
  <2>4. WorkerOK(w)'
    BY <1>0, <2>1, <2>3 DEF TypeOK, WorkerOK, Stages, PersistTxn, DeleteTxn
  <2>5. \A v \in Workers \ {w} : pc'[v] = pc[v]
    BY <1>0, <2>1 DEF TypeOK
  <2> QED
    BY <2>1, <2>2, <2>4, <2>5, OtherWorkersOK DEF TypeInv
<1>3. CASE PersistInsert(w)
  <2>1. /\ pc[w] = "inserting"
        /\ inserted[w] < Len(Pages[doc[w]])
        /\ inserted' = [inserted EXCEPT ![w] = inserted[w] + 1]
        /\ UNCHANGED <<tables, objects, history, pc, attempt, job,
                       target, locked, counted>>
    BY <1>3 DEF PersistInsert
  <2>2. TypeOK'
    BY <1>0, <2>1 DEF TypeOK
  <2>3. Len(Pages[doc[w]]) \in Nat
    BY <1>0, <2>1, ConstantsAssumption DEF WorkerOK, PersistTxn
  <2>4. WorkerOK(w)'
    BY <1>0, <2>1, <2>3 DEF TypeOK, WorkerOK
  <2>5. \A v \in Workers \ {w} : inserted'[v] = inserted[v]
    BY <1>0, <2>1 DEF TypeOK
  <2> QED
    BY <2>1, <2>2, <2>4, <2>5, OtherWorkersOK DEF TypeInv
<1> QED
  BY <1>1, <1>2, <1>3

LEMMA CommitType ==
  ASSUME TypeInv, NEW w \in Workers,
         PersistCommit(w) \/ PersistCommitUnacknowledged(w)
  PROVE  TypeInv'
<1> USE DEF objects, history
<1>0. TypeOK /\ WorkerOK(w)
  BY DEF TypeInv, JobOK
<1>1. PersistWrites(w)
  BY DEF PersistCommit, PersistCommitUnacknowledged
<1>2. /\ pc[w] = "inserting"
      /\ chunks' = (chunks \ locked[w]) \cup Pending(w)
      /\ published' = published \cup {<<rid[w], doc[w]>>}
      /\ EndTxn(w)
      /\ UNCHANGED <<reports, issued, objects, requests>>
  BY <1>1 DEF PersistWrites
<1>3. /\ chunks' \subseteq ChunkRow
      /\ published' \subseteq ReportIds \X Docs
  BY <1>0, <1>2, PendingType DEF TypeOK, WorkerOK, PersistTxn
<1>4. /\ target' \in [Workers -> SUBSET ChunkRow]
      /\ locked' \in [Workers -> SUBSET ChunkRow]
      /\ inserted' \in [Workers -> Nat]
      /\ counted' \in [Workers -> SUBSET ChunkRow]
  BY <1>0, <1>2 DEF EndTxn, TypeOK
<1>5. /\ inserted'[w] = 0
      /\ \A v \in Workers \ {w} : inserted'[v] = inserted[v]
  BY <1>0, <1>2 DEF EndTxn, TypeOK
<1>6. CASE PersistCommit(w)
  <2>1. Goto(w, "metadata") /\ UNCHANGED job
    BY <1>6 DEF PersistCommit
  <2>2. TypeOK'
    BY <1>0, <1>2, <1>3, <1>4, <2>1, GotoType DEF TypeOK, Stages, job
  <2>3. WorkerOK(w)'
    BY <1>0, <1>2, <1>5, <2>1
       DEF TypeOK, WorkerOK, Goto, Stages, PersistTxn, DeleteTxn, job
  <2>4. \A v \in Workers \ {w} : pc'[v] = pc[v]
    BY <1>0, <2>1 DEF TypeOK, Goto
  <2> QED
    BY <1>2, <1>5, <2>1, <2>2, <2>3, <2>4, OtherWorkersOK DEF TypeInv, job
<1>7. CASE PersistCommitUnacknowledged(w)
  <2>1. RetryFrom(w, "persist")
    BY <1>7 DEF PersistCommitUnacknowledged
  <2>2. TypeOK'
    BY <1>0, <1>2, <1>3, <1>4, <2>1, RetryType DEF TypeOK, Stages
  <2> QED
    BY <1>2, <1>5, <2>1, <2>2, RetryOK DEF TypeInv, Stages, PersistTxn
<1> QED
  BY <1>6, <1>7

(* Rolling back empties what w's transaction has done.                     *)
LEMMA RollbackType ==
  ASSUME TypeOK, NEW w \in Workers, Rollback(w)
  PROVE  /\ target' \in [Workers -> SUBSET ChunkRow]
         /\ locked' \in [Workers -> SUBSET ChunkRow]
         /\ inserted' \in [Workers -> Nat]
         /\ counted' \in [Workers -> SUBSET ChunkRow]
         /\ inserted'[w] = 0
         /\ \A v \in Workers \ {w} : inserted'[v] = inserted[v]
  BY DEF TypeOK, Rollback

LEMMA TxnFailureType ==
  ASSUME TypeInv, NEW w \in Workers, PersistFails(w) \/ DeleteFails(w)
  PROVE  TypeInv'
<1> USE DEF tables, objects, history
<1>1. CASE PersistFails(w)
  <2>1. RetryFrom(w, "persist") /\ Rollback(w)
    BY <1>1 DEF PersistFails
  <2>2. TypeOK'
    BY <1>1, <2>1, RetryType, RollbackType DEF PersistFails, TypeInv, TypeOK, Stages
  <2> QED
    BY <1>1, <2>1, <2>2, RetryOK, RollbackType DEF PersistFails, TypeInv, Stages
<1>2. CASE DeleteFails(w)
  <2>1. Abandon(w) /\ Rollback(w)
    BY <1>2 DEF DeleteFails
  <2>2. TypeOK'
    BY <1>2, <2>1, AbandonType, RollbackType DEF DeleteFails, TypeInv, TypeOK
  <2> QED
    BY <1>2, <2>1, <2>2, AbandonOK, RollbackType DEF DeleteFails, TypeInv
<1> QED
  BY <1>1, <1>2

(* Inside delete_report's transaction only the locks move.                 *)
LEMMA DeleteStepType ==
  ASSUME TypeInv, NEW w \in Workers,
         DeleteChunks(w) \/ DeleteRow(w) \/ DeleteCascade(w)
  PROVE  TypeInv'
<1> USE DEF tables, objects, history, job
<1>0. TypeOK /\ WorkerOK(w)
  BY DEF TypeInv, JobOK
<1>1. PICK stage \in DeleteTxn : Goto(w, stage)
  BY DEF DeleteChunks, DeleteRow, DeleteCascade, DeleteTxn
<1>2. pc[w] \in DeleteTxn
  BY DEF DeleteChunks, DeleteRow, DeleteCascade, DeleteTxn
<1>3. UNCHANGED <<tables, objects, history, job, inserted>>
  BY DEF DeleteChunks, DeleteRow, DeleteCascade
<1>4. RowsOf(rid[w]) \subseteq ChunkRow
  BY <1>0 DEF RowsOf, TypeOK
<1>5. /\ target' \in [Workers -> SUBSET ChunkRow]
      /\ locked' \in [Workers -> SUBSET ChunkRow]
      /\ counted' \in [Workers -> SUBSET ChunkRow]
  <2>1. CASE DeleteChunks(w)
    BY <1>0, <2>1 DEF DeleteChunks, TypeOK
  <2>2. CASE DeleteRow(w)
    BY <1>0, <1>4, <2>2 DEF DeleteRow, TypeOK
  <2>3. CASE DeleteCascade(w)
    BY <1>0, <2>3 DEF DeleteCascade, TypeOK
  <2> QED
    BY <2>1, <2>2, <2>3
<1>6. TypeOK'
  BY <1>0, <1>1, <1>3, <1>5, GotoType DEF TypeOK, InTxn
<1>7. WorkerOK(w)'
  BY <1>0, <1>1, <1>2, <1>3
     DEF TypeOK, WorkerOK, Goto, Stages, PersistTxn, DeleteTxn
<1>8. \A v \in Workers \ {w} : pc'[v] = pc[v]
  BY <1>0, <1>1 DEF TypeOK, Goto
<1> QED
  BY <1>3, <1>6, <1>7, <1>8, OtherWorkersOK DEF TypeInv

LEMMA DeleteReportType ==
  ASSUME TypeInv, NEW w \in Workers, NEW r \in ReportIds, DeleteReport(w, r)
  PROVE  TypeInv'
<1> USE DEF tables, objects
<1>0. TypeOK /\ WorkerOK(w)
  BY DEF TypeInv, JobOK
<1>1. /\ pc[w] \in Free
      /\ r \in issued
      /\ rid' = [rid EXCEPT ![w] = r]
      /\ chan' = [chan EXCEPT ![w] = NoChannel]
      /\ doc' = [doc EXCEPT ![w] = NoDoc]
      /\ target' = [target EXCEPT ![w] = RowsOf(r)]
      /\ counted' = [counted EXCEPT ![w] = {}]
      /\ Goto(w, "d_chunks")
      /\ requests' = requests + 1
      /\ UNCHANGED <<tables, objects, published, locked, inserted>>
  BY DEF DeleteReport
<1>2. RowsOf(r) \subseteq ChunkRow
  BY <1>0 DEF RowsOf, TypeOK
<1>3. /\ rid' \in [Workers -> ReportIds \cup {NoReport}]
      /\ chan' \in [Workers -> Channels \cup {NoChannel}]
      /\ doc' \in [Workers -> Docs \cup {NoDoc}]
      /\ target' \in [Workers -> SUBSET ChunkRow]
      /\ counted' \in [Workers -> SUBSET ChunkRow]
  BY <1>0, <1>1, <1>2 DEF TypeOK
<1>4. TypeOK'
  BY <1>0, <1>1, <1>3, GotoType DEF TypeOK, InTxn, DeleteTxn
<1>5. WorkerOK(w)'
  BY <1>0, <1>1 DEF TypeOK, WorkerOK, Goto, Free, Stages, PersistTxn, DeleteTxn
<1>6. \A v \in Workers \ {w} : /\ pc'[v] = pc[v]
                               /\ chan'[v] = chan[v]
                               /\ rid'[v] = rid[v]
                               /\ doc'[v] = doc[v]
  BY <1>0, <1>1 DEF TypeOK, Goto
<1> QED
  BY <1>1, <1>4, <1>5, <1>6, OtherWorkersOK DEF TypeInv

LEMMA DeleteCommitType ==
  ASSUME TypeInv, NEW w \in Workers, DeleteCommit(w)
  PROVE  TypeInv'
<1> USE DEF objects, history, job
<1>0. TypeOK /\ WorkerOK(w)
  BY DEF TypeInv, JobOK
<1>1. /\ pc[w] = "d_commit"
      /\ reports' = [reports EXCEPT ![rid[w]] = NoRow]
      /\ chunks' = chunks \ locked[w]
      /\ EndTxn(w)
      /\ Goto(w, "ok")
      /\ UNCHANGED <<issued, objects, history, job>>
  BY DEF DeleteCommit
<1>2. rid[w] \in ReportIds
  BY <1>0, <1>1 DEF WorkerOK, DeleteTxn, TypeOK
<1>3. TypeOK'
  <2>1. /\ reports' \in [ReportIds -> ReportRow \cup {NoRow}]
        /\ chunks' \subseteq ChunkRow
    BY <1>0, <1>1 DEF TypeOK
  <2>2. /\ target' \in [Workers -> SUBSET ChunkRow]
        /\ locked' \in [Workers -> SUBSET ChunkRow]
        /\ inserted' \in [Workers -> Nat]
        /\ counted' \in [Workers -> SUBSET ChunkRow]
    BY <1>0, <1>1 DEF EndTxn, TypeOK
  <2> QED
    BY <1>0, <1>1, <2>1, <2>2, GotoType DEF TypeOK, Free
<1>4. ASSUME NEW v \in Workers PROVE WorkerOK(v)'
  <2>1. WorkerOK(v)
    BY DEF TypeInv, JobOK
  <2>2. CASE v = w
    BY <1>0, <1>1, <2>2
       DEF TypeOK, WorkerOK, Goto, EndTxn, Stages, PersistTxn, DeleteTxn
  <2>3. CASE v # w
    <3>1. /\ pc'[v] = pc[v]
          /\ inserted'[v] = inserted[v]
      BY <1>0, <1>1, <2>3 DEF TypeOK, Goto, EndTxn
    <3>2. reports'[rid[v]] # NoRow => reports'[rid[v]] = reports[rid[v]]
      BY <1>0, <1>1, <1>2 DEF TypeOK
    <3> QED
      BY <1>1, <2>1, <3>1, <3>2 DEF WorkerOK
  <2> QED
    BY <2>2, <2>3
<1>5. IssuedOK'
  BY <1>0, <1>1 DEF TypeInv, IssuedOK, TypeOK
<1> QED
  BY <1>3, <1>4, <1>5 DEF TypeInv, JobOK

LEMMA RestartType == ASSUME TypeInv, Restart PROVE TypeInv'
<1> USE DEF tables, objects, history
<1>1. /\ pc' \in [Workers -> Free \cup Stages \cup InTxn]
      /\ \A w \in Workers : pc'[w] = "idle"
  BY DEF Restart, Free
<1>2. /\ attempt' \in [Workers -> 1 .. MaxAttempts]
      /\ inserted' \in [Workers -> Nat]
  BY ConstantsAssumption DEF Restart
<1>3. /\ chan' \in [Workers -> Channels \cup {NoChannel}]
      /\ rid' \in [Workers -> ReportIds \cup {NoReport}]
      /\ doc' \in [Workers -> Docs \cup {NoDoc}]
  BY DEF Restart
<1>4. /\ target' \in [Workers -> SUBSET ChunkRow]
      /\ locked' \in [Workers -> SUBSET ChunkRow]
      /\ counted' \in [Workers -> SUBSET ChunkRow]
  BY DEF Restart
<1>5. TypeOK'
  BY <1>1, <1>2, <1>3, <1>4 DEF TypeInv, TypeOK, Restart
<1>6. JobOK'
  BY <1>1 DEF Restart, JobOK, WorkerOK, Stages, PersistTxn, DeleteTxn
<1> QED
  BY <1>5, <1>6 DEF Restart, TypeInv, IssuedOK

LEMMA NextTypeInv == TypeInv /\ [Next]_vars => TypeInv'
<1> SUFFICES ASSUME TypeInv, [Next]_vars PROVE TypeInv'
  OBVIOUS
<1>1. ASSUME NEW w \in Workers, NEW c \in Channels, NEW f \in Files,
             UpsertReport(w, c, f)
      PROVE  TypeInv'
  BY <1>1, UpsertType
<1>2. ASSUME NEW w \in Workers, NEW r \in ReportIds, DeleteReport(w, r)
      PROVE  TypeInv'
  BY <1>2, DeleteReportType
<1>3. ASSUME NEW w \in Workers, Progress(w) PROVE TypeInv'
  BY <1>3, ReadFileType, StageType, PersistType, CommitType, DeleteStepType,
     DeleteCommitType DEF Progress
<1>4. ASSUME NEW w \in Workers, Failure(w) PROVE TypeInv'
  BY <1>4, StageFailureType, CommitType, TxnFailureType DEF Failure
<1>5. CASE Restart
  BY <1>5, RestartType
<1>6. CASE UNCHANGED vars
  BY <1>6 DEF vars, tables, objects, history, job, txn, TypeInv, TypeOK,
              JobOK, WorkerOK, IssuedOK
<1> QED
  BY <1>1, <1>2, <1>3, <1>4, <1>5, <1>6 DEF Next

LEMMA TypeInvHolds == Spec => []TypeInv
  BY InitTypeInv, NextTypeInv, PTL DEF Spec

(* Every variable keeps its type; in particular a worker is never past the *)
(* last attempt of _retry.                                                 *)
THEOREM TypeCorrect == Spec => []TypeOK
<1>1. TypeInv => TypeOK
  BY DEF TypeInv
<1> QED
  BY <1>1, TypeInvHolds, PTL

-----------------------------------------------------------------------------
(***************************************************************************)
(* Tenant isolation, from what the locks of the open transactions cover.   *)
(***************************************************************************)

(* A deletion that has locked the report row covers every chunk of the     *)
(* report: by the rows it has deleted, or the ones its cascade waits for.  *)
RemovalOK ==
    \A w \in Workers :
        /\ pc[w] \in {"d_cascade", "d_commit"} =>
             \A c \in chunks : c.report = rid[w] => c \in locked[w] \cup target[w]
        /\ pc[w] = "d_commit" => target[w] = {}

(* A transaction that has inserted a row keeps its report from deletion.   *)
KeyShareOK ==
    \A w \in Workers :
        pc[w] = "inserting" /\ inserted[w] > 0 =>
            /\ reports[rid[w]] # NoRow
            /\ \A v \in Workers : ~RemovesReport(v, rid[w])

LockInv == ChunksBelongToReport /\ RemovalOK /\ KeyShareOK

(* A step of w that touches neither table and leaves w outside the two     *)
(* phases LockInv speaks of.                                               *)
LEMMA QuietStep ==
  ASSUME LockInv, NEW w \in Workers, UNCHANGED <<reports, chunks>>,
         pc'[w] \notin {"d_cascade", "d_commit"},
         pc'[w] = "inserting" => inserted'[w] = 0,
         \A v \in Workers \ {w} :
            /\ pc'[v] = pc[v]
            /\ rid'[v] = rid[v]
            /\ target'[v] = target[v]
            /\ locked'[v] = locked[v]
            /\ inserted'[v] = inserted[v]
  PROVE  LockInv'
<1>1. ChunksBelongToReport'
  BY DEF LockInv, ChunksBelongToReport
<1>2. RemovalOK'
  BY DEF LockInv, RemovalOK
<1>3. KeyShareOK'
  BY DEF LockInv, KeyShareOK, RemovesReport
<1> QED
  BY <1>1, <1>2, <1>3 DEF LockInv

LEMMA InitLockInv == Init => LockInv
  BY DEF Init, LockInv, ChunksBelongToReport, RemovalOK, KeyShareOK

(* Upserting a report moves no chunk: its id is new, or keeps its channel. *)
LEMMA UpsertLock ==
  ASSUME TypeInv, LockInv, NEW w \in Workers, NEW c \in Channels, NEW f \in Files,
         UpsertReport(w, c, f)
  PROVE  LockInv'
<1>1. PICK r \in ReportIds :
        /\ \/ reports[r] = [channel |-> c, file |-> f]
           \/ r \notin issued
        /\ reports' = [reports EXCEPT ![r] = [channel |-> c, file |-> f]]
        /\ rid' = [rid EXCEPT ![w] = r]
  BY DEF UpsertReport
<1>2. /\ pc' = [pc EXCEPT ![w] = "read"]
      /\ UNCHANGED <<chunks, target, locked, inserted>>
  BY DEF UpsertReport, Goto
<1>3. r \notin issued => reports[r] = NoRow
  BY DEF TypeInv, IssuedOK
<1>4. \A q \in ReportIds : reports[q] # NoRow => reports'[q] = reports[q]
  BY <1>1, <1>3 DEF TypeInv, TypeOK
<1>5. \A e \in chunks : e.report \in ReportIds
  BY DEF TypeInv, TypeOK, ChunkRow
<1>6. ChunksBelongToReport'
  BY <1>2, <1>4, <1>5 DEF LockInv, ChunksBelongToReport
<1>7. pc'[w] = "read" /\ \A v \in Workers \ {w} : pc'[v] = pc[v] /\ rid'[v] = rid[v]
  BY <1>1, <1>2 DEF TypeInv, TypeOK
<1>8. RemovalOK'
  BY <1>2, <1>7 DEF LockInv, RemovalOK
<1>9. KeyShareOK'
  <2> SUFFICES ASSUME NEW v \in Workers, pc'[v] = "inserting", inserted'[v] > 0
               PROVE  (/\ reports[rid[v]] # NoRow
                       /\ \A u \in Workers : ~RemovesReport(u, rid[v]))'
    BY DEF KeyShareOK
  <2>1. v # w /\ pc[v] = "inserting" /\ inserted[v] > 0 /\ rid'[v] = rid[v]
    BY <1>2, <1>7
  <2>2. /\ reports[rid[v]] # NoRow
        /\ \A u \in Workers : ~RemovesReport(u, rid[v])
    BY <2>1 DEF LockInv, KeyShareOK
  <2>3. rid[v] \in ReportIds
    BY <2>1 DEF TypeInv, TypeOK, JobOK, WorkerOK, PersistTxn
  <2> QED
    BY <1>4, <1>7, <2>1, <2>2, <2>3 DEF RemovesReport
<1> QED
  BY <1>6, <1>8, <1>9 DEF LockInv

(* A worker in a stage or at its answer has no transaction open.           *)
LEMMA StageLock ==
  ASSUME TypeInv, LockInv, NEW w \in Workers,
         \/ \E d \in Docs : ReadFile(w, d)
         \/ CheckBucket(w) \/ MakeBucket(w) \/ UploadRaw(w) \/ Extract(w)
         \/ UploadMarkdown(w) \/ Embed(w) \/ UploadMetadata(w)
         \/ StageFails(w) \/ StageAborts(w)
  PROVE  LockInv'
<1> USE DEF tables, objects, history, job, txn
<1>1. UNCHANGED <<reports, chunks, txn>>
  BY DEF ReadFile, CheckBucket, MakeBucket, UploadRaw, Extract, UploadMarkdown,
         Embed, UploadMetadata, StageFails, StageAborts
<1>2. \E stage \in Stages \cup Free : pc' = [pc EXCEPT ![w] = stage]
  BY DEF ReadFile, CheckBucket, MakeBucket, UploadRaw, Extract, UploadMarkdown,
         Embed, UploadMetadata, StageFails, StageAborts, RetryFrom, Abandon,
         Goto, Stages, Free
<1>3. \A v \in Workers \ {w} : rid'[v] = rid[v]
  BY DEF ReadFile, CheckBucket, MakeBucket, UploadRaw, Extract, UploadMarkdown,
         Embed, UploadMetadata, StageFails, StageAborts, RetryFrom, Abandon,
         TypeInv, TypeOK
<1>4. /\ pc'[w] \notin {"d_cascade", "d_commit", "inserting"}
      /\ \A v \in Workers \ {w} : pc'[v] = pc[v]
  BY <1>2 DEF Stages, Free, TypeInv, TypeOK
<1> QED
  BY <1>1, <1>3, <1>4, QuietStep

(* Statements that delete nothing yet visible, and every rollback.         *)
LEMMA QuietTxnLock ==
  ASSUME TypeInv, LockInv, NEW w \in Workers,
         \/ PersistBegin(w) \/ PersistDelete(w) \/ PersistFails(w)
         \/ DeleteChunks(w) \/ DeleteFails(w)
         \/ \E r \in ReportIds : DeleteReport(w, r)
  PROVE  LockInv'
<1> USE DEF tables, objects, history, job, TypeInv, TypeOK
<1>1. CASE PersistBegin(w)
  BY <1>1, QuietStep DEF PersistBegin
<1>2. CASE PersistDelete(w)
  BY <1>2, QuietStep DEF PersistDelete, JobOK, WorkerOK
<1>3. CASE PersistFails(w)
  <2>1. /\ UNCHANGED <<reports, chunks>>
        /\ \A v \in Workers \ {w} : /\ target'[v] = target[v]
                                    /\ locked'[v] = locked[v]
                                    /\ inserted'[v] = inserted[v]
    BY <1>3 DEF PersistFails, Rollback
  <2>2. /\ pc'[w] \in {"persist", "error"}
        /\ \A v \in Workers \ {w} : pc'[v] = pc[v] /\ rid'[v] = rid[v]
    BY <1>3 DEF PersistFails, RetryFrom, Abandon, Goto
  <2> QED
    BY <2>1, <2>2, QuietStep
<1>4. CASE DeleteChunks(w)
  BY <1>4, QuietStep DEF DeleteChunks, Goto
<1>5. CASE DeleteFails(w)
  <2>1. /\ UNCHANGED <<reports, chunks>>
        /\ \A v \in Workers \ {w} : /\ target'[v] = target[v]
                                    /\ locked'[v] = locked[v]
                                    /\ inserted'[v] = inserted[v]
    BY <1>5 DEF DeleteFails, Rollback
  <2>2. /\ pc'[w] = "error"
        /\ \A v \in Workers \ {w} : pc'[v] = pc[v] /\ rid'[v] = rid[v]
    BY <1>5 DEF DeleteFails, Abandon, Goto
  <2> QED
    BY <2>1, <2>2, QuietStep
<1>6. ASSUME NEW r \in ReportIds, DeleteReport(w, r) PROVE LockInv'
  BY <1>6, QuietStep DEF DeleteReport, Goto
<1> QED
  BY <1>1, <1>2, <1>3, <1>4, <1>5, <1>6

(* The foreign key check of INSERT.                                        *)
LEMMA InsertLock ==
  ASSUME TypeInv, LockInv, NEW w \in Workers, PersistInsert(w)
  PROVE  LockInv'
<1>1. /\ pc[w] = "inserting"
      /\ inserted[w] < Len(Pages[doc[w]])
      /\ ~Waits(w)
      /\ reports[rid[w]] # NoRow
      /\ inserted' = [inserted EXCEPT ![w] = inserted[w] + 1]
      /\ UNCHANGED <<reports, chunks, pc, rid, target, locked>>
  BY DEF PersistInsert, Insertable, tables, job
<1>2. \A v \in Workers : ~RemovesReport(v, rid[w])
  BY <1>1 DEF Waits, WaitsFor, RemovesReport
<1>3. KeyShareOK'
  BY <1>1, <1>2 DEF LockInv, KeyShareOK, RemovesReport, TypeInv, TypeOK
<1> QED
  BY <1>1, <1>3 DEF LockInv, ChunksBelongToReport, RemovalOK

(* What a committing transaction adds belongs to a report that stays.      *)
LEMMA CommitLock ==
  ASSUME TypeInv, LockInv, NEW w \in Workers,
         PersistCommit(w) \/ PersistCommitUnacknowledged(w)
  PROVE  LockInv'
<1>1. /\ pc[w] = "inserting"
      /\ chunks' = (chunks \ locked[w]) \cup Pending(w)
      /\ EndTxn(w)
      /\ UNCHANGED reports
  BY DEF PersistCommit, PersistCommitUnacknowledged, PersistWrites
<1>2. /\ pc'[w] \in {"metadata", "persist", "error"}
      /\ \A v \in Workers \ {w} : pc'[v] = pc[v] /\ rid'[v] = rid[v]
  BY DEF PersistCommit, PersistCommitUnacknowledged, RetryFrom, Abandon, Goto,
         job, TypeInv, TypeOK
<1>3. \A v \in Workers \ {w} : /\ target'[v] = target[v] \ locked[w]
                               /\ locked'[v] = locked[v]
                               /\ inserted'[v] = inserted[v]
  BY <1>1 DEF EndTxn, TypeInv, TypeOK
<1>4. \A c \in Pending(w) : /\ c.report = rid[w]
                            /\ c.channel = chan[w]
                            /\ inserted[w] > 0
  BY DEF Pending, Row, TypeInv, TypeOK
<1>5. \A c \in Pending(w) :
        /\ reports[rid[w]] # NoRow
        /\ reports[rid[w]].channel = c.channel
        /\ \A v \in Workers : ~RemovesReport(v, rid[w])
  BY <1>1, <1>4 DEF LockInv, KeyShareOK, TypeInv, JobOK, WorkerOK, PersistTxn
<1>6. ChunksBelongToReport'
  BY <1>1, <1>4, <1>5 DEF LockInv, ChunksBelongToReport
<1>7. RemovalOK'
  <2> SUFFICES ASSUME NEW v \in Workers
               PROVE  /\ pc'[v] \in {"d_cascade", "d_commit"} =>
                           \A c \in chunks' : c.report = rid'[v] =>
                                              c \in locked'[v] \cup target'[v]
                      /\ pc'[v] = "d_commit" => target'[v] = {}
    BY DEF RemovalOK
  <2>1. CASE v = w
    BY <1>2, <2>1
  <2>2. CASE v # w
    <3>1. pc[v] = "d_commit" => target[v] = {}
      BY DEF LockInv, RemovalOK
    <3>2. ASSUME pc[v] \in {"d_cascade", "d_commit"}, NEW c \in chunks',
                 c.report = rid[v]
          PROVE  c \in locked[v] \cup (target[v] \ locked[w])
      <4>1. c \notin Pending(w)
        BY <1>4, <1>5, <3>2 DEF RemovesReport
      <4>2. c \in chunks \ locked[w]
        BY <1>1, <4>1
      <4> QED
        BY <3>2, <4>2 DEF LockInv, RemovalOK
    <3> QED
      BY <1>2, <1>3, <2>2, <3>1, <3>2
  <2> QED
    BY <2>1, <2>2
<1>8. KeyShareOK'
  BY <1>1, <1>2, <1>3 DEF LockInv, KeyShareOK, RemovesReport
<1> QED
  BY <1>6, <1>7, <1>8 DEF LockInv

(* DELETE FROM reports waits for every key-share lock on the row.          *)
LEMMA DeleteRowLock ==
  ASSUME TypeInv, LockInv, NEW w \in Workers, DeleteRow(w)
  PROVE  LockInv'
<1>1. /\ pc[w] = "d_report"
      /\ ~Waits(w)
      /\ target' = [target EXCEPT ![w] = RowsOf(rid[w]) \ locked[w]]
      /\ pc' = [pc EXCEPT ![w] = "d_cascade"]
      /\ UNCHANGED <<reports, chunks, rid, locked, inserted>>
  BY DEF DeleteRow, Goto, tables, job
<1>2. \A v \in Workers : ~HoldsKeyShare(v, rid[w])
  BY <1>1 DEF Waits, WaitsFor, HoldsKeyShare
<1>3. RemovalOK'
  BY <1>1 DEF LockInv, RemovalOK, RowsOf, TypeInv, TypeOK
<1>4. KeyShareOK'
  BY <1>1, <1>2 DEF LockInv, KeyShareOK, RemovesReport, HoldsKeyShare, TypeInv, TypeOK
<1> QED
  BY <1>1, <1>3, <1>4 DEF LockInv, ChunksBelongToReport

LEMMA DeleteCascadeLock ==
  ASSUME TypeInv, LockInv, NEW w \in Workers, DeleteCascade(w)
  PROVE  LockInv'
<1>1. /\ pc[w] = "d_cascade"
      /\ locked' = [locked EXCEPT ![w] = locked[w] \cup target[w]]
      /\ target' = [target EXCEPT ![w] = {}]
      /\ pc' = [pc EXCEPT ![w] = "d_commit"]
      /\ UNCHANGED <<reports, chunks, rid, inserted>>
  BY DEF DeleteCascade, Goto, tables, job
<1>2. RemovalOK'
  BY <1>1 DEF LockInv, RemovalOK, TypeInv, TypeOK
<1>3. KeyShareOK'
  BY <1>1 DEF LockInv, KeyShareOK, RemovesReport, TypeInv, TypeOK
<1> QED
  BY <1>1, <1>2, <1>3 DEF LockInv, ChunksBelongToReport

LEMMA DeleteCommitLock ==
  ASSUME TypeInv, LockInv, NEW w \in Workers, DeleteCommit(w)
  PROVE  LockInv'
<1>1. /\ pc[w] = "d_commit"
      /\ reports' = [reports EXCEPT ![rid[w]] = NoRow]
      /\ chunks' = chunks \ locked[w]
      /\ EndTxn(w)
      /\ pc' = [pc EXCEPT ![w] = "ok"]
      /\ UNCHANGED rid
  BY DEF DeleteCommit, Goto, job
<1>2. \A v \in Workers \ {w} : /\ pc'[v] = pc[v]
                               /\ target'[v] = target[v] \ locked[w]
                               /\ locked'[v] = locked[v]
                               /\ inserted'[v] = inserted[v]
  BY <1>1 DEF EndTxn, TypeInv, TypeOK
<1>3. pc'[w] = "ok"
  BY <1>1 DEF TypeInv, TypeOK
<1>4. \A c \in chunks' : c \in chunks /\ c.report # rid[w]
  BY <1>1 DEF LockInv, RemovalOK
<1>5. \A q \in ReportIds : q # rid[w] => reports'[q] = reports[q]
  BY <1>1 DEF TypeInv, TypeOK
<1>6. ChunksBelongToReport'
  BY <1>4, <1>5 DEF LockInv, ChunksBelongToReport, TypeInv, TypeOK, ChunkRow
<1>7. RemovalOK'
  BY <1>1, <1>2, <1>3 DEF LockInv, RemovalOK
<1>8. KeyShareOK'
  <2> SUFFICES ASSUME NEW v \in Workers, pc'[v] = "inserting", inserted'[v] > 0
               PROVE  (/\ reports[rid[v]] # NoRow
                       /\ \A u \in Workers : ~RemovesReport(u, rid[v]))'
    BY DEF KeyShareOK
  <2>1. v # w /\ pc[v] = "inserting" /\ inserted[v] > 0
    BY <1>2, <1>3
  <2>2. /\ reports[rid[v]] # NoRow
        /\ \A u \in Workers : ~RemovesReport(u, rid[v])
    BY <2>1 DEF LockInv, KeyShareOK
  <2>3. rid[v] \in ReportIds
    BY <2>1 DEF TypeInv, TypeOK, JobOK, WorkerOK, PersistTxn
  <2>4. rid[v] # rid[w]
    BY <1>1, <2>2 DEF RemovesReport
  <2> QED
    BY <1>1, <1>2, <1>3, <1>5, <2>2, <2>3, <2>4 DEF RemovesReport
<1> QED
  BY <1>6, <1>7, <1>8 DEF LockInv

LEMMA RestartLock == ASSUME LockInv, Restart PROVE LockInv'
<1>1. \A w \in Workers : pc'[w] = "idle"
  BY DEF Restart
<1> QED
  BY <1>1 DEF Restart, tables, LockInv, ChunksBelongToReport, RemovalOK, KeyShareOK

LEMMA NextLockInv == TypeInv /\ LockInv /\ [Next]_vars => LockInv'
<1> SUFFICES ASSUME TypeInv, LockInv, [Next]_vars PROVE LockInv'
  OBVIOUS
<1>1. ASSUME NEW w \in Workers, NEW c \in Channels, NEW f \in Files,
             UpsertReport(w, c, f)
      PROVE  LockInv'
  BY <1>1, UpsertLock
<1>2. ASSUME NEW w \in Workers, NEW r \in ReportIds, DeleteReport(w, r)
      PROVE  LockInv'
  BY <1>2, QuietTxnLock
<1>3. ASSUME NEW w \in Workers, Progress(w) PROVE LockInv'
  BY <1>3, StageLock, QuietTxnLock, InsertLock, CommitLock, DeleteRowLock,
     DeleteCascadeLock, DeleteCommitLock DEF Progress
<1>4. ASSUME NEW w \in Workers, Failure(w) PROVE LockInv'
  BY <1>4, StageLock, QuietTxnLock, CommitLock DEF Failure
<1>5. CASE Restart
  BY <1>5, RestartLock
<1>6. CASE UNCHANGED vars
  BY <1>6 DEF vars, tables, job, txn, LockInv, ChunksBelongToReport, RemovalOK,
              KeyShareOK, RemovesReport
<1> QED
  BY <1>1, <1>2, <1>3, <1>4, <1>5, <1>6 DEF Next

(* No interleaving of ingests, retries and deletions leaves a chunk        *)
(* without its report, or under the ChannelId of another tenant.           *)
THEOREM TenantIsolation == Spec => []ChunksBelongToReport
<1>1. LockInv => ChunksBelongToReport
  BY DEF LockInv
<1> QED
  BY <1>1, InitLockInv, NextLockInv, TypeInvHolds, PTL DEF Spec

-----------------------------------------------------------------------------
(* Whole documents.                                                        *)

(* S holds only whole documents: each row with all the rows of its own.    *)
Siblings(c) == DocumentRows(c.report, c.channel, c.doc)
Family(S) == \A c \in S : c \in Siblings(c) /\ Siblings(c) \subseteq S

(* The table, and every set of rows a DELETE works on.                     *)
FamilyInv ==
    /\ Family(chunks)
    /\ \A w \in Workers : Family(target[w]) /\ Family(locked[w])

LEMMA SiblingsShare ==
  ASSUME NEW r, NEW c, NEW d, NEW e \in DocumentRows(r, c, d)
  PROVE  e.report = r /\ e.channel = c /\ e.doc = d /\ Siblings(e) = DocumentRows(r, c, d)
  BY DEF DocumentRows, Siblings

LEMMA FamilyDocument ==
  ASSUME NEW r, NEW c, NEW d
  PROVE  Family(DocumentRows(r, c, d))
  BY SiblingsShare DEF Family

LEMMA FamilyUnion ==
  ASSUME NEW S, NEW T, Family(S), Family(T)
  PROVE  Family(S \cup T)
  BY DEF Family

LEMMA FamilyMinus ==
  ASSUME NEW S, NEW T, Family(S), Family(T)
  PROVE  Family(S \ T)
<1> SUFFICES ASSUME NEW c \in S \ T, NEW e \in Siblings(c), e \in T
             PROVE  FALSE
  BY DEF Family
<1>1. Siblings(e) = Siblings(c)
  BY SiblingsShare DEF Siblings
<1> QED
  BY <1>1 DEF Family

LEMMA FamilyReport ==
  ASSUME NEW r, Family(chunks)
  PROVE  Family(RowsOf(r))
<1> SUFFICES ASSUME NEW c \in chunks, c.report = r, NEW e \in Siblings(c)
             PROVE  e.report = r
  BY DEF Family, RowsOf
<1> QED
  BY SiblingsShare DEF Siblings

LEMMA FamilyEmpty == Family({})
  BY DEF Family

(* A transaction that has inserted every chunk has written its document.   *)
LEMMA PendingDocument ==
  ASSUME NEW w \in Workers, inserted[w] = Len(Pages[doc[w]])
  PROVE  Pending(w) = DocumentRows(rid[w], chan[w], doc[w])
  BY DEF Pending, Row, DocumentRows

(* A commit takes the rows w has locked out of the other DELETEs' targets. *)
LEMMA EndTxnFamily ==
  ASSUME TypeInv, FamilyInv, NEW w \in Workers, EndTxn(w)
  PROVE  \A v \in Workers : Family(target'[v]) /\ Family(locked'[v])
<1> SUFFICES ASSUME NEW v \in Workers
             PROVE  Family(target'[v]) /\ Family(locked'[v])
  OBVIOUS
<1>1. target'[v] = {} \/ target'[v] = target[v] \ locked[w]
  BY DEF EndTxn
<1>2. locked'[v] = {} \/ locked'[v] = locked[v]
  BY DEF EndTxn, TypeInv, TypeOK
<1> QED
  BY <1>1, <1>2, FamilyMinus, FamilyEmpty DEF FamilyInv

LEMMA CommitFamily ==
  ASSUME TypeInv, FamilyInv, NEW w \in Workers,
         PersistCommit(w) \/ PersistCommitUnacknowledged(w)
  PROVE  FamilyInv'
<1>1. /\ inserted[w] = Len(Pages[doc[w]])
      /\ chunks' = (chunks \ locked[w]) \cup Pending(w)
      /\ EndTxn(w)
  BY DEF PersistCommit, PersistCommitUnacknowledged, PersistWrites
<1>2. Family(Pending(w))
  BY <1>1, PendingDocument, FamilyDocument
<1>3. Family(chunks \ locked[w])
  BY FamilyMinus DEF FamilyInv
<1>4. Family(chunks')
  BY <1>1, <1>2, <1>3, FamilyUnion
<1> QED
  BY <1>1, <1>4, EndTxnFamily DEF FamilyInv

LEMMA DeleteFamily ==
  ASSUME TypeInv, FamilyInv, NEW w \in Workers,
         DeleteRow(w) \/ DeleteCascade(w) \/ DeleteCommit(w)
  PROVE  FamilyInv'
<1> USE DEF TypeInv, TypeOK
<1>1. CASE DeleteRow(w)
  <2>1. /\ target' = [target EXCEPT ![w] = RowsOf(rid[w]) \ locked[w]]
        /\ UNCHANGED <<chunks, locked>>
    BY <1>1 DEF DeleteRow, tables
  <2>2. Family(RowsOf(rid[w]) \ locked[w])
    BY FamilyReport, FamilyMinus DEF FamilyInv
  <2> QED
    BY <2>1, <2>2 DEF FamilyInv
<1>2. CASE DeleteCascade(w)
  <2>1. /\ locked' = [locked EXCEPT ![w] = locked[w] \cup target[w]]
        /\ target' = [target EXCEPT ![w] = {}]
        /\ UNCHANGED chunks
    BY <1>2 DEF DeleteCascade, tables
  <2>2. Family(locked[w] \cup target[w])
    BY FamilyUnion DEF FamilyInv
  <2> QED
    BY <2>1, <2>2, FamilyEmpty DEF FamilyInv
<1>3. CASE DeleteCommit(w)
  <2>1. chunks' = chunks \ locked[w] /\ EndTxn(w)
    BY <1>3 DEF DeleteCommit
  <2>2. Family(chunks \ locked[w])
    BY FamilyMinus DEF FamilyInv
  <2> QED
    BY <2>1, <2>2, EndTxnFamily DEF FamilyInv
<1> QED
  BY <1>1, <1>2, <1>3

(* Everything else leaves the table alone, and starts, finishes or forgets *)
(* the work of one DELETE.                                                 *)
LEMMA OtherFamily ==
  ASSUME TypeInv, FamilyInv, UNCHANGED chunks,
         \A v \in Workers :
            /\ target'[v] \in {target[v], {}, RowsOf(rid'[v])}
            /\ locked'[v] \in {locked[v], {}, target[v]}
  PROVE  FamilyInv'
<1>1. \A r : Family(RowsOf(r))
  BY FamilyReport DEF FamilyInv
<1> QED
  BY <1>1, FamilyEmpty DEF FamilyInv

LEMMA NextFamily == TypeInv /\ FamilyInv /\ [Next]_vars => FamilyInv'
<1> SUFFICES ASSUME TypeInv, FamilyInv, [Next]_vars PROVE FamilyInv'
  OBVIOUS
<1> USE DEF tables, objects, history, job, txn, TypeInv, TypeOK
<1>1. ASSUME NEW w \in Workers, NEW c \in Channels, NEW f \in Files,
             UpsertReport(w, c, f)
      PROVE  FamilyInv'
  BY <1>1, OtherFamily DEF UpsertReport
<1>2. ASSUME NEW w \in Workers, NEW r \in ReportIds, DeleteReport(w, r)
      PROVE  FamilyInv'
  BY <1>2, OtherFamily DEF DeleteReport
<1>3. ASSUME NEW w \in Workers, Progress(w) PROVE FamilyInv'
  <2>1. CASE \/ \E d \in Docs : ReadFile(w, d)
             \/ CheckBucket(w) \/ MakeBucket(w) \/ UploadRaw(w) \/ Extract(w)
             \/ UploadMarkdown(w) \/ Embed(w) \/ UploadMetadata(w)
    <3>1. UNCHANGED <<chunks, target, locked>>
      BY <2>1 DEF ReadFile, CheckBucket, MakeBucket, UploadRaw, Extract,
                  UploadMarkdown, Embed, UploadMetadata
    <3> QED
      BY <3>1, OtherFamily
  <2>2. CASE PersistBegin(w)
    BY <2>2, OtherFamily DEF PersistBegin
  <2>3. CASE PersistDelete(w)
    BY <2>3, OtherFamily DEF PersistDelete
  <2>4. CASE PersistInsert(w)
    BY <2>4, OtherFamily DEF PersistInsert
  <2>5. CASE DeleteChunks(w)
    BY <2>5, OtherFamily DEF DeleteChunks
  <2> QED
    BY <1>3, <2>1, <2>2, <2>3, <2>4, <2>5, CommitFamily, DeleteFamily DEF Progress
<1>4. ASSUME NEW w \in Workers, Failure(w) PROVE FamilyInv'
  <2>1. CASE StageFails(w) \/ StageAborts(w)
    BY <2>1, OtherFamily DEF StageFails, StageAborts
  <2>2. CASE PersistFails(w) \/ DeleteFails(w)
    BY <2>2, OtherFamily DEF PersistFails, DeleteFails, Rollback
  <2> QED
    BY <1>4, <2>1, <2>2, CommitFamily DEF Failure
<1>5. CASE Restart
  BY <1>5, OtherFamily DEF Restart
<1>6. CASE UNCHANGED vars
  BY <1>6, OtherFamily DEF vars
<1> QED
  BY <1>1, <1>2, <1>3, <1>4, <1>5, <1>6 DEF Next

(* A reader of the committed table finds whole documents only, although    *)
(* two ingests of a report may leave it with more than one.                *)
THEOREM DocumentsAreWhole == Spec => []WholeDocuments
<1>1. Init => FamilyInv
  BY FamilyEmpty DEF Init, FamilyInv
<1>2. FamilyInv => WholeDocuments
  BY DEF FamilyInv, Family, Siblings, WholeDocuments
<1> QED
  BY <1>1, <1>2, NextFamily, TypeInvHolds, PTL DEF Spec

-----------------------------------------------------------------------------
(* The objects of a report and the stages of its ingest.                   *)

AfterMarkdown == {"embed", "persist", "metadata"} \cup PersistTxn
AfterRaw == {"extract", "markdown"} \cup AfterMarkdown

(* A stage is reached only when the uploads before it have succeeded.      *)
StageOK(w) ==
    /\ pc[w] \in AfterRaw => raw[rid[w]] # NoDoc
    /\ pc[w] \in AfterMarkdown => markdown[rid[w]] # NoDoc
    /\ pc[w] = "metadata" => <<rid[w], doc[w]>> \in published

ObjectInv == ObjectsFollowStages /\ \A w \in Workers : StageOK(w)

(* Objects are overwritten and never removed, published only grows, and a  *)
(* worker other than w knows what it knew.                                 *)
ObjectStep(w) ==
    /\ \A r \in ReportIds : /\ raw[r] # NoDoc => raw'[r] # NoDoc
                            /\ markdown[r] # NoDoc => markdown'[r] # NoDoc
    /\ published \subseteq published'
    /\ \A v \in Workers \ {w} : /\ pc'[v] = pc[v]
                                /\ rid'[v] = rid[v]
                                /\ doc'[v] = doc[v]

LEMMA ObjectFrame ==
  ASSUME TypeInv, ObjectInv, NEW w \in Workers, ObjectStep(w), StageOK(w)',
         metadata' = metadata, chunks' \subseteq chunks
  PROVE  ObjectInv'
<1>1. ASSUME NEW v \in Workers PROVE StageOK(v)'
  <2>1. CASE v = w
    BY <2>1
  <2>2. CASE v # w
    <3>1. StageOK(v)
      BY DEF ObjectInv
    <3>2. pc[v] \in AfterRaw => rid[v] \in ReportIds
      BY DEF TypeInv, TypeOK, JobOK, WorkerOK, AfterRaw, AfterMarkdown, Stages
    <3>3. AfterMarkdown \subseteq AfterRaw
      BY DEF AfterRaw
    <3> QED
      BY <2>2, <3>1, <3>2, <3>3 DEF StageOK, ObjectStep
  <2> QED
    BY <2>1, <2>2
<1>2. \A c \in chunks : c.report \in ReportIds
  BY DEF TypeInv, TypeOK, ChunkRow
<1>3. ObjectsFollowStages'
  BY <1>2 DEF ObjectInv, ObjectsFollowStages, ObjectStep
<1> QED
  BY <1>1, <1>3 DEF ObjectInv

LEMMA StageObjects ==
  ASSUME TypeInv, ObjectInv, NEW w \in Workers,
         \/ \E d \in Docs : ReadFile(w, d)
         \/ CheckBucket(w) \/ MakeBucket(w) \/ UploadRaw(w) \/ Extract(w)
         \/ UploadMarkdown(w) \/ Embed(w) \/ StageFails(w) \/ StageAborts(w)
  PROVE  ObjectInv'
<1> USE DEF tables, objects, history, job, AfterRaw, AfterMarkdown, PersistTxn
<1>0. TypeOK /\ WorkerOK(w) /\ StageOK(w)
  BY DEF TypeInv, JobOK, ObjectInv
<1>1. chunks' = chunks /\ metadata' = metadata /\ published' = published
  BY DEF ReadFile, CheckBucket, MakeBucket, UploadRaw, Extract, UploadMarkdown,
         Embed, StageFails, StageAborts
<1>2. \A v \in Workers \ {w} : /\ pc'[v] = pc[v]
                               /\ rid'[v] = rid[v]
                               /\ doc'[v] = doc[v]
  BY <1>0 DEF ReadFile, CheckBucket, MakeBucket, UploadRaw, Extract,
              UploadMarkdown, Embed, StageFails, StageAborts, RetryFrom,
              Abandon, Goto, TypeOK
<1>3. pc[w] \in Stages \ {"read"} => doc[w] # NoDoc /\ rid[w] \in ReportIds
  BY <1>0, ConstantsAssumption DEF WorkerOK, TypeOK
<1>4. CASE UploadRaw(w)
  <2>1. raw' = [raw EXCEPT ![rid[w]] = doc[w]] /\ UNCHANGED <<markdown, rid, doc>>
    BY <1>4 DEF UploadRaw
  <2>2. pc'[w] = "extract" /\ pc[w] = "raw"
    BY <1>0, <1>4 DEF UploadRaw, Goto, TypeOK
  <2>3. doc[w] # NoDoc /\ rid[w] \in ReportIds
    BY <1>3, <2>2 DEF Stages
  <2>4. ObjectStep(w) /\ StageOK(w)'
    BY <1>0, <1>1, <1>2, <2>1, <2>2, <2>3 DEF ObjectStep, StageOK, TypeOK
  <2> QED
    BY <1>1, <2>4, ObjectFrame
<1>5. CASE UploadMarkdown(w)
  <2>1. /\ markdown' = [markdown EXCEPT ![rid[w]] = doc[w]]
        /\ UNCHANGED <<raw, rid, doc>>
    BY <1>5 DEF UploadMarkdown
  <2>2. pc'[w] = "embed" /\ pc[w] = "markdown"
    BY <1>0, <1>5 DEF UploadMarkdown, Goto, TypeOK
  <2>3. doc[w] # NoDoc /\ rid[w] \in ReportIds
    BY <1>3, <2>2 DEF Stages
  <2>4. ObjectStep(w) /\ StageOK(w)'
    BY <1>0, <1>1, <1>2, <2>1, <2>2, <2>3 DEF ObjectStep, StageOK, TypeOK
  <2> QED
    BY <1>1, <2>4, ObjectFrame
<1>6. CASE \/ \E d \in Docs : ReadFile(w, d)
           \/ CheckBucket(w) \/ MakeBucket(w) \/ Extract(w) \/ Embed(w)
           \/ StageFails(w) \/ StageAborts(w)
  <2>1. UNCHANGED <<raw, markdown>>
    BY <1>6 DEF ReadFile, CheckBucket, MakeBucket, Extract, Embed, StageFails,
                StageAborts
  <2>2. StageOK(w)'
    <3>1. CASE \E d \in Docs : ReadFile(w, d)
      BY <1>0, <3>1 DEF ReadFile, Goto, StageOK, TypeOK
    <3>2. CASE CheckBucket(w) \/ MakeBucket(w)
      <4>1. pc'[w] \in {"bucket", "raw", "make_bucket", "error"}
        BY <1>0, <3>2 DEF CheckBucket, MakeBucket, RetryFrom, Abandon, Goto, TypeOK
      <4> QED
        BY <4>1 DEF StageOK
    <3>3. CASE Extract(w) \/ Embed(w)
      BY <1>0, <1>1, <2>1, <3>3 DEF Extract, Embed, Goto, StageOK, TypeOK
    <3>4. CASE StageFails(w)
      <4>1. CASE attempt[w] < MaxAttempts
        <5>1. pc'[w] \in {pc[w], "bucket"} /\ UNCHANGED <<rid, doc>>
          BY <1>0, <3>4, <4>1 DEF StageFails, RetryFrom, TypeOK
        <5> QED
          BY <1>0, <1>1, <2>1, <5>1 DEF StageOK
      <4>2. CASE ~(attempt[w] < MaxAttempts)
        <5>1. pc'[w] = "error"
          BY <1>0, <3>4, <4>2 DEF StageFails, RetryFrom, Abandon, Goto, TypeOK
        <5> QED
          BY <5>1 DEF StageOK
      <4> QED
        BY <4>1, <4>2
    <3>5. CASE StageAborts(w)
      BY <1>0, <3>5 DEF StageAborts, Abandon, Goto, StageOK, TypeOK
    <3> QED
      BY <1>6, <3>1, <3>2, <3>3, <3>4, <3>5
  <2>3. ObjectStep(w)
    BY <1>1, <1>2, <2>1 DEF ObjectStep
  <2> QED
    BY <1>1, <2>2, <2>3, ObjectFrame
<1> QED
  BY <1>4, <1>5, <1>6

(* The metadata object describes a committed document.                     *)
LEMMA MetadataObjects ==
  ASSUME TypeInv, ObjectInv, NEW w \in Workers, UploadMetadata(w)
  PROVE  ObjectInv'
<1> USE DEF TypeInv, TypeOK
<1>1. /\ pc[w] = "metadata"
      /\ metadata' = [metadata EXCEPT ![rid[w]] = doc[w]]
      /\ pc' = [pc EXCEPT ![w] = "ok"]
      /\ UNCHANGED <<chunks, raw, markdown, published, rid, doc>>
  BY DEF UploadMetadata, Goto, tables, history, job
<1>2. <<rid[w], doc[w]>> \in published
  BY <1>1 DEF ObjectInv, StageOK
<1>3. ObjectsFollowStages'
  BY <1>1, <1>2 DEF ObjectInv, ObjectsFollowStages
<1>4. ASSUME NEW v \in Workers PROVE StageOK(v)'
  BY <1>1 DEF ObjectInv, StageOK, AfterRaw, AfterMarkdown, PersistTxn
<1> QED
  BY <1>3, <1>4 DEF ObjectInv

LEMMA CommitObjects ==
  ASSUME TypeInv, ObjectInv, NEW w \in Workers,
         PersistCommit(w) \/ PersistCommitUnacknowledged(w)
  PROVE  ObjectInv'
<1> USE DEF TypeInv, TypeOK, AfterRaw, AfterMarkdown, PersistTxn
<1>1. /\ pc[w] = "inserting"
      /\ chunks' = (chunks \ locked[w]) \cup Pending(w)
      /\ published' = published \cup {<<rid[w], doc[w]>>}
      /\ UNCHANGED <<raw, markdown, metadata>>
  BY DEF PersistCommit, PersistCommitUnacknowledged, PersistWrites, objects
<1>2. /\ \/ /\ pc'[w] \in {"metadata", "persist"}
            /\ UNCHANGED <<rid, doc>>
         \/ pc'[w] = "error"
      /\ \A v \in Workers \ {w} : /\ pc'[v] = pc[v]
                                  /\ rid'[v] = rid[v]
                                  /\ doc'[v] = doc[v]
  BY DEF PersistCommit, PersistCommitUnacknowledged, RetryFrom, Abandon, Goto, job
<1>3. StageOK(w)
  BY DEF ObjectInv
<1>4. ASSUME NEW v \in Workers PROVE StageOK(v)'
  <2>1. CASE v = w
    BY <1>1, <1>2, <1>3, <2>1 DEF StageOK
  <2>2. CASE v # w
    BY <1>1, <1>2, <2>2 DEF ObjectInv, StageOK
  <2> QED
    BY <2>1, <2>2
<1>5. \A c \in Pending(w) : c.report = rid[w]
  BY DEF Pending, Row
<1>6. ObjectsFollowStages'
  BY <1>1, <1>3, <1>5 DEF ObjectInv, ObjectsFollowStages, StageOK
<1> QED
  BY <1>4, <1>6 DEF ObjectInv

(* Every other step leaves the objects, and gets no further than a stage   *)
(* that asks nothing more of them.                                         *)
LEMMA RequestObjects ==
  ASSUME TypeInv, ObjectInv, NEW w \in Workers,
         UNCHANGED <<raw, markdown, metadata, published>>, chunks' \subseteq chunks,
         \A v \in Workers \ {w} : /\ pc'[v] = pc[v]
                                  /\ rid'[v] = rid[v]
                                  /\ doc'[v] = doc[v],
         \/ pc'[w] \notin AfterRaw
         \/ /\ pc[w] \in AfterMarkdown
            /\ pc'[w] # "metadata"
            /\ rid'[w] = rid[w]
  PROVE  ObjectInv'
<1>1. StageOK(w)
  BY DEF ObjectInv
<1>2. StageOK(w)'
  BY <1>1 DEF StageOK, AfterRaw, AfterMarkdown
<1>3. ObjectStep(w)
  BY DEF ObjectStep
<1> QED
  BY <1>2, <1>3, ObjectFrame

LEMMA TxnObjects ==
  ASSUME TypeInv, ObjectInv, NEW w \in Workers,
         \/ \E c \in Channels, f \in Files : UpsertReport(w, c, f)
         \/ \E r \in ReportIds : DeleteReport(w, r)
         \/ PersistBegin(w) \/ PersistDelete(w) \/ PersistInsert(w)
         \/ PersistFails(w) \/ DeleteChunks(w) \/ DeleteRow(w)
         \/ DeleteCascade(w) \/ DeleteCommit(w) \/ DeleteFails(w)
  PROVE  ObjectInv'
<1> USE DEF tables, objects, history, job, TypeInv, TypeOK
<1> USE DEF AfterRaw, AfterMarkdown, PersistTxn, Goto
<1>1. CASE \E c \in Channels, f \in Files : UpsertReport(w, c, f)
  BY <1>1, RequestObjects DEF UpsertReport
<1>2. CASE \E r \in ReportIds : DeleteReport(w, r)
  BY <1>2, RequestObjects DEF DeleteReport
<1>3. CASE PersistBegin(w)
  BY <1>3, RequestObjects DEF PersistBegin
<1>4. CASE PersistDelete(w)
  BY <1>4, RequestObjects DEF PersistDelete
<1>5. CASE PersistInsert(w)
  BY <1>5, RequestObjects DEF PersistInsert
<1>6. CASE PersistFails(w)
  <2>1. pc[w] \in AfterMarkdown
    BY <1>6 DEF PersistFails
  <2>2. /\ \/ pc'[w] = "persist" /\ rid'[w] = rid[w]
           \/ pc'[w] = "error"
        /\ \A v \in Workers \ {w} : /\ pc'[v] = pc[v]
                                    /\ rid'[v] = rid[v]
                                    /\ doc'[v] = doc[v]
    BY <1>6 DEF PersistFails, RetryFrom, Abandon
  <2>3. UNCHANGED <<raw, markdown, metadata, published, chunks>>
    BY <1>6 DEF PersistFails
  <2> QED
    BY <2>1, <2>2, <2>3, RequestObjects
<1>7. CASE DeleteChunks(w)
  BY <1>7, RequestObjects DEF DeleteChunks
<1>8. CASE DeleteRow(w)
  BY <1>8, RequestObjects DEF DeleteRow
<1>9. CASE DeleteCascade(w)
  BY <1>9, RequestObjects DEF DeleteCascade
<1>10. CASE DeleteCommit(w)
  BY <1>10, RequestObjects DEF DeleteCommit
<1>11. CASE DeleteFails(w)
  BY <1>11, RequestObjects DEF DeleteFails, Abandon
<1> QED
  BY <1>1, <1>2, <1>3, <1>4, <1>5, <1>6, <1>7, <1>8, <1>9, <1>10, <1>11

LEMMA NextObjects == TypeInv /\ ObjectInv /\ [Next]_vars => ObjectInv'
<1> SUFFICES ASSUME TypeInv, ObjectInv, [Next]_vars PROVE ObjectInv'
  OBVIOUS
<1>1. ASSUME NEW w \in Workers, NEW c \in Channels, NEW f \in Files,
             UpsertReport(w, c, f)
      PROVE  ObjectInv'
  BY <1>1, TxnObjects
<1>2. ASSUME NEW w \in Workers, NEW r \in ReportIds, DeleteReport(w, r)
      PROVE  ObjectInv'
  BY <1>2, TxnObjects
<1>3. ASSUME NEW w \in Workers, Progress(w) PROVE ObjectInv'
  BY <1>3, StageObjects, MetadataObjects, CommitObjects, TxnObjects DEF Progress
<1>4. ASSUME NEW w \in Workers, Failure(w) PROVE ObjectInv'
  BY <1>4, StageObjects, CommitObjects, TxnObjects DEF Failure
<1>5. CASE Restart
  <2>1. \A w \in Workers : StageOK(w)'
    BY <1>5 DEF Restart, StageOK, AfterRaw, AfterMarkdown, PersistTxn
  <2> QED
    BY <1>5, <2>1 DEF Restart, tables, objects, history, ObjectInv, ObjectsFollowStages
<1>6. CASE UNCHANGED vars
  BY <1>6 DEF vars, tables, objects, history, job, ObjectInv, StageOK,
              ObjectsFollowStages
<1> QED
  BY <1>1, <1>2, <1>3, <1>4, <1>5, <1>6 DEF Next

(* Chunks become visible only when their source and markdown are stored,   *)
(* and metadata only when the chunks it describes have been committed.     *)
THEOREM StagesInOrder == Spec => []ObjectsFollowStages
<1>1. Init => ObjectInv
  BY ConstantsAssumption DEF Init, ObjectInv, ObjectsFollowStages, StageOK, AfterRaw, AfterMarkdown,
         PersistTxn
<1>2. ObjectInv => ObjectsFollowStages
  BY DEF ObjectInv
<1> QED
  BY <1>1, <1>2, NextObjects, TypeInvHolds, PTL DEF Spec

-----------------------------------------------------------------------------
(***************************************************************************)
(* What an ingest leaves behind when no other request of the process       *)
(* overlapped it.                                                          *)
(***************************************************************************)

(* No other worker has had a request since the process started.            *)
Alone(w) == \A v \in Others(w) : pc[v] = "idle"

(* An undisturbed worker finds what it has stored where it stored it, its  *)
(* DELETE covers all rows of the report, and its commit leaves its own.    *)
Standing(w) ==
    /\ pc[w] \in DeleteTxn => doc[w] = NoDoc
    /\ pc[w] \in AfterRaw \cup {"ok"} /\ doc[w] # NoDoc => raw[rid[w]] = doc[w]
    /\ pc[w] \in AfterMarkdown \cup {"ok"} /\ doc[w] # NoDoc =>
         markdown[rid[w]] = doc[w]
    /\ pc[w] = "deleting" => target[w] = RowsOf(rid[w])
    /\ pc[w] = "inserting" => locked[w] = RowsOf(rid[w])
    /\ pc[w] \in {"metadata", "ok"} /\ doc[w] # NoDoc =>
         RowsOf(rid[w]) = DocumentRows(rid[w], chan[w], doc[w])
    /\ pc[w] = "ok" /\ doc[w] # NoDoc => metadata[rid[w]] = doc[w]

AloneInv == \A w \in Workers : Alone(w) => Standing(w)

(* A worker that takes a step is not idle after it, so it alone can be     *)
(* alone, and then it was before.                                          *)
LEMMA AloneFrame ==
  ASSUME NEW w \in Workers, pc'[w] # "idle",
         \A v \in Workers \ {w} : pc'[v] = pc[v],
         Alone(w) => Standing(w)'
  PROVE  AloneInv'
<1> SUFFICES ASSUME NEW u \in Workers, Alone(u)' PROVE Standing(u)'
  BY DEF AloneInv
<1>1. u = w
  BY DEF Alone, Others
<1>2. Alone(w)
  BY <1>1 DEF Alone, Others
<1> QED
  BY <1>1, <1>2

(* Uploads and computations of a worker that nobody disturbs.              *)
LEMMA AloneStage ==
  ASSUME TypeInv, AloneInv, NEW w \in Workers,
         \/ \E d \in Docs : ReadFile(w, d)
         \/ CheckBucket(w) \/ MakeBucket(w) \/ UploadRaw(w) \/ Extract(w)
         \/ UploadMarkdown(w) \/ Embed(w) \/ UploadMetadata(w)
         \/ StageFails(w) \/ StageAborts(w)
  PROVE  AloneInv'
<1> USE DEF tables, objects, history, job, txn, TypeInv, TypeOK
<1> USE DEF AfterRaw, AfterMarkdown, PersistTxn, DeleteTxn
<1>0. WorkerOK(w)
  BY DEF JobOK
<1>1. UNCHANGED <<chunks, target, locked>>
  BY DEF ReadFile, CheckBucket, MakeBucket, UploadRaw, Extract, UploadMarkdown,
         Embed, UploadMetadata, StageFails, StageAborts
<1>2. \A r : RowsOf(r)' = RowsOf(r)
  BY <1>1 DEF RowsOf
<1>3. \E stage \in Stages \cup {"ok", "error"} : pc' = [pc EXCEPT ![w] = stage]
  BY DEF ReadFile, CheckBucket, MakeBucket, UploadRaw, Extract, UploadMarkdown,
         Embed, UploadMetadata, StageFails, StageAborts, RetryFrom, Abandon,
         Goto, Stages
<1>4. pc'[w] # "idle" /\ \A v \in Workers \ {w} : pc'[v] = pc[v]
  BY <1>3 DEF Stages
<1>5. SUFFICES ASSUME Standing(w) PROVE Standing(w)'
  BY <1>4, AloneFrame DEF AloneInv
<1>6. CASE \E d \in Docs : ReadFile(w, d)
  <2>1. pc'[w] = "bucket"
    BY <1>6 DEF ReadFile, Goto
  <2> QED
    BY <2>1 DEF Standing
<1>7. CASE CheckBucket(w) \/ MakeBucket(w)
  <2>1. pc'[w] \in {"bucket", "raw", "make_bucket", "error"}
    BY <1>7 DEF CheckBucket, MakeBucket, RetryFrom, Abandon, Goto
  <2> QED
    BY <2>1 DEF Standing
<1>8. CASE UploadRaw(w)
  <2>1. /\ raw' = [raw EXCEPT ![rid[w]] = doc[w]]
        /\ pc[w] = "raw" /\ pc'[w] = "extract"
        /\ UNCHANGED <<rid, doc>>
    BY <1>8 DEF UploadRaw, Goto
  <2>2. rid[w] \in ReportIds
    BY <1>0, <2>1 DEF WorkerOK, Stages
  <2> QED
    BY <2>1, <2>2 DEF Standing
<1>9. CASE UploadMarkdown(w)
  <2>1. /\ markdown' = [markdown EXCEPT ![rid[w]] = doc[w]]
        /\ pc[w] = "markdown" /\ pc'[w] = "embed"
        /\ UNCHANGED <<raw, rid, doc>>
    BY <1>9 DEF UploadMarkdown, Goto
  <2>2. rid[w] \in ReportIds
    BY <1>0, <2>1 DEF WorkerOK, Stages
  <2> QED
    BY <1>5, <2>1, <2>2 DEF Standing
<1>10. CASE Extract(w) \/ Embed(w)
  <2>1. /\ \/ pc[w] = "extract" /\ pc'[w] = "markdown"
           \/ pc[w] = "embed" /\ pc'[w] = "persist"
        /\ UNCHANGED <<raw, markdown, rid, doc>>
    BY <1>10 DEF Extract, Embed, Goto
  <2> QED
    BY <1>5, <2>1 DEF Standing
<1>11. CASE UploadMetadata(w)
  <2>1. /\ metadata' = [metadata EXCEPT ![rid[w]] = doc[w]]
        /\ pc[w] = "metadata" /\ pc'[w] = "ok"
        /\ UNCHANGED <<raw, markdown, chan, rid, doc>>
    BY <1>11 DEF UploadMetadata, Goto
  <2>2. rid[w] \in ReportIds
    BY <1>0, <2>1 DEF WorkerOK, Stages
  <2>3. DocumentRows(rid[w], chan[w], doc[w])' = DocumentRows(rid[w], chan[w], doc[w])
    BY <2>1 DEF DocumentRows
  <2> QED
    BY <1>2, <1>5, <2>1, <2>2, <2>3 DEF Standing
<1>12. CASE StageFails(w)
  <2>1. pc[w] \in Stages \ {"read", "persist"} /\ UNCHANGED <<raw, markdown, metadata>>
    BY <1>12 DEF StageFails, Stages
  <2>2. CASE attempt[w] < MaxAttempts
    <3>1. pc'[w] \in {pc[w], "bucket"} /\ UNCHANGED <<chan, rid, doc>>
      BY <1>12, <2>2 DEF StageFails, RetryFrom
    <3>2. DocumentRows(rid[w], chan[w], doc[w])' = DocumentRows(rid[w], chan[w], doc[w])
      BY <3>1 DEF DocumentRows
    <3> QED
      BY <1>2, <1>5, <2>1, <3>1, <3>2 DEF Standing, Stages
  <2>3. CASE ~(attempt[w] < MaxAttempts)
    <3>1. pc'[w] = "error"
      BY <1>12, <2>3 DEF StageFails, RetryFrom, Abandon, Goto
    <3> QED
      BY <3>1 DEF Standing
  <2> QED
    BY <2>2, <2>3
<1>13. CASE StageAborts(w)
  <2>1. pc'[w] = "error"
    BY <1>13 DEF StageAborts, Abandon, Goto
  <2> QED
    BY <2>1 DEF Standing
<1> QED
  BY <1>6, <1>7, <1>8, <1>9, <1>10, <1>11, <1>12, <1>13

(* Its transaction deletes what the report had, and nothing comes between. *)
LEMMA AlonePersist ==
  ASSUME TypeInv, AloneInv, NEW w \in Workers,
         \/ PersistBegin(w) \/ PersistDelete(w) \/ PersistInsert(w)
         \/ PersistFails(w)
  PROVE  AloneInv'
<1> USE DEF tables, objects, history, job, TypeInv, TypeOK
<1> USE DEF AfterRaw, AfterMarkdown, PersistTxn, DeleteTxn
<1>1. UNCHANGED <<chunks, raw, markdown, metadata>>
  BY DEF PersistBegin, PersistDelete, PersistInsert, PersistFails
<1>2. \A r : RowsOf(r)' = RowsOf(r)
  BY <1>1 DEF RowsOf
<1>3. /\ pc'[w] \in {"deleting", "inserting", "persist", "error"}
      /\ \A v \in Workers \ {w} : pc'[v] = pc[v]
  BY DEF PersistBegin, PersistDelete, PersistInsert, PersistFails, RetryFrom,
         Abandon, Goto
<1>4. SUFFICES ASSUME Standing(w) PROVE Standing(w)'
  BY <1>3, AloneFrame DEF AloneInv
<1>5. CASE PersistBegin(w)
  <2>1. /\ pc[w] = "persist" /\ pc'[w] = "deleting"
        /\ target'[w] = RowsOf(rid[w])
        /\ UNCHANGED <<rid, doc>>
    BY <1>5 DEF PersistBegin
  <2> QED
    BY <1>1, <1>2, <1>4, <2>1 DEF Standing
<1>6. CASE PersistDelete(w)
  <2>1. /\ pc[w] = "deleting" /\ pc'[w] = "inserting"
        /\ locked'[w] = target[w]
        /\ UNCHANGED <<rid, doc>>
    BY <1>6 DEF PersistDelete
  <2> QED
    BY <1>1, <1>2, <1>4, <2>1 DEF Standing
<1>7. CASE PersistInsert(w)
  <2>1. pc[w] = "inserting" /\ UNCHANGED <<pc, rid, doc, target, locked>>
    BY <1>7 DEF PersistInsert
  <2> QED
    BY <1>1, <1>2, <1>4, <2>1 DEF Standing
<1>8. CASE PersistFails(w)
  <2>1. /\ pc[w] \in AfterMarkdown
        /\ \/ pc'[w] = "persist" /\ UNCHANGED <<rid, doc>>
           \/ pc'[w] = "error"
    BY <1>8 DEF PersistFails, RetryFrom, Abandon, Goto
  <2> QED
    BY <1>1, <1>4, <2>1 DEF Standing
<1> QED
  BY <1>5, <1>6, <1>7, <1>8

(* So that the commit leaves its own rows and no others.                   *)
LEMMA AloneCommit ==
  ASSUME TypeInv, AloneInv, NEW w \in Workers,
         PersistCommit(w) \/ PersistCommitUnacknowledged(w)
  PROVE  AloneInv'
<1> USE DEF objects, history, job, TypeInv, TypeOK
<1> USE DEF AfterRaw, AfterMarkdown, PersistTxn, DeleteTxn
<1>1. /\ pc[w] = "inserting"
      /\ inserted[w] = Len(Pages[doc[w]])
      /\ chunks' = (chunks \ locked[w]) \cup Pending(w)
      /\ UNCHANGED <<raw, markdown, metadata>>
  BY DEF PersistCommit, PersistCommitUnacknowledged, PersistWrites
<1>2. /\ \/ /\ pc'[w] \in {"metadata", "persist"}
            /\ UNCHANGED <<chan, rid, doc>>
         \/ pc'[w] = "error"
      /\ \A v \in Workers \ {w} : pc'[v] = pc[v]
  BY DEF PersistCommit, PersistCommitUnacknowledged, RetryFrom, Abandon, Goto
<1>3. SUFFICES ASSUME Standing(w) PROVE Standing(w)'
  BY <1>2, AloneFrame DEF AloneInv
<1>4. locked[w] = RowsOf(rid[w])
  BY <1>1, <1>3 DEF Standing
<1>5. \A c \in Pending(w) : c.report = rid[w]
  BY DEF Pending, Row
<1>6. {c \in chunks' : c.report = rid[w]} = Pending(w)
  BY <1>1, <1>4, <1>5 DEF RowsOf
<1>7. Pending(w) = DocumentRows(rid[w], chan[w], doc[w])
  BY <1>1, PendingDocument
<1>8. CASE pc'[w] = "error"
  BY <1>8 DEF Standing
<1>9. CASE pc'[w] \in {"metadata", "persist"} /\ UNCHANGED <<chan, rid, doc>>
  <2>1. RowsOf(rid[w])' = DocumentRows(rid[w], chan[w], doc[w])'
    BY <1>6, <1>7, <1>9 DEF RowsOf, DocumentRows
  <2> QED
    BY <1>1, <1>3, <1>9, <2>1 DEF Standing
<1> QED
  BY <1>2, <1>8, <1>9

(* A new request knows nothing yet, and a deletion has no document.        *)
LEMMA AloneRequest ==
  ASSUME TypeInv, AloneInv, NEW w \in Workers,
         \/ \E c \in Channels, f \in Files : UpsertReport(w, c, f)
         \/ \E r \in ReportIds : DeleteReport(w, r)
         \/ DeleteChunks(w) \/ DeleteRow(w) \/ DeleteCascade(w)
         \/ DeleteCommit(w) \/ DeleteFails(w)
  PROVE  AloneInv'
<1> USE DEF job, TypeInv, TypeOK, AfterRaw, AfterMarkdown, PersistTxn, DeleteTxn
<1>1. /\ pc'[w] \in {"read", "ok", "error"} \cup DeleteTxn
      /\ \A v \in Workers \ {w} : pc'[v] = pc[v]
  BY DEF UpsertReport, DeleteReport, DeleteChunks, DeleteRow, DeleteCascade,
         DeleteCommit, DeleteFails, Abandon, Goto
<1>2. SUFFICES ASSUME Standing(w) PROVE Standing(w)'
  BY <1>1, AloneFrame DEF AloneInv
<1>3. doc'[w] = NoDoc
  BY <1>2 DEF UpsertReport, DeleteReport, DeleteChunks, DeleteRow, DeleteCascade,
              DeleteCommit, DeleteFails, Abandon, Standing
<1> QED
  BY <1>1, <1>3 DEF Standing

LEMMA NextAlone == TypeInv /\ AloneInv /\ [Next]_vars => AloneInv'
<1> SUFFICES ASSUME TypeInv, AloneInv, [Next]_vars PROVE AloneInv'
  OBVIOUS
<1>1. ASSUME NEW w \in Workers, NEW c \in Channels, NEW f \in Files,
             UpsertReport(w, c, f)
      PROVE  AloneInv'
  BY <1>1, AloneRequest
<1>2. ASSUME NEW w \in Workers, NEW r \in ReportIds, DeleteReport(w, r)
      PROVE  AloneInv'
  BY <1>2, AloneRequest
<1>3. ASSUME NEW w \in Workers, Progress(w) PROVE AloneInv'
  BY <1>3, AloneStage, AlonePersist, AloneCommit, AloneRequest DEF Progress
<1>4. ASSUME NEW w \in Workers, Failure(w) PROVE AloneInv'
  BY <1>4, AloneStage, AlonePersist, AloneCommit, AloneRequest DEF Failure
<1>5. CASE Restart
  <2>1. \A w \in Workers : pc'[w] = "idle"
    BY <1>5 DEF Restart
  <2> QED
    BY <2>1 DEF AloneInv, Standing, AfterRaw, AfterMarkdown, PersistTxn, DeleteTxn
<1>6. CASE UNCHANGED vars
  BY <1>6 DEF vars, tables, objects, job, txn, AloneInv, Alone, Standing, RowsOf,
              DocumentRows
<1> QED
  BY <1>1, <1>2, <1>3, <1>4, <1>5, <1>6 DEF Next

(* An answered ingest that no other request overlapped has replaced all    *)
(* rows and all three objects of its report by those of its document.      *)
THEOREM AnswersStand == Spec => []AnsweredIngestStands
<1>1. Init => AloneInv
  BY DEF Init, AloneInv, Standing, AfterRaw, AfterMarkdown, PersistTxn, DeleteTxn
<1>2. AloneInv => AnsweredIngestStands
  BY DEF AloneInv, Alone, Others, Standing, AnsweredIngestStands
<1> QED
  BY <1>1, <1>2, NextAlone, TypeInvHolds, PTL DEF Spec

-----------------------------------------------------------------------------
(***************************************************************************)
(* Every behaviour of IngestPipeline is one of the abstract ReportStore.   *)
(***************************************************************************)

(* A transaction deletes rows of its own report only, and a worker outside *)
(* a transaction holds no lock.                                            *)
LocksOwn(w) ==
    IF pc[w] \in InTxn
    THEN \A c \in target[w] \cup locked[w] : c.report = rid[w]
    ELSE target[w] = {} /\ locked[w] = {}

OwnInv == \A w \in Workers : LocksOwn(w)

(* The other workers' locks only shrink.                                   *)
LEMMA OwnFrame ==
  ASSUME OwnInv, NEW w \in Workers, LocksOwn(w)',
         \A v \in Workers \ {w} : /\ pc'[v] = pc[v]
                                  /\ rid'[v] = rid[v]
                                  /\ target'[v] \subseteq target[v]
                                  /\ locked'[v] = locked[v]
  PROVE  OwnInv'
<1>1. ASSUME NEW v \in Workers \ {w} PROVE LocksOwn(v)'
  BY <1>1 DEF OwnInv, LocksOwn
<1> QED
  BY <1>1 DEF OwnInv

LEMMA OwnStage ==
  ASSUME TypeInv, OwnInv, NEW w \in Workers,
         \/ \E d \in Docs : ReadFile(w, d)
         \/ CheckBucket(w) \/ MakeBucket(w) \/ UploadRaw(w) \/ Extract(w)
         \/ UploadMarkdown(w) \/ Embed(w) \/ UploadMetadata(w)
         \/ StageFails(w) \/ StageAborts(w)
  PROVE  OwnInv' /\ UNCHANGED <<reports, chunks>>
<1> USE DEF tables, objects, history, job, txn, Stages, Free, TypeInv, TypeOK
<1>1. UNCHANGED <<reports, chunks, target, locked>>
  BY DEF ReadFile, CheckBucket, MakeBucket, UploadRaw, Extract, UploadMarkdown,
         Embed, UploadMetadata, StageFails, StageAborts
<1>2. \E stage \in Stages \cup Free : pc' = [pc EXCEPT ![w] = stage]
  BY DEF ReadFile, CheckBucket, MakeBucket, UploadRaw, Extract, UploadMarkdown,
         Embed, UploadMetadata, StageFails, StageAborts, RetryFrom, Abandon, Goto
<1>3. \A v \in Workers \ {w} : rid'[v] = rid[v]
  BY DEF ReadFile, CheckBucket, MakeBucket, UploadRaw, Extract, UploadMarkdown,
         Embed, UploadMetadata, StageFails, StageAborts, RetryFrom, Abandon
<1>4. pc[w] \in Stages \cup Free
  BY DEF ReadFile, CheckBucket, MakeBucket, UploadRaw, Extract, UploadMarkdown,
         Embed, UploadMetadata, StageFails, StageAborts
<1>5. pc[w] \notin InTxn /\ pc'[w] \notin InTxn
  BY <1>2, <1>4 DEF InTxn, PersistTxn, DeleteTxn
<1>6. LocksOwn(w)'
  BY <1>1, <1>5 DEF OwnInv, LocksOwn
<1>7. \A v \in Workers \ {w} : pc'[v] = pc[v]
  BY <1>2
<1> QED
  BY <1>1, <1>3, <1>6, <1>7, OwnFrame

LEMMA OwnQuiet ==
  ASSUME TypeInv, OwnInv, NEW w \in Workers,
         \/ PersistBegin(w) \/ PersistDelete(w) \/ PersistInsert(w)
         \/ PersistFails(w) \/ DeleteChunks(w) \/ DeleteRow(w)
         \/ DeleteCascade(w) \/ DeleteFails(w)
         \/ \E r \in ReportIds : DeleteReport(w, r)
  PROVE  OwnInv' /\ UNCHANGED <<reports, chunks>>
<1> USE DEF tables, objects, history, job, TypeInv, TypeOK, Goto
<1> USE DEF InTxn, PersistTxn, DeleteTxn, Free
<1>0. LocksOwn(w)
  BY DEF OwnInv
<1>1. UNCHANGED <<reports, chunks>>
  BY DEF PersistBegin, PersistDelete, PersistInsert, PersistFails, DeleteChunks,
         DeleteRow, DeleteCascade, DeleteFails, DeleteReport
<1>2. CASE PersistBegin(w)
  <2>1. LocksOwn(w)'
    BY <1>0, <1>2 DEF PersistBegin, LocksOwn, RowsOf
  <2> QED
    BY <1>1, <1>2, <2>1, OwnFrame DEF PersistBegin
<1>3. CASE PersistDelete(w)
  <2>1. LocksOwn(w)'
    BY <1>0, <1>3 DEF PersistDelete, LocksOwn
  <2> QED
    BY <1>1, <1>3, <2>1, OwnFrame DEF PersistDelete
<1>4. CASE PersistInsert(w)
  BY <1>0, <1>1, <1>4, OwnFrame DEF PersistInsert, LocksOwn
<1>5. CASE PersistFails(w)
  <2>1. /\ pc'[w] \in {"persist", "error"}
        /\ \A v \in Workers \ {w} : pc'[v] = pc[v] /\ rid'[v] = rid[v]
    BY <1>5 DEF PersistFails, RetryFrom, Abandon
  <2>2. /\ target'[w] = {} /\ locked'[w] = {}
        /\ \A v \in Workers \ {w} : target'[v] = target[v] /\ locked'[v] = locked[v]
    BY <1>5 DEF PersistFails, Rollback
  <2> QED
    BY <1>1, <2>1, <2>2, OwnFrame DEF LocksOwn
<1>6. CASE DeleteChunks(w)
  <2>1. LocksOwn(w)'
    BY <1>0, <1>6 DEF DeleteChunks, LocksOwn
  <2> QED
    BY <1>1, <1>6, <2>1, OwnFrame DEF DeleteChunks
<1>7. CASE DeleteRow(w)
  <2>1. LocksOwn(w)'
    BY <1>0, <1>7 DEF DeleteRow, LocksOwn, RowsOf
  <2> QED
    BY <1>1, <1>7, <2>1, OwnFrame DEF DeleteRow
<1>8. CASE DeleteCascade(w)
  <2>1. LocksOwn(w)'
    BY <1>0, <1>8 DEF DeleteCascade, LocksOwn
  <2> QED
    BY <1>1, <1>8, <2>1, OwnFrame DEF DeleteCascade
<1>9. CASE DeleteFails(w)
  <2>1. /\ pc'[w] = "error"
        /\ \A v \in Workers \ {w} : pc'[v] = pc[v] /\ rid'[v] = rid[v]
    BY <1>9 DEF DeleteFails, Abandon
  <2>2. /\ target'[w] = {} /\ locked'[w] = {}
        /\ \A v \in Workers \ {w} : target'[v] = target[v] /\ locked'[v] = locked[v]
    BY <1>9 DEF DeleteFails, Rollback
  <2> QED
    BY <1>1, <2>1, <2>2, OwnFrame DEF LocksOwn
<1>10. ASSUME NEW r \in ReportIds, DeleteReport(w, r)
       PROVE  OwnInv'
  <2>1. LocksOwn(w)'
    BY <1>0, <1>10 DEF DeleteReport, LocksOwn, RowsOf
  <2> QED
    BY <1>10, <2>1, OwnFrame DEF DeleteReport
<1> QED
  BY <1>1, <1>2, <1>3, <1>4, <1>5, <1>6, <1>7, <1>8, <1>9, <1>10

LEMMA OwnCommit ==
  ASSUME TypeInv, OwnInv, NEW w \in Workers,
         \/ PersistCommit(w) \/ PersistCommitUnacknowledged(w) \/ DeleteCommit(w)
         \/ \E c \in Channels, f \in Files : UpsertReport(w, c, f)
  PROVE  OwnInv'
<1> USE DEF job, TypeInv, TypeOK, Goto, InTxn, PersistTxn, DeleteTxn, Free
<1>1. CASE PersistCommit(w) \/ PersistCommitUnacknowledged(w) \/ DeleteCommit(w)
  <2>1. /\ pc'[w] \in {"metadata", "persist", "error", "ok"}
        /\ \A v \in Workers \ {w} : pc'[v] = pc[v] /\ rid'[v] = rid[v]
    BY <1>1 DEF PersistCommit, PersistCommitUnacknowledged, DeleteCommit,
                RetryFrom, Abandon
  <2>2. EndTxn(w)
    BY <1>1 DEF PersistCommit, PersistCommitUnacknowledged, PersistWrites,
                DeleteCommit
  <2>3. /\ target'[w] = {} /\ locked'[w] = {}
        /\ \A v \in Workers \ {w} : target'[v] \subseteq target[v] /\ locked'[v] = locked[v]
    BY <2>2 DEF EndTxn
  <2> QED
    BY <2>1, <2>3, OwnFrame DEF LocksOwn
<1>2. CASE \E c \in Channels, f \in Files : UpsertReport(w, c, f)
  <2>1. /\ pc[w] \in Free /\ pc'[w] = "read"
        /\ \A v \in Workers \ {w} : pc'[v] = pc[v] /\ rid'[v] = rid[v]
        /\ UNCHANGED <<target, locked>>
    BY <1>2 DEF UpsertReport
  <2>2. LocksOwn(w)'
    BY <2>1 DEF OwnInv, LocksOwn
  <2> QED
    BY <2>1, <2>2, OwnFrame
<1> QED
  BY <1>1, <1>2

-----------------------------------------------------------------------------
(* Step simulation.                                                        *)

Serves == [r \in ReportIds |-> {c.doc : c \in RowsOf(r)}]
Textless == {d \in Docs : Pages[d] = <<>>}

LEMMA UpsertRefines ==
  ASSUME TypeInv, NEW w \in Workers, NEW c \in Channels, NEW f \in Files,
         UpsertReport(w, c, f)
  PROVE  \/ \E r \in ReportIds : Store!Register(r, c, f)
         \/ UNCHANGED <<reports, chunks>>
<1>1. PICK r \in ReportIds :
        /\ \/ reports[r] = [channel |-> c, file |-> f]
           \/ /\ r \notin issued
              /\ \A q \in ReportIds : reports[q] # [channel |-> c, file |-> f]
        /\ reports' = [reports EXCEPT ![r] = [channel |-> c, file |-> f]]
  BY DEF UpsertReport
<1>2. chunks' = chunks
  BY DEF UpsertReport
<1>3. CASE reports[r] = [channel |-> c, file |-> f]
  BY <1>1, <1>2, <1>3 DEF TypeInv, TypeOK
<1>4. CASE /\ r \notin issued
           /\ \A q \in ReportIds : reports[q] # [channel |-> c, file |-> f]
  <2>1. reports[r] = NoRow
    BY <1>4 DEF TypeInv, IssuedOK
  <2> QED
    BY <1>1, <1>2, <1>4, <2>1 DEF Store!Register, RowsOf
<1> QED
  BY <1>1, <1>3, <1>4

LEMMA CommitRefines ==
  ASSUME TypeInv, LockInv, OwnInv, NEW w \in Workers,
         PersistCommit(w) \/ PersistCommitUnacknowledged(w)
  PROVE  \E r \in ReportIds, d \in Docs : Store!Publish(r, d)
<1>1. /\ pc[w] = "inserting"
      /\ inserted[w] = Len(Pages[doc[w]])
      /\ chunks' = (chunks \ locked[w]) \cup Pending(w)
      /\ UNCHANGED reports
  BY DEF PersistCommit, PersistCommitUnacknowledged, PersistWrites
<1>2. rid[w] \in ReportIds /\ doc[w] \in Docs
  BY <1>1 DEF TypeInv, TypeOK, JobOK, WorkerOK, PersistTxn
<1>3. Pages[doc[w]] \in Seq(Nat)
  BY <1>2, ConstantsAssumption
<1>4. \A c \in locked[w] : c.report = rid[w]
  BY <1>1 DEF OwnInv, LocksOwn, InTxn, PersistTxn
<1>5. \A c \in Pending(w) : c.report = rid[w] /\ c.doc = doc[w]
  BY DEF Pending, Row
<1>6. doc[w] \notin Textless => inserted[w] > 0
  BY <1>1, <1>2, <1>3 DEF Textless
<1>7. ASSUME inserted[w] > 0 PROVE Row(w, 1) \in Pending(w)
  <2>1. 1 \in 1 .. inserted[w]
    BY <1>7 DEF TypeInv, TypeOK
  <2> QED
    BY <2>1 DEF Pending
<1>8. doc[w] \in Textless => Pending(w) = {}
  BY <1>1, <1>3 DEF Textless, Pending
<1>9. doc[w] \notin Textless => reports[rid[w]] # NoRow
  BY <1>1, <1>6 DEF LockInv, KeyShareOK
<1>10. PICK q \in ReportIds : q = rid[w]
  BY <1>2
<1> DEFINE kept == {c.doc : c \in RowsOf(q) \ locked[w]}
<1>11. kept \subseteq {c.doc : c \in RowsOf(q)}
  OBVIOUS
<1>12. {c.doc : c \in RowsOf(q)'} = kept \cup ({doc[w]} \ Textless)
  <2>1. ASSUME NEW c \in RowsOf(q)'
        PROVE  c.doc \in kept \cup ({doc[w]} \ Textless)
    <3>1. CASE c \in Pending(w)
      BY <1>5, <1>8, <3>1
    <3>2. CASE c \notin Pending(w)
      BY <1>1, <2>1, <3>2 DEF RowsOf
    <3> QED
      BY <3>1, <3>2
  <2>2. ASSUME NEW c \in RowsOf(q) \ locked[w] PROVE c \in RowsOf(q)'
    BY <1>1, <2>2 DEF RowsOf
  <2>3. doc[w] \notin Textless => \E c \in RowsOf(q)' : c.doc = doc[w]
    BY <1>1, <1>5, <1>6, <1>7, <1>10 DEF RowsOf
  <2> QED
    BY <2>1, <2>2, <2>3
<1>13. ASSUME NEW r \in ReportIds, r # q
       PROVE  RowsOf(r)' = RowsOf(r)
  BY <1>1, <1>4, <1>5, <1>10, <1>13 DEF RowsOf
<1>14. Serves' = [Serves EXCEPT ![q] = kept \cup ({doc[w]} \ Textless)]
  BY <1>12, <1>13 DEF Serves
<1>15. kept \in SUBSET Serves[q]
  BY <1>11 DEF Serves
<1>16. PICK d \in Docs : d = doc[w]
  BY <1>2
<1>17. Store!Publish(q, d)
  BY <1>1, <1>9, <1>10, <1>14, <1>15, <1>16 DEF Store!Publish, Serves, Textless
<1> QED
  BY <1>17

LEMMA DeleteRefines ==
  ASSUME TypeInv, LockInv, OwnInv, NEW w \in Workers, DeleteCommit(w)
  PROVE  \E r \in ReportIds : Store!Remove(r)
<1>1. /\ pc[w] = "d_commit"
      /\ reports' = [reports EXCEPT ![rid[w]] = NoRow]
      /\ chunks' = chunks \ locked[w]
  BY DEF DeleteCommit
<1>2. PICK q \in ReportIds : q = rid[w]
  BY <1>1 DEF TypeInv, TypeOK, JobOK, WorkerOK, DeleteTxn
<1>3. \A c \in locked[w] : c.report = q
  BY <1>1, <1>2 DEF OwnInv, LocksOwn, InTxn, DeleteTxn
<1>4. RowsOf(q)' = {}
  BY <1>1, <1>2 DEF LockInv, RemovalOK, RowsOf
<1>5. ASSUME NEW r \in ReportIds, r # q PROVE RowsOf(r)' = RowsOf(r)
  BY <1>1, <1>3, <1>5 DEF RowsOf
<1>6. Serves' = [Serves EXCEPT ![q] = {}]
  BY <1>4, <1>5 DEF Serves
<1>7. Store!Remove(q)
  BY <1>1, <1>2, <1>6 DEF Store!Remove, Serves
<1> QED
  BY <1>7

LEMMA NextRefines ==
  ASSUME TypeInv, LockInv, OwnInv, [Next]_vars
  PROVE  OwnInv' /\ [Store!Next]_<<reports, Serves>>
<1> USE DEF Store!Next
<1>0. UNCHANGED chunks => UNCHANGED Serves
  BY DEF Serves, RowsOf
<1>1. ASSUME NEW w \in Workers, NEW c \in Channels, NEW f \in Files,
             UpsertReport(w, c, f)
      PROVE  OwnInv' /\ [Store!Next]_<<reports, Serves>>
  BY <1>0, <1>1, UpsertRefines, OwnCommit
<1>2. ASSUME NEW w \in Workers,
             PersistCommit(w) \/ PersistCommitUnacknowledged(w)
      PROVE  OwnInv' /\ [Store!Next]_<<reports, Serves>>
  BY <1>2, CommitRefines, OwnCommit
<1>3. ASSUME NEW w \in Workers, DeleteCommit(w)
      PROVE  OwnInv' /\ [Store!Next]_<<reports, Serves>>
  BY <1>3, DeleteRefines, OwnCommit
<1>4. ASSUME NEW w \in Workers, Progress(w)
      PROVE  OwnInv' /\ [Store!Next]_<<reports, Serves>>
  BY <1>0, <1>2, <1>3, <1>4, OwnStage, OwnQuiet DEF Progress
<1>5. ASSUME NEW w \in Workers, Failure(w)
      PROVE  OwnInv' /\ [Store!Next]_<<reports, Serves>>
  BY <1>0, <1>2, <1>5, OwnStage, OwnQuiet DEF Failure
<1>6. ASSUME NEW w \in Workers, NEW r \in ReportIds, DeleteReport(w, r)
      PROVE  OwnInv' /\ [Store!Next]_<<reports, Serves>>
  BY <1>0, <1>6, OwnQuiet
<1>7. CASE Restart
  <2>1. OwnInv' /\ UNCHANGED <<reports, chunks>>
    BY <1>7 DEF Restart, tables, OwnInv, LocksOwn, InTxn, PersistTxn, DeleteTxn
  <2> QED
    BY <1>0, <2>1
<1>8. CASE UNCHANGED vars
  <2>1. OwnInv' /\ UNCHANGED <<reports, chunks>>
    BY <1>8 DEF vars, tables, job, txn, OwnInv, LocksOwn
  <2> QED
    BY <1>0, <2>1
<1> QED
  BY <1>1, <1>4, <1>5, <1>6, <1>7, <1>8 DEF Next

(* The service implements the abstract store: what readers see changes     *)
(* only by registering a report, publishing a whole document, or removing  *)
(* a report with all it serves.                                            *)
THEOREM Refinement == Spec => ImplementsReportStore
<1>1. Init => OwnInv /\ Store!Init
  BY DEF Init, OwnInv, LocksOwn, InTxn, PersistTxn, DeleteTxn, Store!Init, RowsOf
<1>2. TypeInv /\ LockInv /\ OwnInv /\ [Next]_vars
        => OwnInv' /\ [Store!Next]_<<reports, Serves>>
  BY NextRefines
<1> QED
  BY <1>1, <1>2, TypeInvHolds, InitLockInv, NextLockInv, PTL
     DEF Spec, ImplementsReportStore, Store!Spec, Serves
=============================================================================
