--------------------------- MODULE UploadsProofs ---------------------------
(***************************************************************************)
(* Proofs about Uploads, alone and beside the command line.  When no two   *)
(* channels share a file name, a path of the volume holds a document of    *)
(* the channel its name belongs to, and so does everything on the way from *)
(* the volume to a report.                                                 *)
(***************************************************************************)
EXTENDS CommandLine, TLAPS

(* Document d was chosen under file name f.                                *)
Under(d, f) == \E j \in Attempts : choice[j].doc = d /\ choice[j].file = f

VolumeInv == \A f \in Files : volume[f] \in {NoFile, Torn} \/ Under(volume[f], f)

(* A job's report is the row of its channel and file until it is deleted.  *)
JobInv == \A j \in Attempts :
    /\ stage[j] \in {"upserted", "read"} =>
         /\ report[j] \in issued
         /\ catalog[report[j]] \in
              {NoRow, [channel |-> choice[j].chan, file |-> choice[j].file]}
    /\ stage[j] = "read" => Under(got[j], choice[j].file)

StoreInv == \A r \in ReportIds :
    /\ catalog[r] # NoRow => r \in issued
    /\ serves[r] # {} => catalog[r] # NoRow
    /\ \A d \in serves[r] : Under(d, catalog[r].file)
    /\ catalog[r] # NoRow => \E j \in Attempts : choice[j].chan = catalog[r].channel
                                                /\ choice[j].file = catalog[r].file

(* The attempts js come from the page: what they read has been uploaded.   *)
Uploaded(js) == \A j \in js :
    stage[j] \in {"open", "stored", "asked", "found", "upserted"} =>
        volume[choice[j].file] # NoFile

IInv(js) == TypeOK /\ VolumeInv /\ JobInv /\ StoreInv /\ Uploaded(js)

(* A chosen ingest has a channel, a file and a document.                   *)
LEMMA ChoiceType ==
    ASSUME TypeOK, NEW j \in Attempts
    PROVE  /\ choice[j] \in Choices
           /\ choice[j].chan \in Channels
           /\ choice[j].file \in Files
           /\ choice[j].doc \in Docs
  BY ConstantsAssumption DEF TypeOK

(* The initial state satisfies the invariant.                              *)
LEMMA InitInv ==
    ASSUME NEW CONSTANT js \in SUBSET Attempts, Init
    PROVE  IInv(js)
<1>1. TypeOK
  BY DEF Init, TypeOK, Store!Init
<1>2. VolumeInv /\ JobInv /\ StoreInv /\ Uploaded(js)
  BY DEF Init, VolumeInv, JobInv, StoreInv, Uploaded, Store!Init
<1> QED BY <1>1, <1>2 DEF IInv

(* Steps of the frontend, restarts and failures move stages without        *)
(* entering a job stage that claims more.                                  *)
LEMMA QuietStep ==
    ASSUME NEW CONSTANT js \in SUBSET Attempts, IInv(js),
           UNCHANGED <<volume, catalog, serves, issued, choice, queued, report, got>>,
           stage' \in [Attempts -> {"new", "stored"} \cup Uploading \cup Running \cup Ended],
           waiting' \in [Attempts -> BOOLEAN],
           \A j \in Attempts :
              \/ stage'[j] = stage[j]
              \/ stage'[j] \in {"new", "sent"} \cup Ended
              \/ stage[j] \in {"stored", "asked"} /\ stage'[j] \in {"asked", "found"}
              \/ j \notin js /\ stage'[j] = "found"
    PROVE  IInv(js)'
<1>1. TypeOK'
  BY DEF IInv, TypeOK
<1>2. VolumeInv' /\ StoreInv'
  BY DEF IInv, VolumeInv, StoreInv, Under
<1>3. JobInv' /\ Uploaded(js)'
  BY DEF IInv, JobInv, Uploaded, Under, Ended
<1> QED BY <1>1, <1>2, <1>3 DEF IInv

(* Writing the volume: half the file, then the document of the choice.     *)
LEMMA VolumeStep ==
    ASSUME NEW CONSTANT js \in SUBSET Attempts, IInv(js),
           NEW j \in Attempts, Open(j) \/ Write(j)
    PROVE  IInv(js)'
<1> DEFINE f == choice[j].file
<1> DEFINE new == IF Open(j) THEN Torn ELSE choice[j].doc
<1> DEFINE next == IF Open(j) THEN "open" ELSE "stored"
<1>1. /\ volume' = [volume EXCEPT ![f] = new]
      /\ stage' = [stage EXCEPT ![j] = next]
      /\ UNCHANGED <<catalog, serves, issued, waiting, choice, queued, report, got>>
  BY DEF Open, Write, store, job, scenario, Path
<1>2. f \in Files /\ new \in Docs \cup {Torn} /\ new # NoFile
  BY ChoiceType, ConstantsAssumption DEF IInv
<1>3. new = Torn \/ Under(new, f)
  BY ChoiceType DEF IInv, Under
<1>4. next \in {"open", "stored"}
  OBVIOUS
<1> HIDE DEF f, new, next
<1>5. TypeOK'
  BY <1>1, <1>2, <1>4 DEF IInv, TypeOK, Uploading
<1>6. VolumeInv'
  BY <1>1, <1>2, <1>3 DEF IInv, TypeOK, VolumeInv, Under
<1>7. StoreInv'
  BY <1>1 DEF IInv, StoreInv, Under
<1>8. \A i \in Attempts : volume[choice[i].file] # NoFile => volume'[choice[i].file] # NoFile
  BY <1>1, <1>2, ChoiceType DEF IInv, TypeOK
<1>9. volume'[choice[j].file] # NoFile
  BY <1>1, <1>2 DEF IInv, TypeOK, f
<1>10. JobInv' /\ Uploaded(js)'
  BY <1>1, <1>4, <1>8, <1>9 DEF IInv, TypeOK, JobInv, Uploaded, Under
<1> QED BY <1>5, <1>6, <1>7, <1>10 DEF IInv

(* The upsert finds the row of the channel and file, or adds it under an   *)
(* id that no other job knows.                                             *)
LEMMA UpsertStep ==
    ASSUME NEW CONSTANT js \in SUBSET Attempts, IInv(js),
           NEW j \in Attempts, Upsert(j)
    PROVE  IInv(js)'
<1> DEFINE row == [channel |-> choice[j].chan, file |-> choice[j].file]
<1>1. row \in Store!Row
      /\ \E i \in Attempts : choice[i].chan = row.channel /\ choice[i].file = row.file
  BY ChoiceType DEF IInv, Store!Row
<1>2. PICK r \in ReportIds :
         /\ \/ /\ r \notin issued
               /\ catalog[r] = NoRow
               /\ catalog' = [catalog EXCEPT ![r] = row]
               /\ issued' = issued \cup {r}
               /\ serves' = serves
            \/ catalog[r] = row /\ UNCHANGED <<catalog, serves, issued>>
         /\ report' = [report EXCEPT ![j] = r]
  BY DEF Upsert, Store!Register, store
<1>3. /\ stage[j] = "found"
      /\ stage' = [stage EXCEPT ![j] = "upserted"]
      /\ UNCHANGED <<volume, waiting, choice, queued, got>>
  BY DEF Upsert, scenario
<1>4. row # NoRow
  BY <1>1, ConstantsAssumption DEF Store!Row
<1> HIDE DEF row
<1>5. TypeOK'
  BY <1>1, <1>2, <1>3 DEF IInv, TypeOK, Running
<1>6. VolumeInv'
  BY <1>3 DEF IInv, VolumeInv, Under
<1>7. r \in issued'
  BY <1>2, <1>4 DEF IInv, StoreInv
<1>8. StoreInv'
  <2>1. serves' = serves /\ choice' = choice /\ issued \subseteq issued'
    BY <1>2, <1>3
  <2>2. \A q \in ReportIds :
           catalog'[q] = catalog[q] \/ (q = r /\ catalog[q] = NoRow /\ catalog'[q] = row)
    BY <1>2 DEF IInv, TypeOK
  <2>3. \A q \in ReportIds : serves[q] # {} => catalog'[q] = catalog[q] /\ catalog[q] # NoRow
    BY <2>2 DEF IInv, StoreInv
  <2>4. \A q \in ReportIds : catalog'[q] # NoRow => q \in issued'
    BY <1>7, <2>1, <2>2 DEF IInv, StoreInv
  <2>5. \A q \in ReportIds : catalog'[q] # NoRow =>
           \E i \in Attempts : choice[i].chan = catalog'[q].channel
                             /\ choice[i].file = catalog'[q].file
    BY <1>1, <2>2 DEF IInv, StoreInv
  <2>6. \A q \in ReportIds : \A d \in serves[q] : Under(d, catalog'[q].file)
    BY <2>3 DEF IInv, StoreInv
  <2> QED BY <2>1, <2>3, <2>4, <2>5, <2>6 DEF StoreInv, Under
<1>9. ASSUME NEW i \in Attempts, stage'[i] \in {"upserted", "read"}
      PROVE  /\ report'[i] \in issued'
             /\ catalog'[report'[i]] \in
                  {NoRow, [channel |-> choice[i].chan, file |-> choice[i].file]}
  <2>1. CASE i = j
    BY <1>2, <1>7, <2>1 DEF IInv, TypeOK, row
  <2>2. CASE i # j
    BY <1>2, <1>3, <1>9, <2>2 DEF IInv, TypeOK, JobInv
  <2> QED BY <2>1, <2>2
<1>10. JobInv' /\ Uploaded(js)'
  BY <1>3, <1>9 DEF IInv, TypeOK, JobInv, Uploaded, Under
<1> QED BY <1>5, <1>6, <1>8, <1>10 DEF IInv

(* What a job reads, from the volume or from the operator's disk, was      *)
(* chosen under its file name.                                             *)
LEMMA ReadStep ==
    ASSUME NEW CONSTANT js \in SUBSET Attempts, IInv(js),
           NEW j \in Attempts, NEW d \in Docs, Under(d, choice[j].file),
           stage[j] = "upserted",
           got' = [got EXCEPT ![j] = d],
           stage' = [stage EXCEPT ![j] = "read"],
           UNCHANGED <<volume, catalog, serves, issued, waiting, choice, queued, report>>
    PROVE  IInv(js)'
<1>1. TypeOK'
  BY DEF IInv, TypeOK, Running
<1>2. VolumeInv' /\ StoreInv'
  BY DEF IInv, VolumeInv, StoreInv, Under
<1>3. JobInv' /\ Uploaded(js)'
  BY DEF IInv, TypeOK, JobInv, Uploaded, Under
<1> QED BY <1>1, <1>2, <1>3 DEF IInv

LEMMA VolumeReadStep ==
    ASSUME NEW CONSTANT js \in SUBSET Attempts, IInv(js),
           NEW j \in js, Read(j)
    PROVE  IInv(js)'
<1> DEFINE d == volume[choice[j].file]
<1>1. /\ stage[j] = "upserted" /\ d # Torn
      /\ got' = [got EXCEPT ![j] = d]
      /\ stage' = [stage EXCEPT ![j] = "read"]
      /\ UNCHANGED <<volume, catalog, serves, issued, waiting, choice, queued, report>>
  BY DEF Read, Stays, store, scenario, Path
<1>2. d \in Docs /\ Under(d, choice[j].file)
  <2>1. choice[j].file \in Files
    BY ChoiceType DEF IInv
  <2>2. d \in Docs \cup {NoFile, Torn}
    BY <2>1 DEF IInv, TypeOK
  <2>3. d # NoFile
    BY <1>1 DEF IInv, Uploaded
  <2>4. d \in {NoFile, Torn} \/ Under(d, choice[j].file)
    BY <2>1 DEF IInv, VolumeInv
  <2> QED BY <1>1, <2>2, <2>3, <2>4
<1> HIDE DEF d
<1> QED BY <1>1, <1>2, ReadStep

LEMMA LocalReadStep ==
    ASSUME NEW CONSTANT js \in SUBSET Attempts, IInv(js),
           NEW j \in Attempts, stage[j] = "upserted",
           got' = [got EXCEPT ![j] = choice[j].doc],
           stage' = [stage EXCEPT ![j] = "read"],
           UNCHANGED <<volume, catalog, serves, issued, waiting, choice, queued, report>>
    PROVE  IInv(js)'
<1> DEFINE d == choice[j].doc
<1>1. d \in Docs /\ Under(d, choice[j].file)
  BY ChoiceType DEF IInv, Under
<1> HIDE DEF d
<1> QED BY <1>1, ReadStep DEF d

(* What is indexed was uploaded under the file name of the report.         *)
LEMMA PublishStep ==
    ASSUME NEW CONSTANT js \in SUBSET Attempts, IInv(js),
           NEW j \in Attempts, Publish(j)
    PROVE  IInv(js)'
<1> DEFINE r == report[j]
<1> DEFINE new == {got[j]} \ Textless
<1>1. r \in ReportIds /\ got[j] \in Docs /\ Under(got[j], choice[j].file)
      /\ catalog[r] \in {NoRow, [channel |-> choice[j].chan, file |-> choice[j].file]}
  BY ChoiceType, ConstantsAssumption DEF Publish, IInv, TypeOK, JobInv, Under
<1>2. PICK kept \in SUBSET serves[r] : serves' = [serves EXCEPT ![r] = kept \cup new]
  BY DEF Publish, Store!Publish
<1>3. got[j] \notin Textless => catalog[r] # NoRow
  BY DEF Publish, Store!Publish
<1>4. PICK how \in Ended :
      /\ stage' = [stage EXCEPT ![j] = how]
      /\ waiting' = [waiting EXCEPT ![j] = FALSE]
      /\ UNCHANGED <<volume, catalog, issued, choice, queued, report, got>>
  BY DEF Publish, Store!Publish, End, job, scenario
<1>5. new \in SUBSET (Docs \ Textless)
      /\ \A d \in new : catalog[r] # NoRow /\ Under(d, catalog[r].file)
  BY <1>1, <1>3
<1> HIDE DEF r, new
<1>6. TypeOK'
  BY <1>1, <1>2, <1>4, <1>5 DEF IInv, TypeOK, Ended
<1>7. VolumeInv'
  BY <1>4 DEF IInv, VolumeInv, Under
<1>8. StoreInv'
  BY <1>1, <1>2, <1>4, <1>5 DEF IInv, TypeOK, StoreInv, Under
<1>9. JobInv' /\ Uploaded(js)'
  BY <1>4 DEF IInv, TypeOK, JobInv, Uploaded, Under, Ended
<1> QED BY <1>6, <1>7, <1>8, <1>9 DEF IInv

(* A deleted report serves nothing, and its id is not handed out again.    *)
LEMMA DeleteStep ==
    ASSUME NEW CONSTANT js \in SUBSET Attempts, IInv(js),
           NEW r \in ReportIds, Delete(r)
    PROVE  IInv(js)'
<1>1. /\ catalog' = [catalog EXCEPT ![r] = NoRow]
      /\ serves' = [serves EXCEPT ![r] = {}]
      /\ UNCHANGED <<volume, issued, stage, waiting, choice, queued, report, got>>
  BY DEF Delete, Store!Remove, job, scenario
<1>2. TypeOK'
  BY <1>1 DEF IInv, TypeOK
<1>3. VolumeInv' /\ StoreInv'
  BY <1>1 DEF IInv, TypeOK, VolumeInv, StoreInv, Under
<1>4. JobInv' /\ Uploaded(js)'
  BY <1>1 DEF IInv, TypeOK, JobInv, Uploaded, Under
<1> QED BY <1>2, <1>3, <1>4 DEF IInv

(* What a frontend, the backend and rag_service do for an attempt of the   *)
(* page.                                                                   *)
LEMMA PageStep ==
    ASSUME NEW CONSTANT js \in SUBSET Attempts, IInv(js), NEW j \in js,
           \/ Send(j) \/ Ask(j) \/ GiveUp(j) \/ Open(j) \/ Write(j)
           \/ Find(j) \/ Upsert(j) \/ Read(j) \/ Publish(j) \/ Fail(j)
    PROVE  IInv(js)'
<1> USE DEF Stays, store, job, scenario
<1>1. j \in Attempts
  OBVIOUS
<1>2. TypeOK
  BY DEF IInv
<1>3. CASE Send(j)
  BY <1>1, <1>2, <1>3, QuietStep DEF TypeOK, Send, Uploading
<1>4. CASE Ask(j)
  BY <1>1, <1>2, <1>4, QuietStep DEF TypeOK, Ask, Running
<1>5. CASE GiveUp(j)
  BY <1>1, <1>2, <1>5, QuietStep DEF TypeOK, GiveUp
<1>6. CASE Find(j)
  BY <1>1, <1>2, <1>6, QuietStep DEF TypeOK, Find, Running
<1>7. CASE Fail(j)
  BY <1>1, <1>2, <1>7, QuietStep DEF TypeOK, Fail, End, Ended
<1> QED
  BY <1>1, <1>3, <1>4, <1>5, <1>6, <1>7, VolumeStep, UpsertStep, VolumeReadStep, PublishStep

(* Restarts.                                                               *)
LEMMA RestartStep ==
    ASSUME NEW CONSTANT js \in SUBSET Attempts, IInv(js), NEW some,
           BackendRestart \/ Stop(some)
    PROVE  IInv(js)'
<1> USE DEF Stays, store, job, scenario
<1>1. CASE BackendRestart
  BY <1>1, QuietStep DEF IInv, TypeOK, BackendRestart, Ended
<1>2. CASE Stop(some)
  BY <1>2, QuietStep DEF IInv, TypeOK, Stop, Ended
<1> QED BY <1>1, <1>2

LEMMA StutterStep ==
    ASSUME NEW CONSTANT js \in SUBSET Attempts, IInv(js), UNCHANGED vars
    PROVE  IInv(js)'
  BY DEF vars, store, job, scenario, IInv, TypeOK, VolumeInv, JobInv, StoreInv,
         Uploaded, Under

LEMMA StepInv == ASSUME IInv(Attempts), [Next]_vars PROVE IInv(Attempts)'
<1> DEFINE js == Attempts
<1>1. js \in SUBSET Attempts
  OBVIOUS
<1> QED
  BY <1>1, PageStep, RestartStep, DeleteStep, StutterStep DEF Next, RagRestart

LEMMA Isolated ==
    ASSUME NEW CONSTANT js \in SUBSET Attempts, IInv(js)
    PROVE  OwnDocuments
  BY DEF IInv, StoreInv, Under, OwnDocuments, NamesNotShared

(* The volume, the jobs and the store keep their types, for any number of  *)
(* attempts, channels and files (backend/main.py, rag_service/main.py).    *)
THEOREM UploadsTypeCorrect == Spec => []TypeOK
<1>1. Init => IInv(Attempts)  BY InitInv
<1>2. IInv(Attempts) => TypeOK  BY DEF IInv
<1> QED BY <1>1, <1>2, StepInv, PTL DEF Spec

(* Unless two channels share a file name, every report serves only what    *)
(* was uploaded for its channel, whatever is given up, restarted, repeated *)
(* or deleted.                                                             *)
THEOREM NamesIsolate == Spec => []OwnDocuments
<1>1. Init => IInv(Attempts)  BY InitInv
<1>2. IInv(Attempts) => OwnDocuments  BY Isolated
<1> QED BY <1>1, <1>2, StepInv, PTL DEF Spec

-----------------------------------------------------------------------------
(* Beside the command line                                                 *)

(* The list is worked off in order: what comes after the file whose turn   *)
(* it is has not begun, what comes before has ended, and exit code 0 means *)
(* that everything has ended well.                                         *)
BatchInv ==
    /\ batch \in Seq(Attempts)
    /\ \A m, n \in DOMAIN batch : batch[m] = batch[n] => m = n
    /\ turn \in 0 .. Len(batch)
    /\ \A n \in DOMAIN batch : n > turn => stage[batch[n]] = "new"
    /\ \A n \in DOMAIN batch : n < turn => stage[batch[n]] \in Ended
    /\ exit = "zero" => \A n \in DOMAIN batch : stage[batch[n]] = "ok"

(* A file that ended well is served or replaced from then on.              *)
DoneInv == \A n \in DOMAIN batch :
    stage[batch[n]] = "ok" => report[batch[n]] \in issued /\ ServedOrReplaced(n)

CommandInv == IInv(Attempts \ Commands) /\ BatchInv /\ DoneInv

(* A step that publishes and deletes nothing, and leaves what has ended.   *)
Keeps ==
    /\ serves' = serves
    /\ issued \subseteq issued'
    /\ \A r \in ReportIds : r \in issued /\ catalog[r] = NoRow => catalog'[r] = NoRow
    /\ \A j \in Attempts : stage[j] \in Ended =>
         stage'[j] = stage[j] /\ report'[j] = report[j] /\ got'[j] = got[j]
    /\ \A j \in Attempts : stage'[j] = "ok" => stage[j] = "ok"

LEMMA ServedKept ==
    ASSUME BatchInv, DoneInv, UNCHANGED batch, Keeps
    PROVE  DoneInv'
<1> SUFFICES ASSUME NEW n \in DOMAIN batch, stage'[batch[n]] = "ok"
             PROVE  report'[batch[n]] \in issued' /\ ServedOrReplaced(n)'
  BY DEF DoneInv
<1>1. batch[n] \in Attempts
  BY DEF BatchInv
<1>2. stage[batch[n]] = "ok" /\ report'[batch[n]] = report[batch[n]]
  BY <1>1 DEF Keeps, Ended
<1>3. report[batch[n]] \in issued /\ ServedOrReplaced(n)
  BY <1>2 DEF DoneInv
<1> QED
  BY <1>2, <1>3 DEF Keeps, ServedOrReplaced

LEMMA BatchKept ==
    ASSUME BatchInv, UNCHANGED <<batch, turn>>, exit' \in {exit, "nonzero"},
           \A n \in DOMAIN batch :
              stage'[batch[n]] = stage[batch[n]] \/ (n = turn /\ exit # "zero")
    PROVE  BatchInv'
  BY DEF BatchInv

(* Everything an attempt may do before it publishes.                       *)
LEMMA AttemptKeeps ==
    ASSUME TypeOK, NEW j \in Attempts,
           \/ Send(j) \/ Ask(j) \/ GiveUp(j) \/ Open(j) \/ Write(j)
           \/ Find(j) \/ Upsert(j) \/ Read(j) \/ Fail(j)
    PROVE  Keeps /\ \A i \in Attempts \ {j} : stage'[i] = stage[i]
<1> USE DEF Stays, store, job, scenario, Ended, Uploading, Running
<1>1. CASE Send(j)
  BY <1>1 DEF TypeOK, Send, Keeps
<1>2. CASE Ask(j)
  BY <1>2 DEF TypeOK, Ask, Keeps
<1>3. CASE GiveUp(j)
  BY <1>3 DEF TypeOK, GiveUp, Keeps
<1>4. CASE Open(j)
  BY <1>4 DEF TypeOK, Open, Keeps
<1>5. CASE Write(j)
  BY <1>5 DEF TypeOK, Write, Keeps
<1>6. CASE Find(j)
  BY <1>6 DEF TypeOK, Find, Keeps
<1>7. CASE Upsert(j)
  BY <1>7 DEF TypeOK, Upsert, Store!Register, Keeps
<1>8. CASE Read(j)
  BY <1>8 DEF TypeOK, Read, Keeps
<1>9. CASE Fail(j)
  BY <1>9 DEF TypeOK, Fail, End, Keeps
<1> QED
  BY <1>1, <1>2, <1>3, <1>4, <1>5, <1>6, <1>7, <1>8, <1>9

(* A publication makes its own document the last that its report was       *)
(* given: for the file whose turn it is, and for the files before it.      *)
LEMMA PublishDone ==
    ASSUME TypeOK, JobInv, BatchInv, DoneInv, UNCHANGED batch,
           NEW j \in Attempts, Publish(j),
           \A n \in DOMAIN batch : j = batch[n] => n = turn
    PROVE  DoneInv' /\ \A i \in Attempts \ {j} : stage'[i] = stage[i]
<1>1. PICK kept : serves' = [serves EXCEPT ![report[j]] = kept \cup ({got[j]} \ Textless)]
  BY DEF Publish, Store!Publish
<1>2. PICK how \in Ended : stage' = [stage EXCEPT ![j] = how]
  BY DEF Publish, End
<1>3. stage[j] = "read" /\ UNCHANGED <<catalog, issued, report, got>>
  BY DEF Publish, Store!Publish, job
<1>4. report[j] \in issued /\ report[j] \in ReportIds
  BY <1>3 DEF JobInv, TypeOK
<1>5. ASSUME NEW n \in DOMAIN batch, stage'[batch[n]] = "ok"
      PROVE  report[batch[n]] \in issued /\ ServedOrReplaced(n)'
  <2>1. batch[n] \in Attempts /\ n \in Nat /\ turn \in Nat
    BY DEF BatchInv
  <2>2. \/ batch[n] = j
        \/ stage[batch[n]] = "ok" /\ ServedOrReplaced(n) /\ report[batch[n]] \in issued
    BY <1>2, <1>5, <2>1 DEF TypeOK, DoneInv
  <2>3. n <= turn
    <3>1. CASE batch[n] = j
      BY <3>1, <2>1
    <3>2. CASE stage[batch[n]] = "ok"
      BY <3>2, <2>1 DEF BatchInv
    <3> QED BY <2>2, <3>1, <3>2
  <2>4. j \notin {batch[m] : m \in 1 .. n - 1}
    <3> SUFFICES ASSUME NEW m \in 1 .. n - 1, j = batch[m] PROVE FALSE
      OBVIOUS
    <3>1. m \in DOMAIN batch
      BY <2>1 DEF BatchInv
    <3> QED BY <3>1, <2>1, <2>3
  <2>5. stage'[j] \in Ended /\ {got[j]} \ Textless \subseteq serves'[report[j]]
    BY <1>1, <1>2, <1>4 DEF TypeOK
  <2>6. CASE report[batch[n]] = report[j]
    BY <2>4, <2>5, <2>6, <1>3, <1>4 DEF ServedOrReplaced
  <2>7. CASE report[batch[n]] # report[j]
    <3>1. ServedOrReplaced(n)
      BY <2>2, <2>7
    <3>2. serves'[report[batch[n]]] = serves[report[batch[n]]]
      BY <3>1, <2>7, <1>1, <1>4 DEF TypeOK, ServedOrReplaced
    <3>3. \A i \in Attempts : stage[i] \in Ended => stage'[i] \in Ended
      BY <1>2 DEF TypeOK
    <3> QED BY <3>1, <3>2, <3>3, <1>3, <2>2, <2>7 DEF ServedOrReplaced
  <2> QED BY <2>2, <2>6, <2>7, <1>4
<1>6. DoneInv'
  BY <1>3, <1>5 DEF DoneInv
<1>7. \A i \in Attempts \ {j} : stage'[i] = stage[i]
  BY <1>2 DEF TypeOK
<1> QED BY <1>6, <1>7

LEMMA DeleteDone ==
    ASSUME TypeOK, BatchInv, DoneInv, UNCHANGED batch, NEW r \in ReportIds, Delete(r)
    PROVE  DoneInv' /\ stage' = stage
<1>1. /\ catalog' = [catalog EXCEPT ![r] = NoRow]
      /\ serves' = [serves EXCEPT ![r] = {}]
      /\ UNCHANGED <<issued, stage, report, got>>
  BY DEF Delete, Store!Remove, job
<1>2. ASSUME NEW n \in DOMAIN batch, ServedOrReplaced(n)
      PROVE  ServedOrReplaced(n)'
  <2>1. CASE report[batch[n]] = r
    BY <1>1, <1>2, <2>1 DEF TypeOK, ServedOrReplaced
  <2>2. CASE report[batch[n]] # r
    BY <1>1, <1>2, <2>2 DEF TypeOK, ServedOrReplaced
  <2> QED BY <2>1, <2>2
<1> QED BY <1>1, <1>2 DEF DoneInv

LEMMA RestartKeeps ==
    ASSUME TypeOK, NEW some, BackendRestart \/ Stop(some)
    PROVE  Keeps
<1> USE DEF Stays, store, job, scenario, Ended, Uploading, Running
<1>1. CASE BackendRestart
  BY <1>1 DEF TypeOK, BackendRestart, Keeps
<1>2. CASE Stop(some)
  BY <1>2 DEF TypeOK, Stop, Keeps
<1> QED BY <1>1, <1>2

(* The list has not begun.                                                 *)
LEMMA CommandInitInv == CommandInit => CommandInv
<1> SUFFICES ASSUME CommandInit PROVE CommandInv
  OBVIOUS
<1>1. PICK js : js = Attempts \ Commands
  OBVIOUS
<1>2. IInv(js)
  BY <1>1, InitInv DEF CommandInit
<1>3. batch \in Seq(Attempts) /\ IsInjective(batch)
  BY BatchesAssumption DEF CommandInit
<1>4. \A n \in DOMAIN batch : stage[batch[n]] = "new"
  BY <1>3 DEF CommandInit, Init
<1>5. BatchInv
  BY <1>3, <1>4 DEF BatchInv, CommandInit, IsInjective
<1>6. DoneInv
  BY <1>4 DEF DoneInv
<1> QED BY <1>1, <1>2, <1>5, <1>6 DEF CommandInv

(* The command's own steps: what they do to the store, and to the list.    *)
LEMMA WorkInv ==
    ASSUME CommandInv, Work
    PROVE  CommandInv'
<1> USE DEF Stays, store, job, scenario
<1>1. PICK js : js = Attempts \ Commands
  OBVIOUS
<1>2. PICK c : c = Current
  OBVIOUS
<1>3. exit = "none" /\ turn # 0 /\ UNCHANGED <<batch, stop, turn, exit>>
  BY DEF Work, command
<1>4. turn \in DOMAIN batch /\ c = batch[turn] /\ c \in Attempts /\ c \notin js
  BY <1>1, <1>2, <1>3 DEF CommandInv, BatchInv, Current, Commands, Range
<1>5. js \in SUBSET Attempts /\ IInv(js) /\ TypeOK /\ JobInv /\ BatchInv /\ DoneInv
  BY <1>1 DEF CommandInv, IInv
<1>6. \A n \in DOMAIN batch : c = batch[n] => n = turn
  BY <1>4, <1>5 DEF BatchInv
<1>7. \A n \in DOMAIN batch : batch[n] \in Attempts
  BY <1>5 DEF BatchInv
<1> DEFINE Good == IInv(js)' /\ DoneInv' /\ \A i \in Attempts \ {c} : stage'[i] = stage[i]
<1>8. ASSUME Take PROVE Good
  <2>1. stage[c] = "new" /\ stage' = [stage EXCEPT ![c] = "found"]
        /\ UNCHANGED <<volume, catalog, serves, issued, waiting, choice, queued, report, got>>
    BY <1>2, <1>8 DEF Take
  <2>2. IInv(js)'
    BY <1>4, <1>5, <2>1, QuietStep DEF TypeOK, Running
  <2>3. Keeps /\ \A i \in Attempts \ {c} : stage'[i] = stage[i]
    BY <1>4, <1>5, <2>1 DEF TypeOK, Keeps, Ended
  <2> QED BY <1>3, <1>5, <2>2, <2>3, ServedKept
<1>9. ASSUME ReadLocal PROVE Good
  <2>1. /\ stage[c] = "upserted"
        /\ got' = [got EXCEPT ![c] = choice[c].doc]
        /\ stage' = [stage EXCEPT ![c] = "read"]
        /\ UNCHANGED <<volume, catalog, serves, issued, waiting, choice, queued, report>>
    BY <1>2, <1>9 DEF ReadLocal
  <2>2. IInv(js)'
    BY <1>4, <1>5, <2>1, LocalReadStep
  <2>3. Keeps /\ \A i \in Attempts \ {c} : stage'[i] = stage[i]
    BY <1>4, <1>5, <2>1 DEF TypeOK, Keeps, Ended
  <2> QED BY <1>3, <1>5, <2>2, <2>3, ServedKept
<1>10. ASSUME Upsert(c) PROVE Good
  BY <1>3, <1>4, <1>5, <1>10, UpsertStep, AttemptKeeps, ServedKept
<1>11. ASSUME Fail(c) PROVE Good
  <2>1. IInv(js)'
    BY <1>4, <1>5, <1>11, QuietStep DEF TypeOK, Fail, End, Ended
  <2> QED BY <1>3, <1>4, <1>5, <1>11, <2>1, AttemptKeeps, ServedKept
<1>12. ASSUME Publish(c) PROVE Good
  <2>1. IInv(js)'
    BY <1>4, <1>5, <1>12, PublishStep
  <2> QED BY <1>3, <1>4, <1>5, <1>6, <1>12, <2>1, PublishDone
<1>13. Good
  BY <1>2, <1>8, <1>9, <1>10, <1>11, <1>12 DEF Work
<1>14. BatchInv'
  BY <1>3, <1>5, <1>6, <1>7, <1>13, BatchKept
<1>15. js = (Attempts \ Commands)'
  BY <1>1, <1>3 DEF Commands
<1> QED BY <1>13, <1>14, <1>15 DEF CommandInv

(* Going on to the next file, or leaving the loop.                         *)
LEMMA ListInv ==
    ASSUME CommandInv, Refuse \/ Begin \/ Account \/ UNCHANGED allVars
    PROVE  CommandInv'
<1>1. PICK js : js = Attempts \ Commands
  OBVIOUS
<1>2. UNCHANGED vars /\ UNCHANGED batch
  BY DEF Refuse, Begin, Account, allVars, command
<1>3. js \in SUBSET Attempts /\ IInv(js) /\ BatchInv /\ DoneInv
  BY <1>1 DEF CommandInv
<1>4. IInv(js)' /\ js = (Attempts \ Commands)'
  BY <1>1, <1>2, <1>3, StutterStep DEF Commands
<1>5. stage' = stage /\ DoneInv'
  BY <1>2, <1>3 DEF vars, store, job, scenario, DoneInv, ServedOrReplaced
<1>6. BatchInv'
  <2>1. CASE Refuse \/ UNCHANGED allVars
    BY <1>2, <1>3, <1>5, <2>1 DEF BatchInv, Refuse, allVars, command
  <2>2. CASE Begin
    <3>1. Len(batch) \in Nat \ {0} /\ DOMAIN batch = 1 .. Len(batch)
      BY <1>3, <2>2 DEF Begin, Starting, BatchInv
    <3> QED BY <1>2, <1>3, <1>5, <2>2, <3>1 DEF BatchInv, Begin, Starting
  <2>3. CASE Account
    <3>1. turn \in Nat /\ Len(batch) \in Nat /\ DOMAIN batch = 1 .. Len(batch)
          /\ turn \in 1 .. Len(batch) /\ exit = "none" /\ stage[batch[turn]] \in Ended
      BY <1>3, <2>3 DEF Account, BatchInv, Current
    <3>2. CASE turn = Len(batch) \/ (stop /\ stage[Current] = "error")
      <4>1. turn' = turn /\ exit' = ExitCode
        BY <2>3, <3>2 DEF Account
      <4>2. exit' = "zero" => \A n \in 1 .. turn : stage[batch[n]] \in Ended
                                                  /\ stage[batch[n]] # "error"
        <5> SUFFICES ASSUME exit' = "zero", NEW n \in 1 .. turn
                     PROVE  stage[batch[n]] \in Ended /\ stage[batch[n]] # "error"
          OBVIOUS
        <5>1. stage[batch[n]] # "error"
          BY <4>1 DEF ExitCode
        <5>2. n \in DOMAIN batch /\ (n = turn \/ n < turn)
          BY <3>1
        <5>3. stage[batch[n]] \in Ended
          BY <1>3, <3>1, <5>2 DEF BatchInv
        <5> QED BY <5>1, <5>3
      <4>3. exit' = "zero" => turn = Len(batch)
        <5>1. turn \in 1 .. turn
          BY <3>1
        <5>2. exit' = "zero" => stage[Current] # "error"
          BY <4>2, <5>1 DEF Current
        <5> QED BY <3>2, <5>2
      <4>4. exit' = "zero" => \A n \in DOMAIN batch : stage[batch[n]] = "ok"
        BY <3>1, <4>2, <4>3 DEF Ended
      <4> QED BY <1>2, <1>3, <1>5, <4>1, <4>4 DEF BatchInv
    <3>3. CASE ~(turn = Len(batch) \/ (stop /\ stage[Current] = "error"))
      <4>1. turn' = turn + 1 /\ exit' = exit
        BY <2>3, <3>3 DEF Account
      <4>2. turn + 1 \in 0 .. Len(batch)
        <5>1. turn # Len(batch)
          BY <3>3, Zenon
        <5>2. turn \in 1 .. Len(batch) /\ Len(batch) \in Nat
          BY <3>1, Zenon
        <5>3. \A b \in Nat : \A a \in 1 .. b : a # b => a + 1 \in 0 .. b
          OBVIOUS
        <5> QED BY <5>1, <5>2, <5>3, Zenon
      <4>3. \A n \in DOMAIN batch : n > turn + 1 => stage[batch[n]] = "new"
        BY <1>3, <3>1 DEF BatchInv
      <4>4. \A n \in DOMAIN batch : n < turn + 1 => stage[batch[n]] \in Ended
        <5>1. \A n \in DOMAIN batch : n < turn + 1 => n < turn \/ n = turn
          BY <3>1
        <5> QED BY <1>3, <3>1, <5>1 DEF BatchInv
      <4> QED
        BY <1>2, <1>3, <1>5, <3>1, <4>1, <4>2, <4>3, <4>4 DEF BatchInv
    <3> QED BY <3>2, <3>3
  <2> QED BY <2>1, <2>2, <2>3
<1> QED BY <1>4, <1>5, <1>6 DEF CommandInv

(* An interruption.                                                        *)
LEMMA KillInv ==
    ASSUME CommandInv, Kill
    PROVE  CommandInv'
<1>1. PICK js : js = Attempts \ Commands
  OBVIOUS
<1>2. js \in SUBSET Attempts /\ IInv(js) /\ TypeOK /\ BatchInv /\ DoneInv
  BY <1>1 DEF CommandInv, IInv
<1>3. exit = "none" /\ exit' = "nonzero" /\ UNCHANGED <<batch, turn>>
  BY DEF Kill
<1>4. IInv(js)' /\ js = (Attempts \ Commands)'
  BY <1>1, <1>2, <1>3, RestartStep DEF Kill, Commands
<1>5. DoneInv'
  BY <1>2, <1>3, RestartKeeps, ServedKept DEF Kill
<1>6. \A n \in DOMAIN batch : n # turn => stage'[batch[n]] = stage[batch[n]]
  BY <1>2 DEF Kill, Stop, BatchInv, Ended, Running
<1>7. BatchInv'
  BY <1>2, <1>3, <1>6, BatchKept
<1> QED BY <1>4, <1>5, <1>7 DEF CommandInv

(* The page, the services and the admins.                                  *)
LEMMA ServiceInv ==
    ASSUME CommandInv, Service
    PROVE  CommandInv'
<1>1. PICK js : js = Attempts \ Commands
  OBVIOUS
<1>2. js \in SUBSET Attempts /\ IInv(js) /\ TypeOK /\ JobInv /\ BatchInv /\ DoneInv
  BY <1>1 DEF CommandInv, IInv
<1>3. UNCHANGED <<batch, stop, turn, exit>>
  BY DEF Service, command
<1>4. \A n \in DOMAIN batch : batch[n] \in Attempts \ js
  BY <1>1, <1>2 DEF BatchInv, Commands, Range
<1> DEFINE Good ==
      /\ IInv(js)' /\ DoneInv'
      /\ \A n \in DOMAIN batch :
           stage'[batch[n]] = stage[batch[n]] \/ (n = turn /\ exit # "zero")
<1>5. ASSUME NEW j \in js,
             \/ Send(j) \/ Ask(j) \/ GiveUp(j) \/ Open(j) \/ Write(j)
             \/ Find(j) \/ Upsert(j) \/ Read(j) \/ Fail(j)
      PROVE  Good
  <2>1. IInv(js)'
    BY <1>2, <1>5, PageStep
  <2>2. Keeps /\ \A i \in Attempts \ {j} : stage'[i] = stage[i]
    BY <1>2, <1>5, AttemptKeeps
  <2> QED BY <1>2, <1>3, <1>4, <2>1, <2>2, ServedKept
<1>6. ASSUME NEW j \in js, Publish(j) PROVE Good
  <2>1. IInv(js)'
    BY <1>2, <1>6, PageStep
  <2>2. DoneInv' /\ \A i \in Attempts \ {j} : stage'[i] = stage[i]
    BY <1>2, <1>3, <1>4, <1>6, PublishDone
  <2> QED BY <1>4, <2>1, <2>2
<1>7. ASSUME NEW r \in ReportIds, Delete(r) PROVE Good
  BY <1>2, <1>3, <1>7, DeleteStep, DeleteDone
<1>8. ASSUME BackendRestart \/ Stop(js) PROVE Good
  <2>1. IInv(js)'
    BY <1>2, <1>8, RestartStep
  <2>2. DoneInv'
    BY <1>2, <1>3, <1>8, RestartKeeps, ServedKept
  <2>3. \A n \in DOMAIN batch :
           \/ n = turn /\ exit # "zero"
           \/ stage[batch[n]] \in {"new"} \cup Ended
    BY <1>2 DEF BatchInv, Ended
  <2>4. \A j \in Attempts : stage'[j] = stage[j] \/ stage[j] \in Uploading
                           \/ j \in js
    BY <1>8 DEF BackendRestart, Stop
  <2>5. \A n \in DOMAIN batch :
           stage'[batch[n]] = stage[batch[n]] \/ (n = turn /\ exit # "zero")
    BY <1>4, <2>3, <2>4 DEF Uploading, Ended
  <2> QED BY <2>1, <2>2, <2>5
<1>9. Good
  BY <1>1, <1>5, <1>6, <1>7, <1>8 DEF Service
<1>10. BatchInv'
  BY <1>2, <1>3, <1>9, BatchKept
<1>11. js = (Attempts \ Commands)'
  BY <1>1, <1>3 DEF Commands
<1> QED BY <1>9, <1>10, <1>11 DEF CommandInv

LEMMA CommandStepInv == ASSUME CommandInv, [CommandNext]_allVars PROVE CommandInv'
  BY WorkInv, ListInv, KillInv, ServiceInv DEF CommandNext

(* Tenant isolation beside the command line too: the operator's files keep *)
(* to the channel of the command, and those of the page to theirs.         *)
THEOREM NamesIsolateBesideCommand == CommandSpec => []OwnDocuments
<1>1. CommandInv => OwnDocuments
  <2>1. SUFFICES ASSUME CommandInv PROVE OwnDocuments
    OBVIOUS
  <2>2. PICK js : js = Attempts \ Commands
    OBVIOUS
  <2> QED BY <2>1, <2>2, Isolated DEF CommandInv
<1> QED BY <1>1, CommandInitInv, CommandStepInv, PTL DEF CommandSpec

(* Exit code 0 of the batch command line can be relied on, for lists of    *)
(* any length and any number of ingests, deletions and restarts beside it: *)
(* every file is served, or was replaced or deleted after it was.          *)
THEOREM ExitCodeIsTrue == CommandSpec => []ExitZeroIsTrue
<1>1. CommandInv => ExitZeroIsTrue
  BY DEF CommandInv, BatchInv, DoneInv, ExitZeroIsTrue
<1> QED BY <1>1, CommandInitInv, CommandStepInv, PTL DEF CommandSpec
-----------------------------------------------------------------------------
(* One queue                                                               *)

(* With one queue at most one attempt is waited for, an upload is, and the *)
(* file of the attempt stays in the volume until its job has read it:      *)
(* whatever else runs has been given up, and uploads nothing any more.     *)
QueueOK(j) ==
    /\ stage[j] \in Uploading => waiting[j]
    /\ waiting[j] =>
         /\ \A i \in Attempts : waiting[i] => i = j
         /\ stage[j] \in {"stored"} \cup Uploading \cup Running
         /\ stage[j] \in {"stored", "asked", "found", "upserted"} =>
              volume[choice[j].file] = choice[j].doc
         /\ stage[j] = "read" => got[j] = choice[j].doc

QueueInv == queued => \A j \in Attempts : QueueOK(j)

(* Nobody is waited for that was not, and nobody has begun to upload.      *)
LEMMA QueueKept ==
    ASSUME QueueInv, UNCHANGED <<choice, queued>>,
           \A i \in Attempts : waiting'[i] => waiting[i],
           \A i \in Attempts : queued /\ stage'[i] \in Uploading
                                 => stage[i] \in Uploading /\ (waiting[i] => waiting'[i]),
           \A i \in Attempts : queued /\ waiting'[i] =>
              /\ stage'[i] \in {"stored"} \cup Uploading \cup Running
              /\ stage'[i] \in {"stored", "asked", "found", "upserted"} =>
                   volume'[choice[i].file] = choice[i].doc
              /\ stage'[i] = "read" => got'[i] = choice[i].doc
    PROVE  QueueInv'
  BY DEF QueueInv, QueueOK

(* An upload begins when nobody is waited for.                             *)
LEMMA QueueSend ==
    ASSUME TypeOK, QueueInv, NEW j \in Attempts, Send(j)
    PROVE  QueueInv'
<1> SUFFICES ASSUME queued, NEW i \in Attempts PROVE QueueOK(i)'
  BY DEF QueueInv, Send, Stays, scenario
<1>1. \A k \in Attempts : ~waiting[k] /\ stage[k] \notin Uploading
  BY DEF Send, QueueInv, QueueOK
<1>2. /\ stage' = [stage EXCEPT ![j] = "sent"]
      /\ waiting' = [waiting EXCEPT ![j] = TRUE]
  BY DEF Send
<1>3. CASE i = j
  <2>1. stage'[j] = "sent"
    BY <1>2 DEF TypeOK
  <2>2. \A k \in Attempts : waiting'[k] => k = j
    BY <1>1, <1>2 DEF TypeOK
  <2>3. waiting'[j]
    BY <1>2 DEF TypeOK
  <2> QED BY <1>3, <2>1, <2>2, <2>3 DEF QueueOK, Uploading
<1>4. CASE i # j
  BY <1>1, <1>2, <1>4 DEF TypeOK, QueueOK
<1> QED BY <1>3, <1>4

(* A job, or the page, goes on, and neither the volume nor the bytes read  *)
(* change.                                                                 *)
LEMMA QueueGoesOn ==
    ASSUME TypeOK, QueueInv, NEW j \in Attempts,
           UNCHANGED <<volume, choice, queued, waiting, got>>,
           NEW s, stage' = [stage EXCEPT ![j] = s],
           \/ stage[j] \in {"stored", "asked", "found"} /\ s \in {"asked", "found", "upserted"}
           \/ stage[j] = "new" /\ s = "found"
    PROVE  QueueInv'
<1>1. s \notin Uploading /\ s # "read" /\ s \in Running
  BY DEF Uploading, Running
<1>2. \A i \in Attempts : stage'[i] = IF i = j THEN s ELSE stage[i]
  BY DEF TypeOK
<1>3. stage[j] = "new" => (queued => ~waiting[j])
  BY DEF QueueInv, QueueOK, Uploading, Running
<1>4. queued /\ waiting[j] => volume[choice[j].file] = choice[j].doc
  BY <1>3 DEF QueueInv, QueueOK
<1> QED BY <1>1, <1>2, <1>4, QueueKept DEF QueueInv, QueueOK

(* The bytes are those that were uploaded, or the operator's.              *)
LEMMA QueueRead ==
    ASSUME TypeOK, QueueInv, NEW j \in Attempts,
           UNCHANGED <<volume, choice, queued, waiting>>,
           stage[j] = "upserted", stage' = [stage EXCEPT ![j] = "read"],
           NEW d, d \in {choice[j].doc, volume[choice[j].file]},
           got' = [got EXCEPT ![j] = d]
    PROVE  QueueInv'
<1>1. \A i \in Attempts : /\ stage'[i] = (IF i = j THEN "read" ELSE stage[i])
                          /\ got'[i] = (IF i = j THEN d ELSE got[i])
  BY DEF TypeOK
<1>2. "read" \notin Uploading /\ "read" \in Running
      /\ "read" \notin {"stored", "asked", "found", "upserted"}
  BY DEF Uploading, Running
<1>3. queued /\ waiting[j] => d = choice[j].doc
  BY DEF QueueInv, QueueOK
<1> QED BY <1>1, <1>2, <1>3, QueueKept DEF QueueInv, QueueOK

(* An upload writes its own file; nobody else's is waited for.             *)
LEMMA QueueUpload ==
    ASSUME TypeOK, QueueInv, NEW j \in Attempts, Open(j) \/ Write(j)
    PROVE  QueueInv'
<1>1. stage[j] \in Uploading /\ UNCHANGED <<choice, queued, waiting, got>>
      /\ \A i \in Attempts \ {j} : stage'[i] = stage[i]
  BY DEF Open, Write, Uploading, TypeOK, job, scenario
<1>2. \/ stage'[j] = "open"
      \/ stage'[j] = "stored" /\ volume'[choice[j].file] = choice[j].doc
  BY ChoiceType DEF Open, Write, TypeOK, Path
<1>3. queued => waiting[j] /\ \A i \in Attempts : waiting[i] => i = j
  BY <1>1 DEF QueueInv, QueueOK
<1> SUFFICES ASSUME queued, NEW i \in Attempts PROVE QueueOK(i)'
  BY <1>1 DEF QueueInv
<1>4. CASE i = j
  BY <1>1, <1>2, <1>3, <1>4 DEF QueueOK, Uploading
<1>5. CASE i # j
  BY <1>1, <1>3, <1>5 DEF QueueInv, QueueOK
<1> QED BY <1>4, <1>5

(* Callers give up or are answered, jobs end or are stopped.               *)
LEMMA QueueEnds ==
    ASSUME TypeOK, QueueInv, UNCHANGED <<volume, choice, queued, got>>,
           \A i \in Attempts : waiting'[i] => waiting[i] /\ stage'[i] = stage[i],
           \A i \in Attempts : queued /\ stage'[i] \in Uploading
                                 => stage'[i] = stage[i] /\ (waiting[i] => waiting'[i])
    PROVE  QueueInv'
  BY QueueKept DEF QueueInv, QueueOK

LEMMA QueueEnd ==
    ASSUME TypeOK, QueueInv, NEW j \in Attempts, GiveUp(j) \/ Fail(j) \/ Publish(j)
    PROVE  QueueInv'
<1> USE DEF Stays, scenario, job
<1>1. UNCHANGED <<volume, choice, queued, got>>
      /\ waiting' = [waiting EXCEPT ![j] = FALSE]
  BY DEF GiveUp, Fail, Publish, End
<1>2. \A i \in Attempts \ {j} : stage'[i] = stage[i] /\ waiting'[i] = waiting[i]
  BY <1>1 DEF TypeOK, GiveUp, Fail, Publish, End
<1>3. ~waiting'[j]
  BY <1>1 DEF TypeOK
<1>4. queued => stage'[j] \notin Uploading
  BY DEF TypeOK, GiveUp, Fail, Publish, End, Uploading, Running, Ended
<1> QED BY <1>1, <1>2, <1>3, <1>4, QueueEnds

LEMMA QueueRestart ==
    ASSUME TypeOK, QueueInv, NEW js, BackendRestart \/ Stop(js)
    PROVE  QueueInv'
<1> USE DEF Stays, scenario
<1>1. UNCHANGED <<volume, choice, queued, got>>
  BY DEF BackendRestart, Stop
<1>2. \A i \in Attempts : waiting'[i] => waiting[i] /\ stage'[i] = stage[i]
  BY DEF BackendRestart, Stop, Uploading
<1>3. \A i \in Attempts : stage'[i] \in Uploading
                            => stage'[i] = stage[i] /\ (waiting[i] => waiting'[i])
  BY DEF BackendRestart, Stop, Uploading, Running
<1> QED BY <1>1, <1>2, <1>3, QueueEnds

LEMMA QueueStep ==
    ASSUME CommandInv, QueueInv, [CommandNext]_allVars
    PROVE  QueueInv'
<1> USE DEF Stays, scenario, job, store
<1>1. TypeOK /\ \A j \in Attempts : choice[j].doc \in Docs
  BY ChoiceType DEF CommandInv, IInv
<1>2. ASSUME UNCHANGED <<volume, stage, waiting, choice, queued, got>>
      PROVE  QueueInv'
  BY <1>2 DEF QueueInv, QueueOK
<1>3. ASSUME NEW j \in Attempts, Ask(j) \/ Find(j) \/ Upsert(j)
      PROVE  QueueInv'
  <2>1. PICK s \in {"asked", "found", "upserted"} :
          stage' = [stage EXCEPT ![j] = s]
          /\ stage[j] \in {"stored", "asked", "found"}
          /\ UNCHANGED <<volume, choice, queued, waiting, got>>
    BY <1>3 DEF Ask, Find, Upsert
  <2> QED BY <1>1, <2>1, QueueGoesOn
<1>4. ASSUME NEW j \in Attempts, Read(j) PROVE QueueInv'
  BY <1>1, <1>4, QueueRead DEF Read, Path
<1>5. CASE Work
  <2>1. Current \in Attempts
    BY <1>5 DEF Work, CommandInv, BatchInv, Current
  <2>2. CASE Take
    BY <1>1, <2>1, <2>2, QueueGoesOn DEF Take
  <2>3. CASE ReadLocal
    BY <1>1, <2>1, <2>3, QueueRead DEF ReadLocal
  <2> QED BY <1>1, <1>3, <1>5, <2>1, <2>2, <2>3, QueueEnd DEF Work
<1>6. CASE Service
  <2>1. ASSUME NEW j \in Attempts, Send(j) \/ Open(j) \/ Write(j) \/ GiveUp(j)
                                   \/ Fail(j) \/ Publish(j)
        PROVE  QueueInv'
    BY <1>1, <2>1, QueueSend, QueueUpload, QueueEnd
  <2>2. ASSUME NEW r \in ReportIds, Delete(r) PROVE QueueInv'
    BY <1>2, <2>2 DEF Delete
  <2>3. ASSUME BackendRestart \/ Stop(Attempts \ Commands) PROVE QueueInv'
    BY <1>1, <2>3, QueueRestart
  <2> QED BY <1>3, <1>4, <1>6, <2>1, <2>2, <2>3 DEF Service
<1>7. CASE Kill
  BY <1>1, <1>7, QueueRestart DEF Kill
<1>8. CASE Refuse \/ Begin \/ Account \/ UNCHANGED allVars
  BY <1>2, <1>8 DEF Refuse, Begin, Account, allVars, vars
<1> QED BY <1>5, <1>6, <1>7, <1>8 DEF CommandNext

(* An attempt that is answered with success has just been published.       *)
LEMMA OnlyPublishAnswers ==
    ASSUME TypeOK, CommandNext, NEW j \in Attempts, stage'[j] = "ok", stage[j] # "ok"
    PROVE  Publish(j)
<1> USE DEF Stays, Uploading, Running
<1>1. PICK c : c = Current
  OBVIOUS
<1>2. \A i \in Attempts : Publish(i) => i = j \/ stage'[j] = stage[j]
  BY DEF Publish, End, TypeOK
<1>3. ASSUME NEW i, Send(i) \/ Ask(i) \/ GiveUp(i) \/ Open(i) \/ Write(i)
                    \/ Find(i) \/ Upsert(i) \/ Read(i) \/ Fail(i)
      PROVE  FALSE
  BY <1>3 DEF TypeOK, Send, Ask, GiveUp, Open, Write, Find, Upsert, Read, Fail, End
<1>4. ~(\E some : Stop(some)) /\ ~BackendRestart
  BY DEF Stop, BackendRestart
<1>5. ~UNCHANGED stage
  OBVIOUS
<1>6. ~Take /\ ~ReadLocal
  BY DEF Take, ReadLocal, TypeOK
<1>7. \A r : ~Delete(r)
  BY <1>5 DEF Delete
<1>8. ~Refuse /\ ~Begin /\ ~Account
  BY <1>5 DEF Refuse, Begin, Account, vars
<1>9. CASE Work
  <2>1. Publish(c)
    BY <1>1, <1>3, <1>6, <1>9 DEF Work
  <2>2. c = j
    BY <2>1 DEF Publish, End, TypeOK
  <2> QED BY <2>1, <2>2
<1>10. CASE Service
  BY <1>2, <1>3, <1>4, <1>7, <1>10 DEF Service
<1>11. CASE Kill
  BY <1>4, <1>11 DEF Kill
<1> QED BY <1>8, <1>9, <1>10, <1>11 DEF CommandNext

(* An admin who is told that an ingest went well, through one queue, finds *)
(* the file indexed that was uploaded, although jobs that were given up,   *)
(* and the command line, go on, and whatever names channels share.         *)
THEOREM QueueAnswersAreTrue == CommandSpec => AnsweredDocument
<1> DEFINE Answered(j) ==
      queued /\ waiting[j] /\ stage'[j] = "ok" /\ stage[j] # "ok" =>
         serves'[report[j]] \ serves[report[j]] \subseteq {choice[j].doc}
         /\ (choice[j].doc \notin Textless => choice[j].doc \in serves'[report[j]])
<1>1. ASSUME CommandInv, QueueInv, [CommandNext]_allVars
      PROVE  [\A j \in Attempts : Answered(j)]_vars
  <2> SUFFICES ASSUME CommandNext, NEW j \in Attempts, queued, waiting[j],
                      stage'[j] = "ok", stage[j] # "ok"
               PROVE  /\ serves'[report[j]] \ serves[report[j]] \subseteq {choice[j].doc}
                      /\ choice[j].doc \notin Textless
                           => choice[j].doc \in serves'[report[j]]
    BY <1>1 DEF allVars
  <2>1. TypeOK /\ JobInv
    BY <1>1 DEF CommandInv, IInv
  <2>2. Publish(j)
    BY <2>1, OnlyPublishAnswers
  <2>3. got[j] = choice[j].doc /\ stage[j] = "read"
    BY <1>1, <2>2 DEF Publish, QueueInv, QueueOK
  <2>4. report[j] \in ReportIds
    BY <2>1, <2>3, ConstantsAssumption DEF JobInv, TypeOK
  <2>5. PICK kept \in SUBSET serves[report[j]] :
          serves' = [serves EXCEPT ![report[j]] = kept \cup ({choice[j].doc} \ Textless)]
    BY <2>2, <2>3 DEF Publish, Store!Publish
  <2>6. serves'[report[j]] = kept \cup ({choice[j].doc} \ Textless)
    BY <2>1, <2>4, <2>5 DEF TypeOK
  <2> QED BY <2>6
<1>2. CommandInit => QueueInv
  BY DEF CommandInit, Init, QueueInv, QueueOK, Uploading
<1> HIDE DEF Answered
<1>3. CommandSpec => [](CommandInv /\ QueueInv)
  BY <1>2, CommandInitInv, CommandStepInv, QueueStep, PTL DEF CommandSpec
<1>4. CommandSpec => [][\A j \in Attempts : Answered(j)]_vars
  BY <1>1, <1>3, PTL DEF CommandSpec
<1> QED BY <1>4 DEF AnsweredDocument, Answered
=============================================================================
