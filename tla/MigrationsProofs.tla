-------------------------- MODULE MigrationsProofs --------------------------
(***************************************************************************)
(* Proofs about Migrations.  The order of the files gives a running        *)
(* migration all it refers to (Referred); a runner that has begun a file   *)
(* knows that the earlier ones are recorded (RunnerOK); and as long as     *)
(* nothing crashed, some runner is left that does not wait for what        *)
(* another has committed, or the schema is complete (SomeoneGoesOn).       *)
(***************************************************************************)
EXTENDS Migrations, TLAPS

-----------------------------------------------------------------------------
(* The files.                                                              *)

(* There are six files of one to five statements.                          *)
LEMMA FilesType ==
    /\ Versions = 1 .. 6
    /\ \A v \in Versions : /\ Len(Files[v]) \in 1 .. 5
                           /\ DOMAIN Files[v] = 1 .. Len(Files[v])
<1>1. Versions = 1 .. 6
  BY DEF Versions, Files
<1>2. ASSUME NEW v \in 1 .. 6
      PROVE  Len(Files[v]) \in 1 .. 5 /\ DOMAIN Files[v] = 1 .. Len(Files[v])
  <2>1. CASE v = 1  BY <2>1 DEF Files
  <2>2. CASE v = 2  BY <2>2 DEF Files
  <2>3. CASE v = 3  BY <2>3 DEF Files
  <2>4. CASE v = 4  BY <2>4 DEF Files
  <2>5. CASE v = 5  BY <2>5 DEF Files
  <2>6. CASE v = 6  BY <2>6 DEF Files
  <2> QED BY <2>1, <2>2, <2>3, <2>4, <2>5, <2>6
<1> QED BY <1>1, <1>2

(* What a statement creates is of its file, and of the schema.             *)
LEMMA StatementsCreate ==
    /\ \A v \in Versions, n \in Nat :
         n \in 1 .. Len(Files[v]) => Files[v][n] \in Created(v)
    /\ \A v \in Versions : Created(v) \subseteq Schema
    /\ \A v \in Versions : \A o \in Created(v) :
         \E n \in 1 .. Len(Files[v]) : o = Files[v][n]
<1>1. \A v \in Versions : Created(v) = {Files[v][n] : n \in 1 .. Len(Files[v])}
  BY FilesType DEF Created
<1>2. \A v \in Versions : Created(v) \subseteq Schema
  BY DEF Schema
<1> QED BY <1>1, <1>2

(* A statement refers to what an earlier file creates, or an earlier       *)
(* statement of its own.                                                   *)
LEMMA Referred ==
    ASSUME NEW v \in Versions, NEW n \in 1 .. Len(Files[v]),
           NEW o \in Needs(Files[v][n])
    PROVE  \/ \E w \in Versions : w < v /\ o \in Created(w)
           \/ \E k \in 1 .. n - 1 : o = Files[v][k]
<1>1. v \in 1 .. 6
  BY FilesType
<1>2. "channels" \in Created(3) /\ "vector" \in Created(2) /\ "reports" \in Created(4)
      /\ {2, 3, 4} \subseteq Versions
  BY DEF Created, Files, Versions
<1>3. CASE v = 1
  BY <1>3 DEF Files, Needs
<1>4. CASE v = 2
  BY <1>4 DEF Files, Needs
<1>5. CASE v = 3
  BY <1>5 DEF Files, Needs
<1>6. CASE v = 4
  <2>1. n \in {1, 2} /\ Files[v][1] = "reports" /\ Files[v][2] = "reports_channelid_idx"
    BY <1>6 DEF Files
  <2>2. CASE n = 1
    BY <1>2, <1>6, <2>1, <2>2 DEF Needs
  <2>3. CASE n = 2
    BY <2>1, <2>3 DEF Needs
  <2> QED BY <2>1, <2>2, <2>3
<1>7. CASE v = 5
  <2>1. /\ n \in 1 .. 5
        /\ Files[v][1] = "report_chunks"
        /\ Files[v][2] = "chunks_reportid_idx"
        /\ Files[v][3] = "chunks_channelid_idx"
        /\ Files[v][4] = "chunks_embedding_idx"
        /\ Files[v][5] = "chunks_sparse_idx"
    BY <1>7 DEF Files
  <2>2. CASE n = 1
    BY <1>2, <1>7, <2>1, <2>2 DEF Needs
  <2>3. CASE n \in 2 .. 5
    <3>1. Needs(Files[v][n]) = {"report_chunks"}
      BY <2>1, <2>3 DEF Needs
    <3> QED BY <2>1, <2>3, <3>1
  <2> QED BY <2>1, <2>2, <2>3
<1>8. CASE v = 6
  <2>1. n \in {1, 2} /\ Files[v][1] = "ai_jobs" /\ Files[v][2] = "ai_jobs_status_idx"
    BY <1>8 DEF Files
  <2>2. CASE n = 1
    BY <2>1, <2>2 DEF Needs
  <2>3. CASE n = 2
    BY <2>1, <2>3 DEF Needs
  <2> QED BY <2>1, <2>2, <2>3
<1>9. v = 1 \/ v = 2 \/ v = 3 \/ v = 4 \/ v = 5 \/ v = 6
  BY <1>1
<1> QED BY <1>3, <1>4, <1>5, <1>6, <1>7, <1>8, <1>9, Zenon

LEMMA ReferredBefore ==
    ASSUME NEW v \in Versions, NEW o \in Created(v), NEW d \in Needs(o)
    PROVE  \E w \in Versions : w <= v /\ d \in Created(w)
<1>1. PICK n \in 1 .. Len(Files[v]) : o = Files[v][n]
  BY StatementsCreate
<1>2. v \in 1 .. 6 /\ Versions = 1 .. 6 /\ Len(Files[v]) \in 1 .. 5
  BY FilesType
<1>3. CASE \E w \in Versions : w < v /\ d \in Created(w)
  BY <1>2, <1>3
<1>4. CASE \E k \in 1 .. n - 1 : d = Files[v][k]
  <2>1. PICK k \in 1 .. n - 1 : d = Files[v][k]
    BY <1>4
  <2>2. k \in Nat /\ k \in 1 .. Len(Files[v])
    BY <1>1, <1>2, <2>1
  <2>3. d \in Created(v)
    BY <2>1, <2>2, StatementsCreate
  <2> QED BY <1>2, <2>3
<1> QED BY <1>1, <1>3, <1>4, Referred

(* Of the files a runner has not applied, one comes first.                 *)
LEMMA First ==
    ASSUME NEW S, S \subseteq Versions, S # {}
    PROVE  Min(S) \in S /\ \A w \in S : Min(S) <= w
<1>1. S \subseteq 1 .. 6
  BY FilesType
<1>2. \E x \in S : \A y \in S : x <= y
  <2>1. CASE 1 \in S  BY <1>1, <2>1
  <2>2. CASE 1 \notin S /\ 2 \in S  BY <1>1, <2>2
  <2>3. CASE S \subseteq 3 .. 6 /\ 3 \in S  BY <2>3
  <2>4. CASE S \subseteq 4 .. 6 /\ 4 \in S  BY <2>4
  <2>5. CASE S \subseteq 5 .. 6 /\ 5 \in S  BY <2>5
  <2>6. CASE S = {6}  BY <2>6
  <2>7. 6 .. 6 = {6}
    OBVIOUS
  <2>8. S \subseteq {6} => S = {6}
    OBVIOUS
  <2>9. S = {6} \/ \E x \in S : x \in 1 .. 5
    BY <1>1, <2>7, <2>8
  <2> QED BY <1>1, <2>1, <2>2, <2>3, <2>4, <2>5, <2>6, <2>9
<1> QED BY <1>2 DEF Min
-----------------------------------------------------------------------------
(* The invariant.                                                          *)

Alive(r) == pc[r] \in {"apply", "wait"}

(* A live runner: earlier files are recorded, and the statements of this   *)
(* one that lie behind it have made what they make.                        *)
RunnerOK(r) ==
    /\ Alive(r) =>
         /\ pending[r] # {}
         /\ Versions \ pending[r] \subseteq ledger
         /\ at[r] \in 1 .. Len(Files[Version(r)]) + 1
         /\ \A n \in 1 .. at[r] - 1 : Files[Version(r)][n] \in objects \cup made[r]
    /\ pc[r] = "wait" => ~FileIsDone(r)
    /\ pc[r] = "ok" => Migrated
    /\ \A o \in made[r] : Needs(o) \subseteq objects \cup made[r]

(* It waits for what another has committed in the meantime.                *)
Doomed(r) == pc[r] = "wait" /\ Statement(r) \in objects

GoesOn(r) == pc[r] \notin Exits /\ ~Doomed(r)

SomeoneGoesOn == failures = 0 => Migrated \/ \E r \in Runners : GoesOn(r)

IInv == TypeOK /\ LedgerIsTrue /\ (\A r \in Runners : RunnerOK(r)) /\ SomeoneGoesOn

(* Before the first runner, the ledger and the schema agree.               *)
LEMMA InitInv == Init => IInv
<1> SUFFICES ASSUME Init PROVE IInv
  OBVIOUS
<1>1. ledger \subseteq Versions /\ objects \subseteq Schema
  <2>1. ASSUME NEW v \in Versions \cup {0} PROVE 1 .. v \subseteq Versions
    BY FilesType
  <2> QED BY <2>1, StatementsCreate DEF Init
<1>2. TypeOK
  BY <1>1, MigrationsAssumption DEF Init, TypeOK
<1>3. LedgerIsTrue
  <2>1. ASSUME NEW v \in Versions \cup {0}, ledger = 1 .. v,
               objects = UNION {Created(w) : w \in ledger}
        PROVE  LedgerIsTrue
    <3>1. ledger \subseteq Versions /\ \A w \in Versions, u \in Versions :
                                         w \in ledger /\ u < w => u \in ledger
      BY <2>1, FilesType
    <3>2. ASSUME NEW o \in objects, NEW d \in Needs(o) PROVE d \in objects
      <4>1. PICK w \in ledger : o \in Created(w)
        BY <2>1
      <4>2. PICK u \in Versions : u <= w /\ d \in Created(u)
        BY <3>1, <4>1, ReferredBefore
      <4>3. u \in ledger
        BY <3>1, <4>1, <4>2, FilesType
      <4> QED BY <2>1, <4>2, <4>3
    <3> QED BY <2>1, <3>2 DEF LedgerIsTrue
  <2>2. ASSUME ledger = {}, objects = Schema \ {"schema_migrations"}
        PROVE  LedgerIsTrue
    <3>1. ASSUME NEW o \in objects, NEW d \in Needs(o) PROVE d \in objects
      <4>1. PICK w \in Versions : o \in Created(w)
        BY <2>2 DEF Schema
      <4>2. d \in Schema
        BY <4>1, ReferredBefore, StatementsCreate
      <4>3. d # "schema_migrations"
        BY <3>1 DEF Needs
      <4> QED BY <2>2, <4>2, <4>3
    <3> QED BY <2>2, <3>1 DEF LedgerIsTrue
  <2> QED BY <2>1, <2>2 DEF Init
<1>4. \A r \in Runners : RunnerOK(r)
  BY DEF Init, RunnerOK, Alive
<1>5. SomeoneGoesOn
  BY MigrationsAssumption DEF Init, SomeoneGoesOn, GoesOn, Doomed, Exits
<1> QED BY <1>2, <1>3, <1>4, <1>5 DEF IInv

-----------------------------------------------------------------------------
(* The steps.                                                              *)

(* What a live runner has before it.                                       *)
LEMMA Current ==
    ASSUME IInv, NEW r \in Runners, Alive(r)
    PROVE  /\ Version(r) \in pending[r] /\ Version(r) \in Versions
           /\ \A w \in Versions : w < Version(r) => w \in ledger
           /\ at[r] \in Nat /\ Len(Files[Version(r)]) \in 1 .. 5
           /\ ~FileIsDone(r) => /\ at[r] \in 1 .. Len(Files[Version(r)])
                                /\ Statement(r) \in Schema
<1>1. pending[r] \subseteq Versions /\ pending[r] # {}
      /\ Versions \ pending[r] \subseteq ledger
      /\ at[r] \in 1 .. Len(Files[Version(r)]) + 1
  BY DEF IInv, TypeOK, RunnerOK
<1>2. Version(r) \in pending[r] /\ \A w \in pending[r] : Version(r) <= w
  BY <1>1, First DEF Version
<1>3. Version(r) \in 1 .. 6 /\ Len(Files[Version(r)]) \in 1 .. 5
  BY <1>1, <1>2, FilesType
<1>4. \A w \in Versions : w < Version(r) => w \in ledger
  BY <1>1, <1>2, <1>3, FilesType
<1>5. ~FileIsDone(r) => at[r] \in 1 .. Len(Files[Version(r)])
  BY <1>1, <1>3 DEF FileIsDone
<1>6. ~FileIsDone(r) => Statement(r) \in Schema
  <2>1. Version(r) \in Versions /\ at[r] \in Nat
    BY <1>1, <1>2, <1>3
  <2>2. ~FileIsDone(r) => Files[Version(r)][at[r]] \in Created(Version(r))
    BY <1>5, <2>1, StatementsCreate
  <2> QED BY <2>1, <2>2, StatementsCreate DEF Statement
<1> QED BY <1>1, <1>2, <1>3, <1>4, <1>5, <1>6

(* Its statement never misses what it refers to.                           *)
LEMMA NothingMissing ==
    ASSUME IInv, NEW r \in Runners, Alive(r), ~FileIsDone(r)
    PROVE  Needs(Statement(r)) \subseteq objects \cup made[r]
<1> SUFFICES ASSUME NEW d \in Needs(Statement(r)) PROVE d \in objects \cup made[r]
  OBVIOUS
<1>1. Version(r) \in Versions /\ at[r] \in 1 .. Len(Files[Version(r)])
      /\ \A w \in Versions : w < Version(r) => w \in ledger
  BY Current
<1>2. \/ \E w \in Versions : w < Version(r) /\ d \in Created(w)
      \/ \E k \in 1 .. at[r] - 1 : d = Files[Version(r)][k]
  BY <1>1, Referred DEF Statement
<1>3. \A w \in ledger : Created(w) \subseteq objects
  BY DEF IInv, LedgerIsTrue
<1>4. \A k \in 1 .. at[r] - 1 : Files[Version(r)][k] \in objects \cup made[r]
  BY DEF IInv, RunnerOK
<1> QED BY <1>1, <1>2, <1>3, <1>4

(* A runner that does not step keeps what it knows, for what is committed  *)
(* is never taken back.                                                    *)
LEMMA OthersKeep ==
    ASSUME NEW q \in Runners, RunnerOK(q),
           objects \subseteq objects', ledger \subseteq ledger',
           Migrated => Migrated',
           pc'[q] = pc[q], pending'[q] = pending[q], at'[q] = at[q],
           made'[q] = made[q]
    PROVE  RunnerOK(q)'
<1>1. Version(q)' = Version(q)
  BY DEF Version
<1> QED BY <1>1 DEF RunnerOK, Alive, FileIsDone

(* When nothing is committed, it is enough to look at the runner r that    *)
(* steps, and who goes on does.                                            *)
LEMMA LocalStep ==
    ASSUME IInv, NEW r \in Runners, TypeOK', RunnerOK(r)',
           UNCHANGED <<objects, ledger>>, failures <= failures',
           \A q \in Runners \ {r} : /\ pc'[q] = pc[q] /\ pending'[q] = pending[q]
                                    /\ at'[q] = at[q] /\ made'[q] = made[q],
           failures' = 0 /\ GoesOn(r) => GoesOn(r)' \/ Migrated
    PROVE  IInv'
<1>1. LedgerIsTrue' /\ (Migrated' <=> Migrated)
  BY DEF IInv, LedgerIsTrue, Migrated
<1>2. ASSUME NEW q \in Runners PROVE RunnerOK(q)'
  <2>1. CASE q = r
    BY <2>1
  <2>2. CASE q # r
    BY <1>1, <2>2, OthersKeep DEF IInv
  <2> QED BY <2>1, <2>2
<1>3. ASSUME NEW q \in Runners \ {r}, GoesOn(q) PROVE GoesOn(q)'
  <2>1. Statement(q)' = Statement(q)
    BY <1>3 DEF Statement, Version
  <2> QED BY <1>3, <2>1 DEF GoesOn, Doomed
<1>4. failures' = 0 => failures = 0
  BY DEF IInv, TypeOK
<1>5. SomeoneGoesOn'
  BY <1>1, <1>3, <1>4 DEF IInv, SomeoneGoesOn
<1> QED BY <1>1, <1>2, <1>5 DEF IInv

(* With every file recorded, the schema is complete.                       *)
LEMMA AllRecorded ==
    ASSUME TypeOK, LedgerIsTrue, Versions \subseteq ledger
    PROVE  Migrated
<1>1. ledger = Versions /\ objects \subseteq Schema
  BY DEF TypeOK
<1>2. \A v \in Versions : Created(v) \subseteq objects
  BY DEF LedgerIsTrue
<1>3. Schema \subseteq objects
  BY <1>2 DEF Schema
<1> QED BY <1>1, <1>3 DEF Migrated

(* A runner reads the ledger: what it does not find missing is recorded.   *)
LEMMA ReadStep ==
    ASSUME IInv, NEW r \in Runners, ReadLedger(r)
    PROVE  IInv'
<1>1. /\ pc[r] = "idle" /\ made[r] = {}
      /\ pending' = [pending EXCEPT ![r] = Versions \ Applied]
      /\ pc' = [pc EXCEPT ![r] = IF Applied = Versions THEN "ok" ELSE "apply"]
      /\ at' = [at EXCEPT ![r] = 1]
      /\ UNCHANGED <<objects, ledger, made, conns, failures>>
  BY DEF ReadLedger, IInv, TypeOK
<1>2. TypeOK
  BY DEF IInv
<1>3. Applied \subseteq ledger /\ ledger \subseteq Versions
  BY <1>2 DEF Applied, TypeOK
<1>4. pc'[r] \in {"ok", "apply"} /\ (pc'[r] = "ok" <=> Applied = Versions)
      /\ pending'[r] = Versions \ Applied /\ at'[r] = 1 /\ made'[r] = {}
  BY <1>1, <1>2 DEF TypeOK
<1>5. TypeOK'
  BY <1>1, <1>2, <1>4 DEF TypeOK, Exits
<1>6. Applied = Versions => Migrated
  BY <1>3, AllRecorded DEF IInv
<1>7. pc'[r] = "apply" => pending'[r] # {} /\ Version(r)' \in Versions
  <2>1. pc'[r] = "apply" => pending'[r] # {}
    BY <1>3, <1>4
  <2> QED BY <1>4, <2>1, First DEF Version
<1>8. RunnerOK(r)'
  <2>1. pc'[r] = "apply" => 1 \in 1 .. Len(Files[Version(r)'] ) + 1
    BY <1>7, FilesType
  <2>2. 1 .. 1 - 1 = {}
    OBVIOUS
  <2>3. Alive(r)' => /\ pending'[r] # {} /\ Versions \ pending'[r] \subseteq ledger'
                     /\ at'[r] \in 1 .. Len(Files[Version(r)']) + 1
                     /\ 1 .. at'[r] - 1 = {}
    BY <1>1, <1>3, <1>4, <1>7, <2>1, <2>2 DEF Alive
  <2>4. pc'[r] = "ok" => Migrated'
    BY <1>1, <1>4, <1>6 DEF Migrated
  <2> QED BY <1>4, <2>3, <2>4 DEF RunnerOK
<1>9. GoesOn(r)' \/ Migrated
  BY <1>4, <1>6 DEF GoesOn, Doomed, Exits
<1> QED BY <1>1, <1>2, <1>5, <1>8, <1>9, LocalStep DEF TypeOK
(* One more statement lies behind the runner, made by it or by others.     *)
LEMMA AdvanceStep ==
    ASSUME IInv, NEW r \in Runners, Skip(r) \/ Create(r)
    PROVE  IInv'
<1> DEFINE v == Version(r)
<1>1. Alive(r) /\ ~FileIsDone(r) /\ TypeOK /\ RunnerOK(r)
  BY DEF Skip, Create, Alive, IInv
<1>2. /\ v \in Versions /\ Len(Files[v]) \in 1 .. 5
      /\ at[r] \in 1 .. Len(Files[v]) /\ Statement(r) \in Schema
      /\ pending[r] # {} /\ Versions \ pending[r] \subseteq ledger
      /\ \A n \in 1 .. at[r] - 1 : Files[v][n] \in objects \cup made[r]
  BY <1>1, Current DEF RunnerOK
<1>3. /\ at' = [at EXCEPT ![r] = at[r] + 1]
      /\ pc' = [pc EXCEPT ![r] = "apply"]
      /\ UNCHANGED <<objects, ledger, pending, conns, failures>>
  <2>1. CASE Skip(r)
    BY <1>1, <2>1 DEF Skip, TypeOK
  <2>2. CASE Create(r)
    BY <2>2 DEF Create
  <2> QED BY <2>1, <2>2
<1>4. /\ made' = [made EXCEPT ![r] = made[r] \cup {Statement(r)}]
         \/ made' = made
      /\ made[r] \subseteq made'[r] /\ Statement(r) \in objects \cup made'[r]
      /\ made' \in [Runners -> SUBSET Schema]
      /\ \A q \in Runners \ {r} : made'[q] = made[q]
      /\ \A o \in made'[r] : Needs(o) \subseteq objects \cup made'[r]
  <2>1. CASE Skip(r)
    BY <1>1, <2>1 DEF Skip, NothingToCreate, TypeOK, RunnerOK
  <2>2. CASE Create(r)
    <3>1. made' = [made EXCEPT ![r] = made[r] \cup {Statement(r)}]
          /\ Needs(Statement(r)) \subseteq objects \cup made[r]
      BY <2>2 DEF Create
    <3>2. made'[r] = made[r] \cup {Statement(r)}
      BY <1>1, <3>1 DEF TypeOK
    <3> QED BY <1>1, <1>2, <3>1, <3>2 DEF TypeOK, RunnerOK
  <2> QED BY <2>1, <2>2
<1>5. Version(r)' = v
  BY <1>3 DEF Version
<1>6. pc'[r] = "apply" /\ at'[r] = at[r] + 1
  BY <1>1, <1>3 DEF TypeOK
<1> HIDE DEF v
<1>7. at'[r] \in 1 .. Len(Files[v]) + 1 /\ at'[r] \in 1 .. 6
  BY <1>2, <1>6
<1>8. ASSUME NEW n \in 1 .. at'[r] - 1 PROVE Files[v][n] \in objects \cup made'[r]
  <2>1. n = at[r] \/ n \in 1 .. at[r] - 1
    BY <1>2, <1>6
  <2>2. n = at[r] => Files[v][n] = Statement(r)
    BY DEF Statement, v
  <2> QED BY <1>2, <1>4, <2>1, <2>2
<1>9. TypeOK'
  <2>1. at' \in [Runners -> 1 .. 6]
    BY <1>1, <1>3, <1>6, <1>7 DEF TypeOK
  <2>2. pc' \in [Runners -> {"idle", "apply", "wait"} \cup Exits]
        /\ \A q \in Runners : pc'[q] \notin {"apply", "wait"} => made'[q] = {}
    BY <1>1, <1>3, <1>4 DEF TypeOK
  <2> QED BY <1>1, <1>3, <1>4, <2>1, <2>2 DEF TypeOK
<1>10. RunnerOK(r)'
  BY <1>2, <1>3, <1>4, <1>5, <1>6, <1>7, <1>8 DEF RunnerOK, Alive
<1>11. GoesOn(r)'
  BY <1>6 DEF GoesOn, Doomed, Exits
<1> QED BY <1>1, <1>3, <1>4, <1>9, <1>10, <1>11, LocalStep DEF TypeOK

(* It waits for a transaction that has not committed.                      *)
LEMMA WaitStep == ASSUME IInv, NEW r \in Runners, Wait(r) PROVE IInv'
<1>1. TypeOK /\ RunnerOK(r) /\ Alive(r) /\ ~FileIsDone(r) /\ Statement(r) \notin objects
      /\ pc' = [pc EXCEPT ![r] = "wait"]
      /\ UNCHANGED <<objects, ledger, pending, at, made, conns, failures>>
  BY DEF Wait, NothingToCreate, IInv, Alive
<1>2. TypeOK'
  BY <1>1 DEF TypeOK, Alive
<1>3. Version(r)' = Version(r) /\ Statement(r)' = Statement(r)
  BY <1>1 DEF Version, Statement
<1>4. pc'[r] = "wait"
  BY <1>1 DEF TypeOK
<1>5. RunnerOK(r)'
  BY <1>1, <1>3, <1>4 DEF RunnerOK, Alive, FileIsDone
<1>6. GoesOn(r)'
  BY <1>1, <1>3, <1>4 DEF GoesOn, Doomed, Exits
<1> QED BY <1>1, <1>2, <1>5, <1>6, LocalStep DEF TypeOK

(* Only a runner that has waited in vain fails, or one that crashes.       *)
LEMMA EndStep == ASSUME IInv, NEW r \in Runners, Fail(r) \/ Crash(r) PROVE IInv'
<1>1. TypeOK /\ RunnerOK(r) /\ made' = [made EXCEPT ![r] = {}]
      /\ UNCHANGED <<objects, ledger, pending, at, conns>>
  BY DEF Fail, Crash, Rollback, IInv
<1>2. PICK e \in {"error", "crashed"} : pc' = [pc EXCEPT ![r] = e]
  BY DEF Fail, FailedExit, Crash
<1>3. pc'[r] = e /\ made'[r] = {}
  BY <1>1, <1>2 DEF TypeOK
<1>4. failures <= failures' /\ failures' \in 0 .. MaxFailures
      /\ (failures' = 0 => Fail(r))
  BY <1>1, MigrationsAssumption DEF Fail, Crash, TypeOK
<1>5. Fail(r) => Doomed(r)
  BY NothingMissing DEF Fail, Doomed, Alive
<1>6. TypeOK'
  BY <1>1, <1>2, <1>4 DEF TypeOK, Exits
<1>7. RunnerOK(r)'
  BY <1>2, <1>3 DEF RunnerOK, Alive
<1>8. failures' = 0 => ~GoesOn(r)
  BY <1>4, <1>5 DEF GoesOn
<1> QED BY <1>1, <1>2, <1>4, <1>6, <1>7, <1>8, LocalStep DEF TypeOK

(* It is run again.                                                        *)
LEMMA RerunStep == ASSUME IInv, NEW r \in Runners, Rerun(r) PROVE IInv'
<1>1. TypeOK /\ pc[r] \in Exits /\ pc' = [pc EXCEPT ![r] = "idle"]
      /\ UNCHANGED <<objects, ledger, pending, at, made, conns, failures>>
  BY DEF Rerun, IInv
<1>2. pc'[r] = "idle" /\ made'[r] = {}
  BY <1>1 DEF TypeOK, Exits
<1>3. TypeOK'
  BY <1>1, <1>2 DEF TypeOK
<1>4. RunnerOK(r)'
  BY <1>2 DEF RunnerOK, Alive
<1>5. GoesOn(r)'
  BY <1>2 DEF GoesOn, Doomed, Exits
<1> QED BY <1>1, <1>3, <1>4, <1>5, LocalStep DEF TypeOK

(* A commit records a file whose statements are all there.  The runner     *)
(* goes on, or nothing is left to do; others may be waiting in vain now.   *)
LEMMA CommitStep == ASSUME IInv, NEW r \in Runners, Commit(r) PROVE IInv'
<1> DEFINE v == Version(r)
<1>1. TypeOK /\ LedgerIsTrue /\ RunnerOK(r) /\ Alive(r) /\ FileIsDone(r)
  BY DEF IInv, Commit, Alive
<1>2. PICK answered \in BOOLEAN :
        /\ failures' = failures + (IF answered THEN 0 ELSE 1)
        /\ failures' <= MaxFailures
        /\ pending' = [pending EXCEPT ![r] = pending[r] \ {v}]
        /\ pc' = [pc EXCEPT ![r] = IF ~answered THEN "error"
                                   ELSE IF pending'[r] = {} THEN "ok" ELSE "apply"]
  BY DEF Commit
<1>3. /\ objects' = objects \cup made[r] /\ ledger' = ledger \cup {v}
      /\ made' = [made EXCEPT ![r] = {}] /\ at' = [at EXCEPT ![r] = 1]
      /\ conns' = conns
  BY DEF Commit
<1>4. /\ v \in Versions /\ v \in pending[r] /\ Len(Files[v]) \in 1 .. 5
      /\ at[r] = Len(Files[v]) + 1
      /\ Versions \ pending[r] \subseteq ledger
      /\ \A n \in 1 .. at[r] - 1 : Files[v][n] \in objects \cup made[r]
  <2>1. at[r] \in 1 .. Len(Files[v]) + 1 /\ at[r] > Len(Files[v])
    BY <1>1 DEF RunnerOK, FileIsDone
  <2>2. at[r] = Len(Files[v]) + 1
    BY <1>1, <2>1, Current
  <2> QED BY <1>1, <2>2, Current DEF RunnerOK
<1> HIDE DEF v
<1>5. Created(v) \subseteq objects'
  <2>1. \A n \in 1 .. Len(Files[v]) : n \in 1 .. at[r] - 1
    BY <1>4
  <2> QED BY <1>3, <1>4, <2>1, StatementsCreate
<1>6. /\ pending'[r] = pending[r] \ {v} /\ at'[r] = 1 /\ made'[r] = {}
      /\ pc'[r] = IF ~answered THEN "error"
                  ELSE IF pending'[r] = {} THEN "ok" ELSE "apply"
  BY <1>1, <1>2, <1>3 DEF TypeOK
<1>7. failures' \in 0 .. MaxFailures /\ failures <= failures'
      /\ (failures' = 0 => failures = 0 /\ answered)
  BY <1>1, <1>2, MigrationsAssumption DEF TypeOK
<1>8. TypeOK'
  <2>1. pc' \in [Runners -> {"idle", "apply", "wait"} \cup Exits]
    BY <1>1, <1>2 DEF TypeOK, Exits
  <2>2. made' \in [Runners -> SUBSET Schema]
        /\ \A q \in Runners : pc'[q] \notin {"apply", "wait"} => made'[q] = {}
    BY <1>1, <1>2, <1>3 DEF TypeOK
  <2>3. at' \in [Runners -> 1 .. 6] /\ pending' \in [Runners -> SUBSET Versions]
    BY <1>1, <1>2, <1>3 DEF TypeOK
  <2>4. objects' \subseteq Schema /\ ledger' \subseteq Versions
    BY <1>1, <1>3, <1>4 DEF TypeOK
  <2> QED BY <1>1, <1>3, <1>7, <2>1, <2>2, <2>3, <2>4 DEF TypeOK
<1>9. LedgerIsTrue'
  <2>1. \A w \in ledger' : Created(w) \subseteq objects'
    BY <1>1, <1>3, <1>5 DEF LedgerIsTrue
  <2>2. \A o \in objects' : Needs(o) \subseteq objects'
    BY <1>1, <1>3 DEF LedgerIsTrue, RunnerOK
  <2> QED BY <2>1, <2>2 DEF LedgerIsTrue
<1>10. Versions \ pending'[r] \subseteq ledger'
  BY <1>3, <1>4, <1>6
<1>11. pc'[r] = "ok" => Migrated'
  <2>1. pc'[r] = "ok" => Versions \subseteq ledger'
    BY <1>6, <1>10
  <2>2. ASSUME Versions \subseteq ledger' PROVE Migrated'
    <3>1. Schema \subseteq objects'
      BY <1>9, <2>2 DEF LedgerIsTrue, Schema
    <3> QED BY <1>8, <2>2, <3>1 DEF TypeOK, Migrated
  <2> QED BY <2>1, <2>2
<1>12. Migrated => Migrated'
  BY <1>3, <1>8 DEF Migrated, TypeOK
<1>13. ASSUME NEW q \in Runners PROVE RunnerOK(q)'
  <2>1. CASE q # r
    <3>1. pc'[q] = pc[q] /\ pending'[q] = pending[q] /\ at'[q] = at[q] /\ made'[q] = made[q]
      BY <1>1, <1>2, <1>3, <2>1 DEF TypeOK
    <3> QED BY <1>3, <1>12, <3>1, OthersKeep DEF IInv
  <2>2. CASE q = r
    <3>1. Alive(r)' => pending'[r] # {} /\ pc'[r] = "apply"
      BY <1>6 DEF Alive
    <3>2. Alive(r)' => Version(r)' \in Versions
      BY <1>8, <3>1, First DEF TypeOK, Version
    <3>3. Alive(r)' => 1 \in 1 .. Len(Files[Version(r)']) + 1
      BY <3>2, FilesType
    <3>4. 1 .. 1 - 1 = {}
      OBVIOUS
    <3>5. pc'[r] # "wait"
      BY <1>6
    <3> QED BY <1>6, <1>10, <1>11, <2>2, <3>1, <3>3, <3>4, <3>5 DEF RunnerOK
  <2> QED BY <2>1, <2>2
<1>14. SomeoneGoesOn'
  <2>1. failures' = 0 => Migrated' \/ GoesOn(r)'
    BY <1>6, <1>7, <1>11 DEF GoesOn, Doomed, Exits
  <2> QED BY <2>1 DEF SomeoneGoesOn
<1> QED BY <1>8, <1>9, <1>13, <1>14 DEF IInv

(* The pool, and steps of nobody, change nothing a runner sees.            *)
LEMMA PoolStep ==
    ASSUME IInv, (\E s \in Slots : Open(s) \/ Retire(s)) \/ UNCHANGED vars
    PROVE  IInv'
<1>1. UNCHANGED <<objects, ledger, pc, pending, at, made, failures>>
  BY DEF Open, Retire, vars
<1>2. conns' \in [Slots -> {"none", "plain", "registered"}]
  BY DEF IInv, TypeOK, Open, Configured, Retire, vars
<1>3. TypeOK' /\ LedgerIsTrue'
  BY <1>1, <1>2 DEF IInv, TypeOK, LedgerIsTrue
<1>4. \A r \in Runners : RunnerOK(r)'
  BY <1>1, OthersKeep DEF IInv, Migrated
<1>5. SomeoneGoesOn'
  BY <1>1 DEF IInv, SomeoneGoesOn, GoesOn, Doomed, Statement, Version, Migrated
<1> QED BY <1>3, <1>4, <1>5 DEF IInv

LEMMA StepInv == ASSUME IInv, [Next]_vars PROVE IInv'
<1>1. ASSUME NEW r \in Runners, Run(r) \/ Crash(r) \/ Rerun(r) PROVE IInv'
  BY <1>1, ReadStep, AdvanceStep, WaitStep, EndStep, CommitStep, RerunStep DEF Run
<1> QED BY <1>1, PoolStep DEF Next

(* Whatever crashes, races or is rolled back, and from any database it     *)
(* starts with, a recorded file's tables are there (scripts/migrate.py).   *)
THEOREM LedgerStaysTrue == Spec => []LedgerIsTrue
<1>1. IInv => LedgerIsTrue
  BY DEF IInv
<1> QED BY <1>1, InitInv, StepInv, PTL DEF Spec

(* For any number of overlapping runners, exit 0 means a migrated database *)
(* and, unless something crashed, they do not all fail (migrate.py main).  *)
THEOREM ExitsAreTrue == Spec => []ExitsTellTheTruth
<1>1. IInv => ExitsTellTheTruth
  <2>1. IInv => \A r \in Runners : pc[r] = "ok" => Migrated
    BY DEF IInv, RunnerOK
  <2>2. IInv /\ failures = 0 /\ (\A r \in Runners : pc[r] \in Exits) => Migrated
    BY DEF IInv, SomeoneGoesOn, GoesOn
  <2> QED BY <2>1, <2>2 DEF ExitsTellTheTruth
<1> QED BY <1>1, InitInv, StepInv, PTL DEF Spec
=============================================================================
