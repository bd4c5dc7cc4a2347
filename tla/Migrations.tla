----------------------------- MODULE Migrations -----------------------------
(***************************************************************************)
(* scripts/migrate.py of epsilon_rag: runners that bring one PostgreSQL    *)
(* database to the current schema, one transaction per file, each file     *)
(* recorded in a ledger.  compose starts a runner on every "up" and the    *)
(* README has operators start another on the host, so that they overlap;   *)
(* they crash, and are run again.  Beside them a service keeps pooled      *)
(* connections (core/db.py), configured once, when they are opened.        *)
(***************************************************************************)
EXTENDS Naturals, Sequences, FiniteSetsExt

CONSTANTS
    Runners,     \* processes running migrate.py
    Slots,       \* connections of the service's pool (max_size)
    MaxFailures  \* bound on crashes and on commits whose answer is lost

ASSUME MigrationsAssumption == MaxFailures \in Nat /\ Runners # {} /\ IsFiniteSet(Runners)

(* The statements of the files 000 .. 005, by what they create.            *)
Files ==
    << <<"schema_migrations">>,
       <<"vector">>,
       <<"channels">>,
       <<"reports", "reports_channelid_idx">>,
       <<"report_chunks", "chunks_reportid_idx", "chunks_channelid_idx",
         "chunks_embedding_idx", "chunks_sparse_idx">>,
       <<"ai_jobs", "ai_jobs_status_idx">> >>

Versions == DOMAIN Files

Created(v) == {Files[v][n] : n \in DOMAIN Files[v]}

Schema == UNION {Created(v) : v \in Versions}

(* What a statement refers to.                                             *)
Needs(o) ==
    CASE o = "reports" -> {"channels"}
      [] o = "reports_channelid_idx" -> {"reports"}
      [] o = "report_chunks" -> {"channels", "reports", "vector"}
      [] o \in {"chunks_reportid_idx", "chunks_channelid_idx",
                "chunks_embedding_idx", "chunks_sparse_idx"} -> {"report_chunks"}
      [] o = "ai_jobs_status_idx" -> {"ai_jobs"}
      [] OTHER -> {}

VARIABLES
    objects,  \* committed: extensions, tables and indexes
    ledger,   \* committed: rows of schema_migrations
    pc,       \* of a runner: "idle", "apply", "wait", or how it exited
    pending,  \* of a runner: the files it found missing and has not applied
    at,       \* of a runner: its next statement of the lowest pending file
    made,     \* of a runner: what its open transaction has created
    conns,    \* of the service: its pooled connections
    failures  \* crashes and lost answers so far

vars == <<objects, ledger, pc, pending, at, made, conns, failures>>

Exits == {"ok", "error", "crashed"}

TypeOK ==
    /\ objects \subseteq Schema
    /\ ledger \subseteq Versions
    /\ pc \in [Runners -> {"idle", "apply", "wait"} \cup Exits]
    /\ pending \in [Runners -> SUBSET Versions]
    /\ at \in [Runners -> 1 .. 6]
    /\ made \in [Runners -> SUBSET Schema]
    /\ \A r \in Runners : pc[r] \notin {"apply", "wait"} => made[r] = {}
    /\ conns \in [Slots -> {"none", "plain", "registered"}]
    /\ failures \in 0 .. MaxFailures

-----------------------------------------------------------------------------
(* A new database, one that an older repository migrated, or one created   *)
(* by db/init_rag.sql, which has the tables and no ledger.                 *)
Init ==
    /\ \/ \E v \in Versions \cup {0} :
            /\ ledger = 1 .. v
            /\ objects = UNION {Created(w) : w \in ledger}
       \/ /\ ledger = {}
          /\ objects = Schema \ {"schema_migrations"}
    /\ pc = [r \in Runners |-> "idle"]
    /\ pending = [r \in Runners |-> {}]
    /\ at = [r \in Runners |-> 1]
    /\ made = [r \in Runners |-> {}]
    /\ conns = [s \in Slots |-> "none"]
    /\ failures = 0

(* _applied_versions, and the files that are not among them.               *)
Applied == IF "schema_migrations" \in objects THEN ledger ELSE {}

ReadLedger(r) ==
    /\ pc[r] = "idle"
    /\ pending' = [pending EXCEPT ![r] = Versions \ Applied]
    /\ pc' = [pc EXCEPT ![r] = IF Applied = Versions THEN "ok" ELSE "apply"]
    /\ at' = [at EXCEPT ![r] = 1]
    /\ UNCHANGED <<objects, ledger, made, conns, failures>>

(* Files are applied in ascending order.                                   *)
Version(r)   == Min(pending[r])
Statement(r) == Files[Version(r)][at[r]]

(* The transaction ends and leaves nothing.                                *)
Rollback(r) == made' = [made EXCEPT ![r] = {}]

FailedExitIgnored(r) == "ok"

(* What main() tells its caller when a file fails.                         *)
FailedExit(r) == "error"

(* CREATE ... IF NOT EXISTS.                                               *)
NothingToCreate(r) == Statement(r) \in objects \cup made[r]

BeingMade(r) == \E q \in Runners \ {r} : Statement(r) \in made[q]

FileIsDoneEarly(r) == at[r] >= Len(Files[Version(r)])

(* The version is recorded when the statements of its file are done.       *)
FileIsDone(r) == at[r] > Len(Files[Version(r)])

Skip(r) ==
    /\ pc[r] = "apply"
    /\ ~FileIsDone(r)
    /\ NothingToCreate(r)
    /\ at' = [at EXCEPT ![r] = @ + 1]
    /\ UNCHANGED <<objects, ledger, pc, pending, made, conns, failures>>

(* What another transaction is creating makes this one wait for its end.   *)
Wait(r) ==
    /\ pc[r] = "apply"
    /\ ~FileIsDone(r)
    /\ ~NothingToCreate(r)
    /\ BeingMade(r)
    /\ pc' = [pc EXCEPT ![r] = "wait"]
    /\ UNCHANGED <<objects, ledger, pending, at, made, conns, failures>>

Create(r) ==
    /\ pc[r] \in {"apply", "wait"}
    /\ ~FileIsDone(r)
    /\ Statement(r) \notin objects \cup made[r]
    /\ ~BeingMade(r)
    /\ Needs(Statement(r)) \subseteq objects \cup made[r]
    /\ made' = [made EXCEPT ![r] = @ \cup {Statement(r)}]
    /\ at' = [at EXCEPT ![r] = @ + 1]
    /\ pc' = [pc EXCEPT ![r] = "apply"]
    /\ UNCHANGED <<objects, ledger, pending, conns, failures>>

(* A statement fails: it refers to what does not exist, or the one it      *)
(* waited for was committed and its own is a duplicate.  The exception     *)
(* leaves main().                                                          *)
Fail(r) ==
    /\ pc[r] \in {"apply", "wait"}
    /\ ~FileIsDone(r)
    /\ \/ /\ pc[r] = "apply"
          /\ ~NothingToCreate(r)
          /\ ~BeingMade(r)
          /\ ~(Needs(Statement(r)) \subseteq objects \cup made[r])
       \/ pc[r] = "wait" /\ Statement(r) \in objects
    /\ Rollback(r)
    /\ pc' = [pc EXCEPT ![r] = FailedExit(r)]
    /\ UNCHANGED <<objects, ledger, pending, at, conns, failures>>

(* The ledger row, with ON CONFLICT DO NOTHING, and the commit.  Its       *)
(* answer may be lost, and then the runner fails on a file that stands.    *)
Commit(r) ==
    /\ pc[r] = "apply"
    /\ FileIsDone(r)
    /\ objects' = objects \cup made[r]
    /\ ledger' = ledger \cup {Version(r)}
    /\ made' = [made EXCEPT ![r] = {}]
    /\ at' = [at EXCEPT ![r] = 1]
    /\ \E answered \in BOOLEAN :
         /\ failures' = failures + (IF answered THEN 0 ELSE 1)
         /\ failures' <= MaxFailures
         /\ pending' = [pending EXCEPT ![r] = @ \ {Version(r)}]
         /\ pc' = [pc EXCEPT ![r] = IF ~answered THEN "error"
                                    ELSE IF pending'[r] = {} THEN "ok" ELSE "apply"]
    /\ UNCHANGED conns

Crash(r) ==
    /\ pc[r] \in {"apply", "wait"}
    /\ failures < MaxFailures
    /\ failures' = failures + 1
    /\ Rollback(r)
    /\ pc' = [pc EXCEPT ![r] = "crashed"]
    /\ UNCHANGED <<objects, ledger, pending, at, conns>>

(* The operator runs it again, or compose comes up again.                  *)
Rerun(r) ==
    /\ pc[r] \in Exits
    /\ pc' = [pc EXCEPT ![r] = "idle"]
    /\ UNCHANGED <<objects, ledger, pending, at, made, conns, failures>>

ConfiguredNever == "plain"

(* The service needs a connection and the pool opens one: register_vector  *)
(* fails, silently, as long as there is no vector type.                    *)
Configured == IF "vector" \in objects THEN "registered" ELSE "plain"

Open(s) ==
    /\ conns[s] = "none"
    /\ conns' = [conns EXCEPT ![s] = Configured]
    /\ UNCHANGED <<objects, ledger, pc, pending, at, made, failures>>

(* The pool closes a connection at the end of its lifetime, or idle.       *)
Retire(s) ==
    /\ conns[s] # "none"
    /\ conns' = [conns EXCEPT ![s] = "none"]
    /\ UNCHANGED <<objects, ledger, pc, pending, at, made, failures>>

Run(r) == ReadLedger(r) \/ Skip(r) \/ Wait(r) \/ Create(r) \/ Fail(r) \/ Commit(r)

Next ==
    \/ \E r \in Runners : Run(r) \/ Crash(r) \/ Rerun(r)
    \/ \E s \in Slots : Open(s) \/ Retire(s)

Spec == Init /\ [][Next]_vars

(* A runner that is alive goes on; one that exited with an error is run    *)
(* again, for the app container waits for a migrate that completed; the    *)
(* pool retires every connection (max_lifetime).                           *)
Fairness ==
    /\ \A r \in Runners : WF_vars(Run(r)) /\ WF_vars(Rerun(r) /\ pc[r] # "ok")
    /\ \A s \in Slots : WF_vars(Retire(s))

FairSpec == Spec /\ Fairness

-----------------------------------------------------------------------------
Migrated == ledger = Versions /\ objects = Schema

(* A version in the ledger is never a claim without its tables: whatever   *)
(* crashed, raced or was rolled back, what a recorded file creates is      *)
(* there, with everything it refers to.                                    *)
LedgerIsTrue ==
    /\ \A v \in ledger : Created(v) \subseteq objects
    /\ \A o \in objects : Needs(o) \subseteq objects

(* What the exit codes of overlapping runners tell is true: a runner that  *)
(* exits with 0 leaves, or found, a migrated database, and runners that    *)
(* race may make each other fail, but not all of them, on any file: when   *)
(* all have exited and nothing crashed, the schema is complete.            *)
ExitsTellTheTruth ==
    /\ \A r \in Runners : pc[r] = "ok" => Migrated
    /\ failures = 0 /\ (\A r \in Runners : pc[r] \in Exits) => Migrated

(* With runners that are repeated until they succeed, the database is      *)
(* migrated in the end, from any of its initial states, and the service    *)
(* recovers from having been up before the extension: for good, no         *)
(* connection is without the vector types.                                 *)
SettlesEventually == <>[](Migrated /\ \A s \in Slots : conns[s] # "plain")
=============================================================================
