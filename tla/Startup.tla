------------------------------- MODULE Startup -------------------------------
(***************************************************************************)
(* How a release starts: migration Jobs bring the schema of one database   *)
(* forward (apps/migrate; packages/db, PostgresDatabase.migrate), and web  *)
(* and collector pods wait for the schema their image needs before they    *)
(* serve (wait-for-schema in the chart, waitForDatabase, verifyMigrations).*)
(* Two releases may start at the same time.  The rest of readiness, LISTEN *)
(* and the Kubernetes watch, is in TimelineListener and CollectorWatch.    *)
(***************************************************************************)
EXTENDS Naturals, FiniteSets

CONSTANTS
    Migrators,    \* the migration Jobs, each runs one pod at a time
    Services,     \* the web and collector pods
    Schema,       \* how many migrations the image of a Job or pod carries
    BackoffLimit, \* backoffLimit of a Job
    MaxFaults     \* bound: failures of the database, of migrations and of pods

ASSUME StartupAssumption ==
    /\ Migrators \cap Services = {}
    /\ Schema \in [Migrators \cup Services -> Nat \ {0}]
    /\ BackoffLimit \in Nat /\ MaxFaults \in Nat

VARIABLES
    up,       \* whether PostgreSQL answers
    applied,  \* tracegarden_schema_migrations: the migrations that are committed
    holders,  \* transactions that hold the advisory lock tracegarden:migrations
    written,  \* migrations a Job's open transaction has run
    at,       \* where a Job or a pod is
    step,     \* the migration a Job is at
    failures, \* pods of a Job that failed
    faults    \* failures of the environment so far

vars == <<up, applied, holders, written, at, step, failures, faults>>

\* Migration i of every image is the same file: the list is only appended to.
Needs(p) == 1..Schema[p]

\* A Job inside its transaction.
Migrating == {"lock", "check", "run"}

TypeOK ==
    /\ up \in BOOLEAN
    /\ applied \subseteq UNION {Needs(m) : m \in Migrators}
    /\ holders \subseteq Migrators
    /\ written \in [Migrators -> SUBSET Nat] /\ \A m \in Migrators : written[m] \subseteq Needs(m)
    /\ at \in [Migrators \cup Services -> Migrating \cup {"wait", "failed", "done", "schema", "verify", "serving"}]
    /\ \A m \in Migrators : at[m] \in Migrating \cup {"wait", "failed", "done"}
    /\ \A s \in Services : at[s] \in {"schema", "wait", "verify", "serving"}
    /\ step \in [Migrators -> Nat] /\ \A m \in Migrators : step[m] \in 1..(Schema[m] + 1)
    /\ failures \in [Migrators -> 0..(BackoffLimit + 1)]
    /\ faults \in 0..MaxFaults

\* A pod of the chart starts with its init container; compose has none.
Init ==
    /\ up = TRUE /\ applied = {} /\ holders = {} /\ faults = 0
    /\ written = [m \in Migrators |-> {}]
    /\ \E start \in [Services -> {"schema", "wait"}] :
          at = [p \in Migrators \cup Services |-> IF p \in Services THEN start[p] ELSE "wait"]
    /\ step = [m \in Migrators |-> 1]
    /\ failures = [m \in Migrators |-> 0]

Goto(p, place) == at' = [at EXCEPT ![p] = place]

Fault == faults < MaxFaults /\ faults' = faults + 1

-----------------------------------------------------------------------------
(* Migration Jobs.                                                          *)

\* waitForDatabase returns; BEGIN, and the wait for the lock.
Reach(m) ==
    /\ at[m] = "wait" /\ up
    /\ Goto(m, "lock")
    /\ UNCHANGED <<up, applied, holders, written, step, failures, faults>>

\* Mutant: migrations are not serialized.
TakeLockNot(m) ==
    /\ at[m] = "lock"
    /\ holders' = holders \cup {m}
    /\ step' = [step EXCEPT ![m] = 1]
    /\ Goto(m, "check")
    /\ UNCHANGED <<up, applied, written, failures, faults>>

\* pg_advisory_xact_lock: one transaction at a time.
TakeLock(m) ==
    /\ at[m] = "lock" /\ holders = {}
    /\ holders' = {m}
    /\ step' = [step EXCEPT ![m] = 1]
    /\ Goto(m, "check")
    /\ UNCHANGED <<up, applied, written, failures, faults>>

\* Mutant: at a migration that is committed the loop ends.
CheckStops(m) ==
    /\ at[m] = "check" /\ step[m] \in Needs(m)
    /\ IF step[m] \in applied
       THEN step' = [step EXCEPT ![m] = Schema[m] + 1] /\ UNCHANGED at
       ELSE Goto(m, "run") /\ UNCHANGED step
    /\ UNCHANGED <<up, applied, holders, written, failures, faults>>

\* A migration that is committed is skipped.
Check(m) ==
    /\ at[m] = "check" /\ step[m] \in Needs(m)
    /\ IF step[m] \in applied
       THEN step' = [step EXCEPT ![m] = @ + 1] /\ UNCHANGED at
       ELSE Goto(m, "run") /\ UNCHANGED step
    /\ UNCHANGED <<up, applied, holders, written, failures, faults>>

\* The transaction is over, and with it the lock.
Leave(m, place) ==
    /\ written' = [written EXCEPT ![m] = {}]
    /\ holders' = holders \ {m}
    /\ Goto(m, place)

\* The pod fails: ROLLBACK, the pool is closed, exit 1.
PodFails(m) ==
    /\ Leave(m, "failed")
    /\ failures' = [failures EXCEPT ![m] = @ + 1]

\* Its file is executed and its id inserted: the insert waits for another
\* transaction with the same id and fails if that one commits.
Run(m) ==
    /\ at[m] = "run"
    /\ \A n \in Migrators \ {m} : step[m] \notin written[n]
    /\ IF step[m] \in applied
       THEN PodFails(m) /\ UNCHANGED step
       ELSE /\ written' = [written EXCEPT ![m] = @ \cup {step[m]}]
            /\ step' = [step EXCEPT ![m] = @ + 1]
            /\ Goto(m, "check")
            /\ UNCHANGED <<holders, failures>>
    /\ UNCHANGED <<up, applied, faults>>

\* COMMIT, and exit 0.
Commit(m) ==
    /\ at[m] = "check" /\ step[m] \notin Needs(m)
    /\ applied' = applied \cup written[m]
    /\ Leave(m, "done")
    /\ UNCHANGED <<up, step, failures, faults>>

\* COMMIT is executed, its answer is lost.
CommitLost(m) ==
    /\ Fault
    /\ at[m] = "check" /\ step[m] \notin Needs(m)
    /\ applied' = applied \cup written[m]
    /\ PodFails(m)
    /\ UNCHANGED <<up, step>>

\* Mutant: what was run before the failure stays.
MigrationFailsHalfway(m) ==
    /\ Fault
    /\ at[m] \in Migrating \/ (at[m] = "wait" /\ ~up)
    /\ applied' = applied \cup written[m]
    /\ PodFails(m)
    /\ UNCHANGED <<up, step>>

\* A migration or a statement fails, the pod dies, or waitForDatabase times
\* out: nothing of the transaction stays.
MigrationFails(m) ==
    /\ Fault
    /\ at[m] \in Migrating \/ (at[m] = "wait" /\ ~up)
    /\ PodFails(m)
    /\ UNCHANGED <<up, applied, step>>

\* The Job starts another pod.
Retry(m) ==
    /\ at[m] = "failed" /\ failures[m] <= BackoffLimit
    /\ Goto(m, "wait")
    /\ UNCHANGED <<up, applied, holders, written, step, failures, faults>>

-----------------------------------------------------------------------------
(* Web and collector.                                                       *)

\* Mutant: a schema that has been started counts as complete.
MigratedPartly(s) == Needs(s) \cap applied # {}

\* Every migration of the image is committed.
Migrated(s) == Needs(s) \subseteq applied

\* The init container waits until every migration of its image is there.
SchemaReady(s) ==
    /\ at[s] = "schema" /\ up /\ Migrated(s)
    /\ Goto(s, "wait")
    /\ UNCHANGED <<up, applied, holders, written, step, failures, faults>>

\* waitForDatabase returns.
Connect(s) ==
    /\ at[s] = "wait" /\ up
    /\ Goto(s, "verify")
    /\ UNCHANGED <<up, applied, holders, written, step, failures, faults>>

\* verifyMigrations, once: the process goes on or exits and is restarted.
Verify(s) ==
    /\ at[s] = "verify"
    /\ Goto(s, IF up /\ Migrated(s) THEN "serving" ELSE "wait")
    /\ UNCHANGED <<up, applied, holders, written, step, failures, faults>>

\* A process dies; its container is restarted, or its pod replaced.
ServiceFails(s) ==
    /\ Fault
    /\ Goto(s, "wait") \/ Goto(s, "schema")
    /\ UNCHANGED <<up, applied, holders, written, step, failures>>

\* The readiness that is reported: every probe pings the database.
Ready(s) == at[s] = "serving" /\ up

-----------------------------------------------------------------------------
(* PostgreSQL.                                                              *)

\* The server goes down: every open transaction is rolled back.
DatabaseFails ==
    /\ Fault
    /\ up /\ up' = FALSE
    /\ holders' = {}
    /\ written' = [m \in Migrators |-> {}]
    /\ at' = [p \in Migrators \cup Services |->
                 IF p \in Migrators /\ at[p] \in Migrating THEN "failed" ELSE at[p]]
    /\ failures' = [m \in Migrators |->
                       IF at[m] \in Migrating THEN failures[m] + 1 ELSE failures[m]]
    /\ UNCHANGED <<applied, step>>

DatabaseReturns ==
    /\ ~up /\ up' = TRUE
    /\ UNCHANGED <<applied, holders, written, at, step, failures, faults>>

-----------------------------------------------------------------------------
Job(m) == Reach(m) \/ TakeLock(m) \/ Check(m) \/ Run(m) \/ Commit(m) \/ Retry(m)

Pod(s) == SchemaReady(s) \/ Connect(s) \/ Verify(s)

Environment ==
    \/ DatabaseFails
    \/ \E m \in Migrators : CommitLost(m) \/ MigrationFails(m)
    \/ \E s \in Services : ServiceFails(s)

Next ==
    \/ \E m \in Migrators : Job(m)
    \/ \E s \in Services : Pod(s)
    \/ DatabaseReturns \/ Environment

Spec == Init /\ [][Next]_vars

\* PostgreSQL grants its lock to each who waits and is restarted when it is
\* down; Kubernetes runs the pods and restarts them.
Fairness ==
    /\ WF_vars(DatabaseReturns)
    /\ \A m \in Migrators : WF_vars(Job(m))
    /\ \A s \in Services : SF_vars(SchemaReady(s)) /\ SF_vars(Verify(s)) /\ WF_vars(Connect(s))

FairSpec == Spec /\ Fairness

-----------------------------------------------------------------------------
(* Properties.                                                              *)

\* No process serves against a schema that its image does not know to be
\* complete, whatever other releases, failures and restarts do.
ServingIsMigrated == \A s \in Services : at[s] = "serving" => Needs(s) \subseteq applied

\* The committed schema is always that of a whole release, never one a
\* failure or another Job left half way.
SchemaIsWhole == applied = {} \/ \E m \in Migrators : applied = Needs(m)

\* Jobs that run at the same time do not make each other fail: a pod of a Job
\* fails only for a failure of the environment.
FailuresExplained == \A m \in Migrators : failures[m] <= faults

\* A release comes up in the end, after any failures its Job has retries for.
ComesUp ==
    \A s \in Services :
        (<>[]Ready(s)) \/ <>(\E m \in Migrators : at[m] = "failed" /\ failures[m] > BackoffLimit)
=============================================================================
