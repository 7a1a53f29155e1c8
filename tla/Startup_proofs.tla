----------------------------- MODULE Startup_proofs -----------------------------
(***************************************************************************)
(* Proofs about Startup, for any number of Jobs, pods and migrations.  The  *)
(* argument: what a Job's transaction has passed is committed or written by *)
(* it, so that a commit completes its release; what is committed stays; and *)
(* while one Job has the lock no other can commit, so the migration it runs *)
(* is not there yet.                                                        *)
(*                                                                         *)
(* And about PreviewLifecycle, for any pull requests: a pass hides a pull    *)
(* request before it deletes its namespace, and shows one only when it has   *)
(* what a preview needs.                                                    *)
(***************************************************************************)
EXTENDS MCDelivery, NaturalsInduction, WellFoundedInduction, TLAPS

Locked == {"check", "run"}

\* The lock is held by the transactions that are past it, one at most.
LockInv ==
    /\ holders = {m \in Migrators : at[m] \in Locked}
    /\ \A m, n \in holders : m = n

\* What a Job knows where it is.
JobInv(m) ==
    /\ at[m] \notin Locked => written[m] = {}
    /\ at[m] \in Locked => \A i \in Needs(m) : i < step[m] => i \in applied \cup written[m]
    /\ at[m] = "run" => step[m] \in Needs(m) /\ step[m] \notin applied
    /\ at[m] \in Migrating \cup {"wait"} => failures[m] <= BackoffLimit

StartupInv ==
    /\ LockInv
    /\ \A m \in Migrators : JobInv(m)
    /\ SchemaIsWhole
    /\ ServingIsMigrated
    /\ FailuresExplained

IInv == TypeOK /\ StartupInv

-----------------------------------------------------------------------------
LEMMA InitInv ==
    ASSUME StartupAssumption, Init
    PROVE  IInv
<1>1. PICK start \in [Services -> {"schema", "wait"}] :
        at = [p \in Migrators \cup Services |-> IF p \in Services THEN start[p] ELSE "wait"]
  BY DEF Init
<1>2. TypeOK
  BY <1>1 DEF Init, TypeOK, StartupAssumption, Migrating, Needs
<1>3. \A m \in Migrators : at[m] = "wait"
  BY <1>1 DEF StartupAssumption
<1>4. \A s \in Services : at[s] # "serving"
  BY <1>1
<1>5. StartupInv
  BY <1>3, <1>4 DEF Init, StartupInv, LockInv, JobInv, Locked, SchemaIsWhole, ServingIsMigrated,
                    FailuresExplained, StartupAssumption
<1> QED BY <1>2, <1>5 DEF IInv

\* The sets of migrations of two images: the shorter list is part of the longer.
LEMMA NeedsChain ==
    ASSUME StartupAssumption, NEW p \in Migrators \cup Services, NEW q \in Migrators \cup Services
    PROVE  Needs(p) \cup Needs(q) = Needs(p) \/ Needs(p) \cup Needs(q) = Needs(q)
<1>1. Schema[p] \in Nat /\ Schema[q] \in Nat
  BY DEF StartupAssumption
<1>2. CASE Schema[p] <= Schema[q]
  BY <1>1, <1>2 DEF Needs
<1>3. CASE Schema[q] <= Schema[p]
  BY <1>1, <1>3 DEF Needs
<1> QED BY <1>1, <1>2, <1>3

\* The types of what an action reads of one Job.
LEMMA JobTypes ==
    ASSUME StartupAssumption, IInv, NEW m \in Migrators
    PROVE  /\ Schema[m] \in Nat \ {0} /\ step[m] \in 1..(Schema[m] + 1) /\ written[m] \subseteq Needs(m)
           /\ failures[m] \in 0..(BackoffLimit + 1) /\ faults \in Nat /\ BackoffLimit \in Nat
           /\ m \in Migrators \cup Services /\ m \notin Services /\ JobInv(m)
BY DEF StartupAssumption, IInv, TypeOK, StartupInv

-----------------------------------------------------------------------------
(* Steps of Jobs.                                                           *)

\* A step of one Job that leaves what is committed alone: each part of the
\* invariant that it could disturb is given.
LEMMA JobStep ==
    ASSUME StartupAssumption, IInv, NEW m \in Migrators, NEW place \in Migrating \cup {"wait", "failed", "done"},
           Goto(m, place), UNCHANGED applied, up' \in BOOLEAN, faults' \in 0..MaxFaults, faults <= faults',
           NEW w \in SUBSET Needs(m), written' = [written EXCEPT ![m] = w],
           NEW i \in 1..(Schema[m] + 1), step' = [step EXCEPT ![m] = i],
           NEW n \in 0..(BackoffLimit + 1), failures' = [failures EXCEPT ![m] = n], n <= faults',
           holders' = {k \in Migrators : at'[k] \in Locked},
           place \in Locked => \A k \in Migrators \ {m} : at[k] \notin Locked,
           JobInv(m)'
    PROVE  IInv'
<1>1. /\ at'[m] = place /\ written'[m] = w /\ step'[m] = i /\ failures'[m] = n
      /\ \A k \in (Migrators \cup Services) \ {m} : at'[k] = at[k]
      /\ \A k \in Migrators \ {m} : written'[k] = written[k] /\ step'[k] = step[k] /\ failures'[k] = failures[k]
  BY DEF Goto, IInv, TypeOK
<1>2. m \notin Services
  BY DEF StartupAssumption
<1>3. TypeOK'
  <2>1. w \subseteq Nat /\ i \in Nat
    BY DEF Needs, StartupAssumption
  <2>2. /\ at' \in [Migrators \cup Services -> Migrating \cup {"wait", "failed", "done", "schema", "verify", "serving"}]
        /\ written' \in [Migrators -> SUBSET Nat] /\ step' \in [Migrators -> Nat]
        /\ failures' \in [Migrators -> 0..(BackoffLimit + 1)]
    BY <2>1 DEF Goto, IInv, TypeOK
  <2> QED BY <1>1, <1>2, <2>2 DEF IInv, TypeOK
<1>4. LockInv'
  BY <1>1 DEF IInv, StartupInv, LockInv
<1>5. \A k \in Migrators : JobInv(k)'
  BY <1>1 DEF IInv, StartupInv, JobInv
<1>6. SchemaIsWhole' /\ ServingIsMigrated'
  BY <1>1, <1>2 DEF IInv, StartupInv, SchemaIsWhole, ServingIsMigrated
<1>7. FailuresExplained'
  <2>1. ASSUME NEW k \in Migrators PROVE failures'[k] <= faults'
    <3>1. failures[k] \in Nat /\ faults \in Nat /\ faults' \in Nat /\ failures[k] <= faults
      BY DEF StartupAssumption, IInv, TypeOK, StartupInv, FailuresExplained
    <3> QED BY <1>1, <3>1
  <2> QED BY <2>1 DEF FailuresExplained
<1> QED BY <1>3, <1>4, <1>5, <1>6, <1>7 DEF IInv, StartupInv

LEMMA ReachStep ==
    ASSUME StartupAssumption, IInv, NEW m \in Migrators, Reach(m)
    PROVE  IInv'
<1>1. at[m] = "wait" /\ at' = [at EXCEPT ![m] = "lock"] /\ UNCHANGED <<up, applied, holders, written, step, failures, faults>>
  BY DEF Reach, Goto
<1>2. at'[m] = "lock" /\ \A k \in Migrators \ {m} : at'[k] = at[k]
  BY <1>1 DEF IInv, TypeOK
<1>3. holders' = {k \in Migrators : at'[k] \in Locked}
  BY <1>1, <1>2 DEF IInv, StartupInv, LockInv, Locked
<1>4. JobInv(m)'
  BY <1>1, <1>2, JobTypes DEF JobInv, Locked, Migrating, Needs
<1>5. written' = [written EXCEPT ![m] = written[m]] /\ step' = [step EXCEPT ![m] = step[m]] /\ failures' = [failures EXCEPT ![m] = failures[m]]
  BY <1>1 DEF IInv, TypeOK
<1>6. failures[m] <= faults' /\ faults' \in 0..MaxFaults /\ faults <= faults' /\ up' \in BOOLEAN
  BY <1>1, JobTypes DEF IInv, TypeOK, StartupInv, FailuresExplained
<1> QED BY <1>1, <1>3, <1>4, <1>5, <1>6, JobTypes, JobStep DEF Goto, Locked, Migrating

LEMMA TakeLockStep ==
    ASSUME StartupAssumption, IInv, NEW m \in Migrators, TakeLock(m)
    PROVE  IInv'
<1>1. /\ at[m] = "lock" /\ holders = {} /\ holders' = {m} /\ at' = [at EXCEPT ![m] = "check"]
      /\ step' = [step EXCEPT ![m] = 1] /\ UNCHANGED <<up, applied, written, failures, faults>>
  BY DEF TakeLock, Goto
<1>2. at'[m] = "check" /\ step'[m] = 1 /\ \A k \in Migrators \ {m} : at'[k] = at[k]
  BY <1>1 DEF IInv, TypeOK
<1>3. \A k \in Migrators : at[k] \notin Locked
  BY <1>1 DEF IInv, StartupInv, LockInv
<1>4. holders' = {k \in Migrators : at'[k] \in Locked}
  BY <1>1, <1>2, <1>3 DEF Locked
<1>5. JobInv(m)'
  BY <1>1, <1>2, JobTypes DEF JobInv, Locked, Migrating, Needs
<1>6. written' = [written EXCEPT ![m] = written[m]] /\ failures' = [failures EXCEPT ![m] = failures[m]]
  BY <1>1 DEF IInv, TypeOK
<1>7. failures[m] <= faults' /\ faults' \in 0..MaxFaults /\ faults <= faults' /\ up' \in BOOLEAN /\ 1 \in 1..(Schema[m] + 1)
  BY <1>1, JobTypes DEF IInv, TypeOK, StartupInv, FailuresExplained
<1> QED BY <1>1, <1>3, <1>4, <1>5, <1>6, <1>7, JobTypes, JobStep DEF Goto, Migrating

\* A step inside the loop over the migrations.
LEMMA LoopStep ==
    ASSUME StartupAssumption, IInv, NEW m \in Migrators, at[m] \in Locked, NEW place \in Locked, Goto(m, place),
           NEW w \in SUBSET Needs(m), written' = [written EXCEPT ![m] = w],
           NEW i \in 1..(Schema[m] + 1), step' = [step EXCEPT ![m] = i],
           UNCHANGED <<up, applied, holders, failures, faults>>,
           \A j \in Needs(m) : j < i => j \in applied \cup w,
           place = "run" => i \in Needs(m) /\ i \notin applied
    PROVE  IInv'
<1>1. at' = [at EXCEPT ![m] = place]
  BY DEF Goto
<1>2. at'[m] = place /\ written'[m] = w /\ step'[m] = i /\ \A k \in Migrators \ {m} : at'[k] = at[k]
  BY <1>1 DEF IInv, TypeOK
<1>3. holders' = {k \in Migrators : at'[k] \in Locked}
  BY <1>2 DEF IInv, StartupInv, LockInv
<1>4. JobInv(m)'
  BY <1>2, JobTypes DEF JobInv, Locked, Migrating, Needs
<1>5. failures' = [failures EXCEPT ![m] = failures[m]]
  BY DEF IInv, TypeOK
<1>6. failures[m] <= faults' /\ faults' \in 0..MaxFaults /\ faults <= faults' /\ up' \in BOOLEAN
  BY JobTypes DEF IInv, TypeOK, StartupInv, FailuresExplained
<1>7. \A k \in Migrators \ {m} : at[k] \notin Locked
  BY DEF IInv, StartupInv, LockInv
<1>8. place \in Migrating
  BY DEF Locked, Migrating
<1> QED BY <1>3, <1>4, <1>5, <1>6, <1>7, <1>8, JobTypes, JobStep

LEMMA CheckStep ==
    ASSUME StartupAssumption, IInv, NEW m \in Migrators, Check(m)
    PROVE  IInv'
<1>1. /\ at[m] = "check" /\ step[m] \in Needs(m) /\ UNCHANGED <<up, applied, holders, written, failures, faults>>
      /\ written' = [written EXCEPT ![m] = written[m]]
  BY DEF Check, IInv, TypeOK
<1>2. \A j \in Needs(m) : j < step[m] => j \in applied \cup written[m]
  BY <1>1, JobTypes DEF JobInv, Locked
<1>3. CASE step[m] \in applied
  <2>1. step' = [step EXCEPT ![m] = step[m] + 1] /\ UNCHANGED at
    BY <1>3 DEF Check
  <2>2. step[m] + 1 \in 1..(Schema[m] + 1)
    BY <1>1, JobTypes DEF Needs
  <2>3. Goto(m, "check")
    BY <1>1, <2>1 DEF Goto, IInv, TypeOK
  <2>4. \A j \in Needs(m) : j < step[m] + 1 => j \in applied \cup written[m]
    BY <1>2, <1>3, JobTypes DEF Needs
  <2> QED BY <1>1, <2>1, <2>2, <2>3, <2>4, JobTypes, LoopStep DEF Locked
<1>4. CASE step[m] \notin applied
  <2>1. Goto(m, "run") /\ step' = [step EXCEPT ![m] = step[m]]
    BY <1>4 DEF Check, IInv, TypeOK
  <2> QED BY <1>1, <1>2, <1>4, <2>1, JobTypes, LoopStep DEF Locked
<1> QED BY <1>3, <1>4

LEMMA RunStep ==
    ASSUME StartupAssumption, IInv, NEW m \in Migrators, Run(m)
    PROVE  IInv'
<1>1. at[m] = "run" /\ step[m] \in Needs(m) /\ step[m] \notin applied
  BY JobTypes DEF Run, JobInv
<1>2. /\ written' = [written EXCEPT ![m] = written[m] \cup {step[m]}]
      /\ step' = [step EXCEPT ![m] = step[m] + 1]
      /\ Goto(m, "check")
      /\ UNCHANGED <<up, applied, holders, failures, faults>>
  BY <1>1 DEF Run
<1>3. step[m] + 1 \in 1..(Schema[m] + 1) /\ written[m] \cup {step[m]} \in SUBSET Needs(m)
  BY <1>1, JobTypes DEF Needs
<1>4. \A j \in Needs(m) : j < step[m] + 1 => j \in applied \cup (written[m] \cup {step[m]})
  BY <1>1, JobTypes DEF JobInv, Locked, Needs
<1> QED BY <1>1, <1>2, <1>3, <1>4, LoopStep DEF Locked

\* A pod of a Job fails for a failure of the environment.
LEMMA FailStep ==
    ASSUME StartupAssumption, IInv, NEW m \in Migrators, at[m] \in Migrating \cup {"wait"}, PodFails(m), Fault,
           UNCHANGED <<up, applied, step>>
    PROVE  IInv'
<1>1. /\ written' = [written EXCEPT ![m] = {}] /\ holders' = holders \ {m} /\ at' = [at EXCEPT ![m] = "failed"]
      /\ failures' = [failures EXCEPT ![m] = failures[m] + 1]
  BY DEF PodFails, Leave, Goto, IInv, TypeOK
<1>2. at'[m] = "failed" /\ written'[m] = {} /\ \A k \in Migrators \ {m} : at'[k] = at[k]
  BY <1>1 DEF IInv, TypeOK
<1>3. holders' = {k \in Migrators : at'[k] \in Locked}
  BY <1>1, <1>2 DEF IInv, StartupInv, LockInv, Locked
<1>4. JobInv(m)'
  BY <1>2 DEF JobInv, Locked, Migrating
<1>5. faults' = faults + 1 /\ faults' \in 0..MaxFaults /\ faults \in Nat /\ up' \in BOOLEAN
  BY DEF Fault, IInv, TypeOK, StartupAssumption
<1>6. failures[m] + 1 \in 0..(BackoffLimit + 1) /\ failures[m] + 1 <= faults' /\ faults <= faults'
  BY <1>5, JobTypes DEF JobInv, IInv, StartupInv, FailuresExplained
<1>7. step' = [step EXCEPT ![m] = step[m]]
  BY DEF IInv, TypeOK
<1>8. {} \in SUBSET Needs(m) /\ step[m] \in 1..(Schema[m] + 1) /\ "failed" \notin Locked /\ Goto(m, "failed")
  BY <1>1, JobTypes DEF Goto, Locked
<1> QED BY <1>1, <1>3, <1>4, <1>5, <1>6, <1>7, <1>8, JobStep

\* What is committed when a Job commits: its release, or the larger one.
LEMMA Committed ==
    ASSUME StartupAssumption, IInv, NEW m \in Migrators, at[m] = "check", step[m] \notin Needs(m),
           applied' = applied \cup written[m]
    PROVE  /\ SchemaIsWhole'
           /\ applied \subseteq applied' /\ applied' \subseteq UNION {Needs(k) : k \in Migrators}
<1>1. step[m] = Schema[m] + 1 /\ \A i \in Needs(m) : i < step[m]
  BY JobTypes DEF Needs
<1>2. applied' = applied \cup Needs(m)
  BY <1>1, JobTypes DEF JobInv, Locked
<1>3. SchemaIsWhole'
  <2>1. CASE applied = {}
    BY <1>2, <2>1 DEF SchemaIsWhole, Needs
  <2>2. ASSUME NEW n \in Migrators, applied = Needs(n) PROVE SchemaIsWhole'
    <3>1. applied' = Needs(n) \/ applied' = Needs(m)
      BY <1>2, <2>2, NeedsChain
    <3> QED BY <3>1 DEF SchemaIsWhole, Needs
  <2> QED BY <2>1, <2>2 DEF IInv, StartupInv, SchemaIsWhole
<1>4. applied' \subseteq UNION {Needs(k) : k \in Migrators}
  BY <1>2 DEF IInv, TypeOK
<1> QED BY <1>2, <1>3, <1>4

\* A Job commits; its pod has succeeded, or failed without knowing it.
LEMMA CommitStep ==
    ASSUME StartupAssumption, IInv, NEW m \in Migrators, at[m] = "check", step[m] \notin Needs(m),
           applied' = applied \cup written[m], NEW place \in {"done", "failed"}, Leave(m, place),
           NEW n \in 0..(BackoffLimit + 1), failures' = [failures EXCEPT ![m] = n], n <= faults',
           faults' \in 0..MaxFaults, faults <= faults', UNCHANGED <<up, step>>
    PROVE  IInv'
<1>1. written' = [written EXCEPT ![m] = {}] /\ holders' = holders \ {m} /\ at' = [at EXCEPT ![m] = place]
  BY DEF Leave, Goto
<1>2. /\ at'[m] = place /\ written'[m] = {} /\ failures'[m] = n
      /\ \A k \in (Migrators \cup Services) \ {m} : at'[k] = at[k]
      /\ \A k \in Migrators \ {m} : written'[k] = written[k] /\ failures'[k] = failures[k]
  BY <1>1 DEF IInv, TypeOK
<1>3. \A k \in Migrators \ {m} : at[k] \notin Locked
  BY DEF IInv, StartupInv, LockInv, Locked
<1>4. m \notin Services
  BY DEF StartupAssumption
<1>5. TypeOK'
  <2>1. /\ at' \in [Migrators \cup Services -> Migrating \cup {"wait", "failed", "done", "schema", "verify", "serving"}]
        /\ written' \in [Migrators -> SUBSET Nat] /\ failures' \in [Migrators -> 0..(BackoffLimit + 1)]
    BY <1>1 DEF IInv, TypeOK
  <2>2. holders' \subseteq Migrators /\ applied' \subseteq UNION {Needs(k) : k \in Migrators}
    BY <1>1, Committed DEF IInv, TypeOK
  <2> QED BY <1>2, <1>4, <2>1, <2>2 DEF IInv, TypeOK, Needs
<1>6. LockInv'
  BY <1>1, <1>2, <1>3 DEF IInv, StartupInv, LockInv, Locked
<1>7. \A k \in Migrators : JobInv(k)'
  <2>1. JobInv(m)'
    BY <1>2 DEF JobInv, Locked, Migrating
  <2>2. ASSUME NEW k \in Migrators, k # m PROVE JobInv(k)'
    <3>1. at'[k] = at[k] /\ written'[k] = written[k] /\ failures'[k] = failures[k] /\ at[k] \notin Locked /\ JobInv(k)
      BY <1>2, <1>3, <2>2 DEF IInv, StartupInv
    <3> QED BY <3>1 DEF JobInv, Locked
  <2> QED BY <2>1, <2>2
<1>8. SchemaIsWhole' /\ ServingIsMigrated'
  BY <1>2, <1>4, Committed DEF IInv, StartupInv, ServingIsMigrated, Needs
<1>9. FailuresExplained'
  <2>1. ASSUME NEW k \in Migrators PROVE failures'[k] <= faults'
    <3>1. failures[k] \in Nat /\ faults \in Nat /\ faults' \in Nat /\ failures[k] <= faults
      BY DEF StartupAssumption, IInv, TypeOK, StartupInv, FailuresExplained
    <3> QED BY <1>2, <3>1
  <2> QED BY <2>1 DEF FailuresExplained
<1> QED BY <1>5, <1>6, <1>7, <1>8, <1>9 DEF IInv, StartupInv

LEMMA CommitDoneStep ==
    ASSUME StartupAssumption, IInv, NEW m \in Migrators, Commit(m)
    PROVE  IInv'
<1>1. failures' = [failures EXCEPT ![m] = failures[m]] /\ failures[m] \in 0..(BackoffLimit + 1)
  BY DEF Commit, IInv, TypeOK
<1>2. failures[m] <= faults' /\ faults' \in 0..MaxFaults /\ faults <= faults'
  BY JobTypes DEF Commit, IInv, TypeOK, StartupInv, FailuresExplained
<1> QED BY <1>1, <1>2, CommitStep DEF Commit

LEMMA CommitLostStep ==
    ASSUME StartupAssumption, IInv, NEW m \in Migrators, CommitLost(m)
    PROVE  IInv'
<1>1. faults' = faults + 1 /\ faults' \in 0..MaxFaults /\ faults \in Nat
  BY DEF CommitLost, Fault, IInv, TypeOK, StartupAssumption
<1>2. failures' = [failures EXCEPT ![m] = failures[m] + 1]
  BY DEF CommitLost, PodFails
<1>3. failures[m] + 1 \in 0..(BackoffLimit + 1) /\ failures[m] + 1 <= faults' /\ faults <= faults'
  BY <1>1, JobTypes DEF CommitLost, JobInv, Migrating, IInv, StartupInv, FailuresExplained
<1> QED BY <1>1, <1>2, <1>3, CommitStep DEF CommitLost, PodFails

LEMMA RetryStep ==
    ASSUME StartupAssumption, IInv, NEW m \in Migrators, Retry(m)
    PROVE  IInv'
<1>1. /\ at[m] = "failed" /\ failures[m] <= BackoffLimit /\ at' = [at EXCEPT ![m] = "wait"]
      /\ UNCHANGED <<up, applied, holders, written, step, failures, faults>>
  BY DEF Retry, Goto
<1>2. at'[m] = "wait" /\ \A k \in Migrators \ {m} : at'[k] = at[k]
  BY <1>1 DEF IInv, TypeOK
<1>3. holders' = {k \in Migrators : at'[k] \in Locked}
  BY <1>1, <1>2 DEF IInv, StartupInv, LockInv, Locked
<1>4. JobInv(m)'
  BY <1>1, <1>2, JobTypes DEF JobInv, Locked, Migrating
<1>5. written' = [written EXCEPT ![m] = written[m]] /\ step' = [step EXCEPT ![m] = step[m]] /\ failures' = [failures EXCEPT ![m] = failures[m]]
  BY <1>1 DEF IInv, TypeOK
<1>6. failures[m] <= faults' /\ faults' \in 0..MaxFaults /\ faults <= faults' /\ up' \in BOOLEAN
  BY <1>1, JobTypes DEF IInv, TypeOK, StartupInv, FailuresExplained
<1> QED BY <1>1, <1>3, <1>4, <1>5, <1>6, JobTypes, JobStep DEF Goto, Locked

-----------------------------------------------------------------------------
(* Steps of pods and of the database.                                       *)

LEMMA PodStep ==
    ASSUME StartupAssumption, IInv, NEW s \in Services,
           NEW place \in {"schema", "wait", "verify", "serving"}, Goto(s, place),
           place = "serving" => Migrated(s),
           faults' \in 0..MaxFaults, faults <= faults',
           UNCHANGED <<up, applied, holders, written, step, failures>>
    PROVE  IInv'
<1>1. /\ at' \in [Migrators \cup Services -> Migrating \cup {"wait", "failed", "done", "schema", "verify", "serving"}]
      /\ at'[s] = place /\ \A k \in (Migrators \cup Services) \ {s} : at'[k] = at[k]
  BY DEF Goto, IInv, TypeOK
<1>2. s \notin Migrators
  BY DEF StartupAssumption
<1>3. TypeOK'
  BY <1>1, <1>2 DEF IInv, TypeOK, Needs
<1>4. LockInv'
  BY <1>1, <1>2 DEF IInv, StartupInv, LockInv
<1>5. \A k \in Migrators : JobInv(k)'
  BY <1>1, <1>2 DEF IInv, StartupInv, JobInv, Needs
<1>6. SchemaIsWhole' /\ ServingIsMigrated'
  BY <1>1 DEF IInv, StartupInv, SchemaIsWhole, ServingIsMigrated, Migrated, Needs
<1>7. FailuresExplained'
  <2>1. ASSUME NEW k \in Migrators PROVE failures'[k] <= faults'
    BY DEF StartupAssumption, IInv, TypeOK, StartupInv, FailuresExplained
  <2> QED BY <2>1 DEF FailuresExplained
<1> QED BY <1>3, <1>4, <1>5, <1>6, <1>7 DEF IInv, StartupInv

LEMMA FaultTypes ==
    ASSUME StartupAssumption, IInv
    PROVE  /\ faults \in 0..MaxFaults /\ faults <= faults
           /\ Fault => faults' \in 0..MaxFaults /\ faults <= faults' /\ faults' = faults + 1
BY DEF StartupAssumption, IInv, TypeOK, Fault

LEMMA DatabaseFailsStep ==
    ASSUME StartupAssumption, IInv, DatabaseFails
    PROVE  IInv'
<1>1. faults' \in 0..MaxFaults /\ faults' = faults + 1 /\ faults \in Nat
  BY FaultTypes DEF DatabaseFails
<1>2. /\ \A k \in Migrators : at'[k] = IF at[k] \in Migrating THEN "failed" ELSE at[k]
      /\ \A k \in Services : at'[k] = at[k]
      /\ \A k \in Migrators : written'[k] = {}
      /\ \A k \in Migrators : failures'[k] = IF at[k] \in Migrating THEN failures[k] + 1 ELSE failures[k]
  BY DEF DatabaseFails, StartupAssumption
<1>3. ASSUME NEW k \in Migrators
      PROVE failures'[k] \in 0..(BackoffLimit + 1) /\ failures'[k] <= faults'
  BY <1>1, <1>2, JobTypes DEF JobInv, IInv, StartupInv, FailuresExplained
<1>4. TypeOK'
  <2>1. /\ at' \in [Migrators \cup Services -> Migrating \cup {"wait", "failed", "done", "schema", "verify", "serving"}]
    BY DEF DatabaseFails, IInv, TypeOK
  <2>2. failures' \in [Migrators -> 0..(BackoffLimit + 1)] /\ written' \in [Migrators -> SUBSET Nat]
    BY <1>3 DEF DatabaseFails
  <2>3. holders' \subseteq Migrators /\ up' \in BOOLEAN
    BY DEF DatabaseFails
  <2>4. UNCHANGED <<applied, step>>
    BY DEF DatabaseFails
  <2> QED BY <1>1, <1>2, <2>1, <2>2, <2>3, <2>4 DEF IInv, TypeOK, Needs
<1>5. \A k \in Migrators : at'[k] \notin Locked
  BY <1>2 DEF Locked, Migrating
<1>6. LockInv'
  BY <1>5 DEF LockInv, DatabaseFails
<1>7. \A k \in Migrators : JobInv(k)'
  <2>1. ASSUME NEW k \in Migrators PROVE JobInv(k)'
    BY <1>2, <1>5, JobTypes DEF JobInv, Locked, Migrating
  <2> QED BY <2>1
<1>8. SchemaIsWhole' /\ ServingIsMigrated'
  BY <1>2 DEF DatabaseFails, IInv, StartupInv, SchemaIsWhole, ServingIsMigrated, Needs
<1>9. FailuresExplained'
  BY <1>3 DEF FailuresExplained
<1> QED BY <1>4, <1>6, <1>7, <1>8, <1>9 DEF IInv, StartupInv

LEMMA StepInv ==
    ASSUME StartupAssumption, IInv, [Next]_vars
    PROVE  IInv'
<1>1. CASE UNCHANGED vars
  BY <1>1 DEF vars, IInv, TypeOK, StartupInv, LockInv, JobInv, SchemaIsWhole, ServingIsMigrated, FailuresExplained, Needs
<1>2. ASSUME NEW m \in Migrators, Job(m) PROVE IInv'
  BY <1>2, ReachStep, TakeLockStep, CheckStep, RunStep, CommitDoneStep, RetryStep DEF Job
<1>3. ASSUME NEW s \in Services, Pod(s) PROVE IInv'
  <2>1. CASE SchemaReady(s)
    BY <2>1, FaultTypes, PodStep DEF SchemaReady
  <2>2. CASE Connect(s)
    BY <2>2, FaultTypes, PodStep DEF Connect
  <2>3. CASE Verify(s)
    BY <2>3, FaultTypes, PodStep DEF Verify
  <2> QED BY <1>3, <2>1, <2>2, <2>3 DEF Pod
<1>4. CASE DatabaseReturns
  BY <1>4 DEF DatabaseReturns, IInv, TypeOK, StartupInv, LockInv, JobInv, SchemaIsWhole, ServingIsMigrated, FailuresExplained, Needs
<1>5. CASE DatabaseFails
  BY <1>5, DatabaseFailsStep
<1>6. ASSUME NEW m \in Migrators, CommitLost(m) PROVE IInv'
  BY <1>6, CommitLostStep
<1>7. ASSUME NEW m \in Migrators, MigrationFails(m) PROVE IInv'
  BY <1>7, FailStep DEF MigrationFails
<1>8. ASSUME NEW s \in Services, ServiceFails(s) PROVE IInv'
  BY <1>8, FaultTypes, PodStep DEF ServiceFails
<1> QED BY <1>1, <1>2, <1>3, <1>4, <1>5, <1>6, <1>7, <1>8 DEF Next, Environment

\* The inductive invariant.
THEOREM Invariance == Spec => []IInv
<1>1. Init => IInv
  BY StartupAssumption, InitInv
<1>2. IInv /\ [Next]_vars => IInv'
  BY StartupAssumption, StepInv
<1> QED BY <1>1, <1>2, PTL DEF Spec

\* Every variable keeps its type; a Job has no more failed pods than its
\* backoffLimit allows.
THEOREM TypesKept == Spec => []TypeOK
BY Invariance, PTL DEF IInv

\* A process that serves has found, once, every migration of its image
\* committed (verifyMigrations): they still are.
THEOREM ServesMigrated == Spec => []ServingIsMigrated
BY Invariance, PTL DEF IInv, StartupInv

\* One transaction runs all migrations of an image (PostgresDatabase.migrate):
\* the committed schema is that of a whole release.
THEOREM SchemaKeptWhole == Spec => []SchemaIsWhole
BY Invariance, PTL DEF IInv, StartupInv

\* The advisory lock keeps Jobs apart: none fails because of another.
THEOREM OnlyFaultsFail == Spec => []FailuresExplained
BY Invariance, PTL DEF IInv, StartupInv

-----------------------------------------------------------------------------
(* The preview lifecycle controller (PreviewLifecycle).                     *)

Fields == {"at", "existing", "records", "checked", "verdicts", "left"}

Previewable ==
    /\ label \subseteq Numbers /\ namespace \in [Numbers -> {"none", "active", "terminating"}]
    /\ parts \in [Numbers -> SUBSET {"secret", "account"}]
    /\ DOMAIN pass = Fields
    /\ pass.existing \subseteq Numbers /\ DOMAIN pass.records \subseteq Numbers /\ pass.left \subseteq Numbers

\* What the pass relies on where it is: whose namespace it deletes is hidden,
\* and a namespace that is still active has what the pass gave it.
Achieved ==
    /\ pass.at \in {"delete", "secret", "account", "mark", "show"} => Previews!Current \in Numbers
    /\ pass.at = "delete" => Previews!Current \notin label
    /\ pass.at = "account" /\ namespace[Previews!Current] = "active" =>
           "secret" \in parts[Previews!Current]
    /\ pass.at \in {"mark", "show"} /\ namespace[Previews!Current] = "active" =>
           parts[Previews!Current] = {"secret", "account"}

PreviewInv == Previewable /\ Achieved /\ LabelledIsProvisioned

\* The first of some numbers is one of them.
LEMMA FirstIsOne ==
    ASSUME NEW S \in SUBSET Nat, S # {}
    PROVE  Previews!First(S) \in S
<1>1. \E x \in S : \A y \in S : ~ (<<y, x>> \in OpToRel(<, Nat))
  BY NatLessThanWellFounded, WFMin
<1>2. PICK x \in S : \A y \in S : ~ (y < x)
  BY <1>1 DEF OpToRel
<1>3. \E n \in S : \A m \in S : n <= m
  BY <1>2
<1> QED BY <1>3, Zenon DEF Previews!First

LEMMA PreviewsStart ==
    ASSUME Previews!Init
    PROVE  PreviewInv
BY DEF Previews!Init, Previews!Idle, PreviewInv, Previewable, Achieved, Fields, LabelledIsProvisioned,
       Previews!LabelledIsProvisioned

\* While nothing is written, what is labelled stays as it is.
LEMMA ReadStep ==
    ASSUME Previews!PreviewAssumption, PreviewInv, Previews!Read
    PROVE  PreviewInv'
<1>1. UNCHANGED <<label, namespace, parts, doomed>>
  BY DEF Previews!Read, Previews!StartPass, Previews!ListPulls, Previews!LookUp, Previews!CheckDigest,
         Previews!Decide, Previews!cluster
<1>2. LabelledIsProvisioned'
  BY <1>1 DEF PreviewInv, LabelledIsProvisioned, Previews!LabelledIsProvisioned, Previews!Provisioned
<1>3. /\ DOMAIN pass' = Fields /\ pass'.at \in {"idle", "pulls", "reading", "turn"}
      /\ pass'.existing \subseteq Numbers /\ DOMAIN pass'.records \subseteq Numbers /\ pass'.left \subseteq Numbers
  <2>1. CASE Previews!StartPass
    BY <2>1 DEF Previews!StartPass, PreviewInv, Previewable, Fields
  <2>2. CASE Previews!ListPulls
    <3> DEFINE r == [n \in {m \in Numbers : pull[m].state = "open"} |-> Previews!RecordOf(n)]
    <3>1. pass' = [pass EXCEPT !.at = "reading", !.records = r]
      BY <2>2 DEF Previews!ListPulls
    <3>2. DOMAIN r \subseteq Numbers
      OBVIOUS
    <3> HIDE DEF r
    <3> QED BY <3>1, <3>2 DEF PreviewInv, Previewable, Fields
  <2>3. CASE Previews!LookUp
    <3> DEFINE n == Previews!First(Previews!Unlisted)
               r == [m \in DOMAIN pass.records \cup {n} |-> IF m = n THEN Previews!RecordOf(n) ELSE pass.records[m]]
    <3>1. pass' = [pass EXCEPT !.records = r] /\ pass.at = "reading" /\ Previews!Unlisted # {}
      BY <2>3 DEF Previews!LookUp
    <3>2. n \in Previews!Unlisted /\ Previews!Unlisted \subseteq Numbers
      BY <3>1, FirstIsOne DEF Previews!Unlisted, PreviewInv, Previewable, Previews!PreviewAssumption
    <3>3. DOMAIN r \subseteq Numbers
      <4>1. DOMAIN r = DOMAIN pass.records \cup {n}
        OBVIOUS
      <4> QED BY <3>2, <4>1 DEF PreviewInv, Previewable
    <3> HIDE DEF r, n
    <3> QED BY <3>1, <3>3 DEF PreviewInv, Previewable, Fields
  <2>4. CASE Previews!CheckDigest
    <3> DEFINE n == Previews!First(Previews!Unchecked)
    <3>1. /\ pass.at = "reading"
          /\ pass' = [pass EXCEPT !.records[n].trusted = n \in digests, !.checked = @ \cup {n}]
      BY <2>4 DEF Previews!CheckDigest
    <3> HIDE DEF n
    <3>2. /\ DOMAIN pass' = DOMAIN pass /\ pass'.at = pass.at
          /\ pass'.existing = pass.existing /\ pass'.left = pass.left
          /\ DOMAIN pass'.records = DOMAIN pass.records
      BY <3>1 DEF PreviewInv, Previewable, Fields
    <3> QED BY <3>1, <3>2 DEF PreviewInv, Previewable
  <2>5. CASE Previews!Decide
    <3> DEFINE p == [pass EXCEPT !.at = "turn",
                                 !.verdicts = Previews!Decisions(pass.records, Capacity),
                                 !.left = DOMAIN pass.records]
    <3>1. pass' = Previews!Over(p)
      BY <2>5 DEF Previews!Decide
    <3>2. /\ DOMAIN p = Fields /\ p.at = "turn" /\ p.existing = pass.existing /\ p.records = pass.records
          /\ p.left = DOMAIN pass.records
      BY DEF PreviewInv, Previewable, Fields
    <3> HIDE DEF p
    <3>3. pass' = p \/ pass' = Previews!Idle
      BY <3>1 DEF Previews!Over
    <3> QED BY <3>2, <3>3 DEF PreviewInv, Previewable, Previews!Idle, Fields
  <2> QED BY <2>1, <2>2, <2>3, <2>4, <2>5 DEF Previews!Read
<1>4. Previewable'
  BY <1>1, <1>3 DEF PreviewInv, Previewable
<1>5. Achieved'
  BY <1>3 DEF Achieved
<1> QED BY <1>2, <1>4, <1>5 DEF PreviewInv

\* The pass goes on with the same pull request, with another one, or ends.
LEMMA PassMoves ==
    ASSUME Previewable, NEW place,
           Previews!Goto(place) \/ (place = "turn" /\ Previews!Done) \/ pass' = Previews!Idle
    PROVE  /\ DOMAIN pass' = Fields /\ pass'.at \in {place, "turn", "idle"}
           /\ pass'.existing \subseteq Numbers /\ DOMAIN pass'.records \subseteq Numbers
           /\ pass'.left \subseteq Numbers
           /\ pass'.at \notin {"turn", "idle"} => pass'.left = pass.left
<1>1. CASE Previews!Goto(place)
  BY <1>1 DEF Previews!Goto, Previewable, Fields
<1>2. CASE pass' = Previews!Idle
  BY <1>2 DEF Previews!Idle, Fields
<1>3. CASE Previews!Done
  <2> DEFINE p == [pass EXCEPT !.at = "turn", !.left = @ \ {Previews!Current}]
  <2>1. pass' = Previews!Over(p)
    BY <1>3 DEF Previews!Done
  <2>2. /\ DOMAIN p = Fields /\ p.at = "turn" /\ p.existing = pass.existing /\ p.records = pass.records
        /\ p.left \subseteq pass.left
    BY DEF Previewable, Fields
  <2> HIDE DEF p
  <2>3. pass' = p \/ pass' = Previews!Idle
    BY <2>1 DEF Previews!Over
  <2> QED BY <2>2, <2>3 DEF Previewable, Previews!Idle, Fields
<1> QED BY <1>1, <1>2, <1>3

LEMMA ApplyStep ==
    ASSUME PreviewInv, NEW n \in pass.left, Previews!Apply(n)
    PROVE  PreviewInv'
<1>1. n \in Numbers /\ Previewable /\ Achieved
  BY DEF PreviewInv, Previewable
<1>2. ASSUME pass'.at \notin {"turn", "idle"} => pass'.left = pass.left
      PROVE  pass'.at \notin {"turn", "idle"} => Previews!Current' = Previews!Current
  BY <1>2 DEF Previews!Current
<1>3. CASE Previews!Hide(n)
  <2>1. /\ n = Previews!Current /\ label' = label \ {n} /\ UNCHANGED <<namespace, parts, doomed>>
        /\ Previews!Goto("delete") \/ Previews!Done
    BY <1>3 DEF Previews!Hide, Previews!Turn, Previews!cluster
  <2>2. PICK place \in {"delete", "turn"} : Previews!Goto(place) \/ (place = "turn" /\ Previews!Done)
    BY <2>1
  <2>3. /\ DOMAIN pass' = Fields /\ pass'.at \in {"delete", "turn", "idle"}
        /\ pass'.existing \subseteq Numbers /\ DOMAIN pass'.records \subseteq Numbers
        /\ pass'.left \subseteq Numbers
        /\ pass'.at \notin {"turn", "idle"} => pass'.left = pass.left
    BY <1>1, <2>2, PassMoves
  <2>4. Previewable'
    BY <1>1, <2>1, <2>3 DEF Previewable
  <2>5. Achieved'
    BY <1>2, <2>1, <2>3 DEF Achieved
  <2>6. LabelledIsProvisioned'
    BY <2>1 DEF PreviewInv, LabelledIsProvisioned, Previews!LabelledIsProvisioned, Previews!Provisioned
  <2> QED BY <2>4, <2>5, <2>6 DEF PreviewInv
<1>4. CASE Previews!Delete(n)
  <2>1. /\ pass.at = "delete" /\ n = Previews!Current /\ Previews!Done
        /\ namespace' = [namespace EXCEPT ![n] = IF @ = "none" THEN "none" ELSE "terminating"]
        /\ UNCHANGED <<label, parts, doomed>>
    BY <1>4 DEF Previews!Delete
  <2>2. n \notin label
    BY <1>1, <2>1 DEF Achieved
  <2>3. /\ DOMAIN pass' = Fields /\ pass'.at \in {"turn", "idle"}
        /\ pass'.existing \subseteq Numbers /\ DOMAIN pass'.records \subseteq Numbers
        /\ pass'.left \subseteq Numbers
    BY <1>1, <2>1, PassMoves
  <2>4. namespace' \in [Numbers -> {"none", "active", "terminating"}]
    BY <1>1, <2>1 DEF Previewable
  <2>5. \A m \in Numbers \ {n} : namespace'[m] = namespace[m]
    BY <1>1, <2>1 DEF Previewable
  <2>6. Previewable' /\ Achieved'
    BY <1>1, <2>1, <2>3, <2>4 DEF Previewable, Achieved
  <2>7. LabelledIsProvisioned'
    BY <1>1, <2>1, <2>2, <2>5 DEF PreviewInv, Previewable, LabelledIsProvisioned,
       Previews!LabelledIsProvisioned, Previews!Provisioned
  <2> QED BY <2>6, <2>7 DEF PreviewInv
<1>5. CASE Previews!Ensure(n)
  <2>1. /\ n = Previews!Current /\ Previews!Goto("secret") /\ UNCHANGED <<label, parts, doomed>>
        /\ namespace' = [namespace EXCEPT ![n] = IF @ = "none" THEN "active" ELSE @]
    BY <1>5 DEF Previews!Ensure, Previews!Turn
  <2>2. /\ DOMAIN pass' = Fields /\ pass'.at \in {"secret", "turn", "idle"}
        /\ pass'.existing \subseteq Numbers /\ DOMAIN pass'.records \subseteq Numbers
        /\ pass'.left \subseteq Numbers
        /\ pass'.at \notin {"turn", "idle"} => pass'.left = pass.left
    BY <1>1, <2>1, PassMoves
  <2>3. /\ namespace' \in [Numbers -> {"none", "active", "terminating"}]
        /\ \A m \in Numbers : namespace[m] = "active" => namespace'[m] = "active"
    BY <1>1, <2>1 DEF Previewable
  <2>4. Previewable' /\ Achieved'
    BY <1>1, <1>2, <2>1, <2>2, <2>3 DEF Previewable, Achieved
  <2>5. LabelledIsProvisioned'
    BY <1>1, <2>1, <2>3 DEF PreviewInv, Previewable, LabelledIsProvisioned,
       Previews!LabelledIsProvisioned, Previews!Provisioned
  <2> QED BY <2>4, <2>5 DEF PreviewInv
<1>6. CASE Previews!ProvideSecret(n) \/ Previews!ProvideAccount(n)
  <2>1. PICK part \in {"secret", "account"}, place \in {"account", "mark"} :
          /\ (part = "secret" /\ place = "account") \/ (part = "account" /\ place = "mark")
          /\ pass.at = part /\ n = Previews!Current
          /\ Previews!Writable(n, part)
          /\ parts' = [parts EXCEPT ![n] = @ \cup {part}] /\ Previews!Goto(place)
          /\ UNCHANGED <<label, namespace, doomed>>
    BY <1>6, Zenon DEF Previews!ProvideSecret, Previews!ProvideAccount, Previews!Provide
  <2>2. /\ DOMAIN pass' = Fields /\ pass'.at = place
        /\ pass'.existing \subseteq Numbers /\ DOMAIN pass'.records \subseteq Numbers
        /\ pass'.left = pass.left /\ pass'.left \subseteq Numbers
    BY <1>1, <2>1 DEF Previews!Goto, Previewable, Fields
  <2>3. /\ parts' \in [Numbers -> SUBSET {"secret", "account"}] /\ parts'[n] = parts[n] \cup {part}
        /\ \A m \in Numbers \ {n} : parts'[m] = parts[m]
    BY <1>1, <2>1 DEF Previewable
  <2>4. Previews!Current' = n
    BY <2>1, <2>2 DEF Previews!Current
  <2>5. Previewable'
    BY <1>1, <2>1, <2>2, <2>3 DEF Previewable
  <2>6. Achieved'
    <3>1. part = "account" /\ namespace[n] = "active" => "secret" \in parts[n]
      BY <1>1, <2>1 DEF Achieved
    <3>2. parts[n] \subseteq {"secret", "account"}
      BY <1>1 DEF Previewable
    <3> QED BY <1>1, <2>1, <2>2, <2>3, <2>4, <3>1, <3>2 DEF Achieved
  <2>7. LabelledIsProvisioned'
    BY <1>1, <2>1, <2>3 DEF PreviewInv, Previewable, LabelledIsProvisioned,
       Previews!LabelledIsProvisioned, Previews!Provisioned
  <2> QED BY <2>5, <2>6, <2>7 DEF PreviewInv
<1>7. CASE Previews!Mark(n)
  <2>1. pass.at = "mark" /\ Previews!Goto("show") /\ UNCHANGED <<label, namespace, parts, doomed>>
    BY <1>7 DEF Previews!Mark, Previews!cluster
  <2>2. /\ DOMAIN pass' = Fields /\ pass'.at = "show"
        /\ pass'.existing \subseteq Numbers /\ DOMAIN pass'.records \subseteq Numbers
        /\ pass'.left = pass.left /\ pass'.left \subseteq Numbers
    BY <1>1, <2>1 DEF Previews!Goto, Previewable, Fields
  <2>3. Previews!Current' = Previews!Current
    BY <2>2 DEF Previews!Current
  <2>4. Previewable' /\ Achieved'
    BY <1>1, <2>1, <2>2, <2>3 DEF Previewable, Achieved
  <2>5. LabelledIsProvisioned'
    BY <2>1 DEF PreviewInv, LabelledIsProvisioned, Previews!LabelledIsProvisioned, Previews!Provisioned
  <2> QED BY <2>4, <2>5 DEF PreviewInv
<1>8. CASE Previews!Show(n)
  <2>1. /\ pass.at = "show" /\ n = Previews!Current /\ Previews!Done /\ label' = label \cup {n}
        /\ doomed' = IF namespace[n] = "active" THEN doomed \ {n} ELSE doomed \cup {n}
        /\ UNCHANGED <<namespace, parts>>
    BY <1>8 DEF Previews!Show, Previews!cluster
  <2>2. /\ DOMAIN pass' = Fields /\ pass'.at \in {"turn", "idle"}
        /\ pass'.existing \subseteq Numbers /\ DOMAIN pass'.records \subseteq Numbers
        /\ pass'.left \subseteq Numbers
    BY <1>1, <2>1, PassMoves
  <2>3. Previewable' /\ Achieved'
    BY <1>1, <2>1, <2>2 DEF Previewable, Achieved
  <2>4. namespace[n] = "active" => parts[n] = {"secret", "account"}
    BY <1>1, <2>1 DEF Achieved
  <2>5. LabelledIsProvisioned'
    BY <2>1, <2>4 DEF PreviewInv, LabelledIsProvisioned, Previews!LabelledIsProvisioned, Previews!Provisioned
  <2> QED BY <2>3, <2>5 DEF PreviewInv
<1>9. CASE Previews!Refused(n)
  <2>1. pass' = Previews!Idle /\ UNCHANGED <<label, namespace, parts, doomed>>
    BY <1>9 DEF Previews!Refused, Previews!cluster
  <2>2. Previewable' /\ Achieved'
    BY <1>1, <2>1 DEF Previewable, Achieved, Previews!Idle, Fields
  <2>3. LabelledIsProvisioned'
    BY <2>1 DEF PreviewInv, LabelledIsProvisioned, Previews!LabelledIsProvisioned, Previews!Provisioned
  <2> QED BY <2>2, <2>3 DEF PreviewInv
<1> QED BY <1>3, <1>4, <1>5, <1>6, <1>7, <1>8, <1>9 DEF Previews!Apply

LEMMA PreviewStep ==
    ASSUME Previews!PreviewAssumption, PreviewInv, [Previews!Next]_previewVars
    PROVE  PreviewInv'
<1>1. CASE Previews!Pass
  BY <1>1, ReadStep, ApplyStep DEF Previews!Pass
<1>2. CASE Previews!PassFails
  <2>1. pass' = Previews!Idle /\ UNCHANGED <<label, namespace, parts, doomed>>
    BY <1>2 DEF Previews!PassFails, Previews!cluster
  <2>2. Previewable' /\ Achieved'
    BY <2>1 DEF PreviewInv, Previewable, Achieved, Previews!Idle, Fields
  <2>3. LabelledIsProvisioned'
    BY <2>1 DEF PreviewInv, LabelledIsProvisioned, Previews!LabelledIsProvisioned, Previews!Provisioned
  <2> QED BY <2>2, <2>3 DEF PreviewInv
<1>3. CASE \/ \E n \in Numbers : Previews!GitHubChange(n)
           \/ UNCHANGED previewVars
  <2>1. UNCHANGED <<label, namespace, parts, doomed, pass>>
    BY <1>3 DEF Previews!GitHubChange, Previews!cluster, previewVars
  <2> QED BY <2>1 DEF PreviewInv, Previewable, Achieved, Previews!Current, LabelledIsProvisioned,
             Previews!LabelledIsProvisioned, Previews!Provisioned
<1>4. ASSUME NEW n \in Numbers, Previews!Terminate(n) PROVE PreviewInv'
  <2>1. namespace[n] = "terminating" /\ UNCHANGED <<label, pass, doomed>> /\ Previewable /\ Achieved
    BY <1>4 DEF Previews!Terminate, PreviewInv
  <2>2. /\ namespace' \in [Numbers -> {"none", "active", "terminating"}]
        /\ parts' \in [Numbers -> SUBSET {"secret", "account"}]
        /\ namespace'[n] # "active"
        /\ \A m \in Numbers \ {n} : namespace'[m] = namespace[m] /\ parts'[m] = parts[m]
    BY <1>4, <2>1 DEF Previews!Terminate, Previewable
  <2>3. Previewable'
    BY <2>1, <2>2 DEF Previewable
  <2>4. Achieved'
    BY <2>1, <2>2 DEF Previewable, Achieved, Previews!Current
  <2>5. LabelledIsProvisioned'
    BY <2>1, <2>2 DEF PreviewInv, Previewable, LabelledIsProvisioned, Previews!LabelledIsProvisioned,
       Previews!Provisioned
  <2> QED BY <2>3, <2>4, <2>5 DEF PreviewInv
<1> QED BY <1>1, <1>2, <1>3, <1>4 DEF Previews!Next

\* Theorem: what carries the preview label has its namespace, secret and
\* service account -- or was admitted while its namespace was being deleted --
\* for any pull requests and capacity and wherever a pass stops
\* (scripts/preview-lifecycle-controller.mjs).
THEOREM LabelIsEarned == Previews!Spec => []LabelledIsProvisioned
<1>1. Previews!Init => PreviewInv
  BY PreviewsStart
<1>2. PreviewInv /\ [Previews!Next]_Previews!vars => PreviewInv'
  <2>1. UNCHANGED Previews!vars => UNCHANGED previewVars
    BY DEF Previews!vars, previewVars, Previews!github, Previews!cluster
  <2> QED BY <2>1, MCPreviewAssumption, PreviewStep
<1>3. PreviewInv => LabelledIsProvisioned
  BY DEF PreviewInv
<1> QED BY <1>1, <1>2, <1>3, PTL DEF Previews!Spec

\* Theorem: the composition that the run checks is about both modules: each of
\* its behaviours is one of Startup and one of PreviewLifecycle.
THEOREM BothSidesAreKept == MCFairSpec => Spec /\ Previews!Spec
<1>1. MCInit => Init /\ Previews!Init
  BY DEF MCInit
<1>2. [MCNext]_allVars => [Next]_vars /\ [Previews!Next]_Previews!vars
  <2>1. UNCHANGED previewVars => UNCHANGED Previews!vars
    BY DEF Previews!vars, previewVars, Previews!github, Previews!cluster
  <2> QED BY <2>1 DEF MCNext, Starts, Reconciles, allVars
<1> QED BY <1>1, <1>2, PTL DEF MCFairSpec, Spec, Previews!Spec
=============================================================================
