----------------------------- MODULE JobsProofs -----------------------------
(***************************************************************************)
(* Proofs about Jobs for any number of jobs, processes, hosts and runners. *)
(* The inductive invariant says that a claim is a lease: what a live       *)
(* runner holds is running, owned by its process and held by nobody else,  *)
(* and a process that is not up holds nothing.  The budget of retries      *)
(* needs no lease: it is kept by the rows themselves.                      *)
(***************************************************************************)
EXTENDS Jobs, TLAPS

\* A process that stopped left no runner behind: its claims survive in the
\* rows only.
StoppedHoldNothing == \A r \in Runners : ~Live(r) => batch[r] = {}

LeaseInv ==
    /\ TypeOK
    /\ HeldJobsAreRunning
    /\ ExclusiveExecution
    /\ StoppedHoldNothing

-----------------------------------------------------------------------------
(* Row operations keep rows well-formed and touch running rows only.       *)

\* _fail_running_job returns a row, and leaves every row alone that is not
\* running.
LEMMA FailRunningRow ==
    ASSUME NEW row \in Rows
    PROVE  /\ FailRunning(row) \in Rows
           /\ row.status # "running" => FailRunning(row) = row
           /\ FailRunning(row).status # "completed" \/ row.status = "completed"
  BY DEF FailRunning, Rows, Statuses

\* Failing a set of jobs keeps the table well-formed and leaves alone the jobs
\* outside the set and those that are not running.
LEMMA FailEachRows ==
    ASSUME NEW rows \in [Jobs -> Rows], NEW S
    PROVE  /\ FailEach(rows, S) \in [Jobs -> Rows]
           /\ \A j \in Jobs : j \notin S => FailEach(rows, S)[j] = rows[j]
           /\ \A j \in Jobs : rows[j].status # "running" => FailEach(rows, S)[j] = rows[j]
  BY FailRunningRow DEF FailEach

\* A claim of a claimable row leaves a row that is running and owned.
LEMMA ClaimedRow ==
    ASSUME NEW row \in Rows, NEW p \in Procs, Claimable(row)
    PROVE  /\ Claimed(row, p) \in Rows
           /\ Claimed(row, p).status = "running"
           /\ Claimed(row, p).owner = p
  <1>1. row.attempts \in 0..100 /\ row.limit \in 1..100
    BY DEF Rows
  <1>2. row.attempts + 1 \in 0..100
    BY <1>1 DEF Claimable
  <1> QED
    BY <1>2 DEF Claimed, Rows, Statuses

\* Executions are counted in natural numbers.
LEMMA CountedInType ==
    ASSUME NEW count \in [Jobs -> Nat], NEW S
    PROVE  CountedIn(count, S) \in [Jobs -> Nat]
  BY DEF CountedIn

\* The clock only touches the due flag.
LEMMA DueRow ==
    ASSUME NEW row \in Rows, NEW b \in BOOLEAN
    PROVE  [row EXCEPT !.due = b] \in Rows
  BY DEF Rows

\* Recovery at the head of a listing takes no job from a live runner.
LEMMA RecoveredKeepsHeld ==
    ASSUME LeaseInv, NEW p \in Procs
    PROVE  /\ Recovered(p) \in [Jobs -> Rows]
           /\ \A r \in Runners : Live(r) => \A j \in batch[r] : Recovered(p)[j] = job[j]
           /\ \A j \in Jobs : job[j].status # "running" => Recovered(p)[j] = job[j]
  <1>1. \A r \in Runners : Live(r) => \A j \in batch[r] : j \notin Abandoned(p)
    <2> SUFFICES ASSUME NEW r \in Runners, Live(r), NEW j \in batch[r]
                 PROVE  j \notin Abandoned(p)
      OBVIOUS
    <2>1. ProcOf[r] \in Procs
      BY JobsAssumption
    <2>2. job[j].owner = ProcOf[r] /\ up[job[j].owner] # "down"
      BY DEF LeaseInv, HeldJobsAreRunning, Live
    <2> QED
      BY <2>2 DEF Abandoned, WorkerIsAlive
  <1>2. job \in [Jobs -> Rows] /\ batch \in [Runners -> SUBSET Jobs]
    BY DEF LeaseInv, TypeOK
  <1> QED
    BY <1>1, <1>2, FailEachRows DEF Recovered

-----------------------------------------------------------------------------
(* Initial states and steps.                                               *)

LEMMA InitLease == Init => LeaseInv
  <1> SUFFICES ASSUME Init PROVE LeaseInv
    OBVIOUS
  <1>1. TypeOK
    <2>1. PICK limit \in AttemptLimits :
            job = [j \in Jobs |->
                    [NewRow(limit, TRUE) EXCEPT
                       !.status = IF j \in Historical THEN "running" ELSE "absent",
                       !.attempts = IF j \in Historical THEN 1 ELSE 0]]
      BY DEF Init
    <2>2. limit \in 1..100
      BY JobsAssumption
    <2>3. job \in [Jobs -> Rows]
      <3>1. NewRow(limit, TRUE) \in Rows
        BY <2>2 DEF NewRow, Rows, Statuses
      <3>2. ASSUME NEW j \in Jobs
            PROVE  [NewRow(limit, TRUE) EXCEPT
                       !.status = IF j \in Historical THEN "running" ELSE "absent",
                       !.attempts = IF j \in Historical THEN 1 ELSE 0] \in Rows
        <4>1. (IF j \in Historical THEN "running" ELSE "absent") \in Statuses
          BY DEF Statuses
        <4>2. (IF j \in Historical THEN 1 ELSE 0) \in 0..100
          OBVIOUS
        <4> QED
          BY <3>1, <4>1, <4>2 DEF Rows
      <3> QED
        BY <2>1, <3>2
    <2>4. /\ up \in [Procs -> {"up", "closed", "down"}]
          /\ pc \in [Runners -> {"idle", "running", "provider", "executed", "failing"}]
          /\ todo \in [Runners -> SUBSET Jobs] /\ batch \in [Runners -> SUBSET Jobs]
      BY DEF Init
    <2>5. /\ suspends \in [Runners -> Nat]
          /\ effects \in [Jobs -> Nat]
          /\ partial \in [Jobs -> Nat]
          /\ stops \in Nat
      BY DEF Init
    <2> QED
      BY <2>3, <2>4, <2>5 DEF TypeOK
  <1>2. HeldJobsAreRunning /\ ExclusiveExecution /\ StoppedHoldNothing
    BY DEF Init, HeldJobsAreRunning, ExclusiveExecution, StoppedHoldNothing
  <1> QED
    BY <1>1, <1>2 DEF LeaseInv

\* The part of the invariant that a step has to re-establish when it changes
\* the table and the claims of at most one live runner r: r may take jobs that
\* nobody holds, or give jobs up, and no row that another live runner holds
\* changes.
LEMMA OneRunnerStep ==
    ASSUME LeaseInv, NEW r \in Runners, Live(r), NEW S \in SUBSET Jobs,
           job' \in [Jobs -> Rows], up' = up,
           batch' = [batch EXCEPT ![r] = S],
           \A j \in S : job'[j].status = "running" /\ job'[j].owner = ProcOf[r],
           \A s \in Runners : (s # r /\ Live(s)) =>
              batch[s] \cap S = {} /\ \A j \in batch[s] : job'[j] = job[j]
    PROVE  HeldJobsAreRunning' /\ ExclusiveExecution' /\ StoppedHoldNothing'
  <1> USE DEF LeaseInv, TypeOK
  <1>1. HeldJobsAreRunning'
    BY DEF HeldJobsAreRunning, Live
  <1>2. ExclusiveExecution'
    BY DEF ExclusiveExecution, Live
  <1>3. StoppedHoldNothing'
    BY DEF StoppedHoldNothing, Live
  <1> QED
    BY <1>1, <1>2, <1>3

\* The same for a step in which runners only give jobs up: what a runner of a
\* process that is up still holds afterwards it held before, in a row that did
\* not change.
LEMMA ReleaseStep ==
    ASSUME LeaseInv, batch' \in [Runners -> SUBSET Jobs],
           \A r \in Runners : batch'[r] \subseteq batch[r],
           \A r \in Runners : up'[ProcOf[r]] # "up" => batch'[r] = {},
           \A r \in Runners : \A j \in batch'[r] : job'[j] = job[j]
    PROVE  HeldJobsAreRunning' /\ ExclusiveExecution' /\ StoppedHoldNothing'
  <1>1. \A r \in Runners : ~Live(r) => batch'[r] = {}
    BY DEF LeaseInv, StoppedHoldNothing
  <1>2. HeldJobsAreRunning'
    BY <1>1 DEF LeaseInv, HeldJobsAreRunning
  <1>3. ExclusiveExecution'
    BY <1>1 DEF LeaseInv, ExclusiveExecution
  <1>4. StoppedHoldNothing'
    BY DEF StoppedHoldNothing, Live
  <1> QED
    BY <1>2, <1>3, <1>4

\* With a truthful operator every step preserves the lease invariant.
LEMMA NextLease ==
    ASSUME TrustedOperator
    PROVE  LeaseInv /\ [Next]_vars => LeaseInv'
  <1> SUFFICES ASSUME LeaseInv, [Next]_vars PROVE LeaseInv'
    OBVIOUS
  <1> DEFINE Lease == HeldJobsAreRunning' /\ ExclusiveExecution' /\ StoppedHoldNothing'
  <1>t. /\ job \in [Jobs -> Rows] /\ pc \in [Runners -> {"idle", "running", "provider", "executed", "failing"}]
        /\ up \in [Procs -> {"up", "closed", "down"}]
        /\ todo \in [Runners -> SUBSET Jobs] /\ batch \in [Runners -> SUBSET Jobs]
        /\ suspends \in [Runners -> Nat] /\ effects \in [Jobs -> Nat] /\ partial \in [Jobs -> Nat] /\ stops \in Nat
    BY DEF LeaseInv, TypeOK
  <1>p. \A r \in Runners : ProcOf[r] \in Procs
    BY JobsAssumption
  <1>h. \A r \in Runners : Live(r) => \A j \in batch[r] : job[j].status = "running" /\ job[j].owner = ProcOf[r]
    BY DEF LeaseInv, HeldJobsAreRunning
  <1>x. \A r, s \in Runners : (r # s /\ Live(r) /\ Live(s)) => batch[r] \cap batch[s] = {}
    BY DEF LeaseInv, ExclusiveExecution
  <1>1. ASSUME NEW r \in Runners, ClaimBatch(r) PROVE LeaseInv'
    <2> DEFINE p == ProcOf[r]
               rows == Recovered(p)
    <2>1. PICK S \in Selections(rows) :
            LET mine == {j \in S : Claimable(rows[j])}
            IN  /\ job' = [j \in Jobs |-> IF j \in mine THEN Claimed(rows[j], p) ELSE rows[j]]
                /\ batch' = [batch EXCEPT ![r] = mine]
                /\ pc' = [pc EXCEPT ![r] = IF mine = {} THEN "idle" ELSE "running"]
      BY <1>1 DEF ClaimBatch
    <2> DEFINE mine == {j \in S : Claimable(rows[j])}
    <2>2. mine \in SUBSET Jobs
      BY DEF Selections
    <2>3. /\ rows \in [Jobs -> Rows]
          /\ \A s \in Runners : Live(s) => \A j \in batch[s] : rows[j] = job[j]
      BY <1>p, RecoveredKeepsHeld
    <2>4. \A j \in mine : Claimed(rows[j], p) \in Rows /\ Claimed(rows[j], p).status = "running"
                            /\ Claimed(rows[j], p).owner = p
      BY <2>2, <2>3, <1>p, ClaimedRow
    <2>5. job' \in [Jobs -> Rows]
      BY <2>1, <2>2, <2>3, <2>4
    <2>6. \A s \in Runners : Live(s) => batch[s] \cap mine = {}
      BY <2>2, <2>3, <1>h DEF Claimable
    <2>7. TypeOK'
      <3>1. batch' \in [Runners -> SUBSET Jobs]
        BY <2>1, <2>2, <1>t
      <3>2. pc' \in [Runners -> {"idle", "running", "provider", "executed", "failing"}]
        BY <2>1, <1>t
      <3> QED
        BY <3>1, <3>2, <2>5, <1>1, <1>t DEF ClaimBatch, TypeOK
    <2>8. \A s \in Runners : (s # r /\ Live(s)) => \A j \in batch[s] : job'[j] = job[j]
      BY <2>1, <2>3, <2>6, <1>t
    <2>9. \A j \in mine : job'[j].status = "running" /\ job'[j].owner = ProcOf[r]
      BY <2>1, <2>2, <2>4
    <2>10. Lease
      <3> HIDE DEF mine, rows
      <3>1. up' = up /\ Live(r)
        BY <1>1 DEF ClaimBatch
      <3>2. batch' = [batch EXCEPT ![r] = mine]
        BY <2>1 DEF mine
      <3> QED
        BY <3>1, <3>2, <2>2, <2>5, <2>6, <2>8, <2>9, OneRunnerStep
    <2> QED
      BY <2>7, <2>10 DEF LeaseInv
  <1>2. ASSUME NEW r \in Runners, SuspendBatch(r) \/ ProviderAnswer(r) \/ BatchRaises(r) \/ ExecuteJob(r)
        PROVE  LeaseInv'
    <2>1. job' = job /\ up' = up /\ batch' = batch /\ todo' = todo /\ stops' = stops
      BY <1>2 DEF SuspendBatch, ProviderAnswer, BatchRaises, ExecuteJob
    <2>2. pc' \in [Runners -> {"idle", "running", "provider", "executed", "failing"}]
      BY <1>2, <1>t DEF SuspendBatch, ProviderAnswer, BatchRaises, ExecuteJob
    <2>3. suspends' \in [Runners -> Nat] /\ effects' \in [Jobs -> Nat] /\ partial' \in [Jobs -> Nat]
      <3>1. CASE ExecuteJob(r)
        <4>1. \A S : CountedIn(effects, S) \in [Jobs -> Nat] /\ CountedIn(partial, S) \in [Jobs -> Nat]
          BY <1>t, CountedInType
        <4> QED
          BY <3>1, <4>1, <1>t DEF ExecuteJob
      <3>2. CASE SuspendBatch(r) \/ ProviderAnswer(r) \/ BatchRaises(r)
        BY <3>2, <1>t DEF SuspendBatch, ProviderAnswer, BatchRaises
      <3> QED
        BY <1>2, <3>1, <3>2
    <2>4. TypeOK'
      BY <2>1, <2>2, <2>3, <1>t DEF TypeOK
    <2> QED
      BY <2>1, <2>4 DEF LeaseInv, HeldJobsAreRunning, ExclusiveExecution, StoppedHoldNothing, Live
  <1>3. ASSUME NEW r \in Runners, ExecuteBatch(r) PROVE LeaseInv'
    <2>1. PICK ok \in SUBSET batch[r], cut \in SUBSET batch[r] :
            /\ cut \cap ok = {}
            /\ job' = [j \in Jobs |-> IF j \in ok THEN [job[j] EXCEPT !.status = "completed"]
                                      ELSE IF j \in batch[r] THEN FailRunning(job[j]) ELSE job[j]]
            /\ effects' = CountedIn(effects, ok)
            /\ partial' = CountedIn(partial, cut)
      BY <1>3 DEF ExecuteBatch
    <2>2. \A j \in Jobs : [job[j] EXCEPT !.status = "completed"] \in Rows /\ FailRunning(job[j]) \in Rows
      BY <1>t, FailRunningRow DEF Rows, Statuses
    <2>3. job' \in [Jobs -> Rows]
      BY <2>1, <2>2, <1>t
    <2>4. batch' = [batch EXCEPT ![r] = {}] /\ up' = up /\ Live(r)
      BY <1>3 DEF ExecuteBatch
    <2>5. TypeOK'
      <3>1. effects' \in [Jobs -> Nat] /\ partial' \in [Jobs -> Nat]
        BY <2>1, <1>t, CountedInType
      <3> QED
        BY <3>1, <2>3, <2>4, <1>3, <1>t DEF ExecuteBatch, TypeOK
    <2>6. \A s \in Runners : (s # r /\ Live(s)) => \A j \in batch[s] : job'[j] = job[j]
      BY <2>1, <2>4, <1>t, <1>x
    <2>7. Lease
      <3>1. \A s \in Runners : batch'[s] \subseteq batch[s] /\ (up'[ProcOf[s]] # "up" => batch'[s] = {})
        BY <2>4, <1>t DEF LeaseInv, StoppedHoldNothing, Live
      <3>2. \A s \in Runners : \A j \in batch'[s] : job'[j] = job[j]
        BY <2>4, <2>6, <3>1, <1>t DEF Live
      <3> QED
        BY <2>5, <3>1, <3>2, ReleaseStep DEF TypeOK
    <2> QED
      BY <2>5, <2>7 DEF LeaseInv
  <1>4. ASSUME NEW r \in Runners, ListPending(r) PROVE LeaseInv'
    <2>1. /\ job' = Recovered(ProcOf[r])
          /\ \E S \in Selections(Recovered(ProcOf[r])) : todo' = [todo EXCEPT ![r] = S]
          /\ batch' = batch /\ up' = up
      BY <1>4 DEF ListPending
    <2>2. /\ job' \in [Jobs -> Rows]
          /\ \A s \in Runners : Live(s) => \A j \in batch[s] : job'[j] = job[j]
      BY <2>1, <1>p, RecoveredKeepsHeld
    <2>3. todo' \in [Runners -> SUBSET Jobs]
      BY <2>1, <1>t DEF Selections
    <2>4. TypeOK'
      BY <2>1, <2>2, <2>3, <1>4, <1>t DEF ListPending, TypeOK
    <2>5. \A s \in Runners : up'[ProcOf[s]] # "up" => batch'[s] = {}
      BY <2>1 DEF LeaseInv, StoppedHoldNothing, Live
    <2>6. Lease
      BY <2>1, <2>2, <2>5, <1>t, ReleaseStep DEF Live
    <2> QED
      BY <2>4, <2>6 DEF LeaseInv
  <1>5. ASSUME NEW r \in Runners, ClaimNext(r) PROVE LeaseInv'
    <2>1. PICK j \in todo[r] :
            /\ todo' = [todo EXCEPT ![r] = @ \ {j}]
            /\ IF Claimable(job[j])
               THEN /\ job' = [job EXCEPT ![j] = Claimed(@, ProcOf[r])]
                    /\ batch' = [batch EXCEPT ![r] = {j}]
                    /\ pc' = [pc EXCEPT ![r] = "running"]
               ELSE UNCHANGED <<job, batch, pc>>
      BY <1>5 DEF ClaimNext
    <2>2. j \in Jobs
      BY <1>t
    <2>3. up' = up /\ Live(r) /\ UNCHANGED <<suspends, effects, partial, stops>>
      BY <1>5 DEF ClaimNext
    <2>4. todo' \in [Runners -> SUBSET Jobs]
      BY <2>1, <1>t
    <2>5. CASE ~Claimable(job[j])
      <3>1. TypeOK'
        BY <2>1, <2>3, <2>4, <2>5, <1>t DEF TypeOK
      <3> QED
        BY <2>1, <2>3, <2>5, <3>1 DEF LeaseInv, HeldJobsAreRunning, ExclusiveExecution, StoppedHoldNothing, Live
    <2>6. CASE Claimable(job[j])
      <3>1. /\ Claimed(job[j], ProcOf[r]) \in Rows
            /\ Claimed(job[j], ProcOf[r]).status = "running"
            /\ Claimed(job[j], ProcOf[r]).owner = ProcOf[r]
        BY <2>2, <2>6, <1>t, <1>p, ClaimedRow
      <3>2. job' = [job EXCEPT ![j] = Claimed(job[j], ProcOf[r])] /\ batch' = [batch EXCEPT ![r] = {j}]
            /\ pc' = [pc EXCEPT ![r] = "running"]
        BY <2>1, <2>6
      <3>3. job' \in [Jobs -> Rows]
        BY <3>1, <3>2, <1>t
      <3>4. TypeOK'
        <4>1. batch' \in [Runners -> SUBSET Jobs] /\ pc' \in [Runners -> {"idle", "running", "provider", "executed", "failing"}]
          BY <3>2, <2>2, <1>t
        <4> QED
          BY <4>1, <3>3, <2>3, <2>4, <1>t DEF TypeOK
      <3>5. \A s \in Runners : Live(s) => j \notin batch[s]
        BY <2>6, <1>h DEF Claimable
      <3>6. \A s \in Runners : (s # r /\ Live(s)) => batch[s] \cap {j} = {} /\ \A k \in batch[s] : job'[k] = job[k]
        BY <3>2, <3>5, <1>t
      <3>7. \A k \in {j} : job'[k].status = "running" /\ job'[k].owner = ProcOf[r]
        BY <3>1, <3>2, <2>2, <1>t
      <3>8. Lease
        <4>1. {j} \in SUBSET Jobs /\ up' = up /\ batch' = [batch EXCEPT ![r] = {j}] /\ Live(r)
          BY <2>2, <2>3, <3>2
        <4> QED
          BY <4>1, <3>3, <3>6, <3>7, OneRunnerStep
      <3> QED
        BY <3>4, <3>8 DEF LeaseInv
    <2> QED
      BY <2>5, <2>6
  <1>6. ASSUME NEW r \in Runners, CompleteJob(r) PROVE LeaseInv'
    <2>1. /\ job' = [j \in Jobs |-> IF j \in batch[r] THEN [job[j] EXCEPT !.status = "completed"] ELSE job[j]]
          /\ batch' = [batch EXCEPT ![r] = {}] /\ up' = up /\ Live(r)
      BY <1>6 DEF CompleteJob
    <2>2. \A j \in Jobs : [job[j] EXCEPT !.status = "completed"] \in Rows
      BY <1>t DEF Rows, Statuses
    <2>3. job' \in [Jobs -> Rows]
      BY <2>1, <2>2, <1>t
    <2>4. TypeOK'
      BY <2>1, <2>3, <1>6, <1>t DEF CompleteJob, TypeOK
    <2>5. \A s \in Runners : (s # r /\ Live(s)) => \A j \in batch[s] : job'[j] = job[j]
      BY <2>1, <1>t, <1>x
    <2>6. Lease
      <3>1. \A s \in Runners : batch'[s] \subseteq batch[s] /\ (up'[ProcOf[s]] # "up" => batch'[s] = {})
        BY <2>1, <1>t DEF LeaseInv, StoppedHoldNothing, Live
      <3>2. \A s \in Runners : \A j \in batch'[s] : job'[j] = job[j]
        BY <2>1, <2>5, <3>1, <1>t DEF Live
      <3> QED
        BY <2>4, <3>1, <3>2, ReleaseStep DEF TypeOK
    <2> QED
      BY <2>4, <2>6 DEF LeaseInv
  <1>7. ASSUME NEW r \in Runners, FailOne(r) PROVE LeaseInv'
    <2>1. PICK j \in batch[r] :
            /\ job' = [job EXCEPT ![j] = FailRunning(@)]
            /\ batch' = [batch EXCEPT ![r] = @ \ {j}]
            /\ pc' = [pc EXCEPT ![r] = IF batch[r] = {j} THEN "idle" ELSE "failing"]
      BY <1>7 DEF FailOne
    <2>2. up' = up /\ Live(r) /\ UNCHANGED <<todo, suspends, effects, partial, stops>>
      BY <1>7 DEF FailOne
    <2>3. job' \in [Jobs -> Rows]
      BY <2>1, <1>t, FailRunningRow
    <2>4. TypeOK'
      BY <2>1, <2>2, <2>3, <1>t DEF TypeOK
    <2>5. \A s \in Runners : (s # r /\ Live(s)) => \A k \in batch[s] : job'[k] = job[k]
      BY <2>1, <2>2, <1>t, <1>x
    <2>6. \A k \in batch[r] \ {j} : job'[k] = job[k]
      BY <2>1, <1>t
    <2>7. \A s \in Runners : batch'[s] \subseteq batch[s] /\ (up'[ProcOf[s]] # "up" => batch'[s] = {})
      BY <2>1, <2>2, <1>t DEF LeaseInv, StoppedHoldNothing, Live
    <2>8. \A s \in Runners : \A k \in batch'[s] : job'[k] = job[k]
      BY <2>1, <2>5, <2>6, <2>7, <1>t, <2>2 DEF Live
    <2>9. Lease
      BY <2>4, <2>7, <2>8, ReleaseStep DEF TypeOK
    <2> QED
      BY <2>4, <2>9 DEF LeaseInv
  <1>8. ASSUME NEW j \in Jobs, Enqueue(j) \/ BecomeDue(j) PROVE LeaseInv'
    <2>1. /\ UNCHANGED <<up, pc, todo, batch, suspends, effects, partial, stops>>
          /\ job[j].status # "running"
          /\ \A k \in Jobs : k # j => job'[k] = job[k]
      BY <1>8, <1>t DEF Enqueue, BecomeDue
    <2>2. job' \in [Jobs -> Rows]
      <3>1. CASE Enqueue(j)
        BY <3>1, <1>t, JobsAssumption DEF Enqueue, NewRow, Rows, Statuses
      <3>2. CASE BecomeDue(j)
        <4>1. [job[j] EXCEPT !.due = TRUE] \in Rows
          <5>1. job[j] \in Rows /\ TRUE \in BOOLEAN
            BY <1>t
          <5> QED
            BY <5>1, DueRow
        <4> QED
          BY <3>2, <4>1, <1>t DEF BecomeDue
      <3> QED
        BY <1>8, <3>1, <3>2
    <2>3. TypeOK'
      BY <2>1, <2>2, <1>t DEF TypeOK
    <2>4. \A r \in Runners : up'[ProcOf[r]] # "up" => batch'[r] = {}
      BY <2>1 DEF LeaseInv, StoppedHoldNothing, Live
    <2>5. \A r \in Runners : \A k \in batch'[r] : job'[k] = job[k]
      BY <2>1, <2>4, <1>h, <1>t DEF Live
    <2>6. Lease
      BY <2>1, <2>3, <2>4, <2>5, ReleaseStep DEF TypeOK
    <2> QED
      BY <2>3, <2>6 DEF LeaseInv
  <1>9. ASSUME NEW j \in Jobs, NEW p \in Procs, NEW confirm \in BOOLEAN, RecoverJob(p, j, confirm)
        PROVE  LeaseInv'
    <2>1. /\ UNCHANGED <<up, pc, todo, batch, suspends, effects, partial, stops>>
          /\ job' = [job EXCEPT ![j] = FailRunning(@)]
          /\ job[j].status = "running"
          /\ WorkerIsAlive(p, job[j].owner) # "alive"
          /\ WorkerIsAlive(p, job[j].owner) = "unknown" => confirm
      BY <1>9 DEF RecoverJob
    <2>2. job' \in [Jobs -> Rows]
      BY <2>1, <1>t, FailRunningRow
    <2>3. TypeOK'
      BY <2>1, <2>2, <1>t DEF TypeOK
    <2>4. \A r \in Runners : Live(r) => j \notin batch[r]
      <3>1. CASE confirm
        BY <3>1, <1>9 DEF RecoverJob
      <3>2. CASE ~confirm
        <4>1. WorkerIsAlive(p, job[j].owner) \notin {"alive", "unknown"}
          BY <2>1, <3>2
        <4>2. up[job[j].owner] = "down"
          BY <4>1 DEF WorkerIsAlive
        <4> QED
          BY <4>2, <1>h DEF Live
      <3> QED
        BY <3>1, <3>2
    <2>5. \A r \in Runners : up'[ProcOf[r]] # "up" => batch'[r] = {}
      BY <2>1 DEF LeaseInv, StoppedHoldNothing, Live
    <2>6. \A r \in Runners : \A k \in batch'[r] : job'[k] = job[k]
      BY <2>1, <2>4, <2>5, <1>t DEF Live
    <2>7. Lease
      BY <2>1, <2>3, <2>5, <2>6, ReleaseStep DEF TypeOK
    <2> QED
      BY <2>3, <2>7 DEF LeaseInv
  <1>10. ASSUME NEW p \in Procs, Close(p) \/ Crash(p) PROVE LeaseInv'
    <2>1. /\ up' = [up EXCEPT ![p] = IF Close(p) THEN "closed" ELSE "down"] \/ up' = [up EXCEPT ![p] = "down"]
          /\ DropRunners(p)
          /\ UNCHANGED <<suspends, effects>> /\ stops' \in Nat
          /\ \E S : partial' = CountedIn(partial, S) \/ partial' = partial
      BY <1>10, <1>t DEF Close, Crash
    <2>2. /\ batch' = [r \in Runners |-> IF ProcOf[r] = p THEN {} ELSE batch[r]]
          /\ pc' = [r \in Runners |-> IF ProcOf[r] = p THEN "idle" ELSE pc[r]]
          /\ todo' = [r \in Runners |-> IF ProcOf[r] = p THEN {} ELSE todo[r]]
      BY <2>1 DEF DropRunners
    <2>3. job' \in [Jobs -> Rows] /\ \A r \in Runners : (ProcOf[r] # p /\ Live(r)) => \A k \in batch[r] : job'[k] = job[k]
      <3>1. CASE Crash(p)
        BY <3>1, <1>t DEF Crash
      <3>2. CASE Close(p)
        <4>1. job' = FailEach(job, UNION {batch[r] : r \in RunnersOf(p)}) /\ up[p] = "up"
          BY <3>2 DEF Close
        <4>2. \A s \in Runners : (ProcOf[s] # p /\ Live(s)) =>
                 \A k \in batch[s] : k \notin UNION {batch[r] : r \in RunnersOf(p)}
          BY <4>1, <1>x DEF RunnersOf, Live
        <4> QED
          BY <4>1, <4>2, <1>t, FailEachRows
      <3> QED
        BY <1>10, <3>1, <3>2
    <2>4. TypeOK'
      <3>1. up' \in [Procs -> {"up", "closed", "down"}]
        BY <2>1, <1>t
      <3>2. /\ batch' \in [Runners -> SUBSET Jobs] /\ todo' \in [Runners -> SUBSET Jobs]
            /\ pc' \in [Runners -> {"idle", "running", "provider", "executed", "failing"}]
        BY <2>2, <1>t
      <3>3. partial' \in [Jobs -> Nat]
        BY <2>1, <1>t, CountedInType
      <3> QED
        BY <3>1, <3>2, <3>3, <2>1, <2>3, <1>t DEF TypeOK
    <2>5. \A q \in Procs : q # p => up'[q] = up[q]
      BY <2>1, <1>t
    <2>6. \A r \in Runners : up'[ProcOf[r]] # "up" => batch'[r] = {}
      BY <2>2, <2>5, <1>p DEF LeaseInv, StoppedHoldNothing, Live
    <2>7. \A r \in Runners : \A k \in batch'[r] : job'[k] = job[k]
      BY <2>2, <2>3 DEF LeaseInv, StoppedHoldNothing
    <2>8. Lease
      BY <2>2, <2>4, <2>6, <2>7, ReleaseStep DEF TypeOK
    <2> QED
      BY <2>4, <2>8 DEF LeaseInv
  <1>11. ASSUME NEW p \in Procs, Restart(p) PROVE LeaseInv'
    <2>1. up' = [up EXCEPT ![p] = "up"] /\ UNCHANGED <<job, pc, todo, batch, suspends, effects, partial, stops>>
      BY <1>11 DEF Restart
    <2>2. TypeOK'
      BY <2>1, <1>t DEF TypeOK
    <2>3. \A r \in Runners : up'[ProcOf[r]] # "up" => batch'[r] = {}
      BY <2>1, <1>t, <1>p DEF LeaseInv, StoppedHoldNothing, Live
    <2>4. Lease
      BY <2>1, <2>3, <1>t, ReleaseStep
    <2> QED
      BY <2>2, <2>4 DEF LeaseInv
  <1>12. CASE UNCHANGED vars
    BY <1>12 DEF vars, LeaseInv, TypeOK, HeldJobsAreRunning, ExclusiveExecution, StoppedHoldNothing, Live
  <1> QED
    BY <1>1, <1>2, <1>3, <1>4, <1>5, <1>6, <1>7, <1>8, <1>9, <1>10, <1>11, <1>12
       DEF Next, RunnerStep, JobStep, ProcStep

-----------------------------------------------------------------------------
(* Theorems.                                                               *)

\* With a truthful operator a claim is an exclusive lease: no two live runners
\* hold one job and nothing takes a job from a live runner.
THEOREM LeaseSafety ==
    ASSUME TrustedOperator
    PROVE  Spec => [](TypeOK /\ HeldJobsAreRunning /\ ExclusiveExecution)
  <1>1. LeaseInv => TypeOK /\ HeldJobsAreRunning /\ ExclusiveExecution
    BY DEF LeaseInv
  <1> QED
    BY InitLease, NextLease, <1>1, PTL DEF Spec

\* A step from a state in which the leases hold leaves completed and failed
\* jobs alone, the unguarded completing UPDATE included.
LEMMA TerminalStep ==
    LeaseInv /\ [Next]_vars =>
      [\A j \in Jobs : job[j].status \in Terminal => job'[j].status = job[j].status]_vars
  <1> DEFINE Keep == \A j \in Jobs : job[j].status \in Terminal => job'[j].status = job[j].status
  <1> SUFFICES ASSUME LeaseInv, Next PROVE Keep
    OBVIOUS
  <1>t. job \in [Jobs -> Rows]
    BY DEF LeaseInv, TypeOK
  <1>1. ASSUME NEW r \in Runners, ClaimBatch(r) PROVE Keep
    <2>1. \A j \in Jobs : job[j].status # "running" => Recovered(ProcOf[r])[j] = job[j]
      BY JobsAssumption, RecoveredKeepsHeld
    <2> QED
      BY <1>1, <2>1 DEF ClaimBatch, Claimable, Terminal
  <1>2. ASSUME NEW r \in Runners, ExecuteBatch(r) PROVE Keep
    BY <1>2, <1>t DEF ExecuteBatch, Terminal
  <1>3. ASSUME NEW r \in Runners, ListPending(r) PROVE Keep
    BY <1>3, JobsAssumption, RecoveredKeepsHeld DEF ListPending, Terminal
  <1>4. ASSUME NEW r \in Runners, ClaimNext(r) PROVE Keep
    BY <1>4, <1>t DEF ClaimNext, Claimable, Terminal
  <1>5. ASSUME NEW r \in Runners, CompleteJob(r) PROVE Keep
    BY <1>5, <1>t DEF CompleteJob, Terminal, LeaseInv, HeldJobsAreRunning
  <1>6. ASSUME NEW r \in Runners, FailOne(r) PROVE Keep
    BY <1>6, <1>t, FailRunningRow DEF FailOne, Terminal
  <1>7. ASSUME NEW r \in Runners, SuspendBatch(r) \/ ProviderAnswer(r) \/ BatchRaises(r) \/ ExecuteJob(r)
        PROVE  Keep
    BY <1>7 DEF SuspendBatch, ProviderAnswer, BatchRaises, ExecuteJob
  <1>8. ASSUME NEW k \in Jobs, JobStep(k) PROVE Keep
    BY <1>8, <1>t DEF JobStep, Enqueue, BecomeDue, RecoverJob, Terminal
  <1>9. ASSUME NEW p \in Procs, ProcStep(p) PROVE Keep
    <2>1. CASE Close(p)
      BY <2>1, <1>t, FailEachRows DEF Close, Terminal
    <2>2. CASE Crash(p) \/ Restart(p)
      BY <2>2 DEF Crash, Restart
    <2> QED
      BY <1>9, <2>1, <2>2 DEF ProcStep
  <1> QED
    BY <1>1, <1>2, <1>3, <1>4, <1>5, <1>6, <1>7, <1>8, <1>9 DEF Next, RunnerStep

\* With a truthful operator a completed or failed job keeps its status.
THEOREM TerminalSafety ==
    ASSUME TrustedOperator
    PROVE  Spec => TerminalForever
  BY InitLease, NextLease, TerminalStep, PTL DEF Spec, TerminalForever

-----------------------------------------------------------------------------
(* Services alone, whatever an operator confirms.  A claim is no lease any  *)
(* more: another runner may come to hold, or fail, a job that a batch still *)
(* names.  What is left is that every batch tests its rows again in the     *)
(* transaction that executes them, so that a row completes exactly when its *)
(* effects are committed.                                                   *)

\* Only a library runner is ever between the execution and the completion.
NoneBetween == \A r \in Runners : pc[r] # "executed"

\* What the row of a job says of its executions: the attempts count them all,
\* with one more for the execution a runner is at.
Accounted(row, returned, raised) ==
    /\ returned = IF row.status = "completed" THEN 1 ELSE 0
    /\ returned + raised <= row.attempts
    /\ row.status = "running" => raised < row.attempts
    /\ row.status = "absent" => row.attempts = 0

EffectsInv ==
    /\ job \in [Jobs -> Rows]
    /\ pc \in [Runners -> {"idle", "running", "provider", "executed", "failing"}]
    /\ batch \in [Runners -> SUBSET Jobs]
    /\ effects \in [Jobs -> Nat]
    /\ partial \in [Jobs -> Nat]
    /\ NoneBetween
    /\ \A j \in Jobs : Accounted(job[j], effects[j], partial[j])

\* An attempt that fails may leave one part behind; one that completes commits
\* the whole; a claim makes room for the next.
LEMMA RowAccounts ==
    ASSUME NEW row \in Rows, NEW e \in Nat, NEW x \in Nat, Accounted(row, e, x)
    PROVE  /\ Accounted(FailRunning(row), e, x)
           /\ row.status = "running" => Accounted(FailRunning(row), e, x + 1)
           /\ row.status = "running" => Accounted([row EXCEPT !.status = "completed"], e + 1, x)
           /\ Accounted([row EXCEPT !.due = TRUE], e, x)
           /\ \A p \in Procs : Claimable(row) => Accounted(Claimed(row, p), e, x)
  <1>t. row.attempts \in Nat /\ row.limit \in Nat
    BY DEF Rows
  <1>1. ASSUME row.status = "running"
        PROVE  /\ FailRunning(row).status \in {"failed", "pending"}
               /\ FailRunning(row).attempts = row.attempts
    BY <1>1 DEF FailRunning, Rows
  <1>2. row.status # "running" => FailRunning(row) = row
    BY DEF FailRunning
  <1>3. Accounted(FailRunning(row), e, x)
    BY <1>t, <1>1, <1>2 DEF Accounted
  <1>4. row.status = "running" => Accounted(FailRunning(row), e, x + 1)
    BY <1>t, <1>1 DEF Accounted
  <1>5. row.status = "running" => Accounted([row EXCEPT !.status = "completed"], e + 1, x)
    BY <1>t DEF Accounted, Rows
  <1>6. Accounted([row EXCEPT !.due = TRUE], e, x)
    BY <1>t DEF Accounted, Rows
  <1>7. ASSUME NEW p \in Procs, Claimable(row)
        PROVE  Accounted(Claimed(row, p), e, x)
    <2>1. Claimed(row, p).status = "running" /\ Claimed(row, p).attempts = row.attempts + 1
      BY DEF Claimed, Rows
    <2> QED
      BY <1>t, <1>7, <2>1 DEF Accounted, Claimable
  <1> QED
    BY <1>3, <1>4, <1>5, <1>6, <1>7

\* Failing jobs keeps the account of each, and re-opens none that is not
\* running.
LEMMA FailEachAccounts ==
    ASSUME EffectsInv, NEW S
    PROVE  /\ FailEach(job, S) \in [Jobs -> Rows]
           /\ \A j \in Jobs : job[j].status # "running" => FailEach(job, S)[j] = job[j]
           /\ \A j \in Jobs : Accounted(FailEach(job, S)[j], effects[j], partial[j])
  BY FailRunningRow, RowAccounts DEF FailEach, EffectsInv

LEMMA InitEffects == Init => EffectsInv
  <1> SUFFICES ASSUME Init PROVE EffectsInv
    OBVIOUS
  <1>1. TypeOK
    BY InitLease DEF LeaseInv
  <1>2. PICK limit \in AttemptLimits :
          job = [j \in Jobs |->
                  [NewRow(limit, TRUE) EXCEPT
                     !.status = IF j \in Historical THEN "running" ELSE "absent",
                     !.attempts = IF j \in Historical THEN 1 ELSE 0]]
    BY DEF Init
  <1>3. NoneBetween /\ \A j \in Jobs : effects[j] = 0 /\ partial[j] = 0
    BY DEF Init, NoneBetween
  <1>4. ASSUME NEW j \in Jobs PROVE Accounted(job[j], effects[j], partial[j])
    <2>1. /\ job[j].status = IF j \in Historical THEN "running" ELSE "absent"
          /\ job[j].attempts = IF j \in Historical THEN 1 ELSE 0
      BY <1>2 DEF NewRow
    <2> QED
      BY <1>3, <2>1 DEF Accounted
  <1> QED
    BY <1>1, <1>3, <1>4 DEF TypeOK, EffectsInv

\* Steps that commit nothing of any job.
LEMMA QuietStep ==
    ASSUME EffectsInv,
           job' \in [Jobs -> Rows],
           pc' \in [Runners -> {"idle", "running", "provider", "executed", "failing"}],
           batch' \in [Runners -> SUBSET Jobs],
           NoneBetween',
           effects' = effects, partial' = partial,
           \A j \in Jobs : Accounted(job'[j], effects[j], partial[j])
    PROVE  EffectsInv'
  <1>1. effects' \in [Jobs -> Nat] /\ partial' \in [Jobs -> Nat]
    BY DEF EffectsInv
  <1>2. \A j \in Jobs : Accounted(job'[j], effects'[j], partial'[j])
    OBVIOUS
  <1>3. EffectsInv' = /\ job' \in [Jobs -> Rows]
                      /\ pc' \in [Runners -> {"idle", "running", "provider", "executed", "failing"}]
                      /\ batch' \in [Runners -> SUBSET Jobs]
                      /\ effects' \in [Jobs -> Nat]
                      /\ partial' \in [Jobs -> Nat]
                      /\ NoneBetween'
                      /\ \A j \in Jobs : Accounted(job'[j], effects'[j], partial'[j])
    BY DEF EffectsInv, Accounted
  <1> QED
    BY <1>1, <1>2, <1>3

\* Every step of services keeps the accounts of the jobs, and leaves the
\* jobs alone that completed or failed for good.
LEMMA NextEffects ==
    ASSUME Runners = ServiceRunners, EffectsInv, [Next]_vars
    PROVE  /\ EffectsInv'
           /\ \A j \in Jobs : job[j].status \in Terminal => job'[j].status = job[j].status
  <1> DEFINE PCs == {"idle", "running", "provider", "executed", "failing"}
             Keep == \A j \in Jobs : job[j].status \in Terminal => job'[j].status = job[j].status
  <1>t. /\ job \in [Jobs -> Rows] /\ pc \in [Runners -> PCs]
        /\ batch \in [Runners -> SUBSET Jobs] /\ effects \in [Jobs -> Nat]
        /\ partial \in [Jobs -> Nat]
        /\ NoneBetween
    BY DEF EffectsInv
  <1>a. \A j \in Jobs : Accounted(job[j], effects[j], partial[j])
    BY DEF EffectsInv
  <1>p. \A r \in Runners : ProcOf[r] \in Procs
    BY JobsAssumption
  <1>1. ASSUME NEW r \in Runners, ClaimBatch(r) PROVE EffectsInv' /\ Keep
    <2> DEFINE p == ProcOf[r]
               rows == Recovered(p)
    <2>1. PICK S \in Selections(rows) :
            LET mine == {j \in S : Claimable(rows[j])}
            IN  /\ job' = [j \in Jobs |-> IF j \in mine THEN Claimed(rows[j], p) ELSE rows[j]]
                /\ batch' = [batch EXCEPT ![r] = mine]
                /\ pc' = [pc EXCEPT ![r] = IF mine = {} THEN "idle" ELSE "running"]
      BY <1>1 DEF ClaimBatch
    <2> DEFINE mine == {j \in S : Claimable(rows[j])}
    <2>2. mine \in SUBSET Jobs /\ \A j \in mine : Claimable(rows[j])
      BY DEF Selections
    <2>3. /\ rows \in [Jobs -> Rows]
          /\ \A j \in Jobs : job[j].status # "running" => rows[j] = job[j]
          /\ \A j \in Jobs : Accounted(rows[j], effects[j], partial[j])
      BY FailEachAccounts DEF Recovered
    <2>4. \A j \in mine : /\ Claimed(rows[j], p) \in Rows
                          /\ rows[j].status = "pending"
                          /\ Accounted(Claimed(rows[j], p), effects[j], partial[j])
      <3> SUFFICES ASSUME NEW j \in mine
                   PROVE  /\ Claimed(rows[j], p) \in Rows
                          /\ rows[j].status = "pending"
                          /\ Accounted(Claimed(rows[j], p), effects[j], partial[j])
        OBVIOUS
      <3>1. j \in Jobs /\ Claimable(rows[j]) /\ rows[j] \in Rows /\ p \in Procs
        BY <2>2, <2>3, <1>p
      <3> HIDE DEF mine, rows, p
      <3>2. Claimed(rows[j], p) \in Rows /\ rows[j].status = "pending"
        BY <3>1, ClaimedRow DEF Claimable
      <3>3. effects[j] \in Nat /\ partial[j] \in Nat /\ Accounted(rows[j], effects[j], partial[j])
        BY <3>1, <2>3, <1>t
      <3>4. Accounted(Claimed(rows[j], p), effects[j], partial[j])
        BY <3>1, <3>3, RowAccounts
      <3> QED
        BY <3>2, <3>4
    <2>5. /\ job' = [j \in Jobs |-> IF j \in mine THEN Claimed(rows[j], p) ELSE rows[j]]
          /\ batch' = [batch EXCEPT ![r] = mine]
          /\ pc' = [pc EXCEPT ![r] = IF mine = {} THEN "idle" ELSE "running"]
      BY <2>1
    <2> HIDE DEF mine, rows
    <2>6. job' \in [Jobs -> Rows]
      BY <2>2, <2>3, <2>4, <2>5
    <2>7. batch' \in [Runners -> SUBSET Jobs] /\ pc' \in [Runners -> PCs] /\ NoneBetween'
      BY <2>2, <2>5, <1>t DEF NoneBetween
    <2>8. \A j \in Jobs : Accounted(job'[j], effects[j], partial[j])
      <3> SUFFICES ASSUME NEW j \in Jobs PROVE Accounted(job'[j], effects[j], partial[j])
        OBVIOUS
      <3>1. CASE j \in mine
        BY <3>1, <2>4, <2>5
      <3>2. CASE j \notin mine
        BY <3>2, <2>3, <2>5
      <3> QED
        BY <3>1, <3>2
    <2>9. Keep
      <3> SUFFICES ASSUME NEW j \in Jobs, job[j].status \in Terminal
                   PROVE  job'[j].status = job[j].status
        OBVIOUS
      <3>1. rows[j] = job[j] /\ job[j].status # "pending"
        BY <2>3 DEF Terminal
      <3>2. j \notin mine
        BY <3>1, <2>4
      <3> QED
        BY <3>1, <3>2, <2>5
    <2>10. effects' = effects /\ partial' = partial
      BY <1>1 DEF ClaimBatch
    <2> QED
      BY <2>6, <2>7, <2>8, <2>9, <2>10, QuietStep
  <1>2. ASSUME NEW r \in Runners, SuspendBatch(r) \/ ProviderAnswer(r) \/ BatchRaises(r)
        PROVE  EffectsInv' /\ Keep
    <2>1. UNCHANGED <<job, batch, effects, partial>>
      BY <1>2 DEF SuspendBatch, ProviderAnswer, BatchRaises
    <2>2. pc' \in [Runners -> PCs] /\ NoneBetween'
      BY <1>2, <1>t DEF SuspendBatch, ProviderAnswer, BatchRaises, NoneBetween
    <2> QED
      BY <2>1, <2>2, <1>t, <1>a, QuietStep
  <1>3. ASSUME NEW r \in Runners, ExecuteBatch(r) PROVE EffectsInv' /\ Keep
    <2>1. PICK ok \in SUBSET batch[r], cut \in SUBSET batch[r] :
            /\ cut \cap ok = {}
            /\ job' = [j \in Jobs |-> IF j \in ok THEN [job[j] EXCEPT !.status = "completed"]
                                      ELSE IF j \in batch[r] THEN FailRunning(job[j]) ELSE job[j]]
            /\ effects' = CountedIn(effects, ok)
            /\ partial' = CountedIn(partial, cut)
      BY <1>3 DEF ExecuteBatch
    <2>2. \A j \in Jobs : [job[j] EXCEPT !.status = "completed"] \in Rows /\ FailRunning(job[j]) \in Rows
      BY <1>t, FailRunningRow DEF Rows, Statuses
    <2>3. job' \in [Jobs -> Rows]
      BY <2>1, <2>2, <1>t
    <2>4. batch' \in [Runners -> SUBSET Jobs] /\ pc' \in [Runners -> PCs] /\ NoneBetween'
      BY <1>3, <1>t DEF ExecuteBatch, NoneBetween
    <2>5. \A j \in batch[r] : job[j].status = "running"
      BY <1>3 DEF ExecuteBatch
    <2>6. effects' \in [Jobs -> Nat] /\ partial' \in [Jobs -> Nat]
      BY <2>1, <1>t, CountedInType
    <2>7. ASSUME NEW j \in Jobs PROVE Accounted(job'[j], effects'[j], partial'[j])
      <3>1. /\ effects'[j] = IF j \in ok THEN effects[j] + 1 ELSE effects[j]
            /\ partial'[j] = IF j \in cut THEN partial[j] + 1 ELSE partial[j]
        BY <2>1 DEF CountedIn
      <3>2. /\ job[j] \in Rows /\ effects[j] \in Nat /\ partial[j] \in Nat
            /\ Accounted(job[j], effects[j], partial[j])
        BY <1>t, <1>a
      <3>3. CASE j \in ok
        <4>1. job'[j] = [job[j] EXCEPT !.status = "completed"] /\ j \notin cut /\ job[j].status = "running"
          BY <2>1, <2>5, <3>3
        <4>2. Accounted([job[j] EXCEPT !.status = "completed"], effects[j] + 1, partial[j])
          BY <3>2, <4>1, RowAccounts
        <4> QED
          BY <3>1, <3>3, <4>1, <4>2
      <3>4. CASE j \in cut
        <4>1. job'[j] = FailRunning(job[j]) /\ j \notin ok /\ job[j].status = "running"
          BY <2>1, <2>5, <3>4
        <4> QED
          BY <3>1, <3>2, <3>4, <4>1, RowAccounts
      <3>5. CASE j \notin ok /\ j \notin cut
        <4>1. job'[j] \in {FailRunning(job[j]), job[j]}
          BY <2>1, <3>5
        <4> QED
          BY <3>1, <3>2, <3>5, <4>1, RowAccounts
      <3> QED
        BY <3>3, <3>4, <3>5
    <2>8. Keep
      BY <2>1, <2>5, <1>t DEF Terminal
    <2> QED
      BY <2>3, <2>4, <2>6, <2>7, <2>8 DEF EffectsInv
  <1>4. ASSUME NEW r \in Runners, FailOne(r) PROVE EffectsInv' /\ Keep
    <2>1. PICK j \in batch[r] :
            /\ job' = [job EXCEPT ![j] = FailRunning(@)]
            /\ batch' = [batch EXCEPT ![r] = @ \ {j}]
            /\ pc' = [pc EXCEPT ![r] = IF batch[r] = {j} THEN "idle" ELSE "failing"]
      BY <1>4 DEF FailOne
    <2>2. job' \in [Jobs -> Rows] /\ \A k \in Jobs : Accounted(job'[k], effects[k], partial[k])
      BY <2>1, <1>t, <1>a, FailRunningRow, RowAccounts
    <2>3. batch' \in [Runners -> SUBSET Jobs] /\ pc' \in [Runners -> PCs] /\ NoneBetween'
      BY <2>1, <1>t DEF NoneBetween
    <2>4. Keep
      BY <2>1, <1>t, FailRunningRow DEF Terminal
    <2>5. effects' = effects /\ partial' = partial
      BY <1>4 DEF FailOne
    <2> QED
      BY <2>2, <2>3, <2>4, <2>5, QuietStep
  <1>5. ASSUME NEW r \in Runners, ListPending(r) \/ ClaimNext(r) \/ ExecuteJob(r) \/ CompleteJob(r)
        PROVE  EffectsInv' /\ Keep
    BY <1>5, <1>t DEF ListPending, ClaimNext, ExecuteJob, CompleteJob, NoneBetween
  <1>6. ASSUME NEW j \in Jobs, JobStep(j) PROVE EffectsInv' /\ Keep
    <2>1. UNCHANGED <<pc, batch, effects, partial>>
      BY <1>6 DEF JobStep, Enqueue, BecomeDue, RecoverJob
    <2>2. CASE Enqueue(j)
      <3>1. PICK limit \in AttemptLimits, due \in BOOLEAN : job' = [job EXCEPT ![j] = NewRow(limit, due)]
        BY <2>2 DEF Enqueue
      <3>2. /\ NewRow(limit, due) \in Rows /\ NewRow(limit, due).status = "pending"
            /\ NewRow(limit, due).attempts = 0
        BY JobsAssumption DEF NewRow, Rows, Statuses
      <3>3. job[j].status = "absent"
        BY <2>2 DEF Enqueue
      <3>4. Accounted(NewRow(limit, due), effects[j], partial[j])
        <4>1. Accounted(job[j], effects[j], partial[j]) /\ effects[j] \in Nat /\ partial[j] \in Nat
          BY <1>a, <1>t
        <4> QED
          BY <3>2, <3>3, <4>1 DEF Accounted
      <3>5. job' \in [Jobs -> Rows] /\ Keep
        BY <3>1, <3>2, <3>3, <1>t DEF Terminal
      <3>6. \A k \in Jobs : Accounted(job'[k], effects[k], partial[k])
        BY <3>1, <3>4, <1>a, <1>t
      <3> QED
        BY <2>1, <3>5, <3>6, <1>t, QuietStep DEF NoneBetween
    <2>3. CASE BecomeDue(j)
      <3>1. [job[j] EXCEPT !.due = TRUE] \in Rows /\ [job[j] EXCEPT !.due = TRUE].status = job[j].status
        <4>1. job[j] \in Rows /\ TRUE \in BOOLEAN
          BY <1>t
        <4> QED
          BY <4>1, DueRow DEF Rows
      <3>2. job' = [job EXCEPT ![j] = [job[j] EXCEPT !.due = TRUE]]
        BY <2>3, <1>t DEF BecomeDue
      <3>3. job' \in [Jobs -> Rows] /\ \A k \in Jobs : job'[k].status = job[k].status
        BY <3>1, <3>2, <1>t
      <3>4. \A k \in Jobs : Accounted(job'[k], effects[k], partial[k])
        BY <3>2, <1>a, <1>t, RowAccounts
      <3>5. Keep
        BY <3>3
      <3>6. UNCHANGED <<pc, batch, effects, partial>> /\ NoneBetween'
        BY <2>1, <1>t DEF NoneBetween
      <3> QED
        BY <3>3, <3>4, <3>5, <3>6, <1>t, QuietStep
    <2>4. CASE \E p \in Procs, confirm \in BOOLEAN : RecoverJob(p, j, confirm)
      <3>1. job' = [job EXCEPT ![j] = FailRunning(@)]
        BY <2>4 DEF RecoverJob
      <3>2. job' \in [Jobs -> Rows] /\ \A k \in Jobs : Accounted(job'[k], effects[k], partial[k])
        BY <3>1, <1>t, <1>a, FailRunningRow, RowAccounts
      <3>3. Keep
        BY <3>1, <1>t, FailRunningRow DEF Terminal
      <3> QED
        BY <2>1, <3>2, <3>3, <1>t, QuietStep DEF NoneBetween
    <2> QED
      BY <1>6, <2>2, <2>3, <2>4 DEF JobStep
  <1>7. ASSUME NEW p \in Procs, ProcStep(p) PROVE EffectsInv' /\ Keep
    <2>1. CASE Restart(p)
      BY <2>1, <1>t, <1>a, QuietStep DEF Restart, NoneBetween
    <2>2. CASE Close(p) \/ Crash(p)
      <3>1. DropRunners(p) /\ effects' = effects
        BY <2>2 DEF Close, Crash
      <3>2. batch' \in [Runners -> SUBSET Jobs] /\ pc' \in [Runners -> PCs] /\ NoneBetween'
        BY <3>1, <1>t DEF DropRunners, NoneBetween
      <3>3. partial' = partial
        <4>1. CASE Close(p)
          BY <4>1 DEF Close
        <4>2. CASE Crash(p)
          <5>1. Interrupted(p) = {}
            BY DEF Interrupted, RunnersOf
          <5>2. partial' = CountedIn(partial, {})
            BY <4>2, <5>1 DEF Crash
          <5> QED
            BY <5>2, <1>t DEF CountedIn
        <4> QED
          BY <2>2, <4>1, <4>2
      <3>4. /\ job' \in [Jobs -> Rows] /\ Keep
            /\ \A k \in Jobs : Accounted(job'[k], effects[k], partial[k])
        <4>1. CASE Crash(p)
          BY <4>1, <1>t, <1>a DEF Crash
        <4>2. CASE Close(p)
          BY <4>2, <1>t, FailEachAccounts DEF Close, Terminal
        <4> QED
          BY <2>2, <4>1, <4>2
      <3> QED
        BY <3>1, <3>2, <3>3, <3>4, QuietStep
    <2> QED
      BY <1>7, <2>1, <2>2 DEF ProcStep
  <1>8. CASE UNCHANGED vars
    BY <1>8, <1>t, <1>a, QuietStep DEF vars, NoneBetween
  <1> QED
    BY <1>1, <1>2, <1>3, <1>4, <1>5, <1>6, <1>7, <1>8 DEF Next, RunnerStep

\* Where services run the jobs, an execution that returns is committed exactly
\* once and with the completion, and none is committed twice that raises half
\* way, however often an operator wrongly takes a job from a runner that is
\* alive (_run_claimed_jobs tests every row in its transaction).
THEOREM ServiceEffects ==
    ASSUME Runners = ServiceRunners
    PROVE  Spec => []EffectsWithCompletion
  <1>1. EffectsInv /\ [Next]_vars => EffectsInv'
    BY NextEffects
  <1>2. EffectsInv => EffectsWithCompletion
    BY DEF EffectsInv, EffectsWithCompletion, Accounted
  <1> QED
    BY InitEffects, <1>1, <1>2, PTL DEF Spec

\* And completed and failed jobs keep their status, truthful operator or not.
THEOREM ServiceTerminal ==
    ASSUME Runners = ServiceRunners
    PROVE  Spec => TerminalForever
  <1>1. EffectsInv /\ [Next]_vars => EffectsInv'
    BY NextEffects
  <1>2. EffectsInv /\ [Next]_vars =>
          [\A j \in Jobs : job[j].status \in Terminal => job'[j].status = job[j].status]_vars
    BY NextEffects
  <1> QED
    BY InitEffects, <1>1, <1>2, PTL DEF Spec, TerminalForever

-----------------------------------------------------------------------------
(* The retry budget, for runners of both kinds and any operator.           *)

\* A row that keeps its budget.
InBudget(row) ==
    /\ row \in Rows
    /\ row.status = "pending" => row.attempts < row.limit
    /\ row.attempts <= row.limit
    /\ row.status = "failed" => row.attempts = row.limit

BudgetInv ==
    /\ job = [j \in Jobs |-> job[j]]
    /\ \A j \in Jobs : InBudget(job[j])

\* Every operation on a row keeps the budget of the row.
LEMMA RowsInBudget ==
    ASSUME NEW row, InBudget(row)
    PROVE  /\ InBudget(FailRunning(row))
           /\ InBudget([row EXCEPT !.status = "completed"])
           /\ InBudget([row EXCEPT !.due = TRUE])
           /\ \A p \in Procs : Claimable(row) => InBudget(Claimed(row, p))
  <1>t. row \in Rows /\ row.attempts \in 0..100 /\ row.limit \in 1..100
    BY DEF InBudget, Rows
  <1>1. InBudget(FailRunning(row))
    <2>1. CASE row.status = "running" /\ row.attempts >= row.limit
      BY <1>t, <2>1 DEF InBudget, FailRunning, Rows, Statuses
    <2>2. CASE row.status = "running" /\ row.attempts < row.limit
      <3>1. FailRunning(row) = [row EXCEPT !.status = "pending", !.due = FALSE]
        BY <1>t, <2>2 DEF FailRunning
      <3>2. [row EXCEPT !.status = "pending", !.due = FALSE] \in Rows
        BY <1>t DEF Rows, Statuses
      <3>3. /\ [row EXCEPT !.status = "pending", !.due = FALSE].status = "pending"
            /\ [row EXCEPT !.status = "pending", !.due = FALSE].attempts = row.attempts
            /\ [row EXCEPT !.status = "pending", !.due = FALSE].limit = row.limit
        BY <1>t DEF Rows
      <3> QED
        BY <2>2, <3>1, <3>2, <3>3, <1>t DEF InBudget
    <2>3. CASE row.status # "running"
      BY <2>3 DEF FailRunning
    <2> QED
      BY <1>t, <2>1, <2>2, <2>3
  <1>2. InBudget([row EXCEPT !.status = "completed"])
    BY <1>t DEF InBudget, Rows, Statuses
  <1>3. InBudget([row EXCEPT !.due = TRUE])
    BY <1>t DEF InBudget, Rows
  <1>4. ASSUME NEW p \in Procs, Claimable(row) PROVE InBudget(Claimed(row, p))
    <2>1. Claimed(row, p) \in Rows /\ Claimed(row, p).status = "running"
      BY <1>t, <1>4, ClaimedRow
    <2>2. Claimed(row, p).attempts = row.attempts + 1 /\ Claimed(row, p).limit = row.limit
      BY <1>t DEF Claimed, Rows
    <2>3. row.attempts + 1 <= row.limit
      BY <1>t, <1>4 DEF Claimable
    <2> QED
      BY <2>1, <2>2, <2>3 DEF InBudget
  <1> QED
    BY <1>1, <1>2, <1>3, <1>4

LEMMA NewRowInBudget ==
    ASSUME NEW limit \in AttemptLimits, NEW due \in BOOLEAN
    PROVE  InBudget(NewRow(limit, due))
  <1>1. limit \in 1..100
    BY JobsAssumption
  <1> QED
    BY <1>1 DEF NewRow, InBudget, Rows, Statuses

\* So does failing a set of jobs.
LEMMA FailEachInBudget ==
    ASSUME NEW rows, \A j \in Jobs : InBudget(rows[j]), NEW S
    PROVE  \A j \in Jobs : InBudget(FailEach(rows, S)[j])
  BY RowsInBudget DEF FailEach

LEMMA InitBudget == Init => BudgetInv
  <1> SUFFICES ASSUME Init PROVE BudgetInv
    OBVIOUS
  <1>1. PICK limit \in AttemptLimits :
          job = [j \in Jobs |->
                  [NewRow(limit, TRUE) EXCEPT
                     !.status = IF j \in Historical THEN "running" ELSE "absent",
                     !.attempts = IF j \in Historical THEN 1 ELSE 0]]
    BY DEF Init
  <1>2. limit \in 1..100
    BY JobsAssumption
  <1>3. /\ NewRow(limit, TRUE) \in Rows
        /\ NewRow(limit, TRUE).limit = limit
    BY <1>2 DEF NewRow, Rows, Statuses
  <1>4. ASSUME NEW status \in {"running", "absent"}, NEW attempts \in 0..1, NEW row \in Rows,
               row.limit = limit
        PROVE  InBudget([row EXCEPT !.status = status, !.attempts = attempts])
    <2>1. [row EXCEPT !.status = status, !.attempts = attempts] \in Rows
      <3>1. status \in Statuses /\ attempts \in 0..100
        BY DEF Statuses
      <3> QED
        BY <3>1 DEF Rows
    <2>2. /\ [row EXCEPT !.status = status, !.attempts = attempts].status = status
          /\ [row EXCEPT !.status = status, !.attempts = attempts].attempts = attempts
          /\ [row EXCEPT !.status = status, !.attempts = attempts].limit = limit
      BY <1>4 DEF Rows
    <2> QED
      BY <1>2, <2>1, <2>2 DEF InBudget
  <1>5. \A j \in Jobs : InBudget(job[j])
    <2> SUFFICES ASSUME NEW j \in Jobs PROVE InBudget(job[j])
      OBVIOUS
    <2>1. CASE j \in Historical
      <3>1. job[j] = [NewRow(limit, TRUE) EXCEPT !.status = "running", !.attempts = 1]
        BY <1>1, <2>1
      <3>2. "running" \in {"running", "absent"} /\ 1 \in 0..1
        OBVIOUS
      <3> QED
        BY <1>3, <1>4, <3>1, <3>2, Zenon
    <2>2. CASE j \notin Historical
      <3>1. job[j] = [NewRow(limit, TRUE) EXCEPT !.status = "absent", !.attempts = 0]
        BY <1>1, <2>2
      <3>2. "absent" \in {"running", "absent"} /\ 0 \in 0..1
        OBVIOUS
      <3> QED
        BY <1>3, <1>4, <3>1, <3>2, Zenon
    <2> QED
      BY <2>1, <2>2
  <1> QED
    BY <1>1, <1>5 DEF BudgetInv

\* Whatever a step does to the table, it does to each row by one of these
\* operations.
LEMMA NextBudget == BudgetInv /\ [Next]_vars => BudgetInv'
  <1> SUFFICES ASSUME BudgetInv, [Next]_vars PROVE BudgetInv'
    OBVIOUS
  <1>t. job = [j \in Jobs |-> job[j]] /\ \A j \in Jobs : InBudget(job[j])
    BY DEF BudgetInv
  <1>p. \A r \in Runners : ProcOf[r] \in Procs
    BY JobsAssumption
  <1>1. ASSUME NEW r \in Runners, ClaimBatch(r) PROVE BudgetInv'
    <2> DEFINE rows == Recovered(ProcOf[r])
    <2>1. PICK mine : /\ \A j \in mine : Claimable(rows[j])
                      /\ job' = [j \in Jobs |-> IF j \in mine THEN Claimed(rows[j], ProcOf[r]) ELSE rows[j]]
      BY <1>1 DEF ClaimBatch
    <2>2. \A j \in Jobs : InBudget(rows[j])
      BY <1>t, FailEachInBudget DEF Recovered
    <2> HIDE DEF rows
    <2>3. \A j \in Jobs : j \in mine => InBudget(Claimed(rows[j], ProcOf[r]))
      BY <1>p, <2>1, <2>2, RowsInBudget
    <2>4. ASSUME NEW j \in Jobs PROVE InBudget(job'[j])
      BY <2>1, <2>2, <2>3
    <2> QED
      BY <2>1, <2>4 DEF BudgetInv, InBudget
  <1>2. ASSUME NEW r \in Runners, ExecuteBatch(r) \/ CompleteJob(r) PROVE BudgetInv'
    <2>1. PICK ok, failed :
            job' = [j \in Jobs |-> IF j \in ok THEN [job[j] EXCEPT !.status = "completed"]
                                   ELSE IF j \in failed THEN FailRunning(job[j]) ELSE job[j]]
      <3>1. CASE ExecuteBatch(r)
        <4>1. PICK ok \in SUBSET batch[r] :
                job' = [j \in Jobs |-> IF j \in ok THEN [job[j] EXCEPT !.status = "completed"]
                                       ELSE IF j \in batch[r] THEN FailRunning(job[j]) ELSE job[j]]
          BY <3>1 DEF ExecuteBatch
        <4> QED
          BY <4>1
      <3>2. CASE CompleteJob(r)
        <4>1. job' = [j \in Jobs |-> IF j \in batch[r] THEN [job[j] EXCEPT !.status = "completed"]
                                     ELSE IF j \in {} THEN FailRunning(job[j]) ELSE job[j]]
          BY <3>2 DEF CompleteJob
        <4> QED
          BY <4>1
      <3> QED
        BY <1>2, <3>1, <3>2
    <2>2. ASSUME NEW j \in Jobs PROVE InBudget(job'[j])
      BY <1>t, <2>1, RowsInBudget
    <2> QED
      BY <2>1, <2>2 DEF BudgetInv, InBudget
  <1>3. ASSUME NEW r \in Runners, ListPending(r) PROVE BudgetInv'
    <2>1. job' = FailEach(job, Abandoned(ProcOf[r]))
      BY <1>3 DEF ListPending, Recovered
    <2>2. ASSUME NEW j \in Jobs PROVE InBudget(job'[j])
      BY <1>t, <2>1, FailEachInBudget
    <2> QED
      BY <2>1, <2>2 DEF BudgetInv, InBudget, FailEach
  <1>4. ASSUME NEW j, NEW row, j \in Jobs => InBudget(row), job' = [job EXCEPT ![j] = row] PROVE BudgetInv'
    <2>1. ASSUME NEW k \in Jobs PROVE InBudget(job'[k])
      BY <1>t, <1>4
    <2>2. job' = [k \in Jobs |-> job'[k]]
      BY <1>t, <1>4
    <2> QED
      BY <2>1, <2>2 DEF BudgetInv, InBudget
  <1>5. CASE UNCHANGED job
    BY <1>t, <1>5 DEF BudgetInv, InBudget
  <1>6. ASSUME NEW r \in Runners, ClaimNext(r) PROVE BudgetInv'
    <2>1. PICK j : \/ Claimable(job[j]) /\ job' = [job EXCEPT ![j] = Claimed(job[j], ProcOf[r])]
                   \/ UNCHANGED job
      BY <1>6 DEF ClaimNext
    <2>2. j \in Jobs /\ Claimable(job[j]) => InBudget(Claimed(job[j], ProcOf[r]))
      BY <1>t, <1>p, RowsInBudget
    <2> QED
      BY <1>4, <1>5, <2>1, <2>2
  <1>7. ASSUME NEW r \in Runners, FailOne(r) PROVE BudgetInv'
    <2>1. PICK j : job' = [job EXCEPT ![j] = FailRunning(job[j])]
      BY <1>7 DEF FailOne
    <2>2. j \in Jobs => InBudget(FailRunning(job[j]))
      BY <1>t, RowsInBudget
    <2> QED
      BY <1>4, <2>1, <2>2
  <1>8. ASSUME NEW r \in Runners, SuspendBatch(r) \/ ProviderAnswer(r) \/ BatchRaises(r) \/ ExecuteJob(r)
        PROVE  BudgetInv'
    BY <1>5, <1>8 DEF SuspendBatch, ProviderAnswer, BatchRaises, ExecuteJob
  <1>9. ASSUME NEW j \in Jobs, JobStep(j) PROVE BudgetInv'
    <2>1. CASE Enqueue(j)
      <3>1. PICK limit \in AttemptLimits, due \in BOOLEAN : job' = [job EXCEPT ![j] = NewRow(limit, due)]
        BY <2>1 DEF Enqueue
      <3> QED
        BY <1>4, <3>1, NewRowInBudget
    <2>2. CASE BecomeDue(j)
      <3>1. job' = [job EXCEPT ![j] = [job[j] EXCEPT !.due = TRUE]]
        BY <1>t, <2>2 DEF BecomeDue
      <3> QED
        BY <1>4, <1>t, <3>1, RowsInBudget
    <2>3. CASE \E p \in Procs, confirm \in BOOLEAN : RecoverJob(p, j, confirm)
      <3>1. job' = [job EXCEPT ![j] = FailRunning(job[j])]
        BY <2>3 DEF RecoverJob
      <3> QED
        BY <1>4, <1>t, <3>1, RowsInBudget
    <2> QED
      BY <1>9, <2>1, <2>2, <2>3 DEF JobStep
  <1>10. ASSUME NEW p \in Procs, ProcStep(p) PROVE BudgetInv'
    <2>1. CASE Close(p)
      <3>1. PICK S : job' = FailEach(job, S)
        BY <2>1 DEF Close
      <3>2. ASSUME NEW j \in Jobs PROVE InBudget(job'[j])
        BY <1>t, <3>1, FailEachInBudget
      <3> QED
        BY <3>1, <3>2 DEF BudgetInv, InBudget, FailEach
    <2>2. CASE Crash(p) \/ Restart(p)
      BY <1>5, <2>2 DEF Crash, Restart
    <2> QED
      BY <1>10, <2>1, <2>2 DEF ProcStep
  <1> QED
    BY <1>1, <1>2, <1>3, <1>5, <1>6, <1>7, <1>8, <1>9, <1>10 DEF Next, RunnerStep, vars

\* No job is tried more often than it may be, a pending one can still be
\* tried, and none fails for good before it used up its attempts, however many
\* runners listed it, lost it, or fail it late (memory.py _claim_pending_job,
\* _fail_running_job).
THEOREM BudgetKept == Spec => []RetryBudget
  <1>1. BudgetInv => RetryBudget
    BY DEF BudgetInv, InBudget, RetryBudget
  <1> QED
    BY InitBudget, NextBudget, <1>1, PTL DEF Spec
=============================================================================
