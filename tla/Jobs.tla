-------------------------------- MODULE Jobs --------------------------------
(***************************************************************************)
(* The durable job queue: the rows of local_jobs, the processes that own   *)
(* them and the runners (background worker threads and POST /v1/jobs/run   *)
(* requests of a service; Memory.run_jobs of an embedded or CLI caller)    *)
(* that claim, execute, complete, fail and recover jobs.                   *)
(*                                                                         *)
(* A job row is one record; every SQLite transaction is one action.  A     *)
(* service runner claims a batch in one transaction, may unwind for        *)
(* provider work any number of times up to MaxSuspends, and then executes  *)
(* and completes the batch in one transaction.  A library runner lists     *)
(* candidates, claims one at a time by compare-and-swap, executes it in    *)
(* the job's own transactions and completes it in another one.             *)
(***************************************************************************)
EXTENDS Naturals, FiniteSets

CONSTANTS
    Jobs,             \* job ids
    Procs,            \* process identities: a (host, pid) pair each
    Runners,          \* threads that run jobs
    ServiceRunners,   \* the runners that belong to an AletheiaService
    ProcOf,           \* the process each runner lives in
    HostOf,           \* the host of each process
    Unowned,          \* the payload names no _worker_identity
    AttemptLimits,    \* values of max_attempts that callers enqueue with
    Historical,       \* jobs an older version left running, without an owner
    MaxJobs,          \* max_jobs of one claim
    MaxSuspends,      \* bound: provider suspensions per batch
    MaxStops,         \* bound: process exits (a crash or a close)
    PidReuse,         \* may the system hand the pid of a dead process out again
    TrustedOperator   \* does confirm_abandoned tell the truth

ASSUME JobsAssumption ==
    /\ ServiceRunners \subseteq Runners
    /\ ProcOf \in [Runners -> Procs]
    /\ Unowned \notin Procs
    /\ AttemptLimits \subseteq 1..100
    /\ AttemptLimits # {}
    /\ Historical \subseteq Jobs
    /\ MaxJobs \in Nat /\ MaxSuspends \in Nat /\ MaxStops \in Nat
    /\ PidReuse \in BOOLEAN /\ TrustedOperator \in BOOLEAN

VARIABLES
    job,        \* local_jobs: one row per job
    up,         \* process state: "up", "closed" (service closed) or "down"
    pc,         \* what each runner is doing
    todo,       \* library runner: the snapshot _pending_jobs returned
    batch,      \* the jobs a runner has claimed and not yet given up
    suspends,   \* provider suspensions of the current batch
    effects,    \* ghost: executions of each job that returned and are committed
    partial,    \* ghost: executions that raised, of which some writes stayed
    stops       \* processes stopped so far

vars == <<job, up, pc, todo, batch, suspends, effects, partial, stops>>

Statuses == {"absent", "pending", "running", "completed", "failed"}
Terminal == {"completed", "failed"}

Rows == [status : Statuses, attempts : 0..100, limit : 1..100,
         owner : Procs \cup {Unowned}, due : BOOLEAN]

NewRow(limit, due) ==
    [status |-> "pending", attempts |-> 0, limit |-> limit,
     owner |-> Unowned, due |-> due]

Init ==
    /\ \E limit \in AttemptLimits :
         job = [j \in Jobs |->
                  [NewRow(limit, TRUE) EXCEPT
                     !.status = IF j \in Historical THEN "running" ELSE "absent",
                     !.attempts = IF j \in Historical THEN 1 ELSE 0]]
    /\ up = [p \in Procs |-> "up"]
    /\ pc = [r \in Runners |-> "idle"]
    /\ todo = [r \in Runners |-> {}]
    /\ batch = [r \in Runners |-> {}]
    /\ suspends = [r \in Runners |-> 0]
    /\ effects = [j \in Jobs |-> 0]
    /\ partial = [j \in Jobs |-> 0]
    /\ stops = 0

-----------------------------------------------------------------------------
(* Row operations.                                                         *)

\* What process p learns about owner o of a running job.
WorkerIsAlive(p, o) ==
    IF o = Unowned \/ HostOf[o] # HostOf[p] THEN "unknown"
    ELSE IF o = p \/ up[o] # "down" THEN "alive"
    ELSE "dead"

\* A mutated form of FailRunning: a missing status test.
FailRunningUnguarded(row) ==
    IF row.attempts >= row.limit THEN [row EXCEPT !.status = "failed"]
    ELSE [row EXCEPT !.status = "pending", !.due = FALSE]

\* The row after _fail_running_job: nothing unless it is running; otherwise a
\* retry with backoff, or failed once the attempts are used up.
FailRunning(row) ==
    IF row.status # "running" THEN row
    ELSE IF row.attempts >= row.limit THEN [row EXCEPT !.status = "failed"]
    ELSE [row EXCEPT !.status = "pending", !.due = FALSE]

FailEach(rows, S) ==
    [j \in Jobs |-> IF j \in S THEN FailRunning(rows[j]) ELSE rows[j]]

\* A mutated form of Claimable: the update does not test the status again.
ClaimableUnswapped(row) ==
    row.due /\ row.attempts < row.limit

\* The compare-and-swap of _claim_pending_job, and the row it leaves.
Claimable(row) ==
    row.status = "pending" /\ row.due /\ row.attempts < row.limit

Claimed(row, p) ==
    [row EXCEPT !.status = "running", !.attempts = @ + 1, !.owner = p]

\* A mutated form of Abandoned: listings recover nothing.
AbandonedNever(p) == {j \in Jobs : FALSE /\ WorkerIsAlive(p, job[j].owner) = "dead"}

\* _recover_abandoned_jobs, the first thing every listing does: jobs whose
\* owner is proven dead fail once.  Each recovery re-reads its row, so
\* performing them together differs from the loop only in the granularity.
Abandoned(p) ==
    {j \in Jobs : job[j].status = "running" /\ WorkerIsAlive(p, job[j].owner) = "dead"}

Recovered(p) == FailEach(job, Abandoned(p))

\* The rows _pending_jobs may return: as many due pending rows as max_jobs
\* allows; which of them depends on priority and age, left abstract.
Selections(rows) ==
    LET listed == {j \in Jobs : rows[j].status = "pending" /\ rows[j].due}
    IN  {S \in SUBSET listed : \/ Cardinality(S) = MaxJobs
                               \/ S = listed /\ Cardinality(S) <= MaxJobs}

Live(r) == up[ProcOf[r]] = "up"

\* One more execution of the jobs in S.
CountedIn(count, S) == [j \in Jobs |-> IF j \in S THEN count[j] + 1 ELSE count[j]]

-----------------------------------------------------------------------------
(* Callers and the clock.                                                  *)

Enqueue(j) ==
    /\ job[j].status = "absent"
    /\ \E limit \in AttemptLimits, due \in BOOLEAN :
         job' = [job EXCEPT ![j] = NewRow(limit, due)]
    /\ UNCHANGED <<up, pc, todo, batch, suspends, effects, partial, stops>>

\* run_after passes.
BecomeDue(j) ==
    /\ job[j].status = "pending"
    /\ ~job[j].due
    /\ job' = [job EXCEPT ![j].due = TRUE]
    /\ UNCHANGED <<up, pc, todo, batch, suspends, effects, partial, stops>>

\* recover_job, called in process p.
RecoverJob(p, j, confirm) ==
    /\ up[p] = "up"
    /\ job[j].status = "running"
    /\ LET alive == WorkerIsAlive(p, job[j].owner)
       IN  /\ alive # "alive"
           /\ alive = "unknown" => confirm
    /\ (TrustedOperator /\ confirm) => \A r \in Runners : Live(r) => j \notin batch[r]
    /\ job' = [job EXCEPT ![j] = FailRunning(@)]
    /\ UNCHANGED <<up, pc, todo, batch, suspends, effects, partial, stops>>

-----------------------------------------------------------------------------
(* A service runner: run_background_jobs, and POST /v1/jobs/run.           *)

ClaimBatch(r) ==
    /\ r \in ServiceRunners /\ Live(r) /\ pc[r] = "idle"
    /\ LET p    == ProcOf[r]
           rows == Recovered(p)
       IN  \E S \in Selections(rows) :
             LET mine == {j \in S : Claimable(rows[j])}
             IN  /\ job' = [j \in Jobs |-> IF j \in mine THEN Claimed(rows[j], p)
                                                         ELSE rows[j]]
                 /\ batch' = [batch EXCEPT ![r] = mine]
                 /\ pc' = [pc EXCEPT ![r] = IF mine = {} THEN "idle" ELSE "running"]
    /\ suspends' = [suspends EXCEPT ![r] = 0]
    /\ UNCHANGED <<up, todo, effects, partial, stops>>

\* ProviderWorkNeeded unwinds the transaction; nothing was written.
SuspendBatch(r) ==
    /\ r \in ServiceRunners /\ Live(r) /\ pc[r] = "running"
    /\ suspends[r] < MaxSuspends
    /\ pc' = [pc EXCEPT ![r] = "provider"]
    /\ suspends' = [suspends EXCEPT ![r] = @ + 1]
    /\ UNCHANGED <<job, up, todo, batch, effects, partial, stops>>

\* The provider answers, or raises.
ProviderAnswer(r) ==
    /\ Live(r) /\ pc[r] = "provider"
    /\ \E next \in {"running", "failing"} : pc' = [pc EXCEPT ![r] = next]
    /\ UNCHANGED <<job, up, todo, batch, suspends, effects, partial, stops>>

\* A mutated form of ExecuteBatch: the claim is not re-read in the transaction.
ExecuteBatchStale(r) ==
    /\ r \in ServiceRunners /\ Live(r) /\ pc[r] = "running"
    /\ job' = [j \in Jobs |-> IF j \in batch[r] THEN [job[j] EXCEPT !.status = "completed"]
                                                ELSE job[j]]
    /\ effects' = CountedIn(effects, batch[r])
    /\ batch' = [batch EXCEPT ![r] = {}]
    /\ pc' = [pc EXCEPT ![r] = "idle"]
    /\ UNCHANGED <<up, todo, suspends, partial, stops>>

\* _run_claimed_jobs in one transaction: every job must still be running;
\* each one then completes or, when its execution raises, fails.  The handler
\* has no savepoint of its own and _run_single_job catches what it raises, so
\* that the writes it had made are committed together with the failure.
ExecuteBatch(r) ==
    /\ r \in ServiceRunners /\ Live(r) /\ pc[r] = "running"
    /\ \A j \in batch[r] : job[j].status = "running"
    /\ \E ok \in SUBSET batch[r] : \E cut \in SUBSET (batch[r] \ ok) :
         /\ job' = [j \in Jobs |->
                      IF j \in ok THEN [job[j] EXCEPT !.status = "completed"]
                      ELSE IF j \in batch[r] THEN FailRunning(job[j])
                      ELSE job[j]]
         /\ effects' = CountedIn(effects, ok)
         /\ partial' = CountedIn(partial, cut)
    /\ batch' = [batch EXCEPT ![r] = {}]
    /\ pc' = [pc EXCEPT ![r] = "idle"]
    /\ UNCHANGED <<up, todo, suspends, stops>>

\* The transaction raises and is rolled back: a claimed job is no longer
\* running, the provider inputs changed, the commit failed.
BatchRaises(r) ==
    /\ r \in ServiceRunners /\ Live(r) /\ pc[r] = "running"
    /\ pc' = [pc EXCEPT ![r] = "failing"]
    /\ UNCHANGED <<job, up, todo, batch, suspends, effects, partial, stops>>

-----------------------------------------------------------------------------
(* A library runner: Memory.run_jobs.                                      *)

ListPending(r) ==
    /\ r \notin ServiceRunners /\ Live(r) /\ pc[r] = "idle" /\ todo[r] = {}
    /\ LET rows == Recovered(ProcOf[r])
       IN  /\ job' = rows
           /\ \E S \in Selections(rows) : todo' = [todo EXCEPT ![r] = S]
    /\ UNCHANGED <<up, pc, batch, suspends, effects, partial, stops>>

\* _claim_pending_job on a row of the snapshot; another runner may have won.
ClaimNext(r) ==
    /\ r \notin ServiceRunners /\ Live(r) /\ pc[r] = "idle"
    /\ \E j \in todo[r] :
         /\ todo' = [todo EXCEPT ![r] = @ \ {j}]
         /\ IF Claimable(job[j])
            THEN /\ job' = [job EXCEPT ![j] = Claimed(@, ProcOf[r])]
                 /\ batch' = [batch EXCEPT ![r] = {j}]
                 /\ pc' = [pc EXCEPT ![r] = "running"]
            ELSE UNCHANGED <<job, batch, pc>>
    /\ UNCHANGED <<up, suspends, effects, partial, stops>>

\* _execute_job commits its own transactions, or raises, before or after it
\* committed some of them.
ExecuteJob(r) ==
    /\ r \notin ServiceRunners /\ Live(r) /\ pc[r] = "running"
    /\ \/ /\ pc' = [pc EXCEPT ![r] = "executed"]
          /\ effects' = CountedIn(effects, batch[r])
          /\ UNCHANGED partial
       \/ /\ pc' = [pc EXCEPT ![r] = "failing"]
          /\ \E cut \in {{}, batch[r]} : partial' = CountedIn(partial, cut)
          /\ UNCHANGED effects
    /\ UNCHANGED <<job, up, todo, batch, suspends, stops>>

\* The completing UPDATE names the job only: it tests neither the status nor
\* the owner of the row.
CompleteJob(r) ==
    /\ Live(r) /\ pc[r] = "executed"
    /\ job' = [j \in Jobs |-> IF j \in batch[r] THEN [job[j] EXCEPT !.status = "completed"]
                                                ELSE job[j]]
    /\ batch' = [batch EXCEPT ![r] = {}]
    /\ pc' = [pc EXCEPT ![r] = "idle"]
    /\ UNCHANGED <<up, todo, suspends, effects, partial, stops>>

-----------------------------------------------------------------------------
(* Failure.                                                                *)

\* The exception handler of any runner: one _fail_running_job per claimed
\* job, each a transaction of its own.
FailOne(r) ==
    /\ Live(r) /\ pc[r] = "failing"
    /\ \E j \in batch[r] :
         /\ job' = [job EXCEPT ![j] = FailRunning(@)]
         /\ batch' = [batch EXCEPT ![r] = @ \ {j}]
         /\ pc' = [pc EXCEPT ![r] = IF batch[r] = {j} THEN "idle" ELSE "failing"]
    /\ UNCHANGED <<up, todo, suspends, effects, partial, stops>>

RunnersOf(p) == {r \in Runners : ProcOf[r] = p}

DropRunners(p) ==
    /\ pc' = [r \in Runners |-> IF ProcOf[r] = p THEN "idle" ELSE pc[r]]
    /\ todo' = [r \in Runners |-> IF ProcOf[r] = p THEN {} ELSE todo[r]]
    /\ batch' = [r \in Runners |-> IF ProcOf[r] = p THEN {} ELSE batch[r]]

\* AletheiaService.close fails the jobs its runners own; a runner that is
\* waiting for a provider finds the service closed and returns.
Close(p) ==
    /\ up[p] = "up" /\ stops < MaxStops
    /\ RunnersOf(p) # {} /\ RunnersOf(p) \subseteq ServiceRunners
    /\ up' = [up EXCEPT ![p] = "closed"]
    /\ job' = FailEach(job, UNION {batch[r] : r \in RunnersOf(p)})
    /\ DropRunners(p)
    /\ stops' = stops + 1
    /\ UNCHANGED <<suspends, effects, partial>>

\* The jobs library runners of process p are in the middle of.
Interrupted(p) ==
    UNION {batch[r] : r \in {s \in RunnersOf(p) \ ServiceRunners : pc[s] = "running"}}

\* The process dies; its open transaction is rolled back and what it had
\* committed stays, which may be a part of a job of a library runner.
Crash(p) ==
    /\ up[p] # "down"
    /\ up[p] = "up" => stops < MaxStops
    /\ up' = [up EXCEPT ![p] = "down"]
    /\ stops' = IF up[p] = "up" THEN stops + 1 ELSE stops
    /\ \E cut \in SUBSET Interrupted(p) : partial' = CountedIn(partial, cut)
    /\ DropRunners(p)
    /\ UNCHANGED <<job, suspends, effects>>

\* A process with the pid (and host) of a dead one starts.
Restart(p) ==
    /\ PidReuse /\ up[p] = "down"
    /\ up' = [up EXCEPT ![p] = "up"]
    /\ UNCHANGED <<job, pc, todo, batch, suspends, effects, partial, stops>>

-----------------------------------------------------------------------------
RunnerStep(r) ==
    \/ ClaimBatch(r) \/ SuspendBatch(r) \/ ProviderAnswer(r)
    \/ ExecuteBatch(r) \/ BatchRaises(r)
    \/ ListPending(r) \/ ClaimNext(r) \/ ExecuteJob(r) \/ CompleteJob(r)
    \/ FailOne(r)

\* What the routes of jobs offer, and the clock.
JobStep(j) ==
    \/ Enqueue(j)
    \/ BecomeDue(j)
    \/ \E p \in Procs, confirm \in BOOLEAN : RecoverJob(p, j, confirm)

ProcStep(p) == Close(p) \/ Crash(p) \/ Restart(p)

Next ==
    \/ \E r \in Runners : RunnerStep(r)
    \/ \E j \in Jobs : JobStep(j)
    \/ \E p \in Procs : ProcStep(p)

Spec == Init /\ [][Next]_vars

\* The clock advances, and the worker loop of a process that is up keeps
\* calling run_background_jobs; nothing obliges a process to crash, a caller
\* to enqueue or an operator to recover.
Fairness ==
    /\ \A r \in Runners : WF_vars(RunnerStep(r))
    /\ \A j \in Jobs : WF_vars(BecomeDue(j))

-----------------------------------------------------------------------------
(* Properties.                                                             *)

TypeOK ==
    /\ job \in [Jobs -> Rows]
    /\ up \in [Procs -> {"up", "closed", "down"}]
    /\ pc \in [Runners -> {"idle", "running", "provider", "executed", "failing"}]
    /\ todo \in [Runners -> SUBSET Jobs]
    /\ batch \in [Runners -> SUBSET Jobs]
    /\ suspends \in [Runners -> Nat]
    /\ effects \in [Jobs -> Nat]
    /\ partial \in [Jobs -> Nat]
    /\ stops \in Nat

\* A job a live runner holds is still running and still owned by its process:
\* neither recovery, nor another runner's failure handler, nor a closing
\* service ever takes a job from a live owner (true of a truthful operator).
HeldJobsAreRunning ==
    \A r \in Runners : Live(r) =>
        \A j \in batch[r] : job[j].status = "running" /\ job[j].owner = ProcOf[r]

\* Two live runners never execute the same job, whatever crashed, was
\* recovered and was claimed again in between.
ExclusiveExecution ==
    \A r, s \in Runners :
        (r # s /\ Live(r) /\ Live(s)) => batch[r] \cap batch[s] = {}

\* The retry budget: a pending job can still be claimed, a claimed one never
\* exceeds max_attempts, and a job fails for good only when it used them all.
RetryBudget ==
    \A j \in Jobs :
        /\ job[j].status = "pending" => job[j].attempts < job[j].limit
        /\ job[j].attempts <= job[j].limit
        /\ job[j].status = "failed" => job[j].attempts = job[j].limit

\* A job that completed, or failed for good, stays so: the unguarded UPDATE
\* of a runner that lost its job must not turn a failed row into a completed
\* one, and a late failure handler must not re-open a completed one.
TerminalForever ==
    [][\A j \in Jobs : job[j].status \in Terminal => job'[j].status = job[j].status]_vars

\* Run by services, an execution that returns is committed exactly once, with
\* the completion of the job, and one that raises leaves writes behind at most
\* once for each attempt that failed: no attempt is ever committed twice, even
\* when an operator wrongly confirms that it is abandoned.
EffectsWithCompletion ==
    \A j \in Jobs :
        /\ effects[j] = IF job[j].status = "completed" THEN 1 ELSE 0
        /\ effects[j] + partial[j] <= job[j].attempts
        /\ job[j].status = "running" => partial[j] < job[j].attempts

\* No process of the owner's host is up, so that none can look for it.
Orphaned(j) ==
    /\ job[j].status = "running" /\ job[j].owner # Unowned
    /\ \A p \in Procs : HostOf[p] = HostOf[job[j].owner] => up[p] # "up"

\* An enqueued job eventually completes or fails for good, unless the last
\* process of its owner's host stops; pids are not handed out again.
EventuallySettled ==
    \A j \in Jobs : job[j].status \in {"pending", "running"}
                      ~> job[j].status \in Terminal \/ Orphaned(j)
=============================================================================
