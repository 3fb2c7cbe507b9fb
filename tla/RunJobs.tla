------------------------------ MODULE RunJobs ------------------------------
(***************************************************************************)
(* The run, job and workspace-lock rows of OTF's database, and every       *)
(* service method that changes them.                                       *)
(*                                                                         *)
(* A service method opens one transaction, locks the rows it changes with  *)
(* SELECT ... FOR UPDATE, and rolls everything back when a step of it      *)
(* returns an error (sql.Updater), hooks included.  A method is therefore  *)
(* one action: its guard is the conjunction of the conditions under which  *)
(* no step fails, and a call that fails leaves the rows unchanged.         *)
(*                                                                         *)
(* The callers (scheduler, allocator, runners, users, the timeout daemon)  *)
(* may call in any order.  Ids of runs and runners are never reused.       *)
(***************************************************************************)
CONSTANTS Run,        \* ids of runs
          Workspace,  \* ids of workspaces
          Runner,     \* ids of runners
          User,       \* names of users, who may lock workspaces
          Nobody      \* the SQL NULL: no lock holder, no runner, no run

ASSUME ConstantsAssumption ==
  /\ Nobody \notin Run \cup Workspace \cup Runner \cup User
  /\ Run \cap User = {}

VARIABLES runs,       \* table runs, joined with plans and applies
          jobs,       \* table jobs, unique by run and phase
          lock,       \* workspaces.lock_run_id / lock_username
          latestRun,  \* workspaces.latest_run_id
          runners,    \* presence of each row of table runners
          signals,    \* cancelation signals published to jobs
          overdue     \* the runs the timeout daemon is about to cancel

vars == <<runs, jobs, lock, latestRun, runners, signals, overdue>>

-----------------------------------------------------------------------------
(* Statuses *)

Done == {"applied", "planned_and_finished", "discarded", "canceled",
         "force_canceled", "errored"}
InProgress == {"planning", "applying"}
Unfinished == {"pending", "plan_queued", "planning", "planned",
               "cost_estimated", "apply_queued", "applying"}

\* A row is "absent" before it is inserted and "deleted" afterwards.
Gone == {"absent", "deleted"}
RunStatus == Done \cup Unfinished \cup Gone

PhaseDone == {"finished", "canceled", "errored", "unreachable"}
PhaseStatus == {"pending", "queued", "running"} \cup PhaseDone

PhaseType == {"plan", "apply"}

JobLive == {"unallocated", "allocated", "running"}
JobDone == {"finished", "errored", "canceled"}
JobStatus == JobLive \cup JobDone \cup {"absent"}

RunRow == [status : RunStatus, plan : PhaseStatus, apply : PhaseStatus,
           cancelSignaled : BOOLEAN, planOnly : BOOLEAN, autoApply : BOOLEAN,
           workspace : Workspace \cup {Nobody}]
JobRow == [status : JobStatus, runner : Runner \cup {Nobody}]

NoRun(status) ==
  [status |-> status, plan |-> "pending", apply |-> "pending",
   cancelSignaled |-> FALSE, planOnly |-> FALSE, autoApply |-> FALSE,
   workspace |-> Nobody]
NoJob == [status |-> "absent", runner |-> Nobody]

-----------------------------------------------------------------------------
(* What the methods of Run do to a run *)

NewRun(ws, planOnly, autoApply) ==
  [status |-> "pending", plan |-> "pending", apply |-> "pending",
   cancelSignaled |-> FALSE, planOnly |-> planOnly, autoApply |-> autoApply,
   workspace |-> ws]

\* Mutant: the phase's status is tested instead of the run's.
EnqueuePlanAllowedByPhase(run) ==
  run.status \notin Gone /\ run.plan = "pending"

EnqueuePlanAllowed(run) == run.status = "pending"
EnqueuePlanRun(run) ==
  [run EXCEPT !.status = "plan_queued", !.plan = "queued"]

EnqueueApplyAllowed(run) == run.status \in {"planned", "cost_estimated"}
EnqueueApplyRun(run) ==
  [run EXCEPT !.status = "apply_queued", !.apply = "queued"]

\* Start looks at the status alone, and not at the phase of the job.
StartAllowed(run) == run.status \in {"plan_queued", "apply_queued"}
StartRun(run) ==
  IF run.status = "plan_queued"
  THEN [run EXCEPT !.status = "planning", !.plan = "running"]
  ELSE [run EXCEPT !.status = "applying", !.apply = "running"]

\* A phase of a canceled run finishes without any effect.
FinishAllowed(run, phase) ==
  run.status \in {"canceled", IF phase = "plan" THEN "planning" ELSE "applying"}
\* Mutant: a speculative plan with changes is left waiting for an apply.
FinishRunIgnoringPlanOnly(run, phase, errored, hasChanges, costEstimation) ==
  CASE run.status = "canceled" -> run
    [] run.status # "canceled" /\ phase = "plan" ->
         IF errored
         THEN [run EXCEPT !.status = "errored", !.plan = "errored",
                          !.apply = "unreachable"]
         ELSE [run EXCEPT !.plan = "finished", !.status = "planned"]
    [] run.status # "canceled" /\ phase = "apply" ->
         [run EXCEPT !.status = "applied", !.apply = "finished"]

FinishRun(run, phase, errored, hasChanges, costEstimation) ==
  CASE run.status = "canceled" -> run
    [] run.status # "canceled" /\ phase = "plan" /\ errored ->
         [run EXCEPT !.status = "errored", !.plan = "errored",
                     !.apply = "unreachable"]
    [] run.status # "canceled" /\ phase = "plan" /\ ~errored ->
         IF hasChanges /\ ~run.planOnly
         THEN [run EXCEPT !.plan = "finished",
                 !.status = IF costEstimation THEN "cost_estimated"
                                              ELSE "planned"]
         ELSE [run EXCEPT !.status = "planned_and_finished",
                 !.plan = "finished", !.apply = "unreachable"]
    [] run.status # "canceled" /\ phase = "apply" ->
         IF errored THEN [run EXCEPT !.status = "errored", !.apply = "errored"]
                    ELSE [run EXCEPT !.status = "applied", !.apply = "finished"]

Discardable(run) == run.status \in {"pending", "planned", "cost_estimated"}

\* The status is overwritten before it is compared with pending, so the plan
\* phase of a pending run is left as it is.
DiscardRow(run) ==
  [run EXCEPT !.status = "discarded", !.apply = "unreachable"]

\* The cool-off period is left to the choice of the moment of the call.
ForceCancelable(run) == run.status \in Unfinished /\ run.cancelSignaled

\* A user's cancelation of a run in progress only asks for a signal.
AsksSignal(run, isUser, force) ==
  run.status \in InProgress /\ isUser /\ ~force
CancelAllowed(run, isUser, force) ==
  /\ force => isUser /\ ForceCancelable(run)
  /\ AsksSignal(run, isUser, force) => ~run.cancelSignaled
\* The phases of a canceled run; in the statuses that are not named, among them
\* cost_estimated, they are left as they are.
CanceledPlan(run) ==
  IF run.status = "pending" THEN "unreachable"
  ELSE IF run.status \in {"plan_queued", "planning"} THEN "canceled"
  ELSE run.plan
CanceledApply(run) ==
  IF run.status \in {"pending", "plan_queued", "planning", "planned"}
  THEN "unreachable"
  ELSE IF run.status \in {"apply_queued", "applying"} THEN "canceled"
  ELSE run.apply

\* Mutant: the apply of a run canceled while it plans stays pending.
CancelRowLeavingApply(run, isUser, force) ==
  IF AsksSignal(run, isUser, force)
  THEN [run EXCEPT !.cancelSignaled = TRUE]
  ELSE [run EXCEPT !.status = IF force THEN "force_canceled" ELSE "canceled",
                   !.plan = IF run.status = "planning" THEN "canceled"
                                                       ELSE run.plan]

CancelRow(run, isUser, force) ==
  IF AsksSignal(run, isUser, force)
  THEN [run EXCEPT !.cancelSignaled = TRUE]
  ELSE [run EXCEPT !.status = IF force THEN "force_canceled" ELSE "canceled",
                   !.plan = CanceledPlan(run), !.apply = CanceledApply(run)]

-----------------------------------------------------------------------------
(* What the methods of Job do to a job *)

\* createJob, the hook after EnqueuePlan and EnqueueApply.  The table has a
\* unique key on run and phase.
CreateJobAllowed(r, phase) == jobs[r][phase].status = "absent"
\* Mutant: a job starts in the run's vocabulary of statuses.
NewJobQueued == [status |-> "queued", runner |-> Nobody]

NewJob == [status |-> "unallocated", runner |-> Nobody]

\* The statuses updateStatus lets a job move to.
JobMoves(from) ==
  CASE from = "unallocated" -> {"allocated", "canceled"}
    [] from = "allocated" -> {"running", "canceled"}
    [] from = "running" -> {"finished", "canceled", "errored"}
    [] OTHER -> {}

LivePhases(r) == {p \in PhaseType : jobs[r][p].status \in JobLive}

\* cancelJob, the hook after a cancelation that left the run as `run`: what it
\* makes of the job of phase q, and the signals it publishes.
\* Mutant: only a forced cancelation cancels the job.
CancelJobRowWhenForced(job, run) ==
  IF run.status = "force_canceled" THEN [job EXCEPT !.status = "canceled"]
                                   ELSE job

CancelJobRow(job, run) ==
  IF run.status \in {"canceled", "force_canceled"}
  THEN [job EXCEPT !.status = "canceled"]
  ELSE job
CancelJobSignals(r, q, run) ==
  {[run |-> r, phase |-> q, force |-> force] : force \in
     {f \in BOOLEAN : IF f THEN run.status = "force_canceled"
                      ELSE run.status \in InProgress /\ run.cancelSignaled}}

-----------------------------------------------------------------------------
Init ==
  /\ runs = [r \in Run |-> NoRun("absent")]
  /\ jobs = [r \in Run |-> [p \in PhaseType |-> NoJob]]
  /\ lock = [w \in Workspace |-> Nobody]
  /\ latestRun = [w \in Workspace |-> Nobody]
  /\ runners = [n \in Runner |-> "absent"]
  /\ signals = {}
  /\ overdue = {}

Exists(r) == runs[r].status \notin Gone

(* Runs *)

CreateRun(r) ==
  /\ runs[r].status = "absent"
  /\ \E w \in Workspace, planOnly, autoApply \in BOOLEAN :
       runs' = [runs EXCEPT ![r] = NewRun(w, planOnly, autoApply)]
  /\ UNCHANGED <<jobs, lock, latestRun, runners, signals, overdue>>

\* Mutant: a run takes over anybody's lock.
RunMayLockAlways(w) == TRUE

\* Enlock on behalf of a run: a run may take over the lock of another run.
RunMayLock(w) == lock[w] \in Run \cup {Nobody}

EnqueuePlan(r) ==
  LET w == runs[r].workspace IN
  /\ EnqueuePlanAllowed(runs[r])
  /\ CreateJobAllowed(r, "plan")
  /\ IF runs[r].planOnly
     THEN UNCHANGED <<lock, latestRun>>
     ELSE /\ RunMayLock(w)
          /\ lock' = [lock EXCEPT ![w] = r]
          /\ latestRun' = [latestRun EXCEPT ![w] = r]
  /\ runs' = [runs EXCEPT ![r] = EnqueuePlanRun(runs[r])]
  /\ jobs' = [jobs EXCEPT ![r]["plan"] = NewJob]
  /\ UNCHANGED <<runners, signals, overdue>>

ApplyRun(r) ==
  /\ EnqueueApplyAllowed(runs[r])
  /\ CreateJobAllowed(r, "apply")
  /\ runs' = [runs EXCEPT ![r] = EnqueueApplyRun(runs[r])]
  /\ jobs' = [jobs EXCEPT ![r]["apply"] = NewJob]
  /\ UNCHANGED <<lock, latestRun, runners, signals, overdue>>

DiscardRun(r) ==
  /\ Discardable(runs[r])
  /\ runs' = [runs EXCEPT ![r] = DiscardRow(runs[r])]
  /\ UNCHANGED <<jobs, lock, latestRun, runners, signals, overdue>>

\* The run and job rows after a cancelation: cancelJob touches the unfinished
\* job of the run, if it has one.
CancelRows(r, isUser, force) ==
  LET run == CancelRow(runs[r], isUser, force) IN
  /\ Exists(r)
  /\ CancelAllowed(runs[r], isUser, force)
  /\ runs' = [runs EXCEPT ![r] = run]
  /\ \/ LivePhases(r) = {} /\ UNCHANGED <<jobs, signals>>
     \/ \E q \in LivePhases(r) :
          /\ jobs' = [jobs EXCEPT ![r][q] = CancelJobRow(jobs[r][q], run)]
          /\ signals' = signals \cup CancelJobSignals(r, q, run)

CancelRun(r) ==
  /\ CancelRows(r, TRUE, FALSE)
  /\ UNCHANGED <<lock, latestRun, runners, overdue>>

ForceCancelRun(r) ==
  /\ CancelRows(r, TRUE, TRUE)
  /\ UNCHANGED <<lock, latestRun, runners, overdue>>

\* Deleting a run cascades to its jobs and nulls the workspace's references.
\* Mutant: the lock of a deleted run is left in place.
DeleteRunKeepingLock(r) ==
  /\ Exists(r)
  /\ runs' = [runs EXCEPT ![r] = NoRun("deleted")]
  /\ jobs' = [jobs EXCEPT ![r] = [p \in PhaseType |-> NoJob]]
  /\ UNCHANGED <<lock, latestRun, runners, signals, overdue>>

DeleteRun(r) ==
  /\ Exists(r)
  /\ runs' = [runs EXCEPT ![r] = NoRun("deleted")]
  /\ jobs' = [jobs EXCEPT ![r] = [p \in PhaseType |-> NoJob]]
  /\ lock' = [w \in Workspace |-> IF lock[w] = r THEN Nobody ELSE lock[w]]
  /\ latestRun' = [w \in Workspace |->
                     IF latestRun[w] = r THEN Nobody ELSE latestRun[w]]
  /\ UNCHANGED <<runners, signals, overdue>>

(* Workspace locks *)

LockByUser(w, u) ==
  /\ lock[w] = Nobody
  /\ lock' = [lock EXCEPT ![w] = u]
  /\ UNCHANGED <<runs, jobs, latestRun, runners, signals, overdue>>

\* A user unlocks its own lock, or by force anybody's.
UnlockByUser(w, u, force) ==
  /\ lock[w] # Nobody
  /\ lock[w] = u \/ force
  /\ lock' = [lock EXCEPT ![w] = Nobody]
  /\ UNCHANGED <<runs, jobs, latestRun, runners, signals, overdue>>

\* The scheduler unlocks on behalf of a run it has seen done, never by force.
UnlockByRun(w, r) ==
  /\ runs[r].status \in Done \cup {"deleted"}
  /\ lock[w] = r
  /\ lock' = [lock EXCEPT ![w] = Nobody]
  /\ UNCHANGED <<runs, jobs, latestRun, runners, signals, overdue>>

(* Runners and jobs *)

RegisterRunner(n) ==
  /\ runners[n] = "absent"
  /\ runners' = [runners EXCEPT ![n] = "registered"]
  /\ UNCHANGED <<runs, jobs, lock, latestRun, signals, overdue>>

\* Deleting a runner cascades to every job that refers to it.
DeleteRunner(n) ==
  /\ runners[n] = "registered"
  /\ runners' = [runners EXCEPT ![n] = "deleted"]
  /\ jobs' = [r \in Run |-> [p \in PhaseType |->
                IF jobs[r][p].runner = n THEN NoJob ELSE jobs[r][p]]]
  /\ UNCHANGED <<runs, lock, latestRun, signals, overdue>>

AllocateJob(r, p, n) ==
  /\ runners[n] = "registered"
  /\ "allocated" \in JobMoves(jobs[r][p].status)
  /\ jobs' = [jobs EXCEPT ![r][p] = [status |-> "allocated", runner |-> n]]
  /\ UNCHANGED <<runs, lock, latestRun, runners, signals, overdue>>

\* Mutant: a running job is re-allocated too.
ReallocateLiveJob(r, p, n) ==
  /\ runners[n] = "registered"
  /\ jobs[r][p].status \in {"allocated", "running"}
  /\ jobs' = [jobs EXCEPT ![r][p].runner = n]
  /\ UNCHANGED <<runs, lock, latestRun, runners, signals, overdue>>

ReallocateJob(r, p, n) ==
  /\ runners[n] = "registered"
  /\ jobs[r][p].status = "allocated"
  /\ jobs' = [jobs EXCEPT ![r][p].runner = n]
  /\ UNCHANGED <<runs, lock, latestRun, runners, signals, overdue>>

StartJob(r, p, n) ==
  /\ jobs[r][p].runner = n
  /\ "running" \in JobMoves(jobs[r][p].status)
  /\ StartAllowed(runs[r])
  /\ jobs' = [jobs EXCEPT ![r][p].status = "running"]
  /\ runs' = [runs EXCEPT ![r] = StartRun(runs[r])]
  /\ UNCHANGED <<lock, latestRun, runners, signals, overdue>>

\* FinishJob with status finished or errored.  A report that cannot be made
\* turns a finished phase into an errored one.
FinishJob(r, p, to) ==
  /\ to \in JobMoves(jobs[r][p].status)
  /\ FinishAllowed(runs[r], p)
  /\ \E reportFails, hasChanges, costEstimation \in BOOLEAN :
       LET run == FinishRun(runs[r], p, to = "errored" \/ reportFails,
                            hasChanges, costEstimation)
           autoapply == run.status \in {"planned", "cost_estimated"}
                        /\ run.autoApply
       IN IF autoapply
          THEN /\ CreateJobAllowed(r, "apply")
               /\ runs' = [runs EXCEPT ![r] = EnqueueApplyRun(run)]
               /\ jobs' = [jobs EXCEPT ![r][p].status = to,
                                       ![r]["apply"] = NewJob]
          ELSE /\ runs' = [runs EXCEPT ![r] = run]
               /\ jobs' = [jobs EXCEPT ![r][p].status = to]
  /\ UNCHANGED <<lock, latestRun, runners, signals, overdue>>

\* FinishJob with status canceled cancels the run first, whose hook may cancel
\* the job already.  The caller is the job itself, with the token of StartJob.
FinishCanceledJob(r, p) ==
  LET run == CancelRow(runs[r], FALSE, FALSE) IN
  /\ jobs[r][p].status = "running"
  /\ runs' = [runs EXCEPT ![r] = run]
  /\ \E q \in LivePhases(r) :
       jobs' = [jobs EXCEPT ![r][q] = CancelJobRow(jobs[r][q], run),
                            ![r][p].status = "canceled"]
  /\ UNCHANGED <<lock, latestRun, runners, signals, overdue>>

(* The timeout daemon: lists runs, and cancels later those over their limit *)

TimeoutList ==
  /\ overdue = {}
  /\ overdue' \in SUBSET {r \in Run : runs[r].status \in InProgress}
  /\ UNCHANGED <<runs, jobs, lock, latestRun, runners, signals>>

\* Mutant: the daemon cancels the way a user does, with a signal.
TimeoutSignal(r) ==
  /\ r \in overdue
  /\ CancelRows(r, TRUE, FALSE)
  /\ overdue' = overdue \ {r}
  /\ UNCHANGED <<lock, latestRun, runners>>

TimeoutCancel(r) ==
  /\ r \in overdue
  /\ CancelRows(r, FALSE, FALSE)
  /\ overdue' = overdue \ {r}
  /\ UNCHANGED <<lock, latestRun, runners>>

\* Canceling a run deleted since the list was made fails: the daemon restarts.
TimeoutFails(r) ==
  /\ r \in overdue
  /\ ~Exists(r)
  /\ overdue' = {}
  /\ UNCHANGED <<runs, jobs, lock, latestRun, runners, signals>>

-----------------------------------------------------------------------------
RunStep(r) ==
  \/ CreateRun(r) \/ EnqueuePlan(r) \/ ApplyRun(r) \/ DiscardRun(r)
  \/ CancelRun(r) \/ ForceCancelRun(r) \/ DeleteRun(r)
  \/ TimeoutCancel(r) \/ TimeoutFails(r)

JobStep(r, p) ==
  \/ \E n \in Runner : AllocateJob(r, p, n) \/ ReallocateJob(r, p, n)
                       \/ StartJob(r, p, n)
  \/ \E to \in {"finished", "errored"} : FinishJob(r, p, to)
  \/ FinishCanceledJob(r, p)

LockStep(w) ==
  \/ \E u \in User : LockByUser(w, u)
  \/ \E u \in User, force \in BOOLEAN : UnlockByUser(w, u, force)
  \/ \E r \in Run : UnlockByRun(w, r)

RunnerStep(n) == RegisterRunner(n) \/ DeleteRunner(n)

Next ==
  \/ \E r \in Run : RunStep(r)
  \/ \E r \in Run, p \in PhaseType : JobStep(r, p)
  \/ \E w \in Workspace : LockStep(w)
  \/ \E n \in Runner : RunnerStep(n)
  \/ TimeoutList

Spec == Init /\ [][Next]_vars

\* The timeout daemon checks every minute, and a run that stays in progress
\* ends up over its limit, so it is listed and its cancelation attempted.
FairSpec ==
  /\ Spec
  /\ \A r \in Run : /\ SF_vars(TimeoutList /\ r \in overdue')
                     /\ WF_vars(TimeoutCancel(r))
                     /\ WF_vars(TimeoutFails(r))

-----------------------------------------------------------------------------
(* Properties *)

\* The rows have the columns and values of the schema.
TypeOK ==
  /\ runs \in [Run -> RunRow]
  /\ jobs \in [Run -> [PhaseType -> JobRow]]
  /\ lock \in [Workspace -> Run \cup User \cup {Nobody}]
  /\ latestRun \in [Workspace -> Run \cup {Nobody}]
  /\ runners \in [Runner -> {"absent", "registered", "deleted"}]
  /\ signals \subseteq [run : Run, phase : PhaseType, force : BOOLEAN]
  /\ overdue \subseteq Run

QueuedStatus(p) == IF p = "plan" THEN "plan_queued" ELSE "apply_queued"
RunningStatus(p) == IF p = "plan" THEN "planning" ELSE "applying"

\* A job that waits or runs belongs to a run that waits for, or is in, that
\* very phase: no cancelation, discard, finish or timeout leaves behind a job
\* that a runner would still pick up or work on.
LiveJobMatchesRun ==
  \A r \in Run, p \in PhaseType :
    /\ jobs[r][p].status \in {"unallocated", "allocated"} =>
         runs[r].status = QueuedStatus(p)
    /\ jobs[r][p].status = "running" => runs[r].status = RunningStatus(p)

\* The statuses of the plan and apply phases that a run's status allows.  A
\* canceled run may have been in any other end state before.
PhasesAgree(run) ==
  /\ run.status \in {"pending"} \cup Gone =>
       run.plan = "pending" /\ run.apply = "pending"
  /\ run.status = "plan_queued" => run.plan = "queued" /\ run.apply = "pending"
  /\ run.status = "planning" => run.plan = "running" /\ run.apply = "pending"
  /\ run.status \in {"planned", "cost_estimated"} =>
       run.plan = "finished" /\ run.apply = "pending"
  /\ run.status = "planned_and_finished" =>
       run.plan = "finished" /\ run.apply = "unreachable"
  /\ run.status = "apply_queued" => run.plan = "finished" /\ run.apply = "queued"
  /\ run.status = "applying" => run.plan = "finished" /\ run.apply = "running"
  /\ run.status = "applied" => run.plan = "finished" /\ run.apply = "finished"
  /\ run.status = "errored" =>
       \/ run.plan = "errored" /\ run.apply = "unreachable"
       \/ run.plan = "finished" /\ run.apply = "errored"
  /\ run.status = "discarded" =>
       run.plan \in {"pending", "finished"} /\ run.apply = "unreachable"
  /\ run.status \in {"canceled", "force_canceled"} =>
       \/ run.plan = "finished" /\ run.apply \notin {"queued", "running"}
       \/ /\ run.plan \in {"pending", "canceled", "errored", "unreachable"}
          /\ run.apply = "unreachable"
  /\ run.status = "force_canceled" =>
       \/ run.plan = "canceled"
       \/ run.plan = "finished" /\ run.apply \notin {"finished", "errored"}

\* The three tables tell one story: plans and applies agree with runs about
\* how far the run has got, whichever method wrote them last.
RunMatchesPhases == \A r \in Run : PhasesAgree(runs[r])

\* Nothing is applied that was not planned: an apply job exists only for a run
\* that is not speculative and whose plan ran to its end, and a job of the
\* plan, unless it was purged with its runner, finished.
ApplyFollowsPlan ==
  \A r \in Run : jobs[r]["apply"].status # "absent" =>
    /\ ~runs[r].planOnly
    /\ runs[r].plan = "finished"
    /\ jobs[r]["plan"].status \in {"finished", "absent"}

\* A run that holds the lock of a workspace is the latest run of that same
\* workspace, has been enqueued, and is not speculative; a deleted run holds
\* no lock.
LockingRunIsLatest ==
  \A w \in Workspace : lock[w] \in Run =>
    /\ latestRun[w] = lock[w]
    /\ runs[lock[w]].workspace = w
    /\ ~runs[lock[w]].planOnly
    /\ runs[lock[w]].status \notin Gone \cup {"pending"}

\* A job is worked on by one runner: once started, it never moves to another
\* runner and is never started again, whatever the allocator does.
StartedOnce ==
  [][\A r \in Run, p \in PhaseType :
       jobs[r][p].status \in JobDone \cup {"running"} /\ jobs'[r][p].status # "absent"
         => /\ jobs'[r][p].runner = jobs[r][p].runner
            /\ jobs'[r][p].status \in JobDone \cup {jobs[r][p].status}]_vars

\* A run that has reached an end state never becomes active again.
DoneStaysDone ==
  [][\A r \in Run : runs[r].status \in Done =>
       runs'[r].status \in Done \cup {"deleted"}]_vars

\* Whatever becomes of its runner, a run does not plan or apply for ever: the
\* timeout daemon ends it.
InProgressEnds ==
  \A r \in Run, p \in PhaseType :
    runs[r].status = RunningStatus(p) ~> runs[r].status # RunningStatus(p)

-----------------------------------------------------------------------------
(* The abstract view of these rows *)

LifecycleStatus(status) ==
  CASE status \in Done \ {"canceled"} -> "ended"
    [] status \in {"plan_queued", "planning", "planned", "apply_queued",
                   "applying"} -> "active"
    [] OTHER -> status

LifecycleRow(run) ==
  [status |-> LifecycleStatus(run.status), planOnly |-> run.planOnly,
   workspace |-> run.workspace]

LifecycleRows == [r \in Run |-> LifecycleRow(runs[r])]

Lifecycle == INSTANCE RunLifecycle WITH
  rows <- LifecycleRows, workspaces <- Workspace

\* To the scheduler the service looks like RunLifecycle: every method is one
\* step of a run's life or of its workspace's lock, or leaves both unchanged.
ImplementsLifecycle == Lifecycle!DbSpec

-----------------------------------------------------------------------------
(* What comments of the code say, and the code does not do *)

\* A run in progress that a user has asked to cancel has had a signal sent to
\* the job that executes it.
SignaledRunHasSignaledJob ==
  \A r \in Run, p \in PhaseType :
    runs[r].cancelSignaled /\ jobs[r][p].status = "running" =>
      \E s \in signals : s.run = r /\ s.phase = p
=============================================================================
