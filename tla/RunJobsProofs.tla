--------------------------- MODULE RunJobsProofs ---------------------------
(***************************************************************************)
(* Proofs about RunJobs, for any sets of runs, workspaces, runners, users. *)
(***************************************************************************)
EXTENDS RunJobs, TLAPS

-----------------------------------------------------------------------------
(* What the operations on one row return *)

\* The methods of Run turn a row of table runs into a row of table runs.
LEMMA RunOpsType ==
  ASSUME NEW run \in RunRow,
         NEW isUser \in BOOLEAN, NEW force \in BOOLEAN, NEW phase \in PhaseType,
         NEW errored \in BOOLEAN, NEW changes \in BOOLEAN, NEW cost \in BOOLEAN,
         run.status \notin Gone
  PROVE  /\ EnqueuePlanRun(run) \in RunRow
         /\ EnqueueApplyRun(run) \in RunRow
         /\ StartRun(run) \in RunRow
         /\ DiscardRow(run) \in RunRow
         /\ CancelRow(run, isUser, force) \in RunRow
         /\ FinishRun(run, phase, errored, changes, cost) \in RunRow
<1> USE DEF RunRow, RunStatus, Done, Unfinished, Gone, PhaseStatus, PhaseDone
<1>1. EnqueuePlanRun(run) \in RunRow /\ EnqueueApplyRun(run) \in RunRow
  BY DEF EnqueuePlanRun, EnqueueApplyRun
<1>2. StartRun(run) \in RunRow /\ DiscardRow(run) \in RunRow
  BY DEF StartRun, DiscardRow
<1>3. CancelRow(run, isUser, force) \in RunRow
  <2>1. CanceledPlan(run) \in PhaseStatus /\ CanceledApply(run) \in PhaseStatus
    BY DEF CanceledPlan, CanceledApply
  <2>2. CASE AsksSignal(run, isUser, force)
    <3>1. CancelRow(run, isUser, force) = [run EXCEPT !.cancelSignaled = TRUE]
      BY <2>2 DEF CancelRow
    <3> QED BY <3>1
  <2>3. CASE ~AsksSignal(run, isUser, force)
    <3>1. PICK status \in {"force_canceled", "canceled"} :
            CancelRow(run, isUser, force) =
              [run EXCEPT !.status = status, !.plan = CanceledPlan(run),
                          !.apply = CanceledApply(run)]
      BY <2>3 DEF CancelRow
    <3> QED BY <2>1, <3>1
  <2> QED BY <2>2, <2>3
<1>4. FinishRun(run, phase, errored, changes, cost) \in RunRow
  <2>1. CASE run.status = "canceled"
    BY <2>1 DEF FinishRun
  <2>2. CASE run.status # "canceled" /\ phase = "plan"
    BY <2>2 DEF FinishRun
  <2>3. CASE run.status # "canceled" /\ phase = "apply"
    BY <2>3 DEF FinishRun
  <2> QED BY <2>1, <2>2, <2>3 DEF PhaseType
<1> QED BY <1>1, <1>2, <1>3, <1>4

-----------------------------------------------------------------------------
(* The inductive invariant, as a predicate of one run and its two jobs *)

\* A live job belongs to a run that waits for, or is in, the job's phase.
JobAgrees(run, job) ==
  \A p \in PhaseType :
    /\ job[p].status \in {"unallocated", "allocated"} => run.status = QueuedStatus(p)
    /\ job[p].status = "running" => run.status = RunningStatus(p)

\* An apply job follows a finished plan.
ApplyAgrees(run, job) ==
  job["apply"].status # "absent" =>
    /\ ~run.planOnly
    /\ run.plan = "finished"
    /\ job["plan"].status \in {"finished", "absent"}

\* What the guards of the code remember about the past of a run.
PastAgrees(run, job) ==
  /\ run.status \notin Gone => run.workspace \in Workspace
  /\ run.status = "pending" => ~run.cancelSignaled
  /\ run.status \in {"planned", "cost_estimated"} => ~run.planOnly
  /\ run.plan = "finished" => job["plan"].status \in {"finished", "absent"}

\* A deleted run, or one yet to be created, has no job.
GoneAgrees(run, job) ==
  run.status \in Gone => \A p \in PhaseType : job[p].status = "absent"

RowsAgree(run, job) ==
  /\ run \in RunRow
  /\ job \in [PhaseType -> JobRow]
  /\ PhasesAgree(run)
  /\ JobAgrees(run, job)
  /\ ApplyAgrees(run, job)
  /\ PastAgrees(run, job)
  /\ GoneAgrees(run, job)

\* EnqueuePlan of a pending run creates the plan job the run then waits for.
LEMMA EnqueuePlanAgrees ==
  ASSUME NEW run, NEW job, RowsAgree(run, job),
         EnqueuePlanAllowed(run), job["plan"].status = "absent"
  PROVE  RowsAgree(EnqueuePlanRun(run), [job EXCEPT !["plan"] = NewJob])
<1> DEFINE run1 == EnqueuePlanRun(run)
           job1 == [job EXCEPT !["plan"] = NewJob]
<1> USE DEF RowsAgree, EnqueuePlanAllowed
<1>1. run1 \in RunRow
  BY RunOpsType DEF Gone, PhaseType
<1>2. job1 \in [PhaseType -> JobRow]
  BY DEF NewJob, JobRow, JobStatus, JobLive, PhaseType
<1>3. /\ run1.status = "plan_queued" /\ run1.plan = "queued"
      /\ run1.apply = run.apply /\ run1.workspace = run.workspace
  BY DEF EnqueuePlanRun, RunRow
<1>4. job1["plan"] = NewJob /\ job1["apply"] = job["apply"]
  BY DEF PhaseType
<1>5. PhasesAgree(run1)
  BY <1>3 DEF PhasesAgree, Gone
<1>6. JobAgrees(run1, job1)
  BY <1>3, <1>4 DEF JobAgrees, NewJob, QueuedStatus, RunningStatus, PhaseType
<1>7. ApplyAgrees(run1, job1)
  BY <1>4 DEF ApplyAgrees, PhasesAgree
<1>8. PastAgrees(run1, job1) /\ GoneAgrees(run1, job1)
  BY <1>3 DEF PastAgrees, GoneAgrees, Gone
<1> QED BY <1>1, <1>2, <1>5, <1>6, <1>7, <1>8

\* EnqueueApply of a planned run creates the apply job it then waits for.
LEMMA EnqueueApplyAgrees ==
  ASSUME NEW run, NEW job, RowsAgree(run, job),
         EnqueueApplyAllowed(run), job["apply"].status = "absent"
  PROVE  RowsAgree(EnqueueApplyRun(run), [job EXCEPT !["apply"] = NewJob])
<1> DEFINE run1 == EnqueueApplyRun(run)
           job1 == [job EXCEPT !["apply"] = NewJob]
<1> USE DEF RowsAgree, EnqueueApplyAllowed
<1>1. run1 \in RunRow
  BY RunOpsType DEF Gone, PhaseType
<1>2. job1 \in [PhaseType -> JobRow]
  BY DEF NewJob, JobRow, JobStatus, JobLive, PhaseType
<1>3. /\ run1.status = "apply_queued" /\ run1.apply = "queued"
      /\ run1.plan = run.plan /\ run1.workspace = run.workspace
      /\ run1.planOnly = run.planOnly
  BY DEF EnqueueApplyRun, RunRow
<1>4. job1["apply"] = NewJob /\ job1["plan"] = job["plan"]
  BY DEF PhaseType
<1>5. run.plan = "finished"
  BY DEF PhasesAgree
<1>6. PhasesAgree(run1)
  BY <1>3, <1>5 DEF PhasesAgree, Gone
<1>7. job["plan"].status \in {"finished", "absent"} /\ ~run.planOnly
  BY <1>5 DEF PastAgrees
<1>8. JobAgrees(run1, job1)
  BY <1>3, <1>4, <1>7 DEF JobAgrees, NewJob, QueuedStatus, RunningStatus, PhaseType
<1>9. ApplyAgrees(run1, job1)
  BY <1>3, <1>4, <1>5, <1>7 DEF ApplyAgrees
<1>10. PastAgrees(run1, job1) /\ GoneAgrees(run1, job1)
  BY <1>3, <1>4, <1>7 DEF PastAgrees, GoneAgrees, Gone
<1> QED BY <1>1, <1>2, <1>6, <1>8, <1>9, <1>10

\* StartRun looks at the run's status alone; that the job's phase is the one it
\* starts follows from JobAgrees.
LEMMA StartAgrees ==
  ASSUME NEW run, NEW job, RowsAgree(run, job), NEW p \in PhaseType,
         job[p].status = "allocated", StartAllowed(run)
  PROVE  RowsAgree(StartRun(run), [job EXCEPT ![p].status = "running"])
<1> DEFINE run1 == StartRun(run)
           job1 == [job EXCEPT ![p].status = "running"]
<1> USE DEF RowsAgree
<1>1. run.status = QueuedStatus(p)
  BY DEF JobAgrees
<1>2. run1 \in RunRow
  BY <1>1, RunOpsType DEF Gone, QueuedStatus
<1>3. /\ job1 \in [PhaseType -> JobRow]
      /\ job1[p].status = "running"
      /\ \A q \in PhaseType \ {p} : job1[q] = job[q]
  BY DEF JobRow, JobStatus, JobLive
<1>4. /\ run1.status = RunningStatus(p)
      /\ run1.plan = IF p = "plan" THEN "running" ELSE run.plan
      /\ run1.apply = IF p = "plan" THEN run.apply ELSE "running"
      /\ run1.planOnly = run.planOnly /\ run1.workspace = run.workspace
  BY <1>1 DEF StartRun, RunRow, QueuedStatus, RunningStatus, PhaseType
<1>5. PhasesAgree(run1)
  BY <1>1, <1>4 DEF PhasesAgree, Gone, QueuedStatus, RunningStatus, PhaseType
<1>6. JobAgrees(run1, job1)
  BY <1>1, <1>3, <1>4 DEF JobAgrees, QueuedStatus, RunningStatus, PhaseType
<1>7. ApplyAgrees(run1, job1)
  BY <1>1, <1>3, <1>4 DEF ApplyAgrees, PhasesAgree, QueuedStatus, PhaseType
<1>8. PastAgrees(run1, job1) /\ GoneAgrees(run1, job1)
  BY <1>1, <1>3, <1>4
  DEF PastAgrees, PhasesAgree, GoneAgrees, Gone, QueuedStatus, RunningStatus, PhaseType
<1> QED BY <1>2, <1>3, <1>5, <1>6, <1>7, <1>8

\* A run that may be discarded has no live job to leave behind.
LEMMA DiscardAgrees ==
  ASSUME NEW run, NEW job, RowsAgree(run, job), Discardable(run)
  PROVE  RowsAgree(DiscardRow(run), job)
<1> DEFINE run1 == DiscardRow(run)
<1> USE DEF RowsAgree, Discardable
<1>1. run1 \in RunRow
  BY RunOpsType DEF Gone, PhaseType
<1>2. /\ run1.status = "discarded" /\ run1.apply = "unreachable"
      /\ run1.plan = run.plan /\ run1.workspace = run.workspace
      /\ run1.planOnly = run.planOnly
  BY DEF DiscardRow, RunRow
<1>3. PhasesAgree(run1)
  BY <1>2 DEF PhasesAgree, Gone
<1>4. JobAgrees(run1, job)
  BY <1>2 DEF JobAgrees, QueuedStatus, RunningStatus, PhaseType
<1>5. ApplyAgrees(run1, job) /\ PastAgrees(run1, job) /\ GoneAgrees(run1, job)
  BY <1>2 DEF ApplyAgrees, PastAgrees, GoneAgrees, Gone
<1> QED BY <1>1, <1>3, <1>4, <1>5

\* What a cancelation that does not ask for a signal makes of a run.
LEMMA CanceledRow ==
  ASSUME NEW run, NEW job, RowsAgree(run, job), run.status \notin Gone,
         NEW isUser \in BOOLEAN, NEW force \in BOOLEAN,
         ~AsksSignal(run, isUser, force), force => ForceCancelable(run)
  PROVE  LET run1 == CancelRow(run, isUser, force) IN
         /\ run1 \in RunRow
         /\ run1.status = IF force THEN "force_canceled" ELSE "canceled"
         /\ run1.planOnly = run.planOnly
         /\ run1.workspace = run.workspace
         /\ run1.plan = "finished" <=> run.plan = "finished"
         /\ PhasesAgree(run1)
<1> DEFINE run1 == CancelRow(run, isUser, force)
<1> USE DEF RowsAgree
<1>1. run1 \in RunRow
  BY RunOpsType DEF PhaseType
<1>2. PICK status : /\ status = IF force THEN "force_canceled" ELSE "canceled"
                    /\ run1 = [run EXCEPT !.status = status,
                                          !.plan = CanceledPlan(run),
                                          !.apply = CanceledApply(run)]
  BY DEF CancelRow
<1>3. /\ run1.status = status /\ run1.planOnly = run.planOnly
      /\ run1.workspace = run.workspace
      /\ run1.plan = CanceledPlan(run) /\ run1.apply = CanceledApply(run)
  BY <1>2 DEF RunRow
<1>4. run1.plan = "finished" <=> run.plan = "finished"
  BY <1>3 DEF CanceledPlan, PhasesAgree
<1>5. force => run.status \in Unfinished \ {"pending"}
  BY DEF ForceCancelable, PastAgrees
<1>6. status \in {"canceled", "force_canceled"} /\ (status = "force_canceled" <=> force)
  BY <1>2
<1>7. run.status \in Done \cup Unfinished
  BY DEF RunRow, RunStatus
<1>8. PhasesAgree(run1)
  BY <1>3, <1>5, <1>6, <1>7
  DEF CanceledPlan, CanceledApply, PhasesAgree, Gone, Done, Unfinished
<1> QED BY <1>1, <1>2, <1>3, <1>4, <1>8

\* Two live jobs of one run would put the run in two statuses.
LEMMA OneLiveJob ==
  ASSUME NEW run, NEW job, RowsAgree(run, job),
         NEW p \in PhaseType, NEW q \in PhaseType,
         job[p].status \in JobLive, job[q].status \in JobLive
  PROVE  p = q
BY DEF RowsAgree, JobAgrees, JobLive, QueuedStatus, RunningStatus, PhaseType

\* A job whose run has ended may be any job that is not live.
LEMMA EndedAgrees ==
  ASSUME NEW run, NEW job, RowsAgree(run, job), NEW run1, NEW job1,
         run1 \in RunRow, job1 \in [PhaseType -> JobRow], PhasesAgree(run1),
         run1.status \in {"canceled", "force_canceled"},
         run1.planOnly = run.planOnly, run1.workspace = run.workspace,
         run1.plan = "finished" <=> run.plan = "finished",
         run.status \notin Gone,
         \A p \in PhaseType :
           \/ job1[p] = job[p] /\ job[p].status \notin JobLive
           \/ job[p].status \in JobLive /\ job1[p].status = "canceled"
  PROVE  RowsAgree(run1, job1)
<1> USE DEF RowsAgree
<1>1. JobAgrees(run1, job1)
  BY DEF JobAgrees, JobLive
<1>2. "plan" \in PhaseType /\ "apply" \in PhaseType
  BY DEF PhaseType
<1>3. ApplyAgrees(run1, job1)
  <2>1. CASE job["apply"].status # "absent"
    BY <1>2, <2>1 DEF ApplyAgrees, JobLive
  <2>2. CASE job["apply"].status = "absent"
    BY <1>2, <2>2 DEF ApplyAgrees, JobLive
  <2> QED BY <2>1, <2>2
<1>4. PastAgrees(run1, job1) /\ GoneAgrees(run1, job1)
  BY <1>2 DEF PastAgrees, GoneAgrees, JobLive, Gone
<1> QED BY <1>1, <1>3, <1>4

\* CancelRun, ForceCancelRun and the timeout, with the job hook and without.
LEMMA CancelAgrees ==
  ASSUME NEW run, NEW job, RowsAgree(run, job), run.status \notin Gone,
         NEW isUser \in BOOLEAN, NEW force \in BOOLEAN,
         CancelAllowed(run, isUser, force)
  PROVE  LET run1 == CancelRow(run, isUser, force) IN
         /\ (\A p \in PhaseType : job[p].status \notin JobLive) => RowsAgree(run1, job)
         /\ \A q \in PhaseType : job[q].status \in JobLive =>
              RowsAgree(run1, [job EXCEPT ![q] = CancelJobRow(job[q], run1)])
<1> DEFINE run1 == CancelRow(run, isUser, force)
           job1(q) == [job EXCEPT ![q] = CancelJobRow(job[q], run1)]
<1>1. CASE AsksSignal(run, isUser, force)
  <2>1. run1 = [run EXCEPT !.cancelSignaled = TRUE]
    BY <1>1 DEF CancelRow
  <2>2. /\ run1.status = run.status /\ run1.plan = run.plan
        /\ run1.apply = run.apply /\ run1.planOnly = run.planOnly
        /\ run1.workspace = run.workspace /\ run1 \in RunRow
    BY <2>1 DEF RowsAgree, RunRow
  <2>3. run.status \in {"planning", "applying"}
    BY <1>1 DEF AsksSignal, InProgress
  <2>4. RowsAgree(run1, job)
    BY <2>2, <2>3
    DEF RowsAgree, PhasesAgree, JobAgrees, ApplyAgrees, PastAgrees, GoneAgrees
  <2>5. ASSUME NEW q \in PhaseType PROVE job1(q) = job
    BY <2>2, <2>3 DEF CancelJobRow, RowsAgree
  <2> QED BY <2>4, <2>5
<1>2. CASE ~AsksSignal(run, isUser, force)
  <2>1. force => ForceCancelable(run)
    BY DEF CancelAllowed
  <2>2. /\ run1 \in RunRow
        /\ run1.status \in {"canceled", "force_canceled"}
        /\ run1.planOnly = run.planOnly
        /\ run1.workspace = run.workspace
        /\ run1.plan = "finished" <=> run.plan = "finished"
        /\ PhasesAgree(run1)
    BY <1>2, <2>1, CanceledRow
  <2>3. (\A p \in PhaseType : job[p].status \notin JobLive) => RowsAgree(run1, job)
    BY <2>2, EndedAgrees DEF RowsAgree
  <2>4. ASSUME NEW q \in PhaseType, job[q].status \in JobLive
        PROVE  RowsAgree(run1, job1(q))
    <3>1. job \in [PhaseType -> JobRow]
      BY DEF RowsAgree
    <3>2. CancelJobRow(job[q], run1) = [job[q] EXCEPT !.status = "canceled"]
      BY <2>2 DEF CancelJobRow
    <3>3. job1(q) \in [PhaseType -> JobRow] /\ job1(q)[q].status = "canceled"
      BY <3>1, <3>2 DEF JobRow, JobStatus, JobDone
    <3>4. ASSUME NEW p \in PhaseType, p # q
          PROVE  job1(q)[p] = job[p] /\ job[p].status \notin JobLive
      BY <2>4, <3>1, <3>4, OneLiveJob
    <3> HIDE DEF job1, run1
    <3>5. \A p \in PhaseType :
            \/ job1(q)[p] = job[p] /\ job[p].status \notin JobLive
            \/ job[p].status \in JobLive /\ job1(q)[p].status = "canceled"
      BY <2>4, <3>3, <3>4
    <3> QED BY <2>2, <3>3, <3>5, EndedAgrees
  <2> QED BY <2>3, <2>4
<1> QED BY <1>1, <1>2

\* FinishJob with status finished or errored, before an apply is enqueued.
LEMMA FinishAgrees ==
  ASSUME NEW run, NEW job, RowsAgree(run, job), NEW p \in PhaseType,
         job[p].status = "running",
         NEW to \in {"finished", "errored"}, NEW errored \in BOOLEAN,
         NEW changes \in BOOLEAN, NEW cost \in BOOLEAN,
         to = "errored" => errored
  PROVE  RowsAgree(FinishRun(run, p, errored, changes, cost),
                   [job EXCEPT ![p].status = to])
<1> DEFINE run1 == FinishRun(run, p, errored, changes, cost)
           job1 == [job EXCEPT ![p].status = to]
<1> USE DEF RowsAgree
<1>1. run.status = RunningStatus(p)
  BY DEF JobAgrees
<1>2. run1 \in RunRow
  BY <1>1, RunOpsType DEF Gone, RunningStatus
<1>3. /\ job1 \in [PhaseType -> JobRow]
      /\ job1[p].status = to
      /\ \A q \in PhaseType \ {p} : job1[q] = job[q]
  BY DEF JobRow, JobStatus, JobDone
<1>4. /\ \A q \in PhaseType \ {p} : job[q].status \notin JobLive
      /\ \A q \in PhaseType : job1[q].status \notin JobLive
  BY <1>3, OneLiveJob DEF JobLive
<1>5. CASE p = "plan"
  <2>1. job["apply"].status = "absent"
    BY <1>1, <1>5 DEF ApplyAgrees, PhasesAgree, RunningStatus
  <2>2. CASE errored
    <3>1. /\ run1.status = "errored" /\ run1.plan = "errored"
          /\ run1.apply = "unreachable" /\ run1.workspace = run.workspace
      BY <1>1, <1>5, <2>2 DEF FinishRun, RunRow, RunningStatus
    <3> QED
      BY <1>1, <1>2, <1>3, <1>4, <1>5, <2>1, <3>1
      DEF PhasesAgree, JobAgrees, ApplyAgrees, PastAgrees, GoneAgrees, Gone,
          JobLive, PhaseType, RunningStatus
  <2>3. CASE ~errored
    <3>1. to = "finished"
      BY <2>3
    <3>2. /\ run1.plan = "finished" /\ run1.workspace = run.workspace
          /\ run1.planOnly = run.planOnly
          /\ \/ run1.status = "planned_and_finished" /\ run1.apply = "unreachable"
             \/ /\ run1.status \in {"planned", "cost_estimated"}
                /\ run1.apply = run.apply /\ ~run.planOnly
      BY <1>1, <1>5, <2>3 DEF FinishRun, RunRow, RunningStatus
    <3>3. run.apply = "pending"
      BY <1>1, <1>5 DEF PhasesAgree, RunningStatus
    <3>4. PhasesAgree(run1)
      BY <3>2, <3>3 DEF PhasesAgree, Gone
    <3>5. JobAgrees(run1, job1)
      BY <1>4 DEF JobAgrees, JobLive
    <3>6. ApplyAgrees(run1, job1)
      BY <1>3, <1>5, <2>1 DEF ApplyAgrees, PhaseType
    <3>7. PastAgrees(run1, job1) /\ GoneAgrees(run1, job1)
      BY <1>1, <1>3, <1>5, <3>1, <3>2
      DEF PastAgrees, GoneAgrees, Gone, PhaseType, RunningStatus
    <3> QED BY <1>2, <1>3, <3>4, <3>5, <3>6, <3>7
  <2> QED BY <2>2, <2>3
<1>6. CASE p = "apply"
  <2>1. /\ run1.status \in {"errored", "applied"}
        /\ run1.apply = IF run1.status = "errored" THEN "errored" ELSE "finished"
        /\ run1.plan = run.plan /\ run1.workspace = run.workspace
        /\ run1.planOnly = run.planOnly
    BY <1>1, <1>6 DEF FinishRun, RunRow, RunningStatus
  <2>2. run.plan = "finished"
    BY <1>1, <1>6 DEF PhasesAgree, RunningStatus
  <2>3. PhasesAgree(run1)
    BY <2>1, <2>2 DEF PhasesAgree, Gone
  <2>4. JobAgrees(run1, job1)
    BY <1>4 DEF JobAgrees, JobLive
  <2>5. ApplyAgrees(run1, job1) /\ PastAgrees(run1, job1) /\ GoneAgrees(run1, job1)
    BY <1>1, <1>3, <1>6, <2>1, <2>2
    DEF ApplyAgrees, PastAgrees, GoneAgrees, Gone, PhaseType, RunningStatus
  <2> QED BY <1>2, <1>3, <2>3, <2>4, <2>5
<1> QED BY <1>5, <1>6 DEF PhaseType

\* No method takes a run back to pending, moves it to another workspace or
\* changes whether it is speculative.
Onward(run, run1) ==
  /\ run1.status \notin Gone \cup {"pending"}
  /\ run1.workspace = run.workspace
  /\ run1.planOnly = run.planOnly

\* Every method of Run that changes a run takes it onward.
LEMMA RunOpsOnward ==
  ASSUME NEW run \in RunRow,
         NEW isUser \in BOOLEAN, NEW force \in BOOLEAN, NEW phase \in PhaseType,
         NEW errored \in BOOLEAN, NEW changes \in BOOLEAN, NEW cost \in BOOLEAN
  PROVE  /\ Onward(run, EnqueuePlanRun(run))
         /\ Onward(run, EnqueueApplyRun(run))
         /\ Onward(run, StartRun(run))
         /\ Onward(run, DiscardRow(run))
         /\ run.status \notin Gone => Onward(run, CancelRow(run, isUser, force))
         /\ run.status = RunningStatus(phase) =>
              Onward(run, FinishRun(run, phase, errored, changes, cost))
<1> USE DEF RunRow, Onward, Gone
<1>1. Onward(run, EnqueuePlanRun(run)) /\ Onward(run, EnqueueApplyRun(run))
  BY DEF EnqueuePlanRun, EnqueueApplyRun
<1>2. Onward(run, StartRun(run)) /\ Onward(run, DiscardRow(run))
  BY DEF StartRun, DiscardRow
<1>3. ASSUME run.status \notin Gone
      PROVE  Onward(run, CancelRow(run, isUser, force))
  <2>1. CASE AsksSignal(run, isUser, force)
    <3>1. CancelRow(run, isUser, force) = [run EXCEPT !.cancelSignaled = TRUE]
      BY <2>1 DEF CancelRow
    <3>2. run.status # "pending"
      BY <2>1 DEF AsksSignal, InProgress
    <3> QED BY <1>3, <3>1, <3>2
  <2>2. CASE ~AsksSignal(run, isUser, force)
    <3>1. PICK status \in {"force_canceled", "canceled"} :
            CancelRow(run, isUser, force) =
              [run EXCEPT !.status = status, !.plan = CanceledPlan(run),
                          !.apply = CanceledApply(run)]
      BY <2>2 DEF CancelRow
    <3> QED BY <3>1
  <2> QED BY <2>1, <2>2
<1>4. ASSUME run.status = RunningStatus(phase)
      PROVE  Onward(run, FinishRun(run, phase, errored, changes, cost))
  BY <1>4 DEF FinishRun, RunningStatus, PhaseType
<1> QED BY <1>1, <1>2, <1>3, <1>4

-----------------------------------------------------------------------------
(* The inductive invariant of the specification *)

IndInv ==
  /\ TypeOK
  /\ \A r \in Run : RowsAgree(runs[r], jobs[r])
  /\ LockingRunIsLatest

\* Updating the rows of one run with rows that agree keeps all rows agreeing,
\* and the locks with them when the locks are left alone.
LEMMA RowUpdate ==
  ASSUME IndInv, NEW r \in Run, NEW run1, NEW job1, RowsAgree(run1, job1),
         runs' = [runs EXCEPT ![r] = run1], jobs' = [jobs EXCEPT ![r] = job1]
  PROVE  /\ runs' \in [Run -> RunRow] /\ jobs' \in [Run -> [PhaseType -> JobRow]]
         /\ \A s \in Run : RowsAgree(runs'[s], jobs'[s])
         /\ Onward(runs[r], run1) /\ UNCHANGED <<lock, latestRun>> =>
              LockingRunIsLatest'
<1>1. /\ runs' \in [Run -> RunRow] /\ jobs' \in [Run -> [PhaseType -> JobRow]]
      /\ runs'[r] = run1 /\ jobs'[r] = job1
      /\ \A s \in Run \ {r} : runs'[s] = runs[s] /\ jobs'[s] = jobs[s]
  BY DEF IndInv, TypeOK, RowsAgree
<1>2. \A s \in Run : RowsAgree(runs'[s], jobs'[s])
  BY <1>1 DEF IndInv
<1>3. ASSUME Onward(runs[r], run1), UNCHANGED <<lock, latestRun>>,
             NEW w \in Workspace, lock'[w] \in Run
      PROVE  /\ latestRun'[w] = lock'[w]
             /\ runs'[lock'[w]].workspace = w
             /\ ~runs'[lock'[w]].planOnly
             /\ runs'[lock'[w]].status \notin Gone \cup {"pending"}
  <2>1. CASE lock[w] = r
    BY <1>1, <1>3, <2>1 DEF IndInv, LockingRunIsLatest, Onward
  <2>2. CASE lock[w] # r
    BY <1>1, <1>3, <2>2 DEF IndInv, LockingRunIsLatest
  <2> QED BY <2>1, <2>2
<1> QED BY <1>1, <1>2, <1>3 DEF LockingRunIsLatest

\* Operations on jobs alone: every job keeps its status, or moves among the
\* statuses that its run's status allows, or disappears.
LEMMA JobUpdateAgrees ==
  ASSUME NEW run, NEW job, RowsAgree(run, job), NEW job1 \in [PhaseType -> JobRow],
         \A p \in PhaseType :
           \/ job1[p].status \in {job[p].status, "absent"}
           \/ job[p].status = "unallocated" /\ job1[p].status = "allocated"
  PROVE  RowsAgree(run, job1)
<1> USE DEF RowsAgree
<1>1. "plan" \in PhaseType /\ "apply" \in PhaseType
  BY DEF PhaseType
<1>2. JobAgrees(run, job1)
  BY DEF JobAgrees
<1>3. ApplyAgrees(run, job1) /\ PastAgrees(run, job1) /\ GoneAgrees(run, job1)
  BY <1>1 DEF ApplyAgrees, PastAgrees, GoneAgrees
<1> QED BY <1>2, <1>3

-----------------------------------------------------------------------------
(* One lemma per family of actions *)

\* The invariant holds of the empty tables.
LEMMA InitInv == Init => IndInv
<1> SUFFICES ASSUME Init PROVE IndInv
  OBVIOUS
<1>1. ASSUME NEW r \in Run
      PROVE  /\ runs[r] = NoRun("absent") /\ runs[r] \in RunRow
             /\ jobs[r] = [p \in PhaseType |-> NoJob]
             /\ jobs[r] \in [PhaseType -> JobRow]
  BY DEF Init, NoRun, NoJob, RunRow, RunStatus, Gone, PhaseStatus, JobRow, JobStatus
<1>2. TypeOK
  BY <1>1 DEF Init, TypeOK
<1>3. ASSUME NEW r \in Run PROVE RowsAgree(runs[r], jobs[r])
  BY <1>1
  DEF RowsAgree, PhasesAgree, JobAgrees, ApplyAgrees, PastAgrees, GoneAgrees,
      NoRun, NoJob, Gone, PhaseType
<1>4. LockingRunIsLatest
  BY ConstantsAssumption DEF Init, LockingRunIsLatest
<1> QED BY <1>2, <1>3, <1>4 DEF IndInv

\* CreateRun preserves the invariant.
LEMMA CreateRunInv ==
  ASSUME IndInv, NEW r \in Run, CreateRun(r)
  PROVE  IndInv'
<1>1. PICK w \in Workspace, planOnly \in BOOLEAN, autoApply \in BOOLEAN :
        runs' = [runs EXCEPT ![r] = NewRun(w, planOnly, autoApply)]
  BY DEF CreateRun
<1> DEFINE run1 == NewRun(w, planOnly, autoApply)
<1>2. run1 \in RunRow
  BY DEF NewRun, RunRow, RunStatus, Unfinished, PhaseStatus
<1>3. runs[r].status = "absent" /\ RowsAgree(runs[r], jobs[r])
  BY DEF CreateRun, IndInv
<1>4. RowsAgree(run1, jobs[r])
  BY <1>2, <1>3
  DEF RowsAgree, PhasesAgree, JobAgrees, ApplyAgrees, PastAgrees, GoneAgrees,
      NewRun, Gone, PhaseType
<1>5. jobs' = [jobs EXCEPT ![r] = jobs[r]]
  BY DEF CreateRun, IndInv, TypeOK
<1>6. LockingRunIsLatest'
  <2>1. \A s \in Run \ {r} : runs'[s] = runs[s]
    BY <1>1 DEF IndInv, TypeOK
  <2>2. \A v \in Workspace : lock[v] # r
    BY <1>3 DEF IndInv, LockingRunIsLatest, Gone
  <2> QED BY <2>1, <2>2 DEF CreateRun, IndInv, LockingRunIsLatest
<1>7. runs' = [runs EXCEPT ![r] = run1]
  BY <1>1
<1> HIDE DEF run1
<1> QED BY <1>4, <1>5, <1>6, <1>7, RowUpdate DEF CreateRun, IndInv, TypeOK

\* EnqueuePlan preserves the invariant: only a run takes the lock over.
LEMMA EnqueuePlanInv ==
  ASSUME IndInv, NEW r \in Run, EnqueuePlan(r)
  PROVE  IndInv'
<1> DEFINE run1 == EnqueuePlanRun(runs[r])
           job1 == [jobs[r] EXCEPT !["plan"] = NewJob]
           w == runs[r].workspace
<1>1. RowsAgree(runs[r], jobs[r]) /\ runs[r] \in RunRow
  BY DEF IndInv, RowsAgree
<1>2. RowsAgree(run1, job1)
  BY <1>1, EnqueuePlanAgrees DEF EnqueuePlan, CreateJobAllowed
<1>3. runs' = [runs EXCEPT ![r] = run1] /\ jobs' = [jobs EXCEPT ![r] = job1]
  BY DEF EnqueuePlan
<1>4. Onward(runs[r], run1)
  BY <1>1, RunOpsOnward DEF PhaseType
<1> HIDE DEF run1, job1
<1>5. CASE runs[r].planOnly
  BY <1>2, <1>3, <1>4, <1>5, RowUpdate DEF EnqueuePlan, IndInv, TypeOK
<1>6. CASE ~runs[r].planOnly
  <2>1. w \in Workspace
    BY <1>1 DEF EnqueuePlan, EnqueuePlanAllowed, RowsAgree, PastAgrees, Gone
  <2>2. /\ lock' = [lock EXCEPT ![w] = r]
        /\ latestRun' = [latestRun EXCEPT ![w] = r]
    BY <1>6 DEF EnqueuePlan
  <2>3. lock' \in [Workspace -> Run \cup User \cup {Nobody}]
        /\ latestRun' \in [Workspace -> Run \cup {Nobody}]
    BY <2>1, <2>2 DEF IndInv, TypeOK
  <2>4. runs'[r] = run1 /\ \A s \in Run \ {r} : runs'[s] = runs[s]
    BY <1>3 DEF IndInv, TypeOK
  <2>5. ASSUME NEW v \in Workspace, lock'[v] \in Run
        PROVE  /\ latestRun'[v] = lock'[v]
               /\ runs'[lock'[v]].workspace = v
               /\ ~runs'[lock'[v]].planOnly
               /\ runs'[lock'[v]].status \notin Gone \cup {"pending"}
    <3>1. CASE v = w
      <4>1. lock'[v] = r /\ latestRun'[v] = r
        BY <2>1, <2>2, <3>1 DEF IndInv, TypeOK
      <4> QED BY <1>4, <1>6, <2>4, <3>1, <4>1 DEF Onward
    <3>2. CASE v # w
      <4>1. lock'[v] = lock[v] /\ latestRun'[v] = latestRun[v]
        BY <2>1, <2>2, <3>2 DEF IndInv, TypeOK
      <4>2. lock[v] # r
        BY <3>2, <4>1, <2>5 DEF IndInv, LockingRunIsLatest
      <4> QED BY <2>4, <2>5, <4>1, <4>2 DEF IndInv, LockingRunIsLatest
    <3> QED BY <3>1, <3>2
  <2>6. LockingRunIsLatest'
    BY <2>5 DEF LockingRunIsLatest
  <2> QED BY <1>2, <1>3, <2>3, <2>6, RowUpdate DEF EnqueuePlan, IndInv, TypeOK
<1> QED BY <1>5, <1>6

\* ApplyRun and DiscardRun preserve the invariant.
LEMMA ApplyDiscardInv ==
  ASSUME IndInv, NEW r \in Run, ApplyRun(r) \/ DiscardRun(r)
  PROVE  IndInv'
<1>1. RowsAgree(runs[r], jobs[r]) /\ runs[r] \in RunRow
  BY DEF IndInv, RowsAgree
<1>2. CASE ApplyRun(r)
  <2> DEFINE run1 == EnqueueApplyRun(runs[r])
             job1 == [jobs[r] EXCEPT !["apply"] = NewJob]
  <2>1. RowsAgree(run1, job1)
    BY <1>1, <1>2, EnqueueApplyAgrees DEF ApplyRun, CreateJobAllowed
  <2>2. runs' = [runs EXCEPT ![r] = run1] /\ jobs' = [jobs EXCEPT ![r] = job1]
    BY <1>2 DEF ApplyRun
  <2>3. Onward(runs[r], run1)
    BY <1>1, RunOpsOnward DEF PhaseType
  <2> HIDE DEF run1, job1
  <2> QED BY <1>2, <2>1, <2>2, <2>3, RowUpdate DEF ApplyRun, IndInv, TypeOK
<1>3. CASE DiscardRun(r)
  <2> DEFINE run1 == DiscardRow(runs[r])
  <2>1. RowsAgree(run1, jobs[r])
    BY <1>1, <1>3, DiscardAgrees DEF DiscardRun
  <2>2. runs' = [runs EXCEPT ![r] = run1] /\ jobs' = [jobs EXCEPT ![r] = jobs[r]]
    BY <1>3 DEF DiscardRun, IndInv, TypeOK
  <2>3. Onward(runs[r], run1)
    BY <1>1, RunOpsOnward DEF PhaseType
  <2> HIDE DEF run1
  <2> QED BY <1>3, <2>1, <2>2, <2>3, RowUpdate DEF DiscardRun, IndInv, TypeOK
<1> QED BY <1>2, <1>3

\* The cancelations by users and by the timeout preserve the invariant.
LEMMA CancelInv ==
  ASSUME IndInv, NEW r \in Run, NEW isUser \in BOOLEAN, NEW force \in BOOLEAN,
         CancelRows(r, isUser, force), UNCHANGED <<lock, latestRun, runners>>,
         overdue' \subseteq Run
  PROVE  IndInv'
<1> DEFINE run1 == CancelRow(runs[r], isUser, force)
<1>1. RowsAgree(runs[r], jobs[r]) /\ runs[r] \in RunRow
  BY DEF IndInv, RowsAgree
<1>2. /\ runs[r].status \notin Gone /\ CancelAllowed(runs[r], isUser, force)
      /\ runs' = [runs EXCEPT ![r] = run1]
  BY DEF CancelRows, Exists
<1>3. Onward(runs[r], run1)
  BY <1>1, <1>2, RunOpsOnward DEF PhaseType
<1>4. CASE LivePhases(r) = {} /\ UNCHANGED <<jobs, signals>>
  <2>1. jobs' = [jobs EXCEPT ![r] = jobs[r]]
    BY <1>4 DEF IndInv, TypeOK
  <2>2. RowsAgree(run1, jobs[r])
    BY <1>1, <1>2, <1>4, CancelAgrees DEF LivePhases
  <2> HIDE DEF run1
  <2> QED BY <1>2, <1>3, <1>4, <2>1, <2>2, RowUpdate DEF IndInv, TypeOK
<1>5. ASSUME NEW q \in LivePhases(r),
             jobs' = [jobs EXCEPT ![r][q] = CancelJobRow(jobs[r][q], run1)],
             signals' = signals \cup CancelJobSignals(r, q, run1)
      PROVE  IndInv'
  <2> DEFINE job1 == [jobs[r] EXCEPT ![q] = CancelJobRow(jobs[r][q], run1)]
  <2>1. q \in PhaseType /\ jobs[r][q].status \in JobLive
    BY DEF LivePhases
  <2>2. RowsAgree(run1, job1)
    BY <1>1, <1>2, <2>1, CancelAgrees
  <2>3. jobs' = [jobs EXCEPT ![r] = job1]
    BY <1>5
  <2>4. signals' \subseteq [run : Run, phase : PhaseType, force : BOOLEAN]
    <3>1. CancelJobSignals(r, q, run1) \subseteq
            {[run |-> r, phase |-> q, force |-> f] : f \in BOOLEAN}
      BY DEF CancelJobSignals
    <3> QED BY <1>5, <2>1, <3>1 DEF IndInv, TypeOK
  <2> HIDE DEF run1, job1
  <2> QED BY <1>2, <1>3, <2>2, <2>3, <2>4, RowUpdate DEF IndInv, TypeOK
<1> QED BY <1>4, <1>5 DEF CancelRows

\* DeleteRun preserves the invariant: the references to the run go with it.
LEMMA DeleteRunInv ==
  ASSUME IndInv, NEW r \in Run, DeleteRun(r)
  PROVE  IndInv'
<1> DEFINE run1 == NoRun("deleted")
           job1 == [p \in PhaseType |-> NoJob]
<1>1. run1 \in RunRow /\ job1 \in [PhaseType -> JobRow]
  BY DEF NoRun, NoJob, RunRow, RunStatus, Gone, PhaseStatus, JobRow, JobStatus
<1>2. RowsAgree(run1, job1)
  BY <1>1
  DEF RowsAgree, PhasesAgree, JobAgrees, ApplyAgrees, PastAgrees, GoneAgrees,
      NoRun, NoJob, Gone, PhaseType
<1>3. runs' = [runs EXCEPT ![r] = run1] /\ jobs' = [jobs EXCEPT ![r] = job1]
  BY DEF DeleteRun
<1>4. \A s \in Run \ {r} : runs'[s] = runs[s]
  BY <1>3 DEF IndInv, TypeOK
<1>5. /\ lock' \in [Workspace -> Run \cup User \cup {Nobody}]
      /\ latestRun' \in [Workspace -> Run \cup {Nobody}]
  BY DEF DeleteRun, IndInv, TypeOK
<1>6. ASSUME NEW w \in Workspace, lock'[w] \in Run
      PROVE  lock'[w] = lock[w] /\ lock[w] # r
  BY <1>6, ConstantsAssumption DEF DeleteRun
<1>7. ASSUME NEW w \in Workspace, lock'[w] \in Run
      PROVE  /\ latestRun'[w] = lock'[w]
             /\ runs'[lock'[w]].workspace = w
             /\ ~runs'[lock'[w]].planOnly
             /\ runs'[lock'[w]].status \notin Gone \cup {"pending"}
  <2>1. lock'[w] = lock[w] /\ lock[w] # r
    BY <1>6, <1>7
  <2>2. latestRun[w] = lock[w]
    BY <1>7, <2>1 DEF IndInv, LockingRunIsLatest
  <2>3. latestRun'[w] = latestRun[w]
    BY <2>1, <2>2 DEF DeleteRun
  <2> QED BY <1>4, <1>7, <2>1, <2>2, <2>3 DEF IndInv, LockingRunIsLatest
<1>8. LockingRunIsLatest'
  BY <1>7 DEF LockingRunIsLatest
<1> HIDE DEF run1, job1
<1> QED BY <1>2, <1>3, <1>5, <1>8, RowUpdate DEF DeleteRun, IndInv, TypeOK

\* The lock methods preserve the invariant.
LEMMA LockInv ==
  ASSUME IndInv, NEW w \in Workspace, LockStep(w)
  PROVE  IndInv'
<1>1. PICK h \in User \cup {Nobody} : lock' = [lock EXCEPT ![w] = h]
  BY DEF LockStep, LockByUser, UnlockByUser, UnlockByRun
<1>2. UNCHANGED <<runs, jobs, latestRun, runners, signals, overdue>>
  BY DEF LockStep, LockByUser, UnlockByUser, UnlockByRun
<1>3. lock'[w] = h /\ \A v \in Workspace \ {w} : lock'[v] = lock[v]
  BY <1>1 DEF IndInv, TypeOK
<1>4. h \notin Run
  BY ConstantsAssumption
<1>5. LockingRunIsLatest'
  BY <1>2, <1>3, <1>4 DEF IndInv, LockingRunIsLatest
<1>6. TypeOK'
  BY <1>1, <1>2 DEF IndInv, TypeOK
<1> QED BY <1>2, <1>5, <1>6 DEF IndInv

\* RegisterRunner and DeleteRunner preserve the invariant: jobs may vanish.
LEMMA RunnerInv ==
  ASSUME IndInv, NEW n \in Runner, RunnerStep(n)
  PROVE  IndInv'
<1>1. CASE RegisterRunner(n)
  BY <1>1 DEF RegisterRunner, IndInv, TypeOK, LockingRunIsLatest
<1>2. CASE DeleteRunner(n)
  <2>1. NoJob \in JobRow
    BY DEF NoJob, JobRow, JobStatus
  <2>2. jobs' \in [Run -> [PhaseType -> JobRow]]
    BY <1>2, <2>1 DEF DeleteRunner, IndInv, TypeOK
  <2>3. ASSUME NEW r \in Run PROVE RowsAgree(runs[r], jobs'[r])
    <3>1. \A p \in PhaseType : jobs'[r][p].status \in {jobs[r][p].status, "absent"}
      BY <1>2 DEF DeleteRunner, NoJob
    <3>2. RowsAgree(runs[r], jobs[r]) /\ jobs'[r] \in [PhaseType -> JobRow]
      BY <2>2 DEF IndInv
    <3> QED BY <3>1, <3>2, JobUpdateAgrees
  <2>4. runners' \in [Runner -> {"absent", "registered", "deleted"}]
    BY <1>2 DEF DeleteRunner, IndInv, TypeOK
  <2> QED
    BY <1>2, <2>2, <2>3, <2>4 DEF DeleteRunner, IndInv, TypeOK, LockingRunIsLatest
<1> QED BY <1>1, <1>2 DEF RunnerStep

\* AllocateJob and ReallocateJob preserve the invariant.
LEMMA AllocationInv ==
  ASSUME IndInv, NEW r \in Run, NEW p \in PhaseType, NEW n \in Runner,
         AllocateJob(r, p, n) \/ ReallocateJob(r, p, n)
  PROVE  IndInv'
<1>1. RowsAgree(runs[r], jobs[r]) /\ jobs[r] \in [PhaseType -> JobRow]
  BY DEF IndInv, RowsAgree
<1>2. /\ UNCHANGED <<runs, lock, latestRun, runners, signals, overdue>>
      /\ runs' = [runs EXCEPT ![r] = runs[r]]
  BY DEF AllocateJob, ReallocateJob, IndInv, TypeOK
<1>3. LockingRunIsLatest'
  BY <1>2 DEF IndInv, LockingRunIsLatest
<1>4. CASE AllocateJob(r, p, n)
  <2> DEFINE job1 == [jobs[r] EXCEPT ![p] = [status |-> "allocated", runner |-> n]]
  <2>1. job1 \in [PhaseType -> JobRow]
    BY <1>1 DEF JobRow, JobStatus, JobLive
  <2>2. jobs[r][p].status = "unallocated"
    BY <1>4 DEF AllocateJob, JobMoves
  <2>3. RowsAgree(runs[r], job1)
    <3>1. ASSUME NEW q \in PhaseType
          PROVE  \/ job1[q].status \in {jobs[r][q].status, "absent"}
                 \/ jobs[r][q].status = "unallocated" /\ job1[q].status = "allocated"
      BY <1>1, <2>2
    <3> HIDE DEF job1
    <3> QED BY <1>1, <2>1, <3>1, JobUpdateAgrees
  <2>4. jobs' = [jobs EXCEPT ![r] = job1]
    BY <1>4 DEF AllocateJob
  <2> HIDE DEF job1
  <2> QED BY <1>2, <1>3, <2>3, <2>4, RowUpdate DEF IndInv, TypeOK
<1>5. CASE ReallocateJob(r, p, n)
  <2> DEFINE job1 == [jobs[r] EXCEPT ![p].runner = n]
  <2>1. job1 \in [PhaseType -> JobRow]
    BY <1>1 DEF JobRow
  <2>2. \A q \in PhaseType : job1[q].status = jobs[r][q].status
    BY <1>1 DEF JobRow
  <2>3. jobs' = [jobs EXCEPT ![r] = job1]
    BY <1>5 DEF ReallocateJob
  <2> HIDE DEF job1
  <2>4. RowsAgree(runs[r], job1)
    BY <1>1, <2>1, <2>2, JobUpdateAgrees
  <2> QED BY <1>2, <1>3, <2>3, <2>4, RowUpdate DEF IndInv, TypeOK
<1> QED BY <1>4, <1>5

\* StartJob preserves the invariant: job and run start together.
LEMMA StartJobInv ==
  ASSUME IndInv, NEW r \in Run, NEW p \in PhaseType, NEW n \in Runner,
         StartJob(r, p, n)
  PROVE  IndInv'
<1> DEFINE run1 == StartRun(runs[r])
           job1 == [jobs[r] EXCEPT ![p].status = "running"]
<1>1. RowsAgree(runs[r], jobs[r]) /\ runs[r] \in RunRow
  BY DEF IndInv, RowsAgree
<1>2. jobs[r][p].status = "allocated"
  BY DEF StartJob, JobMoves
<1>3. RowsAgree(run1, job1)
  BY <1>1, <1>2, StartAgrees DEF StartJob
<1>4. runs' = [runs EXCEPT ![r] = run1] /\ jobs' = [jobs EXCEPT ![r] = job1]
  BY DEF StartJob
<1>5. Onward(runs[r], run1)
  BY <1>1, RunOpsOnward
<1> HIDE DEF run1, job1
<1> QED BY <1>3, <1>4, <1>5, RowUpdate DEF StartJob, IndInv, TypeOK

\* FinishJob, with or without an autoapply, preserves the invariant.
LEMMA FinishJobInv ==
  ASSUME IndInv, NEW r \in Run, NEW p \in PhaseType,
         NEW to \in {"finished", "errored"}, FinishJob(r, p, to)
  PROVE  IndInv'
<1>1. RowsAgree(runs[r], jobs[r]) /\ runs[r] \in RunRow
  BY DEF IndInv, RowsAgree
<1>2. jobs[r][p].status = "running"
  BY DEF FinishJob, JobMoves
<1>3. PICK reportFails \in BOOLEAN, changes \in BOOLEAN, cost \in BOOLEAN :
        LET run == FinishRun(runs[r], p, to = "errored" \/ reportFails, changes, cost)
        IN IF run.status \in {"planned", "cost_estimated"} /\ run.autoApply
           THEN /\ CreateJobAllowed(r, "apply")
                /\ runs' = [runs EXCEPT ![r] = EnqueueApplyRun(run)]
                /\ jobs' = [jobs EXCEPT ![r][p].status = to, ![r]["apply"] = NewJob]
           ELSE /\ runs' = [runs EXCEPT ![r] = run]
                /\ jobs' = [jobs EXCEPT ![r][p].status = to]
  BY DEF FinishJob
<1> DEFINE errored == to = "errored" \/ reportFails
           run1 == FinishRun(runs[r], p, errored, changes, cost)
           job1 == [jobs[r] EXCEPT ![p].status = to]
           autoapply == run1.status \in {"planned", "cost_estimated"} /\ run1.autoApply
<1>4. RowsAgree(run1, job1)
  BY <1>1, <1>2, FinishAgrees
<1>5. Onward(runs[r], run1)
  BY <1>1, <1>2, RunOpsOnward DEF RowsAgree, JobAgrees
<1>6. UNCHANGED <<lock, latestRun, runners, signals, overdue>>
  BY DEF FinishJob
<1>7. CASE autoapply
  <2> DEFINE run2 == EnqueueApplyRun(run1)
             job2 == [job1 EXCEPT !["apply"] = NewJob]
  <2>1. jobs[r]["apply"].status = "absent" /\ "apply" \in PhaseType
    BY <1>3, <1>7 DEF CreateJobAllowed, PhaseType
  <2>2. p # "apply"
    BY <1>2, <2>1
  <2>3. job1["apply"].status = "absent"
    BY <1>1, <2>1, <2>2 DEF RowsAgree
  <2>4. runs' = [runs EXCEPT ![r] = run2]
    BY <1>3, <1>7
  <2>5. jobs' = [jobs EXCEPT ![r] = job2]
    BY <1>3, <1>7 DEF IndInv, TypeOK
  <2>6. EnqueueApplyAllowed(run1)
    BY <1>7 DEF EnqueueApplyAllowed
  <2>7. run1 \in RunRow
    BY <1>4 DEF RowsAgree
  <2> HIDE DEF run1, job1
  <2>8. RowsAgree(run2, job2)
    BY <1>4, <2>3, <2>6, EnqueueApplyAgrees
  <2>9. Onward(runs[r], run2)
    BY <1>5, <2>7, RunOpsOnward DEF Onward
  <2> HIDE DEF run2, job2
  <2> QED BY <1>6, <2>4, <2>5, <2>8, <2>9, RowUpdate DEF IndInv, TypeOK
<1>8. CASE ~autoapply
  <2>1. runs' = [runs EXCEPT ![r] = run1] /\ jobs' = [jobs EXCEPT ![r] = job1]
    BY <1>3, <1>8
  <2> HIDE DEF run1, job1
  <2> QED BY <1>4, <1>5, <1>6, <2>1, RowUpdate DEF IndInv, TypeOK
<1> QED BY <1>7, <1>8

\* FinishJob with status canceled preserves the invariant.
LEMMA FinishCanceledJobInv ==
  ASSUME IndInv, NEW r \in Run, NEW p \in PhaseType, FinishCanceledJob(r, p)
  PROVE  IndInv'
<1> DEFINE run1 == CancelRow(runs[r], FALSE, FALSE)
           job1 == [jobs[r] EXCEPT ![p] = CancelJobRow(jobs[r][p], run1)]
<1>1. RowsAgree(runs[r], jobs[r]) /\ runs[r] \in RunRow
      /\ jobs[r] \in [PhaseType -> JobRow]
  BY DEF IndInv, RowsAgree
<1>2. jobs[r][p].status = "running" /\ jobs[r][p].status \in JobLive
  BY DEF FinishCanceledJob, JobLive
<1>3. runs[r].status \notin Gone
  BY <1>1, <1>2 DEF RowsAgree, JobAgrees, RunningStatus, Gone
<1>4. PICK q \in LivePhases(r) :
        jobs' = [jobs EXCEPT ![r][q] = CancelJobRow(jobs[r][q], run1),
                             ![r][p].status = "canceled"]
  BY DEF FinishCanceledJob
<1>5. q = p
  BY <1>1, <1>2, OneLiveJob DEF LivePhases
<1>6. ~AsksSignal(runs[r], FALSE, FALSE) /\ CancelAllowed(runs[r], FALSE, FALSE)
  BY DEF AsksSignal, CancelAllowed
<1>7. RowsAgree(run1, job1) /\ Onward(runs[r], run1)
  BY <1>1, <1>2, <1>3, <1>6, CancelAgrees, RunOpsOnward
<1>8. run1.status = "canceled"
  BY <1>1, <1>3, <1>6, CanceledRow
<1>9. CancelJobRow(jobs[r][p], run1) = [jobs[r][p] EXCEPT !.status = "canceled"]
  BY <1>8 DEF CancelJobRow
<1>10. runs' = [runs EXCEPT ![r] = run1]
  BY DEF FinishCanceledJob
<1>11. jobs' = [jobs EXCEPT ![r] = job1]
  <2>1. jobs' = [jobs EXCEPT ![r][p] = CancelJobRow(jobs[r][p], run1),
                             ![r][p].status = "canceled"]
    BY <1>4, <1>5
  <2> DEFINE c == [jobs[r][p] EXCEPT !.status = "canceled"]
  <2>2. [c EXCEPT !.status = "canceled"] = c
    BY <1>1 DEF JobRow
  <2> HIDE DEF run1
  <2> QED BY <1>1, <1>9, <2>1, <2>2 DEF IndInv, TypeOK
<1> HIDE DEF run1, job1
<1> QED BY <1>7, <1>10, <1>11, RowUpdate DEF FinishCanceledJob, IndInv, TypeOK

-----------------------------------------------------------------------------
(* Theorems *)

\* Every step preserves the invariant.
LEMMA NextInv == IndInv /\ [Next]_vars => IndInv'
<1> SUFFICES ASSUME IndInv, [Next]_vars PROVE IndInv'
  OBVIOUS
<1>1. ASSUME NEW r \in Run, RunStep(r) PROVE IndInv'
  <2>1. CASE CreateRun(r) BY <2>1, CreateRunInv
  <2>2. CASE EnqueuePlan(r) BY <2>2, EnqueuePlanInv
  <2>3. CASE ApplyRun(r) \/ DiscardRun(r) BY <2>3, ApplyDiscardInv
  <2>4. CASE CancelRun(r)
    BY <2>4, CancelInv DEF CancelRun, IndInv, TypeOK
  <2>5. CASE ForceCancelRun(r)
    BY <2>5, CancelInv DEF ForceCancelRun, IndInv, TypeOK
  <2>6. CASE DeleteRun(r) BY <2>6, DeleteRunInv
  <2>7. CASE TimeoutCancel(r)
    BY <2>7, CancelInv DEF TimeoutCancel, IndInv, TypeOK
  <2>8. CASE TimeoutFails(r)
    BY <2>8 DEF TimeoutFails, IndInv, TypeOK, LockingRunIsLatest
  <2> QED BY <1>1, <2>1, <2>2, <2>3, <2>4, <2>5, <2>6, <2>7, <2>8 DEF RunStep
<1>2. ASSUME NEW r \in Run, NEW p \in PhaseType, JobStep(r, p) PROVE IndInv'
  BY <1>2, AllocationInv, StartJobInv, FinishJobInv, FinishCanceledJobInv DEF JobStep
<1>3. ASSUME NEW w \in Workspace, LockStep(w) PROVE IndInv'
  BY <1>3, LockInv
<1>4. ASSUME NEW n \in Runner, RunnerStep(n) PROVE IndInv'
  BY <1>4, RunnerInv
<1>5. CASE TimeoutList
  BY <1>5 DEF TimeoutList, IndInv, TypeOK, LockingRunIsLatest
<1>6. CASE UNCHANGED vars
  BY <1>6 DEF vars, IndInv, TypeOK, LockingRunIsLatest
<1> QED BY <1>1, <1>2, <1>3, <1>4, <1>5, <1>6 DEF Next

\* IndInv holds in every reachable state.
THEOREM Invariance == Spec => []IndInv
BY InitInv, NextInv, PTL DEF Spec

\* The rows always have the columns and values of the schema.
THEOREM TypeCorrect == Spec => []TypeOK
<1>1. IndInv => TypeOK
  BY DEF IndInv
<1> QED BY <1>1, Invariance, PTL

\* A live job always belongs to a run that waits for, or is in, its phase.
THEOREM LiveJobs == Spec => []LiveJobMatchesRun
<1>1. IndInv => LiveJobMatchesRun
  BY DEF IndInv, RowsAgree, JobAgrees, LiveJobMatchesRun
<1> QED BY <1>1, Invariance, PTL

\* Tables runs, plans and applies always agree.
THEOREM Phases == Spec => []RunMatchesPhases
<1>1. IndInv => RunMatchesPhases
  BY DEF IndInv, RowsAgree, RunMatchesPhases
<1> QED BY <1>1, Invariance, PTL

\* Nothing is applied that was not planned, and no speculative run is applied.
THEOREM Applies == Spec => []ApplyFollowsPlan
<1>1. IndInv => ApplyFollowsPlan
  BY DEF IndInv, RowsAgree, ApplyAgrees, ApplyFollowsPlan
<1> QED BY <1>1, Invariance, PTL

\* The run that holds a workspace's lock is always its latest, enqueued run.
THEOREM Locks == Spec => []LockingRunIsLatest
<1>1. IndInv => LockingRunIsLatest
  BY DEF IndInv
<1> QED BY <1>1, Invariance, PTL

-----------------------------------------------------------------------------
(* A job that has started stays with its runner *)

Started == JobDone \cup {"running"}

\* What may become of a job: unless it had not started, or disappears, it keeps
\* its runner, and its status or an end of it.
JobKept(job, job1) ==
  job.status \in Started /\ job1.status # "absent" =>
    /\ job1.runner = job.runner
    /\ job1.status \in JobDone \cup {job.status}

\* An update of one job does so too, when what it writes does: EnqueuePlan,
\* ApplyRun, AllocateJob, ReallocateJob, StartJob.
LEMMA KeptByUpdate ==
  ASSUME IndInv, NEW r \in Run, NEW p \in PhaseType, NEW job1,
         JobKept(jobs[r][p], job1), jobs' = [jobs EXCEPT ![r][p] = job1]
  PROVE  \A s \in Run, q \in PhaseType : JobKept(jobs[s][q], jobs'[s][q])
<1>1. /\ jobs'[r][p] = job1
      /\ \A s \in Run, q \in PhaseType :
           s # r \/ q # p => jobs'[s][q] = jobs[s][q]
  BY DEF IndInv, TypeOK
<1>2. \A job : JobKept(job, job)
  BY DEF JobKept
<1> QED BY <1>1, <1>2

\* A cancelation changes the status of a job, and only to canceled.
LEMMA CancelKeeps ==
  ASSUME NEW job \in JobRow, NEW run
  PROVE  /\ CancelJobRow(job, run) \in JobRow
         /\ CancelJobRow(job, run).runner = job.runner
         /\ CancelJobRow(job, run).status \in {job.status, "canceled"}
         /\ JobKept(job, CancelJobRow(job, run))
BY DEF CancelJobRow, JobKept, JobRow, JobStatus, JobDone

\* CancelRun, ForceCancelRun and TimeoutCancel keep every started job.
LEMMA CancelRowsKeeps ==
  ASSUME IndInv, NEW r \in Run, NEW isUser \in BOOLEAN, NEW force \in BOOLEAN,
         CancelRows(r, isUser, force)
  PROVE  \A s \in Run, q \in PhaseType : JobKept(jobs[s][q], jobs'[s][q])
<1> DEFINE run1 == CancelRow(runs[r], isUser, force)
<1>1. CASE UNCHANGED jobs
  BY <1>1 DEF JobKept
<1>2. ASSUME NEW q \in LivePhases(r),
             jobs' = [jobs EXCEPT ![r][q] = CancelJobRow(jobs[r][q], run1)]
      PROVE  \A s \in Run, p \in PhaseType : JobKept(jobs[s][p], jobs'[s][p])
  <2>1. q \in PhaseType /\ jobs[r][q] \in JobRow
    BY DEF LivePhases, IndInv, TypeOK
  <2> HIDE DEF run1
  <2>2. JobKept(jobs[r][q], CancelJobRow(jobs[r][q], run1))
    BY <2>1, CancelKeeps
  <2> QED BY <1>2, <2>1, <2>2, KeptByUpdate
<1> QED BY <1>1, <1>2 DEF CancelRows

\* The actions on one run keep every started job: a job is created only where
\* there is none.
LEMMA RunStepKeeps ==
  ASSUME IndInv, NEW r \in Run, RunStep(r)
  PROVE  \A s \in Run, q \in PhaseType : JobKept(jobs[s][q], jobs'[s][q])
<1>1. ASSUME NEW p \in PhaseType, CreateJobAllowed(r, p),
             jobs' = [jobs EXCEPT ![r][p] = NewJob]
      PROVE  \A s \in Run, q \in PhaseType : JobKept(jobs[s][q], jobs'[s][q])
  <2>1. JobKept(jobs[r][p], NewJob)
    BY <1>1 DEF CreateJobAllowed, JobKept, Started, JobDone
  <2> QED BY <1>1, <2>1, KeptByUpdate
<1>2. CASE EnqueuePlan(r) \/ ApplyRun(r)
  BY <1>1, <1>2 DEF EnqueuePlan, ApplyRun, PhaseType
<1>3. CASE CreateRun(r) \/ DiscardRun(r) \/ TimeoutFails(r)
  BY <1>3 DEF CreateRun, DiscardRun, TimeoutFails, JobKept
<1>4. CASE CancelRun(r) \/ ForceCancelRun(r) \/ TimeoutCancel(r)
  BY <1>4, CancelRowsKeeps DEF CancelRun, ForceCancelRun, TimeoutCancel
<1>5. CASE DeleteRun(r)
  <2>1. ASSUME NEW s \in Run, NEW q \in PhaseType
        PROVE  jobs'[s][q] = jobs[s][q] \/ jobs'[s][q].status = "absent"
    BY <1>5 DEF DeleteRun, NoJob, IndInv, TypeOK
  <2> QED BY <2>1 DEF JobKept
<1> QED BY <1>2, <1>3, <1>4, <1>5 DEF RunStep

\* AllocateJob, ReallocateJob and StartJob leave started jobs alone.
LEMMA AllocationKeeps ==
  ASSUME IndInv, NEW r \in Run, NEW p \in PhaseType, NEW n \in Runner,
         AllocateJob(r, p, n) \/ ReallocateJob(r, p, n) \/ StartJob(r, p, n)
  PROVE  \A s \in Run, q \in PhaseType : JobKept(jobs[s][q], jobs'[s][q])
<1>1. jobs[r][p].status \notin Started
  BY DEF AllocateJob, ReallocateJob, StartJob, JobMoves, Started, JobDone
<1>2. PICK job1 : jobs' = [jobs EXCEPT ![r][p] = job1]
  BY DEF AllocateJob, ReallocateJob, StartJob
<1>3. JobKept(jobs[r][p], job1)
  BY <1>1 DEF JobKept
<1> QED BY <1>2, <1>3, KeptByUpdate

\* FinishJob ends the job where it runs; an autoapply creates the job of the
\* apply, of which there was none.
LEMMA FinishKeeps ==
  ASSUME IndInv, NEW r \in Run, NEW p \in PhaseType,
         NEW to \in {"finished", "errored"}, FinishJob(r, p, to)
  PROVE  \A s \in Run, q \in PhaseType : JobKept(jobs[s][q], jobs'[s][q])
<1>1. jobs[r][p].status = "running" /\ jobs[r][p] \in JobRow
  BY DEF FinishJob, JobMoves, IndInv, TypeOK
<1> DEFINE done == [jobs[r][p] EXCEPT !.status = to]
<1>2. JobKept(jobs[r][p], done)
  BY <1>1 DEF JobKept, JobRow, JobDone
<1>3. CASE jobs' = [jobs EXCEPT ![r][p].status = to]
  <2>1. jobs' = [jobs EXCEPT ![r][p] = done]
    BY <1>3
  <2> HIDE DEF done
  <2> QED BY <1>2, <2>1, KeptByUpdate
<1>4. CASE /\ CreateJobAllowed(r, "apply")
           /\ jobs' = [jobs EXCEPT ![r][p].status = to, ![r]["apply"] = NewJob]
  <2>1. p # "apply" /\ jobs[r]["apply"].status = "absent" /\ "apply" \in PhaseType
    BY <1>1, <1>4 DEF CreateJobAllowed, PhaseType
  <2>2. /\ jobs'[r][p] = done
        /\ \A s \in Run, q \in PhaseType :
             (s # r \/ q \notin {p, "apply"}) => jobs'[s][q] = jobs[s][q]
    BY <1>4, <2>1 DEF IndInv, TypeOK
  <2>3. JobKept(jobs[r]["apply"], jobs'[r]["apply"])
    BY <2>1 DEF JobKept, Started, JobDone
  <2>4. \A job : JobKept(job, job)
    BY DEF JobKept
  <2> HIDE DEF done
  <2> QED BY <1>2, <2>1, <2>2, <2>3, <2>4
<1> QED BY <1>3, <1>4 DEF FinishJob

\* FinishCanceledJob ends the job where it runs; the job its cancelation of the
\* run cancels is the same one.
LEMMA FinishCanceledKeeps ==
  ASSUME IndInv, NEW r \in Run, NEW p \in PhaseType, FinishCanceledJob(r, p)
  PROVE  \A s \in Run, q \in PhaseType : JobKept(jobs[s][q], jobs'[s][q])
<1> DEFINE run1 == CancelRow(runs[r], FALSE, FALSE)
<1>1. /\ jobs[r][p].status = "running" /\ jobs[r][p] \in JobRow
      /\ RowsAgree(runs[r], jobs[r])
  BY DEF FinishCanceledJob, IndInv, TypeOK
<1>2. PICK q \in LivePhases(r) :
        jobs' = [jobs EXCEPT ![r][q] = CancelJobRow(jobs[r][q], run1),
                             ![r][p].status = "canceled"]
  BY DEF FinishCanceledJob
<1>3. q = p
  BY <1>1, OneLiveJob DEF LivePhases, JobLive
<1> HIDE DEF run1
<1> DEFINE canceled == CancelJobRow(jobs[r][p], run1)
           ended == [canceled EXCEPT !.status = "canceled"]
<1>4. /\ canceled \in JobRow
      /\ canceled.runner = jobs[r][p].runner
  BY <1>1, CancelKeeps
<1>5. jobs' = [jobs EXCEPT ![r][p] = ended]
  <2> HIDE DEF canceled
  <2>1. jobs' = [jobs EXCEPT ![r][p] = canceled, ![r][p].status = "canceled"]
    BY <1>2, <1>3 DEF canceled
  <2> QED BY <2>1 DEF IndInv, TypeOK
<1> HIDE DEF canceled
<1>6. JobKept(jobs[r][p], ended)
  BY <1>4 DEF JobKept, JobRow, JobDone
<1> HIDE DEF ended
<1> QED BY <1>5, <1>6, KeptByUpdate

\* Every step keeps every started job with its runner.
LEMMA NextKeeps ==
  ASSUME IndInv, [Next]_vars
  PROVE  \A r \in Run, p \in PhaseType : JobKept(jobs[r][p], jobs'[r][p])
<1>1. CASE UNCHANGED jobs
  BY <1>1 DEF JobKept
<1>2. ASSUME NEW n \in Runner, DeleteRunner(n), NEW r \in Run, NEW p \in PhaseType
      PROVE  JobKept(jobs[r][p], jobs'[r][p])
  <2>1. jobs'[r][p] = jobs[r][p] \/ jobs'[r][p].status = "absent"
    BY <1>2 DEF DeleteRunner, NoJob
  <2> QED BY <2>1 DEF JobKept
<1>3. ASSUME NEW w \in Workspace, LockStep(w)
      PROVE  UNCHANGED jobs
  BY <1>3 DEF LockStep, LockByUser, UnlockByUser, UnlockByRun
<1>4. ASSUME NEW r \in Run, NEW p \in PhaseType, JobStep(r, p)
      PROVE  \A s \in Run, q \in PhaseType : JobKept(jobs[s][q], jobs'[s][q])
  BY <1>4, AllocationKeeps, FinishKeeps, FinishCanceledKeeps DEF JobStep
<1>5. ASSUME NEW n \in Runner, RegisterRunner(n)
      PROVE  UNCHANGED jobs
  BY <1>5 DEF RegisterRunner
<1>6. TimeoutList \/ UNCHANGED vars => UNCHANGED jobs
  BY DEF TimeoutList, vars
<1> QED
  BY <1>1, <1>2, <1>3, <1>4, <1>5, <1>6, RunStepKeeps DEF Next, RunnerStep

\* A job is worked on by one runner: once started it never moves to another,
\* and is never started again.
THEOREM OneRunnerPerJob == Spec => StartedOnce
<1>1. IndInv /\ [Next]_vars =>
        [\A r \in Run, p \in PhaseType :
           jobs[r][p].status \in JobDone \cup {"running"}
             /\ jobs'[r][p].status # "absent"
             => /\ jobs'[r][p].runner = jobs[r][p].runner
                /\ jobs'[r][p].status \in JobDone \cup {jobs[r][p].status}]_vars
  BY NextKeeps DEF JobKept, Started
<1> QED BY <1>1, Invariance, PTL DEF Spec, StartedOnce

-----------------------------------------------------------------------------
(* RunJobs implements RunLifecycle: every service method is a step of a run's *)
(* life, a step of a workspace's lock, or leaves both as they are.            *)

\* The life of a run, step by step: what may become of its status.
Lives(run, run1) ==
  /\ run1 \in RunRow
  /\ run1.planOnly = run.planOnly
  /\ run1.workspace = run.workspace
  /\ LifecycleStatus(run1.status) \in
       Lifecycle!Moves(LifecycleStatus(run.status))
         \cup {LifecycleStatus(run.status)}

\* Replacing the row of a run by its next one is a step of its life.
LEMMA RowLives ==
  ASSUME TypeOK, NEW r \in Run, NEW run1, Lives(runs[r], run1),
         runs' = [runs EXCEPT ![r] = run1], lock' = lock
  PROVE  [Lifecycle!DbNext]_(Lifecycle!dbVars)
<1> DEFINE to == LifecycleStatus(run1.status)
           from == LifecycleStatus(runs[r].status)
<1>1. LifecycleRows[r].status = from
  BY DEF LifecycleRows, LifecycleRow
<1>2. LifecycleRows' = [LifecycleRows EXCEPT ![r].status = to]
  BY DEF LifecycleRows, LifecycleRow, TypeOK, Lives
<1>3. CASE to = from
  BY <1>1, <1>2, <1>3 DEF Lifecycle!dbVars, LifecycleRows, LifecycleRow
<1>4. CASE to \in Lifecycle!Moves(from)
  <2>1. to \in Lifecycle!Status
    BY <1>4 DEF Lifecycle!Moves, Lifecycle!Status, Lifecycle!Scheduled,
                Lifecycle!Done
  <2>2. Lifecycle!UpdateStatus(r, to)
    BY <1>1, <1>2, <1>4 DEF Lifecycle!UpdateStatus
  <2> QED BY <2>1, <2>2 DEF Lifecycle!DbNext
<1> QED BY <1>3, <1>4 DEF Lives

\* The statuses of RunJobs that RunLifecycle does not tell apart.
Active == {"plan_queued", "planning", "planned", "apply_queued", "applying"}

\* Among the active statuses a run moves without a change of its life.
LEMMA ActiveStays ==
  \A s, t \in Active : LifecycleStatus(t) = LifecycleStatus(s)
BY DEF Active, LifecycleStatus, Done

\* A run whose plan is done may wait for its costs to be confirmed.
LEMMA ActiveEstimates ==
  \A s \in Active :
    LifecycleStatus("cost_estimated") \in Lifecycle!Moves(LifecycleStatus(s))
BY DEF Active, LifecycleStatus, Done, Lifecycle!Moves, Lifecycle!Scheduled,
       Lifecycle!Done

\* Once confirmed it goes on.
LEMMA EstimatedResumes ==
  \A t \in Active :
    LifecycleStatus(t) \in Lifecycle!Moves(LifecycleStatus("cost_estimated"))
BY DEF Active, LifecycleStatus, Done, Lifecycle!Moves, Lifecycle!Done

\* An unfinished run may end, and be canceled, at any time.
LEMMA UnfinishedEnds ==
  \A s \in Unfinished, t \in Done :
    LifecycleStatus(t) \in Lifecycle!Moves(LifecycleStatus(s))
<1> SUFFICES ASSUME NEW s \in Unfinished, NEW t \in Done
             PROVE  LifecycleStatus(t) \in Lifecycle!Moves(LifecycleStatus(s))
  OBVIOUS
<1>1. LifecycleStatus(t) \in Lifecycle!Done
  BY DEF LifecycleStatus, Done, Lifecycle!Done
<1>2. LifecycleStatus(s) \in {"pending", "active", "cost_estimated"}
  BY DEF LifecycleStatus, Done, Unfinished
<1> QED BY <1>1, <1>2 DEF Lifecycle!Moves, Lifecycle!Done

\* A run that has ended may still be canceled.
LEMMA EndedCancels ==
  \A s \in Done : LifecycleStatus("canceled") \in
    Lifecycle!Moves(LifecycleStatus(s)) \cup {LifecycleStatus(s)}
BY DEF LifecycleStatus, Done, Lifecycle!Moves, Lifecycle!Done

\* What the methods of Run make of a run is the next stage of its life.
LEMMA RunOpsLive ==
  ASSUME NEW run \in RunRow, run.status \notin Gone,
         NEW isUser \in BOOLEAN, NEW force \in BOOLEAN, NEW phase \in PhaseType,
         NEW errored \in BOOLEAN, NEW changes \in BOOLEAN, NEW cost \in BOOLEAN
  PROVE  /\ EnqueueApplyAllowed(run) => Lives(run, EnqueueApplyRun(run))
         /\ StartAllowed(run) => Lives(run, StartRun(run))
         /\ Discardable(run) => Lives(run, DiscardRow(run))
         /\ CancelAllowed(run, isUser, force) =>
              Lives(run, CancelRow(run, isUser, force))
         /\ FinishAllowed(run, phase) =>
              Lives(run, FinishRun(run, phase, errored, changes, cost))
         /\ FinishAllowed(run, phase) /\ run.status # "canceled" =>
              Lives(run, EnqueueApplyRun(FinishRun(run, phase, errored, changes, cost)))
<1>1. ASSUME EnqueueApplyAllowed(run) PROVE Lives(run, EnqueueApplyRun(run))
  <2> DEFINE run1 == EnqueueApplyRun(run)
  <2>1. /\ run1.status = "apply_queued" /\ run.status \in {"planned", "cost_estimated"}
        /\ run1.planOnly = run.planOnly /\ run1.workspace = run.workspace
    BY <1>1 DEF EnqueueApplyAllowed, EnqueueApplyRun, RunRow
  <2> QED BY <2>1, RunOpsType, ActiveStays, EstimatedResumes DEF Lives, Active
<1>2. ASSUME StartAllowed(run) PROVE Lives(run, StartRun(run))
  <2> DEFINE run1 == StartRun(run)
  <2>1. /\ run1.status \in InProgress /\ run.status \in {"plan_queued", "apply_queued"}
        /\ run1.planOnly = run.planOnly /\ run1.workspace = run.workspace
    BY <1>2 DEF StartAllowed, StartRun, RunRow, InProgress
  <2> QED BY <2>1, RunOpsType, ActiveStays DEF Lives, InProgress, Active
<1>3. ASSUME Discardable(run) PROVE Lives(run, DiscardRow(run))
  <2> DEFINE run1 == DiscardRow(run)
  <2>1. /\ run1.status = "discarded" /\ run.status \in Unfinished
        /\ run1.planOnly = run.planOnly /\ run1.workspace = run.workspace
    BY <1>3 DEF Discardable, DiscardRow, RunRow, Unfinished
  <2> QED BY <2>1, RunOpsType, UnfinishedEnds DEF Lives, Done
<1>4. ASSUME CancelAllowed(run, isUser, force)
      PROVE  Lives(run, CancelRow(run, isUser, force))
  <2> DEFINE run1 == CancelRow(run, isUser, force)
  <2>1. run1 \in RunRow /\ run1.planOnly = run.planOnly
        /\ run1.workspace = run.workspace
    BY RunOpsType, RunOpsOnward DEF Onward
  <2>2. CASE AsksSignal(run, isUser, force)
    <3>1. run1.status = run.status
      BY <2>2 DEF CancelRow, RunRow
    <3> QED BY <2>1, <3>1 DEF Lives
  <2>3. CASE ~AsksSignal(run, isUser, force) /\ ~force
    <3>1. run1.status = "canceled"
      BY <2>3 DEF CancelRow, RunRow
    <3> QED BY <2>1, <3>1, UnfinishedEnds, EndedCancels
      DEF Lives, Done, RunRow, RunStatus
  <2>4. CASE force
    <3>1. run1.status = "force_canceled" /\ run.status \in Unfinished
      BY <1>4, <2>4 DEF CancelRow, CancelAllowed, AsksSignal, ForceCancelable, RunRow
    <3> QED BY <2>1, <3>1, UnfinishedEnds DEF Lives, Done
  <2> QED BY <2>2, <2>3, <2>4 DEF AsksSignal
<1> DEFINE fin == FinishRun(run, phase, errored, changes, cost)
<1>5. ASSUME FinishAllowed(run, phase), run.status # "canceled"
      PROVE  /\ run.status = RunningStatus(phase)
             /\ fin.planOnly = run.planOnly /\ fin.workspace = run.workspace
             /\ fin.status \in Done \cup {"planned", "cost_estimated"}
  <2>1. run.status = RunningStatus(phase)
    BY <1>5 DEF FinishAllowed, RunningStatus
  <2>2. fin.planOnly = run.planOnly /\ fin.workspace = run.workspace
    BY <2>1, RunOpsOnward DEF Onward
  <2>3. fin.status \in Done \cup {"planned", "cost_estimated"}
    BY <1>5 DEF FinishRun, RunRow, PhaseType, Done
  <2> QED BY <2>1, <2>2, <2>3
<1>6. ASSUME FinishAllowed(run, phase) PROVE Lives(run, fin)
  <2>1. CASE run.status = "canceled"
    <3>1. fin = run
      BY <2>1 DEF FinishRun
    <3> QED BY <3>1 DEF Lives
  <2>2. CASE run.status # "canceled"
    <3>1. run.status \in InProgress
      BY <1>5, <1>6, <2>2 DEF RunningStatus, InProgress
    <3>2. fin \in RunRow
      BY RunOpsType
    <3> QED BY <1>5, <1>6, <2>2, <3>1, <3>2, UnfinishedEnds, ActiveStays, ActiveEstimates
      DEF Lives, InProgress, Unfinished, Active
  <2> QED BY <2>1, <2>2
<1>7. ASSUME FinishAllowed(run, phase), run.status # "canceled"
      PROVE  Lives(run, EnqueueApplyRun(fin))
  <2>1. fin \in RunRow /\ fin.status \notin Gone
    BY <1>5, <1>7, RunOpsType DEF Done, Gone
  <2>2. /\ EnqueueApplyRun(fin) \in RunRow
        /\ EnqueueApplyRun(fin).status = "apply_queued"
        /\ EnqueueApplyRun(fin).planOnly = run.planOnly
        /\ EnqueueApplyRun(fin).workspace = run.workspace
    BY <1>5, <1>7, <2>1 DEF EnqueueApplyRun, RunRow, RunStatus, Unfinished, PhaseStatus
  <2>3. run.status \in InProgress
    BY <1>5, <1>7 DEF RunningStatus, InProgress
  <2> QED BY <2>2, <2>3, ActiveStays DEF Lives, InProgress, Active
<1> QED BY <1>1, <1>2, <1>3, <1>4, <1>6, <1>7

LStep == [Lifecycle!DbNext]_(Lifecycle!dbVars)

\* A step that touches neither the runs nor the locks is a stutter.
LEMMA OtherSteps ==
  ASSUME runs' = runs, lock' = lock
  PROVE  LStep
BY DEF LStep, Lifecycle!dbVars, LifecycleRows, LifecycleRow

\* CreateRun inserts a pending run.
LEMMA CreateRunRefines ==
  ASSUME IndInv, NEW r \in Run, CreateRun(r)
  PROVE  LStep
<1>1. PICK w \in Workspace, planOnly \in BOOLEAN, autoApply \in BOOLEAN :
        runs' = [runs EXCEPT ![r] = NewRun(w, planOnly, autoApply)]
  BY DEF CreateRun
<1>2. LifecycleRows' = [LifecycleRows EXCEPT ![r] =
        [status |-> "pending", planOnly |-> planOnly, workspace |-> w]]
  BY <1>1 DEF LifecycleRows, LifecycleRow, NewRun, LifecycleStatus, Done, IndInv, TypeOK
<1>3. LifecycleRows[r].status = "absent"
  BY DEF CreateRun, LifecycleRows, LifecycleRow, LifecycleStatus, Done
<1>4. Lifecycle!InsertRun(r, w, planOnly)
  BY <1>2, <1>3 DEF Lifecycle!InsertRun, CreateRun
<1> QED BY <1>4 DEF LStep, Lifecycle!DbNext

\* EnqueuePlan moves a pending run to the active statuses, and a run that is
\* not speculative takes the lock unless a user holds it.
LEMMA EnqueuePlanRefines ==
  ASSUME IndInv, NEW r \in Run, EnqueuePlan(r)
  PROVE  LStep
<1> DEFINE w == runs[r].workspace
<1>1. LifecycleRows[r].status = "pending"
  BY DEF EnqueuePlan, EnqueuePlanAllowed, LifecycleRows, LifecycleRow,
         LifecycleStatus, Done
<1>2. LifecycleRows[r].workspace = w /\ LifecycleRows[r].planOnly = runs[r].planOnly
  BY DEF LifecycleRows, LifecycleRow
<1>3. LifecycleRow(EnqueuePlanRun(runs[r])) = [LifecycleRow(runs[r]) EXCEPT !.status = "active"]
  BY DEF LifecycleRow, EnqueuePlanRun, LifecycleStatus, Done, IndInv, TypeOK, RunRow
<1>4. LifecycleRows' = [LifecycleRows EXCEPT ![r].status = "active"]
  BY <1>3 DEF EnqueuePlan, LifecycleRows, IndInv, TypeOK
<1>5. ~runs[r].planOnly => lock[w] \notin User
  BY ConstantsAssumption DEF EnqueuePlan, RunMayLock
<1>6. Lifecycle!EnqueuePlan(r)
  BY <1>1, <1>2, <1>4, <1>5 DEF Lifecycle!EnqueuePlan, Lifecycle!LockedByUser, EnqueuePlan
<1> QED BY <1>6 DEF LStep, Lifecycle!DbNext

\* DeleteRun deletes the row and with it the lock the run may hold.
LEMMA DeleteRunRefines ==
  ASSUME IndInv, NEW r \in Run, DeleteRun(r)
  PROVE  LStep
<1>1. LifecycleRows[r].status \notin Gone
  BY DEF DeleteRun, Exists, LifecycleRows, LifecycleRow, LifecycleStatus, Done, Gone
<1>2. LifecycleRow(NoRun("deleted")) = Lifecycle!NoRow("deleted")
  BY DEF LifecycleRow, NoRun, LifecycleStatus, Done, Lifecycle!NoRow
<1>3. LifecycleRows' = [LifecycleRows EXCEPT ![r] = Lifecycle!NoRow("deleted")]
  BY <1>2 DEF DeleteRun, LifecycleRows, IndInv, TypeOK
<1>4. Lifecycle!DeleteRun(r)
  BY <1>1, <1>3 DEF Lifecycle!DeleteRun, Lifecycle!Exists, Lifecycle!Gone, Gone, DeleteRun
<1> QED BY <1>4 DEF LStep, Lifecycle!DbNext

\* The lock methods are those of the abstract specification.
LEMMA LockStepRefines ==
  ASSUME IndInv, NEW w \in Workspace, LockStep(w)
  PROVE  LStep
<1>1. runs' = runs /\ LifecycleRows' = LifecycleRows
  BY DEF LockStep, LockByUser, UnlockByUser, UnlockByRun, LifecycleRows, LifecycleRow
<1>2. ASSUME NEW u \in User, LockByUser(w, u) PROVE LStep
  <2>1. Lifecycle!LockByUser(w, u)
    BY <1>1, <1>2 DEF LockByUser, Lifecycle!LockByUser
  <2> QED BY <2>1 DEF LStep, Lifecycle!DbNext
<1>3. ASSUME NEW u \in User, NEW force \in BOOLEAN, UnlockByUser(w, u, force)
      PROVE  LStep
  <2>1. Lifecycle!Unlock(w, u, force)
    BY <1>1, <1>3 DEF UnlockByUser, Lifecycle!Unlock
  <2> QED BY <2>1 DEF LStep, Lifecycle!DbNext
<1>4. ASSUME NEW r \in Run, UnlockByRun(w, r) PROVE LStep
  <2>1. Lifecycle!Unlock(w, r, FALSE)
    BY <1>1, <1>4, ConstantsAssumption DEF UnlockByRun, Lifecycle!Unlock
  <2> QED BY <2>1 DEF LStep, Lifecycle!DbNext
<1> QED BY <1>2, <1>3, <1>4 DEF LockStep

\* A job that is started or finished takes its run along.
LEMMA JobStepRefines ==
  ASSUME IndInv, NEW r \in Run, NEW p \in PhaseType, JobStep(r, p)
  PROVE  LStep
<1>1. runs[r] \in RunRow /\ TypeOK
  BY DEF IndInv, TypeOK
<1>2. ASSUME NEW n \in Runner, AllocateJob(r, p, n) \/ ReallocateJob(r, p, n)
      PROVE  LStep
  BY <1>2, OtherSteps DEF AllocateJob, ReallocateJob
<1>3. ASSUME NEW n \in Runner, StartJob(r, p, n) PROVE LStep
  <2>1. runs[r].status \notin Gone
    BY <1>3 DEF StartJob, StartAllowed, Gone
  <2>2. Lives(runs[r], StartRun(runs[r]))
    BY <1>1, <1>3, <2>1, RunOpsLive DEF StartJob
  <2> QED BY <1>1, <1>3, <2>2, RowLives DEF StartJob, LStep
<1>4. ASSUME NEW to \in {"finished", "errored"}, FinishJob(r, p, to) PROVE LStep
  <2>1. FinishAllowed(runs[r], p) /\ runs[r].status \notin Gone
    BY <1>4 DEF FinishJob, FinishAllowed, Gone
  <2>2. lock' = lock
    BY <1>4 DEF FinishJob
  <2>3. PICK fails \in BOOLEAN, changes \in BOOLEAN, cost \in BOOLEAN :
          LET run == FinishRun(runs[r], p, to = "errored" \/ fails, changes, cost)
          IN \/ runs' = [runs EXCEPT ![r] = run]
             \/ /\ run.status \in {"planned", "cost_estimated"}
                /\ runs' = [runs EXCEPT ![r] = EnqueueApplyRun(run)]
    BY <1>4 DEF FinishJob
  <2> DEFINE run == FinishRun(runs[r], p, to = "errored" \/ fails, changes, cost)
  <2>4. (to = "errored" \/ fails) \in BOOLEAN
    OBVIOUS
  <2>5. CASE runs' = [runs EXCEPT ![r] = run]
    <3>1. Lives(runs[r], run)
      BY <1>1, <2>1, <2>4, RunOpsLive
    <3> QED BY <1>1, <2>2, <2>5, <3>1, RowLives DEF LStep
  <2>6. CASE /\ run.status \in {"planned", "cost_estimated"}
             /\ runs' = [runs EXCEPT ![r] = EnqueueApplyRun(run)]
    <3>1. runs[r].status # "canceled"
      BY <2>6 DEF FinishRun
    <3>2. Lives(runs[r], EnqueueApplyRun(run))
      BY <1>1, <2>1, <2>4, <3>1, RunOpsLive
    <3> QED BY <1>1, <2>2, <2>6, <3>2, RowLives DEF LStep
  <2> QED BY <2>3, <2>5, <2>6
<1>5. ASSUME FinishCanceledJob(r, p) PROVE LStep
  <2>1. runs[r].status = RunningStatus(p)
    BY <1>5 DEF FinishCanceledJob, IndInv, RowsAgree, JobAgrees
  <2>2. runs[r].status \notin Gone /\ CancelAllowed(runs[r], FALSE, FALSE)
    BY <2>1 DEF RunningStatus, Gone, CancelAllowed, AsksSignal
  <2>3. Lives(runs[r], CancelRow(runs[r], FALSE, FALSE))
    BY <1>1, <2>2, RunOpsLive
  <2> QED BY <1>1, <1>5, <2>3, RowLives DEF FinishCanceledJob, LStep
<1> QED BY <1>2, <1>3, <1>4, <1>5 DEF JobStep

\* The cancelations, by users and by the timeout, end a run.
LEMMA CancelRefines ==
  ASSUME IndInv, NEW r \in Run, NEW isUser \in BOOLEAN, NEW force \in BOOLEAN,
         CancelRows(r, isUser, force), lock' = lock
  PROVE  LStep
<1>1. runs[r] \in RunRow /\ TypeOK /\ runs[r].status \notin Gone
  BY DEF IndInv, TypeOK, CancelRows, Exists
<1>2. Lives(runs[r], CancelRow(runs[r], isUser, force))
  BY <1>1, RunOpsLive DEF CancelRows, PhaseType
<1> QED BY <1>1, <1>2, RowLives DEF CancelRows, LStep

\* Every method that takes a run refines a step of the abstract specification.
LEMMA RunStepRefines ==
  ASSUME IndInv, NEW r \in Run, RunStep(r)
  PROVE  LStep
<1>1. runs[r] \in RunRow /\ TypeOK
  BY DEF IndInv, TypeOK
<1>2. ASSUME ApplyRun(r) PROVE LStep
  <2>1. runs[r].status \notin Gone
    BY <1>2 DEF ApplyRun, EnqueueApplyAllowed, Gone
  <2>2. Lives(runs[r], EnqueueApplyRun(runs[r]))
    BY <1>1, <1>2, <2>1, RunOpsLive DEF ApplyRun, PhaseType
  <2> QED BY <1>1, <1>2, <2>2, RowLives DEF ApplyRun, LStep
<1>3. ASSUME DiscardRun(r) PROVE LStep
  <2>1. runs[r].status \notin Gone
    BY <1>3 DEF DiscardRun, Discardable, Gone
  <2>2. Lives(runs[r], DiscardRow(runs[r]))
    BY <1>1, <1>3, <2>1, RunOpsLive DEF DiscardRun, PhaseType
  <2> QED BY <1>1, <1>3, <2>2, RowLives DEF DiscardRun, LStep
<1>4. CancelRun(r) \/ ForceCancelRun(r) \/ TimeoutCancel(r) => LStep
  BY CancelRefines DEF CancelRun, ForceCancelRun, TimeoutCancel
<1>5. TimeoutFails(r) => LStep
  BY OtherSteps DEF TimeoutFails
<1> QED BY <1>2, <1>3, <1>4, <1>5, CreateRunRefines, EnqueuePlanRefines,
           DeleteRunRefines DEF RunStep

\* Every step of RunJobs is a step, or a stutter, of RunLifecycle.
LEMMA NextRefines == IndInv /\ [Next]_vars => LStep
<1> SUFFICES ASSUME IndInv, [Next]_vars PROVE LStep
  OBVIOUS
<1>1. ASSUME NEW n \in Runner, RunnerStep(n) PROVE LStep
  BY <1>1, OtherSteps DEF RunnerStep, RegisterRunner, DeleteRunner
<1>2. TimeoutList => LStep
  BY OtherSteps DEF TimeoutList
<1>3. UNCHANGED vars => LStep
  BY OtherSteps DEF vars
<1> QED BY <1>1, <1>2, <1>3, RunStepRefines, JobStepRefines, LockStepRefines DEF Next

\* The empty tables are an initial state of RunLifecycle.
LEMMA InitRefines == Init => Lifecycle!DbInit
BY DEF Init, Lifecycle!DbInit, LifecycleRows, LifecycleRow, NoRun, LifecycleStatus,
       Done, Lifecycle!NoRow

\* The run, job and lock methods implement the life of a run and of its
\* workspace's lock that the scheduler relies on.
THEOREM Refinement == Spec => ImplementsLifecycle
<1>1. IndInv /\ [Next]_vars => [Lifecycle!DbNext]_(Lifecycle!dbVars)
  BY NextRefines DEF LStep
<1> QED BY <1>1, Invariance, InitRefines, PTL
  DEF Spec, ImplementsLifecycle, Lifecycle!DbSpec

\* In RunLifecycle a run that has ended stays so until it is deleted.
LEMMA EndedLives ==
  ASSUME LStep, NEW r \in Run, LifecycleRows[r].status \in Lifecycle!Done
  PROVE  LifecycleRows'[r].status \in Lifecycle!Done \cup {"deleted"}
<1> DEFINE L == LifecycleRows
           Stays == L'[r].status \in Lifecycle!Done \cup {"deleted"}
<1>1. \A q \in Run : L[q] = LifecycleRow(runs[q])
  BY DEF LifecycleRows
<1>2. L[r].status \in {"ended", "canceled"}
  BY DEF Lifecycle!Done
<1>3. ASSUME L' = L PROVE Stays
  BY <1>3
<1>4. ASSUME NEW q \in Run, NEW w \in Workspace, NEW planOnly \in BOOLEAN,
             Lifecycle!InsertRun(q, w, planOnly)
      PROVE  Stays
  BY <1>2, <1>4 DEF Lifecycle!InsertRun, LifecycleRows, Lifecycle!Done
<1>5. ASSUME NEW q \in Run, Lifecycle!EnqueuePlan(q) PROVE Stays
  BY <1>2, <1>5 DEF Lifecycle!EnqueuePlan, LifecycleRows, Lifecycle!Done
<1>6. ASSUME NEW q \in Run, Lifecycle!DeleteRun(q) PROVE Stays
  <2>1. L' = [L EXCEPT ![q] = Lifecycle!NoRow("deleted")]
    BY <1>6 DEF Lifecycle!DeleteRun
  <2>2. L'[r] = Lifecycle!NoRow("deleted") \/ L'[r] = L[r]
    BY <2>1 DEF LifecycleRows
  <2> QED BY <1>2, <2>2 DEF Lifecycle!NoRow, Lifecycle!Done
<1>7. ASSUME NEW q \in Run, NEW to \in Lifecycle!Status, Lifecycle!UpdateStatus(q, to)
      PROVE  Stays
  <2>1. q = r => to = "canceled"
    BY <1>2, <1>7 DEF Lifecycle!UpdateStatus, Lifecycle!Moves, Lifecycle!Done
  <2>2. L' = [L EXCEPT ![q].status = to]
    BY <1>7 DEF Lifecycle!UpdateStatus
  <2>3. CASE q = r
    BY <2>1, <2>2, <2>3 DEF LifecycleRows, LifecycleRow, Lifecycle!Done
  <2>4. CASE q # r
    BY <1>2, <2>2, <2>4 DEF LifecycleRows, Lifecycle!Done
  <2> QED BY <2>3, <2>4
<1>8. ASSUME NEW w \in Workspace, Lifecycle!DeleteWorkspace(w) PROVE Stays
  <2>1. L'[r] = Lifecycle!NoRow("deleted") \/ L'[r] = L[r]
    BY <1>8 DEF Lifecycle!DeleteWorkspace
  <2> QED BY <1>2, <2>1 DEF Lifecycle!NoRow, Lifecycle!Done
<1>9. ASSUME NEW w \in Workspace, NEW u, NEW force \in BOOLEAN,
             Lifecycle!LockByUser(w, u) \/ Lifecycle!Unlock(w, u, force)
      PROVE  Stays
  BY <1>3, <1>9 DEF Lifecycle!LockByUser, Lifecycle!Unlock
<1> QED BY <1>3, <1>4, <1>5, <1>6, <1>7, <1>8, <1>9
  DEF LStep, Lifecycle!DbNext, Lifecycle!dbVars

\* A run that has reached an end state never becomes active again.
THEOREM EndIsEnd == Spec => DoneStaysDone
<1>1. ASSUME IndInv, IndInv', [Next]_vars, NEW r \in Run, runs[r].status \in Done
      PROVE  runs'[r].status \in Done \cup {"deleted"}
  <2>1. LifecycleRows[r].status \in Lifecycle!Done
    BY <1>1 DEF LifecycleRows, LifecycleRow, LifecycleStatus, Done, Lifecycle!Done
  <2>2. LifecycleRows'[r].status \in Lifecycle!Done \cup {"deleted"}
    BY <1>1, <2>1, NextRefines, EndedLives
  <2>3. LifecycleStatus(runs'[r].status) \in {"ended", "canceled", "deleted"}
    BY <2>2 DEF LifecycleRows, LifecycleRow, Lifecycle!Done
  <2>4. runs'[r].status \in RunStatus
    BY <1>1 DEF IndInv, TypeOK, RunRow
  <2> QED BY <2>3, <2>4
    DEF LifecycleStatus, RunStatus, Done, Unfinished, Gone
<1>2. IndInv /\ IndInv' /\ [Next]_vars =>
        [\A r \in Run : runs[r].status \in Done =>
           runs'[r].status \in Done \cup {"deleted"}]_vars
  BY <1>1
<1> QED BY <1>2, Invariance, PTL DEF Spec, DoneStaysDone
=============================================================================
