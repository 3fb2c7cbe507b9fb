----------------------------- MODULE Execution -----------------------------
(***************************************************************************)
(* The jobs of one run, its plan and then its apply, from the moment each  *)
(* is allocated to a runner: the runner fetches the job, starts it and     *)
(* spawns an operation; the operation does its steps in a working          *)
(* directory, under the eyes of a goroutine that waits for signals to      *)
(* cancel it, and reports how it went.                                     *)
(*                                                                         *)
(* A server runner runs operations in the server's process.  An agent, and *)
(* the pod of the kubernetes executor, is remote: its calls are HTTP       *)
(* requests with a job token that expires.                                 *)
(***************************************************************************)
EXTENDS JobSignaler, FiniteSets

CONSTANTS Remote,      \* the choices of where the operation runs
          Kube,        \* the choices of the executor
          PluginCache, \* OperationConfig.PluginCache
          Version,     \* provider versions
          Offered,     \* those that an engine may pick at the time of each job
          MaxRemotePolls \* bound: polls of remote operations

\* No lock file, no providers.
NoVersion == "no version"

ASSUME ExecutionAssumption ==
  /\ Job = {"plan", "apply"}
  /\ Remote \subseteq BOOLEAN /\ Kube \subseteq BOOLEAN
  /\ PluginCache \in BOOLEAN
  /\ Offered \in [Job -> SUBSET Version]
  /\ NoVersion \notin Version
  /\ MaxRemotePolls \in 1..MaxPolls

VARIABLES remote, kube, \* the configuration, chosen once
          jobs,       \* table jobs: the status of each job
          cancelSignaled, \* runs.cancel_signaled_at
          runner,     \* where the runner's loop has got to
          stopping,   \* is the runner's context done?
          op,         \* the operation
          listener,   \* the operation's goroutine that awaits signals
          wd,         \* the operation's working directory
          store       \* the run's artefacts on the server

runVars == <<jobs, cancelSignaled>>
runnerVars == <<runner, stopping>>
opVars == <<op, listener, wd>>
vars == <<signalVars, remote, kube, runVars, runnerVars, opVars, store>>

JobLive == {"allocated", "running"}
JobDone == {"finished", "errored", "canceled"}
JobStatus == JobLive \cup JobDone \cup {"absent"}

-----------------------------------------------------------------------------
(* The steps of an operation *)

Prepare == <<"downloadEngine", "downloadConfig", "readVars",
             "setupDynamicCredentials", "setupSSHKey", "writeTerraformVars",
             "deleteBackendConfig", "downloadState">>

\* Mutant: the variables are written before the configuration is unpacked.
StepsVarsFirst(phase) ==
  <<"downloadEngine", "readVars", "setupDynamicCredentials", "setupSSHKey",
    "writeTerraformVars", "downloadConfig", "deleteBackendConfig",
    "downloadState">>
  \o IF phase = "plan"
     THEN <<"init", "plan", "convertPlanToJSON", "uploadPlan",
            "uploadJSONPlan", "uploadLockFile">>
     ELSE <<"downloadLockFile", "downloadPlanFile", "init", "apply">>

\* Mutant: the lock file is fetched once the engine is initialised.
StepsLockLate(phase) ==
  Prepare
  \o IF phase = "plan"
     THEN <<"init", "plan", "convertPlanToJSON", "uploadPlan",
            "uploadJSONPlan", "uploadLockFile">>
     ELSE <<"downloadPlanFile", "init", "downloadLockFile", "apply">>

Steps(phase) ==
  Prepare
  \o (IF PluginCache THEN <<"enablePluginCache">> ELSE <<>>)
  \o IF phase = "plan"
     THEN <<"init", "plan", "convertPlanToJSON", "uploadPlan",
            "uploadJSONPlan", "uploadLockFile">>
     ELSE <<"downloadLockFile", "downloadPlanFile", "init", "apply">>

\* Steps that run the engine, and steps that call no server.
Engine == {"init", "plan", "convertPlanToJSON", "apply"}
Local == Engine \cup {"writeTerraformVars", "deleteBackendConfig",
                      "enablePluginCache"}

\* The working directory: what there is in it and in the environment, the
\* provider versions of the lock file and those the engine has installed.
Emptied == [has |-> {}, lock |-> NoVersion, providers |-> NoVersion]
Put(things, w) == [w EXCEPT !.has = @ \cup things]

downloadEngine(w) == Put({"engine"}, w)
\* The configuration may bring a backend block and variable files of its own.
downloadConfig(w) ==
  [w EXCEPT !.has = (@ \ {"tfvars"}) \cup {"config", "backend"}]
readVars(w) == Put({"vars"}, w)
setupDynamicCredentials(w) == Put({"creds"}, w)
setupSSHKey(w) == Put({"ssh"}, w)
writeTerraformVars(w) == IF "vars" \in w.has THEN Put({"tfvars"}, w) ELSE w
deleteBackendConfig(w) == [w EXCEPT !.has = @ \ {"backend"}]
downloadState(w) == Put({"state"}, w)
enablePluginCache(w) == Put({"cache"}, w)
\* An upload that never happened reads as an empty file.
downloadLockFile(w) == [w EXCEPT !.lock = store.lock]
downloadPlanFile(w) == IF store.plan THEN Put({"plan"}, w) ELSE w

\* init installs what the lock file says, and without one what it likes.
init(w, v) == [w EXCEPT !.lock = IF @ = NoVersion THEN v ELSE @,
                        !.providers = IF w.lock = NoVersion THEN v ELSE w.lock]
plan(w) == Put({"plan"}, w)
convertPlanToJSON(w) == Put({"json"}, w)

\* What a step that succeeds leaves in the working directory.
Result(step, v) ==
  CASE step = "downloadEngine" -> downloadEngine(wd)
    [] step = "downloadConfig" -> downloadConfig(wd)
    [] step = "readVars" -> readVars(wd)
    [] step = "setupDynamicCredentials" -> setupDynamicCredentials(wd)
    [] step = "setupSSHKey" -> setupSSHKey(wd)
    [] step = "writeTerraformVars" -> writeTerraformVars(wd)
    [] step = "deleteBackendConfig" -> deleteBackendConfig(wd)
    [] step = "downloadState" -> downloadState(wd)
    [] step = "enablePluginCache" -> enablePluginCache(wd)
    [] step = "downloadLockFile" -> downloadLockFile(wd)
    [] step = "downloadPlanFile" -> downloadPlanFile(wd)
    [] step = "init" -> init(wd, v)
    [] step = "plan" -> plan(wd)
    [] step = "convertPlanToJSON" -> convertPlanToJSON(wd)
    [] OTHER -> wd

\* What the server keeps of it.
uploadPlan == [store EXCEPT !.plan = TRUE, !.planned = wd.providers]
uploadJSONPlan == [store EXCEPT !.json = TRUE]
uploadLockFile == [store EXCEPT !.lock = wd.lock]
uploadState == [store EXCEPT !.state = TRUE]
Stored(step) ==
  CASE step = "uploadPlan" -> uploadPlan
    [] step = "uploadJSONPlan" -> uploadJSONPlan
    [] step = "uploadLockFile" -> uploadLockFile
    [] OTHER -> store

-----------------------------------------------------------------------------
Idle(j) == [job |-> j, at |-> "none", step |-> 1, canceled |-> FALSE,
            ctxDone |-> FALSE, alive |-> FALSE, told |-> FALSE, killed |-> FALSE,
            warned |-> FALSE,
            err |-> FALSE, changed |-> FALSE, saveFailed |-> FALSE,
            lateStarts |-> 0, report |-> "none"]
OpRow == [job : Job,
          at : {"none", "begin", "check", "window", "engine", "saving",
                "report", "finish", "ended"},
          step : 1..20, canceled : BOOLEAN, ctxDone : BOOLEAN,
          alive : BOOLEAN, told : BOOLEAN, killed : BOOLEAN, warned : BOOLEAN, err : BOOLEAN,
          changed : BOOLEAN, saveFailed : BOOLEAN, lateStarts : Nat, report : {"none"} \cup JobDone]

Init ==
  /\ SignalInit
  /\ remote \in Remote
  /\ kube \in {k \in Kube : k => remote}
  /\ jobs = [j \in Job |-> IF j = "plan" THEN "allocated" ELSE "absent"]
  /\ cancelSignaled = FALSE
  /\ runner = [at |-> "waiting"]
  /\ stopping = FALSE
  /\ op = Idle("plan")
  /\ listener = "off"
  /\ wd = Emptied
  /\ store = [plan |-> FALSE, json |-> FALSE, lock |-> NoVersion,
              state |-> FALSE, planned |-> NoVersion]

Active == op.at \notin {"none", "ended"}
\* The context of the operation ends, and with it that of its polls: at once
\* in the same process; a request over the network is noticed to be gone later.
EndContext(rows) ==
  IF remote THEN rows
  ELSE [p \in DOMAIN rows |-> IF rows[p].job = op.job
                              THEN [rows[p] EXCEPT !.done = TRUE] ELSE rows[p]]

-----------------------------------------------------------------------------
(* The server: what users and the scheduler do *)

\* A confirmed plan is followed by an apply, which is allocated in turn.
EnqueueApply ==
  /\ jobs.plan = "finished" /\ jobs.apply = "absent"
  /\ jobs' = [jobs EXCEPT !.apply = "allocated"]
  /\ UNCHANGED <<signalVars, remote, kube, cancelSignaled, runnerVars, opVars,
                 store>>

\* cancelJob: a running job is sent a signal, and one still allocated canceled.
CancelRun(j) ==
  /\ jobs[j] \in JobLive /\ ~cancelSignaled
  /\ IF jobs[j] = "running"
     THEN cancelSignaled' = TRUE /\ publish(j, FALSE) /\ UNCHANGED jobs
     ELSE jobs' = [jobs EXCEPT ![j] = "canceled"]
          /\ UNCHANGED <<cancelSignaled, notices>>
  /\ UNCHANGED <<subscribers, polls, relay, panicked, remote, kube, runnerVars,
                 opVars, store>>

ForceCancelRun(j) ==
  /\ jobs[j] = "running" /\ cancelSignaled
  /\ jobs' = [jobs EXCEPT ![j] = "canceled"]
  /\ publish(j, TRUE)
  /\ UNCHANGED <<subscribers, polls, relay, panicked, remote, kube,
                 cancelSignaled, runnerVars, opVars, store>>

-----------------------------------------------------------------------------
(* The runner *)

RunnerStep == UNCHANGED <<notices, subscribers, relay, panicked, remote, kube,
                          cancelSignaled, store>>

\* AwaitAllocatedJobs returns the allocated jobs, old ones and new ones alike.
AwaitAllocatedJobs(j) ==
  /\ runner.at = "waiting" /\ ~stopping
  /\ jobs[j] = "allocated"
  /\ runner' = [at |-> "starting", job |-> j]
  /\ RunnerStep /\ UNCHANGED <<polls, jobs, stopping, opVars>>

\* StartJob fails when the job is no longer allocated; its answer may be lost.
StartJob ==
  LET j == runner.job IN
  /\ runner.at = "starting"
  /\ \/ /\ jobs[j] = "allocated"
        /\ jobs' = [jobs EXCEPT ![j] = "running"]
        /\ \/ runner' = [at |-> IF kube THEN "secret" ELSE "spawning", job |-> j]
           \/ runner' = [at |-> "waiting"]
     \/ jobs[j] # "allocated" /\ runner' = [at |-> "waiting"] /\ UNCHANGED jobs
  /\ RunnerStep /\ UNCHANGED <<polls, stopping, opVars>>

\* Nobody takes in the answers to the polls of an earlier operation.
Spawned(j) ==
  /\ polls' = [p \in DOMAIN polls |->
                 [polls[p] EXCEPT !.answer = "taken", !.buffer = NoSignal]]
  /\ op' = [Idle(j) EXCEPT !.at = "begin"]
  /\ listener' = "subscribing"
  /\ wd' = Emptied

\* The fork executor: a goroutine of the runner's process.
SpawnFork ==
  /\ runner.at = "spawning"
  /\ Spawned(runner.job)
  /\ runner' = [at |-> "waiting"]
  /\ RunnerStep /\ UNCHANGED <<jobs, stopping>>

\* The kubernetes executor: a secret with the token, a job that reads it, and
\* the secret's owner.  The pod runs as soon as the job is created.
SpawnKube ==
  /\ runner.at \in {"secret", "kjob", "owner"}
  /\ \/ /\ runner.at = "secret"
        /\ runner' = [runner EXCEPT !.at = "kjob"] /\ UNCHANGED <<polls, opVars>>
     \/ /\ runner.at = "kjob"
        /\ runner' = [runner EXCEPT !.at = "owner"]
        /\ Spawned(runner.job)
     \/ runner' = [at |-> "waiting"] /\ UNCHANGED <<polls, opVars>>
  /\ RunnerStep /\ UNCHANGED <<jobs, stopping>>

\* cancel: an operation past its last look at the flag is not stopped by it, and
\* only a process that has started (o.proc) is told, to stop or by a kill.
Canceled(force) ==
  [op EXCEPT !.canceled = TRUE,
             !.ctxDone = @ \/ force,
             !.told = @ \/ op.alive,
             !.killed = @ \/ (force /\ op.alive)]

Cancel(force) == op' = Canceled(force)

\* The runner shuts down, or is told that it was deregistered.
RunnerStop ==
  /\ ~stopping
  /\ stopping' = TRUE
  /\ runner' = IF runner.at = "waiting" THEN [at |-> "stopped"] ELSE runner
  /\ RunnerStep /\ UNCHANGED <<polls, jobs, opVars>>

RunnerExits ==
  /\ stopping /\ runner.at = "waiting"
  /\ runner' = [at |-> "stopped"]
  /\ RunnerStep /\ UNCHANGED <<polls, jobs, stopping, opVars>>

\* The end of the runner cancels its operations gracefully, each once.
RunnerCancelsOp ==
  /\ stopping /\ ~kube /\ Active /\ ~op.warned
  /\ op' = [Canceled(FALSE) EXCEPT !.warned = TRUE]
  /\ RunnerStep /\ UNCHANGED <<polls, jobs, runnerVars, listener, wd>>

-----------------------------------------------------------------------------
(* The goroutine of the operation that awaits signals *)

ListenerStep == UNCHANGED <<remote, kube, runVars, runnerVars, wd, store>>

\* It starts along with the operation, and starts again after every answer.
\* A call that is made once the context is done comes straight back.
Subscribe ==
  /\ listener = "subscribing"
  /\ remote => Len(polls) < MaxRemotePolls
  /\ IF op.ctxDone THEN listener' = "off" /\ UNCHANGED signalVars
     ELSE awaitJobSignal(op.job) /\ listener' = "polling"
  /\ UNCHANGED op /\ ListenerStep

Latest == Len(polls)

\* The answer reaches the operation, which cancels itself unless it is an
\* error: then the goroutine ends with the context, or tries again later.
Answered ==
  LET answer == polls[Latest].answer IN
  /\ listener = "polling" /\ answer # "waiting"
  /\ IF answer = "error"
     THEN UNCHANGED op /\ listener' = IF op.ctxDone THEN "off" ELSE "subscribing"
     ELSE Cancel(answer = "kill") /\ listener' = "subscribing"
  /\ polls' = LET rows == [polls EXCEPT ![Latest].answer = "taken"] IN
              IF answer = "kill" THEN EndContext(rows) ELSE rows
  /\ UNCHANGED <<notices, subscribers, relay, panicked>> /\ ListenerStep

\* The request of a remote operation breaks off: a proxy has waited too long,
\* or the operation's context is done.  An answer on its way is lost.
PollBreaks ==
  /\ remote /\ listener = "polling"
  /\ listener' = IF op.ctxDone THEN "off" ELSE "subscribing"
  /\ polls' = [polls EXCEPT ![Latest].answer = "taken"]
  /\ UNCHANGED <<notices, subscribers, relay, panicked, op>> /\ ListenerStep

\* The server finds out that nobody waits for a poll any more.
ServerNotices(p) ==
  /\ remote /\ p \in DOMAIN polls /\ ~polls[p].done
  /\ p # Latest \/ listener # "polling"
  /\ polls' = ContextEnds(polls, p)
  /\ UNCHANGED <<notices, subscribers, relay, panicked, op, listener>>
  /\ ListenerStep

SignalerStep ==
  /\ RelayLookUp \/ RelayUnsubscribe
     \/ \E p \in Poll : WatcherUnsubscribes(p) \/ Receive(p)
  /\ UNCHANGED <<op, listener>> /\ ListenerStep

\* A panic of the server takes a server runner's operation with it.
RelaySends ==
  /\ RelaySend
  /\ IF panicked' /\ ~panicked /\ ~remote
     THEN op' = [op EXCEPT !.at = "ended", !.alive = FALSE]
          /\ listener' = "off" /\ wd' = Emptied
     ELSE UNCHANGED opVars
  /\ UNCHANGED <<remote, kube, runVars, runnerVars, store>>

-----------------------------------------------------------------------------
(* The operation *)

OpStep == UNCHANGED <<signalVars, remote, kube, runnerVars, listener,
                      cancelSignaled>>
Step == Steps(op.job)[op.step]
LastStep == Len(Steps(op.job))
Goto(at) == op' = [op EXCEPT !.at = at]
Failed == op' = [op EXCEPT !.at = "report", !.step = 1, !.err = TRUE,
                           !.alive = FALSE]
NextStep ==
  op' = IF op.step = LastStep
        THEN [op EXCEPT !.at = "report", !.step = 1, !.alive = FALSE]
        ELSE [op EXCEPT !.at = "check", !.step = @ + 1, !.alive = FALSE]

\* The run and the workspace are fetched, and the working directory made.
Begin ==
  /\ op.at = "begin"
  /\ (~op.ctxDone /\ Goto("check")) \/ Failed
  /\ OpStep /\ UNCHANGED <<jobs, wd, store>>

\* Mutant: the steps go on in spite of a cancelation.
CheckStepAlways ==
  /\ op.at = "check"
  /\ \/ Step \in Engine /\ Goto("window") /\ UNCHANGED <<wd, store>>
     \/ /\ Step \notin Engine /\ (op.ctxDone => Step \in Local)
        /\ wd' = Result(Step, NoVersion) /\ store' = Stored(Step) /\ NextStep
     \/ Step \notin Engine /\ Failed /\ UNCHANGED <<wd, store>>
  /\ OpStep /\ UNCHANGED jobs

\* The top of the loop: a canceled operation goes no further.  A step other
\* than one that runs the engine is done on the spot, or fails.
CheckStep ==
  /\ op.at = "check"
  /\ \/ op.canceled /\ Failed /\ UNCHANGED <<wd, store>>
     \/ ~op.canceled /\ Step \in Engine /\ Goto("window") /\ UNCHANGED <<wd, store>>
     \/ /\ ~op.canceled /\ Step \notin Engine
        /\ op.ctxDone => Step \in Local
        /\ wd' = Result(Step, NoVersion) /\ store' = Stored(Step) /\ NextStep
     \/ ~op.canceled /\ Step \notin Engine /\ Failed /\ UNCHANGED <<wd, store>>
  /\ OpStep /\ UNCHANGED jobs

\* execute: the process starts, whatever has happened since the check.  A
\* cancelation that comes before o.proc is set is not passed on to it.
StartProcess ==
  /\ op.at = "window"
  /\ \/ op' = [op EXCEPT !.at = "engine", !.alive = TRUE,
                         !.lateStarts = @ + (IF op.canceled THEN 1 ELSE 0)]
     \/ Failed
  /\ OpStep /\ UNCHANGED <<jobs, wd, store>>

\* An apply changes the state file, and may do so before it fails.
EngineWritesState ==
  /\ op.at = "engine" /\ Step = "apply" /\ ~op.killed /\ ~op.changed
  /\ op' = [op EXCEPT !.changed = TRUE]
  /\ OpStep /\ UNCHANGED <<jobs, wd, store>>

EngineExits ==
  /\ op.at = "engine"
  /\ \/ /\ Step = "apply"
        /\ \E err \in BOOLEAN :
             /\ op.killed => err
             /\ op' = [op EXCEPT !.at = "saving", !.step = 1, !.alive = FALSE,
                               !.err = err]
        /\ UNCHANGED wd
     \/ /\ Step # "apply" /\ ~op.killed
        /\ \E v \in Offered[op.job] : wd' = Result(Step, v)
        /\ NextStep
     \/ Step # "apply" /\ Failed /\ UNCHANGED wd
  /\ OpStep /\ UNCHANGED <<jobs, store>>

SaveFailed ==
  op' = [op EXCEPT !.at = "report", !.err = TRUE, !.saveFailed = TRUE]

\* Mutant: the state is saved only when the apply went well.
SaveStateIfOK ==
  /\ op.at = "saving"
  /\ \/ (~op.changed \/ op.err) /\ Goto("report") /\ UNCHANGED store
     \/ /\ op.changed /\ ~op.err /\ ~op.ctxDone
        /\ store' = uploadState /\ Goto("report")
     \/ op.changed /\ ~op.err /\ SaveFailed /\ UNCHANGED store
  /\ OpStep /\ UNCHANGED <<jobs, wd>>

\* Mutant: an error of the upload of the state is dropped.
SaveStateQuietly ==
  /\ op.at = "saving"
  /\ \/ Goto("report") /\ UNCHANGED store
     \/ op.changed /\ ~op.ctxDone /\ store' = uploadState /\ Goto("report")
  /\ OpStep /\ UNCHANGED <<jobs, wd>>

\* The end of apply: a changed state file is uploaded, also after an error.
SaveState ==
  /\ op.at = "saving"
  /\ \/ ~op.changed /\ Goto("report") /\ UNCHANGED store
     \/ op.changed /\ ~op.ctxDone /\ store' = uploadState /\ Goto("report")
     \/ op.changed /\ SaveFailed /\ UNCHANGED store
  /\ OpStep /\ UNCHANGED <<jobs, wd>>

\* Mutant: a canceled operation says nothing.
ReportUnlessCanceled ==
  /\ op.at = "report"
  /\ wd' = Emptied
  /\ op' = IF op.canceled THEN [op EXCEPT !.at = "ended"]
           ELSE [op EXCEPT !.at = "finish",
                   !.report = IF op.err THEN "errored" ELSE "finished"]
  /\ OpStep /\ UNCHANGED <<jobs, store>>

\* doAndFinish, once do has returned and removed the working directory.
Report ==
  /\ op.at = "report"
  /\ wd' = Emptied
  /\ op' = IF op.canceled /\ op.ctxDone THEN [op EXCEPT !.at = "ended"]
           ELSE [op EXCEPT !.at = "finish",
                   !.report = IF op.canceled THEN "canceled" ELSE
                              IF op.err THEN "errored" ELSE "finished"]
  /\ OpStep /\ UNCHANGED <<jobs, store>>

\* The call fails on a context that is done, a job that is no longer running, a
\* token that has expired, a broken connection or an error of the database, and is
\* not made again.  Either way the operation's context is then canceled.
FinishJob ==
  /\ op.at = "finish"
  /\ \/ ~op.ctxDone /\ jobs[op.job] = "running" /\ jobs' = [jobs EXCEPT ![op.job] = op.report]
     \/ UNCHANGED jobs
  /\ op' = [op EXCEPT !.at = "ended", !.ctxDone = TRUE]
  /\ polls' = EndContext(polls)
  /\ UNCHANGED <<notices, subscribers, relay, panicked, remote, kube,
                 cancelSignaled, runnerVars, listener, wd, store>>

Proceed == Begin \/ CheckStep \/ StartProcess \/ SaveState \/ Report
           \/ FinishJob

Next ==
  \/ EnqueueApply
  \/ \E j \in Job : CancelRun(j) \/ ForceCancelRun(j) \/ AwaitAllocatedJobs(j)
  \/ StartJob \/ SpawnFork \/ SpawnKube
  \/ RunnerStop \/ RunnerExits \/ RunnerCancelsOp
  \/ Subscribe \/ Answered \/ PollBreaks
  \/ \E p \in Poll : ServerNotices(p)
  \/ SignalerStep \/ RelaySends
  \/ Proceed \/ EngineWritesState \/ EngineExits

\* The scheduler of the processes lets every goroutine run, a call of the
\* server returns, and an engine that was sent an interrupt or a kill comes to an
\* end; of its own accord, or canceled before it was there, it may take for ever.
Fairness ==
  /\ WF_vars(SignalerStep \/ RelaySends)
  /\ WF_vars(Subscribe \/ Answered)
  /\ WF_vars(Proceed \/ (op.told /\ EngineExits))

Spec == Init /\ [][Next]_vars /\ Fairness

-----------------------------------------------------------------------------
(* Properties *)

TypeOK ==
  /\ SignalTypeOK
  /\ remote \in BOOLEAN /\ kube \in BOOLEAN /\ cancelSignaled \in BOOLEAN
  /\ stopping \in BOOLEAN
  /\ jobs \in [Job -> JobStatus]
  /\ runner \in [at : {"waiting", "stopped"}]
       \cup [at : {"starting", "spawning", "secret", "kjob", "owner"}, job : Job]
  /\ op \in OpRow
  /\ listener \in {"off", "subscribing", "polling"}
  /\ wd.lock \in Version \cup {NoVersion}
  /\ store.lock \in Version \cup {NoVersion}

\* An operation of a server runner is canceled only if a user asked for it or
\* the runner is shutting down: doAndFinish takes whatever AwaitJobSignal
\* returns without an error for a signal.
CanceledOnlyOnRequest ==
  op.canceled /\ ~remote => cancelSignaled \/ stopping

\* The engine only ever runs on the configuration with OTF's variables in place
\* of those the configuration came with, and without its backend block, which
\* would send the state elsewhere: the order of the steps in do.
EngineRunsPrepared ==
  op.alive => /\ {"engine", "config", "tfvars", "state"} \subseteq wd.has
              /\ "backend" \notin wd.has

\* apply executes the plan that the plan job uploaded, with the very providers
\* that it was made with, though the two jobs may run on different machines
\* (the comment on downloadLockFile in do).
AppliesWhatWasPlanned ==
  op.alive /\ Step = "apply" =>
    "plan" \in wd.has /\ wd.providers = store.planned

\* A job that is reported finished has left on the server all that it should:
\* the plan in both formats and the lock file that goes with it, and the state
\* when the engine changed it.
FinishedMeansStored ==
  /\ jobs.plan = "finished" =>
       store.plan /\ store.json /\ store.lock = store.planned
  /\ jobs.apply = "finished" /\ op.job = "apply" /\ op.changed => store.state

\* The state that an apply wrote is uploaded even if the apply failed or was
\* canceled, save when the upload itself fails, as it must after a forced
\* cancelation, or the process that runs the operation dies.
StateSaved ==
  /\ op.at \in {"report", "finish", "ended"}
  /\ op.changed /\ ~op.saveFailed /\ ~panicked
  => store.state

\* Once canceled, an operation starts at most the one process that it was
\* already past checking for.
AtMostOneLateStart == op.lateStarts <= 1

\* A signal that finds a server runner's operation subscribed cancels it, unless
\* it ends first.
SignalHeeded ==
  (/\ ~remote /\ notices # <<>> /\ Head(notices).job = op.job
   /\ subscribers[op.job] # 0)
  ~> (op.canceled \/ op.at = "ended")

\* Canceling a server runner's operation ends its job, so that the run does not
\* hang, whenever in the course of the steps and by whatever signals; unless the
\* server panics, the report was made and failed (doAndFinish drops the error), or
\* the engine was started too late to be told and goes on (cancel and execute).
NeverTold == op.at = "engine" /\ ~op.told
ReportLost == op.at = "ended" /\ op.report # "none"
JobReported ==
  (~remote /\ Active /\ op.canceled) ~>
    (jobs[op.job] \in JobDone \/ panicked \/ ReportLost \/ NeverTold)

\* awaitJobSignal's comment: the function "only returns once a job signal is
\* received", and "if the context is canceled then an error is instead
\* returned".  A zero JobSignal without an error is neither.
ReturnsOnlySignals == \A p \in DOMAIN polls : polls[p].answer # "zero"

\* The engine never runs on a directory that lacks something it needs: in
\* either phase (EngineRunsPrepared), and in the second with what the first has
\* made (AppliesWhatWasPlanned); the order of the steps in do.
EngineIsPrepared == EngineRunsPrepared /\ AppliesWhatWasPlanned

\* What a job has produced is on the server when the job is over, whichever of
\* its steps failed or was canceled (doAndFinish, apply, uploadState).
ResultsAreStored == TypeOK /\ FinishedMeansStored /\ StateSaved

\* A request to cancel stops the operation, at most one step late, and nothing
\* but such a request does (cancel, awaitJobSignal, relay).
CancelationIsHeeded == SignalHeeded /\ []CanceledOnlyOnRequest /\ []AtMostOneLateStart
=============================================================================
