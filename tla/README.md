# OTF in TLA+

OTF (`otfd`) is a self-hosted Terraform service. Users, VCS events and the API
create *runs* in *workspaces*; a run plans and, perhaps, applies. Several daemons
work on the same PostgreSQL rows: a scheduler decides which run of a workspace
may plan, an allocator gives the jobs of a run to runners, runners execute them and
send their logs, a timeout daemon ends those that take too long, and a reporter, a
notifier and a triggerer act on what has happened. They share nothing but the rows,
the events that the database publishes when a row changes, and the lock of a
workspace. Around them, requests from the web interface and the API change
workspaces, variables, states, teams and connections to repositories, several at a
time. This directory models these parts, checks them with TLC, and proves the main safety
properties of runs, jobs, daemons and tables with TLAPS.

## 1. Inventory

| Component | State | Operations | Hard behaviour | Correct when |
|---|---|---|---|---|
| Run service (`run/run.go`, `service.go`, `db.go`) | tables `runs`, `plans`, `applies`: status of the run and of its two phases, cancel signal, options | create, enqueue plan, apply, discard, cancel, force-cancel, start and finish a phase, delete | every method may be called by several actors at any time; hooks create and cancel jobs in the same transaction | run, phases, jobs and lock never contradict each other; an ended run stays ended |
| Runner jobs (`runner/job.go`, `service.go`, `db.go`) | table `jobs`: status, runner | create (hook), allocate, reallocate, start, finish, cancel (hook), cascade | the runner may vanish; finish races cancel; reallocation races start | a job is started once, by the runner it belongs to, for a run that waits for it |
| Workspace lock (`workspace/workspace.go`, `lock_service.go`) | `lock_run_id` / `lock_username`, `latest_run_id` | lock, unlock, force-unlock, take-over by a run | a run may take over another run's lock, never a user's | a run that holds the lock is the latest of that workspace |
| Timeout daemon (`run/timeout.go`) | a list made earlier | list, cancel | acts on a stale list | no run stays in progress for ever |
| Scheduler (`run/scheduler.go`) | one queue per workspace, in memory | subscribe, list, seed, handle a run event, handle a workspace event | restarts lose the queues; events are late, stale or lost | one active run per workspace, in order; no run forgotten; no workspace idle while runs wait |
| Allocator (`runner/allocator.go`) | caches of runners and jobs, count of jobs per runner | seed, handle runner and job events, allocate | caches are stale, counts drift | no runner exceeds its capacity (not kept, section 3); every job is allocated eventually |
| Manager, runner statuses (`runner/manager.go`, `meta.go`) | status and last ping of a runner | ping, mark unknown, mark errored, purge | purge cascades to jobs | a live runner is never purged |
| Event delivery (`sql/listener.go`, `pubsub/broker.go`, triggers of `009_refactor_event_triggers.sql`) | table `events`, a bounded buffer per subscriber | trigger, notify, read back, forward, clean up, subscribe, disable | a full subscriber is thrown out; rows are cleaned up; the listener's connection breaks | order is kept; a subscriber that lost events is told |
| Supervisor (`daemon/subsystem.go`) | which node holds the advisory lock | start, restart with backoff | a node dies while it holds the lock | one node at a time runs the exclusive daemons |
| Job signaler (`runner/job_signaler.go`) | subscribers by job | publish, relay, await, poll | the waiter goes, or is replaced, while a signal is relayed | a signaled operation learns of it, and no other |
| Runner and operation (`runner/runner.go`, `operation.go`) | the operation, its working directory, artefacts on the server | fetch, start, steps, cancel, save state, report | cancelation at every step, shutdown, expired tokens | what was planned is applied, the state is saved, the job is reported |
| Logs (`run/chunk.go`, `phase_writer.go`, `tailer.go`, `run/ui`) | chunks of a phase | write, coalesce, load, tail | two writers without a lock, retries, a shared broker | nothing is lost, a page shows it all in order |
| Reporter, notifications (`run/reporter.go`, `notifications/`) | statuses posted, a cache of configurations and clients | report, notify, reload | restarts with and without a memory; events that change no status | the last status is reported; the cache is the table |
| Run triggers (`run/trigger/`) | table `run_triggers` | create runs after an apply | an event does not say what changed | one run per cause |
| VCS integration (`repohooks/`, `connections/`, `vcs/`, `github/`, `gitlab/`, `forgejo/`) | tables `repohooks`, `repo_connections`; webhooks at the provider | connect, disconnect, synchronise, remove, deliver an event | a webhook is not part of a transaction; removals overlap connections | a connection keeps its hook and webhook; no hook outlives its connections |
| Spawner, configuration versions (`run/spawner.go`, `configversion/`) | tables `configuration_versions`, `ingress_attributes` | filter, fetch, create, upload, delete | events are handled concurrently, against settings that change | every event leads to its runs, with its own commit |
| Module registry (`module/`) | tables `modules`, `module_versions` | publish a module, publish a tag, delete | tags are pushed while they are listed | every tag has its version |
| Workspaces (`workspace/`, `runner/` pools, tags) | settings, tags, agent pools, permissions | create, update, delete, tag, assign a pool | updates validate against rows that others change | settings that exclude each other do; a pool in use is not taken away |
| Variables (`variable/`) | tables `variables`, `variable_sets` and their relations | create, update, delete, apply to workspaces, merge | checks and writes are separate statements | no two variables of a scope have the same key |
| State versions (`state/`) | versions with serial and status, the current one | create, upload, roll back, delete | overlapping uploads | the current version has its state; states are written once |
| Accounts and authorization (`user/`, `team/`, `organization/`, `authz/`, `tokens/`) | users, teams, memberships, tokens, permissions | create, delete, add, remove, authorize | a subject is read once and used later | owners govern, and there is one |
| Web interface (`ui/`, `*/ui/`, `path/`) | routes, sessions, cookies | ~150 handlers | handlers call several services, templates check permissions on their own | what is offered works, what fails has changed nothing, a redirect arrives |
| API, CLI, engines, clients of VCS hosts, database plumbing, dynamic credentials | – | – | – | – |

`PROJECT.json` lists all of them with their status under `components`, and under
`hazards` the places where something can go wrong that a test would hardly reach.
Paths are relative to `internal/`.

## 2. Modules

| Module | Models | Uses |
|---|---|---|
| `RunLifecycle` | what the rows promise to processes that only ask how far a run has got: seven statuses of a run, the lock and the existence of its workspace | |
| `RunJobs` | the tables `runs`, `plans`, `applies`, `jobs`, the lock, and every service method that changes them; the timeout daemon | instantiates `RunLifecycle` as its abstraction |
| `Scheduler` | the scheduler, and the event streams it hears | extends `RunLifecycle`, whose actions are the database calls, and `Subscription` |
| `Subscription` | what a broker does to the events for one subscriber: order, bounded buffer, closing | |
| `Allocator` | the allocator, the runners' statuses, the manager, and the two event streams it hears | extends `Subscription` |
| `JobSignaler` | signals and their subscribers, polls through the API | |
| `Execution` | the runner's loop and the operation of each job of one run | extends `JobSignaler` |
| `EventStream` | table `events`, listener, brokers, any number of subscriptions | extends `Subscription` |
| `Logs` | the logs of a phase, from the engine's output to the pages that show them | extends `EventStream` |
| `Watchers` | reporter, triggerer and notifier | extends `EventStream`, and instantiates it for a second table |
| `Repohooks` | connections, hooks and webhooks, with overlapping transactions | |
| `VCS` | events of three hosts, their conversion, the spawner, configuration versions | extends `Repohooks` |
| `Registry` | the module registry | extends `VCS` |
| `Requests` | sessions: a request is a series of transactions and statements, with the locks it holds | |
| `Workspaces`, `Variables`, `StateVersions` | the tables of an organization | extend `Requests` |
| `Authz` | roles and permissions, as functions | |
| `Accounts` | users, teams, memberships, tokens, permissions on workspaces | extends `Requests`, `Authz` |
| `Organization` | the four of them together, with the deletion of a workspace and its cascades | extends them |
| `Paths` | `path.go`: the paths of resources | |
| `Services` | the service methods as the web interface sees them: what they need, check and change | extends `Paths`, `Authz` |
| `WebRuns`, `WebVariables`, `WebOrganizations`, `WebRunners`, `WebProviders` | the handlers and what their pages offer: runs and triggers; state versions and variables; organizations, teams and users; SSH keys, runners and pools; VCS providers, GitHub apps and modules | extend `Services` |
| `WebWorkspaces` | the same for workspaces, whose page shows their latest run | extends `WebRuns` |
| `Web` | a browser's tab, sessions, cookies, redirects and errors | extends them |
| `MC...` | symmetry, and the scenarios of a run, for TLC | |
| `RunJobsProofs` | the inductive invariant of `RunJobs`, the theorems that follow from it, and that `RunJobs` implements `RunLifecycle` | extends `RunJobs` |
| `SchedulerProofs` | the inductive invariant of `Scheduler` and its safety properties | extends `Scheduler` |
| `AllocatorProofs` | the inductive invariant of `Allocator` and its safety properties | extends `Allocator` |
| `EventStreamProofs` | the inductive invariant of one table's events and of any number of subscriptions, and the order of what each takes | extends `EventStream` |
| `LogsProofs` | the inductive invariant of `Logs`: the output from the writer over the tables and their events to the pages | extends `Logs`, `EventStreamProofs` |
| `WatchersProofs` | the inductive invariant of the three daemons of `Watchers`, their two streams and their caches | extends `Watchers`, `EventStreamProofs`, and instantiates `EventStreamProofs` for the second table |
| `ExecutionProofs` | the inductive invariant of the operations of a run's two jobs, and of signals and polls | extends `Execution` |
| `OrganizationProofs` | the inductive invariant of the tables of an organization and of the requests that change them | extends `Organization` |

`RunLifecycle` is the joint: `RunJobs` is shown to implement it, with the actual
statuses and jobs, and `Scheduler` runs on it, so that the scheduler's state space
does not have to carry the jobs. `EventStream` is the other one: what `Subscription`
says in a few lines about one subscriber is there with the table, the listener's
connection and its faults, and `NoSilentGap` is what `Scheduler` and `Allocator` rely
on when they treat a closed channel as the only sign that an event was missed. It does not
hold of a subscription that a failed read of the listener has left open, and those two
modules have no such event.

### RunJobs and the code

A service method opens a transaction, reads the rows with `SELECT ... FOR UPDATE`,
changes them, calls its hooks, and rolls back when anything fails
(`internal/sql/updater.go`). So one method is one action: its guard says that no
step of it fails, and a failed call is a stuttering step. The hooks are part of
the action: `EnqueuePlan` and `ApplyRun` create the job, `CancelRows` cancels or
signals it, `FinishJob` includes the automatic apply that the code runs in the
same transaction.

* `runs[r]` is a row of `runs` joined with `plans` and `applies`; `jobs[r][p]` the
  job of run `r` for phase `p` (the table is unique by run and phase); `lock`,
  `latestRun` columns of `workspaces`; `signals` the cancelation signals that were
  published. A row is `absent` before it is inserted and `deleted` afterwards; ids
  are random in the code and not reused in the model.
* The methods of `Run` and `Job` are operators on rows with the source's names
  (`CancelRow` is `Run.Cancel`, `JobMoves` is `Job.updateStatus`); a name ending in
  `Allowed` is the condition under which the method returns no error.
* `Run.Discard` compares the status with `pending` after it has overwritten it, so
  `DiscardRow` leaves the plan alone; `Run.Cancel` names neither `cost_estimated` nor
  the ended statuses, so `CanceledPlan` and `CanceledApply` leave the phases alone.
* `DeleteRunner` and `DeleteRun` include the cascades of the foreign keys.
* The result of a plan (are there changes, does its report fail, does the
  organization estimate costs) is a free choice, as are the clock comparisons: when
  the cool-off period of a forced cancelation is over, which runs are overdue.
* Not in the model: plan files, reports, logs, status timestamps, run variables,
  authorization. No decision modelled here reads them.

### Scheduler and the code

The scheduler is one goroutine. It subscribes to workspaces, then to runs
(`WatchWorkspaces`, `WatchRuns`), lists the incomplete runs (`ListRuns`), schedules
each of them (`Seed`) and then handles one event at a time. The handling of an event
calls the database at most once and touches only private state besides, so it is one
step; between steps the rows change. An error returned by `schedule` ends `Start`,
and the supervisor calls it again: `Stop` forgets everything.

* `process` and `schedule` follow the two functions of the same name. `schedule`
  has one disjunct per outcome of the database call: it succeeds, the workspace is
  locked by a user, the workspace is gone, or it fails.
* An event is a copy of the row at the commit (`RunChanged`), the old row for a
  deletion, and sits in `runEvents` or `wsEvents` until it is handled. The channel
  between the commit and the buffer of the subscription is merged with the buffer.
  Events of locked workspaces are left out: the scheduler ignores them.
* `Deliver` (of `Subscription`) is `Broker.Forward`: an event that does not fit closes the subscription,
  which the scheduler notices once the buffer is drained (`SubscriptionTerminated`).
  While nobody is subscribed, events that are on their way are lost (`Miss...Event`),
  or arrive after the next subscription.
* `UpdateRun` stands for everything that others do to a run, `UpdateWorkspace` for
  changes of a workspace that leave the lock alone, `TriggerEvent` for the update
  without effect that reminds the UI after the cool-off period.

### Allocator and the code

Like the scheduler, the allocator is one goroutine that is restarted from nothing on
any error. It subscribes to runners, then to jobs, lists the runners with the number of
jobs each holds, then the jobs (`WatchRunners`, `WatchJobs`, `ListRunners`, `listJobs`),
and tries to place every cached job, at the start and after each event (`Round`).

* `cachedJobs`, `cachedRunners` and `currentJobs` are the three maps of the Go struct;
  a key that is missing is `absent`, or 0 in the tally, as in Go.
* One call of `allocate` is one step: it makes at most one database call. The order
  within a round is Go's map order, so any job of `todo` may be next, and the rows may
  change between two of them. `Place` fails, and with it the allocator, when the row no
  longer has the status of the cached job (`Job.updateStatus`, `Job.reallocate`) or the
  runner's row is gone (foreign key).
* An updated event changes the cached status only; a created event reads the row again,
  and for a runner the number of its jobs as well (`addRunner`).
* `healthy` is idle or busy, `final` errored or exited, `done` finished, errored or
  canceled: the allocator does not tell them apart.
* The jobs' side is a small copy of what `RunJobs` says of one job: created, started
  by whoever holds it, ended, deleted with its run or by the cascade of a purge.
* The runner whose cached ping is the latest is chosen in the code. The cached ping is
  that of the list or of the registration, and the model leaves the choice free.
* The pool of a job and of a runner is fixed, and there is one pool.

### JobSignaler, Execution and the code

A runner gets the jobs allocated to it, starts one (`StartJob`, which gives it a
token) and spawns an operation. `doAndFinish` starts a goroutine that awaits signals
and then does the steps of `do` in order, with a check for cancelation before each.

* `notices` are PostgreSQL's notifications of signals; `relay` looks a subscriber up
  under the mutex, sends without it and unsubscribes under it again: three actions. A
  channel that is closed between the first two makes the send panic (`panicked`), which
  takes the server with it. A poll of an agent is an HTTP request that outlives the
  agent's interest in it; its end unsubscribes whoever is subscribed then.
* `Steps` is the list of steps of a phase; `CheckStep`, `StartProcess`, `EngineWritesState`
  and `EngineExits` are what a step consists of. A process is started without a lock, so a
  cancelation may fall between the check and the start. Interrupt and kill differ: a
  kill also ends the context that the following calls need.
* The working directory `wd` has what the steps have put there, `store` what the
  server has: plan in both formats, lock file, state. The engine is external: it may
  write a state and it exits, well or not.
* `remote` and `kube` choose between a server's runner, an agent and a pod. The token
  of a remote job may expire, and its calls fail.

### EventStream, Logs, Watchers and the code

* `EventStream`: a commit appends an event to `feed`, inserts its row and notifies its
  id, to the connection that listens, if there is one (`build_and_send_event`); the listener reads the row back
  and forwards it to every buffer (`Forwarded`); the clean-up deletes old rows. A lost
  connection disables the brokers, which closes every subscription; a row that cannot
  be read ends the listener without that (`lapsed`), and the subscriptions that are open
  then, or made before the listener is back, miss what happens meanwhile (`deaf`).
* `Logs`: two goroutines copy the engine's streams into one `PhaseWriter`, which reads
  its offset and writes it in separate steps; each write is a chunk, put by a call that
  a remote client repeats. The last chunk replaces all chunks by one. A page loads what
  is stored and then tails, from a subscription on the chunks of all runs, with an
  offset that tells what is new. Bytes are numbers, in the order of their production.
* `Watchers`: each daemon is a subscription, a start from a list or from nothing, and
  an action per event. The reporter's cache is on the struct and outlives a restart
  of its loop; the notifier's is rebuilt. The triggerer creates one run after the
  other (`todo`). A change of a run that is no change of its status (`touches`) is an
  event like any other.

### Repohooks, VCS, Registry and the code

* `Repohooks`: `Connect`, `Disconnect` and the removal of hooks are transactions of
  several statements, two at a time, with the table lock on `repohooks` and the row
  locks they take. The webhook at the provider is created and deleted by calls that no
  roll back undoes, and that may fail. Someone may delete it by hand. A removal deletes
  the hooks it has listed before without the lock; it fails as a whole when a hook has
  gone in the meantime (`StillThere`), since `Exec` reports that no row was affected.
* `VCS`: what happens in a repository is delivered to the endpoint of the hook, converted
  (each of the three hosts has its own handler), and given to the spawner and the
  publisher in goroutines of their own. The spawner goes through the workspaces of the
  repository, fetches the commit, creates a configuration version, uploads it and
  creates the run: each call is a step, and the first that fails ends the loop. Runs by
  users take the head of the branch.
* `Registry`: publishing connects, lists the tags and publishes one version after the
  other; a tag pushed later comes by an event, and both may publish the same one. A module without versions
  to publish ends in a status of its own.

### Requests, Workspaces, Variables, StateVersions, Accounts and the code

A request is a session with a place (`at`) and what it has read so far. Where the code
reads, decides and writes in separate statements, or takes a table lock in between,
these are separate actions; where it holds row locks from the first read to the commit,
they are one. `Spend` takes from the budget of the behaviour, so that the scenarios of
`MCOrganization` say what may happen in it.

* `Workspaces`: `NewWorkspace` and `Update` with the options that exclude each other,
  execution mode and pool with the access check that comes before them, the pool's own
  update, tags. A deletion is two steps: the statement, with the trigger that deletes the
  tags no workspace has as far as the transaction sees, and the commit. Two deletions
  overlap, and neither sees what the other has not committed (`TagsFree`, `Unused`).
* `Variables`: the lock on the table, the conflict checks over the scopes of workspace,
  set and global sets, and `Merge`, which is compared with a definition by precedence.
  A deletion of a set may be aborted by the database for a deadlock, which is an action.
* `StateVersions`: `factory.new` compares serials outside of the transaction that
  inserts; `uploadStateAndOutputs` finalizes, discards what is pending with a lower
  serial, and sets the current version. Equal content is the code's equal MD5.
* `Accounts`: who sends a request is read when it is authenticated, with its teams, and
  kept; `Authz` is `CanAccess` of each kind of subject with the table of roles. The
  permissions on a workspace are read when a call is authorized.

### Paths, Services, Web and the code

The web interface is data: for every handler its method and path, the calls it makes,
one after the other, where it redirects to, and the offers of its page - links, forms,
polling tables, streams - with the rows they need and the permission under which the
template shows them. `Web` interprets this data: `Follow` sends a request from an offer,
`Call` makes one call of its handler, between any two of which others may delete or
insert a row, `Redirect` follows the answer. Sessions expire; the path is saved in a
cookie and used after the login. The flash is in a cookie as well. The organization has
one or two rows of every kind, and a status that a page decides on is a row. Templates
give operators of their names, and handlers as well; a method of a service says which
permission it asks for, on what, and which others it asks for when a row is there (the
runner service looks at the pool of a workspace before each of its updates).

## 3. Runs

| Run | Configuration | Shows |
|---|---|---|
| `runjobs` | 2 runs, 1 workspace, 1 runner, 1 user | the tables never contradict each other |
| `runjobs_timeout` | 1 run, 2 runners | `StartedOnce`, `DoneStaysDone`, implementation of `RunLifecycle`, and with the daemon's fairness `InProgressEnds` |
| `scheduler` | 2 runs, 1 workspace, 1 user, buffers of 2, 1 crash, deletions | `RunsAreKnown`, `OneActiveRun`, `FirstComeFirstServed`, `ActiveRunKeepsLock` |
| `scheduler_live` | the same with cost estimation, a run that is signaled and buffers of 1, without crash and deletion of single runs | `WaitingRunsAreServed` |
| `allocator` | 2 jobs, 1 runner that registers, buffers of 2, late events, deletions, 1 crash | `JobsAreKnown`, `CacheAgreesWhenQuiet` |
| `allocator_live` | 2 jobs of an agent pool, 1 agent with unlimited room that may go, 1 with a single slot | `JobsAreAllocated` |
| `execution` | plan and apply of a run, on a server's runner, an agent or a pod; a provider version released between the two | `EngineIsPrepared`, `ResultsAreStored`, `CancelationIsHeeded`, `JobReported` |
| `logs` | 2 bytes of output on 2 streams, 1 page, buffers of 2, any 2 of 8 kinds of fault | `LogsAreKept`, `NoSilentGap`, `PageCatchesUp` |
| `watchers` | 3 daemons, up to 3 runs, 2 notification configurations, six scenarios | `CommitStatusIsCurrent`, `TriggersWhenApplied`, `NotifierIsCurrent` |
| `registry` | 2 workspaces and a module on 1 repository, 2 providers of which one needs no webhook, 2 sessions, 15 scenarios | `HooksFollowConnections`, `RunsFollowEvents`, `TagsPublished` |
| `organization` | 2 workspaces, 2 sets, 3 variables, 3 versions, 3 users and teams, 2 sessions, 19 scenarios | `TablesAgree`, `MergeFollowsPrecedence`, `StatesMoveForward`, `UpdatesTakeNothingBack`, `OwnersGovern` |
| `web` | every role, four states of an organization, up to two offers in a row, one change by others, one expiry | `PagesAreRouted`, `ErrorMeansUnchanged`, `UsersLand`, `GuardedOffersWork` |

The properties, in words. Where several belong to one question, a run checks their
conjunction, whose name is the first of a group.

* `LiveJobMatchesRun`: no cancelation, discard, finish or timeout leaves behind a job
  that a runner would still pick up.
* `RunMatchesPhases`: the statuses of run, plan and apply tell the same story.
* `ApplyFollowsPlan`: nothing is applied that was not planned.
* `LockingRunIsLatest`: the lock, the latest run and the workspace of the run agree.
* `StartedOnce`: a started job never moves to another runner.
* `DoneStaysDone`: an ended run is not revived.
* `InProgressEnds`: the timeout daemon ends what a dead runner left.
* `ImplementsLifecycle`: each method is one stage of a run's life, or invisible.
* `RunsAreKnown` is `NoRunForgotten` with the types: between the two subscriptions, the
  list and the events there is no gap in which a run gets lost. `JobsAreKnown` is
  `NoJobForgotten`, the same for jobs.
* `OneActiveRun`, `FirstComeFirstServed`: the workspace queue does what a queue is for,
  across restarts.
* `ActiveRunKeepsLock`: a stale event does not make the scheduler unlock the
  workspace of an active run.
* `WaitingRunsAreServed`: a workspace is not idle for ever while runs wait in it.
* `CacheAgreesWhenQuiet`: whatever the order in which lists and events, old and new,
  reach the allocator, once it has caught up its caches are the tables.
* `JobsAreAllocated`: no job waits for ever while there is a runner for it, and none is
  left with a runner that has gone while there is another.
* `EngineIsPrepared`: the engine runs only on a configuration with OTF's variables and
  without its own backend (`EngineRunsPrepared`), and applies the very plan that was
  stored, with the providers it was made with (`AppliesWhatWasPlanned`).
* `ResultsAreStored`: a job that is reported finished has left everything on the server
  (`FinishedMeansStored`), and a state is saved although the apply failed (`StateSaved`).
* `CancelationIsHeeded`: a signal that finds an operation waiting cancels it
  (`SignalHeeded`), nothing else does (`CanceledOnlyOnRequest`), and at most one process
  is started afterwards (`AtMostOneLateStart`). `JobReported`: then the job ends, unless
  the server panics, the report was made and failed (`ReportLost`: `doAndFinish` only
  logs the error), or the operation was canceled between its last check and the start of
  the process, which is then told nothing (`NeverTold`).
* `LogsAreKept`: a byte whose write has returned stays (`OutputKept`), the end is the
  last chunk (`EndIsLast`), and a page shows a beginning of the output without a hole
  (`PagesShowTheLogs`). `NoSilentGap`: a subscriber misses nothing without being told,
  but for the subscriptions that a failed read of the listener has left open; those made
  after its restart are included. `PageCatchesUp`: every byte that is stored while a page
  is open comes to be shown, rendered or relayed, unless the broker cuts the page off. A page
  that was told that the logs are complete is not exempt.
* `CommitStatusIsCurrent`: the commit status is that of the last event handled.
  `TriggersWhenApplied`: only an applied run triggers others, once per workspace as long as its row is not
  updated again. `NotifierIsCurrent`: clients are counted right
  (`ClientsCounted`) and the cache is the table (`CacheAgreesWhenQuiet`).
* `HooksFollowConnections`: a visible hook has its webhook's id (`HooksAreSynchronised`),
  a connection keeps hook and webhook (`ConnectionIsServed`), and no hook is left over
  (`UnusedHooksRemoved`), whatever connects, disconnects, removes, fails and rolls back at the
  same time. Exempt are, one by one, the resources connected with a hook that a removal
  had listed already (`overtaken`), the hooks whose last two connections go at the same
  time (`crossed`), and the webhooks that were deleted at the provider by hand or by a
  removal that rolled back (`lost`). Webhooks that no hook refers to are not looked at.
* `RunsFollowEvents`: an event leads to a run wherever the settings promise one and
  nowhere else (`EventsLeadToRuns`), to one (`OneRunPerEvent`), with the commit that was
  pushed (`RunsHaveConfig`). `TagsPublished`: no tag falls between publishing and events.
* `TablesAgree`: no two variables of a scope have a key in common (`NoConflicts`), the
  current version has its state (`CurrentHasState`), the tags of a workspace exist
  (`TagsExist`), also when a deletion takes the last use of one while another workspace is
  tagged with it. `MergeFollowsPrecedence`: what a run gets does not depend on the
  order in which the database returns the sets.
* `StatesMoveForward`: a state is written once (`StateWrittenOnce`). Whenever a version
  becomes current, by upload or rollback and whatever its serial, all that was pending is
  discarded and no request can upload it any more (`OvertakenIsDiscarded`). The current
  serial does not go back in a workspace whose versions were all inserted with a serial that
  the check would still have accepted then (`OvertakenIsNotUploaded`).
* `UpdatesTakeNothingBack`: a pool in use is not taken away (`PoolIsNotTakenAway`); a
  sensitive variable stays so (`SensitiveStaysSensitive`).
* `OwnersGovern`: one removal alone leaves an owner (`OwnersAreKept`); teams are changed
  only by those who were owners when they were authenticated (`OwnersManageTeams`).
* `PagesAreRouted`: every form, table, stream and fragment has a handler
  (`FormsAreRouted`). `ErrorMeansUnchanged`: a handler that shows an error has changed
  nothing. `UsersLand`: redirects arrive at a page that is there and permitted
  (`RedirectsLand`), also after a login (`LoginReturns`). `GuardedOffersWork`: what a
  template offers under a check, the service permits.

### Disagreements between the code and what it says

Comments and documents state some properties that the code does not keep. They are
defined in the modules, and TLC finds a counterexample for each; they are not in the
list of runs. One has a configuration of its own, `Scheduler_WaitingRunsAreServed.cfg`:
the current run is deleted and the queue behind it stands still. The others are found
by adding the property to the configuration of the module's run, with other constants
where the table says so:

| Property | Stated in | What happens |
|---|---|---|
| `Scheduler!DoneRunReleasesLock` | `run/scheduler.go:214` | with the constants of `Scheduler_WaitingRunsAreServed.cfg` but `Deletable = {}` and `Signalable = {r1}`: a stale event makes the scheduler restart, and the lock of the run that ended meanwhile is not released |
| `RunJobs!SignaledRunHasSignaledJob` | `runner/job.go:215`, "signal job to gracefully cancel current operation" | the run is signaled while it plans, the plan finishes anyway, and the automatic apply is not signaled and cannot be (one run is enough) |
| `Execution!ReturnsOnlySignals` | `runner/job_signaler.go:98`, "The only reason the channel closes is because the context has been canceled" | a poll that is replaced, or whose relay has unsubscribed, finds its channel closed too |
| `Logs!FinishedPageIsComplete` | `run/ui/handlers.go:563`, "no more logs" | an overflow or an outage closes the channel as well |
| `Allocator!WithinCapacity` | `runner/runner.go`, `MaxJobs` | a runner holds more jobs than it may. With three jobs and no deletions (`Deletable = {}`, `LateEvents = FALSE`, a buffer of 3): a runner registers while the allocator starts; its event resets the tally ahead of the events of its jobs. Or, with `Latecomers = {}` but `LateEvents = TRUE` and a buffer of 4: the allocator restarts while the creation of a job is on its way, the job ends before it arrives, is cached as ended, and is taken off a tally that never counted it |
| `Allocator!TallyAgreesWhenQuiet` | `runner/allocator.go`, `currentJobs` | with one job and no late runner: a job deleted between the list of runners and the list of jobs stays in the tally |
| `Watchers!TriggersOnce` | `run/trigger/triggerer.go:16` | an applied run is updated again, and triggers again |
| `Registry!ConnectionHasHook` | `repohooks/service.go:94`, "lock repohooks table to prevent concurrent updates" | the removal does not take the lock, so it deletes a hook that a resource has been connected with since it was listed |
| `Registry!NoHookIsLeft` | `connections/service.go`, `Disconnect` | the last two connections of a hook are deleted at the same time; neither transaction sees the other's deletion, and none deletes the hook |
| `Registry!NoWebhookIsLeft` | `repohooks/service.go`, `RegisterCloudHook` and `deleteRepohook` | a connection rolls back after its webhook was created, or the provider refuses to delete one: the webhook stays |
| `Registry!ModuleIsSetUp` | `module/service.go:66` | no tag looks like a version |
| `Organization!TagsAreInUse` | `sql/migrations/001_migrate_migrator.sql:72`, the trigger `delete_tags` | of two workspaces with a tag of their own in common, deleted at the same time, each deletion still sees the other's, and the tag stays |
| `Organization!OneTrigger` | `workspace/workspace.go:59`, "TriggerPatterns is mutually exclusive with Connection.TagsRegex" | patterns and a tags expression are set by one request or two |
| `Organization!PoolIsGranted` | `runner/service.go:623` | access is checked before the workspace's update, and a pool restricted in between |
| `Organization!SerialNeverGoesBack` | `state/version.go:86` | the serial is compared outside of the transaction that inserts |
| `Organization!OrganizationHasOwner` | `docs/docs/rbac.md:23` | two removals overlap; an account is deleted; the team is renamed |
| `Organization!SiteAdminsAreSet` | `user/service.go:293` | two daemons start together with different names |
| `Web!NoDeadLinks` | `path/path.go:12` | a breadcrumb leads to a variable set, which has no page of that path |
| `Web!LoginReturnsToPage` | `ui/helpers/html.go:27` | the path of a form is saved, and opened with GET |

More were met and have no property of their own:

* `Run.Cancel` asks neither `Done` nor `Cancelable`, so a run that was applied, discarded
  or has failed becomes canceled when it is canceled (`Moves` of `RunLifecycle` allows
  this; `DoneStaysDone` says that nothing worse happens).
* `Run.Discard` tests for `pending` after it has overwritten the status, so the plan of a
  discarded pending run stays pending (`DiscardRow`).
* `IncompleteRun` lists all statuses before the end but `cost_estimated`: with
  `CostEstimation = TRUE` in `Scheduler.cfg`, TLC shows that a restarted scheduler forgets
  such a run, and then starts another beside it.
* The list at the start is in the order of `created_at`, which is taken before the insert.
  If runs are inserted in another order, a restarted scheduler starts a second run beside
  the active one. The model inserts them in order.
* A signal relayed to a channel that has just been closed makes the server panic
  (`RelaySend`); the properties of `Execution` say what holds unless it does.

The passing runs therefore exclude some causes, by constants (`CostEstimation`,
`Deletable`, `Latecomers`, `LateEvents`) or, object by object, in the statement of the
property (`deaf`, `overtaken`, `crossed`, `NeverTold`, `ReportLost`), and say with them under
which conditions the properties hold. No run and no theorem claims that the limit on a
runner's jobs is kept: late runners and late events are ordinary, and with either it is not.
`JobsAreAllocated` is checked without deletions and restarts: a job that stays in the tally
(`TallyAgreesWhenQuiet`) takes up room, and others may wait for it.

### Bounds

Two runs of one workspace are enough for every take-over of a lock and every
overtaking in a queue; workspaces do not interact, as no method reads two of them. One
runner suffices for the tables, two for reallocation. Buffers of two events (100 in
the code) overflow within a few steps; the code's logic does not depend on the size.
The liveness of the scheduler was also checked with buffers of two. `MaxCrashes`
bounds crashes of the scheduler's own making; its restarts on errors and overflows are
not bounded. `Deletable` and `Signalable` bound who is deleted and who is signaled,
`Fallible` which runners may go. For the allocator two jobs make one wait for the
other's room and one runner or two make it wait or move.

`MaxPolls` is the number of polls for signals, two so that one may replace another;
`MaxBytes` and `MaxFaults` bound the output and the kinds of fault in one behaviour: two
bytes make two writes that race, and two faults are needed for those that hide one another.
In `Watchers`, `Registry` and `Organization` a behaviour starts with one of several
*budgets*: where it starts, and how many changes of each kind it may have. Each scenario
has what one question needs (a module published while a tag is pushed; two removals of
owners), so that depth is spent where actors meet and not on the product of everything.
Two sessions are enough: every hazard listed is one of two requests. In `Web`, a visit is
a state of the organization, a user, and what may happen.

Deadlock is not checked: when every run is deleted or the budget is spent nothing is left
to do, which is how these models may end.

### Fairness

* `RunJobs!FairSpec`: the timeout daemon has a ticker of one minute, so a run that
  stays in progress ends up over its limit, is listed, and its cancelation attempted.
  Strong fairness of listing, as other lists may come between. No runner, user or
  allocator is fair.
* `Scheduler!FairSpec`: the supervisor restarts the scheduler whenever it stops, and
  `select` takes from a channel that has something in it, so each of the scheduler's
  own steps is weakly fair. Go's `select` chooses at random, so neither channel
  starves. Nobody else is obliged to do anything.
* `Allocator!FairSpec`: the same for the allocator's steps. Handling an event is
  enabled only between two rounds, so its fairness is strong, which the random choice of
  `select` gives. Each runner's row is updated again and again, by its ping every ten
  seconds or by the manager (`Heartbeat`). This is needed: in a round after the end of a
  job a waiting job may be looked at before the ended one is taken off the tally, and
  then only the next event, if need be a ping, makes the allocator look again.
* `Execution!Spec`: the relay, the goroutine that awaits signals and the operation's own
  steps go on. The engine exits once a signal has reached its process (`told`); of its own
  accord, or when its operation was canceled before there was a process, it may run for
  ever. Nobody has to cancel anything.
* `Logs!Spec`: the listener, restarted by the supervisor, a write that has begun and the
  browser's page, which connects again when its stream breaks, go on. The engine need
  not output anything.

The other modules state safety only.

## 4. Proofs

Every theorem is about the specification that the runs check, for any values of its
constants under the assumptions of its module. TLC checked each inductive invariant on
the instance of a run before it was proved.

### RunJobs

`RunJobsProofs` proves for any number of runs, workspaces, runners and users that

    IndInv  ==  TypeOK, RowsAgree and LockingRunIsLatest

is inductive (`Invariance`), and from it the theorems `TypeCorrect`, `LiveJobs`,
`Phases`, `Applies` and `Locks`. The invariants of the runs are not inductive one by
one. That a job in the table matches its run needs the statuses of the phases, which
need to know which jobs may exist: for example, finishing a plan creates the job of the
apply only because there is none, and that there is none follows from the status of the
apply. `RowsAgree` states all of this for one run, its two phases and its two jobs; the
lemmas show it method by method on rows, and the steps of the specification only have
to say which row they change. `OneRunnerPerJob` is the action property `StartedOnce`:
under the invariant no method moves a started job to another runner or starts it again.

`Refinement`: under `IndInv` each step of `RunJobs` is a step of `RunLifecycle` or leaves
its variables unchanged. The mapping drops the jobs and phases and folds the statuses
(`LifecycleStatus`). `EndIsEnd` takes `DoneStaysDone` from the abstract specification
back to the detailed one.

Assumption `ConstantsAssumption`: the null value is none of the ids, and no user has the
name of a run.

### Scheduler

`IInv` relates three things that the code keeps apart: the rows, the events that are on
their way or in a buffer, and the scheduler's maps. A copy of a row, in an event or in
the list, says nothing that the row takes back (`NoteAgrees`: a run moves on, never
back); the run at work in a workspace is the current one of its queue or listed ahead of
all others (`WorksIsCurrent`); whoever stands in front of a run in the backlog, in the
list or in the events was created before it, or comes a second time (`BacklogInOrder`,
`TodoInOrder`, `EventsInOrder`); and a run that needs the scheduler is in a queue, listed,
or has an event on its way, unless the scheduler has been told that it missed something
(`NoneLost`). The actions append to the events, drop all of them, or handle the first;
the first lemmas of the module say what these do to a sequence. From it follow the theorems about
`RunsAreKnown`, `OneActiveRun`, `FirstComeFirstServed` and `ActiveRunKeepsLock`.

All four are proved for `~CostEstimation`, and this is the code: `IncompleteRun` does not
list `cost_estimated`, so after a restart the scheduler does not know of a run in that
status (section 3). The runs that check them have the same value.

### Allocator

The caches are filled from two lists and from events that are older or newer than these.
`IInv` says why they come right in the end. The newest event on its way of a job, or of a
runner, tells its present status (`NewestJobAgrees`, `NewestRunnerAgrees`), and what is
cached of one that no event is on its way of is its row (`JobIsFresh`, `RunnerIsFresh`);
both as long as the subscription has not been closed. To keep this the invariant also
says that events are older than the rows and rows only move on (`JobEventAgrees`), that
the cached runner of a job is the row's (`CachedAgrees`: only the allocator changes it,
which is why an updated event may leave it alone), and that an ended job is cached only
until the round that retires it. `AllocatorInvariance` states it for any numbers of jobs
and runners, late events, deletions, overflows and crashes; from it follow `NoJobIsLost`
(`JobsAreKnown`) and `CachesCatchUp` (`CacheAgreesWhenQuiet`).

Assumption `AllocatorAssumption`: the jobs are a finite set, as `Cardinality` needs, the
null value is no id, and a runner may hold at least one job.

### Events and logs

`StreamInvariance`: for each subscription the events in flight, those in its buffer and
those it has taken are consecutive, up to the latest of the table; or its channel has
been closed; or it is one of those that were open when the listener ended on a row it
could not read, or were made while it was down (`deaf`). `GapsAreTold` is `NoSilentGap`:
it claims nothing of the deaf ones, which do miss events silently, and everything of
those made after the restart. The invariant also has to say which ids are on
their way to the listener (the last ones), and that a listener that is down has closed
every subscription but the deaf ones, and opens none but deaf ones before it listens again:
the order of `Disable`, `LISTEN` and `Enable`. While the listener has not lapsed, also a
subscription that has been closed still has the events in its buffer in order (`Ordered`),
since whoever reads it goes on taking them; `Logs` and `Watchers` both rest on that.

`OutputIsKeptAndShown` is `LogsAreKept`, for any number of pages, any size of their
buffers, any output and any number of faults. Its invariant `LogsInv` has three parts.

* In every behaviour (`KeptInv`): the bytes whose write has returned are in the rows of
  `chunks` or, coalesced, in `logs`; no chunk but the last has an end; a writer that is
  closed has nothing under way, and only a closed one has left logs. Neither the race of
  the two streams nor a call that is repeated breaks it.
* With one stream at a time (`InOrder`): what is stored lies before the writer's offset,
  so the last chunk is the last row and its end the last byte (`EndIsLast`).
* As long as also no call is repeated, the run is not deleted and the listener does not
  lapse (`Faithful`): there is a number of bytes n that fixes everything (`Sound`). The
  rows are `Rows(n)`, or the logs what these make and the end; the writer is at the
  n-th byte or about to put the next (`WriterAt`). The events are those rows in order,
  then the last chunk, then all the rows once more, which is what the coalescing's
  DELETE is to the trigger (`FeedAt`). A page shows the first m of the n bytes
  (`PageAt`). One that tails has shown all that lies before the event it is due and
  before the offset it began at, and none of what it has shown reaches it again unless
  the last chunk, which ends the tail, comes first (`TailAt`): that is why the
  second coming of the rows doubles nothing, although the tail does not look at the type
  of an event.

The bytes in a row are fixed by its number because no write overlaps another; a chunk
is therefore relayed whole or not at all (`RelayedRow`), and only the last chunk is ever
cut (`RelayedEnd`). What `FlattenSeq` makes of a longer sequence (`FlattenAppend`), and so
what is visible of the stored rows, is proved by induction over the length: the set of
the numbers for which it holds has no least number outside of it (`Induct`, from the
well-foundedness of the natural numbers).

Assumption `LogsAssumption`: the two bounds are natural numbers.

### Watchers

`WatchersInv` has the invariant of `EventStreamProofs` for each of the two tables, and that
the events in every buffer are in order (`Ordered`).

* The reporter. Its cache names, for each run in it, the status that was set last
  (`CacheIsPosted`): cache and statuses both outlive a restart, so an event that is
  skipped because of the cache has the right status already, whatever was missed in
  between. With that, some event that has been handled is the last one and has the
  status set last (`LastHandledIsPosted`). `CommitStatus` follows.
* The triggerer. `Frontier` is the first event it may yet handle: the one it is due, or,
  while it is down, the first one still in flight. It never goes back, so an application
  of a run lies before it for good once handled (`AppliedBefore`). A run of which runs
  have been triggered, or are about to be, has such an application; if it is not updated
  again there is no other, which is why nothing is triggered twice (`TriggersOfRun`,
  theorem `AppliedRunsTrigger`).
* The notifier. The events of a config begin with its creation and end with its
  deletion, the last one carries its row and no update changes the destination
  (`EventAgrees`). A notifier that is up and has not been cut off is then right about
  each config up to the events on their way (`CurrentFor`): if the events still to
  come are none, the config is cached as in the table; if its creation has been handled
  already, it is cached at least, for the update of a config that is not cached is
  dropped with an error. That a creation on its way may find the config there, from the
  list, is why the first half also allows for it. Each method of the cache keeps the
  number of users of every client (`CacheOK`), which removing needs to know when a client
  is the last. `NotifierKeepsUp` is `NotifierIsCurrent` as a whole, types included.

That a config whose client could not be made stays away, even after its correction,
is part of the statement (`spoilt`), in the proof as in the run. `WatchersAssumption`: there
are the three daemons and no others, configs are finitely many, a run that is there
at the start has a status, and a config has a URL unless it is for email, as
`notifications/config.go:107` ensures.

### Execution

`ExecutionInv` has four parts besides the types. `Placed`: the number of the step that an
operation is at says what is in its directory (`Ready`: the configuration and the
variables once they are fetched, the lock file and the providers after init, the plan
after its step), and whether the engine may be running. `Kept`: what an operation has
left on the server by the time it reports. `InTurn`: an apply only starts after a plan
that has finished, and what a finished job has left. `Late`: a canceled operation passes
no further check. None is inductive alone: that an apply fetches the plan and the lock
file of the plan job needs `InTurn`, that they are stored needs `Kept`, and that they
were right when uploaded needs `Placed`. The lock file is why the versions of providers
are in the state: what the plan job has stored names the ones the apply must install,
whatever is released or offered in between. From it follow `EnginesArePrepared`,
`ResultsAreKept` and `OneLateStart`.

`OnlyOnRequest` takes a second invariant about polls and subscriptions. As long as nobody
has asked for a cancelation, no notification is under way, and a subscriber's channel is
closed only if all polls of its job are over (`Undisturbed`). The property is about the
operations of a server; for an agent, whose polls are HTTP requests that outlive its
interest in them, it is not stated.

`OnlyOnRequest` and `OneLateStart` are parts of the property `CancelationIsHeeded`; its
third part is liveness and stays with TLC.

`ExecutionAssumption` says that the value for "no version" is not a version.

### Organization

`OrganizationProofs` is about any number of requests at the same time, and any workspaces,
pools, variables, versions, teams, users and tokens. `TablesAgree` alone is not inductive:
a request that has passed its checks writes in a later statement, so the invariant has to
say what is still true of every request that is between two statements. `IInv` is the
conjunction of four parts, which share no variables but the workspaces and the sessions;
a step of a request belongs to one of them (`Only`) and leaves the others alone (the
lemmas `SettingsAside`, `VariablesAside`, `StatesAside`, `AccountsAside`). The deletion of
a workspace, whose cascade reaches all four, has a lemma for each.

* `SettingsInv`. An update of a pool that waits to write leaves the pool open to every
  workspace that uses it (`PoolUpdateAllowed`). No workspace is assigned to the pool while
  the update holds the lock; this is why the second half of `UpdateAgentPool` may trust
  what the first half has read, and `NothingIsTakenBack` follows. A pool that is gone
  grants nothing, and the tags of workspaces exist: with the tags that a deletion deletes
  (`doomed`) go all the rows that refer to them by then, whichever workspace they are of.
* `VariablesInv`. At most one request holds the variables (`LocksVariables`), and what its
  conflict check has seen is still so (`CreatesVariable`, `UpdatesVariable`, `UpdatesSet`).
  The scope of the check depends on which sets are global, so the proof needs that sets
  do not become global, nor go, while another request holds the lock. Variables whose set
  is gone are gone (`ParentsExist`). The proof of `NoConflicts` goes through `Distinct`,
  which says the same of pairs of rows.
* `StatesInv`. What is pending is not behind the current version (`PendingIsAhead`), unless
  the check of serials came too early for a version of the workspace (`unchecked`): an
  upload therefore never makes the current serial go back. Where it came too early, the
  serial may go back, but `OvertakenIsDiscarded` holds all the same (`PendingDiscarded`). A
  version is created or uploaded by one request (`OneWriter`), and is pending as long as
  that has not committed.
* `AccountsInv`. The foreign and unique keys of the tables (`AccountsTables`), and what a
  request was let through for: its subject owned the organization of the team it changes,
  as long as the team exists (`CallRequest`). A team never changes its organization, and
  ids are not used again, so what was true when the request was authorized is true of the
  same team when it commits. A removal from the owners names fewer than it has listed,
  hence by cardinality leaves one if the members are still those.

`Invariant` is the theorem; `TablesAlwaysAgree`, `NothingIsTakenBack`,
`StatesOnlyMoveForward` and `OwnersAlwaysGovern` follow from it and are the properties of
the run `organization`, all but `MergeFollowsPrecedence`. That no unused tag is left is not
among them: it is false (`TagsAreInUse`).

Assumptions, which TLC evaluates on the run: the null values are no ids or states
(`PoolAssumption`, `StateAssumption`, `AccountsAssumption`, `VariablesAssumption`), users
are finitely many (for `Cardinality`), the options of a request are of their types
(`OptionsAssumption`), and a behaviour starts with tables that a database with the code's
constraints may hold (`MayStart`, in `StartAssumption`). Everything that an
organization other than `Home` has is created within the behaviour.

### Only model-checked

* The liveness properties: fairness and ENABLED are out of the prover's reach.
* `MergeFollowsPrecedence`: the merge is a fold over a sequence that is sorted by name.
* `Registry` and `Web`. The second is data: it has nothing to quantify over that TLC does
  not enumerate.
* What the table of disagreements lists is false and has no theorem.

## 5. Plan

1. Done: the modules above and their runs; the safety properties of `RunJobs` with its
   refinement, of `Scheduler`, of `Allocator`, of `Execution`, of `Watchers`, of `Logs` with
   its event stream and of `Organization` proved.
2. Proofs next: `Repohooks`, whose transactions are requests like those of `Organization`:
   `HooksFollowConnections` for any number of repositories and sessions.
3. Row locks: the order in which `StartJob`, `FinishJob` (job, then run) and `CancelRun`
   (run, then job) lock rows, and what an aborted one leaves behind. Here a method is one
   step, and an aborted one changes nothing.
4. The supervisor with the advisory lock, which a node loses with its session while it
   goes on running a daemon (`sql/db.go:159`): two schedulers at a time.
5. Allocator and runners composed with the jobs of `RunJobs`: runs that are stranded when
   their queued job is deleted with its runner.

## 6. Not modelled

* The JSON API and the command line: decoding and formatting around the service methods
  that are modelled.
* Downloads of engines, arguments of terraform, manifests of pods; the engine itself is
  a process that writes a state and exits.
* The clients of the VCS hosts' APIs; what they return is a free choice where it matters.
* The layout of pages, the values they show and the fields of their forms.
* The cryptography of tokens, OAuth, OIDC, and dynamic credentials.
* The plumbing of the database. Assumed: a transaction is atomic, a row read for update
  is not changed by anybody else before the commit, a statement sees what was committed
  before it. Lists are read in one step; the code reads them page by page.
* The daemons that delete old runs and configurations: their choice is a comparison of
  clocks, their effect is `DeleteRun`. Renaming and deleting an organization.

`components` in `PROJECT.json` gives the reason for each part.

## Running

    tlc -workers 2 -config RunJobs.cfg MCRunJobs
    tlc -workers 2 -config Scheduler.cfg MCScheduler
    tlc -workers 2 -config Allocator.cfg MCAllocator
    tlc -workers 2 -config Execution.cfg MCExecution
    tlc -workers 2 -config Logs.cfg Logs
    tlc -workers 2 -config Watchers.cfg MCWatchers
    tlc -workers 2 -config Registry.cfg MCRegistry
    tlc -workers 2 -config Organization.cfg MCOrganization
    tlc -workers 2 -config Web.cfg MCWeb
    tlapm RunJobsProofs.tla
    tlapm SchedulerProofs.tla
    tlapm AllocatorProofs.tla
    tlapm LogsProofs.tla
    tlapm WatchersProofs.tla
    tlapm ExecutionProofs.tla
    tlapm OrganizationProofs.tla

The other configurations are named after their run, or after the property they refute,
and go with the same MC module. `tlapm EventStreamProofs.tla` checks the lemmas that
`LogsProofs` and `WatchersProofs` cite.
