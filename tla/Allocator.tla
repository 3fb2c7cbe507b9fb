----------------------------- MODULE Allocator -----------------------------
(***************************************************************************)
(* The allocator: the process that hands jobs to runners.  It caches the   *)
(* jobs and the runners, keeps a tally of the jobs that each runner holds, *)
(* keeps all three up to date from two event streams, and tries to place   *)
(* every cached job after each event.  On an error it stops, and is        *)
(* started again from a fresh list of runners and jobs.                    *)
(*                                                                         *)
(* Placing one job calls the database at most once, and the caches are     *)
(* private to the process, so it is one step.  Runners, their manager and  *)
(* users change the rows between the steps.  Ids are never reused.         *)
(***************************************************************************)
EXTENDS Subscription, FiniteSets

CONSTANTS Job,          \* ids of jobs
          Runner,       \* ids of runners
          Nobody,       \* the SQL NULL
          MaxJobs,      \* jobs that a runner may hold at a time
          KubeRunners,  \* runners with the kubernetes executor
          AgentRunners, \* runners that belong to the agent pool
          AgentJobs,    \* jobs of workspaces that use the agent pool
          Fallible,     \* bound: runners whose status may change
          Latecomers,   \* runners that register later; the others are there
          Deletable,    \* bound: the jobs that are deleted with their run
          LateEvents,   \* may an event arrive after a subscription that
                        \* was made after the event?
          MaxCrashes    \* bound: crashes of the allocator

ASSUME AllocatorAssumption ==
  /\ IsFiniteSet(Job)
  /\ Nobody \notin Job \cup Runner
  /\ MaxJobs \in Nat \ {0}
  /\ KubeRunners \cup AgentRunners \cup Fallible \cup Latecomers \subseteq Runner
  /\ AgentJobs \cup Deletable \subseteq Job
  /\ LateEvents \in BOOLEAN
  /\ MaxCrashes \in Nat

VARIABLES jobRows,        \* table jobs
          runnerRows,     \* table runners: the status of each
          pc,             \* where Start has got to
          cachedJobs,     \* allocator.jobs
          cachedRunners,  \* allocator.runners: the status of each
          currentJobs,    \* allocator.currentJobs
          todo,           \* the cached jobs still to be placed in this round
          jobEvents,      \* job events on their way to the allocator
          runnerEvents,   \* runner events on their way to the allocator
          closed,         \* the subscriptions the broker closed
          crashes

rowVars == <<jobRows, runnerRows>>
cacheVars == <<cachedJobs, cachedRunners, currentJobs>>
busVars == <<jobEvents, runnerEvents, closed>>
vars == <<rowVars, pc, cacheVars, todo, busVars, crashes>>

\* "done" stands for finished, errored and canceled.
Gone == {"absent", "deleted"}
JobStatus == {"unallocated", "allocated", "running", "done"} \cup Gone
\* "healthy" stands for idle and busy, "final" for errored and exited.
RunnerStatus == {"healthy", "unknown", "final"} \cup Gone

JobRow == [status : JobStatus, runner : Runner \cup {Nobody}]
NoJob(status) == [status |-> status, runner |-> Nobody]

\* The payload of an event: of a job's row only the status is made use of.
Kind == {"created", "updated", "deleted"}
JobEvent == [kind : Kind, job : Job, status : JobStatus]
RunnerEvent == [kind : Kind, runner : Runner, status : RunnerStatus]

-----------------------------------------------------------------------------
(* The event streams *)

WatchingJobs == pc \in {"subscribed", "listed", "ready"}
WatchingRunners == WatchingJobs \/ pc = "watching"

\* What is on its way while nobody watches.
InFlight(buffer) == IF LateEvents THEN buffer ELSE <<>>

Arrive(buffer, events, watching, isClosed) ==
  IF watching THEN Deliver(buffer, events, watching, isClosed)
              ELSE InFlight(Deliver(buffer, events, watching, isClosed))

\* Publish events behind those still to be handled.
Publish(jobBuffer, runnerBuffer, jobEvs, runnerEvs) ==
  /\ jobEvents' = Arrive(jobBuffer, jobEvs, WatchingJobs, "jobs" \in closed)
  /\ runnerEvents' = Arrive(runnerBuffer, runnerEvs, WatchingRunners,
                            "runners" \in closed)
  /\ closed' = closed
       \cup (IF Overflows(jobBuffer, jobEvs, WatchingJobs) THEN {"jobs"} ELSE {})
       \cup (IF Overflows(runnerBuffer, runnerEvs, WatchingRunners)
             THEN {"runners"} ELSE {})

Emit(jobEvs, runnerEvs) == Publish(jobEvents, runnerEvents, jobEvs, runnerEvs)

JobNote(kind, j) == <<[kind |-> kind, job |-> j, status |-> jobRows'[j].status]>>
RunnerNote(kind, n) ==
  <<[kind |-> kind, runner |-> n, status |-> runnerRows'[n]]>>

-----------------------------------------------------------------------------
(* The rows, and what the other processes do to them *)

SetJob(j, row) == jobRows' = [jobRows EXCEPT ![j] = row]
SetRunner(n, status) == runnerRows' = [runnerRows EXCEPT ![n] = status]

Others(jobEvs, runnerEvs) ==
  /\ Emit(jobEvs, runnerEvs)
  /\ UNCHANGED <<pc, cacheVars, todo, crashes>>

CreateJob(j) ==
  /\ jobRows[j].status = "absent"
  /\ SetJob(j, NoJob("unallocated"))
  /\ UNCHANGED runnerRows
  /\ Others(JobNote("created", j), <<>>)

\* Only the runner that holds the job starts it, but it need not be healthy.
StartJob(j) ==
  /\ jobRows[j].status = "allocated"
  /\ SetJob(j, [jobRows[j] EXCEPT !.status = "running"])
  /\ UNCHANGED runnerRows
  /\ Others(JobNote("updated", j), <<>>)

\* A job finishes once it runs, and is canceled at any time.
EndJob(j) ==
  /\ jobRows[j].status \in {"unallocated", "allocated", "running"}
  /\ SetJob(j, [jobRows[j] EXCEPT !.status = "done"])
  /\ UNCHANGED runnerRows
  /\ Others(JobNote("updated", j), <<>>)

\* A job is deleted along with its run.
DeleteJob(j) ==
  /\ j \in Deletable
  /\ jobRows[j].status \notin Gone
  /\ SetJob(j, NoJob("deleted"))
  /\ UNCHANGED runnerRows
  /\ Others(JobNote("deleted", j), <<>>)

Register(n) ==
  /\ runnerRows[n] = "absent"
  /\ SetRunner(n, "healthy")
  /\ UNCHANGED jobRows
  /\ Others(<<>>, RunnerNote("created", n))

\* errored and exited are final.
setStatus(n, to) == runnerRows[n] \in {"healthy", "unknown"} /\ SetRunner(n, to)

UpdateStatus(n, to) ==
  /\ to = "healthy" \/ n \in Fallible
  /\ setStatus(n, to)
  /\ UNCHANGED jobRows
  /\ Others(<<>>, RunnerNote("updated", n))

\* A runner says every ten seconds that it is idle or busy, and at the end
\* that it exits.
sendStatusUpdate(n) == UpdateStatus(n, "healthy")
sendFinalStatus(n) == UpdateStatus(n, "final")

\* The manager has not heard of the runner for some time, as of its list: the
\* runner may have pinged since.
ManagerUpdate(n) == UpdateStatus(n, "unknown") \/ UpdateStatus(n, "final")

\* The manager purges a runner; the jobs that it holds go with it.
DeleteRunner(n) ==
  LET held == SetToSeq({j \in Job : jobRows[j].runner = n}) IN
  /\ runnerRows[n] = "final"
  /\ SetRunner(n, "deleted")
  /\ jobRows' = [j \in Job |-> IF jobRows[j].runner = n THEN NoJob("deleted")
                                                       ELSE jobRows[j]]
  /\ Others([i \in DOMAIN held |-> [kind |-> "deleted", job |-> held[i],
                                    status |-> "deleted"]],
            RunnerNote("deleted", n))

-----------------------------------------------------------------------------
(* The allocator starts, and stops *)

\* The jobs that a runner holds, which its row counts as current_jobs.
Held(n) == {j \in Job : /\ jobRows[j].runner = n
                        /\ jobRows[j].status \in {"allocated", "running"}}

\* Start returns, and its subscriptions with it.  What a closed subscription
\* still held was in its buffer and is lost.
Stop(jobBuffer, runnerBuffer) ==
  /\ pc' = "down"
  /\ cachedJobs' = [j \in Job |-> NoJob("absent")]
  /\ cachedRunners' = [n \in Runner |-> "absent"]
  /\ currentJobs' = [n \in Runner |-> 0]
  /\ todo' = {}
  /\ closed' = {}
  /\ jobEvents' = IF "jobs" \in closed THEN <<>> ELSE InFlight(jobBuffer)
  /\ runnerEvents' = IF "runners" \in closed THEN <<>> ELSE InFlight(runnerBuffer)
  /\ UNCHANGED rowVars

WatchRunners ==
  /\ pc = "down"
  /\ pc' = "watching"
  /\ UNCHANGED <<rowVars, cacheVars, todo, busVars, crashes>>

WatchJobs ==
  /\ pc = "watching"
  /\ pc' = "subscribed"
  /\ UNCHANGED <<rowVars, cacheVars, todo, busVars, crashes>>

ListRunners ==
  /\ pc = "subscribed"
  /\ pc' = "listed"
  /\ cachedRunners' = [n \in Runner |-> IF runnerRows[n] \in Gone
                                        THEN "absent" ELSE runnerRows[n]]
  /\ currentJobs' = [n \in Runner |-> Cardinality(Held(n))]
  /\ UNCHANGED <<rowVars, cachedJobs, todo, busVars, crashes>>

\* Jobs in a terminal state are skipped.
listJobs ==
  LET live == {j \in Job : jobRows[j].status \notin Gone \cup {"done"}} IN
  /\ pc = "listed"
  /\ pc' = "ready"
  /\ cachedJobs' = [j \in Job |-> IF j \in live THEN jobRows[j]
                                                ELSE NoJob("absent")]
  /\ todo' = live
  /\ UNCHANGED <<rowVars, cachedRunners, currentJobs, busVars, crashes>>

-----------------------------------------------------------------------------
(* Placing a job *)

Suits(j, n) == j \in AgentJobs <=> n \in AgentRunners

HasNoRoom(n) == n \notin KubeRunners /\ currentJobs[n] = MaxJobs

\* The available runners.  The one whose ping is the latest of those the
\* allocator has read is taken, which may be any of them.
Available(j) ==
  {n \in Runner : cachedRunners[n] = "healthy" /\ Suits(j, n) /\ ~HasNoRoom(n)}

Skip(j) ==
  /\ todo' = todo \ {j}
  /\ UNCHANGED <<rowVars, pc, cacheVars, busVars>>

\* Mutant: the job a runner is relieved of stays in its tally.
TallyMovedUp(from, to) == [currentJobs EXCEPT ![to] = @ + 1]

\* The tally after a job moved between two runners, either of which may be
\* Nobody.
TallyMoved(from, to) ==
  [n \in Runner |-> currentJobs[n] + (IF n = to THEN 1 ELSE 0)
                                   - (IF n = from THEN 1 ELSE 0)]

\* A job that has ended leaves the cache, and its runner's tally.
Retire(j) ==
  /\ cachedJobs' = [cachedJobs EXCEPT ![j] = NoJob("absent")]
  /\ currentJobs' = TallyMoved(cachedJobs[j].runner, Nobody)
  /\ todo' = todo \ {j}
  /\ UNCHANGED <<rowVars, pc, cachedRunners, busVars>>

\* allocateJob or reallocateJob: the row must still have the status that the
\* cached job has, and the runner must still have a row.
Place(j, n) ==
  LET row == [status |-> "allocated", runner |-> n] IN
  \/ /\ jobRows[j].status = cachedJobs[j].status
     /\ runnerRows[n] \notin Gone
     /\ SetJob(j, row)
     /\ cachedJobs' = [cachedJobs EXCEPT ![j] = row]
     /\ currentJobs' = TallyMoved(cachedJobs[j].runner, n)
     /\ todo' = todo \ {j}
     /\ Emit(JobNote("updated", j), <<>>)
     /\ UNCHANGED <<runnerRows, pc, cachedRunners>>
  \/ /\ jobRows[j].status # cachedJobs[j].status \/ runnerRows[n] \in Gone
     /\ Stop(jobEvents, runnerEvents)

PlaceIfAvailable(j) ==
  \/ Available(j) = {} /\ Skip(j)
  \/ \E n \in Available(j) : Place(j, n)

allocate(j) ==
  LET job == cachedJobs[j] IN
  /\ pc = "ready" /\ j \in todo
  /\ CASE job.status = "unallocated" -> PlaceIfAvailable(j)
       [] job.status = "allocated" ->
            CASE cachedRunners[job.runner] = "absent" ->
                   Stop(jobEvents, runnerEvents)
              [] cachedRunners[job.runner] = "healthy" -> Skip(j)
              [] OTHER -> PlaceIfAvailable(j)
       [] job.status = "running" -> Skip(j)
       [] job.status = "done" -> Retire(j)
  /\ UNCHANGED crashes

-----------------------------------------------------------------------------
(* Handling an event.  Every event is followed by a round over the jobs.   *)

Round(jobs) == todo' = {j \in Job : jobs[j].status # "absent"}

\* Mutant: a job that is created while the allocator runs is not cached.
HandleJobCreatedDropped(j, rest) ==
  /\ Round(cachedJobs)
  /\ jobEvents' = rest
  /\ UNCHANGED <<rowVars, pc, cacheVars, runnerEvents, closed>>

HandleJobCreated(j, rest) ==
  \/ /\ jobRows[j].status \notin Gone
     /\ cachedJobs' = [cachedJobs EXCEPT ![j] = jobRows[j]]
     /\ Round(cachedJobs')
     /\ jobEvents' = rest
     /\ UNCHANGED <<rowVars, pc, cachedRunners, currentJobs, runnerEvents, closed>>
  \/ /\ jobRows[j].status \in Gone
     /\ Stop(rest, runnerEvents)

\* The runner of the job is not updated, as only the allocator changes it.
HandleJobUpdated(j, status, rest) ==
  \/ /\ cachedJobs[j].status # "absent"
     /\ cachedJobs' = [cachedJobs EXCEPT ![j].status = status]
     /\ Round(cachedJobs')
     /\ jobEvents' = rest
     /\ UNCHANGED <<rowVars, pc, cachedRunners, currentJobs, runnerEvents, closed>>
  \/ /\ cachedJobs[j].status = "absent"
     /\ Stop(rest, runnerEvents)

HandleJobDeleted(j, rest) ==
  /\ cachedJobs' = [cachedJobs EXCEPT ![j] = NoJob("absent")]
  /\ currentJobs' = TallyMoved(cachedJobs[j].runner, Nobody)
  /\ Round(cachedJobs')
  /\ jobEvents' = rest
  /\ UNCHANGED <<rowVars, pc, cachedRunners, runnerEvents, closed>>

HandleJobEvent ==
  /\ pc = "ready" /\ todo = {} /\ jobEvents # <<>>
  /\ LET e == Head(jobEvents)
         rest == Tail(jobEvents)
     IN \/ e.kind = "created" /\ HandleJobCreated(e.job, rest)
        \/ e.kind = "updated" /\ HandleJobUpdated(e.job, e.status, rest)
        \/ e.kind = "deleted" /\ HandleJobDeleted(e.job, rest)
  /\ UNCHANGED crashes

\* The tally of the runner is read afresh from the database.
HandleRunnerCreated(n, rest) ==
  \/ /\ runnerRows[n] \notin Gone
     /\ cachedRunners' = [cachedRunners EXCEPT ![n] = runnerRows[n]]
     /\ currentJobs' = [currentJobs EXCEPT ![n] = Cardinality(Held(n))]
     /\ Round(cachedJobs)
     /\ runnerEvents' = rest
     /\ UNCHANGED <<rowVars, pc, cachedJobs, jobEvents, closed>>
  \/ /\ runnerRows[n] \in Gone
     /\ Stop(jobEvents, rest)

\* Mutant: the status of a runner is not updated.
HandleRunnerUpdatedInVain(n, status, rest) ==
  \/ /\ cachedRunners[n] # "absent"
     /\ Round(cachedJobs)
     /\ runnerEvents' = rest
     /\ UNCHANGED <<rowVars, pc, cacheVars, jobEvents, closed>>
  \/ /\ cachedRunners[n] = "absent"
     /\ Stop(jobEvents, rest)

HandleRunnerUpdated(n, status, rest) ==
  \/ /\ cachedRunners[n] # "absent"
     /\ cachedRunners' = [cachedRunners EXCEPT ![n] = status]
     /\ Round(cachedJobs)
     /\ runnerEvents' = rest
     /\ UNCHANGED <<rowVars, pc, cachedJobs, currentJobs, jobEvents, closed>>
  \/ /\ cachedRunners[n] = "absent"
     /\ Stop(jobEvents, rest)

HandleRunnerDeleted(n, rest) ==
  /\ cachedRunners' = [cachedRunners EXCEPT ![n] = "absent"]
  /\ currentJobs' = [currentJobs EXCEPT ![n] = 0]
  /\ Round(cachedJobs)
  /\ runnerEvents' = rest
  /\ UNCHANGED <<rowVars, pc, cachedJobs, jobEvents, closed>>

HandleRunnerEvent ==
  /\ pc = "ready" /\ todo = {} /\ runnerEvents # <<>>
  /\ LET e == Head(runnerEvents)
         rest == Tail(runnerEvents)
     IN \/ e.kind = "created" /\ HandleRunnerCreated(e.runner, rest)
        \/ e.kind = "updated" /\ HandleRunnerUpdated(e.runner, e.status, rest)
        \/ e.kind = "deleted" /\ HandleRunnerDeleted(e.runner, rest)
  /\ UNCHANGED crashes

\* A closed subscription is noticed once its buffer is drained.
SubscriptionTerminated ==
  /\ pc = "ready" /\ todo = {}
  /\ \/ "jobs" \in closed /\ jobEvents = <<>>
     \/ "runners" \in closed /\ runnerEvents = <<>>
  /\ Stop(jobEvents, runnerEvents)
  /\ UNCHANGED crashes

\* The process dies, or a call to the database fails.
Crash ==
  /\ pc # "down"
  /\ crashes < MaxCrashes
  /\ crashes' = crashes + 1
  /\ Stop(jobEvents, runnerEvents)

\* Without a subscription an event that is on its way reaches nobody.
MissJobEvent ==
  /\ ~WatchingJobs /\ jobEvents # <<>>
  /\ jobEvents' = Tail(jobEvents)
  /\ UNCHANGED <<rowVars, pc, cacheVars, todo, runnerEvents, closed, crashes>>

MissRunnerEvent ==
  /\ ~WatchingRunners /\ runnerEvents # <<>>
  /\ runnerEvents' = Tail(runnerEvents)
  /\ UNCHANGED <<rowVars, pc, cacheVars, todo, jobEvents, closed, crashes>>

-----------------------------------------------------------------------------
Init ==
  /\ jobRows = [j \in Job |-> NoJob("absent")]
  /\ runnerRows = [n \in Runner |-> IF n \in Latecomers THEN "absent"
                                                        ELSE "healthy"]
  /\ pc = "down"
  /\ cachedJobs = [j \in Job |-> NoJob("absent")]
  /\ cachedRunners = [n \in Runner |-> "absent"]
  /\ currentJobs = [n \in Runner |-> 0]
  /\ todo = {}
  /\ jobEvents = <<>> /\ runnerEvents = <<>>
  /\ closed = {}
  /\ crashes = 0

\* A runner pings every ten seconds, and when it does not the manager says so.
Heartbeat(n) == sendStatusUpdate(n) \/ sendFinalStatus(n) \/ ManagerUpdate(n)

OthersNext ==
  \/ \E j \in Job : CreateJob(j) \/ StartJob(j) \/ EndJob(j) \/ DeleteJob(j)
  \/ \E n \in Runner : Register(n) \/ DeleteRunner(n) \/ Heartbeat(n)

Allocate == \E j \in todo : allocate(j)

AllocatorStep ==
  \/ WatchRunners \/ WatchJobs \/ ListRunners \/ listJobs \/ Allocate
  \/ HandleJobEvent \/ HandleRunnerEvent \/ SubscriptionTerminated

Next == AllocatorStep \/ OthersNext \/ Crash \/ MissJobEvent \/ MissRunnerEvent

Spec == Init /\ [][Next]_vars

\* The allocator is restarted whenever it stops.  select chooses at random
\* between two streams that have an event, so that each gets its turn.
FairSpec ==
  /\ Spec
  /\ \A n \in Runner : WF_vars(Heartbeat(n))
  /\ WF_vars(WatchRunners) /\ WF_vars(WatchJobs) /\ WF_vars(ListRunners)
  /\ WF_vars(listJobs) /\ WF_vars(Allocate)
  /\ SF_vars(HandleJobEvent) /\ SF_vars(HandleRunnerEvent)
  /\ SF_vars(SubscriptionTerminated)

-----------------------------------------------------------------------------
(* Properties *)

\* The rows, the caches and the events have the shape of the Go types, and no
\* buffer exceeds its size.
TypeOK ==
  /\ jobRows \in [Job -> JobRow]
  /\ runnerRows \in [Runner -> RunnerStatus]
  /\ pc \in {"down", "watching", "subscribed", "listed", "ready"}
  /\ cachedJobs \in [Job -> JobRow]
  /\ cachedRunners \in [Runner -> RunnerStatus]
  /\ currentJobs \in [Runner -> Int]
  /\ todo \subseteq Job
  /\ jobEvents \in Seq(JobEvent) /\ Len(jobEvents) <= BufferSize
  /\ runnerEvents \in Seq(RunnerEvent) /\ Len(runnerEvents) <= BufferSize
  /\ closed \subseteq {"jobs", "runners"}
  /\ crashes \in 0..MaxCrashes

\* No job is forgotten: once the jobs are listed, a job that waits for a runner
\* is cached, or an event of it is on its way.  Listing leaves no gap.
NoJobForgotten ==
  pc = "ready" /\ "jobs" \notin closed =>
    \A j \in Job :
      \/ jobRows[j].status \notin {"unallocated", "allocated"}
      \/ cachedJobs[j].status # "absent"
      \/ \E i \in DOMAIN jobEvents : jobEvents[i].job = j

\* Nothing is on its way to the allocator, and it has no job to look at.
Quiet == /\ pc = "ready" /\ todo = {} /\ closed = {}
         /\ jobEvents = <<>> /\ runnerEvents = <<>>

Uncached(status) == IF status \in Gone \cup {"done"} THEN "absent" ELSE status

\* Once all events are handled the caches agree with the tables, although they
\* are filled from two lists and from events older and newer than those.
CacheAgreesWhenQuiet ==
  Quiet =>
    /\ \A j \in Job :
         /\ cachedJobs[j].status = Uncached(jobRows[j].status)
         /\ cachedJobs[j].status # "absent" => cachedJobs[j] = jobRows[j]
    /\ \A n \in Runner :
         cachedRunners[n] = IF runnerRows[n] \in Gone THEN "absent"
                                                      ELSE runnerRows[n]

\* A runner with the fork executor never holds more jobs than it can execute.
\* TLC refutes it: the tally is read afresh when a runner registers, ahead of
\* the events of its jobs, and an event that outlives a restart is counted
\* against a tally that never had its job.
WithinCapacity ==
  \A n \in Runner \ KubeRunners : Cardinality(Held(n)) <= MaxJobs

\* Once all events are handled the tally is the number of jobs that the runner
\* holds.  TLC refutes it: a job that is deleted between the list of runners
\* and the list of jobs stays in the tally.
TallyAgreesWhenQuiet ==
  Quiet => \A n \in Runner : runnerRows[n] \notin Gone
                             => currentJobs[n] = Cardinality(Held(n))

\* The job waits for a runner, or for another one than it is allocated to, and
\* there is one that it suits and that has room.
Starving(j) ==
  /\ \/ jobRows[j].status = "unallocated"
     \/ /\ jobRows[j].status = "allocated"
        /\ runnerRows[jobRows[j].runner] # "healthy"
  /\ \E n \in Runner : /\ runnerRows[n] = "healthy" /\ Suits(j, n)
                       /\ \/ n \in KubeRunners
                          \/ Cardinality(Held(n)) < MaxJobs

\* No job waits for ever while there is a runner for it, and no job is left
\* for ever with a runner that has gone while there is another.
JobsAreAllocated == \A j \in Job : []<>~Starving(j)

\* No job falls between the lists and the events, however the allocator stops
\* and starts again; and the types of its caches.
JobsAreKnown == TypeOK /\ NoJobForgotten
=============================================================================
