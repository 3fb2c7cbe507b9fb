----------------------------- MODULE Scheduler -----------------------------
(***************************************************************************)
(* The scheduler: the process that decides when a run may plan.  It keeps  *)
(* one queue per workspace, learns of runs and workspaces from two event   *)
(* streams of the database, and acts by enqueuing plans and unlocking      *)
(* workspaces.  On an error it stops, and is started again from nothing.   *)
(*                                                                         *)
(* The handling of one event calls the database at most once, and the      *)
(* queues are private to the process, so it is one step.  What other       *)
(* processes do to the rows interleaves between the steps.                 *)
(***************************************************************************)
EXTENDS RunLifecycle, Subscription

CONSTANTS MaxCrashes,      \* bound: crashes of the scheduler
          CostEstimation,  \* does the organization estimate costs?
          Deletable,       \* bound: the runs deleted one by one
          Signalable       \* bound: the runs a user signals to cancel

ASSUME SchedulerAssumption ==
  /\ Nobody \notin Run \cup Workspace \cup User
  /\ Run \cap User = {}
  /\ MaxCrashes \in Nat
  /\ CostEstimation \in BOOLEAN
  /\ Deletable \subseteq Run
  /\ Signalable \subseteq Run

VARIABLES created,    \* the runs in the order of created_at
          reminders,  \* runs whose cool-off period after a signal is running
          pc,         \* where Start has got to
          todo,       \* runs listed at the start that are still to be scheduled
          queues,     \* workspace -> queue
          runEvents,  \* run events on their way to the scheduler
          wsEvents,   \* workspace events on their way to the scheduler
          closed,     \* the subscriptions the broker closed: they were full
          crashes

busVars == <<runEvents, wsEvents, closed>>
schedVars == <<pc, todo, queues>>
vars == <<dbVars, created, reminders, schedVars, busVars, crashes>>

\* What the scheduler reads of a listed run, or of an event: a copy of the
\* row, which for a deleted row is the old one.
RunNote == [run : Run, row : Row, deleted : BOOLEAN]
WsNote == [workspace : Workspace, deleted : BOOLEAN]

Note(r, row) == [run |-> r, row |-> row, deleted |-> FALSE]
DeletedNote(r) == [run |-> r, row |-> rows[r], deleted |-> TRUE]

-----------------------------------------------------------------------------
(* The event streams *)

WatchingRuns == pc \in {"listing", "seeding", "ready"}
WatchingWorkspaces == WatchingRuns \/ pc = "watching"

\* Publish events behind those still to be handled.
Publish(runBuffer, wsBuffer, runEvs, wsEvs) ==
  /\ runEvents' = Deliver(runBuffer, runEvs, WatchingRuns, "runs" \in closed)
  /\ wsEvents' = Deliver(wsBuffer, wsEvs, WatchingWorkspaces,
                         "workspaces" \in closed)
  /\ closed' = closed
       \cup (IF Overflows(runBuffer, runEvs, WatchingRuns) THEN {"runs"} ELSE {})
       \cup (IF Overflows(wsBuffer, wsEvs, WatchingWorkspaces)
             THEN {"workspaces"} ELSE {})

Emit(runEvs, wsEvs) == Publish(runEvents, wsEvents, runEvs, wsEvs)

\* The events of a step that changed, or merely touched, the row of r or w.
\* The scheduler drops the event of a locked workspace, and so do we.
RunChanged(r) == <<Note(r, rows'[r])>>
WsChanged(w) ==
  IF lock'[w] = Nobody THEN <<[workspace |-> w, deleted |-> FALSE]>> ELSE <<>>

-----------------------------------------------------------------------------
(* The other processes: users, runners, the timeout daemon *)

CreateRun(r) ==
  /\ \E w \in Workspace, planOnly \in BOOLEAN : InsertRun(r, w, planOnly)
  /\ created' = Append(created, r)
  /\ Emit(RunChanged(r), <<>>)
  /\ UNCHANGED <<reminders, schedVars, crashes>>

\* A phase starts or finishes, the run is applied, discarded or canceled.
UpdateRun(r, to) ==
  /\ to = "cost_estimated" => CostEstimation /\ ~rows[r].planOnly
  /\ UpdateStatus(r, to)
  /\ Emit(RunChanged(r), <<>>)
  /\ UNCHANGED <<created, reminders, schedVars, crashes>>

\* A user asks to cancel a run in progress: its row records the signal, and a
\* reminder is sent when the cool-off period is over.
SignalRun(r) ==
  /\ r \in Signalable
  /\ rows[r].status = "active"
  /\ reminders' = reminders \cup {r}
  /\ UNCHANGED dbVars
  /\ Emit(RunChanged(r), <<>>)
  /\ UNCHANGED <<created, schedVars, crashes>>

\* The no-op update of the reminder, whatever has become of the run.
TriggerEvent(r) ==
  /\ r \in reminders
  /\ reminders' = reminders \ {r}
  /\ UNCHANGED dbVars
  /\ Emit(IF Exists(r) THEN RunChanged(r) ELSE <<>>, <<>>)
  /\ UNCHANGED <<created, schedVars, crashes>>

\* Deleting a run also updates the workspace it holds the lock of.
RemoveRun(r) ==
  /\ r \in Deletable
  /\ DeleteRun(r)
  /\ Emit(<<DeletedNote(r)>>,
          IF lock' = lock THEN <<>> ELSE WsChanged(rows[r].workspace))
  /\ UNCHANGED <<created, reminders, schedVars, crashes>>

\* Its runs are deleted with it, in any order.
RemoveWorkspace(w) ==
  /\ DeleteWorkspace(w)
  /\ \E n \in 0..Len(created) : \E gone \in [1..n -> RunsOf(w)] :
       /\ IsInjective(gone) /\ Range(gone) = RunsOf(w)
       /\ Emit([i \in 1..n |-> DeletedNote(gone[i])],
               <<[workspace |-> w, deleted |-> TRUE]>>)
  /\ UNCHANGED <<created, reminders, schedVars, crashes>>

UserLocks(w, u) ==
  /\ LockByUser(w, u)
  /\ Emit(<<>>, WsChanged(w))
  /\ UNCHANGED <<created, reminders, schedVars, crashes>>

UserUnlocks(w, u, force) ==
  /\ Unlock(w, u, force)
  /\ Emit(<<>>, WsChanged(w))
  /\ UNCHANGED <<created, reminders, schedVars, crashes>>

\* Any other change of a workspace publishes its lock as it is.
UpdateWorkspace(w) ==
  /\ w \in workspaces
  /\ UNCHANGED dbVars
  /\ Emit(<<>>, WsChanged(w))
  /\ UNCHANGED <<created, reminders, schedVars, crashes>>

-----------------------------------------------------------------------------
(* The queue of a workspace *)

EmptyQueue == [current |-> Nobody, backlog |-> <<>>]

Decision(queue, enqueue, unlock) ==
  [queue |-> queue, enqueue |-> enqueue, unlock |-> unlock]

\* Mutant: the next run does not wait for the current one.
PromoteAtOnce(q, unlock) ==
  IF q.backlog # <<>>
  THEN Decision([current |-> Head(q.backlog), backlog |-> Tail(q.backlog)],
                TRUE, FALSE)
  ELSE Decision(q, FALSE, unlock)

\* The end of process: without a current run the head of the backlog becomes
\* it.  A workspace handed over to the next run is not unlocked.
Promote(q, unlock) ==
  IF q.current = Nobody /\ q.backlog # <<>>
  THEN Decision([current |-> Head(q.backlog), backlog |-> Tail(q.backlog)],
                TRUE, FALSE)
  ELSE Decision(q, FALSE, unlock)

\* Mutant: a run that arrives while another is current is not remembered.
processWhenIdle(q, r, status) ==
  CASE r = Nobody -> Promote(q, FALSE)
    [] r # Nobody /\ q.current = r ->
         IF status \in Done THEN Promote([q EXCEPT !.current = Nobody], TRUE)
                           ELSE Promote(q, FALSE)
    [] r # Nobody /\ q.current = Nobody /\ status \in Scheduled ->
         Decision([q EXCEPT !.current = r], FALSE, FALSE)
    [] r # Nobody /\ q.current = Nobody /\ status \notin Scheduled ->
         Promote([q EXCEPT !.backlog = <<r>>], FALSE)
    [] OTHER -> Decision(q, FALSE, FALSE)

\* Mutant: the workspace is unlocked whenever its current run is updated.
processUnlocking(q, r, status) ==
  CASE r # Nobody /\ q.current = r ->
         IF status \in Done THEN Promote([q EXCEPT !.current = Nobody], TRUE)
                           ELSE Promote(q, TRUE)
    [] r # Nobody /\ q.current = Nobody /\ status \in Scheduled ->
         Decision([q EXCEPT !.current = r], FALSE, FALSE)
    [] r # Nobody /\ q.current # r /\ ~Contains(q.backlog, r)
         /\ ~(q.current = Nobody /\ status \in Scheduled) ->
         Promote([q EXCEPT !.backlog = Append(@, r)], FALSE)
    [] OTHER -> Promote(q, FALSE)

\* The place of r in a backlog, which holds a run at most once.
IndexOf(backlog, r) == CHOOSE i \in DOMAIN backlog : backlog[i] = r

\* r is Nobody when a workspace event is processed.  A run that is neither the
\* current run nor in the backlog joins the backlog, even when it is done.
process(q, r, status) ==
  CASE r = Nobody -> Promote(q, FALSE)
    [] r # Nobody /\ q.current = r ->
         IF status \in Done THEN Promote([q EXCEPT !.current = Nobody], TRUE)
                           ELSE Promote(q, FALSE)
    [] r # Nobody /\ q.current = Nobody /\ status \in Scheduled ->
         Decision([q EXCEPT !.current = r], FALSE, FALSE)
    [] r # Nobody /\ q.current # r
         /\ ~(q.current = Nobody /\ status \in Scheduled) ->
         IF ~Contains(q.backlog, r)
         THEN Promote([q EXCEPT !.backlog = Append(@, r)], FALSE)
         ELSE IF status \in Done
              THEN Decision([q EXCEPT !.backlog = RemoveAt(@, IndexOf(@, r))], FALSE, FALSE)
              ELSE Promote(q, FALSE)

-----------------------------------------------------------------------------
(* The scheduler *)

\* Start returns, and its subscriptions with it.  What a closed subscription
\* still held was in its buffer and is lost.
Stop(runBuffer, wsBuffer) ==
  /\ pc' = "down"
  /\ todo' = <<>>
  /\ queues' = [w \in Workspace |-> EmptyQueue]
  /\ closed' = {}
  /\ runEvents' = IF "runs" \in closed THEN <<>> ELSE runBuffer
  /\ wsEvents' = IF "workspaces" \in closed THEN <<>> ELSE wsBuffer
  /\ UNCHANGED dbVars

\* schedule returns nil, with the queue of w stored.
Proceed(w, queue, rest) ==
  /\ queues' = [queues EXCEPT ![w] = queue]
  /\ todo' = rest
  /\ pc' = IF rest = <<>> THEN "ready" ELSE pc

\* schedule for workspace w and, unless r is Nobody, the run r with the row
\* that was read.  `rest` are the listed runs still to be scheduled.
schedule(w, r, row, rest, runBuffer, wsBuffer) ==
  LET d == process(queues[w], r, row.status)
      c == d.queue.current
  IN CASE r # Nobody /\ row.planOnly ->
            \/ /\ row.status = "pending" /\ EnqueuePlan(r)
               /\ Proceed(w, queues[w], rest)
               /\ Publish(runBuffer, wsBuffer, RunChanged(r), <<>>)
            \/ /\ row.status = "pending" /\ rows[r].status # "pending"
               /\ Stop(runBuffer, wsBuffer)
            \/ /\ row.status # "pending"
               /\ Proceed(w, queues[w], rest)
               /\ Publish(runBuffer, wsBuffer, <<>>, <<>>)
               /\ UNCHANGED dbVars
       [] ~(r # Nobody /\ row.planOnly) /\ d.enqueue ->
            \/ /\ EnqueuePlan(c)
               /\ Proceed(w, d.queue, rest)
               /\ Publish(runBuffer, wsBuffer, RunChanged(c), WsChanged(w))
            \/ /\ rows[c].status = "pending" /\ LockedByUser(w)
               /\ Proceed(w, [current |-> Nobody,
                              backlog |-> <<c>> \o d.queue.backlog], rest)
               /\ Publish(runBuffer, wsBuffer, <<>>, <<>>)
               /\ UNCHANGED dbVars
            \/ rows[c].status # "pending" /\ Stop(runBuffer, wsBuffer)
       [] ~(r # Nobody /\ row.planOnly) /\ d.unlock ->
            \/ /\ Unlock(w, r, FALSE)
               /\ Proceed(w, d.queue, rest)
               /\ Publish(runBuffer, wsBuffer, <<>>, WsChanged(w))
            \/ /\ w \notin workspaces
               /\ Proceed(w, queues[w], rest)
               /\ Publish(runBuffer, wsBuffer, <<>>, <<>>)
               /\ UNCHANGED dbVars
            \/ /\ w \in workspaces /\ lock[w] # r
               /\ Stop(runBuffer, wsBuffer)
       [] OTHER -> /\ Proceed(w, d.queue, rest)
                   /\ Publish(runBuffer, wsBuffer, <<>>, <<>>)
                   /\ UNCHANGED dbVars

WatchWorkspaces ==
  /\ pc = "down"
  /\ pc' = "watching"
  /\ UNCHANGED <<dbVars, created, reminders, todo, queues, busVars, crashes>>

WatchRuns ==
  /\ pc = "watching"
  /\ pc' = "listing"
  /\ UNCHANGED <<dbVars, created, reminders, todo, queues, busVars, crashes>>

\* The statuses listed at the start: cost_estimated is not among them.
IncompleteRun == {"pending", "active"}

\* Was r created before s?
Before(r, s) ==
  \E i, j \in DOMAIN created : i < j /\ created[i] = r /\ created[j] = s

\* Mutant: the list is not reversed.
OldestFirstNot(listed) ==
  \A i, j \in DOMAIN listed : i < j => Before(listed[j], listed[i])

\* The list comes newest first, and is reversed.
OldestFirst(listed) ==
  \A i, j \in DOMAIN listed : i < j => Before(listed[i], listed[j])

ListRuns ==
  LET incomplete == {r \in Run : rows[r].status \in IncompleteRun}
  IN /\ pc = "listing"
     /\ \E n \in 0..Len(created) : \E listed \in [1..n -> incomplete] :
          /\ Range(listed) = incomplete /\ OldestFirst(listed)
          /\ todo' = [i \in 1..n |-> Note(listed[i], rows[listed[i]])]
          /\ pc' = IF n = 0 THEN "ready" ELSE "seeding"
     /\ UNCHANGED <<dbVars, created, reminders, queues, busVars, crashes>>

\* Schedule the next of the listed runs, oldest first.
Seed ==
  /\ pc = "seeding"
  /\ LET n == Head(todo) IN
     schedule(n.row.workspace, n.run, n.row, Tail(todo), runEvents, wsEvents)
  /\ UNCHANGED <<created, reminders, crashes>>

HandleRunEvent ==
  /\ pc = "ready"
  /\ runEvents # <<>>
  /\ LET n == Head(runEvents) IN
     IF n.deleted
     THEN /\ runEvents' = Tail(runEvents)
          /\ UNCHANGED <<dbVars, schedVars, wsEvents, closed>>
     ELSE schedule(n.row.workspace, n.run, n.row, <<>>, Tail(runEvents), wsEvents)
  /\ UNCHANGED <<created, reminders, crashes>>

\* Mutant: an unlocked workspace is not scheduled again.
HandleWorkspaceEventDropped ==
  /\ pc = "ready"
  /\ wsEvents # <<>>
  /\ wsEvents' = Tail(wsEvents)
  /\ queues' = IF Head(wsEvents).deleted
               THEN [queues EXCEPT ![Head(wsEvents).workspace] = EmptyQueue]
               ELSE queues
  /\ UNCHANGED <<dbVars, pc, todo, runEvents, closed, created, reminders, crashes>>

HandleWorkspaceEvent ==
  /\ pc = "ready"
  /\ wsEvents # <<>>
  /\ LET n == Head(wsEvents) IN
     IF n.deleted
     THEN /\ wsEvents' = Tail(wsEvents)
          /\ queues' = [queues EXCEPT ![n.workspace] = EmptyQueue]
          /\ UNCHANGED <<dbVars, pc, todo, runEvents, closed>>
     ELSE schedule(n.workspace, Nobody, NoRow("absent"), <<>>, runEvents,
                   Tail(wsEvents))
  /\ UNCHANGED <<created, reminders, crashes>>

\* A closed subscription is noticed once its buffer is drained.
SubscriptionTerminated ==
  /\ pc = "ready"
  /\ \/ "runs" \in closed /\ runEvents = <<>>
     \/ "workspaces" \in closed /\ wsEvents = <<>>
  /\ Stop(runEvents, wsEvents)
  /\ UNCHANGED <<created, reminders, crashes>>

\* The process dies, or a call to the database fails.
Crash ==
  /\ pc # "down"
  /\ crashes < MaxCrashes
  /\ crashes' = crashes + 1
  /\ Stop(runEvents, wsEvents)
  /\ UNCHANGED <<created, reminders>>

\* Without a subscription an event that is on its way reaches nobody.
MissRunEvent ==
  /\ ~WatchingRuns /\ runEvents # <<>>
  /\ runEvents' = Tail(runEvents)
  /\ UNCHANGED <<dbVars, created, reminders, schedVars, wsEvents, closed, crashes>>

MissWorkspaceEvent ==
  /\ ~WatchingWorkspaces /\ wsEvents # <<>>
  /\ wsEvents' = Tail(wsEvents)
  /\ UNCHANGED <<dbVars, created, reminders, schedVars, runEvents, closed, crashes>>

-----------------------------------------------------------------------------
Init ==
  /\ DbInit
  /\ created = <<>>
  /\ reminders = {}
  /\ pc = "down"
  /\ todo = <<>>
  /\ queues = [w \in Workspace |-> EmptyQueue]
  /\ runEvents = <<>> /\ wsEvents = <<>>
  /\ closed = {}
  /\ crashes = 0

Others ==
  \/ \E r \in Run : CreateRun(r) \/ SignalRun(r) \/ TriggerEvent(r) \/ RemoveRun(r)
  \/ \E r \in Run, to \in Status : UpdateRun(r, to)
  \/ \E w \in Workspace : RemoveWorkspace(w) \/ UpdateWorkspace(w)
  \/ \E w \in Workspace, u \in User : UserLocks(w, u)
  \/ \E w \in Workspace, u \in User, force \in BOOLEAN : UserUnlocks(w, u, force)

SchedulerStep ==
  \/ WatchWorkspaces \/ WatchRuns \/ ListRuns \/ Seed
  \/ HandleRunEvent \/ HandleWorkspaceEvent \/ SubscriptionTerminated

Next == SchedulerStep \/ Others \/ Crash \/ MissRunEvent \/ MissWorkspaceEvent

Spec == Init /\ [][Next]_vars

\* The scheduler is restarted whenever it stops, and select takes an event
\* from a stream that has one.  Nobody else is obliged to do anything.
FairSpec ==
  /\ Spec
  /\ WF_vars(WatchWorkspaces) /\ WF_vars(WatchRuns) /\ WF_vars(ListRuns)
  /\ WF_vars(Seed) /\ WF_vars(HandleRunEvent) /\ WF_vars(HandleWorkspaceEvent)
  /\ WF_vars(SubscriptionTerminated)

-----------------------------------------------------------------------------
(* Properties *)

\* The rows, the queues and the events have the shape of the Go types, and no
\* buffer exceeds its size.
TypeOK ==
  /\ rows \in [Run -> Row]
  /\ lock \in [Workspace -> Run \cup User \cup {Nobody}]
  /\ workspaces \subseteq Workspace
  /\ created \in Seq(Run)
  /\ reminders \subseteq Run
  /\ pc \in {"down", "watching", "listing", "seeding", "ready"}
  /\ todo \in Seq(RunNote)
  /\ queues \in [Workspace -> [current : Run \cup {Nobody}, backlog : Seq(Run)]]
  /\ runEvents \in Seq(RunNote) /\ Len(runEvents) <= BufferSize
  /\ wsEvents \in Seq(WsNote) /\ Len(wsEvents) <= BufferSize
  /\ closed \subseteq {"runs", "workspaces"}
  /\ crashes \in 0..MaxCrashes

Queued(r) ==
  LET q == queues[rows[r].workspace] IN q.current = r \/ Contains(q.backlog, r)
Noted(r, notes) == \E i \in DOMAIN notes : notes[i].run = r /\ ~notes[i].deleted

\* No run is forgotten: once the scheduler has listed the runs, a run that
\* still needs it is in the queue of its workspace, is about to be scheduled,
\* or has an event on its way.  Listing and subscribing leave no gap.
NoRunForgotten ==
  pc \in {"seeding", "ready"} /\ "runs" \notin closed =>
    \A r \in Run :
      \/ rows[r].status \notin {"pending"} \cup Scheduled
      \/ rows[r].planOnly /\ rows[r].status # "pending"
      \/ ~rows[r].planOnly /\ Queued(r)
      \/ Noted(r, todo) \/ Noted(r, runEvents)

\* The runs that change the state of w, are enqueued and not done.
ActiveRuns(w) ==
  {r \in Run : rows[r].workspace = w /\ ~rows[r].planOnly
               /\ rows[r].status \in Scheduled}

\* A workspace has one active run at a time, across restarts of the scheduler,
\* although a run may take over the lock of another.
OneActiveRun == \A w \in Workspace : Cardinality(ActiveRuns(w)) <= 1

\* Runs of a workspace plan in the order in which they were created.
FirstComeFirstServed ==
  [][\A r, s \in Run :
       /\ rows[r].status = "pending" /\ rows'[r].status = "active"
       /\ rows[s].status = "pending"
       /\ ~rows[r].planOnly /\ ~rows[s].planOnly
       /\ rows[r].workspace = rows[s].workspace
       => \E i, j \in DOMAIN created : i <= j /\ created[i] = r /\ created[j] = s
    ]_vars

\* Only a user takes the lock of a workspace away from a run that is not done:
\* the scheduler neither unlocks it nor hands it over on a stale event.
ActiveRunKeepsLock ==
  [][\A w \in Workspace, r \in Run :
       /\ lock[w] = r /\ lock'[w] # r
       /\ rows[r].status \in Scheduled /\ rows'[r].status \in Scheduled
       => \E u \in User : UserUnlocks(w, u, TRUE)]_vars

\* A run of w waits for the scheduler, and nothing else is in its way.
Stalled(w) ==
  /\ \E r \in Run : rows[r].workspace = w /\ rows[r].status = "pending"
                    /\ ~rows[r].planOnly
  /\ ActiveRuns(w) = {}
  /\ ~LockedByUser(w)
PlanOnlyStalled(r) == rows[r].status = "pending" /\ rows[r].planOnly

\* A workspace does not stay idle for ever while runs wait in it, and a
\* speculative run does not wait for ever.
WaitingRunsAreServed ==
  /\ \A w \in Workspace : []<>~Stalled(w)
  /\ \A r \in Run : []<>~PlanOnlyStalled(r)

-----------------------------------------------------------------------------
(* What comments of the code say, and the code does not do *)

\* When the current run is done, the workspace is unlocked or handed over to
\* another run.
DoneRunReleasesLock ==
  \A w \in Workspace, r \in Run :
    lock[w] = r /\ rows[r].status \in Done ~> lock[w] # r

\* No run falls between the subscriptions, the list and the events, however the
\* scheduler stops and starts again; and the types of its queues.
RunsAreKnown == TypeOK /\ NoRunForgotten
=============================================================================
