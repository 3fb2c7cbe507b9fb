---------------------------- MODULE WatchersProofs ----------------------------
(***************************************************************************)
(* The reporter, the triggerer and the notifier, for any number of runs,   *)
(* workspaces and notification configs, any size of the buffers, any       *)
(* restarts of the node's daemons and any outages of its listener.         *)
(***************************************************************************)
EXTENDS Watchers, EventStreamProofs, FiniteSetTheorems

Source == {"api", "vcs", "trigger", Absent}

RunRow == [status : Status \union {Absent, Gone}, workspace : Workspace \union {Absent},
           source : Source, by : Run \union {0}, coolOff : {"no", "on", "over"}]

Change == [type : {"created", "updated", "deleted"}, run : Run,
           status : Status \union {Absent, Gone},
           workspace : Workspace \union {Absent}, source : Source]

Posted == {"pending", "success", "error"}

-----------------------------------------------------------------------------
(* The inductive invariant *)

FeedInv ==
  /\ StreamInv(Change)
  /\ ~lapsed
  /\ \A s \in Sub : Ordered(subs[s])
  /\ runs \in [Run -> RunRow]
  /\ up \in [Daemon -> BOOLEAN]

\* What is cached is the status that was set last: the cache outlives the
\* reporter's restarts, and so do the statuses.
CacheIsPosted ==
  \A r \in Run : reported[r] # Absent =>
    posted[r] # <<>> /\ Last(posted[r]) = reported[r]

\* This event is the last of a run's that the reporter has handled, and its
\* status is the one that was set last.
IsPosted(r, id) ==
  /\ \A other \in Handled(r) : id >= other
  /\ posted[r] # <<>>
  /\ Last(posted[r]) = VCSStatus(feed[id].status)

LastHandledIsPosted ==
  up["reporter"] => \A r \in Run : Handled(r) # {} =>
    \E id \in Handled(r) : IsPosted(r, id)

ReporterInv ==
  /\ posted \in [Run -> Seq(Posted)]
  /\ reported \in [Run -> Posted \union {Absent}]
  /\ since \in Nat \ {0}
  /\ up["reporter"] => since <= subs["reporter"].due
  /\ CacheIsPosted
  /\ LastHandledIsPosted

\* The first event that the triggerer may yet handle: it goes on with the one
\* it is due, and after a restart with the first one still in flight.
Frontier == IF up["triggerer"] THEN subs["triggerer"].due
                               ELSE Len(feed) + 1 - Len(notified)

\* The triggerer cannot meet this application of a run any more.
AppliedBefore(r) ==
  \E id \in 1..(Frontier - 1) : feed[id].run = r /\ feed[id].status = "applied"

\* A run has been applied before it triggers, or is about to; and if it is not
\* updated again, it has triggered nothing yet where it is about to.
TriggersOfRun(r) ==
  /\ (todo.run = r /\ todo.workspaces # {}) \/ (\E q \in Run : runs[q].by = r) =>
       AppliedBefore(r)
  /\ ~Touched(r) =>
       /\ todo.run = r =>
            \A q \in Run : runs[q].by = r => runs[q].workspace \notin todo.workspaces
       /\ \A p, q \in Run :
            /\ runs[p].by = r /\ runs[q].by = r
            /\ runs[p].workspace = runs[q].workspace
            => p = q

TriggererInv ==
  /\ todo \in [run : Run \union {0}, workspaces : SUBSET Workspace]
  /\ \A r \in Run : TriggersOfRun(r)

IInv == FeedInv /\ ReporterInv /\ TriggererInv

-----------------------------------------------------------------------------
(* The notifier's part of it *)

CfgP == INSTANCE EventStreamProofs WITH
  Sub <- {"notifier"}, feed <- cfgFeed, rows <- cfgRows,
  notified <- cfgNotified, subs <- cfgSubs

ConfigEvent == [type : {"created", "updated", "deleted"}, config : Config,
                row : Row \union {GoneConfig}]

IsLast(id) == \A j \in DOMAIN cfgFeed : j > id => cfgFeed[j].config # cfgFeed[id].config

\* The events of a config begin with its creation and end with its deletion;
\* the last one has its row, and the others the same destination.
EventAgrees(id) ==
  LET event == cfgFeed[id]
      row == configs[event.config] IN
  /\ row # NoConfig
  /\ IsLast(id) => event.row = row
  /\ event.type = "created" =>
       \A j \in DOMAIN cfgFeed : cfgFeed[j].config = event.config => id <= j
  /\ event.type = "deleted" => IsLast(id) /\ event.row = GoneConfig
  /\ event.type # "deleted" =>
       /\ event.row \in Row
       /\ row # GoneConfig => event.row.destination = row.destination

ConfigsInv ==
  /\ CfgP!StreamInv(ConfigEvent)
  /\ configs \in [Config -> Row \union {NoConfig, GoneConfig}]
  /\ \A id \in DOMAIN cfgFeed : EventAgrees(id)

Client == [count : Nat, destination : {Absent} \union {row.destination : row \in Row}]

CacheRecord == [configs : [Config -> Row \union {NoConfig}], clients : [URL -> Client],
                spoilt : SUBSET Config]

\* What every method of the cache leaves: it has only what it may have, and
\* the clients are counted.
CacheOK(cache) ==
  /\ cache \in CacheRecord
  /\ \A c \in Config : cache.configs[c] # NoConfig => Cacheable(cache.configs[c])
  /\ \A u \in URL : cache.clients[u].count = Cardinality(UsersOf(cache.configs, u))

\* The events of a config that the notifier has yet to handle.
Pending(c) == {id \in cfgSubs["notifier"].due..Len(cfgFeed) : cfgFeed[id].config = c}

Agrees(c) == cached[c] = Cached(configs)[c] \/ (c \in spoilt /\ cached[c] = NoConfig)

\* Nothing is missing but what an event on its way adds: a config whose events
\* are handled is cached as it is in the table; one whose creation has been
\* handled is cached at least, so that its updates find it.
CurrentFor(c) ==
  /\ (\A id \in Pending(c) : cfgFeed[id].type = "created") =>
       Agrees(c) \/ (Pending(c) # {} /\ cached[c] = NoConfig)
  /\ (\A id \in Pending(c) : cfgFeed[id].type # "created") /\ Cacheable(configs[c]) =>
       cached[c] # NoConfig \/ c \in spoilt

NotifierInv ==
  /\ ConfigsInv
  /\ CacheOK(TheCache)
  /\ up["notifier"] /\ cfgSubs["notifier"].open => \A c \in Config : CurrentFor(c)

\* Runs are created in the order of their ids, by runs that there are.
RunsInv ==
  /\ \A r \in Run : runs[r].by < r
  /\ \A r, q \in Run : r < q /\ runs[r] = NoRun => runs[q] = NoRun
  /\ triggers \subseteq Workspace \X Workspace
  /\ todo.workspaces # {} => todo.run \in Run

WatchersInv == IInv /\ RunsInv /\ NotifierInv

-----------------------------------------------------------------------------
(* The stream *)

\* What the operations of the stream need of the types.
LEMMA StreamTyped ==
  ASSUME FeedInv
  PROVE  /\ feed \in Seq(Change) /\ Len(feed) \in Nat
         /\ notified \in Seq(1..Len(feed)) /\ Len(notified) \in Nat /\ Len(notified) <= Len(feed)
         /\ \A i \in 1..Len(notified) : notified[i] = Len(feed) - Len(notified) + i
         /\ subs \in [Sub -> [open : BOOLEAN, deaf : BOOLEAN, due : Nat, buffer : Seq(1..Len(feed))]]
         /\ \A s \in Sub : /\ subs[s].buffer \in Seq(1..Len(feed)) /\ Len(subs[s].buffer) \in Nat
                           /\ subs[s].due \in Nat
                           /\ Ordered(subs[s])
                           /\ subs[s].open => Consecutive(subs[s])
BY OrderedTyped DEF FeedInv, OrderedStream

-----------------------------------------------------------------------------
(* Who is not concerned *)

\* The reporter's part of the invariant, when it handles nothing.
LEMMA ReporterUndisturbed ==
  ASSUME FeedInv, ReporterInv, Grows, UNCHANGED <<since, posted, reported>>,
         up'["reporter"] =>
           up["reporter"] /\ subs'["reporter"].due = subs["reporter"].due
  PROVE  ReporterInv'
<1> DEFINE d == subs["reporter"].due
<1>1. /\ d \in Nat /\ Len(feed) \in Nat /\ d <= Len(feed) + 1 /\ since \in Nat \ {0}
  <2>1. "reporter" \in Sub
    BY WatchersAssumption
  <2> DEFINE l == Len(subs["reporter"].buffer)
             n == Len(notified)
             f == Len(feed)
  <2>2. /\ d \in Nat /\ l \in Nat /\ n \in Nat /\ f \in Nat
        /\ d + l + n <= f + 1
    BY <2>1, StreamTyped DEF Ordered
  <2> HIDE DEF d, l, n, f
  <2>3. d <= f + 1
    BY <2>2
  <2> QED BY <2>2, <2>3 DEF f, ReporterInv
<1>2. CacheIsPosted'
  BY DEF ReporterInv, CacheIsPosted
<1>3. LastHandledIsPosted'
  <2> SUFFICES ASSUME up'["reporter"], NEW r \in Run, Handled(r)' # {}
               PROVE  \E id \in Handled(r)' : IsPosted(r, id)'
    BY DEF LastHandledIsPosted
  <2>1. up["reporter"] /\ subs'["reporter"].due = d /\ since' = since
    OBVIOUS
  <2>2. \A id \in since..(d - 1) : id \in 1..Len(feed) /\ feed'[id] = feed[id]
    BY <1>1 DEF Grows
  <2>3. Handled(r)' = Handled(r)
    <3> HIDE DEF d
    <3>1. since'..(subs'["reporter"].due - 1) = since..(d - 1)
      BY <2>1
    <3>2. Handled(r)' = {id \in since..(d - 1) : feed'[id].run = r /\ ~Ignored(feed'[id])}
      BY <3>1 DEF Handled, Ignored
    <3>3. Handled(r) = {id \in since..(d - 1) : feed[id].run = r /\ ~Ignored(feed[id])}
      BY DEF Handled, d
    <3> QED BY <2>2, <3>2, <3>3
  <2>4. PICK id \in Handled(r) : IsPosted(r, id)
    BY <2>1, <2>3 DEF ReporterInv, LastHandledIsPosted
  <2>5. feed'[id] = feed[id]
    BY <2>2, <2>4 DEF Handled
  <2>6. IsPosted(r, id)'
    BY <2>3, <2>4, <2>5 DEF IsPosted
  <2> QED BY <2>3, <2>4, <2>6
<1> QED BY <1>2, <1>3 DEF ReporterInv

\* The triggerer will not handle an event for a second time.
LEMMA FrontierBounded ==
  ASSUME FeedInv
  PROVE  /\ Frontier \in Int /\ Frontier <= Len(feed) + 1 - Len(notified)
         /\ Frontier <= Len(feed) + 1
         /\ \A id \in 1..(Frontier - 1) : id \in 1..Len(feed)
         /\ DOMAIN feed = 1..Len(feed)
<1> DEFINE d == subs["triggerer"].due
           l == Len(subs["triggerer"].buffer)
           n == Len(notified)
           f == Len(feed)
<1>1. "triggerer" \in Sub
  BY WatchersAssumption
<1>2. /\ d \in Nat /\ l \in Nat /\ n \in Nat /\ f \in Nat
      /\ d + l + n <= f + 1 /\ DOMAIN feed = 1..f
  BY <1>1, StreamTyped DEF Ordered
<1>3. Frontier = d \/ Frontier = f + 1 - n
  BY DEF Frontier
<1> HIDE DEF d, l, n, f
<1>4. Frontier \in Int /\ Frontier <= f + 1 - n /\ Frontier <= f + 1
  BY <1>2, <1>3
<1>5. \A id \in 1..(Frontier - 1) : id \in 1..f
  BY <1>2, <1>4
<1> QED BY <1>2, <1>4, <1>5 DEF n, f

\* The triggerer is due the same event, or has restarted or stopped.
TriggererPasses ==
  up'["triggerer"] =>
    \/ up["triggerer"] /\ subs'["triggerer"].due = subs["triggerer"].due
    \/ up["triggerer"] /\ subs'["triggerer"].due = subs["triggerer"].due + 1
    \/ subs'["triggerer"].due = Len(feed) + 1 - Len(notified)

LEMMA FrontierGrows ==
  ASSUME FeedInv, Grows, TriggererPasses, Len(feed') \in Nat, Len(notified') \in Nat
  PROVE  Frontier \in Int /\ Frontier' \in Int /\ Frontier <= Frontier'
<1>1. /\ Frontier \in Int /\ Frontier <= Len(feed) + 1 - Len(notified)
      /\ Len(feed) \in Nat /\ Len(notified) \in Nat
  BY FrontierBounded, StreamTyped
<1>2. CASE up'["triggerer"]
  BY <1>1, <1>2 DEF Frontier, TriggererPasses
<1>3. CASE ~up'["triggerer"]
  <2>1. Frontier' = Len(feed') + 1 - Len(notified')
    BY <1>3 DEF Frontier
  <2>2. Len(feed) - Len(notified) <= Len(feed') - Len(notified')
    BY DEF Grows
  <2> QED BY <1>1, <2>1, <2>2
<1> QED BY <1>2, <1>3

\* A run that was met before, or touched, stays so.
LEMMA ApplicationsStay ==
  ASSUME FeedInv, Grows, Frontier \in Int, Frontier' \in Int, Frontier <= Frontier',
         Len(feed') \in Nat, feed' \in Seq(Change), NEW r
  PROVE  /\ AppliedBefore(r) => AppliedBefore(r)'
         /\ Touched(r) => Touched(r)'
<1>1. /\ \A id \in 1..(Frontier - 1) : id \in 1..Len(feed) /\ id \in 1..(Frontier' - 1)
      /\ DOMAIN feed = 1..Len(feed) /\ DOMAIN feed' = 1..Len(feed')
  <2>1. \A id \in 1..(Frontier - 1) : id \in 1..Len(feed)
    BY FrontierBounded
  <2>2. \A id \in 1..(Frontier - 1) : id \in 1..(Frontier' - 1)
    <3>1. \A x, y \in Int : x <= y => \A id \in 1..(x - 1) : id \in 1..(y - 1)
      OBVIOUS
    <3> QED BY <3>1
  <2>3. DOMAIN feed = 1..Len(feed) /\ DOMAIN feed' = 1..Len(feed')
    BY StreamTyped
  <2> QED BY <2>1, <2>2, <2>3
<1>2. /\ \A id \in 1..Len(feed) : feed'[id] = feed[id] /\ id \in 1..Len(feed')
  BY StreamTyped DEF Grows
<1>3. AppliedBefore(r) => AppliedBefore(r)'
  BY <1>1, <1>2 DEF AppliedBefore
<1>4. Touched(r) => Touched(r)'
  BY <1>1, <1>2 DEF Touched
<1> QED BY <1>3, <1>4

\* The triggerer's part of the invariant, when it creates no run.
LEMMA TriggererUndisturbed ==
  ASSUME FeedInv, TriggererInv, Grows, TriggererPasses, StreamInv(Change)',
         todo' \in {todo, Idle},
         \A q \in Run : \/ runs'[q].by = 0
                        \/ /\ runs'[q].by = runs[q].by
                           /\ runs'[q].workspace = runs[q].workspace
  PROVE  TriggererInv'
<1>1. feed' \in Seq(Change) /\ Len(feed') \in Nat /\ Len(notified') \in Nat
  BY DEF StreamInv, StreamTypeOK
<1>2. Frontier \in Int /\ Frontier' \in Int /\ Frontier <= Frontier'
  BY <1>1, FrontierGrows
<1>3. \A r : (AppliedBefore(r) => AppliedBefore(r)') /\ (Touched(r) => Touched(r)')
  BY <1>1, <1>2, ApplicationsStay
<1>4. /\ todo' \in [run : Run \union {0}, workspaces : SUBSET Workspace]
      /\ todo'.workspaces # {} => todo' = todo
  BY DEF TriggererInv, Idle
<1>5. ASSUME NEW r \in Run PROVE TriggersOfRun(r)'
  <2>1. TriggersOfRun(r)
    BY DEF TriggererInv
  <2>2. \A q \in Run : runs'[q].by = r =>
          runs[q].by = r /\ runs'[q].workspace = runs[q].workspace
    <3>1. r # 0
      BY DEF Run
    <3> QED BY <3>1
  <2>3. (todo'.run = r /\ todo'.workspaces # {}) \/ (\E q \in Run : runs'[q].by = r) =>
          AppliedBefore(r)'
    BY <1>3, <1>4, <2>1, <2>2 DEF TriggersOfRun
  <2>4. ASSUME ~Touched(r)'
        PROVE  /\ todo'.run = r => \A q \in Run : runs'[q].by = r =>
                    runs'[q].workspace \notin todo'.workspaces
               /\ \A p, q \in Run : /\ runs'[p].by = r /\ runs'[q].by = r
                                    /\ runs'[p].workspace = runs'[q].workspace
                                    => p = q
    <3>1. ~Touched(r)
      BY <1>3, <2>4
    <3> QED BY <1>4, <2>1, <2>2, <3>1 DEF TriggersOfRun
  <2> QED BY <2>3, <2>4 DEF TriggersOfRun
<1> QED BY <1>4, <1>5 DEF TriggererInv

\* A step that neither handles an event for the reporter nor for the
\* triggerer, and by which nothing is triggered.
LEMMA Undisturbed ==
  ASSUME IInv, StreamInv(Change)', Grows, ~lapsed',
         \A s \in Sub : Ordered(subs[s])',
         runs' \in [Run -> RunRow], up' \in [Daemon -> BOOLEAN],
         UNCHANGED <<since, posted, reported>>,
         up'["reporter"] => up["reporter"] /\ subs'["reporter"].due = subs["reporter"].due,
         TriggererPasses, todo' \in {todo, Idle},
         \A q \in Run : \/ runs'[q].by = 0
                        \/ /\ runs'[q].by = runs[q].by
                           /\ runs'[q].workspace = runs[q].workspace
  PROVE  IInv'
<1>1. FeedInv'
  BY DEF FeedInv
<1>2. ReporterInv'
  BY ReporterUndisturbed DEF IInv
<1>3. TriggererInv'
  BY TriggererUndisturbed DEF IInv
<1> QED BY <1>1, <1>2, <1>3 DEF IInv

\* Nor does anything else that leaves the stream, the runs and the state of
\* these daemons alone.
LEMMA Apart ==
  ASSUME IInv, UNCHANGED <<streamVars, runs, up, since, posted, reported, todo>>
  PROVE  IInv'
<1>1. StreamInv(Change)' /\ Grows /\ ~lapsed' /\ TriggererPasses
  <2>1. StreamInv(Change) /\ ~lapsed
    BY DEF IInv, FeedInv
  <2>2. UNCHANGED <<feed, rows, listener, notified, enabled, subs, lapsed>>
    BY DEF streamVars
  <2>3. Grows
    BY <2>2, StreamTyped DEF Grows, IInv
  <2> QED BY <2>1, <2>2, <2>3 DEF StreamInv, StreamTypeOK, InFlight, DownIsDisabled,
                                  Consecutive, TriggererPasses
<1>2. \A s \in Sub : Ordered(subs[s])'
  BY DEF IInv, FeedInv, Ordered, streamVars
<1>3. runs' \in [Run -> RunRow] /\ up' \in [Daemon -> BOOLEAN] /\ todo' \in {todo, Idle}
  BY DEF IInv, FeedInv
<1>4. subs' = subs
  BY DEF streamVars
<1> QED BY <1>1, <1>2, <1>3, <1>4, Undisturbed

-----------------------------------------------------------------------------
(* The changes of the tables *)

\* The events of runs are typed as their rows are.
LEMMA RunEventTyped ==
  ASSUME NEW type \in {"created", "updated", "deleted"}, NEW table \in [Run -> RunRow], NEW r \in Run
  PROVE  RunEvent(type, r, table) \in Change
BY DEF RunEvent, Change, RunRow

\* A transaction on runs, by which nothing is triggered.
LEMMA PublishKeeps ==
  ASSUME IInv, NEW table \in [Run -> RunRow], NEW events \in Seq(Change),
         Publish(table, events), UNCHANGED <<up, since, posted, reported, todo>>,
         \A q \in Run : \/ table[q].by = 0
                        \/ table[q].by = runs[q].by /\ table[q].workspace = runs[q].workspace
  PROVE  IInv'
<1>1. /\ runs' = table /\ build_and_send_event(events)
      /\ UNCHANGED <<listener, enabled, subs, lapsed>>
  BY DEF Publish
<1>2. StreamInv(Change)' /\ Grows /\ \A s \in Sub : Ordered(subs[s])'
  BY <1>1, CommitOrdered DEF IInv, FeedInv, OrderedStream
<1>3. ~lapsed' /\ up' \in [Daemon -> BOOLEAN] /\ TriggererPasses
  BY <1>1 DEF IInv, FeedInv, TriggererPasses
<1> QED BY <1>1, <1>2, <1>3, Undisturbed

\* Every UPDATE of a row keeps the workspace and the run that triggered.
LEMMA UpdateKeeps ==
  ASSUME IInv, NEW r \in Run, NEW row \in RunRow, Update(r, row),
         row.by = runs[r].by, row.workspace = runs[r].workspace,
         UNCHANGED <<up, since, posted, reported, todo>>
  PROVE  IInv'
<1> DEFINE table == [runs EXCEPT ![r] = row]
<1>1. /\ table \in [Run -> RunRow] /\ table[r] = row
      /\ \A q \in Run : q # r => table[q] = runs[q]
  BY DEF IInv, FeedInv
<1>2. Publish(table, <<RunEvent("updated", r, table)>>)
  BY DEF Update
<1> HIDE DEF table
<1>3. <<RunEvent("updated", r, table)>> \in Seq(Change)
  BY <1>1, RunEventTyped
<1>4. \A q \in Run : table[q].by = runs[q].by /\ table[q].workspace = runs[q].workspace
  BY <1>1
<1> QED BY <1>1, <1>2, <1>3, <1>4, PublishKeeps

\* What a run may become is a status.
LEMMA MovesTyped ==
  ASSUME NEW from, NEW to \in Moves(from)
  PROVE  to \in Status
BY DEF Moves, Status, InProgress, Done

LEMMA CreateRunKeeps ==
  ASSUME IInv, NEW r \in Run, NEW w \in Workspace, NEW source \in {"api", "vcs"},
         CreateRun(r, w, source)
  PROVE  IInv'
<1> DEFINE row == NewRun("pending", w, source, 0)
           table == [runs EXCEPT ![r] = row]
<1>1. row \in RunRow /\ row.by = 0
  BY DEF NewRun, NoRun, RunRow, Status, Source
<1>2. /\ table \in [Run -> RunRow]
      /\ \A q \in Run : table[q].by = 0 \/ table[q] = runs[q]
  <2> HIDE DEF row
  <2> QED BY <1>1 DEF IInv, FeedInv
<1>3. /\ Publish(table, <<RunEvent("created", r, table)>>)
      /\ UNCHANGED <<up, since, posted, reported, todo>>
  BY DEF CreateRun, Insert, daemonVars, reporterVars
<1> HIDE DEF table
<1>4. <<RunEvent("created", r, table)>> \in Seq(Change)
  BY <1>2, RunEventTyped
<1> QED BY <1>2, <1>3, <1>4, PublishKeeps

\* The updates of a run: its status, its lock file, and its cancelation.
LEMMA RowUpdatesKeep ==
  ASSUME IInv, NEW r \in Run,
         \/ \E to \in Moves(runs[r].status) : UpdateStatus(r, to)
         \/ UploadLockFile(r) \/ CancelRun(r) \/ triggerEvent(r) \/ ForceCancelRun(r)
  PROVE  IInv'
<1> DEFINE Kept(row) == /\ row \in RunRow
                        /\ row.by = runs[r].by /\ row.workspace = runs[r].workspace
<1>1. runs[r] \in RunRow
  BY DEF IInv, FeedInv
<1>2. Kept(runs[r])
  BY <1>1
<1>3. \A to \in Status : Kept([runs[r] EXCEPT !.status = to])
  BY <1>1 DEF RunRow
<1>4. \A to \in {"on", "over"} : Kept([runs[r] EXCEPT !.coolOff = to])
  BY <1>1 DEF RunRow
<1>5. /\ UNCHANGED <<up, since, posted, reported, todo>>
      /\ \/ \E to \in Moves(runs[r].status) : Update(r, [runs[r] EXCEPT !.status = to])
         \/ Update(r, runs[r])
         \/ \E to \in {"on", "over"} : Update(r, [runs[r] EXCEPT !.coolOff = to])
         \/ Update(r, [runs[r] EXCEPT !.status = "force_canceled"])
  BY DEF UpdateStatus, UploadLockFile, CancelRun, triggerEvent, ForceCancelRun,
         daemonVars, reporterVars
<1>6. \E row : Kept(row) /\ Update(r, row)
  <2>1. CASE \E to \in Moves(runs[r].status) : Update(r, [runs[r] EXCEPT !.status = to])
    <3>1. PICK to \in Moves(runs[r].status) : Update(r, [runs[r] EXCEPT !.status = to])
      BY <2>1
    <3>2. to \in Status
      BY MovesTyped
    <3> HIDE DEF Kept
    <3> QED BY <1>3, <3>1, <3>2
  <2>2. CASE Update(r, runs[r])
    BY <1>2, <2>2
  <2>3. CASE \E to \in {"on", "over"} : Update(r, [runs[r] EXCEPT !.coolOff = to])
    <3>1. PICK to \in {"on", "over"} : Update(r, [runs[r] EXCEPT !.coolOff = to])
      BY <2>3
    <3> HIDE DEF Kept
    <3> QED BY <1>4, <3>1
  <2>4. CASE Update(r, [runs[r] EXCEPT !.status = "force_canceled"])
    <3>1. "force_canceled" \in Status
      BY DEF Status, Done
    <3> HIDE DEF Kept
    <3> QED BY <1>3, <2>4, <3>1
  <2> QED BY <1>5, <2>1, <2>2, <2>3, <2>4
<1> QED BY <1>5, <1>6, UpdateKeeps

\* The members of a finite set, in a sequence.
LEMMA SetToSeqTyped ==
  ASSUME NEW S, IsFiniteSet(S)
  PROVE  SetToSeq(S) \in Seq(S)
<1> DEFINE n == Cardinality(S)
<1>1. n \in Nat /\ ExistsBijection(1..n, S)
  BY FS_CardinalityType
<1> HIDE DEF n
<1>2. \E f \in [1..n -> S] : IsInjective(f)
  BY <1>1 DEF ExistsBijection, Bijection, Injection
<1> DEFINE f == SetToSeq(S)
<1>3. f \in [1..n -> S]
  BY <1>2 DEF SetToSeq, n
<1> HIDE DEF f
<1> QED BY <1>1, <1>3 DEF f

\* A run is deleted, and those that it triggered are updated.
LEMMA DeleteRunKeeps ==
  ASSUME IInv, NEW r \in Run, DeleteRun(r)
  PROVE  IInv'
<1> DEFINE orphans == {q \in Run : Exists(q) /\ runs[q].by = r}
           table == [q \in Run |-> CASE q = r -> [runs[q] EXCEPT !.status = Gone]
                                     [] q \in orphans -> [runs[q] EXCEPT !.by = 0]
                                     [] OTHER -> runs[q]]
           updates == {RunEvent("updated", q, runs) : q \in orphans}
           events == SetToSeq(updates) \o <<RunEvent("deleted", r, runs)>>
<1>1. runs \in [Run -> RunRow]
  BY DEF IInv, FeedInv
<1>2. Publish(table, events) /\ UNCHANGED <<up, since, posted, reported, todo>>
  BY DEF DeleteRun, daemonVars, reporterVars
<1>3. ASSUME NEW q \in Run
      PROVE  /\ table[q] \in RunRow
             /\ table[q].by = 0 \/ (table[q].by = runs[q].by /\ table[q].workspace = runs[q].workspace)
  <2>1. runs[q] \in RunRow
    BY <1>1
  <2>2. \/ table[q] = [runs[q] EXCEPT !.status = Gone]
        \/ table[q] = [runs[q] EXCEPT !.by = 0]
        \/ table[q] = runs[q]
    OBVIOUS
  <2> HIDE DEF table
  <2> QED BY <2>1, <2>2 DEF RunRow
<1>4. table \in [Run -> RunRow]
  BY <1>3
<1>5. events \in Seq(Change)
  <2>1. IsFiniteSet(updates) /\ updates \subseteq Change
    <3>1. IsFiniteSet(Run)
      BY WatchersAssumption, FS_Interval DEF Run
    <3>2. IsFiniteSet(orphans)
      BY <3>1, FS_Subset
    <3> DEFINE f == [q \in orphans |-> RunEvent("updated", q, runs)]
    <3>5. f \in Surjection(orphans, updates)
      BY DEF Surjection
    <3>3. IsFiniteSet(updates)
      <4> HIDE DEF f, updates, orphans
      <4> QED BY <3>2, <3>5, FS_Surjection
    <3>4. updates \subseteq Change
      BY <1>1, RunEventTyped
    <3> QED BY <3>3, <3>4
  <2> HIDE DEF updates
  <2>2. SetToSeq(updates) \in Seq(Change)
    BY <2>1, SetToSeqTyped, SeqMonotonic
  <2>3. <<RunEvent("deleted", r, runs)>> \in Seq(Change)
    BY <1>1, RunEventTyped
  <2> QED BY <2>2, <2>3, ConcatProperties
<1> HIDE DEF table, events
<1> QED BY <1>2, <1>3, <1>4, <1>5, PublishKeeps

LEMMA TableStepsKeep == ASSUME IInv, TableSteps PROVE IInv'
<1>1. ASSUME NEW r \in Run, NEW w \in Workspace, NEW source \in {"api", "vcs"},
             CreateRun(r, w, source)
      PROVE  IInv'
  BY <1>1, CreateRunKeeps
<1>2. ASSUME NEW r \in Run,
             \/ \E to \in Moves(runs[r].status) : UpdateStatus(r, to)
             \/ UploadLockFile(r) \/ CancelRun(r) \/ triggerEvent(r) \/ ForceCancelRun(r)
      PROVE  IInv'
  BY <1>2, RowUpdatesKeep
<1>3. ASSUME NEW r \in Run, DeleteRun(r) PROVE IInv'
  BY <1>3, DeleteRunKeeps
<1>4. ASSUME \/ \E w, triggering \in Workspace : CreateRunTrigger(w, triggering)
             \/ \E t \in triggers : DeleteRunTrigger(t)
             \/ \E c \in Config, row \in Row :
                  CreateNotificationConfig(c, row) \/ UpdateNotificationConfig(c, row)
             \/ \E c \in Config : DeleteNotificationConfig(c)
      PROVE  IInv'
  <2>1. Unmoved
    BY <1>4 DEF CreateRunTrigger, DeleteRunTrigger, CreateNotificationConfig,
                UpdateNotificationConfig, DeleteNotificationConfig, ChangeConfig
  <2> QED BY <2>1, Apart DEF Unmoved, daemonVars, reporterVars
<1> QED BY <1>1, <1>2, <1>3, <1>4 DEF TableSteps

-----------------------------------------------------------------------------
(* The listener, and the daemons' subscriptions *)

LEMMA ListenerStepsKeep == ASSUME IInv, ListenerSteps \/ Outage PROVE IInv'
<1>1. /\ UNCHANGED <<runs, up, since, posted, reported, todo>>
      /\ runs \in [Run -> RunRow] /\ up \in [Daemon -> BOOLEAN] /\ ~lapsed
  BY DEF ListenerSteps, Outage, tables, daemonVars, reporterVars, IInv, FeedInv
<1>2. CASE ForwardNext \/ ConnectionLost \/ Start
  <2>1. /\ StreamInv(Change)' /\ Grows /\ \A s \in Sub : Ordered(subs[s])'
        /\ \A s \in Sub : subs'[s].due = subs[s].due
    BY <1>2, ForwardOrdered, ListenerOrdered DEF IInv, FeedInv, OrderedStream
  <2>2. ~lapsed'
    BY <1>1, <1>2 DEF ForwardNext, ConnectionLost, Start
  <2>3. "triggerer" \in Sub /\ "reporter" \in Sub
    BY WatchersAssumption
  <2>4. TriggererPasses
    BY <1>1, <2>1, <2>3 DEF TriggererPasses
  <2> QED BY <1>1, <2>1, <2>2, <2>3, <2>4, Undisturbed
<1>3. CASE ~(ForwardNext \/ ConnectionLost \/ Start)
  <2>1. Cfg!ForwardNext /\ UNCHANGED <<feed, rows, notified, subs>>
    BY <1>3 DEF ListenerSteps, Outage
  <2>2. UNCHANGED streamVars
    BY <2>1 DEF Cfg!ForwardNext, streamVars
  <2> QED BY <1>1, <2>2, Apart
<1> QED BY <1>2, <1>3

\* The notifier comes and goes, and takes events, apart from the other two.
LEMMA NotifierStepsKeep == ASSUME IInv, NotifierSteps PROVE IInv'
<1>1. /\ runs \in [Run -> RunRow] /\ up \in [Daemon -> BOOLEAN] /\ ~lapsed
      /\ "notifier" \in Sub /\ "reporter" \in Sub /\ "triggerer" \in Sub
  BY WatchersAssumption DEF IInv, FeedInv
<1>2. CASE newCache
  <2>1. /\ UNCHANGED <<streamVars, runs, since, posted, reported, todo>>
        /\ up' = [up EXCEPT !["notifier"] = TRUE]
    BY <1>2 DEF newCache, tables, reporterVars
  <2>2. /\ up' \in [Daemon -> BOOLEAN]
        /\ up'["reporter"] = up["reporter"] /\ up'["triggerer"] = up["triggerer"]
    BY <1>1, <2>1 DEF Daemon
  <2>3. UNCHANGED <<feed, rows, listener, notified, enabled, subs, lapsed>>
    BY <2>1 DEF streamVars
  <2>4. StreamInv(Change)' /\ Grows /\ \A s \in Sub : Ordered(subs[s])'
    <3>1. StreamInv(Change) /\ \A s \in Sub : Ordered(subs[s])
      BY DEF IInv, FeedInv
    <3>2. Grows
      BY <2>3, StreamTyped DEF Grows, IInv
    <3> QED BY <2>3, <3>1, <3>2 DEF StreamInv, StreamTypeOK, InFlight, DownIsDisabled,
                                    Consecutive, Ordered
  <2>5. TriggererPasses
    BY <2>2, <2>3 DEF TriggererPasses
  <2> QED BY <1>1, <2>1, <2>2, <2>3, <2>4, <2>5, Undisturbed
<1>3. CASE StartNotifier \/ newCacheFails \/ NotifierCloses \/ handleRunEvent
  <2>1. /\ Subscribe("notifier") \/ Unsubscribe("notifier") \/ Take("notifier")
        /\ StreamRest
        /\ UNCHANGED <<runs, since, posted, reported, todo>>
        /\ up' \in {up, [up EXCEPT !["notifier"] = FALSE]}
    BY <1>3 DEF StartNotifier, newCacheFails, NotifierCloses, handleRunEvent, Taken, Stops,
                Outside, tables, daemonVars, reporterVars
  <2>2. /\ up' \in [Daemon -> BOOLEAN]
        /\ up'["reporter"] = up["reporter"] /\ up'["triggerer"] = up["triggerer"]
    BY <1>1, <2>1 DEF Daemon
  <2>3. /\ StreamInv(Change)' /\ Grows /\ \A t \in Sub : Ordered(subs[t])'
        /\ \A t \in Sub : t # "notifier" => subs'[t].due = subs[t].due
        /\ ~lapsed'
    BY <1>1, <2>1, SubscriberOrdered DEF StreamRest, IInv, FeedInv, OrderedStream
  <2>4. TriggererPasses
    BY <1>1, <2>2, <2>3 DEF TriggererPasses
  <2> QED BY <1>1, <2>1, <2>2, <2>3, <2>4, Undisturbed
<1>4. CASE handleConfigEvent
  <2>1. UNCHANGED <<streamVars, runs, up, since, posted, reported, todo>>
    BY <1>4 DEF handleConfigEvent, Outside, tables, reporterVars
  <2> QED BY <2>1, Apart
<1> QED BY <1>2, <1>3, <1>4 DEF NotifierSteps

\* A daemon is started.
LEMMA StartKeeps ==
  ASSUME IInv, NEW d \in {"reporter", "triggerer"}, StartDaemon(d)
  PROVE  IInv'
<1>1. /\ Subscribe(d) /\ UNCHANGED <<feed, rows, listener, notified, enabled, lapsed>>
      /\ up' = [up EXCEPT ![d] = TRUE] /\ ~up[d]
      /\ UNCHANGED <<runs, posted, reported, todo>>
      /\ since' = IF d = "reporter" THEN subs'[d].due ELSE since
      /\ d \in Sub /\ "reporter" \in Sub /\ "triggerer" \in Sub
  BY WatchersAssumption DEF StartDaemon, StreamRest, Outside, tables
<1>2. /\ StreamInv(Change)' /\ Grows /\ \A t \in Sub : Ordered(subs[t])'
      /\ \A t \in Sub : t # d => subs'[t].due = subs[t].due
      /\ subs'[d].due = Len(feed) + 1 - Len(notified)
  BY <1>1, SubscriberOrdered DEF IInv, FeedInv, OrderedStream
<1>3. /\ up' \in [Daemon -> BOOLEAN] /\ up'[d]
      /\ \A t \in Sub : t # d => up'[t] = up[t]
  BY <1>1 DEF Daemon, IInv, FeedInv
<1>4. FeedInv' /\ TriggererPasses
  BY <1>1, <1>2, <1>3 DEF IInv, FeedInv, TriggererPasses
<1>5. TriggererInv'
  BY <1>1, <1>2, <1>4, TriggererUndisturbed DEF IInv
<1>6. CASE d = "reporter"
  <2>1. since' = Len(feed) + 1 - Len(notified) /\ since' = subs'["reporter"].due
    BY <1>1, <1>2, <1>6
  <2>2. since' \in Nat \ {0}
    BY <2>1, StreamTyped DEF IInv
  <2>3. \A r \in Run : Handled(r)' = {}
    <3>1. since'..(subs'["reporter"].due - 1) = {}
      <4> DEFINE x == since'
      <4>1. x \in Nat /\ subs'["reporter"].due = x
        BY <2>1, <2>2
      <4> HIDE DEF x
      <4>2. x..(x - 1) = {}
        BY <4>1
      <4> QED BY <4>1, <4>2 DEF x
    <3> QED BY <3>1 DEF Handled
  <2>4. LastHandledIsPosted'
    BY <2>3 DEF LastHandledIsPosted
  <2>5. CacheIsPosted' /\ (up'["reporter"] => since' <= subs'["reporter"].due)
    BY <1>1, <2>1, <2>2 DEF CacheIsPosted, IInv, ReporterInv
  <2> QED BY <1>1, <1>4, <1>5, <2>2, <2>4, <2>5 DEF IInv, ReporterInv
<1>7. CASE d = "triggerer"
  <2>1. ReporterInv'
    BY <1>1, <1>2, <1>3, <1>7, ReporterUndisturbed DEF IInv
  <2> QED BY <1>4, <1>5, <2>1 DEF IInv
<1> QED BY <1>6, <1>7

\* A daemon stops, of its own or because its subscription was closed.
LEMMA StopsKeeps ==
  ASSUME IInv, NEW d \in {"reporter", "triggerer"}, Stops(d)
  PROVE  IInv'
<1>1. /\ Unsubscribe(d) /\ UNCHANGED <<feed, rows, listener, notified, enabled, lapsed>>
      /\ up' = [up EXCEPT ![d] = FALSE]
      /\ todo' \in {todo, Idle}
      /\ UNCHANGED <<runs, since, posted, reported>>
      /\ d \in Sub /\ "reporter" \in Sub /\ "triggerer" \in Sub
  BY WatchersAssumption DEF Stops, StreamRest, tables, reporterVars
<1>2. /\ StreamInv(Change)' /\ Grows /\ \A t \in Sub : Ordered(subs[t])'
      /\ \A t \in Sub : t # d => subs'[t].due = subs[t].due
  BY <1>1, SubscriberOrdered DEF IInv, FeedInv, OrderedStream
<1>3. /\ up' \in [Daemon -> BOOLEAN] /\ ~up'[d]
      /\ \A t \in Sub : t # d => up'[t] = up[t]
  BY <1>1 DEF Daemon, IInv, FeedInv
<1>4. TriggererPasses /\ ~lapsed' /\ runs' \in [Run -> RunRow]
  BY <1>1, <1>2, <1>3 DEF IInv, FeedInv, TriggererPasses
<1>5. up'["reporter"] => up["reporter"] /\ subs'["reporter"].due = subs["reporter"].due
  BY <1>1, <1>2, <1>3
<1> QED BY <1>1, <1>2, <1>3, <1>4, <1>5, Undisturbed

-----------------------------------------------------------------------------
(* The reporter and the triggerer handle an event *)

\* The event that a daemon takes is the one it is due.
LEMMA TakenEvent ==
  ASSUME IInv, NEW d \in {"reporter", "triggerer"}, HasEvent(d), Taken(d), up' = up
  PROVE  /\ FeedInv' /\ Grows /\ TriggererPasses
         /\ feed' = feed /\ runs' = runs
         /\ subs'[d].due = subs[d].due + 1
         /\ \A t \in Sub : t # d => subs'[t].due = subs[t].due
         /\ subs[d].due \in Nat \ {0} /\ subs[d].due \in 1..Len(feed)
         /\ NextEvent(d) = feed[subs[d].due]
         /\ NextEvent(d) \in Change
<1>1. /\ Take(d) /\ UNCHANGED <<feed, rows, listener, notified, enabled, lapsed>>
      /\ runs' = runs /\ d \in Sub
  BY WatchersAssumption DEF Taken, StreamRest, Outside, tables
<1>2. /\ StreamInv(Change)' /\ Grows /\ \A t \in Sub : Ordered(subs[t])'
      /\ \A t \in Sub : t # d => subs'[t].due = subs[t].due
      /\ subs'[d].due = subs[d].due + 1
      /\ Head(subs[d].buffer) = subs[d].due
      /\ subs[d].due \in 1..(Len(feed) - Len(notified))
  BY <1>1, SubscriberOrdered DEF IInv, FeedInv, OrderedStream
<1>3. /\ Len(feed) \in Nat /\ Len(notified) \in Nat /\ feed \in Seq(Change)
  BY StreamTyped DEF IInv
<1>4. subs[d].due \in Nat \ {0} /\ subs[d].due \in 1..Len(feed)
  BY <1>2, <1>3
<1>5. NextEvent(d) = feed[subs[d].due] /\ feed[subs[d].due] \in Change
  BY <1>2, <1>3, <1>4 DEF NextEvent
<1>6. FeedInv'
  BY <1>1, <1>2 DEF IInv, FeedInv
<1>7. TriggererPasses
  <2>1. "triggerer" \in Sub
    BY WatchersAssumption
  <2> QED BY <1>2, <2>1 DEF TriggererPasses
<1> QED BY <1>1, <1>2, <1>4, <1>5, <1>6, <1>7

\* What is set at the provider is a status of the provider's.
LEMMA VCSStatusTyped ==
  ASSUME NEW status, VCSStatus(status) # "unknown"
  PROVE  VCSStatus(status) \in Posted /\ VCSStatus(status) # Absent
<1>1. VCSStatus(status) \in Posted
  BY DEF VCSStatus, Posted
<1> QED BY <1>1 DEF Posted, Absent

\* A status that is added is the last one.
LEMMA LastOfAppend ==
  ASSUME NEW S, NEW sq \in Seq(S), NEW e \in S
  PROVE  Append(sq, e) \in Seq(S) /\ Append(sq, e) # <<>> /\ Last(Append(sq, e)) = e
<1>1. /\ Append(sq, e) \in Seq(S) /\ Len(Append(sq, e)) = Len(sq) + 1
      /\ Append(sq, e)[Len(sq) + 1] = e /\ Len(sq) \in Nat
  BY AppendProperties
<1> QED BY <1>1 DEF Last

LEMMA HandleRunKeeps == ASSUME IInv, handleRun PROVE IInv'
<1> DEFINE event == NextEvent("reporter")
           d == subs["reporter"].due
           status == VCSStatus(event.status)
           post == ~Ignored(event) /\ ToPost(event)
<1>1. /\ HasEvent("reporter") /\ Taken("reporter")
      /\ UNCHANGED <<up, since, todo>> /\ up["reporter"]
      /\ post => /\ posted' = [posted EXCEPT ![event.run] = Append(@, status)]
                 /\ \E kept \in {Absent, status} :
                      reported' = [reported EXCEPT ![event.run] = kept]
      /\ ~post => UNCHANGED <<posted, reported>>
      /\ ~Ignored(event) => status # "unknown"
  BY DEF handleRun, HasEvent
<1>2. /\ FeedInv' /\ Grows /\ TriggererPasses /\ feed' = feed /\ runs' = runs
      /\ subs'["reporter"].due = d + 1 /\ d \in Nat \ {0}
      /\ event = feed[d] /\ event \in Change /\ event.run \in Run
  <2>1. event \in Change
    BY <1>1, TakenEvent
  <2>2. event.run \in Run
    BY <2>1 DEF Change
  <2> QED BY <1>1, <2>1, <2>2, TakenEvent
<1>3. /\ posted \in [Run -> Seq(Posted)] /\ reported \in [Run -> Posted \union {Absent}]
      /\ since \in Nat \ {0} /\ since <= d
      /\ CacheIsPosted /\ LastHandledIsPosted
  BY <1>1 DEF IInv, ReporterInv
<1>4. /\ ~Ignored(event) => status \in Posted /\ status # Absent
      /\ post => status \in Posted
  BY <1>1, VCSStatusTyped
<1>5. TriggererInv'
  BY <1>1, <1>2, TriggererUndisturbed DEF IInv, FeedInv
<1> HIDE DEF event, status, d
<1>6. /\ posted' \in [Run -> Seq(Posted)] /\ reported' \in [Run -> Posted \union {Absent}]
      /\ post => /\ posted'[event.run] # <<>> /\ Last(posted'[event.run]) = status
                 /\ reported'[event.run] \in {Absent, status}
                 /\ \A r \in Run : r # event.run =>
                      posted'[r] = posted[r] /\ reported'[r] = reported[r]
  <2>1. CASE post
    <3>1. posted[event.run] \in Seq(Posted)
      BY <1>2, <1>3
    <3>2. /\ Append(posted[event.run], status) \in Seq(Posted)
          /\ Append(posted[event.run], status) # <<>>
          /\ Last(Append(posted[event.run], status)) = status
      BY <1>4, <2>1, <3>1, LastOfAppend
    <3> DEFINE c == Append(posted[event.run], status)
    <3>3. posted' = [posted EXCEPT ![event.run] = c]
      BY <1>1, <2>1
    <3> HIDE DEF c, post
    <3>4. /\ posted' \in [Run -> Seq(Posted)] /\ posted'[event.run] = c
          /\ \A r \in Run : r # event.run => posted'[r] = posted[r]
      BY <1>2, <1>3, <3>2, <3>3 DEF c
    <3>5. PICK kept \in {Absent, status} : reported' = [reported EXCEPT ![event.run] = kept]
      BY <1>1, <2>1
    <3>6. /\ reported' \in [Run -> Posted \union {Absent}] /\ reported'[event.run] = kept
          /\ \A r \in Run : r # event.run => reported'[r] = reported[r]
      BY <1>2, <1>3, <1>4, <2>1, <3>5
    <3> QED BY <3>2, <3>4, <3>5, <3>6 DEF c
  <2>2. CASE ~post
    BY <1>1, <1>3, <2>2
  <2> QED BY <2>1, <2>2
<1>7. CacheIsPosted'
  BY <1>1, <1>3, <1>6 DEF CacheIsPosted
<1>8. LastHandledIsPosted'
  <2> SUFFICES ASSUME NEW r \in Run, Handled(r)' # {}
               PROVE  \E id \in Handled(r)' : IsPosted(r, id)'
    BY DEF LastHandledIsPosted
  <2>1. Handled(r)' = Handled(r) \union {id \in {d} : feed[id].run = r /\ ~Ignored(feed[id])}
    <3>1. since'..(subs'["reporter"].due - 1) = since..d
      BY <1>1, <1>2
    <3>2. since..d = (since..(d - 1)) \union {d}
      BY <1>2, <1>3
    <3>3. Handled(r)' = {id \in since..d : feed[id].run = r /\ ~Ignored(feed[id])}
      BY <1>2, <3>1 DEF Handled, Ignored
    <3>4. Handled(r) = {id \in since..(d - 1) : feed[id].run = r /\ ~Ignored(feed[id])}
      BY DEF Handled, d
    <3> QED BY <3>2, <3>3, <3>4
  <2>2. CASE event.run = r /\ ~Ignored(event)
    <3>1. d \in Handled(r)'
      BY <1>2, <2>1, <2>2
    <3>2. \A other \in Handled(r)' : d >= other
      BY <1>2, <1>3, <2>1 DEF Handled, d
    <3>3. posted'[r] # <<>> /\ Last(posted'[r]) = status
      <4>1. CASE post
        BY <1>6, <2>2, <4>1
      <4>2. CASE ~post
        <5>1. reported[r] = status /\ posted' = posted
          BY <1>1, <2>2, <4>2 DEF ToPost, status
        <5> QED BY <1>3, <1>4, <2>2, <5>1 DEF CacheIsPosted
      <4> QED BY <4>1, <4>2
    <3>4. status = VCSStatus(feed'[d].status)
      BY <1>2 DEF status
    <3> QED BY <3>1, <3>2, <3>3, <3>4 DEF IsPosted
  <2>3. CASE ~(event.run = r /\ ~Ignored(event))
    <3>1. Handled(r)' = Handled(r)
      BY <1>2, <2>1, <2>3
    <3>2. posted'[r] = posted[r]
      BY <1>1, <1>6, <2>3
    <3>3. PICK id \in Handled(r) : IsPosted(r, id)
      BY <1>1, <1>3, <3>1 DEF LastHandledIsPosted
    <3>4. IsPosted(r, id)'
      BY <1>2, <3>1, <3>2, <3>3 DEF IsPosted
    <3> QED BY <3>1, <3>3, <3>4
  <2> QED BY <2>2, <2>3
<1>9. up'["reporter"] => since' <= subs'["reporter"].due
  BY <1>1, <1>2, <1>3
<1> QED BY <1>1, <1>2, <1>3, <1>5, <1>6, <1>7, <1>8, <1>9 DEF IInv, ReporterInv

\* The triggerer takes the event of an application, which it has not met
\* before and therefore has not triggered anything for.
LEMMA ProcessKeeps == ASSUME IInv, process PROVE IInv'
<1> DEFINE event == NextEvent("triggerer")
           d == subs["triggerer"].due
           served == {w \in Workspace : <<event.workspace, w>> \in triggers}
<1>1. /\ HasEvent("triggerer") /\ Taken("triggerer") /\ up["triggerer"]
      /\ todo.workspaces = {}
      /\ todo' = IF TriggersRuns(event) THEN [run |-> event.run, workspaces |-> served] ELSE Idle
      /\ UNCHANGED <<up, since, posted, reported>>
  BY DEF process, HasEvent, Free, reporterVars
<1>2. /\ FeedInv' /\ Grows /\ TriggererPasses /\ feed' = feed /\ runs' = runs
      /\ subs'["triggerer"].due = d + 1 /\ d \in Nat \ {0} /\ d \in 1..Len(feed)
      /\ event = feed[d] /\ event.run \in Run
      /\ subs'["reporter"].due = subs["reporter"].due
  <2>1. event \in Change
    BY <1>1, TakenEvent
  <2>2. event.run \in Run
    BY <2>1 DEF Change
  <2>3. "reporter" \in Sub /\ "reporter" # "triggerer"
    BY WatchersAssumption
  <2> QED BY <1>1, <2>1, <2>2, <2>3, TakenEvent
<1>3. ReporterInv'
  BY <1>1, <1>2, ReporterUndisturbed DEF IInv
<1>4. served \in SUBSET Workspace
  OBVIOUS
<1>5. CASE ~TriggersRuns(event)
  <2>1. TriggererInv'
    BY <1>1, <1>2, <1>5, TriggererUndisturbed DEF IInv, FeedInv
  <2> QED BY <1>2, <1>3, <2>1 DEF IInv
<1>6. CASE TriggersRuns(event)
  <2>1. todo' = [run |-> event.run, workspaces |-> served] /\ event.status = "applied"
    BY <1>1, <1>6 DEF TriggersRuns
  <2> HIDE DEF event, d, served
  <2>2. /\ todo' \in [run : Run \union {0}, workspaces : SUBSET Workspace]
        /\ todo'.run = event.run /\ todo'.workspaces = served
    BY <1>2, <1>4, <2>1
  <2>3. Frontier = d /\ Frontier' = d + 1
    BY <1>1, <1>2 DEF Frontier, d
  <2>4. ASSUME NEW r \in Run PROVE TriggersOfRun(r)'
    <3>1. TriggersOfRun(r)
      BY DEF IInv, TriggererInv
    <3>2. AppliedBefore(r) => AppliedBefore(r)'
      BY <1>2, <2>3 DEF AppliedBefore
    <3>3. Touched(r)' <=> Touched(r)
      BY <1>2 DEF Touched
    <3>4. (\E q \in Run : runs[q].by = r) => AppliedBefore(r)'
      BY <3>1, <3>2 DEF TriggersOfRun
    <3>5. ASSUME r = event.run
          PROVE  /\ AppliedBefore(r)'
                 /\ AppliedBefore(r) => Touched(r)
      <4>1. feed[d].run = r /\ feed[d].status = "applied"
        BY <1>2, <2>1, <3>5
      <4>2. AppliedBefore(r)'
        BY <1>2, <2>3, <4>1 DEF AppliedBefore
      <4>3. ASSUME AppliedBefore(r) PROVE Touched(r)
        <5>1. PICK id \in 1..(d - 1) : feed[id].run = r /\ feed[id].status = "applied"
          BY <2>3, <4>3 DEF AppliedBefore
        <5>2. DOMAIN feed = 1..Len(feed) /\ Len(feed) \in Nat
          BY StreamTyped DEF IInv
        <5>3. id \in DOMAIN feed /\ d \in DOMAIN feed /\ id < d
          BY <1>2, <5>1, <5>2
        <5> QED BY <4>1, <5>1, <5>3 DEF Touched
      <4> QED BY <4>2, <4>3
    <3>6. (todo'.run = r /\ todo'.workspaces # {}) \/ (\E q \in Run : runs'[q].by = r) =>
            AppliedBefore(r)'
      BY <1>2, <2>2, <3>4, <3>5
    <3>7. ASSUME ~Touched(r)', todo'.run = r, NEW q \in Run
          PROVE  runs'[q].by # r
      BY <1>2, <2>2, <3>1, <3>3, <3>5, <3>7 DEF TriggersOfRun
    <3>8. ASSUME ~Touched(r)', NEW p \in Run, NEW q \in Run,
                 runs'[p].by = r, runs'[q].by = r, runs'[p].workspace = runs'[q].workspace
          PROVE  p = q
      BY <1>2, <3>1, <3>3, <3>8 DEF TriggersOfRun
    <3> QED BY <3>6, <3>7, <3>8 DEF TriggersOfRun
  <2>5. TriggererInv'
    BY <2>2, <2>4 DEF TriggererInv
  <2> QED BY <1>2, <1>3, <2>5 DEF IInv
<1> QED BY <1>5, <1>6

\* The triggerer creates a run in the next workspace that is connected.
LEMMA TriggerRunKeeps == ASSUME IInv, NEW w \in Workspace, TriggerRun(w) PROVE IInv'
<1>1. /\ w \in todo.workspaces
      /\ todo' = [todo EXCEPT !.workspaces = @ \ {w}]
      /\ UNCHANGED <<up, since, posted, reported>>
  BY DEF TriggerRun, reporterVars
<1>2. PICK r \in Run : Insert(r, w, "trigger", todo.run)
  BY DEF TriggerRun
<1> DEFINE row == NewRun("pending", w, "trigger", todo.run)
           table == [runs EXCEPT ![r] = row]
<1>3. /\ todo \in [run : Run \union {0}, workspaces : SUBSET Workspace]
      /\ runs \in [Run -> RunRow]
  BY DEF IInv, TriggererInv, FeedInv
<1>4. row \in RunRow /\ row.by = todo.run /\ row.workspace = w
  BY <1>3 DEF NewRun, NoRun, RunRow, Status, Source
<1>5. /\ table \in [Run -> RunRow] /\ table[r] = row
      /\ \A q \in Run : q # r => table[q] = runs[q]
  <2> HIDE DEF row
  <2> QED BY <1>3, <1>4
<1>6. Publish(table, <<RunEvent("created", r, table)>>)
  BY <1>2 DEF Insert
<1> HIDE DEF table, row
<1>7. <<RunEvent("created", r, table)>> \in Seq(Change)
  BY <1>5, RunEventTyped
<1>8. /\ runs' = table /\ StreamInv(Change)' /\ Grows /\ \A s \in Sub : Ordered(subs[s])'
      /\ UNCHANGED <<subs, lapsed>>
  BY <1>6, <1>7, CommitOrdered DEF Publish, IInv, FeedInv, OrderedStream
<1>9. FeedInv' /\ TriggererPasses
  BY <1>1, <1>5, <1>8 DEF IInv, FeedInv, TriggererPasses
<1>10. ReporterInv'
  BY <1>1, <1>8, ReporterUndisturbed DEF IInv
<1>11. \A x : (AppliedBefore(x) => AppliedBefore(x)') /\ (Touched(x) => Touched(x)')
  <2>1. feed' \in Seq(Change) /\ Len(feed') \in Nat /\ Len(notified') \in Nat
    BY <1>8 DEF StreamInv, StreamTypeOK
  <2>2. Frontier \in Int /\ Frontier' \in Int /\ Frontier <= Frontier'
    BY <1>8, <1>9, <2>1, FrontierGrows DEF IInv
  <2> QED BY <1>8, <2>1, <2>2, ApplicationsStay DEF IInv
<1>12. /\ todo' \in [run : Run \union {0}, workspaces : SUBSET Workspace]
       /\ todo'.run = todo.run /\ todo'.workspaces = todo.workspaces \ {w}
  BY <1>1, <1>3
<1>13. ASSUME NEW x \in Run PROVE TriggersOfRun(x)'
  <2>1. TriggersOfRun(x)
    BY DEF IInv, TriggererInv
  <2>2. \A q \in Run : \/ q # r /\ runs'[q] = runs[q]
                       \/ q = r /\ runs'[q].by = todo.run /\ runs'[q].workspace = w
    BY <1>4, <1>5, <1>8
  <2>3. (todo'.run = x /\ todo'.workspaces # {}) \/ (\E q \in Run : runs'[q].by = x) =>
          AppliedBefore(x)'
    BY <1>1, <1>11, <1>12, <2>1, <2>2 DEF TriggersOfRun
  <2>4. ASSUME ~Touched(x)', todo'.run = x, NEW q \in Run, runs'[q].by = x
        PROVE  runs'[q].workspace \notin todo'.workspaces
    BY <1>11, <1>12, <2>1, <2>2, <2>4 DEF TriggersOfRun
  <2>5. ASSUME ~Touched(x)', NEW p \in Run, NEW q \in Run,
               runs'[p].by = x, runs'[q].by = x, runs'[p].workspace = runs'[q].workspace
        PROVE  p = q
    BY <1>1, <1>11, <2>1, <2>2, <2>5 DEF TriggersOfRun
  <2> QED BY <2>3, <2>4, <2>5 DEF TriggersOfRun
<1> QED BY <1>9, <1>10, <1>12, <1>13 DEF IInv, TriggererInv

-----------------------------------------------------------------------------
(* The cache of the notifier *)

LEMMA ConfigsTyped ==
  /\ IsFiniteSet(Config)
  /\ \A row \in Row : /\ row # NoConfig /\ row # GoneConfig
                      /\ Cacheable(row) => row.url \in URL
                      /\ [count |-> 1, destination |-> row.destination] \in Client
  /\ ~Cacheable(NoConfig) /\ ~Cacheable(GoneConfig)
  /\ NoClient \in Client /\ NoClient.count = 0
<1>1. ~Cacheable(NoConfig) /\ ~Cacheable(GoneConfig)
  BY DEF Cacheable, NoConfig, GoneConfig
<1>2. NoClient \in Client /\ NoClient.count = 0
  BY DEF NoClient, Client
<1>3. ASSUME NEW row \in Row
      PROVE  /\ row # NoConfig /\ row # GoneConfig
             /\ Cacheable(row) => row.url \in URL
             /\ [count |-> 1, destination |-> row.destination] \in Client
  <2>1. /\ row.destination \notin {Absent, Gone}
        /\ row.destination # "email" => row.url \in URL
    BY WatchersAssumption
  <2>2. NoConfig.destination = Absent /\ GoneConfig.destination = Gone
    BY DEF NoConfig, GoneConfig
  <2> QED BY <2>1, <2>2 DEF Cacheable, Client
<1> QED BY <1>1, <1>2, <1>3, WatchersAssumption

\* A client has as many users as it had, one more or one less.
LEMMA UsersCounted ==
  ASSUME NEW old \in [Config -> Row \union {NoConfig}],
         NEW new \in [Config -> Row \union {NoConfig}],
         NEW c \in Config, \A x \in Config : x # c => new[x] = old[x],
         NEW u \in URL
  PROVE  /\ Cardinality(UsersOf(old, u)) \in Nat
         /\ c \in UsersOf(old, u) <=> c \in UsersOf(new, u) =>
              Cardinality(UsersOf(new, u)) = Cardinality(UsersOf(old, u))
         /\ c \notin UsersOf(old, u) /\ c \in UsersOf(new, u) =>
              Cardinality(UsersOf(new, u)) = Cardinality(UsersOf(old, u)) + 1
         /\ c \in UsersOf(old, u) /\ c \notin UsersOf(new, u) =>
              Cardinality(UsersOf(new, u)) = Cardinality(UsersOf(old, u)) - 1
<1>1. IsFiniteSet(UsersOf(old, u)) /\ Cardinality(UsersOf(old, u)) \in Nat
  BY ConfigsTyped, FS_Subset, FS_CardinalityType DEF UsersOf
<1>2. \A x \in Config : x # c => (x \in UsersOf(new, u) <=> x \in UsersOf(old, u))
  BY DEF UsersOf
<1>3. UsersOf(new, u) \subseteq Config /\ UsersOf(old, u) \subseteq Config
  BY DEF UsersOf
<1>4. (c \in UsersOf(old, u) <=> c \in UsersOf(new, u)) => UsersOf(new, u) = UsersOf(old, u)
  BY <1>2, <1>3
<1>5. ASSUME c \notin UsersOf(old, u), c \in UsersOf(new, u)
      PROVE  Cardinality(UsersOf(new, u)) = Cardinality(UsersOf(old, u)) + 1
  <2>1. UsersOf(new, u) = UsersOf(old, u) \union {c}
    BY <1>2, <1>3, <1>5
  <2> QED BY <1>1, <1>5, <2>1, FS_AddElement
<1>6. ASSUME c \in UsersOf(old, u), c \notin UsersOf(new, u)
      PROVE  Cardinality(UsersOf(new, u)) = Cardinality(UsersOf(old, u)) - 1
  <2>1. UsersOf(new, u) = UsersOf(old, u) \ {c}
    BY <1>2, <1>3, <1>6
  <2> QED BY <1>1, <1>6, <2>1, FS_RemoveElement
<1> QED BY <1>1, <1>4, <1>5, <1>6

\* cache.add: the config is there afterwards, unless it is not for the cache
\* or its client cannot be made; one that was there stays as it is.
LEMMA AddConfigOK ==
  ASSUME NEW cache, CacheOK(cache), NEW c \in Config, NEW row \in Row
  PROVE  LET next == addConfig(cache, c, row) IN
         /\ CacheOK(next)
         /\ \A x \in Config : x # c => next.configs[x] = cache.configs[x]
         /\ cache.spoilt \subseteq next.spoilt
         /\ ~Cacheable(row) \/ cache.configs[c] # NoConfig => next = cache
         /\ Cacheable(row) /\ cache.configs[c] = NoConfig =>
              \/ next.configs[c] = row
              \/ next.configs[c] = NoConfig /\ c \in next.spoilt
<1> DEFINE next == addConfig(cache, c, row)
           added == [cache.configs EXCEPT ![c] = row]
           client == cache.clients[row.url]
<1> SUFFICES
      /\ CacheOK(next)
      /\ \A x \in Config : x # c => next.configs[x] = cache.configs[x]
      /\ cache.spoilt \subseteq next.spoilt
      /\ ~Cacheable(row) \/ cache.configs[c] # NoConfig => next = cache
      /\ Cacheable(row) /\ cache.configs[c] = NoConfig =>
           \/ next.configs[c] = row
           \/ next.configs[c] = NoConfig /\ c \in next.spoilt
  OBVIOUS
<1>1. CASE ~Cacheable(row) \/ cache.configs[c] # NoConfig
  <2>1. next = cache
    BY <1>1 DEF addConfig
  <2> HIDE DEF next
  <2> QED BY <1>1, <2>1
<1>2. CASE Cacheable(row) /\ cache.configs[c] = NoConfig
  <2>1. /\ cache \in CacheRecord /\ cache.configs \in [Config -> Row \union {NoConfig}]
        /\ cache.clients \in [URL -> Client] /\ cache.spoilt \in SUBSET Config
        /\ row.url \in URL /\ row # NoConfig
        /\ \A u \in URL : cache.clients[u].count = Cardinality(UsersOf(cache.configs, u))
        /\ \A x \in Config : cache.configs[x] # NoConfig => Cacheable(cache.configs[x])
    BY <1>2, ConfigsTyped DEF CacheOK, CacheRecord
  <2>2. /\ added \in [Config -> Row \union {NoConfig}] /\ added[c] = row
        /\ \A x \in Config : x # c => added[x] = cache.configs[x]
    BY <2>1
  <2>3. /\ client \in Client /\ client.count \in Nat
        /\ [client EXCEPT !.count = client.count + 1] \in Client
        /\ [client EXCEPT !.count = client.count + 1].count = client.count + 1
    <3>1. client \in Client
      BY <2>1
    <3> HIDE DEF client
    <3> QED BY <3>1 DEF Client
  <2> HIDE DEF added
  <2>4. ASSUME NEW u \in URL
        PROVE  /\ u # row.url => Cardinality(UsersOf(added, u)) = Cardinality(UsersOf(cache.configs, u))
               /\ u = row.url => Cardinality(UsersOf(added, u)) = Cardinality(UsersOf(cache.configs, u)) + 1
    <3>1. c \notin UsersOf(cache.configs, u) /\ (c \in UsersOf(added, u) <=> u = row.url)
      BY <1>2, <2>2, ConfigsTyped DEF UsersOf
    <3> QED BY <2>1, <2>2, <3>1, UsersCounted
  <2>5. \A x \in Config : added[x] # NoConfig => Cacheable(added[x])
    BY <1>2, <2>1, <2>2
  <2>6. CASE client # NoClient
    <3> DEFINE more == [client EXCEPT !.count = client.count + 1]
               clients2 == [cache.clients EXCEPT ![row.url] = more]
    <3>1. next = [cache EXCEPT !.configs = added, !.clients = clients2]
      <4>1. next = [cache EXCEPT !.configs = added, !.clients[row.url].count = @ + 1]
        BY <1>2, <2>6 DEF addConfig, added
      <4> HIDE DEF next
      <4> QED BY <4>1, <2>1 DEF CacheRecord
    <3>2. /\ clients2 \in [URL -> Client] /\ clients2[row.url] = more
          /\ \A u \in URL : u # row.url => clients2[u] = cache.clients[u]
      <4> HIDE DEF more, client
      <4> QED BY <2>1, <2>3 DEF more
    <3> HIDE DEF next, clients2
    <3>3. /\ next \in CacheRecord /\ next.configs = added /\ next.clients = clients2
          /\ next.spoilt = cache.spoilt
      BY <2>1, <2>2, <3>1, <3>2 DEF CacheRecord
    <3>4. \A u \in URL : next.clients[u].count = Cardinality(UsersOf(next.configs, u))
      BY <2>1, <2>3, <2>4, <3>2, <3>3
    <3> QED BY <1>2, <2>2, <2>5, <3>3, <3>4 DEF CacheOK
  <2>7. CASE client = NoClient /\ newClientFails(row)
    <3>1. next = [cache EXCEPT !.spoilt = cache.spoilt \union {c}]
      BY <1>2, <2>7 DEF addConfig
    <3> HIDE DEF next
    <3>2. /\ next \in CacheRecord /\ next.configs = cache.configs /\ next.clients = cache.clients
          /\ next.spoilt = cache.spoilt \union {c}
      BY <2>1, <3>1 DEF CacheRecord
    <3> QED BY <1>2, <2>1, <3>2 DEF CacheOK
  <2>8. CASE client = NoClient /\ ~newClientFails(row)
    <3> DEFINE first == [count |-> 1, destination |-> row.destination]
               clients2 == [cache.clients EXCEPT ![row.url] = first]
    <3>1. next = [cache EXCEPT !.configs = added, !.clients = clients2]
      <4>1. next = [cache EXCEPT !.configs = added, !.clients[row.url] = first]
        BY <1>2, <2>8 DEF addConfig, added
      <4> HIDE DEF next, first
      <4> QED BY <4>1, <2>1 DEF CacheRecord
    <3>2. first \in Client /\ first.count = 1
      BY ConfigsTyped
    <3>3. /\ clients2 \in [URL -> Client] /\ clients2[row.url] = first
          /\ \A u \in URL : u # row.url => clients2[u] = cache.clients[u]
      <4> HIDE DEF first
      <4> QED BY <2>1, <3>2
    <3> HIDE DEF next, clients2, first
    <3>4. /\ next \in CacheRecord /\ next.configs = added /\ next.clients = clients2
          /\ next.spoilt = cache.spoilt
      BY <2>1, <2>2, <3>1, <3>3 DEF CacheRecord
    <3>5. Cardinality(UsersOf(cache.configs, row.url)) = 0
      BY <2>1, <2>8, ConfigsTyped
    <3>6. \A u \in URL : next.clients[u].count = Cardinality(UsersOf(next.configs, u))
      BY <2>1, <2>4, <3>2, <3>3, <3>4, <3>5
    <3> QED BY <1>2, <2>2, <2>5, <3>4, <3>6 DEF CacheOK
  <2> QED BY <2>6, <2>7, <2>8
<1> QED BY <1>1, <1>2

\* cache.remove: the config is gone, and so is its client if it was the last.
LEMMA RemoveConfigOK ==
  ASSUME NEW cache, CacheOK(cache), NEW c \in Config
  PROVE  LET next == removeConfig(cache, c) IN
         /\ CacheOK(next)
         /\ next.configs[c] = NoConfig
         /\ \A x \in Config : x # c => next.configs[x] = cache.configs[x]
         /\ next.spoilt = cache.spoilt
<1> DEFINE next == removeConfig(cache, c)
           row == cache.configs[c]
           url == row.url
           client == cache.clients[url]
           left == client.count - 1
           less == IF left = 0 THEN NoClient ELSE [client EXCEPT !.count = left]
           removed == [cache.configs EXCEPT ![c] = NoConfig]
           clients2 == [cache.clients EXCEPT ![url] = less]
<1> SUFFICES
      /\ CacheOK(next)
      /\ next.configs[c] = NoConfig
      /\ \A x \in Config : x # c => next.configs[x] = cache.configs[x]
      /\ next.spoilt = cache.spoilt
  OBVIOUS
<1>1. CASE row = NoConfig
  <2>1. next = cache
    BY <1>1 DEF removeConfig
  <2> HIDE DEF next
  <2> QED BY <1>1, <2>1
<1>2. CASE row # NoConfig
  <2>1. /\ cache \in CacheRecord /\ cache.configs \in [Config -> Row \union {NoConfig}]
        /\ cache.clients \in [URL -> Client] /\ cache.spoilt \in SUBSET Config
        /\ row \in Row /\ Cacheable(row) /\ url \in URL
        /\ \A u \in URL : cache.clients[u].count = Cardinality(UsersOf(cache.configs, u))
        /\ \A x \in Config : cache.configs[x] # NoConfig => Cacheable(cache.configs[x])
    BY <1>2, ConfigsTyped DEF CacheOK, CacheRecord
  <2>2. /\ removed \in [Config -> Row \union {NoConfig}] /\ removed[c] = NoConfig
        /\ \A x \in Config : x # c => removed[x] = cache.configs[x]
    BY <2>1
  <2>3. next = [cache EXCEPT !.configs = removed, !.clients = clients2]
    <3>1. next = [cache EXCEPT !.configs[c] = NoConfig,
                     !.clients[url] = IF left = 0 THEN NoClient ELSE [@ EXCEPT !.count = left]]
      BY <1>2 DEF removeConfig
    <3> HIDE DEF next, row
    <3> QED BY <3>1, <2>1 DEF CacheRecord
  <2> HIDE DEF removed
  <2>4. ASSUME NEW u \in URL
        PROVE  /\ Cardinality(UsersOf(cache.configs, u)) \in Nat
               /\ u # url => Cardinality(UsersOf(removed, u)) = Cardinality(UsersOf(cache.configs, u))
               /\ u = url => Cardinality(UsersOf(removed, u)) = Cardinality(UsersOf(cache.configs, u)) - 1
    <3>1. c \notin UsersOf(removed, u) /\ (c \in UsersOf(cache.configs, u) <=> u = url)
      BY <1>2, <2>1, <2>2, ConfigsTyped DEF UsersOf
    <3> QED BY <2>1, <2>2, <3>1, UsersCounted
  <2>5. client.count \in Nat \ {0} /\ client.count = Cardinality(UsersOf(cache.configs, url))
    <3>1. c \in UsersOf(cache.configs, url)
      BY <2>1 DEF UsersOf
    <3>2. IsFiniteSet(UsersOf(cache.configs, url))
      BY ConfigsTyped, FS_Subset DEF UsersOf
    <3>3. Cardinality(UsersOf(cache.configs, url)) # 0
      BY <3>1, <3>2, FS_EmptySet
    <3>4. client.count = Cardinality(UsersOf(cache.configs, url))
      BY <2>1
    <3> HIDE DEF client, url
    <3> QED BY <2>1, <2>4, <3>3, <3>4 DEF url
  <2>6. less \in Client /\ less.count = client.count - 1
    <3>1. client \in Client
      BY <2>1
    <3> HIDE DEF client
    <3>2. left \in Nat
      BY <2>5
    <3>3. CASE left = 0
      BY <2>5, <3>3, ConfigsTyped
    <3>4. CASE left # 0
      <4>1. less = [client EXCEPT !.count = left]
        BY <3>4
      <4> HIDE DEF less, left
      <4>2. less \in Client /\ less.count = left
        BY <3>1, <3>2, <4>1 DEF Client
      <4> QED BY <4>2 DEF left
    <3> QED BY <3>3, <3>4
  <2>7. /\ clients2 \in [URL -> Client] /\ clients2[url] = less
        /\ \A u \in URL : u # url => clients2[u] = cache.clients[u]
    <3> HIDE DEF less, url
    <3> QED BY <2>1, <2>6
  <2> HIDE DEF next, clients2
  <2>8. /\ next \in CacheRecord /\ next.configs = removed /\ next.clients = clients2
        /\ next.spoilt = cache.spoilt
    BY <2>1, <2>2, <2>3, <2>7 DEF CacheRecord
  <2>9. \A u \in URL : next.clients[u].count = Cardinality(UsersOf(next.configs, u))
    <3> HIDE DEF less, url, client
    <3> QED BY <2>1, <2>4, <2>5, <2>6, <2>7, <2>8
  <2>10. \A x \in Config : removed[x] # NoConfig => Cacheable(removed[x])
    BY <2>1, <2>2
  <2> QED BY <2>2, <2>8, <2>9, <2>10 DEF CacheOK
<1> QED BY <1>1, <1>2

-----------------------------------------------------------------------------
(* The steps of the notifier *)

LEMMA ConfigStreamTyped ==
  ASSUME FeedInv, ConfigsInv
  PROVE  /\ cfgFeed \in Seq(ConfigEvent) /\ Len(cfgFeed) \in Nat
         /\ DOMAIN cfgFeed = 1..Len(cfgFeed)
         /\ \A id \in 1..Len(cfgFeed) : cfgFeed[id] \in ConfigEvent /\ EventAgrees(id)
         /\ cfgSubs["notifier"] \in [open : BOOLEAN, deaf : BOOLEAN, due : Nat, buffer : Seq(1..Len(cfgFeed))]
         /\ cfgNotified \in Seq(1..Len(cfgFeed)) /\ Len(cfgNotified) \in Nat
         /\ cfgSubs["notifier"].open =>
              /\ cfgSubs["notifier"].due + Len(cfgSubs["notifier"].buffer) + Len(cfgNotified)
                   = Len(cfgFeed) + 1
              /\ \A i \in 1..Len(cfgSubs["notifier"].buffer) :
                   cfgSubs["notifier"].buffer[i] = cfgSubs["notifier"].due + i - 1
              /\ cfgSubs["notifier"].due >= 1
         /\ "notifier" \in Daemon
<1>1. cfgFeed \in Seq(ConfigEvent) /\ CfgP!StreamTypeOK
  BY DEF ConfigsInv, CfgP!StreamInv
<1>2. /\ Len(cfgFeed) \in Nat /\ DOMAIN cfgFeed = 1..Len(cfgFeed)
      /\ \A id \in 1..Len(cfgFeed) : cfgFeed[id] \in ConfigEvent
  BY <1>1
<1>3. /\ cfgSubs["notifier"] \in [open : BOOLEAN, deaf : BOOLEAN, due : Nat, buffer : Seq(1..Len(cfgFeed))]
      /\ cfgNotified \in Seq(1..Len(cfgFeed)) /\ Len(cfgNotified) \in Nat
  BY <1>1 DEF CfgP!StreamTypeOK
<1>4. cfgSubs["notifier"].open => CfgP!Consecutive(cfgSubs["notifier"])
  BY DEF ConfigsInv, CfgP!StreamInv, CfgP!DownIsDisabled, FeedInv
<1>5. \A id \in DOMAIN cfgFeed : EventAgrees(id)
  BY DEF ConfigsInv
<1>6. cfgSubs["notifier"].open => cfgSubs["notifier"].due >= 1
  <2> SUFFICES ASSUME cfgSubs["notifier"].open PROVE cfgSubs["notifier"].due >= 1
    OBVIOUS
  <2> DEFINE d == cfgSubs["notifier"].due
             b == cfgSubs["notifier"].buffer
             n == Len(cfgNotified)
             l == Len(cfgFeed)
  <2>1. /\ d \in Nat /\ b \in Seq(1..l) /\ n \in Nat /\ l \in Nat
        /\ d + Len(b) + n = l + 1 /\ \A i \in 1..Len(b) : b[i] = d + i - 1
    BY <1>2, <1>3, <1>4 DEF CfgP!Consecutive
  <2>2. n <= l
    BY DEF ConfigsInv, CfgP!StreamInv, CfgP!InFlight
  <2> HIDE DEF d, b, n, l
  <2>3. CASE Len(b) = 0
    BY <2>1, <2>2, <2>3 DEF d
  <2>4. CASE Len(b) # 0
    <3>1. 1 \in 1..Len(b) /\ b[1] \in 1..l
      BY <2>1, <2>4, LenProperties
    <3> QED BY <2>1, <3>1 DEF d
  <2> QED BY <2>3, <2>4
<1> QED BY <1>1, <1>2, <1>3, <1>4, <1>5, <1>6, WatchersAssumption DEF CfgP!Consecutive, Daemon

\* A step of the stream, or the end of the notifier: what it has of the
\* configs and has yet to handle stays, or is of no use any more.
LEMMA NotifierStays ==
  ASSUME NotifierInv, CfgP!StreamInv(ConfigEvent)',
         UNCHANGED <<cfgFeed, configs, notifierVars>>,
         up'["notifier"] /\ cfgSubs'["notifier"].open =>
           /\ up["notifier"] /\ cfgSubs["notifier"].open
           /\ cfgSubs'["notifier"].due = cfgSubs["notifier"].due
  PROVE  NotifierInv'
<1>1. ConfigsInv'
  BY DEF NotifierInv, ConfigsInv, EventAgrees, IsLast
<1>2. CacheOK(TheCache)'
  BY DEF NotifierInv, notifierVars, CacheOK, TheCache, Cache, UsersOf
<1>3. ASSUME up'["notifier"], cfgSubs'["notifier"].open, NEW c \in Config
      PROVE  CurrentFor(c)'
  <2>1. CurrentFor(c)
    BY <1>3 DEF NotifierInv
  <2>2. Pending(c)' = Pending(c)
    BY <1>3 DEF Pending
  <2>3. Agrees(c)' <=> Agrees(c)
    BY DEF Agrees, Cached, notifierVars
  <2> QED BY <2>1, <2>2, <2>3 DEF CurrentFor, notifierVars
<1> QED BY <1>1, <1>2, <1>3 DEF NotifierInv

\* What leaves the configs, their stream and the notifier alone.
LEMMA NotifierApart ==
  ASSUME NotifierInv, UNCHANGED <<cfgVars, listener, enabled, lapsed, configs, notifierVars>>,
         up'["notifier"] = up["notifier"]
  PROVE  NotifierInv'
<1>1. CfgP!StreamInv(ConfigEvent)'
  BY DEF NotifierInv, ConfigsInv, cfgVars, CfgP!StreamInv, CfgP!StreamTypeOK, CfgP!InFlight,
         CfgP!DownIsDisabled, CfgP!Consecutive
<1> QED BY <1>1, NotifierStays DEF cfgVars

\* The listener forwards the next change of a config.
LEMMA ForwardConfig ==
  ASSUME NotifierInv, Cfg!ForwardNext, UNCHANGED <<configs, notifierVars, up>>
  PROVE  NotifierInv'
<1>1. CfgP!ForwardNext
  BY DEF Cfg!ForwardNext, CfgP!ForwardNext, Cfg!Forwarded, CfgP!Forwarded
<1>2. CfgP!StreamInv(ConfigEvent)'
  BY <1>1, BufferAssumption, CfgP!ForwardNextInv DEF NotifierInv, ConfigsInv
<1>3. /\ cfgSubs'["notifier"].open => cfgSubs["notifier"].open
      /\ cfgSubs'["notifier"].due = cfgSubs["notifier"].due
  <2>1. cfgSubs' = [s \in {"notifier"} |-> Cfg!Forwarded(cfgSubs[s], Head(cfgNotified))]
    BY DEF Cfg!ForwardNext
  <2>2. cfgSubs["notifier"] \in [open : BOOLEAN, deaf : BOOLEAN, due : Nat, buffer : Seq(1..Len(cfgFeed))]
    BY DEF NotifierInv, ConfigsInv, CfgP!StreamInv, CfgP!StreamTypeOK
  <2> DEFINE sub == cfgSubs["notifier"]
  <2>3. cfgSubs'["notifier"] = Cfg!Forwarded(sub, Head(cfgNotified))
    BY <2>1
  <2> HIDE DEF sub
  <2>4. sub \in [open : BOOLEAN, deaf : BOOLEAN, due : Nat, buffer : Seq(1..Len(cfgFeed))]
    BY <2>2 DEF sub
  <2>5. CASE ~sub.open
    BY <2>3, <2>5 DEF Cfg!Forwarded, sub
  <2>6. CASE sub.open /\ Fits(sub.buffer, <<Head(cfgNotified)>>)
    BY <2>3, <2>4, <2>6 DEF Cfg!Forwarded, sub
  <2>7. CASE sub.open /\ ~Fits(sub.buffer, <<Head(cfgNotified)>>)
    BY <2>3, <2>4, <2>7 DEF Cfg!Forwarded, sub
  <2> QED BY <2>4, <2>5, <2>6, <2>7
<1> QED BY <1>2, <1>3, NotifierStays DEF Cfg!ForwardNext

\* The listener loses its connection, or is started again.
LEMMA RestartsKeepNotifier ==
  ASSUME NotifierInv, Cfg!ConnectionLost \/ Cfg!Start, UNCHANGED <<configs, notifierVars, up>>
  PROVE  NotifierInv'
<1>1. CASE Cfg!ConnectionLost
  <2>1. CfgP!ConnectionLost
    BY <1>1 DEF Cfg!ConnectionLost, CfgP!ConnectionLost, Cfg!Disable, CfgP!Disable
  <2>2. CfgP!StreamInv(ConfigEvent)'
    BY <2>1, BufferAssumption, CfgP!ListenerEndsInv DEF NotifierInv, ConfigsInv
  <2>3. ~cfgSubs'["notifier"].open /\ cfgFeed' = cfgFeed
    <3>1. cfgSubs["notifier"] \in [open : BOOLEAN, deaf : BOOLEAN, due : Nat, buffer : Seq(1..Len(cfgFeed))]
      BY DEF NotifierInv, ConfigsInv, CfgP!StreamInv, CfgP!StreamTypeOK
    <3>2. cfgSubs'["notifier"] = [cfgSubs["notifier"] EXCEPT !.open = FALSE]
      BY <1>1 DEF Cfg!ConnectionLost, Cfg!Disable
    <3> QED BY <1>1, <3>1, <3>2 DEF Cfg!ConnectionLost
  <2> QED BY <2>2, <2>3, NotifierStays
<1>2. CASE Cfg!Start
  <2>1. CfgP!Start
    BY <1>2 DEF Cfg!Start, CfgP!Start, Cfg!Enable, CfgP!Enable
  <2>2. CfgP!StreamInv(ConfigEvent)'
    BY <2>1, BufferAssumption, CfgP!StartInv DEF NotifierInv, ConfigsInv
  <2> QED BY <1>2, <2>2, NotifierStays DEF Cfg!Start
<1> QED BY <1>1, <1>2

\* The notifier subscribes, or gives its subscriptions up.
LEMMA NotifierStarts ==
  ASSUME FeedInv, NotifierInv, StartNotifier PROVE NotifierInv'
<1>1. CfgP!Subscribe("notifier")
  BY DEF StartNotifier, Cfg!Subscribe, CfgP!Subscribe, Cfg!Subscribed, CfgP!Subscribed
<1>2. /\ ~up["notifier"] /\ up' = up
      /\ UNCHANGED <<cfgFeed, cfgRows, cfgNotified, listener, enabled, lapsed, configs, notifierVars>>
  BY DEF StartNotifier, StreamRest, Outside, tables, daemonVars
<1>3. CfgP!StreamInv(ConfigEvent)'
  BY <1>1, <1>2, BufferAssumption, CfgP!SubscribeInv DEF NotifierInv, ConfigsInv
<1> QED BY <1>2, <1>3, NotifierStays

LEMMA NotifierEnds ==
  ASSUME FeedInv, NotifierInv, Stops("notifier"), Cfg!Unsubscribe("notifier")
  PROVE  NotifierInv'
<1>1. CfgP!Unsubscribe("notifier")
  BY DEF Cfg!Unsubscribe, CfgP!Unsubscribe, Cfg!NoSub, CfgP!NoSub
<1>2. UNCHANGED <<cfgFeed, cfgRows, cfgNotified, listener, enabled, lapsed, configs, notifierVars>>
  BY DEF Stops, StreamRest, tables
<1>3. ~up'["notifier"]
  BY ConfigStreamTyped DEF Stops, FeedInv, NotifierInv
<1>4. CfgP!StreamInv(ConfigEvent)'
  BY <1>1, <1>2, BufferAssumption, CfgP!UnsubscribeInv DEF NotifierInv, ConfigsInv
<1> QED BY <1>2, <1>3, <1>4, NotifierStays

\* The cache begins with what the table has, and is told of the rest: the
\* events of the changes it was listed with find nothing more to do.
LEMMA NewCacheKeeps ==
  ASSUME FeedInv, NotifierInv, newCache PROVE NotifierInv'
<1>1. PICK maker \in [URL -> Config] :
        /\ \A u \in URL : UsersOf(configs, u) # {} =>
             maker[u] \in UsersOf(configs, u) /\ ~newClientFails(configs[maker[u]])
        /\ cached' = Cached(configs)
        /\ clients' = [u \in URL |-> IF UsersOf(configs, u) = {} THEN NoClient
             ELSE [count |-> Cardinality(UsersOf(configs, u)),
                   destination |-> configs[maker[u]].destination]]
  BY DEF newCache
<1>2. UNCHANGED <<streamVars, cfgVars, configs, spoilt>>
  BY DEF newCache, tables
<1>3. /\ configs \in [Config -> Row \union {NoConfig, GoneConfig}] /\ spoilt \in SUBSET Config
      /\ ConfigsInv
  BY DEF NotifierInv, ConfigsInv, CacheOK, CacheRecord, TheCache, Cache
<1>4. ConfigsInv'
  BY <1>2, <1>3 DEF ConfigsInv, streamVars, cfgVars, EventAgrees, IsLast, CfgP!StreamInv,
     CfgP!StreamTypeOK, CfgP!InFlight, CfgP!DownIsDisabled, CfgP!Consecutive
<1>5. ASSUME NEW c \in Config
      PROVE  /\ cached'[c] = IF Cacheable(configs[c]) THEN configs[c] ELSE NoConfig
             /\ cached'[c] \in Row \union {NoConfig}
             /\ cached'[c] # NoConfig <=> Cacheable(configs[c])
             /\ Cacheable(cached'[c]) <=> Cacheable(configs[c])
  <2>1. cached'[c] = IF Cacheable(configs[c]) THEN configs[c] ELSE NoConfig
    BY <1>1 DEF Cached
  <2> QED BY <1>3, <2>1, ConfigsTyped
<1>6. cached' \in [Config -> Row \union {NoConfig}]
  <2>1. cached' = [c \in Config |-> cached'[c]]
    BY <1>1 DEF Cached
  <2> QED BY <1>5, <2>1
<1>7. ASSUME NEW u \in URL
      PROVE  /\ clients'[u] \in Client
             /\ clients'[u].count = Cardinality(UsersOf(cached', u))
  <2>1. UsersOf(cached', u) = UsersOf(configs, u)
    BY <1>5 DEF UsersOf
  <2>2. IsFiniteSet(UsersOf(configs, u)) /\ Cardinality(UsersOf(configs, u)) \in Nat
    BY ConfigsTyped, FS_Subset, FS_CardinalityType DEF UsersOf
  <2>3. CASE UsersOf(configs, u) = {}
    <3>1. clients'[u] = NoClient /\ Cardinality(UsersOf(configs, u)) = 0
      BY <1>1, <2>3, FS_EmptySet
    <3> QED BY <2>1, <3>1, ConfigsTyped
  <2>4. CASE UsersOf(configs, u) # {}
    <3> DEFINE row == configs[maker[u]]
    <3>1. row \in Row
      BY <1>1, <1>3, <2>4, ConfigsTyped DEF UsersOf
    <3>2. clients'[u] = [count |-> Cardinality(UsersOf(configs, u)), destination |-> row.destination]
      BY <1>1, <2>4
    <3> HIDE DEF row
    <3> QED BY <2>1, <2>2, <3>1, <3>2 DEF Client
  <2> QED BY <2>3, <2>4
<1>8. clients' \in [URL -> Client]
  <2>1. clients' = [u \in URL |-> clients'[u]]
    BY <1>1
  <2> QED BY <1>7, <2>1
<1>9. CacheOK(TheCache)'
  BY <1>2, <1>3, <1>5, <1>6, <1>7, <1>8 DEF CacheOK, CacheRecord, TheCache, Cache, UsersOf
<1>10. ASSUME NEW c \in Config PROVE CurrentFor(c)'
  <2>1. Agrees(c)'
    BY <1>1, <1>2 DEF Agrees, Cached
  <2>2. Cacheable(configs'[c]) => cached'[c] # NoConfig
    BY <1>2, <1>5
  <2> QED BY <2>1, <2>2 DEF CurrentFor
<1> QED BY <1>4, <1>9, <1>10 DEF NotifierInv

\* What an event of a config leaves in the cache.
LEMMA Handling ==
  ASSUME FeedInv, NotifierInv, NEW event \in ConfigEvent,
         event.type # "deleted" => event.row \in Row
  PROVE  LET c == event.config
             next == CASE event.type = "created" -> addConfig(TheCache, c, event.row)
                       [] event.type = "updated" -> Updated(event)
                       [] event.type = "deleted" -> removeConfig(TheCache, c) IN
         /\ CacheOK(next)
         /\ spoilt \subseteq next.spoilt
         /\ \A x \in Config : x # c => next.configs[x] = cached[x]
         /\ event.type = "created" =>
              IF Cacheable(event.row) /\ cached[c] = NoConfig
              THEN next.configs[c] = event.row \/ (next.configs[c] = NoConfig /\ c \in next.spoilt)
              ELSE next.configs[c] = cached[c]
         /\ event.type = "updated" =>
              IF Cacheable(event.row) /\ cached[c] # NoConfig
              THEN next.configs[c] = event.row \/ (next.configs[c] = NoConfig /\ c \in next.spoilt)
              ELSE next.configs[c] = NoConfig
         /\ event.type = "deleted" => next.configs[c] = NoConfig
<1> DEFINE c == event.config
           next == CASE event.type = "created" -> addConfig(TheCache, c, event.row)
                     [] event.type = "updated" -> Updated(event)
                     [] event.type = "deleted" -> removeConfig(TheCache, c)
<1> SUFFICES
      /\ CacheOK(next)
      /\ spoilt \subseteq next.spoilt
      /\ \A x \in Config : x # c => next.configs[x] = cached[x]
      /\ event.type = "created" =>
           IF Cacheable(event.row) /\ cached[c] = NoConfig
           THEN next.configs[c] = event.row \/ (next.configs[c] = NoConfig /\ c \in next.spoilt)
           ELSE next.configs[c] = cached[c]
      /\ event.type = "updated" =>
           IF Cacheable(event.row) /\ cached[c] # NoConfig
           THEN next.configs[c] = event.row \/ (next.configs[c] = NoConfig /\ c \in next.spoilt)
           ELSE next.configs[c] = NoConfig
      /\ event.type = "deleted" => next.configs[c] = NoConfig
  OBVIOUS
<1>1. /\ CacheOK(TheCache) /\ TheCache.configs = cached /\ TheCache.spoilt = spoilt
      /\ c \in Config /\ event.type \in {"created", "updated", "deleted"}
  BY DEF NotifierInv, TheCache, Cache, ConfigEvent
<1> DEFINE removed == removeConfig(TheCache, c)
<1>2. /\ CacheOK(removed) /\ removed.configs[c] = NoConfig /\ removed.spoilt = spoilt
      /\ \A x \in Config : x # c => removed.configs[x] = cached[x]
  BY <1>1, RemoveConfigOK
<1> HIDE DEF removed
<1>3. CASE event.type = "created"
  <2>1. next = addConfig(TheCache, c, event.row) /\ event.row \in Row
    BY <1>3
  <2> HIDE DEF next, c
  <2>2. /\ CacheOK(next)
        /\ \A x \in Config : x # c => next.configs[x] = cached[x]
        /\ spoilt \subseteq next.spoilt
        /\ ~Cacheable(event.row) \/ cached[c] # NoConfig => next = TheCache
        /\ Cacheable(event.row) /\ cached[c] = NoConfig =>
             \/ next.configs[c] = event.row
             \/ next.configs[c] = NoConfig /\ c \in next.spoilt
    BY <1>1, <2>1, AddConfigOK
  <2> QED BY <1>1, <1>3, <2>2
<1>4. CASE event.type = "updated"
  <2>1. CASE cached[c] = NoConfig
    <3>1. next = TheCache
      BY <1>4, <2>1 DEF Updated
    <3> HIDE DEF next, c
    <3> QED BY <1>1, <1>4, <2>1, <3>1
  <2>2. CASE cached[c] # NoConfig
    <3>1. next = addConfig(removed, c, event.row) /\ event.row \in Row
      BY <1>4, <2>2 DEF Updated, removed
    <3> HIDE DEF next, c
    <3>2. /\ CacheOK(next)
          /\ \A x \in Config : x # c => next.configs[x] = removed.configs[x]
          /\ removed.spoilt \subseteq next.spoilt
          /\ ~Cacheable(event.row) => next = removed
          /\ Cacheable(event.row) =>
               \/ next.configs[c] = event.row
               \/ next.configs[c] = NoConfig /\ c \in next.spoilt
      BY <1>1, <1>2, <3>1, AddConfigOK
    <3> QED BY <1>2, <1>4, <2>2, <3>2
  <2> QED BY <2>1, <2>2
<1>5. CASE event.type = "deleted"
  <2>1. next = removed
    BY <1>5 DEF removed
  <2> HIDE DEF next, c
  <2> QED BY <1>2, <1>5, <2>1
<1> QED BY <1>1, <1>3, <1>4, <1>5

\* The notifier handles the next event of a config: no other creation of the
\* config can follow, and the last of its events has what the table has.
LEMMA HandleConfigEventKeeps ==
  ASSUME FeedInv, NotifierInv, handleConfigEvent PROVE NotifierInv'
<1> DEFINE sub == cfgSubs["notifier"]
           d == sub.due
           event == cfgFeed[Head(sub.buffer)]
           k == event.config
           next == CASE event.type = "created" -> addConfig(TheCache, k, event.row)
                     [] event.type = "updated" -> Updated(event)
                     [] event.type = "deleted" -> removeConfig(TheCache, k)
<1>1. /\ up["notifier"] /\ Cfg!Take("notifier")
      /\ cached' = next.configs /\ clients' = next.clients /\ spoilt' = next.spoilt
      /\ UNCHANGED <<streamVars, up, configs, cfgFeed, cfgRows, cfgNotified>>
  BY DEF handleConfigEvent, Outside, tables
<1>2. sub.buffer # <<>> /\ cfgSubs' = [cfgSubs EXCEPT !["notifier"].buffer = Tail(@), !["notifier"].due = @ + 1]
  BY <1>1 DEF Cfg!Take
<1>3. /\ sub \in [open : BOOLEAN, deaf : BOOLEAN, due : Nat, buffer : Seq(1..Len(cfgFeed))]
      /\ \A id \in 1..Len(cfgFeed) : cfgFeed[id] \in ConfigEvent /\ EventAgrees(id)
      /\ DOMAIN cfgFeed = 1..Len(cfgFeed) /\ Len(cfgFeed) \in Nat
      /\ cfgNotified \in Seq(1..Len(cfgFeed)) /\ Len(cfgNotified) \in Nat
      /\ sub.open => /\ d + Len(sub.buffer) + Len(cfgNotified) = Len(cfgFeed) + 1
                     /\ \A i \in 1..Len(sub.buffer) : sub.buffer[i] = d + i - 1
  BY ConfigStreamTyped DEF NotifierInv
<1>4. /\ Len(sub.buffer) \in Nat \ {0} /\ Head(sub.buffer) = sub.buffer[1]
      /\ Head(sub.buffer) \in 1..Len(cfgFeed)
  <2>1. sub.buffer \in Seq(1..Len(cfgFeed))
    BY <1>3
  <2> QED BY <1>2, <2>1, HeadTailProperties, EmptySeq
<1>5. /\ event \in ConfigEvent /\ k \in Config /\ EventAgrees(Head(sub.buffer))
      /\ event.type \in {"created", "updated", "deleted"}
      /\ event.type # "deleted" => event.row \in Row
  <2>1. event \in ConfigEvent /\ EventAgrees(Head(sub.buffer))
    BY <1>3, <1>4
  <2> QED BY <2>1 DEF EventAgrees, ConfigEvent
<1>6. CfgP!StreamInv(ConfigEvent)'
  <2>1. CfgP!Take("notifier")
    BY <1>1 DEF Cfg!Take, CfgP!Take
  <2> QED BY <1>1, <2>1, BufferAssumption, CfgP!TakeInv DEF NotifierInv, ConfigsInv, streamVars
<1>7. ConfigsInv'
  BY <1>1, <1>6 DEF NotifierInv, ConfigsInv, EventAgrees, IsLast
<1>8. cfgSubs'["notifier"].open = sub.open /\ cfgSubs'["notifier"].due = d + 1
  <2>1. cfgSubs \in [{"notifier"} -> [open : BOOLEAN, deaf : BOOLEAN, due : Nat, buffer : Seq(1..Len(cfgFeed))]]
    BY DEF NotifierInv, ConfigsInv, CfgP!StreamInv, CfgP!StreamTypeOK
  <2> QED BY <1>2, <2>1
<1>9. /\ CacheOK(next)
      /\ spoilt \subseteq next.spoilt
      /\ \A x \in Config : x # k => next.configs[x] = cached[x]
      /\ event.type = "created" =>
           IF Cacheable(event.row) /\ cached[k] = NoConfig
           THEN next.configs[k] = event.row \/ (next.configs[k] = NoConfig /\ k \in next.spoilt)
           ELSE next.configs[k] = cached[k]
      /\ event.type = "updated" =>
           IF Cacheable(event.row) /\ cached[k] # NoConfig
           THEN next.configs[k] = event.row \/ (next.configs[k] = NoConfig /\ k \in next.spoilt)
           ELSE next.configs[k] = NoConfig
      /\ event.type = "deleted" => next.configs[k] = NoConfig
  <2> HIDE DEF event
  <2> QED BY <1>5, Handling
<1>10. /\ CacheOK(TheCache)'
       /\ spoilt \subseteq spoilt'
       /\ \A x \in Config : x # k => cached'[x] = cached[x]
       /\ event.type = "created" =>
            IF Cacheable(event.row) /\ cached[k] = NoConfig
            THEN cached'[k] = event.row \/ (cached'[k] = NoConfig /\ k \in spoilt')
            ELSE cached'[k] = cached[k]
       /\ event.type = "updated" =>
            IF Cacheable(event.row) /\ cached[k] # NoConfig
            THEN cached'[k] = event.row \/ (cached'[k] = NoConfig /\ k \in spoilt')
            ELSE cached'[k] = NoConfig
       /\ event.type = "deleted" => cached'[k] = NoConfig
  <2> HIDE DEF next, event
  <2>1. next = TheCache'
    BY <1>1, <1>9 DEF CacheOK, CacheRecord, TheCache, Cache
  <2>2. CacheOK(TheCache)'
    BY <1>9, <2>1 DEF CacheOK, UsersOf
  <2> QED BY <1>1, <1>9, <2>2
<1>11. ASSUME sub.open, NEW c \in Config PROVE CurrentFor(c)'
  <2>1. CurrentFor(c)
    BY <1>1, <1>11 DEF NotifierInv
  <2>2. /\ Head(sub.buffer) = d /\ d \in 1..Len(cfgFeed) /\ event = cfgFeed[d]
    BY <1>3, <1>4, <1>11
  <2>3. /\ cfgSubs'["notifier"].due = d + 1 /\ cfgFeed' = cfgFeed /\ configs' = configs
    BY <1>1, <1>8
  <2> HIDE DEF event, next, sub, d
  <2>4. Pending(c)' = {id \in (d + 1)..Len(cfgFeed) : cfgFeed[id].config = c}
    BY <2>3 DEF Pending
  <2>5. Pending(c) = {id \in d..Len(cfgFeed) : cfgFeed[id].config = c}
    BY DEF Pending, d, sub
  <2>6. d..Len(cfgFeed) = {d} \union ((d + 1)..Len(cfgFeed)) /\ d \notin (d + 1)..Len(cfgFeed)
    BY <1>3, <2>2
  <2>7. CASE c # k
    <3>1. Pending(c)' = Pending(c)
      BY <2>2, <2>4, <2>5, <2>6, <2>7
    <3>2. cached'[c] = cached[c] /\ (c \in spoilt => c \in spoilt')
      BY <1>10, <2>7
    <3>3. Agrees(c) => Agrees(c)'
      BY <2>3, <3>2 DEF Agrees, Cached
    <3> QED BY <2>1, <2>3, <3>1, <3>2, <3>3 DEF CurrentFor
  <2>8. CASE c = k
    <3> DEFINE row == configs[c]
    <3>1. /\ Pending(c) = {d} \union Pending(c)'
          /\ \A id \in Pending(c)' : id > d /\ id \in 1..Len(cfgFeed) /\ cfgFeed[id].config = c
      BY <1>3, <2>2, <2>4, <2>5, <2>6, <2>8
    <3>2. /\ row # NoConfig
          /\ Pending(c)' = {} => event.row = row
          /\ event.type = "deleted" => Pending(c)' = {} /\ event.row = GoneConfig
          /\ event.type # "deleted" =>
               /\ event.row \in Row
               /\ row # GoneConfig => event.row.destination = row.destination
      <4>1. EventAgrees(d)
        BY <1>3, <2>2
      <4>2. Pending(c)' = {} <=> IsLast(d)
        <5>1. cfgFeed[d].config = c
          BY <2>2, <2>8
        <5>2. IsLast(d) <=> \A j \in 1..Len(cfgFeed) : j > d => cfgFeed[j].config # c
          BY <1>3, <5>1 DEF IsLast
        <5>3. \A j : j \in Pending(c)' <=> (j \in 1..Len(cfgFeed) /\ j > d /\ cfgFeed[j].config = c)
          BY <1>3, <2>2, <2>4
        <5> QED BY <5>2, <5>3
      <4>3. configs[cfgFeed[d].config] = row
        BY <2>2, <2>8
      <4> HIDE DEF row
      <4>4. /\ row # NoConfig
            /\ IsLast(d) => cfgFeed[d].row = row
            /\ cfgFeed[d].type = "deleted" => IsLast(d) /\ cfgFeed[d].row = GoneConfig
            /\ cfgFeed[d].type # "deleted" =>
                 /\ cfgFeed[d].row \in Row
                 /\ row # GoneConfig => cfgFeed[d].row.destination = row.destination
        BY <4>1, <4>3 DEF EventAgrees
      <4> QED BY <2>2, <4>2, <4>4
    <3>3. \A id \in Pending(c)' : cfgFeed[id].type # "created"
      <4>1. ASSUME NEW id \in Pending(c)', cfgFeed[id].type = "created" PROVE FALSE
        <5>1. id > d /\ id \in 1..Len(cfgFeed) /\ cfgFeed[id].config = c /\ EventAgrees(id)
          BY <1>3, <3>1
        <5>2. \A j \in DOMAIN cfgFeed : cfgFeed[j].config = cfgFeed[id].config => id <= j
          BY <4>1, <5>1 DEF EventAgrees
        <5>3. d \in DOMAIN cfgFeed /\ cfgFeed[d].config = c
          BY <1>3, <2>2, <2>8
        <5>4. id <= d
          BY <5>1, <5>2, <5>3
        <5> QED BY <2>2, <5>1, <5>4
      <4> QED BY <4>1
    <3>4. /\ Cacheable(row) => row # GoneConfig /\ row # NoConfig
          /\ Cached(configs)[c] = IF Cacheable(row) THEN row ELSE NoConfig
      BY ConfigsTyped DEF Cached
    <3>5. Cacheable(row) /\ event.type # "deleted" => Cacheable(event.row) /\ event.row # NoConfig
      BY <3>2, <3>4, ConfigsTyped DEF Cacheable
    <3>6. event.type = "deleted" => ~Cacheable(row) /\ cached'[c] = NoConfig
      BY <1>10, <2>8, <3>2, ConfigsTyped
    <3>7. event.type = "updated" /\ Cacheable(row) => cached[c] # NoConfig \/ c \in spoilt
      <4>1. event.type = "updated" => \A id \in Pending(c) : cfgFeed[id].type # "created"
        BY <2>2, <3>1, <3>3
      <4> QED BY <2>1, <4>1 DEF CurrentFor
    <3> HIDE DEF row
    <3>8. Cacheable(row) => cached'[c] # NoConfig \/ c \in spoilt'
      BY <1>5, <1>10, <2>8, <3>5, <3>6, <3>7
    <3>9. ASSUME Pending(c)' = {} PROVE Agrees(c)'
      <4>1. event.row = row
        BY <3>2, <3>9
      <4>2. Agrees(c)' <=> \/ cached'[c] = (IF Cacheable(row) THEN row ELSE NoConfig)
                           \/ c \in spoilt' /\ cached'[c] = NoConfig
        BY <2>3, <3>4 DEF Agrees, Cached
      <4>3. CASE event.type = "created"
        <5>1. \A id \in Pending(c) : cfgFeed[id].type = "created"
          BY <2>2, <3>1, <3>9, <4>3
        <5>2. Agrees(c) \/ cached[c] = NoConfig
          BY <2>1, <5>1 DEF CurrentFor
        <5>3. \/ cached[c] = NoConfig
              \/ cached[c] = (IF Cacheable(row) THEN row ELSE NoConfig)
          BY <3>4, <5>2 DEF Agrees
        <5> QED BY <1>10, <2>8, <4>1, <4>2, <4>3, <5>3
      <4>4. CASE event.type = "updated"
        <5>1. CASE Cacheable(row)
          BY <1>10, <2>8, <3>7, <4>1, <4>2, <4>4, <5>1
        <5>2. CASE ~Cacheable(row)
          BY <1>10, <2>8, <4>1, <4>2, <4>4, <5>2
        <5> QED BY <5>1, <5>2
      <4>5. CASE event.type = "deleted"
        BY <3>6, <4>2, <4>5
      <4> QED BY <1>5, <4>3, <4>4, <4>5
    <3>10. (\A id \in Pending(c)' : cfgFeed'[id].type = "created") => Pending(c)' = {}
      BY <2>3, <3>3
    <3>11. Cacheable(configs'[c]) => cached'[c] # NoConfig \/ c \in spoilt'
      BY <2>3, <3>8 DEF row
    <3> QED BY <3>9, <3>10, <3>11 DEF CurrentFor
  <2> QED BY <2>7, <2>8
<1>12. up'["notifier"] /\ cfgSubs'["notifier"].open => \A c \in Config : CurrentFor(c)'
  BY <1>8, <1>11
<1> QED BY <1>7, <1>10, <1>12 DEF NotifierInv

\* A config is created, updated or deleted, and the event of it is committed.
LEMMA ChangeConfigKeeps ==
  ASSUME FeedInv, NotifierInv, NEW c \in Config, NEW type, NEW row, ChangeConfig(type, c, row),
         \/ type = "created" /\ row \in Row /\ configs[c] = NoConfig
         \/ type = "updated" /\ row \in Row /\ Configured(c) /\ row.destination = configs[c].destination
         \/ type = "deleted" /\ row = GoneConfig /\ Configured(c)
  PROVE  NotifierInv'
<1> DEFINE event == [type |-> type, config |-> c, row |-> row]
<1> PICK l, d : l = Len(cfgFeed) /\ d = cfgSubs["notifier"].due
  OBVIOUS
<1>1. /\ configs' = [configs EXCEPT ![c] = row]
      /\ Cfg!build_and_send_event(<<event>>)
      /\ UNCHANGED <<cfgSubs, up, cached, clients, spoilt, listener, enabled, lapsed>>
  BY DEF ChangeConfig, Unmoved, streamVars, daemonVars, notifierVars
<1>2. /\ cfgFeed \in Seq(ConfigEvent) /\ l \in Nat /\ DOMAIN cfgFeed = 1..l
      /\ \A id \in 1..l : cfgFeed[id] \in ConfigEvent /\ EventAgrees(id)
      /\ d \in Nat
      /\ cfgSubs["notifier"].open => 1 <= d /\ d <= l + 1
      /\ configs \in [Config -> Row \union {NoConfig, GoneConfig}]
  <2>1. cfgSubs["notifier"].open => 1 <= d /\ d <= l + 1
    BY ConfigStreamTyped DEF NotifierInv
  <2> QED BY <2>1, ConfigStreamTyped DEF NotifierInv, ConfigsInv
<1>3. event \in ConfigEvent /\ <<event>> \in Seq(ConfigEvent) /\ row # NoConfig
  <2>1. event \in ConfigEvent
    BY DEF ConfigEvent
  <2>2. GoneConfig # NoConfig
    <3>1. GoneConfig.destination # NoConfig.destination
      BY DEF NoConfig, GoneConfig, Absent, Gone
    <3> QED BY <3>1
  <2>3. row # NoConfig
    BY <2>2, ConfigsTyped
  <2> HIDE DEF event
  <2> QED BY <2>1, <2>3
<1> HIDE DEF event
<1>4. CfgP!StreamInv(ConfigEvent)'
  <2>1. CfgP!build_and_send_event(<<event>>)
    BY <1>1 DEF Cfg!build_and_send_event, CfgP!build_and_send_event, Cfg!Ids, CfgP!Ids,
       Cfg!Range, CfgP!Range
  <2> QED BY <1>1, <1>3, <2>1, BufferAssumption, CfgP!CommitInv DEF NotifierInv, ConfigsInv
<1>5. /\ Len(cfgFeed') = l + 1 /\ DOMAIN cfgFeed' = 1..(l + 1)
      /\ cfgFeed'[l + 1] = event /\ \A id \in 1..l : cfgFeed'[id] = cfgFeed[id]
      /\ \A j \in 1..(l + 1) : j \in 1..l \/ j = l + 1
  BY <1>1, <1>2, <1>3 DEF Cfg!build_and_send_event
<1>6. /\ configs' \in [Config -> Row \union {NoConfig, GoneConfig}] /\ configs'[c] = row
      /\ \A x \in Config : x # c => configs'[x] = configs[x]
  BY <1>1, <1>2
<1>7. event.config = c /\ event.row = row /\ event.type = type
  BY DEF event
<1>8. \A id \in 1..l : cfgFeed[id].config \in Config
  BY <1>2 DEF ConfigEvent
<1>9. type = "created" => \A id \in 1..l : cfgFeed[id].config # c
  <2>1. \A id \in 1..l : configs[cfgFeed[id].config] # NoConfig
    BY <1>2 DEF EventAgrees
  <2> QED BY <2>1
<1>10. \A id \in DOMAIN cfgFeed' : EventAgrees(id)'
  <2>1. EventAgrees(l + 1)'
    <3>1. type = "created" => \A j \in DOMAIN cfgFeed' : cfgFeed'[j].config = c => l + 1 <= j
      <4>1. ASSUME type = "created", NEW j \in 1..(l + 1), cfgFeed'[j].config = c
            PROVE  j = l + 1
        <5>1. j \notin 1..l
          BY <1>5, <1>9, <4>1
        <5> QED BY <1>2, <5>1
      <4> QED BY <1>2, <1>5, <4>1
    <3>2. \A j \in DOMAIN cfgFeed' : ~(j > l + 1)
      BY <1>2, <1>5
    <3>3. configs'[cfgFeed'[l + 1].config] = row /\ cfgFeed'[l + 1] = event
      BY <1>5, <1>6, <1>7
    <3>4. type # "deleted" => row \in Row
      OBVIOUS
    <3>5. type = "deleted" => row = GoneConfig
      OBVIOUS
    <3>6. cfgFeed'[l + 1].type = type /\ cfgFeed'[l + 1].config = c /\ cfgFeed'[l + 1].row = row
      BY <1>5, <1>7
    <3> QED BY <1>3, <3>1, <3>2, <3>3, <3>4, <3>5, <3>6 DEF EventAgrees, IsLast
  <2>2. ASSUME NEW id \in 1..l, cfgFeed[id].config # c PROVE EventAgrees(id)'
    <3>1. cfgFeed'[id] = cfgFeed[id] /\ configs'[cfgFeed[id].config] = configs[cfgFeed[id].config]
      BY <1>5, <1>6, <1>8, <2>2
    <3>2. \A j \in DOMAIN cfgFeed' : \/ j \in DOMAIN cfgFeed /\ cfgFeed'[j] = cfgFeed[j]
                                     \/ j = l + 1 /\ cfgFeed'[j].config = c
      BY <1>2, <1>5, <1>7
    <3>3. DOMAIN cfgFeed \subseteq DOMAIN cfgFeed' /\ \A j \in DOMAIN cfgFeed : cfgFeed'[j] = cfgFeed[j]
      BY <1>2, <1>5
    <3>4. IsLast(id)' <=> IsLast(id)
      BY <2>2, <3>1, <3>2, <3>3 DEF IsLast
    <3>5. (\A j \in DOMAIN cfgFeed : cfgFeed[j].config = cfgFeed[id].config => id <= j)
            => (\A j \in DOMAIN cfgFeed' : cfgFeed'[j].config = cfgFeed'[id].config => id <= j)
      BY <2>2, <3>1, <3>2
    <3>6. EventAgrees(id)
      BY <1>2
    <3> QED BY <3>1, <3>4, <3>5, <3>6 DEF EventAgrees
  <2>3. ASSUME NEW id \in 1..l, cfgFeed[id].config = c PROVE EventAgrees(id)'
    <3>1. /\ cfgFeed'[id] = cfgFeed[id] /\ Configured(c) /\ type # "created"
          /\ type = "updated" => row.destination = configs[c].destination
          /\ type = "deleted" => row = GoneConfig
      BY <1>5, <1>9, <2>3
    <3>2. ~IsLast(id)'
      <4>1. l + 1 \in DOMAIN cfgFeed' /\ l + 1 > id /\ cfgFeed'[l + 1].config = c
        BY <1>2, <1>5, <1>7
      <4> QED BY <2>3, <3>1, <4>1 DEF IsLast
    <3>3. EventAgrees(id)
      BY <1>2
    <3>4. /\ cfgFeed[id].type # "deleted" /\ cfgFeed[id].row \in Row
          /\ cfgFeed[id].row.destination = configs[c].destination
      BY <2>3, <3>1, <3>3 DEF EventAgrees, Configured
    <3>5. cfgFeed[id].type = "created" => \A j \in DOMAIN cfgFeed' : cfgFeed'[j].config = c => id <= j
      <4>1. ASSUME cfgFeed[id].type = "created", NEW j \in 1..(l + 1), cfgFeed'[j].config = c
            PROVE  id <= j
        <5>1. CASE j \in 1..l
          BY <1>2, <1>5, <2>3, <3>3, <4>1, <5>1 DEF EventAgrees
        <5>2. CASE j = l + 1
          BY <1>2, <5>2
        <5> QED BY <1>2, <5>1, <5>2
      <4> QED BY <1>5, <4>1
    <3>6. row # GoneConfig => row.destination = configs[c].destination
      BY <3>1
    <3>7. configs'[cfgFeed'[id].config] = row
      BY <1>6, <2>3, <3>1
    <3> QED BY <1>3, <2>3, <3>1, <3>2, <3>4, <3>5, <3>6, <3>7 DEF EventAgrees
  <2> QED BY <1>2, <1>5, <2>1, <2>2, <2>3
<1>11. ConfigsInv'
  BY <1>4, <1>6, <1>10 DEF ConfigsInv
<1>12. CacheOK(TheCache)'
  BY <1>1 DEF NotifierInv, CacheOK, TheCache, Cache, UsersOf
<1>13. ASSUME up["notifier"], cfgSubs["notifier"].open, NEW x \in Config
       PROVE  CurrentFor(x)'
  <2>1. CurrentFor(x)
    BY <1>13 DEF NotifierInv
  <2>2. /\ Pending(x)' = {id \in d..(l + 1) : cfgFeed'[id].config = x}
        /\ Pending(x) = {id \in d..l : cfgFeed[id].config = x}
        /\ d..(l + 1) = (d..l) \union {l + 1} /\ l + 1 \in d..(l + 1)
        /\ d..l \subseteq 1..l
    BY <1>1, <1>2, <1>5, <1>13 DEF Pending
  <2>3. \A id \in d..l : cfgFeed'[id] = cfgFeed[id]
    BY <1>5, <2>2
  <2>4. CASE x # c
    <3>1. Pending(x)' = Pending(x)
      BY <1>5, <1>7, <2>2, <2>3, <2>4
    <3>2. Agrees(x)' <=> Agrees(x)
      BY <1>1, <1>6, <2>4 DEF Agrees, Cached
    <3>3. \A id \in Pending(x) : cfgFeed'[id].type = cfgFeed[id].type
      BY <2>2, <2>3
    <3>4. cached'[x] = cached[x] /\ configs'[x] = configs[x] /\ spoilt' = spoilt
      BY <1>1, <1>6, <2>4
    <3> QED BY <2>1, <3>1, <3>2, <3>3, <3>4 DEF CurrentFor
  <2>5. CASE x = c
    <3>1. /\ Pending(c)' = Pending(c) \union {l + 1} /\ cfgFeed'[l + 1].type = type
          /\ \A id \in Pending(c) : cfgFeed'[id].type = cfgFeed[id].type
      <4>1. cfgFeed'[l + 1].config = c /\ cfgFeed'[l + 1].type = type
        BY <1>5, <1>7
      <4> QED BY <2>2, <2>3, <2>5, <4>1
    <3>2. cached' = cached /\ spoilt' = spoilt
      BY <1>1
    <3>3. CASE type = "created"
      <4>1. Pending(c) = {} /\ configs[c] = NoConfig
        <5>1. configs[c] = NoConfig /\ \A id \in 1..l : cfgFeed[id].config # c
          BY <1>9, <3>3
        <5> QED BY <2>2, <2>5, <5>1
      <4>2. cached[c] = NoConfig
        BY <2>1, <2>5, <4>1, ConfigsTyped DEF CurrentFor, Agrees, Cached
      <4> QED BY <2>5, <3>1, <3>2, <3>3, <4>1, <4>2 DEF CurrentFor
    <3>4. CASE type = "updated"
      <4>1. row.destination = configs[c].destination
        BY <3>4
      <4>2. Cacheable(configs'[c]) => Cacheable(configs[c])
        BY <1>6, <4>1 DEF Cacheable
      <4> QED BY <2>1, <2>5, <3>1, <3>2, <3>4, <4>2 DEF CurrentFor
    <3>5. CASE type = "deleted"
      <4>1. ~Cacheable(configs'[c])
        BY <1>6, <3>5, ConfigsTyped
      <4> QED BY <2>5, <3>1, <3>5, <4>1 DEF CurrentFor
    <3> QED BY <2>5, <3>3, <3>4, <3>5
  <2> QED BY <2>4, <2>5
<1>14. up'["notifier"] /\ cfgSubs'["notifier"].open => \A x \in Config : CurrentFor(x)'
  BY <1>1, <1>13
<1> QED BY <1>11, <1>12, <1>14 DEF NotifierInv

-----------------------------------------------------------------------------
(* The runs that there are *)

\* A step that creates no run.
LEMMA RunsStay ==
  ASSUME IInv, RunsInv, runs' \in [Run -> RunRow], triggers' \subseteq Workspace \X Workspace,
         todo'.workspaces # {} => todo'.run \in Run,
         \A r \in Run : /\ runs'[r].by \in {0, runs[r].by}
                        /\ runs'[r] = NoRun <=> runs[r] = NoRun
  PROVE  RunsInv'
<1>1. \A r \in Run : r \in Nat /\ 0 < r
  BY WatchersAssumption DEF Run
<1>2. \A r \in Run : runs'[r].by < r
  BY <1>1 DEF RunsInv
<1>3. \A r, q \in Run : r < q /\ runs'[r] = NoRun => runs'[q] = NoRun
  BY DEF RunsInv
<1> QED BY <1>2, <1>3 DEF RunsInv

\* An update of a run that there is, to one that there is.
LEMMA UpdateKeepsRuns ==
  ASSUME IInv, RunsInv, NEW r \in Run, NEW row \in RunRow, Update(r, row),
         row.by = runs[r].by, row.status # Absent, runs[r].status # Absent, todo' = todo
  PROVE  RunsInv'
<1>1. runs' = [runs EXCEPT ![r] = row] /\ triggers' = triggers /\ runs \in [Run -> RunRow]
  BY DEF Update, Publish, IInv, FeedInv
<1>2. NoRun.status = Absent
  BY DEF NoRun
<1>3. \A q \in Run : /\ runs'[q].by \in {0, runs[q].by}
                     /\ runs'[q] = NoRun <=> runs[q] = NoRun
  BY <1>1, <1>2
<1>4. runs' \in [Run -> RunRow]
  BY <1>1
<1> QED BY <1>1, <1>3, <1>4, RunsStay DEF RunsInv

LEMMA RowUpdatesKeepRuns ==
  ASSUME IInv, RunsInv, NEW r \in Run,
         \/ \E to \in Moves(runs[r].status) : UpdateStatus(r, to)
         \/ UploadLockFile(r) \/ CancelRun(r) \/ triggerEvent(r) \/ ForceCancelRun(r)
  PROVE  RunsInv'
<1> DEFINE Kept(row) == row \in RunRow /\ row.by = runs[r].by /\ row.status # Absent
<1>1. runs[r] \in RunRow
  BY DEF IInv, FeedInv
<1>2. runs[r].status # Absent /\ todo' = todo
  BY DEF UpdateStatus, UploadLockFile, CancelRun, triggerEvent, ForceCancelRun, Exists,
         InProgress, Absent, daemonVars
<1>3. Kept(runs[r])
  BY <1>1, <1>2
<1>4. \A to \in Status : Kept([runs[r] EXCEPT !.status = to])
  <2>1. Absent \notin Status
    BY DEF Absent, Status, InProgress, Done
  <2> QED BY <1>1, <2>1 DEF RunRow
<1>5. \A to \in {"on", "over"} : Kept([runs[r] EXCEPT !.coolOff = to])
  BY <1>1, <1>2 DEF RunRow
<1>6. \/ \E to \in Moves(runs[r].status) : Update(r, [runs[r] EXCEPT !.status = to])
      \/ Update(r, runs[r])
      \/ \E to \in {"on", "over"} : Update(r, [runs[r] EXCEPT !.coolOff = to])
      \/ Update(r, [runs[r] EXCEPT !.status = "force_canceled"])
  BY DEF UpdateStatus, UploadLockFile, CancelRun, triggerEvent, ForceCancelRun
<1>7. \E row : Kept(row) /\ Update(r, row)
  <2>1. CASE \E to \in Moves(runs[r].status) : Update(r, [runs[r] EXCEPT !.status = to])
    <3>1. PICK to \in Moves(runs[r].status) : Update(r, [runs[r] EXCEPT !.status = to])
      BY <2>1
    <3>2. to \in Status
      BY MovesTyped
    <3> HIDE DEF Kept
    <3> QED BY <1>4, <3>1, <3>2
  <2>2. CASE Update(r, runs[r])
    BY <1>3, <2>2
  <2>3. CASE \E to \in {"on", "over"} : Update(r, [runs[r] EXCEPT !.coolOff = to])
    <3>1. PICK to \in {"on", "over"} : Update(r, [runs[r] EXCEPT !.coolOff = to])
      BY <2>3
    <3> HIDE DEF Kept
    <3> QED BY <1>5, <3>1
  <2>4. CASE Update(r, [runs[r] EXCEPT !.status = "force_canceled"])
    <3>1. "force_canceled" \in Status
      BY DEF Status, Done
    <3> HIDE DEF Kept
    <3> QED BY <1>4, <2>4, <3>1
  <2> QED BY <1>6, <2>1, <2>2, <2>3, <2>4
<1> QED BY <1>2, <1>7, UpdateKeepsRuns

LEMMA DeleteRunKeepsRuns ==
  ASSUME IInv, RunsInv, NEW r \in Run, DeleteRun(r) PROVE RunsInv'
<1> DEFINE orphans == {q \in Run : Exists(q) /\ runs[q].by = r}
           table == [q \in Run |-> CASE q = r -> [runs[q] EXCEPT !.status = Gone]
                                     [] q \in orphans -> [runs[q] EXCEPT !.by = 0]
                                     [] OTHER -> runs[q]]
<1>1. runs' = table /\ triggers' = triggers /\ todo' = todo /\ runs[r].status # Absent
  BY DEF DeleteRun, Publish, daemonVars, Exists
<1>2. ASSUME NEW q \in Run
      PROVE  /\ table[q].by \in {0, runs[q].by}
             /\ table[q] = NoRun <=> runs[q] = NoRun
  <2>1. runs[q] \in RunRow /\ NoRun.status = Absent /\ Gone # Absent
    BY DEF IInv, FeedInv, NoRun, Gone, Absent
  <2>2. CASE q = r
    <3>1. table[q] = [runs[q] EXCEPT !.status = Gone]
      <4>1. q \notin orphans
        BY <2>2, WatchersAssumption DEF RunsInv, Run
      <4> HIDE DEF orphans
      <4> QED BY <2>2, <4>1
    <3> HIDE DEF table
    <3>2. table[q].by = runs[q].by /\ table[q].status = Gone
      BY <2>1, <3>1 DEF RunRow
    <3> QED BY <1>1, <2>1, <2>2, <3>2
  <2>3. CASE q # r /\ q \in orphans
    <3>1. table[q] = [runs[q] EXCEPT !.by = 0] /\ runs[q].status # Absent
      BY <2>3 DEF Exists
    <3> HIDE DEF table
    <3>2. table[q].by = 0 /\ table[q].status = runs[q].status
      BY <2>1, <3>1 DEF RunRow
    <3> QED BY <2>1, <3>1, <3>2
  <2>4. CASE q # r /\ q \notin orphans
    <3>1. table[q] = runs[q]
      BY <2>4
    <3> QED BY <3>1
  <2> QED BY <2>2, <2>3, <2>4
<1> HIDE DEF table
<1>3. runs' \in [Run -> RunRow]
  BY DeleteRunKeeps DEF IInv, FeedInv
<1> QED BY <1>1, <1>2, <1>3, RunsStay DEF RunsInv

\* A run is created after all those that there are, its triggering run too.
LEMMA InsertKeepsRuns ==
  ASSUME IInv, RunsInv, NEW r \in Run, NEW w, NEW source, NEW by \in Run \union {0},
         by = 0 \/ runs[by] # NoRun, Insert(r, w, source, by),
         todo'.workspaces # {} => todo'.run \in Run
  PROVE  RunsInv'
<1> DEFINE row == NewRun("pending", w, source, by)
<1>1. /\ Fresh(r) /\ runs' = [runs EXCEPT ![r] = row] /\ triggers' = triggers
      /\ runs \in [Run -> RunRow]
  BY DEF Insert, Publish, IInv, FeedInv
<1>2. row.by = by /\ row # NoRun
  <2>1. row.by = by /\ row.status = "pending" /\ NoRun.status = Absent
    BY DEF NewRun, NoRun
  <2> HIDE DEF row
  <2> QED BY <2>1 DEF Absent
<1> HIDE DEF row
<1>3. runs'[r] = row /\ \A q \in Run : q # r => runs'[q] = runs[q]
  BY <1>1
<1>4. /\ \A q \in Run : q \in Nat /\ 0 < q
      /\ runs[r] = NoRun /\ \A q \in Run : q < r => runs[q] # NoRun
  BY <1>1, WatchersAssumption DEF Fresh, Run
<1>5. by < r
  <2>1. CASE by = 0
    BY <1>4, <2>1
  <2>2. CASE by # 0
    <3>1. by \in Run /\ runs[by] # NoRun
      BY <2>2
    <3>2. ~(r < by) /\ r # by
      BY <1>4, <3>1 DEF RunsInv
    <3> QED BY <1>4, <3>1, <3>2
  <2> QED BY <2>1, <2>2
<1>6. \A q \in Run : runs'[q].by < q
  BY <1>2, <1>3, <1>5 DEF RunsInv
<1>7. ASSUME NEW p \in Run, NEW q \in Run, p < q, runs'[p] = NoRun
      PROVE  runs'[q] = NoRun
  <2>1. p # r /\ runs[p] = NoRun
    BY <1>2, <1>3, <1>7
  <2>2. runs[q] = NoRun /\ q # r
    BY <1>4, <1>7, <2>1 DEF RunsInv
  <2> QED BY <1>3, <2>2
<1> QED BY <1>1, <1>6, <1>7 DEF RunsInv

LEMMA TriggerRunKeepsRuns ==
  ASSUME IInv, RunsInv, NEW w \in Workspace, TriggerRun(w) PROVE RunsInv'
<1>1. PICK r \in Run : Insert(r, w, "trigger", todo.run)
  BY DEF TriggerRun
<1>2. /\ w \in todo.workspaces /\ Exists(todo.run)
      /\ todo' = [todo EXCEPT !.workspaces = @ \ {w}]
      /\ todo \in [run : Run \union {0}, workspaces : SUBSET Workspace]
  BY DEF TriggerRun, IInv, TriggererInv
<1>3. todo.run \in Run /\ runs[todo.run] # NoRun
  BY <1>2 DEF RunsInv, Exists, NoRun
<1>4. todo'.run = todo.run
  BY <1>2
<1> QED BY <1>1, <1>3, <1>4, InsertKeepsRuns

\* What leaves the runs and their triggers alone.
LEMMA RunsApart ==
  ASSUME IInv, RunsInv, UNCHANGED <<runs, triggers>>,
         todo'.workspaces # {} => todo'.run \in Run
  PROVE  RunsInv'
BY RunsStay DEF IInv, FeedInv, RunsInv

-----------------------------------------------------------------------------
(* Every step keeps the notifier's part *)

LEMMA TableStepsKeepAll == ASSUME WatchersInv, TableSteps PROVE RunsInv' /\ NotifierInv'
<1>1. IInv /\ FeedInv /\ RunsInv /\ NotifierInv
  BY DEF WatchersInv, IInv
<1>2. ASSUME NEW r \in Run, NEW w \in Workspace, NEW source \in {"api", "vcs"}, CreateRun(r, w, source)
      PROVE  RunsInv' /\ NotifierInv'
  <2>1. Insert(r, w, source, 0) /\ UNCHANGED daemonVars
    BY <1>2 DEF CreateRun
  <2>2. RunsInv'
    BY <1>1, <2>1, InsertKeepsRuns DEF RunsInv, daemonVars
  <2>3. NotifierInv'
    BY <1>1, <2>1, NotifierApart DEF Insert, Publish, daemonVars
  <2> QED BY <2>2, <2>3
<1>3. ASSUME NEW r \in Run,
             \/ \E to \in Moves(runs[r].status) : UpdateStatus(r, to)
             \/ UploadLockFile(r) \/ CancelRun(r) \/ triggerEvent(r) \/ ForceCancelRun(r)
      PROVE  RunsInv' /\ NotifierInv'
  <2>1. UNCHANGED <<listener, enabled, lapsed, cfgVars, configs, daemonVars>>
    BY <1>3 DEF UpdateStatus, UploadLockFile, CancelRun, triggerEvent, ForceCancelRun, Update, Publish
  <2>2. RunsInv'
    BY <1>1, <1>3, RowUpdatesKeepRuns
  <2>3. NotifierInv'
    BY <1>1, <2>1, NotifierApart DEF daemonVars
  <2> QED BY <2>2, <2>3
<1>4. ASSUME NEW r \in Run, DeleteRun(r) PROVE RunsInv' /\ NotifierInv'
  <2>1. UNCHANGED <<listener, enabled, lapsed, cfgVars, configs, daemonVars>>
    BY <1>4 DEF DeleteRun, Publish
  <2>2. RunsInv'
    BY <1>1, <1>4, DeleteRunKeepsRuns
  <2>3. NotifierInv'
    BY <1>1, <2>1, NotifierApart DEF daemonVars
  <2> QED BY <2>2, <2>3
<1>5. ASSUME \/ \E w, triggering \in Workspace : CreateRunTrigger(w, triggering)
             \/ \E t \in triggers : DeleteRunTrigger(t)
      PROVE  RunsInv' /\ NotifierInv'
  <2>1. /\ UNCHANGED <<streamVars, runs, daemonVars, cfgVars, configs>>
        /\ triggers' \subseteq Workspace \X Workspace
    <3>1. triggers \subseteq Workspace \X Workspace
      BY <1>1 DEF RunsInv
    <3> QED BY <1>5, <3>1 DEF CreateRunTrigger, DeleteRunTrigger, Unmoved
  <2>2. runs \in [Run -> RunRow]
    BY <1>1 DEF FeedInv
  <2>3. RunsInv'
    BY <1>1, <2>1, <2>2, RunsStay DEF RunsInv, daemonVars
  <2>4. NotifierInv'
    BY <1>1, <2>1, NotifierApart DEF streamVars, daemonVars
  <2> QED BY <2>3, <2>4
<1>6. ASSUME NEW c \in Config, NEW type, NEW row, ChangeConfig(type, c, row),
             \/ type = "created" /\ row \in Row /\ configs[c] = NoConfig
             \/ type = "updated" /\ row \in Row /\ Configured(c) /\ row.destination = configs[c].destination
             \/ type = "deleted" /\ row = GoneConfig /\ Configured(c)
      PROVE  RunsInv' /\ NotifierInv'
  <2>1. UNCHANGED <<runs, triggers, todo>>
    BY <1>6 DEF ChangeConfig, Unmoved, daemonVars
  <2>2. RunsInv'
    BY <1>1, <2>1, RunsApart DEF RunsInv
  <2> QED BY <1>1, <1>6, <2>2, ChangeConfigKeeps
<1>7. ASSUME NEW c \in Config, NEW row \in Row,
             CreateNotificationConfig(c, row) \/ UpdateNotificationConfig(c, row)
      PROVE  RunsInv' /\ NotifierInv'
  BY <1>6, <1>7 DEF CreateNotificationConfig, UpdateNotificationConfig
<1>8. ASSUME NEW c \in Config, DeleteNotificationConfig(c) PROVE RunsInv' /\ NotifierInv'
  BY <1>6, <1>8 DEF DeleteNotificationConfig
<1> QED BY <1>2, <1>3, <1>4, <1>5, <1>7, <1>8 DEF TableSteps

LEMMA ListenerStepsKeepAll == ASSUME WatchersInv, ListenerSteps \/ Outage PROVE RunsInv' /\ NotifierInv'
<1>1. IInv /\ RunsInv /\ NotifierInv
  BY DEF WatchersInv
<1>2. UNCHANGED <<tables, daemonVars>>
  BY DEF ListenerSteps, Outage
<1>3. UNCHANGED <<runs, triggers, configs, todo, up, notifierVars>>
  BY <1>2 DEF tables, daemonVars
<1>4. RunsInv'
  BY <1>1, <1>3, RunsApart DEF RunsInv
<1>5. ASSUME ForwardNext /\ UNCHANGED cfgVars PROVE NotifierInv'
  BY <1>1, <1>3, <1>5, NotifierApart DEF ForwardNext
<1>6. ASSUME Cfg!ForwardNext PROVE NotifierInv'
  BY <1>1, <1>3, <1>6, ForwardConfig
<1>7. ASSUME Cfg!ConnectionLost \/ Cfg!Start PROVE NotifierInv'
  BY <1>1, <1>3, <1>7, RestartsKeepNotifier
<1>8. NotifierInv'
  BY <1>5, <1>6, <1>7 DEF ListenerSteps, Outage
<1> QED BY <1>4, <1>8

LEMMA DaemonStepsKeepAll ==
  ASSUME WatchersInv, ReporterSteps \/ TriggererSteps PROVE RunsInv' /\ NotifierInv'
<1>1. IInv /\ FeedInv /\ RunsInv /\ NotifierInv
  BY DEF WatchersInv, IInv
<1>2. ASSUME NEW d \in {"reporter", "triggerer"}, StartDaemon(d)
      PROVE  RunsInv' /\ NotifierInv'
  <2>1. /\ UNCHANGED <<listener, enabled, lapsed, cfgVars, runs, triggers, configs, todo, notifierVars>>
        /\ up' = [up EXCEPT ![d] = TRUE]
    BY <1>2 DEF StartDaemon, StreamRest, Outside, tables, cfgVars
  <2>2. up'["notifier"] = up["notifier"]
    BY <1>1, <2>1, WatchersAssumption DEF FeedInv, Daemon
  <2> QED BY <1>1, <2>1, <2>2, RunsApart, NotifierApart DEF RunsInv
<1>3. ASSUME NEW d \in {"reporter", "triggerer"}, Stops(d), cfgSubs' = cfgSubs
      PROVE  RunsInv' /\ NotifierInv'
  <2>1. /\ UNCHANGED <<listener, enabled, lapsed, cfgVars, runs, triggers, configs, notifierVars>>
        /\ up' = [up EXCEPT ![d] = FALSE] /\ todo' \in {todo, Idle}
    BY <1>3 DEF Stops, StreamRest, tables, cfgVars
  <2>2. up'["notifier"] = up["notifier"]
    BY <1>1, <2>1, WatchersAssumption DEF FeedInv, Daemon
  <2>3. todo'.workspaces # {} => todo'.run \in Run
    BY <1>1, <2>1 DEF RunsInv, Idle
  <2> QED BY <1>1, <2>1, <2>2, <2>3, RunsApart, NotifierApart
<1>4. ASSUME NEW d \in {"reporter", "triggerer"}, Taken(d), UNCHANGED <<up, notifierVars>>,
             todo'.workspaces # {} => todo'.run \in Run
      PROVE  RunsInv' /\ NotifierInv'
  <2>1. UNCHANGED <<listener, enabled, lapsed, cfgVars, runs, triggers, configs>>
    BY <1>4 DEF Taken, StreamRest, Outside, tables, cfgVars
  <2> QED BY <1>1, <1>4, <2>1, RunsApart, NotifierApart
<1>5. CASE DaemonCloses("reporter") \/ DaemonCloses("triggerer") \/ handleRunFails \/ TriggerRunFails
  BY <1>3, <1>5 DEF DaemonCloses, handleRunFails, TriggerRunFails
<1>6. CASE handleRun
  BY <1>1, <1>4, <1>6 DEF handleRun, RunsInv
<1>7. CASE process
  <2>1. NextEvent("triggerer").run \in Run
    <3>1. "triggerer" \in Sub
      BY WatchersAssumption
    <3>2. NextEvent("triggerer") \in Change
      BY <1>1, <1>7, <3>1, TakenEvent DEF process
    <3> QED BY <3>2 DEF Change
  <2>2. todo'.workspaces # {} => todo'.run \in Run
    BY <1>7, <2>1 DEF process, Idle
  <2> QED BY <1>4, <1>7, <2>2 DEF process
<1>8. ASSUME NEW w \in Workspace, TriggerRun(w) PROVE RunsInv' /\ NotifierInv'
  <2>1. UNCHANGED <<listener, enabled, lapsed, cfgVars, configs, up, notifierVars>>
    BY <1>8 DEF TriggerRun, Insert, Publish
  <2> QED BY <1>1, <1>8, <2>1, TriggerRunKeepsRuns, NotifierApart
<1> QED BY <1>2, <1>5, <1>6, <1>7, <1>8 DEF ReporterSteps, TriggererSteps

LEMMA NotifierStepsKeepAll == ASSUME WatchersInv, NotifierSteps PROVE RunsInv' /\ NotifierInv'
<1>1. IInv /\ FeedInv /\ RunsInv /\ NotifierInv
  BY DEF WatchersInv, IInv
<1>2. /\ UNCHANGED <<runs, triggers>>
      /\ todo' = todo
  <2>1. "notifier" # "triggerer"
    OBVIOUS
  <2> QED BY <2>1 DEF NotifierSteps, StartNotifier, newCache, newCacheFails, NotifierCloses, handleConfigEvent,
       handleRunEvent, Taken, Outside, Stops, tables, daemonVars
<1>3. RunsInv'
  BY <1>1, <1>2, RunsApart DEF RunsInv
<1>4. ASSUME StartNotifier PROVE NotifierInv'
  BY <1>1, <1>4, NotifierStarts
<1>5. ASSUME newCache PROVE NotifierInv'
  BY <1>1, <1>5, NewCacheKeeps
<1>6. ASSUME newCacheFails \/ NotifierCloses PROVE NotifierInv'
  BY <1>1, <1>6, NotifierEnds DEF newCacheFails, NotifierCloses
<1>7. ASSUME handleConfigEvent PROVE NotifierInv'
  BY <1>1, <1>7, HandleConfigEventKeeps
<1>8. ASSUME handleRunEvent PROVE NotifierInv'
  <2>1. UNCHANGED <<listener, enabled, lapsed, cfgVars, configs, up, notifierVars>>
    BY <1>8 DEF handleRunEvent, Taken, StreamRest, Outside, tables, cfgVars, daemonVars
  <2> QED BY <1>1, <2>1, NotifierApart
<1>9. NotifierInv'
  BY <1>4, <1>5, <1>6, <1>7, <1>8 DEF NotifierSteps
<1> QED BY <1>3, <1>9

-----------------------------------------------------------------------------
(* The theorems *)

LEMMA InitKeeps == ASSUME Init PROVE IInv
<1>1. /\ feed = <<>> /\ notified = <<>> /\ lapsed = FALSE
      /\ subs = [s \in Sub |-> NoSub] /\ StreamInit
      /\ up = [d \in Daemon |-> FALSE] /\ since = 1
      /\ posted = [r \in Run |-> <<>>] /\ reported = [r \in Run |-> Absent] /\ todo = Idle
  BY DEF Init, StreamInit
<1>2. runs \in [Run -> RunRow] /\ \A r \in Run : runs[r].by = 0
  <2>1. PICK w \in Workspace : runs = [r \in Run |->
          IF r = 1 /\ budget.first # Absent THEN NewRun(budget.first, w, "vcs", 0) ELSE NoRun]
    BY DEF Init
  <2>2. NoRun \in RunRow /\ NoRun.by = 0
    BY DEF NoRun, RunRow, Source
  <2>3. budget.first \in Status \union {Absent}
    BY WatchersAssumption DEF Init
  <2>4. NewRun(budget.first, w, "vcs", 0) \in RunRow /\ NewRun(budget.first, w, "vcs", 0).by = 0
    BY <2>2, <2>3 DEF NewRun, NoRun, RunRow, Source
  <2> QED BY <2>1, <2>2, <2>4
<1>3. FeedInv
  <2>1. StreamInv(Change)
    BY <1>1, StreamInitInv
  <2>2. \A s \in Sub : Ordered(subs[s])
    BY <1>1 DEF Ordered, NoSub
  <2> QED BY <1>1, <1>2, <2>1, <2>2 DEF FeedInv
<1>4. ReporterInv
  <2>1. "reporter" \in Daemon
    BY WatchersAssumption DEF Daemon
  <2>2. <<>> \in Seq(Posted)
    BY EmptySeq
  <2> QED BY <1>1, <2>1, <2>2 DEF ReporterInv, CacheIsPosted, LastHandledIsPosted
<1>5. TriggererInv
  <2>1. \A r \in Run : r # 0
    BY DEF Run
  <2>2. todo \in [run : Run \union {0}, workspaces : SUBSET Workspace] /\ todo.run = 0
    BY <1>1 DEF Idle
  <2>3. ASSUME NEW r \in Run PROVE TriggersOfRun(r)
    BY <1>2, <2>1, <2>2, <2>3 DEF TriggersOfRun
  <2> QED BY <2>2, <2>3 DEF TriggererInv
<1> QED BY <1>3, <1>4, <1>5 DEF IInv

LEMMA StepKeeps == ASSUME IInv, [Next]_vars PROVE IInv'
<1>1. CASE TableSteps
  BY <1>1, TableStepsKeep
<1>2. CASE Outage \/ ListenerSteps
  BY <1>2, ListenerStepsKeep
<1>3. CASE ReporterSteps
  <2>1. CASE StartDaemon("reporter")
    BY <2>1, StartKeeps
  <2>2. CASE DaemonCloses("reporter") \/ handleRunFails
    BY <2>2, StopsKeeps DEF DaemonCloses, handleRunFails
  <2>3. CASE handleRun
    BY <2>3, HandleRunKeeps
  <2> QED BY <1>3, <2>1, <2>2, <2>3 DEF ReporterSteps
<1>4. CASE TriggererSteps
  <2>1. CASE StartDaemon("triggerer")
    BY <2>1, StartKeeps
  <2>2. CASE DaemonCloses("triggerer") \/ TriggerRunFails
    BY <2>2, StopsKeeps DEF DaemonCloses, TriggerRunFails
  <2>3. CASE process
    BY <2>3, ProcessKeeps
  <2>4. CASE \E w \in Workspace : TriggerRun(w)
    BY <2>4, TriggerRunKeeps
  <2> QED BY <1>4, <2>1, <2>2, <2>3, <2>4 DEF TriggererSteps
<1>5. CASE NotifierSteps
  BY <1>5, NotifierStepsKeep
<1>6. CASE UNCHANGED vars
  BY <1>6, Apart DEF vars, tables, daemonVars, reporterVars
<1> QED BY <1>1, <1>2, <1>3, <1>4, <1>5, <1>6 DEF Next

\* The commit status of a run at its provider is that of the last event of the
\* run that the reporter has handled since it was started: what the reporter
\* keeps over its restarts (Reporter.cache) never makes it skip a status that
\* differs from the one set last.
THEOREM CommitStatus == Spec => []CommitStatusIsCurrent
<1>1. IInv => CommitStatusIsCurrent
  <2> SUFFICES ASSUME IInv, up["reporter"], NEW r \in Run, Handled(r) # {}
               PROVE  posted[r] # <<>> /\ Last(posted[r]) = VCSStatus(feed[Max(Handled(r))].status)
    BY DEF CommitStatusIsCurrent
  <2>1. PICK id \in Handled(r) : IsPosted(r, id)
    BY DEF IInv, ReporterInv, LastHandledIsPosted
  <2>2. Handled(r) \subseteq Int
    BY DEF Handled
  <2>3. Max(Handled(r)) = id
    <3>1. id \in Handled(r) /\ \A other \in Handled(r) : id >= other
      BY <2>1 DEF IsPosted
    <3>2. \A m \in Handled(r) : (\A other \in Handled(r) : m >= other) => m = id
      BY <2>2, <3>1
    <3> QED BY <3>1, <3>2 DEF Max
  <2> QED BY <2>1, <2>3 DEF IsPosted
<1> QED BY <1>1, InitKeeps, StepKeeps, PTL DEF Spec

\* Only a run that was applied triggers runs, and no more than one in each of
\* the workspaces that are connected to its own, unless its row is updated
\* once more: no restart of the triggerer, and no outage, makes it handle an
\* event for a second time (Triggerer.process).
THEOREM AppliedRunsTrigger == Spec => []TriggersWhenApplied
<1>1. IInv => TriggersWhenApplied
  <2> SUFFICES ASSUME IInv, NEW r \in Run, NEW w \in Workspace, Triggered(r, w) # {}
               PROVE  Applied(r) /\ (Touched(r) \/ Cardinality(Triggered(r, w)) = 1)
    BY DEF TriggersWhenApplied
  <2>1. TriggersOfRun(r)
    BY DEF IInv, TriggererInv
  <2>2. PICK q \in Run : runs[q].by = r /\ runs[q].workspace = w
    BY DEF Triggered
  <2>3. AppliedBefore(r)
    BY <2>1, <2>2 DEF TriggersOfRun
  <2>4. Applied(r)
    BY <2>3, FrontierBounded DEF Applied, AppliedBefore, IInv
  <2>5. ASSUME ~Touched(r) PROVE Cardinality(Triggered(r, w)) = 1
    <3>1. Triggered(r, w) = {q}
      BY <2>1, <2>2, <2>5 DEF TriggersOfRun, Triggered
    <3> QED BY <3>1, FS_Singleton
  <2> QED BY <2>4, <2>5
<1> QED BY <1>1, InitKeeps, StepKeeps, PTL DEF Spec
LEMMA InitKeepsAll == ASSUME Init PROVE WatchersInv
<1>1. /\ StreamInit /\ configs = [c \in Config |-> NoConfig]
      /\ cfgFeed = <<>> /\ cfgRows = {} /\ cfgNotified = <<>>
      /\ cfgSubs = [s \in {"notifier"} |-> NoSub]
      /\ triggers = {} /\ up = [d \in Daemon |-> FALSE] /\ todo = Idle
      /\ cached = [c \in Config |-> NoConfig] /\ clients = [u \in URL |-> NoClient] /\ spoilt = {}
  BY DEF Init
<1>2. RunsInv
  <2>1. PICK w \in Workspace : runs = [r \in Run |->
          IF r = 1 /\ budget.first # Absent THEN NewRun(budget.first, w, "vcs", 0) ELSE NoRun]
    BY DEF Init
  <2>2. \A r \in Run : r \in Nat /\ 0 < r
    BY WatchersAssumption DEF Run
  <2>3. NewRun(budget.first, w, "vcs", 0).by = 0 /\ NoRun.by = 0
    BY DEF NewRun, NoRun
  <2>4. \A r \in Run : runs[r].by < r
    BY <2>1, <2>2, <2>3
  <2>5. \A r \in Run : r # 1 => runs[r] = NoRun
    BY <2>1
  <2>6. \A r, q \in Run : r < q => q # 1
    BY <2>2
  <2> QED BY <1>1, <2>4, <2>5, <2>6 DEF RunsInv, Idle
<1>3. ConfigsInv
  <2>1. CfgP!StreamInit
    BY <1>1 DEF StreamInit, CfgP!StreamInit, NoSub, CfgP!NoSub
  <2>2. CfgP!StreamInv(ConfigEvent)
    BY <2>1, BufferAssumption, CfgP!StreamInitInv
  <2> QED BY <1>1, <2>2 DEF ConfigsInv
<1>4. CacheOK(TheCache)
  <2>1. \A u \in URL : UsersOf(cached, u) = {}
    BY <1>1, ConfigsTyped DEF UsersOf
  <2>2. \A u \in URL : clients[u].count = Cardinality(UsersOf(cached, u))
    BY <1>1, <2>1, FS_EmptySet, ConfigsTyped
  <2>3. cached \in [Config -> Row \union {NoConfig}] /\ clients \in [URL -> Client]
    BY <1>1, ConfigsTyped
  <2> QED BY <1>1, <2>2, <2>3 DEF CacheOK, CacheRecord, TheCache, Cache
<1>5. ~up["notifier"]
  BY <1>1, WatchersAssumption DEF Daemon
<1> QED BY <1>2, <1>3, <1>4, <1>5, InitKeeps DEF WatchersInv, NotifierInv

LEMMA StepKeepsAll == ASSUME WatchersInv, [Next]_vars PROVE WatchersInv'
<1>1. IInv'
  BY StepKeeps DEF WatchersInv
<1>2. RunsInv' /\ NotifierInv'
  <2>1. CASE UNCHANGED vars
    <3>1. UNCHANGED <<listener, enabled, lapsed, cfgVars, runs, triggers, configs, todo, up, notifierVars>>
      BY <2>1 DEF vars, streamVars, tables, daemonVars
    <3> QED BY <3>1, RunsApart, NotifierApart DEF WatchersInv, RunsInv
  <2> QED BY <2>1, TableStepsKeepAll, ListenerStepsKeepAll, DaemonStepsKeepAll,
             NotifierStepsKeepAll DEF Next
<1> QED BY <1>1, <1>2 DEF WatchersInv

\* The notifier has every client that its cached configs use, with as many
\* users as they are (cache.add, cache.remove), and once it has handled the
\* events of configs it has what their table has: neither the overlap of the
\* list that it starts with and the events (newCache, handleConfig), nor an
\* outage of the listener, leaves it with a config that was deleted or
\* without one that there is.
THEOREM NotifierKeepsUp == Spec => []NotifierIsCurrent
<1>1. WatchersInv => NotifierIsCurrent
  <2> SUFFICES ASSUME WatchersInv PROVE NotifierIsCurrent
    OBVIOUS
  <2>1. IInv /\ FeedInv /\ ReporterInv /\ TriggererInv /\ RunsInv /\ NotifierInv /\ ConfigsInv
    BY DEF WatchersInv, IInv, NotifierInv
  <2>2. /\ cached \in [Config -> Row \union {NoConfig}] /\ spoilt \subseteq Config
        /\ \A u \in URL : clients[u].count = Cardinality(UsersOf(cached, u))
    BY <2>1 DEF NotifierInv, CacheOK, CacheRecord, TheCache, Cache
  <2>3. TypeOK
    <3>1. StreamTypeOK
      BY <2>1 DEF FeedInv, StreamInv
    <3>2. Cfg!StreamTypeOK
      BY <2>1 DEF ConfigsInv, CfgP!StreamInv, CfgP!StreamTypeOK, Cfg!StreamTypeOK
    <3>3. ASSUME NEW r \in Run
          PROVE  runs[r].by \in 0..(r - 1) /\ runs[r].coolOff \in {"no", "on", "over"}
      <4>1. runs[r] \in RunRow /\ runs[r].by < r
        BY <2>1 DEF FeedInv, RunsInv
      <4>2. r \in Nat /\ runs[r].by \in Nat
        BY <4>1, WatchersAssumption DEF RunRow, Run
      <4> QED BY <4>1, <4>2 DEF RunRow
    <3>4. ASSUME NEW r \in Run PROVE Range(posted[r]) \subseteq {"pending", "success", "error"}
      <4>1. posted[r] \in Seq(Posted)
        BY <2>1 DEF ReporterInv
      <4> QED BY <4>1 DEF Range, Posted
    <3>5. reported \in [Run -> {Absent, "pending", "success", "error"}]
      <4>1. Posted \union {Absent} = {Absent, "pending", "success", "error"}
        BY DEF Posted
      <4> QED BY <2>1, <4>1 DEF ReporterInv
    <3>6. todo.run \in Run \union {0} /\ todo.workspaces \subseteq Workspace
      BY <2>1 DEF TriggererInv
    <3> QED BY <2>1, <2>2, <3>1, <3>2, <3>3, <3>4, <3>5, <3>6
            DEF TypeOK, FeedInv, RunsInv, ConfigsInv
  <2>4. CacheAgreesWhenQuiet
    <3> SUFFICES ASSUME up["notifier"], cfgSubs["notifier"].open,
                        cfgSubs["notifier"].buffer \o cfgNotified = <<>>, NEW c \in Config
                 PROVE  Agrees(c)
      BY DEF CacheAgreesWhenQuiet, Agrees
    <3>1. cfgSubs["notifier"].due = Len(cfgFeed) + 1 /\ Len(cfgFeed) \in Nat
      <4> DEFINE b == cfgSubs["notifier"].buffer
                 n == cfgNotified
      <4>1. /\ b \in Seq(1..Len(cfgFeed)) /\ n \in Seq(1..Len(cfgFeed)) /\ Len(cfgFeed) \in Nat
            /\ cfgSubs["notifier"].due \in Nat
            /\ cfgSubs["notifier"].due + Len(b) + Len(n) = Len(cfgFeed) + 1
        BY <2>1, ConfigStreamTyped
      <4>2. b \o n = <<>>
        OBVIOUS
      <4> HIDE DEF b, n
      <4>3. Len(b) = 0 /\ Len(n) = 0
        BY <4>1, <4>2, ConcatProperties, EmptySeq, LenProperties
      <4> QED BY <4>1, <4>3
    <3>2. Pending(c) = {}
      BY <3>1 DEF Pending
    <3> QED BY <2>1, <3>2 DEF NotifierInv, CurrentFor
  <2> QED BY <2>2, <2>3, <2>4 DEF NotifierIsCurrent, ClientsCounted
<1> QED BY <1>1, InitKeepsAll, StepKeepsAll, PTL DEF Spec
=============================================================================
