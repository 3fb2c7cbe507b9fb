------------------------------- MODULE Watchers -------------------------------
(***************************************************************************)
(* The daemons that act on the events of runs: the reporter sets the       *)
(* status of a commit at its VCS provider (run/reporter.go), the triggerer *)
(* creates runs in the workspaces connected by run triggers                *)
(* (run/trigger), the notifier publishes notifications (notifications).    *)
(*                                                                         *)
(* All three see every change of a row of the table runs, and not only the *)
(* changes of its status: the upload of a lock file, a cancelation signal, *)
(* the no-op update that follows it and, when a run is deleted, the update *)
(* of the runs that it triggered, are events as well.  The node may be     *)
(* started when a run is already under way, and other nodes may have some  *)
(* of the daemons, which are exclusive.                                    *)
(*                                                                         *)
(* Two instances of EventStream share the listener: the changes of runs    *)
(* and those of notification_configurations.                               *)
(***************************************************************************)
EXTENDS EventStream

CONSTANTS
  Workspace, Config, URL,
  Row,           \* the notification configs there may be
  MaxRuns,       \* bound: runs that are ever created
  Budgets        \* bounds: where a behaviour starts and what changes it may have

Daemon == Sub    \* reporter, triggerer and notifier, each with a subscription
Run == 1..MaxRuns

VARIABLES
  runs,          \* table runs: status, workspace, source, triggering run, signal
  triggers,      \* table run_triggers: pairs of triggering and triggered workspace
  configs,       \* table notification_configurations
  spoilt,        \* history: configs whose client could not be made
  cfgFeed, cfgRows, cfgNotified, cfgSubs,
  up,            \* per daemon: is it past its start?
  since,         \* history: the first event of the reporter's subscription
  posted,        \* per run, the statuses set at the VCS provider
  reported,      \* Reporter.cache
  todo,          \* the triggerer's loop: the run, and the workspaces to go
  cached,        \* the notifier's cache: configs
  clients,       \* the notifier's cache: per url, its client and how many use it
  budget         \* what is left of the behaviour's budget

Cfg == INSTANCE EventStream WITH
  Sub <- {"notifier"}, feed <- cfgFeed, rows <- cfgRows,
  notified <- cfgNotified, subs <- cfgSubs

cfgVars == <<cfgFeed, cfgRows, cfgNotified, cfgSubs>>
tables == <<runs, triggers, configs>>
reporterVars == <<since, posted, reported>>
notifierVars == <<cached, clients, spoilt>>
daemonVars == <<up, reporterVars, todo, notifierVars>>
vars == <<streamVars, cfgVars, tables, daemonVars, budget>>

Done == {"applied", "planned_and_finished", "errored", "canceled", "force_canceled", "discarded"}
InProgress == {"planning", "applying"}
Status == {"pending", "plan_queued", "planned", "confirmed", "cost_estimated", "apply_queued"}
            \union InProgress \union Done

Absent == "absent"
Gone == "gone"       \* ids are not used again
NoConfig == [destination |-> Absent]
GoneConfig == [destination |-> Gone]
NoClient == [count |-> 0, destination |-> Absent]
NoRun == [status |-> Absent, workspace |-> Absent, source |-> Absent, by |-> 0,
          coolOff |-> "no"]
Idle == [run |-> 0, workspaces |-> {}]

NewRun(status, w, source, by) == [NoRun EXCEPT
  !.status = status, !.workspace = w, !.source = source, !.by = by]

\* There are no more daemons than these, a run that there is at the start has
\* a status, and a config its destination, with a URL unless it is for email.
ASSUME WatchersAssumption ==
  /\ Sub = {"reporter", "triggerer", "notifier"}
  /\ MaxRuns \in Nat /\ IsFiniteSet(Config)
  /\ \A b \in Budgets : b.first \in Status \union {Absent}
  /\ \A row \in Row : /\ row.destination \notin {Absent, Gone}
                      /\ row.destination # "email" => row.url \in URL

Init ==
  /\ StreamInit
  /\ cfgFeed = <<>> /\ cfgRows = {} /\ cfgNotified = <<>> /\ cfgSubs = [s \in {"notifier"} |-> NoSub]
  /\ budget \in Budgets
  /\ \E w \in Workspace : runs = [r \in Run |->
       IF r = 1 /\ budget.first # Absent THEN NewRun(budget.first, w, "vcs", 0) ELSE NoRun]
  /\ triggers = {}
  /\ configs = [c \in Config |-> NoConfig]
  /\ up = [d \in Daemon |-> FALSE]
  /\ since = 1
  /\ posted = [r \in Run |-> <<>>]
  /\ reported = [r \in Run |-> Absent]
  /\ todo = Idle
  /\ cached = [c \in Config |-> NoConfig]
  /\ clients = [u \in URL |-> NoClient]
  /\ spoilt = {}

\* One of the changes that a behaviour has a budget for.
Spend(kind) == /\ budget[kind] > 0
               /\ budget' = [budget EXCEPT ![kind] = @ - 1]

-----------------------------------------------------------------------------
(* The tables and their events *)


\* The statuses the methods of a run move it to.  Run.Cancel refuses none.
Moves(from) == {"canceled"} \union
  CASE from = "pending" -> {"plan_queued"}
    [] from = "plan_queued" -> {"planning"}
    [] from = "planning" -> {"planned", "cost_estimated", "planned_and_finished", "errored"}
    [] from \in {"planned", "cost_estimated"} -> {"apply_queued", "discarded"}
    [] from = "apply_queued" -> {"applying"}
    [] from = "applying" -> {"applied", "errored"}
    [] OTHER -> {}

RunEvent(type, r, table) ==
  [type |-> type, run |-> r, status |-> table[r].status,
   workspace |-> table[r].workspace, source |-> table[r].source]

Publish(table, events) ==
  /\ runs' = table
  /\ build_and_send_event(events)
  /\ UNCHANGED <<listener, enabled, subs, lapsed, cfgVars, triggers, configs>>

Exists(r) == runs[r].status \notin {Absent, Gone}
Fresh(r) == runs[r] = NoRun /\ \A q \in 1..(r - 1) : runs[q] # NoRun

Insert(r, w, source, by) ==
  /\ Fresh(r)
  /\ LET table == [runs EXCEPT ![r] = NewRun("pending", w, source, by)] IN
     Publish(table, <<RunEvent("created", r, table)>>)

CreateRun(r, w, source) ==
  /\ Spend("runs")
  /\ Insert(r, w, source, 0)
  /\ UNCHANGED daemonVars

\* Every UPDATE of a run's row.
Update(r, row) ==
  LET table == [runs EXCEPT ![r] = row] IN
  Publish(table, <<RunEvent("updated", r, table)>>)

UpdateStatus(r, to) ==
  /\ Spend("moves")
  /\ Exists(r)
  /\ to \in Moves(runs[r].status)
  /\ to = "canceled" => runs[r].status \notin InProgress \/ runs[r].coolOff # "no"
  /\ Update(r, [runs[r] EXCEPT !.status = to])
  /\ UNCHANGED daemonVars

UploadLockFile(r) ==
  /\ Spend("touches")
  /\ runs[r].status = "planning"
  /\ Update(r, runs[r])
  /\ UNCHANGED daemonVars

\* CancelRun of a run in progress only signals its job, and only once.
CancelRun(r) ==
  /\ Spend("touches")
  /\ runs[r].status \in InProgress
  /\ runs[r].coolOff = "no"
  /\ Update(r, [runs[r] EXCEPT !.coolOff = "on"])
  /\ UNCHANGED daemonVars

\* The cool-off period after the signal is over, whatever the run has become.
triggerEvent(r) ==
  /\ Exists(r)
  /\ runs[r].coolOff = "on"
  /\ Update(r, [runs[r] EXCEPT !.coolOff = "over"])
  /\ UNCHANGED <<daemonVars, budget>>

ForceCancelRun(r) ==
  /\ Spend("moves")
  /\ Exists(r)
  /\ runs[r].status \notin Done
  /\ runs[r].coolOff = "over"
  /\ Update(r, [runs[r] EXCEPT !.status = "force_canceled"])
  /\ UNCHANGED daemonVars

\* The runs that it triggered are updated: ON DELETE SET NULL.
DeleteRun(r) ==
  LET orphans == {q \in Run : Exists(q) /\ runs[q].by = r}
      table == [q \in Run |-> CASE q = r -> [runs[q] EXCEPT !.status = Gone]
                                [] q \in orphans -> [runs[q] EXCEPT !.by = 0]
                                [] OTHER -> runs[q]] IN
  /\ Spend("deletes")
  /\ Exists(r)
  /\ Publish(table, SetToSeq({RunEvent("updated", q, runs) : q \in orphans})
                      \o <<RunEvent("deleted", r, runs)>>)
  /\ UNCHANGED daemonVars

Unmoved == UNCHANGED <<streamVars, runs, daemonVars>>

\* A workspace cannot trigger itself; longer loops are not refused.
CreateRunTrigger(w, triggering) ==
  /\ Spend("triggers")
  /\ w # triggering
  /\ triggers' = triggers \union {<<triggering, w>>}
  /\ Unmoved /\ UNCHANGED <<cfgVars, configs>>

DeleteRunTrigger(t) ==
  /\ Spend("triggers")
  /\ triggers' = triggers \ {t}
  /\ Unmoved /\ UNCHANGED <<cfgVars, configs>>

Configured(c) == configs[c] \notin {NoConfig, GoneConfig}

ChangeConfig(type, c, row) ==
  /\ Spend("configs")
  /\ configs' = [configs EXCEPT ![c] = row]
  /\ Cfg!build_and_send_event(<<[type |-> type, config |-> c, row |-> row]>>)
  /\ UNCHANGED cfgSubs
  /\ Unmoved /\ UNCHANGED triggers

CreateNotificationConfig(c, row) ==
  /\ configs[c] = NoConfig
  /\ ChangeConfig("created", c, row)

\* Config.update changes neither the destination nor the workspace.
UpdateNotificationConfig(c, row) ==
  /\ Configured(c)
  /\ row.destination = configs[c].destination /\ row.workspace = configs[c].workspace
  /\ ChangeConfig("updated", c, row)

DeleteNotificationConfig(c) ==
  /\ Configured(c)
  /\ ChangeConfig("deleted", c, GoneConfig)

-----------------------------------------------------------------------------
(* Starting and stopping *)

StreamRest == UNCHANGED <<feed, rows, listener, notified, enabled, lapsed>>
Outside == UNCHANGED <<tables, budget, cfgFeed, cfgRows, cfgNotified>>

\* The supervisor starts the reporter or the triggerer, which subscribes.
StartDaemon(d) ==
  /\ d \in budget.here
  /\ ~up[d]
  /\ Subscribe(d)
  /\ up' = [up EXCEPT ![d] = TRUE]
  /\ since' = IF d = "reporter" THEN subs'[d].due ELSE since
  /\ StreamRest /\ Outside
  /\ UNCHANGED <<cfgSubs, posted, reported, todo, notifierVars>>

\* A daemon returns an error, or finds its subscription closed: what it had
\* not handled is lost.
Stops(d) ==
  /\ up' = [up EXCEPT ![d] = FALSE]
  /\ Unsubscribe(d)
  /\ todo' = IF d = "triggerer" THEN Idle ELSE todo
  /\ StreamRest
  /\ UNCHANGED <<tables, cfgFeed, cfgRows, cfgNotified, reporterVars, notifierVars>>

ClosedChannel(sub) == ~sub.open /\ sub.buffer = <<>>

DaemonCloses(d) ==
  /\ up[d]
  /\ ClosedChannel(subs[d])
  /\ Stops(d)
  /\ UNCHANGED <<cfgSubs, budget>>

\* The next run event of a daemon that is free to take it.
NextEvent(d) == feed[Head(subs[d].buffer)]
HasEvent(d) == up[d] /\ subs[d].buffer # <<>>
Taken(d) == Take(d) /\ StreamRest /\ Outside /\ UNCHANGED cfgSubs

-----------------------------------------------------------------------------
(* The reporter *)

\* There is no case for cost_estimated.
VCSStatus(status) ==
  CASE status \in {"applied", "planned_and_finished"} -> "success"
    [] status \in {"errored", "canceled", "force_canceled", "discarded"} -> "error"
    [] status = "cost_estimated" -> "unknown"
    [] OTHER -> "pending"

Ignored(event) == event.type = "deleted" \/ event.source = "api"

\* Mutant: the cache is consulted for the run alone.
ToPostOnce(event) == reported[event.run] = Absent

\* Is the status other than the one set last?
ToPost(event) == reported[event.run] # VCSStatus(event.status)

\* The run is read again, and may be ahead of the event.
handleRun ==
  LET event == NextEvent("reporter") IN
  /\ HasEvent("reporter")
  /\ Ignored(event) \/ (Exists(event.run) /\ VCSStatus(event.status) # "unknown")
  /\ IF ~Ignored(event) /\ ToPost(event)
     THEN /\ posted' = [posted EXCEPT ![event.run] = Append(@, VCSStatus(event.status))]
          /\ reported' = [reported EXCEPT ![event.run] =
               IF runs[event.run].status \in Done THEN Absent ELSE VCSStatus(event.status)]
     ELSE UNCHANGED <<posted, reported>>
  /\ Taken("reporter")
  /\ UNCHANGED <<up, since, todo, notifierVars>>

\* The run is gone or has no VCS status, or the provider refuses: the error
\* ends the reporter, and with it the events of all other runs.
handleRunFails ==
  LET event == NextEvent("reporter") IN
  /\ HasEvent("reporter")
  /\ ~Ignored(event)
  /\ \/ ~Exists(event.run) /\ budget' = budget
     \/ VCSStatus(event.status) = "unknown" /\ budget' = budget
     \/ Spend("failures")
  /\ Stops("reporter")
  /\ UNCHANGED cfgSubs

-----------------------------------------------------------------------------
(* The triggerer *)

Free == todo.workspaces = {}

\* Mutant: every finished run triggers.
TriggersRunsDone(event) == event.type = "updated" /\ event.status \in Done

TriggersRuns(event) == event.type = "updated" /\ event.status = "applied"

process ==
  LET event == NextEvent("triggerer") IN
  /\ HasEvent("triggerer")
  /\ Free
  /\ todo' = IF TriggersRuns(event)
             THEN [run |-> event.run,
                   workspaces |-> {w \in Workspace : <<event.workspace, w>> \in triggers}]
             ELSE Idle
  /\ Taken("triggerer")
  /\ UNCHANGED <<up, reporterVars, notifierVars>>

\* CreateRun for the next trigger; it refers to the run that triggers.
TriggerRun(w) ==
  /\ w \in todo.workspaces
  /\ Exists(todo.run)
  /\ \E r \in Run : Insert(r, w, "trigger", todo.run)
  /\ todo' = [todo EXCEPT !.workspaces = @ \ {w}]
  /\ UNCHANGED <<budget, up, reporterVars, notifierVars>>

\* CreateRun fails, as it does when the triggering run is gone or a workspace
\* has no configuration; the triggers that are left are not served.
TriggerRunFails ==
  /\ ~Free
  /\ Stops("triggerer")
  /\ UNCHANGED <<cfgSubs, budget>>

-----------------------------------------------------------------------------
(* The notifier *)

\* It subscribes to both tables before it lists the configs.
StartNotifier ==
  /\ "notifier" \in budget.here
  /\ ~up["notifier"]
  /\ subs["notifier"] = NoSub
  /\ Subscribe("notifier")
  /\ Cfg!Subscribe("notifier")
  /\ StreamRest /\ Outside
  /\ UNCHANGED daemonVars

\* An email config is never cached.
Cacheable(row) == row.destination \notin {Absent, Gone, "email"}
Cached(table) == [c \in Config |-> IF Cacheable(table[c]) THEN table[c] ELSE NoConfig]

UsersOf(cache, u) == {c \in Config : Cacheable(cache[c]) /\ cache[c].url = u}

\* defaultFactory.newClient: a topic of Google's needs a URL of Google's.
newClientFails(row) == row.destination = "gcppubsub" /\ row.url # "topic"

\* The configs are added in the order of the list.  The first one with a URL
\* makes the client of all, and a client that cannot be made ends it.
newCache ==
  /\ ~up["notifier"]
  /\ subs["notifier"] # NoSub
  /\ \E maker \in [URL -> Config] :
       /\ \A u \in URL : UsersOf(configs, u) # {} =>
            maker[u] \in UsersOf(configs, u) /\ ~newClientFails(configs[maker[u]])
       /\ cached' = Cached(configs)
       /\ clients' = [u \in URL |-> IF UsersOf(configs, u) = {} THEN NoClient
            ELSE [count |-> Cardinality(UsersOf(configs, u)),
                  destination |-> configs[maker[u]].destination]]
  /\ up' = [up EXCEPT !["notifier"] = TRUE]
  /\ UNCHANGED <<streamVars, cfgVars, tables, budget, reporterVars, todo, spoilt>>

\* The notifier does not start, for any config.
newCacheFails ==
  /\ ~up["notifier"]
  /\ subs["notifier"] # NoSub
  /\ \E c \in Config : Cacheable(configs[c]) /\ newClientFails(configs[c])
  /\ Stops("notifier")
  /\ Cfg!Unsubscribe("notifier")
  /\ UNCHANGED budget

NotifierCloses ==
  /\ up["notifier"]
  /\ ClosedChannel(subs["notifier"]) \/ ClosedChannel(cfgSubs["notifier"])
  /\ Stops("notifier")
  /\ Cfg!Unsubscribe("notifier")
  /\ UNCHANGED budget

\* The cache as the methods below leave it: cached, clients and spoilt.
Cache(c1, c2, c3) == [configs |-> c1, clients |-> c2, spoilt |-> c3]
TheCache == Cache(cached, clients, spoilt)

\* cache.add; a config that is there already is only an error to log.
addConfig(cache, c, row) ==
  LET client == cache.clients[row.url]
      added == [cache.configs EXCEPT ![c] = row] IN
  CASE ~Cacheable(row) \/ cache.configs[c] # NoConfig -> cache
    [] Cacheable(row) /\ cache.configs[c] = NoConfig /\ client # NoClient ->
         [cache EXCEPT !.configs = added, !.clients[row.url].count = @ + 1]
    [] Cacheable(row) /\ cache.configs[c] = NoConfig /\ client = NoClient ->
         IF newClientFails(row) THEN [cache EXCEPT !.spoilt = @ \union {c}]
         ELSE [cache EXCEPT !.configs = added,
                 !.clients[row.url] = [count |-> 1, destination |-> row.destination]]

\* Mutant: the client is not released.
removeConfigKeeping(cache, c) == [cache EXCEPT !.configs[c] = NoConfig]

\* cache.remove; the last config of a client closes it.
removeConfig(cache, c) ==
  LET url == cache.configs[c].url
      left == cache.clients[url].count - 1 IN
  IF cache.configs[c] = NoConfig THEN cache
  ELSE [cache EXCEPT !.configs[c] = NoConfig,
          !.clients[url] = IF left = 0 THEN NoClient ELSE [@ EXCEPT !.count = left]]

\* Mutant: a config that changes is only removed.
UpdatedRemoved(event) == removeConfig(TheCache, event.config)

\* The update of a config that is not cached ends with the error of remove.
Updated(event) ==
  IF cached[event.config] = NoConfig THEN TheCache
  ELSE addConfig(removeConfig(TheCache, event.config), event.config, event.row)

handleConfigEvent ==
  LET event == cfgFeed[Head(cfgSubs["notifier"].buffer)]
      cache == CASE event.type = "created" -> addConfig(TheCache, event.config, event.row)
                 [] event.type = "updated" -> Updated(event)
                 [] event.type = "deleted" -> removeConfig(TheCache, event.config) IN
  /\ up["notifier"]
  /\ Cfg!Take("notifier")
  /\ cached' = cache.configs
  /\ clients' = cache.clients
  /\ spoilt' = cache.spoilt
  /\ Outside
  /\ UNCHANGED <<streamVars, up, reporterVars, todo>>

\* What is published changes nothing here, and neither does a failure.
handleRunEvent ==
  /\ HasEvent("notifier")
  /\ Taken("notifier")
  /\ UNCHANGED daemonVars

-----------------------------------------------------------------------------
ListenerSteps ==
  /\ \/ ForwardNext /\ UNCHANGED cfgVars
     \/ Cfg!ForwardNext /\ UNCHANGED <<feed, rows, notified, subs>>
     \/ Start /\ Cfg!Start
  /\ UNCHANGED <<tables, daemonVars, budget>>

Outage ==
  /\ Spend("outages")
  /\ ConnectionLost /\ Cfg!ConnectionLost
  /\ UNCHANGED <<tables, daemonVars>>

TableSteps ==
  \/ \E r \in Run, w \in Workspace, source \in {"api", "vcs"} : CreateRun(r, w, source)
  \/ \E r \in Run : \/ \E to \in Moves(runs[r].status) : UpdateStatus(r, to)
                    \/ UploadLockFile(r) \/ CancelRun(r) \/ triggerEvent(r)
                    \/ ForceCancelRun(r) \/ DeleteRun(r)
  \/ \E w, triggering \in Workspace : CreateRunTrigger(w, triggering)
  \/ \E t \in triggers : DeleteRunTrigger(t)
  \/ \E c \in Config, row \in Row :
       CreateNotificationConfig(c, row) \/ UpdateNotificationConfig(c, row)
  \/ \E c \in Config : DeleteNotificationConfig(c)

ReporterSteps == StartDaemon("reporter") \/ DaemonCloses("reporter") \/ handleRun \/ handleRunFails

TriggererSteps ==
  \/ StartDaemon("triggerer") \/ DaemonCloses("triggerer") \/ process
  \/ \E w \in Workspace : TriggerRun(w)
  \/ TriggerRunFails

NotifierSteps ==
  \/ StartNotifier \/ newCache \/ newCacheFails \/ NotifierCloses
  \/ handleConfigEvent \/ handleRunEvent

Next == TableSteps \/ Outage \/ ListenerSteps \/ ReporterSteps \/ TriggererSteps \/ NotifierSteps

Spec == Init /\ [][Next]_vars

-----------------------------------------------------------------------------
TypeOK ==
  /\ StreamTypeOK
  /\ Cfg!StreamTypeOK
  /\ \A r \in Run : runs[r].by \in 0..(r - 1) /\ runs[r].coolOff \in {"no", "on", "over"}
  /\ triggers \subseteq Workspace \X Workspace
  /\ configs \in [Config -> Row \union {NoConfig, GoneConfig}]
  /\ up \in [Daemon -> BOOLEAN]
  /\ \A r \in Run : Range(posted[r]) \subseteq {"pending", "success", "error"}
  /\ reported \in [Run -> {Absent, "pending", "success", "error"}]
  /\ todo.run \in Run \union {0} /\ todo.workspaces \subseteq Workspace
  /\ cached \in [Config -> Row \union {NoConfig}]
  /\ spoilt \subseteq Config

\* The ids of the events of a run that the reporter has handled since it
\* subscribed.
Handled(r) == {id \in since..(subs["reporter"].due - 1) : feed[id].run = r /\ ~Ignored(feed[id])}

\* The commit status set last is that of the last event the reporter has
\* handled: neither the cache, which outlives a restart of the reporter and
\* is cleared by what the run has become meanwhile, nor a failure makes it
\* skip a status that has changed.
CommitStatusIsCurrent ==
  up["reporter"] => \A r \in Run : Handled(r) # {} =>
    posted[r] # <<>> /\ Last(posted[r]) = VCSStatus(feed[Max(Handled(r))].status)

Triggered(r, w) == {q \in Run : runs[q].by = r /\ runs[q].workspace = w}

Applied(r) == \E id \in DOMAIN feed : feed[id].run = r /\ feed[id].status = "applied"

\* An update of a run that leaves its status alone, after it was applied.
Touched(r) == \E i, j \in DOMAIN feed :
  i < j /\ feed[i].run = r /\ feed[j].run = r /\ feed[i].status = "applied" /\ feed[j].status = "applied"

\* Only a run that was applied triggers others, in a workspace once; unless
\* its row is updated once more.
TriggersWhenApplied ==
  \A r \in Run, w \in Workspace : Triggered(r, w) # {} =>
    Applied(r) /\ (Touched(r) \/ Cardinality(Triggered(r, w)) = 1)

\* What the triggerer is for: a run that completes triggers one run in each
\* workspace that is connected to its own.
TriggersOnce == \A r \in Run, w \in Workspace : Cardinality(Triggered(r, w)) <= 1

\* Every cached config has its client, which is closed with the last of them:
\* the client that "should never" be missing is there for every event.
ClientsCounted ==
  \A u \in URL : clients[u].count = Cardinality(UsersOf(cached, u))

\* A notifier that has handled the events of configs has those that the table
\* has, however the list it began with and the events overlap.  A config
\* whose client could not be made may be missing, even after its correction.
CacheAgreesWhenQuiet ==
  up["notifier"] /\ cfgSubs["notifier"].open /\ cfgSubs["notifier"].buffer \o cfgNotified = <<>> =>
    \A c \in Config : \/ cached[c] = Cached(configs)[c]
                      \/ c \in spoilt /\ cached[c] = NoConfig

\* The notifier's cache counts its clients (ClientsCounted) and agrees with the
\* table (CacheAgreesWhenQuiet), though the list that it starts with and the
\* events overlap (newCache, handleConfig).
NotifierIsCurrent == TypeOK /\ ClientsCounted /\ CacheAgreesWhenQuiet
=============================================================================
