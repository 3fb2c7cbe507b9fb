--------------------------------- MODULE VCS ---------------------------------
(***************************************************************************)
(* From an event at a VCS provider to the runs that it leads to: the       *)
(* webhook's request is converted (github, gitlab, forgejo), published     *)
(* (repohooks, vcs) and handled in a goroutine of its own by the spawner   *)
(* (run/spawner.go).  Runs that users start on a connected workspace       *)
(* (run/factory.go) take the same last steps.                              *)
(*                                                                         *)
(* A goroutine is a task, whose steps are the statements and the calls to  *)
(* the provider between which others may come.  A commit has the number of *)
(* the event that pushed it; commit 0 is the one every branch starts with. *)
(***************************************************************************)
EXTENDS Repohooks

CONSTANTS
  Workspace,     \* a subset of Resource
  InitialTag,    \* the tags of a repository before anything happens
  Settings       \* per workspace, what of it the spawner looks at

ASSUME WorkspaceAssumption == Workspace \subseteq Resource

VARIABLES
  host,          \* the kind of the providers; never changes
  occurred,      \* what has happened, in order
  deliveries,    \* requests from webhooks that have not been handled
  tasks,         \* goroutines that create runs
  cvs,           \* table configuration_versions, in the order of creation
  runs,          \* table runs
  owed,          \* history: events, and the resources they are to reach
  spoilt         \* history: events that a fault has kept from being handled

tables == <<cvs, runs>>
eventVars == <<host, occurred, deliveries, owed, spoilt>>
vcsVars == <<eventVars, tables, tasks>>

VCSInit ==
  /\ HooksInit
  /\ host \in budget.hosts
  /\ occurred = <<>>
  /\ deliveries = {}
  /\ tasks = {}
  /\ cvs = <<>>
  /\ runs = {}
  /\ owed = {}
  /\ spoilt = {}

-----------------------------------------------------------------------------
(* What happened, in the words of each kind of provider *)

\* github.HandleEvent.  A branch push is a create, also when it deletes the
\* branch; a tag that is moved is an error, and so is not published.
GithubAction(raw) ==
  CASE raw.type = "push" -> "created"
    [] raw.type = "tag" /\ raw.verb = "push" -> "created"
    [] raw.type = "tag" /\ raw.verb = "delete" -> "deleted"
    [] raw.type = "pull" /\ raw.verb = "open" -> "created"
    [] raw.type = "pull" /\ raw.verb = "push" -> "updated"
    [] raw.type = "pull" /\ raw.verb = "close" -> "deleted"
    [] raw.type = "pull" /\ raw.verb = "merge" -> "merged"
    [] OTHER -> "none"

\* gitlab.HandleEvent
GitlabAction(raw) ==
  CASE raw.type = "push" -> "created"
    [] raw.type = "tag" -> IF raw.verb = "delete" THEN "deleted" ELSE "created"
    [] raw.type = "pull" /\ raw.verb = "open" -> "created"
    [] raw.type = "pull" /\ raw.verb = "push" -> "updated"
    [] OTHER -> "none"

\* A push to a tag creates it, unless it has no commit.
ForgejoPushAction(raw) == IF raw.type = "tag" /\ raw.verb = "delete" THEN "deleted" ELSE "created"

\* Whatever else happens to a pull request is an update.
forgejoActionToVcs(raw) ==
  CASE raw.verb \in {"open", "reopen"} -> "created"
    [] raw.verb = "close" -> "deleted"
    [] raw.verb = "merge" -> "merged"
    [] OTHER -> "updated"

\* forgejo.HandleEvent
ForgejoAction(raw) == IF raw.type = "pull" THEN forgejoActionToVcs(raw) ELSE ForgejoPushAction(raw)

Action(raw) == CASE host = "github" -> GithubAction(raw)
                 [] host = "gitlab" -> GitlabAction(raw)
                 [] host = "forgejo" -> ForgejoAction(raw)

Published(raw) == Action(raw) # "none"

\* The head of a branch at the provider.
HeadOf(repo, branch) == Max({0} \union { i \in DOMAIN occurred :
  /\ occurred[i].repo = repo
  /\ occurred[i].raw.type = "push" /\ occurred[i].raw.name = branch /\ occurred[i].raw.verb = "push" })

\* Its tags.
Pushes(repo, tag) == { i \in DOMAIN occurred :
  occurred[i].repo = repo /\ occurred[i].raw.type = "tag" /\ occurred[i].raw.name = tag }
HasTag(repo, tag) ==
  LET all == Pushes(repo, tag) IN
  IF all = {} THEN tag \in InitialTag ELSE occurred[Max(all)].raw.verb # "delete"

-----------------------------------------------------------------------------
(* Which workspaces an event is for *)

DefaultBranch == "main"

\* handleWithError skips actions other than those that create or update.
Applicable(action) == action \in {"created", "updated"}

\* Mutant: a workspace that wants tags is not skipped for a push.
EventMatchesNoTagCheck(setting, raw) ==
  CASE raw.type = "tag" -> setting.tags = {} \/ raw.name \in setting.tags
    [] raw.type = "push" -> raw.name = (IF setting.branch = "" THEN DefaultBranch ELSE setting.branch)
    [] raw.type = "pull" -> setting.speculative

\* The filter on what the event itself says; setting.tags are the tags that
\* the workspace's regular expression matches, {} when it has none.
EventMatches(setting, raw) ==
  CASE raw.type = "tag" -> setting.tags = {} \/ raw.name \in setting.tags
    [] raw.type = "push" ->
         /\ raw.name = (IF setting.branch = "" THEN DefaultBranch ELSE setting.branch)
         /\ setting.tags = {}
    [] raw.type = "pull" -> setting.speculative

\* globMatch; setting.patterns are the paths that the trigger patterns match.
globMatch(paths, patterns) == paths \intersect patterns # {}
PathsMatch(setting, raw) == setting.patterns = {} \/ globMatch(raw.paths, setting.patterns)

\* Tag and push events have the changed files with them.
FirstFilter(setting, raw) == EventMatches(setting, raw) /\ (raw.type = "pull" \/ PathsMatch(setting, raw))

ListConnectedWorkspaces(key) == { w \in Workspace : connections[w] = key }

-----------------------------------------------------------------------------
(* Events and their delivery *)

\* Is there a way from the repository to the hook of the key?
Reached(k) ==
  \/ k[1] \in SkipRepohook
  \/ hooks[k] # NoHook /\ \E w \in webhooks : w.key = k /\ w.endpoint = hooks[k].id

Connected(repo) == { r \in Resource : connections[r] # NoKey /\ connections[r][2] = repo }

\* The providers that need no webhook are those of a GitHub app, which has one
\* webhook for all of them.
Occurs(raw, repo) ==
  LET i == Len(occurred) + 1
      hookDeliveries == { [event |-> i, by |-> w.id, endpoint |-> w.endpoint] :
                            w \in { w \in webhooks : w.key[2] = repo } }
      appDeliveries == IF SkipRepohook = {} THEN {} ELSE { [event |-> i, by |-> 0, endpoint |-> 0] } IN
  /\ Spend("events")
  /\ raw.type = "tag" => (raw.verb = "push") = ~HasTag(repo, raw.name)
  /\ occurred' = Append(occurred, [raw |-> raw, repo |-> repo])
  /\ deliveries' = deliveries \union hookDeliveries \union appDeliveries
  /\ owed' = owed \union { <<i, r>> : r \in Connected(repo) }
  /\ spoilt' = IF \A r \in Connected(repo) : Reached(connections[r]) THEN spoilt ELSE spoilt \union {i}
  /\ UNCHANGED <<hookVars, host, tables, tasks>>

DeliveryLost(d) ==
  /\ Spend("losses")
  /\ deliveries' = deliveries \ {d}
  /\ spoilt' = spoilt \union {d.event}
  /\ UNCHANGED <<hookVars, host, occurred, owed, tables, tasks>>

\* The keys an event is published for: repohookHandler looks for the hook, the
\* handler of the GitHub app for all providers of the installation.
PublishedFor(d) ==
  IF ~Published(occurred[d.event].raw) THEN {}
  ELSE IF d.endpoint = 0
  THEN { k \in Key : k[1] \in SkipRepohook \intersect providers /\ k[2] = occurred[d.event].repo }
  ELSE { k \in Key : hooks[k] # NoHook /\ hooks[k].id = d.endpoint }

-----------------------------------------------------------------------------
(* Tasks.  Field by tells the tasks of one event apart. *)

NoTask == [op |-> "none", event |-> 0, by |-> 0, key |-> NoKey, step |-> "filter",
           todo |-> {}, now |-> "none", cv |-> 0, commit |-> 0]

\* Broker.Publish, for the spawner
Spawners(d) == { [NoTask EXCEPT !.op = "spawner", !.event = d.event, !.by = d.by, !.key = k] :
                   k \in PublishedFor(d) }

repohookHandler(d) ==
  /\ deliveries' = deliveries \ {d}
  /\ tasks' = tasks \union Spawners(d)
  /\ UNCHANGED <<hookVars, budget, host, occurred, owed, spoilt, tables>>

Continue(t, next) == tasks' = (tasks \ {t}) \union {next}
Finish(t) == tasks' = tasks \ {t}

SpawnerFilters(t) ==
  LET raw == occurred[t.event].raw
      found == { w \in ListConnectedWorkspaces(t.key) : FirstFilter(Settings[w], raw) } IN
  /\ t.op = "spawner" /\ t.step = "filter"
  /\ IF Applicable(Action(raw)) /\ found # {}
     THEN Continue(t, [t EXCEPT !.step = "fetch", !.todo = found])
     ELSE Finish(t)
  /\ UNCHANGED <<hookVars, budget, eventVars, tables>>

\* Mutant: the head of the branch is fetched, not the commit of the event.
CommitOfHead(t) == HeadOf(t.key[2], occurred[t.event].raw.name)

CommitOf(t) == t.event

\* The tarball of the commit and, for a pull request, the list of its files.
SpawnerFetches(t) ==
  LET raw == occurred[t.event].raw
      found == { w \in t.todo : raw.type # "pull" \/ PathsMatch(Settings[w], raw) } IN
  /\ t.op = "spawner" /\ t.step = "fetch"
  /\ t.key[1] \in providers
  /\ raw.verb # "delete"
  /\ IF found = {} THEN Finish(t)
     ELSE Continue(t, [t EXCEPT !.step = "create", !.todo = found, !.commit = CommitOf(t)])
  /\ UNCHANGED <<hookVars, budget, eventVars, tables>>

\* createConfigVersionFromVCS, on behalf of a user
FactoryFetches(t) ==
  LET setting == Settings[CHOOSE w \in t.todo : TRUE]
      branch == IF setting.branch = "" THEN DefaultBranch ELSE setting.branch IN
  /\ t.op = "factory" /\ t.step = "fetch"
  /\ t.key[1] \in providers
  /\ Continue(t, [t EXCEPT !.step = "create", !.commit = HeadOf(t.key[2], branch)])
  /\ UNCHANGED <<hookVars, budget, eventVars, tables>>

CreateConfigVersion(t) ==
  /\ t.step = "create"
  /\ \E w \in t.todo :
       /\ cvs' = Append(cvs, [workspace |-> w, status |-> "pending", commit |-> t.commit])
       /\ Continue(t, [t EXCEPT !.step = "upload", !.now = w, !.cv = Len(cvs) + 1, !.todo = @ \ {w}])
  /\ UNCHANGED <<hookVars, budget, eventVars, runs>>

\* Nothing is said when there is no such row any more.
Uploaded(n) == IF cvs[n].status = "deleted" THEN cvs ELSE [cvs EXCEPT ![n].status = "uploaded"]

UploadConfig(t) ==
  /\ t.step = "upload"
  /\ cvs' = Uploaded(t.cv)
  /\ Continue(t, [t EXCEPT !.step = "run"])
  /\ UNCHANGED <<hookVars, budget, eventVars, runs>>

CreateRun(t) ==
  /\ t.step = "run"
  /\ cvs[t.cv].status # "deleted"
  /\ runs' = runs \union {[workspace |-> t.now, cv |-> t.cv, event |-> t.event, key |-> t.key]}
  /\ IF t.todo = {} THEN Finish(t) ELSE Continue(t, [t EXCEPT !.step = "create"])
  /\ UNCHANGED <<hookVars, budget, eventVars, cvs>>

\* A call fails, and with it the task: the provider has gone, the branch has
\* been deleted and with it the commit, the configuration is no longer there,
\* or there is a fault.
TaskFails(t) ==
  /\ \/ /\ \/ t.step = "fetch" /\ t.key[1] \notin providers
           \/ t.step = "fetch" /\ t.op = "spawner" /\ occurred[t.event].raw.verb = "delete"
           \/ t.step = "run" /\ cvs[t.cv].status = "deleted"
        /\ budget' = budget
     \/ Spend("failures")
  /\ Finish(t)
  /\ spoilt' = spoilt \union {t.event}
  /\ UNCHANGED <<hookVars, host, occurred, deliveries, owed, tables>>

-----------------------------------------------------------------------------
(* Users *)

\* CreateRun: a connected workspace gets its configuration from the
\* repository, another the latest that there is, uploaded or not.
StartRun(w) ==
  LET own == { n \in DOMAIN cvs : cvs[n].workspace = w /\ cvs[n].status # "deleted" } IN
  /\ Spend("userRuns")
  /\ IF connections[w] # NoKey
     THEN /\ tasks' = tasks \union {[NoTask EXCEPT !.op = "factory", !.key = connections[w],
                                                  !.step = "fetch", !.todo = {w}]}
          /\ runs' = runs
     ELSE /\ own # {}
          /\ runs' = runs \union {[workspace |-> w, cv |-> Max(own), event |-> 0, key |-> NoKey]}
          /\ tasks' = tasks
  /\ UNCHANGED <<hookVars, eventVars, cvs>>

\* The CLI creates a configuration and uploads it.
CreateEmptyConfigVersion(w) ==
  /\ Spend("uploads")
  /\ cvs' = Append(cvs, [workspace |-> w, status |-> "pending", commit |-> 0])
  /\ UNCHANGED <<hookVars, eventVars, runs, tasks>>

UploadConfigByUser(n) ==
  /\ Spend("uploads")
  /\ cvs' = Uploaded(n)
  /\ UNCHANGED <<hookVars, eventVars, runs, tasks>>

\* By a user or the deleter of old configurations; the runs go with it.
DeleteConfigVersion(n) ==
  /\ Spend("cvDeletes")
  /\ cvs' = [cvs EXCEPT ![n].status = "deleted"]
  /\ runs' = { run \in runs : run.cv # n }
  /\ owed' = { o \in owed : \A run \in runs : run.cv = n => o # <<run.event, run.workspace>> }
  /\ UNCHANGED <<hookVars, host, occurred, deliveries, spoilt, tasks>>

\* Which of the resources are connected no longer, when a transaction commits.
StillOwed == { o \in owed : connections'[o[2]] # NoKey }

VCSSteps ==
  \/ \E raw \in budget.raws, repo \in Repo : Occurs(raw, repo)
  \/ \E d \in deliveries : DeliveryLost(d)
  \/ \E t \in tasks : SpawnerFilters(t) \/ SpawnerFetches(t) \/ FactoryFetches(t) \/ CreateConfigVersion(t)
                        \/ UploadConfig(t) \/ CreateRun(t) \/ TaskFails(t)
  \/ \E w \in Workspace : StartRun(w) \/ CreateEmptyConfigVersion(w)
  \/ \E n \in DOMAIN cvs : UploadConfigByUser(n) \/ DeleteConfigVersion(n)

-----------------------------------------------------------------------------
VCSTypeOK ==
  /\ host \in {"github", "gitlab", "forgejo"}
  /\ \A d \in deliveries : d.event \in DOMAIN occurred
  /\ \A t \in tasks : t.event \in 0..Len(occurred) /\ t.key \in Key /\ t.todo \subseteq Workspace
  /\ \A run \in runs : run.cv \in DOMAIN cvs /\ run.event \in 0..Len(occurred)

\* What the choices offered for a workspace promise: runs always, when files
\* on certain paths change, or when certain tags are pushed; and a plan when a
\* pull request is opened or pushed to.
Promised(setting, raw) ==
  \/ /\ raw.type = "push" /\ raw.verb = "push"
     /\ setting.tags = {}
     /\ raw.name = setting.branch \/ (setting.branch = "" /\ raw.name = DefaultBranch)
     /\ setting.patterns # {} => raw.paths \intersect setting.patterns # {}
  \/ /\ raw.type = "tag" /\ raw.verb = "push"
     /\ setting.tags # {} => raw.name \in setting.tags
     /\ setting.patterns # {} => raw.paths \intersect setting.patterns # {}
  \/ /\ raw.type = "pull" /\ raw.verb \in {"open", "push"}
     /\ setting.speculative
     /\ setting.patterns # {} => raw.paths \intersect setting.patterns # {}

\* Forgejo's other changes of a pull request count as a push to it.
ForgejoChange(raw) == host = "forgejo" /\ raw.type = "pull" /\ raw.verb \in {"reopen", "label"}

RunsOf(i, w) == { run \in runs : run.event = i /\ run.workspace = w }

Handled(i) == (\A d \in deliveries : d.event # i) /\ (\A t \in tasks : t.event # i)

\* An event leads to a run in every workspace that was connected when it
\* happened and still is, when its settings promise one, and in no other;
\* however connections come and go meanwhile, unless the workspace was connected
\* while a removal was about to delete the hook.
EventsLeadToRuns ==
  /\ \A o \in owed : o[2] \notin overtaken /\ o[1] \notin spoilt /\ Handled(o[1]) /\ o[2] \in Workspace
        /\ Promised(Settings[o[2]], occurred[o[1]].raw) => RunsOf(o[1], o[2]) # {}
  /\ \A run \in runs : run.event # 0 =>
        LET raw == occurred[run.event].raw IN
        Promised(Settings[run.workspace], raw) \/ ForgejoChange(raw)

\* It leads to one run in a workspace for each provider that the workspace was
\* connected with, although several connections share the webhook and several
\* Connects may have synchronised it; unless a webhook was lost and replaced.
OneRunPerEvent ==
  lost = {} => \A run, other \in runs :
    run.event # 0 /\ run.event = other.event /\ run.workspace = other.workspace /\ run.key = other.key
      => run = other

\* A run from a repository is created after its configuration has been
\* uploaded, which is the commit that was pushed and not a later one.
RunsHaveConfig ==
  \A run \in runs : run.key # NoKey =>
    /\ cvs[run.cv].status = "uploaded" /\ cvs[run.cv].workspace = run.workspace
    /\ run.event # 0 => cvs[run.cv].commit = run.event
=============================================================================
