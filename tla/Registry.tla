------------------------------- MODULE Registry -------------------------------
(***************************************************************************)
(* The module registry (module), with the repositories its modules are     *)
(* published from (VCS) and the connections that modules and workspaces    *)
(* share (Repohooks).                                                      *)
(*                                                                         *)
(* A version of a module is published by the request that publishes the    *)
(* module, which goes through the tags of the repository, and by the       *)
(* publisher, for a tag pushed later; the two may overlap.  A module that  *)
(* is deleted does not come back: it would have another id.                *)
(***************************************************************************)
EXTENDS VCS

CONSTANTS
  Module,        \* a subset of Resource
  RepoOf,        \* the repository each has its name from
  VersionOf      \* the semantic version a tag stands for, or NoVersion

NoVersion == "none"

ASSUME ModuleAssumption == Module = Resource \ Workspace

VARIABLES
  modules,       \* table modules: the status of each
  versions,      \* table module_versions, the tarballs included
  publishing     \* goroutines that publish versions

registryVars == <<modules, versions, publishing>>
vars == <<hookVars, budget, vcsVars, registryVars>>

Absent == "absent"
Gone == "gone"
InTable(m) == modules[m] \notin {Absent, Gone}

Init ==
  /\ VCSInit
  /\ modules = [m \in Module |-> Absent]
  /\ versions = {}
  /\ publishing = {}

-----------------------------------------------------------------------------
(* A version *)

NoPublishing == [op |-> "none", event |-> 0, by |-> 0, key |-> NoKey, module |-> Absent,
                 session |-> Absent, step |-> "find", todo |-> {}, version |-> NoVersion]

Proceed(t, next) == publishing' = (publishing \ {t}) \union {next}
Stop(t) == publishing' = publishing \ {t}

Row(t) == { v \in versions : v.module = t.module /\ v.version = t.version }

\* The publisher's task is done with its version, PublishModule with one tag.
VersionDone(t) == IF t.op = "publisher" THEN Stop(t) ELSE Proceed(t, [t EXCEPT !.step = "tags"])

\* A version is unique, and its module is there; otherwise the task ends, and
\* leaves the module as it is.
CreateVersion(t) ==
  /\ t.step = "version"
  /\ IF InTable(t.module) /\ Row(t) = {}
     THEN /\ versions' = versions \union {[module |-> t.module, version |-> t.version, status |-> "pending"]}
          /\ Proceed(t, [t EXCEPT !.step = "tarball"])
     ELSE versions' = versions /\ Stop(t)
  /\ UNCHANGED <<hookVars, budget, vcsVars, modules>>

\* The tarball is fetched, checked and saved.  Neither failure ends the task.
PublishVersion(t) ==
  /\ t.step = "tarball"
  /\ \E status \in {"ok", "clone_failed", "reg_ingress_failed"} :
       /\ IF status = "ok" THEN budget' = budget ELSE Spend("failures")
       /\ versions' = (versions \ Row(t)) \union { [v EXCEPT !.status = status] : v \in Row(t) }
  /\ IF Row(t) = {} THEN Stop(t) ELSE VersionDone(t)
  /\ UNCHANGED <<hookVars, vcsVars, modules>>

-----------------------------------------------------------------------------
(* The publisher *)

Publishers(d) == { [NoPublishing EXCEPT !.op = "publisher", !.event = d.event, !.by = d.by, !.key = k] :
                     k \in PublishedFor(d) }

\* Broker.Publish, for both subscribers
Deliver(d) ==
  /\ repohookHandler(d)
  /\ publishing' = publishing \union Publishers(d)
  /\ UNCHANGED <<modules, versions>>

\* Mutant: only of modules that are set up.
GetModuleByConnectionReady(k) == { m \in Module : connections[m] = k /\ modules[m] = "setup_complete" }

GetModuleByConnection(k) == { m \in Module : connections[m] = k }

PublisherHandles(t) ==
  LET raw == occurred[t.event].raw
      version == IF raw.type = "tag" THEN VersionOf[raw.name] ELSE NoVersion IN
  /\ t.op = "publisher" /\ t.step = "find"
  /\ IF Action(raw) = "created" /\ version # NoVersion
        /\ GetModuleByConnection(t.key) # {} /\ t.key[1] \in providers
     THEN \E m \in GetModuleByConnection(t.key) :
            Proceed(t, [t EXCEPT !.step = "version", !.module = m, !.version = version])
     ELSE Stop(t)
  /\ UNCHANGED <<hookVars, budget, vcsVars, modules, versions>>

-----------------------------------------------------------------------------
(* Modules *)

\* A request that has no transaction yet; a module's has no other.
Free(s) == session[s] = Idle /\ \A t \in publishing : t.session # s

\* The name of the module is the repository's, and unique.
PublishModule(s, m, k) ==
  /\ Free(s)
  /\ modules[m] = Absent
  /\ k[2] = RepoOf[m]
  /\ Connect(s, m, k)
  /\ modules' = [modules EXCEPT ![m] = "pending"]
  /\ publishing' = publishing \union {[NoPublishing EXCEPT !.op = "module", !.key = k, !.module = m,
                                                        !.session = s, !.step = "connect"]}
  /\ UNCHANGED <<vcsVars, versions>>

updateModuleStatus(t, status) ==
  modules' = IF InTable(t.module) THEN [modules EXCEPT ![t.module] = status] ELSE modules

\* The transaction that connects the module has ended: the tags are listed.
ListTags(t) ==
  LET tags == { tag \in DOMAIN VersionOf : HasTag(t.key[2], tag) } IN
  /\ t.step = "connect"
  /\ session[t.session] = Idle
  /\ connections[t.module] = t.key
  /\ IF tags = {}
     THEN updateModuleStatus(t, "no_version_tags") /\ Stop(t)
     ELSE /\ modules' = modules
          /\ Proceed(t, [t EXCEPT !.step = "tags", !.session = Absent,
                           !.todo = { tag \in tags : VersionOf[tag] # NoVersion }])
  /\ UNCHANGED <<hookVars, budget, vcsVars, versions>>

SetupFails(t) ==
  /\ t.step = "connect"
  /\ session[t.session] = Idle
  /\ \/ connections[t.module] # t.key /\ budget' = budget
     \/ Spend("failures")
  /\ updateModuleStatus(t, "setup_failed")
  /\ Stop(t)
  /\ UNCHANGED <<hookVars, vcsVars, versions>>

NextTag(t) ==
  /\ t.step = "tags"
  /\ \E tag \in t.todo :
       Proceed(t, [t EXCEPT !.step = "version", !.version = VersionOf[tag], !.todo = @ \ {tag}])
  /\ UNCHANGED <<hookVars, budget, vcsVars, modules, versions>>

SetupCompletes(t) ==
  /\ t.step = "tags"
  /\ t.todo = {}
  /\ updateModuleStatus(t, "setup_complete")
  /\ Stop(t)
  /\ UNCHANGED <<hookVars, budget, vcsVars, versions>>

\* A statement or a call to the provider fails.
PublishingFails(t) ==
  /\ t.step \in {"find", "version", "tags"}
  /\ Spend("failures")
  /\ Stop(t)
  /\ spoilt' = spoilt \union {t.event}
  /\ UNCHANGED <<hookVars, host, occurred, deliveries, owed, tables, tasks, modules, versions>>

\* The connection, if there is one, goes in the same transaction.
DeleteModule(s, m) ==
  /\ InTable(m)
  /\ IF connections[m] # NoKey
     THEN /\ Free(s)
          /\ Disconnect(s, m)
          /\ UNCHANGED <<modules, versions>>
     ELSE /\ Spend("disconnects")
          /\ modules' = [modules EXCEPT ![m] = Gone]
          /\ versions' = { v \in versions : v.module # m }
          /\ UNCHANGED hookVars
  /\ UNCHANGED <<vcsVars, publishing>>

-----------------------------------------------------------------------------
(* The transactions of Repohooks, with what goes with their commit *)

Unowed == owed' = StillOwed /\ UNCHANGED <<host, occurred, deliveries, spoilt, tables, tasks>>

\* Mutant: no foreign key from a connection to its module.
ResourceExistsAlways(s) == TRUE

ResourceExists(s) == session[s].resource \in Module => InTable(session[s].resource)

TransactionStep(s) ==
  \/ /\ \/ CreateRepohook(s) \/ RemovalFails(s)
       \/ ConnectCommits(s, ResourceExists(s)) \/ ConnectFails(s, ResourceExists(s))
       \/ \E hook \in session[s].todo : deleteRepohook(s, hook)
     /\ UNCHANGED <<vcsVars, registryVars>>
  \/ /\ DeleteCommits(s)
     /\ Unowed
     /\ UNCHANGED registryVars
  \/ /\ DisconnectCommits(s)
     /\ Unowed
     /\ LET gone == Module \intersect {session[s].resource} IN
        /\ modules' = [m \in Module |-> IF m \in gone THEN Gone ELSE modules[m]]
        /\ versions' = { v \in versions : v.module \notin gone }
     /\ publishing' = publishing

\* Requests that have to do with workspaces and providers
Request(s) ==
  /\ Free(s)
  /\ \/ \E w \in Workspace, k \in Key : Connect(s, w, k)
     \/ \E w \in Workspace : Disconnect(s, w)
     \/ \E ps \in SUBSET Provider : DeleteProviders(s, ps)
  /\ UNCHANGED <<vcsVars, registryVars>>

\* otfd stops: its goroutines are gone and its transactions rolled back.
Crash ==
  /\ Spend("crashes")
  /\ session' = [s \in Session |-> Idle]
  /\ lost' = lost \union UNION { session[s].webhooksGone : s \in Session }
  /\ tasks' = {}
  /\ publishing' = {}
  /\ spoilt' = spoilt \union { t.event : t \in tasks } \union { t.event : t \in publishing }
  /\ UNCHANGED <<providers, hooks, connections, webhooks, lastId,
                 overtaken, crossed,
                 host, occurred, deliveries, owed, tables, modules, versions>>

Next ==
  \/ \E s \in Session : Request(s) \/ TransactionStep(s)
  \/ (\E w \in webhooks : WebhookRemoved(w)) /\ UNCHANGED <<vcsVars, registryVars>>
  \/ VCSSteps /\ UNCHANGED registryVars
  \/ \E d \in deliveries : Deliver(d)
  \/ \E s \in Session, m \in Module : DeleteModule(s, m) \/ \E k \in Key : PublishModule(s, m, k)
  \/ \E t \in publishing : PublisherHandles(t) \/ CreateVersion(t) \/ PublishVersion(t) \/ ListTags(t)
       \/ SetupFails(t) \/ NextTag(t) \/ SetupCompletes(t) \/ PublishingFails(t)
  \/ Crash

Spec == Init /\ [][Next]_vars

-----------------------------------------------------------------------------
TypeOK ==
  /\ HooksTypeOK
  /\ VCSTypeOK
  /\ \A m \in Module : modules[m] \in {Absent, Gone, "pending", "no_version_tags", "setup_failed", "setup_complete"}
  /\ \A v \in versions : InTable(v.module) /\ v.version # NoVersion
  /\ \A m \in Module : connections[m] # NoKey => InTable(m)

\* When a module has been set up and nothing is under way, it has a version for
\* every tag of its repository that looks like one: tags that were there are
\* published by PublishModule, later ones by the publisher, and none falls
\* between the two.
TagsPublished ==
  \A m \in Module :
    /\ modules[m] \in {"setup_complete", "no_version_tags"} /\ connections[m] # NoKey
    /\ publishing = {} /\ deliveries = {} /\ m \notin overtaken
    => \A tag \in DOMAIN VersionOf :
         \/ ~HasTag(connections[m][2], tag) \/ VersionOf[tag] = NoVersion
         \/ \E v \in versions : v.module = m /\ v.version = VersionOf[tag]
         \/ \E i \in spoilt \ {0} : occurred[i].raw.type = "tag" /\ occurred[i].raw.name = tag

\* PublishModule's promise, "releasing a module version for each tag": when it
\* is done, and nothing has failed, the module is not left half way.
ModuleIsSetUp ==
  spoilt = {} /\ publishing = {} => \A m \in Module : modules[m] # "pending"

\* Connections, rows of repohooks and webhooks at the provider agree as far as
\* the table lock and the rollbacks carry: who is connected is served, what
\* nobody needs is removed, and no row lacks its webhook's id, unless a Connect
\* comes between the list of a removal and its deletions or the last two
\* connections go at the same time (overtaken, crossed).  Webhooks that are
\* left at a provider are not looked at: NoWebhookIsLeft is refuted.
HooksFollowConnections ==
  TypeOK /\ HooksAreSynchronised /\ ConnectionIsServed /\ UnusedHooksRemoved

\* Events and runs correspond: an event leads to a run where it should
\* (EventsLeadToRuns), to one only (OneRunPerEvent), of its commit (RunsHaveConfig).
RunsFollowEvents == EventsLeadToRuns /\ OneRunPerEvent /\ RunsHaveConfig
=============================================================================
