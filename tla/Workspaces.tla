----------------------------- MODULE Workspaces -----------------------------
(***************************************************************************)
(* The settings of workspaces, the agent pools they may use, and their     *)
(* tags (workspace, workspace/execution, runner).                          *)
(*                                                                         *)
(* What starts a run of a connected workspace is one of: every push, pushes*)
(* of files that match a pattern, tags that match an expression.  A        *)
(* workspace whose runs are executed by agents names an agent pool; a pool *)
(* is open to the whole organization or to certain workspaces.             *)
(***************************************************************************)
EXTENDS Requests

CONSTANTS Pool, TagName

VARIABLES
  settings,  \* table workspaces: what each workspace is set to
  pools,     \* tables agent_pools and agent_pool_allowed_workspaces
  tags,      \* table tags: their names
  tagged     \* table workspace_tags: the tags of each workspace

settingVars == <<settings, pools, tags, tagged>>

NoPool == "none"
ASSUME PoolAssumption == NoPool \notin Pool

NoAgentPool == [exists |-> FALSE, scoped |-> FALSE, allowed |-> {}]

Mode == { [kind |-> "remote", pool |-> NoPool], [kind |-> "local", pool |-> NoPool] }
          \union [kind : {"agent"}, pool : Pool]

NoSettings == [mode |-> [kind |-> "remote", pool |-> NoPool], connected |-> FALSE,
               tagsRegex |-> FALSE, patterns |-> FALSE]

SettingsInit ==
  /\ settings = [w \in Workspace |-> NoSettings]
  /\ pools = budget.start.pools
  /\ tags = {}
  /\ tagged = [w \in Workspace |-> {}]

-----------------------------------------------------------------------------
(* Settings *)

\* The options of a request that are given, as sets of at most one element.
NoOptions == [mode |-> {}, always |-> FALSE, patterns |-> {}, connect |-> FALSE, tagsRegex |-> FALSE,
              disconnect |-> FALSE]

\* Options that exclude each other.
Contradictory(opts) ==
  \/ opts.tagsRegex /\ opts.patterns # {}
  \/ opts.tagsRegex /\ opts.always
  \/ TRUE \in opts.patterns /\ opts.always
  \/ opts.disconnect /\ opts.connect

\* Mutant: a pool that is not given is kept.
ModeAfterKeepsPool(ws, opts) ==
  IF opts.mode = {} THEN ws.mode
  ELSE LET m == CHOOSE m \in opts.mode : TRUE IN [m EXCEPT !.pool = IF @ = NoPool THEN ws.mode.pool ELSE @]

\* Mode.Update: the kind and the pool are set together.
ModeAfter(ws, opts) == IF opts.mode = {} THEN ws.mode ELSE CHOOSE m \in opts.mode : TRUE

\* NewWorkspace
NewWorkspace(opts) ==
  [mode |-> ModeAfter(NoSettings, opts),
   connected |-> opts.connect,
   tagsRegex |-> opts.connect /\ opts.tagsRegex,
   patterns |-> TRUE \in opts.patterns]

\* What becomes of the trigger patterns and of the tags expression before any
\* connection is made or changed.
PatternsAfter(ws, opts) ==
  ~opts.always /\ (TRUE \in opts.patterns \/ (opts.patterns = {} /\ ws.patterns))

TagsRegexAfter(ws, opts) == ws.tagsRegex /\ ~opts.always /\ opts.patterns = {}

\* Workspace.Update: a new connection replaces the expression; a connection
\* that exists is changed only where options are given.
Update(ws, opts) ==
  LET connects == opts.connect /\ ~ws.connected
      retags == opts.connect /\ ws.connected /\ opts.tagsRegex
  IN [mode |-> ModeAfter(ws, opts),
      connected |-> ~opts.disconnect /\ (opts.connect \/ ws.connected),
      tagsRegex |-> /\ ~opts.disconnect
                    /\ IF connects THEN opts.tagsRegex ELSE retags \/ TagsRegexAfter(ws, opts),
      patterns |-> PatternsAfter(ws, opts) /\ ~retags]

-----------------------------------------------------------------------------
(* Access to agent pools *)

CanUse(w, pool, table) == table[pool].scoped \/ w \in table[pool].allowed

\* checkWorkspacePoolAccess: the pool exists and the workspace may use it.
checkWorkspacePoolAccess(w, ws) ==
  ws.mode.pool # NoPool => pools[ws.mode.pool].exists /\ CanUse(w, ws.mode.pool, pools)

LocksPools(t) == session[t].op = "updatePool"

\* Mutant: the tables of the pools are not locked.
PoolsFreeAlways(s) == TRUE

PoolsFree(s) == \A t \in Others(s) : ~LocksPools(t)

\* The row refers to its pool: the pools must not be locked, and the pool exist.
RefersToPool(ws, before) == ws.mode.pool # before.mode.pool /\ ws.mode.pool # NoPool

LocksWorkspace(t, w) == session[t].op = "updateWorkspace" /\ session[t].workspace = w

\* CreateWorkspace: the hooks check the new workspace,
CreateWorkspace(s, w, opts) ==
  /\ Spend("settings")
  /\ w \notin workspaces
  /\ \A t \in Session : session[t].op = "createWorkspace" => session[t].workspace # w
  /\ LET ws == NewWorkspace(opts)
         allowed == ~Contradictory(opts) /\ ~opts.disconnect /\ checkWorkspacePoolAccess(w, ws)
     IN \/ allowed /\ Begin(s, [op |-> "createWorkspace", at |-> "write", workspace |-> w, row |-> ws])
        \/ ~allowed /\ AtOnce(s)
  /\ UNCHANGED <<workspaces, settingVars>>

\* and it is inserted.
CreateWorkspaceCommits(s) ==
  /\ At(s, "createWorkspace", "write")
  /\ LET w == session[s].workspace
         row == session[s].row
         refers == RefersToPool(row, NoSettings)
     IN /\ refers => PoolsFree(s)
        /\ IF refers /\ ~pools[row.mode.pool].exists
           THEN UNCHANGED <<workspaces, settings>>
           ELSE /\ workspaces' = workspaces \union {w}
                /\ settings' = [settings EXCEPT ![w] = row]
  /\ End(s)
  /\ UNCHANGED <<budget, pools, tags, tagged>>

\* UpdateWorkspace: the row is locked, the hooks check it, and it is updated,
UpdateWorkspace(s, w, opts) ==
  /\ Spend("settings")
  /\ w \in workspaces
  /\ \A t \in Others(s) : ~LocksWorkspace(t, w)
  /\ LET allowed == /\ checkWorkspacePoolAccess(w, settings[w])
                    /\ ~Contradictory(opts)
                    /\ opts.disconnect => settings[w].connected
     IN \/ allowed /\ Begin(s, [op |-> "updateWorkspace", at |-> "write", workspace |-> w,
                                row |-> Update(settings[w], opts)])
        \/ ~allowed /\ AtOnce(s)
  /\ UNCHANGED <<workspaces, settingVars>>

\* and written.
UpdateWorkspaceCommits(s) ==
  /\ At(s, "updateWorkspace", "write")
  /\ LET w == session[s].workspace
         row == session[s].row
         refers == RefersToPool(row, settings[w])
     IN /\ refers => PoolsFree(s)
        /\ settings' = IF refers /\ ~pools[row.mode.pool].exists THEN settings ELSE [settings EXCEPT ![w] = row]
  /\ End(s)
  /\ UNCHANGED <<workspaces, budget, pools, tags, tagged>>

-----------------------------------------------------------------------------
(* Agent pools *)

AssignedWorkspaces(p) == { w \in workspaces : settings[w].mode.pool = p }

CreateAgentPool(s, p, scoped, allowed) ==
  /\ Spend("poolChanges")
  /\ AtOnce(s)
  /\ ~pools[p].exists
  /\ PoolsFree(s)
  /\ allowed \subseteq workspaces
  /\ pools' = [pools EXCEPT ![p] = [exists |-> TRUE, scoped |-> scoped, allowed |-> allowed]]
  /\ UNCHANGED <<workspaces, settings, tags, tagged>>

\* Pool.update
PoolUpdateAllowed(p, after) == after.scoped \/ AssignedWorkspaces(p) \subseteq after.allowed

\* UpdateAgentPool, once it holds the lock: it reads the pool and updates a copy,
UpdateAgentPool(s, p, scoped, allowed) ==
  /\ Spend("poolChanges")
  /\ pools[p].exists
  /\ PoolsFree(s)
  /\ LET after == [exists |-> TRUE, scoped |-> scoped, allowed |-> allowed]
     IN \/ /\ PoolUpdateAllowed(p, after)
           /\ Begin(s, [op |-> "updatePool", at |-> "write", pool |-> p, row |-> after])
        \/ ~PoolUpdateAllowed(p, after) /\ AtOnce(s)
  /\ UNCHANGED <<workspaces, settingVars>>

\* which it writes unless a workspace that is to be allowed is gone.
UpdateAgentPoolCommits(s) ==
  /\ At(s, "updatePool", "write")
  /\ LET p == session[s].pool IN
     pools' = IF pools[p].exists /\ session[s].row.allowed \ pools[p].allowed \subseteq workspaces
              THEN [pools EXCEPT ![p] = [session[s].row EXCEPT !.allowed = @ \intersect workspaces]]
              ELSE pools
  /\ End(s)
  /\ UNCHANGED <<workspaces, budget, settings, tags, tagged>>

\* A pool that a workspace uses is not deleted.
DeleteAgentPool(s, p) ==
  /\ Spend("poolChanges")
  /\ AtOnce(s)
  /\ pools[p].exists
  /\ PoolsFree(s)
  /\ AssignedWorkspaces(p) = {}
  /\ pools' = [pools EXCEPT ![p] = NoAgentPool]
  /\ UNCHANGED <<workspaces, settings, tags, tagged>>

-----------------------------------------------------------------------------
(* Tags *)

\* Where a deletion of a workspace has run its statement and not committed.
Deletes(t) == At(t, "deleteWorkspace", "commit")

\* AddTags and RemoveTags lock the table tags, which the trigger of a deletion
\* in progress has written.
TagsFree(s) == \A t \in Others(s) : ~Deletes(t)

\* addTags creates those that are new; a tag the workspace has already is an error.
AddTags(s, w, names) ==
  /\ Spend("tags")
  /\ AtOnce(s)
  /\ TagsFree(s)
  /\ w \in workspaces
  /\ names \intersect tagged[w] = {}
  /\ tags' = tags \union names
  /\ tagged' = [tagged EXCEPT ![w] = @ \union names]
  /\ UNCHANGED <<workspaces, settings, pools>>

\* TagWorkspaces puts a tag that exists on several workspaces, none of which is
\* being deleted.  It may commit while the trigger of a deletion waits for the
\* tag, to delete it with its new rows.
TagWorkspaces(s, name, ws) ==
  /\ Spend("tags")
  /\ AtOnce(s)
  /\ name \in tags
  /\ ws \subseteq { w \in workspaces : name \notin tagged[w] }
  /\ \A t \in Others(s) : Deletes(t) => session[t].workspace \notin ws
  /\ tagged' = [w \in Workspace |-> IF w \in ws THEN tagged[w] \union {name} ELSE tagged[w]]
  /\ UNCHANGED <<workspaces, settings, pools, tags>>

\* The trigger on the table workspace_tags: tags that no workspace has are deleted.
delete_tags(after) == { name \in tags : \E w \in Workspace : name \in after[w] }

Unused(name) == \A w \in Workspace : name \notin tagged[w]

\* RemoveTags ignores names that are no tags; a tag the workspace does not have
\* is an error, unless it was unused and the trigger has deleted it by then.
RemoveTags(s, w, names) ==
  /\ Spend("tags")
  /\ AtOnce(s)
  /\ TagsFree(s)
  /\ w \in workspaces
  /\ \A name \in names \intersect tags :
       name \in tagged[w] \/ (Unused(name) /\ names \intersect tagged[w] # {})
  /\ tagged' = [tagged EXCEPT ![w] = @ \ names]
  /\ tags' = delete_tags(tagged')
  /\ UNCHANGED <<workspaces, settings, pools>>

\* DeleteTags deletes one tag after the other; one that the trigger has deleted
\* by then is an error.  It waits for a deletion that has deleted the same rows.
DeleteTags(s, names) ==
  /\ Spend("tags")
  /\ AtOnce(s)
  /\ names \subseteq tags
  /\ \A m, n \in names : Unused(m) /\ Unused(n) => m = n
  /\ tagged' = [w \in Workspace |-> tagged[w] \ names]
  /\ tags' = delete_tags(tagged')
  /\ \A t \in Others(s) : Deletes(t) =>
       (tags \ tags') \intersect (session[t].doomed \union tagged[session[t].workspace]) = {}
  /\ UNCHANGED <<workspaces, settings, pools>>

\* What the commit of the deletion shows.  What the trigger decides does not depend
\* on the other rows that go with the workspace: they are taken as they are now.
SettingsCascade(w, doomed) ==
  /\ \A t \in Session : ~LocksWorkspace(t, w)
  /\ \A t \in Session : ~LocksPools(t)
  /\ settings' = [settings EXCEPT ![w] = NoSettings]
  /\ pools' = [p \in Pool |-> [pools[p] EXCEPT !.allowed = @ \ {w}]]
  /\ tagged' = [v \in Workspace |-> IF v = w THEN {} ELSE tagged[v] \ doomed]
  /\ tags' = tags \ doomed

-----------------------------------------------------------------------------
(* Properties *)

SettingsTypeOK ==
  /\ workspaces \subseteq Workspace
  /\ settings \in [Workspace -> [mode : Mode, connected : BOOLEAN, tagsRegex : BOOLEAN, patterns : BOOLEAN]]
  /\ pools \in [Pool -> [exists : BOOLEAN, scoped : BOOLEAN, allowed : SUBSET Workspace]]
  /\ tags \subseteq TagName
  /\ tagged \in [Workspace -> SUBSET TagName]

\* A workspace that uses a pool it has access to keeps the access for as long
\* as it uses the pool: no update of the pool takes it away, not even one that
\* read the pool before the workspace was assigned to it (pool.go, update; the
\* lock in UpdateAgentPool).
PoolIsNotTakenAway ==
  [][\A w \in workspaces \intersect workspaces' :
       LET p == settings[w].mode.pool IN
       (p # NoPool /\ settings'[w].mode.pool = p /\ CanUse(w, p, pools)) =>
         pools'[p].exists /\ CanUse(w, p, pools')]_<<settings, pools>>

\* The tags of a workspace exist, also when the trigger of a deletion deletes a
\* tag that is put on other workspaces at that time (the foreign keys of the table
\* workspace_tags, and the trigger delete_tags).
TagsExist == UNION { tagged[w] : w \in Workspace } \subseteq tags

\* What the trigger is for: a tag that no workspace has is deleted.  TLC refutes
\* it: of two deletions at the same time, each sees that the other's workspace
\* still has the tag (001_migrate_migrator.sql, delete_tags).
TagsAreInUse == tags = UNION { tagged[w] : w \in Workspace }

\* What starts the runs of a connected workspace: at most one of a tags
\* expression and trigger patterns (workspace.go, NewWorkspace and Update).
OneTrigger == \A w \in Workspace : ~(settings[w].tagsRegex /\ settings[w].patterns)

\* A workspace uses only a pool it has been granted access to (runner/service.go,
\* checkWorkspacePoolAccess).
PoolIsGranted ==
  \A w \in workspaces : settings[w].mode.pool # NoPool => CanUse(w, settings[w].mode.pool, pools)
=============================================================================
