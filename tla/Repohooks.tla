------------------------------ MODULE Repohooks ------------------------------
(***************************************************************************)
(* Connections between workspaces or modules and repositories, and the     *)
(* webhook that all the connections of a repository share (connections,    *)
(* repohooks, vcs).                                                        *)
(*                                                                         *)
(* The webhook is a row in the table repohooks and an object at the VCS    *)
(* provider, whose creation and deletion no rollback undoes.  A request    *)
(* is a transaction of several steps: each statement sees what others      *)
(* have committed, and what it writes is seen by others with its commit.   *)
(* Connect holds an exclusive lock on the table repohooks from the moment  *)
(* it looks for the row until its commit; others may still read the table. *)
(***************************************************************************)
EXTENDS Naturals, FiniteSets, Sequences, FiniteSetsExt, SequencesExt

CONSTANTS
  Provider, Repo,
  Resource,       \* the workspaces and modules that may be connected
  SkipRepohook,   \* providers that need no webhook, such as a GitHub app
  Session,        \* requests that may be handled at the same time
  Budgets         \* bounds: where a behaviour starts and what may happen in it

ASSUME SkipAssumption == SkipRepohook \subseteq Provider

VARIABLES
  providers,    \* table vcs_providers
  hooks,        \* table repohooks: per provider and repository, at most one row
  connections,  \* table repo_connections: at most one row per resource
  webhooks,     \* the webhooks at the providers
  session,      \* the transaction of each session
  lastId,       \* the id given out last
  overtaken,    \* history: resources connected with a hook that some removal
                \* has listed for deletion before
  crossed,      \* history: hooks that two removals have left to one another
  lost,         \* history: webhooks deleted although their hook was not
  budget        \* what is left of the behaviour's budget

hookVars == <<providers, hooks, connections, webhooks, session, lastId,
              overtaken, crossed, lost>>

Key == Provider \X Repo      \* what a hook is for
NoKey == <<>>
NoHook == [id |-> 0, cloudID |-> 0]

Idle == [op |-> "idle", resource |-> "none", key |-> NoKey, hook |-> NoHook,
         removes |-> {}, todo |-> {}, deleted |-> {}, webhooksGone |-> {}]

\* Some resources are connected already, and their hooks synchronised.
HooksInit ==
  /\ budget \in Budgets
  /\ providers = Provider
  /\ connections = budget.start
  /\ LET used == SetToSeq({ k \in Key : k[1] \notin SkipRepohook /\ \E r \in Resource : connections[r] = k }) IN
     /\ hooks = [k \in Key |-> IF Contains(used, k)
                               THEN LET i == SelectInSeq(used, LAMBDA x : x = k)
                                    IN [id |-> 2 * i - 1, cloudID |-> 2 * i]
                               ELSE NoHook]
     /\ webhooks = { [id |-> 2 * i, key |-> used[i], endpoint |-> 2 * i - 1] : i \in DOMAIN used }
     /\ lastId = 2 * Len(used)
  /\ session = [s \in Session |-> Idle]
  /\ overtaken = {}
  /\ crossed = {}
  /\ lost = {}

Spend(kind) == /\ budget[kind] > 0
               /\ budget' = [budget EXCEPT ![kind] = @ - 1]

-----------------------------------------------------------------------------
(* Transactions *)

Removal == {"disconnect", "delete"}

\* A session begins a transaction.
Begin(s, transaction) ==
  /\ session[s] = Idle
  /\ session' = [session EXCEPT ![s] = transaction]

End(s) == session' = [session EXCEPT ![s] = Idle]

\* It is rolled back; what it did at the provider is done.
Rollback(s) ==
  /\ End(s)
  /\ lost' = lost \union session[s].webhooksGone
  /\ UNCHANGED <<providers, hooks, connections, webhooks, lastId, overtaken, crossed>>

\* Does another session hold the table lock, or a lock it conflicts with?
HasTableLock(t) == session[t].op = "connect" /\ session[t].hook # NoHook
HasDeleted(t) == session[t].deleted # {}
TableLocked(s) == \E t \in Session \ {s} : HasTableLock(t)
TableInUse(s) == TableLocked(s) \/ \E t \in Session \ {s} : HasDeleted(t)

-----------------------------------------------------------------------------
(* Connect *)

Connect(s, r, k) ==
  /\ Spend("connects")
  /\ k[1] \in providers
  /\ Begin(s, [Idle EXCEPT !.op = "connect", !.resource = r, !.key = k])
  /\ UNCHANGED <<providers, hooks, connections, webhooks, lastId, overtaken, crossed, lost>>

AwaitsHook(s) == session[s].op = "connect" /\ session[s].hook = NoHook
                   /\ session[s].key[1] \notin SkipRepohook

\* getOrCreateHook
HookFor(k) == IF hooks[k] # NoHook THEN hooks[k] ELSE [id |-> lastId + 1, cloudID |-> 0]

\* Mutant: only a hook that exists is synchronised.
NeedsWebhookKnown(hook) ==
  hook.cloudID # 0 /\ \A w \in webhooks : w.id # hook.cloudID

\* Mutant: every hook gets a new webhook.
NeedsWebhookAlways(hook) == TRUE

\* sync: a hook without a webhook at the provider gets a new one.
NeedsWebhook(hook) == \A w \in webhooks : w.id # hook.cloudID

CreateRepohook(s) ==
  LET k == session[s].key
      hook == HookFor(k) IN
  /\ AwaitsHook(s)
  /\ ~TableInUse(s)
  /\ k[1] \in providers
  /\ lastId' = lastId + 2
  /\ IF NeedsWebhook(hook)
     THEN /\ webhooks' = webhooks \union {[id |-> lastId + 2, key |-> k, endpoint |-> hook.id]}
          /\ session' = [session EXCEPT ![s].hook = [hook EXCEPT !.cloudID = lastId + 2]]
     ELSE /\ webhooks' = webhooks
          /\ session' = [session EXCEPT ![s].hook = hook]
  /\ UNCHANGED <<providers, hooks, connections, overtaken, crossed, lost, budget>>

ReadyToConnect(s) == session[s].op = "connect" /\ ~AwaitsHook(s)

\* Has a removal that is under way listed the hook?
ToBeRemoved(hook) == \E t \in Session : \E listed \in session[t].todo : listed.id = hook.id

\* createConnection and the commit: the unique key and the foreign keys hold,
\* that of the resource when it exists.
ConnectCommits(s, exists) ==
  LET tx == session[s] IN
  /\ ReadyToConnect(s)
  /\ tx.key[1] \in providers
  /\ exists
  /\ connections[tx.resource] = NoKey
  /\ connections' = [connections EXCEPT ![tx.resource] = tx.key]
  /\ hooks' = IF tx.hook = NoHook THEN hooks ELSE [hooks EXCEPT ![tx.key] = tx.hook]
  /\ overtaken' = IF ToBeRemoved(tx.hook) THEN overtaken \union {tx.resource}
                                          ELSE overtaken \ {tx.resource}
  /\ End(s)
  /\ UNCHANGED <<providers, webhooks, lastId, crossed, lost, budget>>

\* A key is violated, or a call to the provider or a later step of the
\* enclosing transaction fails.
ConnectFails(s, exists) ==
  LET tx == session[s] IN
  /\ tx.op = "connect"
  /\ \/ tx.key[1] \notin providers /\ budget' = budget
     \/ ReadyToConnect(s) /\ ~(exists /\ connections[tx.resource] = NoKey) /\ budget' = budget
     \/ Spend("failures")
  /\ Rollback(s)

-----------------------------------------------------------------------------
(* Disconnect, and the deletion of providers or of their organization *)

HookRow(k) == [id |-> hooks[k].id, cloudID |-> hooks[k].cloudID, key |-> k]

\* Mutant: the hook of the resource is listed whoever else uses it.
UnreferencedOwn(table, r) ==
  { HookRow(k) : k \in { k \in Key : hooks[k] # NoHook /\ k = connections[r] } }

\* Mutant: the hooks are listed before the connection is deleted.
UnreferencedBefore(table, r) ==
  { HookRow(k) : k \in { k \in Key : hooks[k] # NoHook /\ \A q \in Resource : connections[q] # k } }

\* listUnreferencedRepohooks, in a transaction that sees the given connections.
Unreferenced(table, r) ==
  { HookRow(k) : k \in { k \in Key : hooks[k] # NoHook /\ \A q \in Resource : table[q] # k } }

\* Is another connection with the repository being removed?  Neither removal
\* sees that the other's connection goes.
Disconnecting(s, k) == \E t \in Session \ {s} :
  session[t].op = "disconnect" /\ connections[session[t].resource] = k

Disconnect(s, r) ==
  /\ Spend("disconnects")
  /\ connections[r] # NoKey
  /\ \A t \in Session \ {s} : ~(session[t].op = "disconnect" /\ session[t].resource = r)
  /\ Begin(s, [Idle EXCEPT !.op = "disconnect", !.resource = r,
                 !.todo = Unreferenced([connections EXCEPT ![r] = NoKey], r)])
  /\ crossed' = IF Disconnecting(s, connections[r])
                THEN crossed \union {hooks[connections[r]].id} ELSE crossed
  /\ UNCHANGED <<providers, hooks, connections, webhooks, lastId, overtaken, lost>>

\* DeleteVCSProvider, of one provider; DeleteOrganization, of all of them.
DeleteProviders(s, ps) ==
  /\ Spend("deletes")
  /\ ps # {} /\ ps \subseteq providers
  /\ Begin(s, [Idle EXCEPT !.op = "delete", !.removes = ps,
                 !.todo = { HookRow(k) : k \in { k \in Key : hooks[k] # NoHook /\ k[1] \in ps } }])
  /\ UNCHANGED <<providers, hooks, connections, webhooks, lastId, overtaken, crossed, lost>>

\* Is the row of a hook that was listed still there?
StillThere(hook) == hooks[hook.key].id = hook.id

\* The row goes, which fails unless it is still there once nobody holds a lock
\* on it; and then the webhook that was listed with it.  That the provider
\* refuses is only logged.
deleteRepohook(s, hook) ==
  /\ hook \in session[s].todo
  /\ ~TableLocked(s)
  /\ \A t \in Session \ {s} : hook.id \notin session[t].deleted
  /\ StillThere(hook)
  /\ \/ /\ webhooks' = { w \in webhooks : w.id # hook.cloudID }
        /\ budget' = budget
     \/ /\ Spend("failures")
        /\ webhooks' = webhooks
  /\ session' = [session EXCEPT ![s].todo = @ \ {hook}, ![s].deleted = @ \union {hook.id},
                                ![s].webhooksGone = @ \union {hook.cloudID}]
  /\ UNCHANGED <<providers, hooks, connections, lastId, overtaken, crossed, lost>>

Deleted(s) == [k \in Key |-> IF hooks[k].id \in session[s].deleted THEN NoHook ELSE hooks[k]]

DisconnectCommits(s) ==
  LET tx == session[s] IN
  /\ tx.op = "disconnect"
  /\ tx.todo = {}
  /\ connections' = [connections EXCEPT ![tx.resource] = NoKey]
  /\ hooks' = Deleted(s)
  /\ End(s)
  /\ UNCHANGED <<providers, webhooks, lastId, overtaken, crossed, lost, budget>>

\* Does another transaction hold a row that goes with a provider?
RowsInUse(s, ps) == \E t \in Session \ {s} :
  \/ \E k \in Key : k[1] \in ps /\ hooks[k] # NoHook /\ hooks[k].id \in session[t].deleted
  \/ session[t].op = "disconnect" /\ \E k \in Key : connections[session[t].resource] = k /\ k[1] \in ps

\* The rows of the providers go, and by cascade what refers to them.
DeleteCommits(s) ==
  LET ps == session[s].removes IN
  /\ session[s].op = "delete"
  /\ session[s].todo = {}
  /\ ~TableLocked(s)
  /\ ~RowsInUse(s, ps)
  /\ providers' = providers \ ps
  /\ hooks' = [k \in Key |-> IF k[1] \in ps THEN NoHook ELSE Deleted(s)[k]]
  /\ connections' = [r \in Resource |->
       IF connections[r] # NoKey /\ connections[r][1] \in ps THEN NoKey ELSE connections[r]]
  /\ End(s)
  /\ UNCHANGED <<webhooks, lastId, overtaken, crossed, lost, budget>>

\* The row of a hook has gone already, a statement fails, or the database
\* aborts one of two transactions that wait for each other.
RemovalFails(s) ==
  /\ session[s].op \in Removal
  /\ \/ (\E hook \in session[s].todo : ~StillThere(hook)) /\ budget' = budget
     \/ TableInUse(s) /\ budget' = budget
     \/ Spend("failures")
  /\ Rollback(s)

\* Somebody deletes a webhook at the provider.
WebhookRemoved(w) ==
  /\ Spend("removals")
  /\ webhooks' = webhooks \ {w}
  /\ lost' = lost \union {w.id}
  /\ UNCHANGED <<providers, hooks, connections, session, lastId, overtaken, crossed>>

-----------------------------------------------------------------------------
HooksTypeOK ==
  /\ providers \subseteq Provider
  /\ connections \in [Resource -> Key \union {NoKey}]
  /\ \A k \in Key : hooks[k].id \in 0..lastId /\ hooks[k].cloudID \in 0..lastId
  /\ \A w \in webhooks : w.id \in 1..lastId /\ w.key \in Key /\ w.endpoint \in 1..lastId
  /\ \A s \in Session : session[s].op \in {"idle", "connect", "disconnect", "delete"}
  /\ \A r \in Resource : connections[r] # NoKey => connections[r][1] \in providers

\* A row of repohooks that others can see has the id of its webhook, which
\* deleteRepohook takes without a check; also when the synchronisation fails.
HooksAreSynchronised == \A k \in Key : hooks[k] # NoHook => hooks[k].cloudID # 0

Exists(k) == \E w \in webhooks : w.id = hooks[k].cloudID /\ w.endpoint = hooks[k].id

Served(k) == hooks[k] # NoHook
  /\ (Exists(k) \/ hooks[k].cloudID \in lost \union UNION { session[s].webhooksGone : s \in Session })

\* A connection keeps its hook and its webhook, through the disconnection of
\* others, failures, rollbacks and however transactions overlap; except that
\* the webhook goes before the removal that deletes it has committed, which may
\* fail, or by someone's hand, until the next Connect replaces it.  Not so for
\* a connection that is made after a removal has found the hook unused and
\* before it deletes it: ConnectionHasHook is refuted by it.
ConnectionIsServed ==
  \A r \in Resource \ overtaken :
    connections[r] # NoKey /\ connections[r][1] \notin SkipRepohook => Served(connections[r])

\* What the table lock of CreateRepohook is for: "to prevent concurrent
\* updates"; a connection has its hook whatever overlaps.
ConnectionHasHook ==
  \A r \in Resource :
    connections[r] # NoKey /\ connections[r][1] \notin SkipRepohook => hooks[connections[r]] # NoHook

\* When all transactions have ended, no hook is left without a connection:
\* Disconnect removes it with the last one, and a Connect that fails leaves
\* none.  Not so when the last two go at the same time: NoHookIsLeft is
\* refuted by it, and the hook stays until somebody disconnects again.
UnusedHooksRemoved ==
  (\A s \in Session : session[s] = Idle) =>
    \A k \in Key : hooks[k] = NoHook \/ hooks[k].id \in crossed \/ \E r \in Resource : connections[r] = k

\* A connection that goes takes its hook with it when it was the last one.
NoHookIsLeft ==
  (\A s \in Session : session[s] = Idle) =>
    \A k \in Key : hooks[k] # NoHook => \E r \in Resource : connections[r] = k

\* No webhook is left at a provider without its row: a Connect that is rolled
\* back leaves the one it has made.
NoWebhookIsLeft ==
  (\A s \in Session : session[s] = Idle) =>
    \A w \in webhooks : hooks[w.key].cloudID = w.id
=============================================================================
