----------------------------- MODULE WebRunners -----------------------------
(***************************************************************************)
(* Pages and handlers of SSH keys, runners and agent pools (sshkey/ui,     *)
(* runner/ui), named like those of WebRuns.                                *)
(***************************************************************************)
EXTENDS Services

-----------------------------------------------------------------------------
(* Keys and runners *)

sshKeysTable == { If("key", Form(Delete("key"))) }
listSSHKeysPage == { Form(Create("ssh-key", Org)) } \union sshKeysTable
listSSHKeys == Renders(<<Do(ListSSHKeys)>>, OrganizationSettings(Org) \union listSSHKeysPage, {})
createSSHKey == Redirects(<<Do(CreateSSHKey)>>, "success", List("ssh-key", Org))
deleteSSHKey == Redirects(<<Do(DeleteSSHKey)>>, "success", List("ssh-key", Org))

sshkeyHandlers ==
  Route("GET", List("ssh-key", Org), listSSHKeys) @@
  Route("POST", Create("ssh-key", Org), createSSHKey) @@
  Route("POST", Delete("key"), deleteSSHKey)

listRunnersPage == Polled(List("runner", Org))
listRunners == Renders(<<Do(ListRunners)>>, OrganizationLayout(Org) \union listRunnersPage, {})

agentPoolsTable == { If("pool", Link(Get("pool"))) }
listAgentPoolsPage == { Form(Create("agent-pool", Org)) } \union Table(List("agent-pool", Org)) \union agentPoolsTable
listAgentPools == Renders(<<Do(ListAgentPoolsByOrganization)>>, OrganizationLayout(Org) \union listAgentPoolsPage, {})
createAgentPool == Redirects(<<Do(CreateAgentPool)>>, "success", Get("pool"))

\* A mutant: tokens are deleted by a path of the pool.
agentTokensTableOfPool == { If("agentToken", Form(Resources("delete", "agent-token", "pool"))) }
agentTokensTable == { If("agentToken", Form(Delete("agentToken"))) }
\* The workspaces that the pool is allowed to and assigned to are listed as far
\* as the user sees them; the button to delete the pool is disabled if one is.
poolWorkspaces == { If(r, If("workspace", Link(Edit("workspace")))) : r \in {"assigned", "allowed"} }
deletePoolButton ==
  LET button == IfCan("delete", "agent-pool", Org, Form(Delete("pool")))
  IN  { Unless("assigned", button), If("assigned", Unless("workspace", button)) }
getAgentPoolPage ==
  { Link(List("agent-pool", Org)), Form(Update("pool")), Form(Create("agent-token", "pool")) } \union
  poolWorkspaces \union Polled(Get("pool")) \union agentTokensTable \union deletePoolButton
getAgentPool ==
  Renders(<<Do(GetAgentPool), Do(ListWorkspaces), Do(ListAgentTokens), Do(ListPoolRunners)>>,
          OrganizationLayout(Org) \union getAgentPoolPage, {})
updateAgentPool == Redirects(<<Do(UpdateAgentPool)>>, "success", Get("pool"))
deleteAgentPool == Redirects(<<Do(DeleteAgentPool)>>, "success", List("agent-pool", Org))
listAllowedPools(ws) == Renders(<<Do(GetWorkspace(ws)), Do(ListAgentPoolsByOrganization)>>, {}, {})
createAgentToken == Redirects(<<Do(CreateAgentToken)>>, "token", Get("pool"))
deleteAgentToken == Redirects(<<Do(DeleteAgentToken)>>, "success", Get("pool"))

runnerHandlers(ws) ==
  Route("GET", List("runner", Org), listRunners) @@
  Route("GET", List("agent-pool", Org), listAgentPools) @@
  Route("POST", Create("agent-pool", Org), createAgentPool) @@
  Route("GET", Get("pool"), getAgentPool) @@
  Route("POST", Update("pool"), updateAgentPool) @@
  Route("POST", Delete("pool"), deleteAgentPool) @@
  Route("GET", Resource("pools", ws), listAllowedPools(ws)) @@
  Route("POST", Create("agent-token", "pool"), createAgentToken) @@
  Route("POST", Delete("agentToken"), deleteAgentToken)
=============================================================================
