---------------------------- MODULE WebVariables ----------------------------
(***************************************************************************)
(* Pages and handlers of state versions, variables and variable sets       *)
(* (state/ui, variable/ui), named like those of WebRuns.                   *)
(***************************************************************************)
EXTENDS Services

-----------------------------------------------------------------------------
(* State versions *)

\* Versions other than the current one may be rolled back to, and deleted.
stateVersionsTable ==
  { If(sv, Link(Get(sv))) : sv \in Versions } \union { If(sv, Link(Resource("diff", sv))) : sv \in Versions } \union
  { If("oldState", Form(Resource("rollback", "oldState"))), If("oldState", Form(Delete("oldState"))) }
listStateVersionsPage(ws) == Table(List("state-version", ws)) \union stateVersionsTable
listStateVersions(ws) ==
  Renders(<<Do(GetWorkspace(ws)), Do(ListStateVersions(ws)), IfFound(GetCurrentStateVersion(ws))>>,
          WorkspaceLayout(ws, Org) \union listStateVersionsPage(ws), {})
versionCrumbs(ws) == { Link(List("state-version", ws)) }
getStateVersion(ws, sv) ==
  Renders(<<Do(GetStateVersion(sv)), Do(GetWorkspace(ws)), Do(ParseState)>>,
          WorkspaceLayout(ws, Org) \union versionCrumbs(ws), {})
diffStateVersion(ws, sv) ==
  Renders(<<Do(GetStateVersion(sv)), Do(GetWorkspace(ws)), Do(ParseState), IfFound(GetPreviousStateVersion(ws))>>,
          WorkspaceLayout(ws, Org) \union versionCrumbs(ws), {})
rollbackStateVersion(ws, sv) ==
  Redirects(<<Do(RollbackStateVersion(sv))>>, "none", List("state-version", ws))
deleteStateVersion(ws, sv) ==
  Redirects(<<Do(GetStateVersion(sv)), Do(DeleteStateVersion(sv))>>, "none", List("state-version", ws))
\* The fragment with the current state; what goes wrong is not shown.
getState(ws) == Renders(<<Trying(GetCurrentStateVersion(ws))>>, {}, {})

versionHandlers(ws, sv) ==
  Route("GET", Get(sv), getStateVersion(ws, sv)) @@
  Route("GET", Resource("diff", sv), diffStateVersion(ws, sv)) @@
  Route("POST", Resource("rollback", sv), rollbackStateVersion(ws, sv)) @@
  Route("POST", Delete(sv), deleteStateVersion(ws, sv))

stateHandlers(ws) ==
  Route("GET", Resource("state", ws), getState(ws)) @@
  Route("GET", List("state-version", ws), listStateVersions(ws)) @@
  versionHandlers(ws, "oldState") @@ versionHandlers(ws, "state")

-----------------------------------------------------------------------------
(* Variables *)

newWorkspaceVariableButton(ws) == { IfCan("create", "variable", ws, Link(New("variable", ws))) }
\* A variable of a set is listed with its set and cannot be deleted here.
variablesTable(ws) ==
  { If("variable", Link(Edit("variable"))),
    If("variable", IfCan("create", "variable", ws, Form(Delete("variable")))),
    If("setVariable", Link(Edit("set"))), If("setVariable", Link(Edit("setVariable"))) }
listWorkspaceVariablesPage(ws) == variablesTable(ws)
listWorkspaceVariables(ws) ==
  Renders(<<Do(GetWorkspace(ws)), Do(ListVariables(ws)), Do(ListWorkspaceVariableSets(ws))>>,
          WorkspaceLayout(ws, Org) \union {Link(List("variable", ws))} \union
          newWorkspaceVariableButton(ws) \union listWorkspaceVariablesPage(ws), {})

variableForm(action) == { Form(action) }
newWorkspaceVariablePage(ws) == variableForm(Create("variable", ws))
newWorkspaceVariable(ws) ==
  Renders(<<Do(GetWorkspace(ws))>>, WorkspaceLayout(ws, Org) \union newWorkspaceVariablePage(ws), {})
createWorkspaceVariable(ws) == Redirects(<<Do(CreateVariable(ws, "variable"))>>, "success", List("variable", ws))
editWorkspaceVariablePage == variableForm(Update("variable"))
editWorkspaceVariable(ws) ==
  Renders(<<Do(GetVariable("variable")), Do(GetWorkspace(ws))>>,
          WorkspaceLayout(ws, Org) \union editWorkspaceVariablePage, {})
updateWorkspaceVariable(ws) ==
  Redirects(<<Do(UpdateVariable("variable"))>>, "success", List("variable", ws))
deleteWorkspaceVariable(ws) ==
  Redirects(<<Do(DeleteVariable("variable"))>>, "success", List("variable", ws))

listVariableSetsActions == { IfCan("create", "variable-set", Org, Link(New("variable-set", Org))) }
listVariableSetsTable == { If("set", Link(Edit("set"))) }
listVariableSetsPage == Table(List("variable-set", Org)) \union listVariableSetsTable
listVariableSets ==
  Renders(<<Do(ListVariableSets)>>,
          OrganizationLayout(Org) \union listVariableSetsActions \union listVariableSetsPage, {})
variableSetForm(action) == { Form(action) }
newVariableSetPage == variableSetForm(Create("variable-set", Org))
newVariableSet ==
  Renders(<<Do(ListWorkspaces)>>,
          OrganizationLayout(Org) \union {Link(List("variable-set", Org))} \union newVariableSetPage, {})
createVariableSet == Redirects(<<Do(CreateVariableSet)>>, "success", Edit("set"))
variableSetTable ==
  { If("setVariable", Link(Edit("setVariable"))),
    If("setVariable", IfCan("delete", "variable", Org, Form(Delete("setVariable")))) }
editVariableSetPage == variableSetForm(Update("set")) \union variableSetTable \union { Link(New("variable", "set")) }
editVariableSet ==
  Renders(<<Do(GetVariableSet), Do(ListWorkspaces)>>,
          OrganizationLayout(Org) \union {Link(List("variable-set", Org))} \union editVariableSetPage, {})
updateVariableSet == Redirects(<<Do(UpdateVariableSet)>>, "success", Edit("set"))
deleteVariableSet == Redirects(<<Do(DeleteVariableSet)>>, "success", List("variable-set", Org))

\* The breadcrumb of a new variable leads to the path of the set itself.
newVSVPage == variableForm(Create("variable", "set"))
newVSV ==
  Renders(<<Do(GetVariableSet)>>,
          OrganizationLayout(Org) \union {Link(List("variable-set", Org)), Link(Get("set"))} \union newVSVPage, {})
createVSV == Redirects(<<Do(CreateVariable("set", "setVariable"))>>, "success", Edit("set"))
editVSVPage == variableForm(Update("setVariable"))
editVSV ==
  Renders(<<Do(GetVariable("setVariable")), Do(GetVariableSet)>>,
          OrganizationLayout(Org) \union {Link(List("variable-set", Org)), Link(Edit("set"))} \union editVSVPage, {})
updateVSV == Redirects(<<Do(UpdateVariable("setVariable"))>>, "success", Edit("set"))
deleteVSV == Redirects(<<Do(DeleteVariable("setVariable"))>>, "success", Edit("set"))

variableHandlers(ws) ==
  Route("GET", List("variable", ws), listWorkspaceVariables(ws)) @@
  Route("GET", New("variable", ws), newWorkspaceVariable(ws)) @@
  Route("POST", Create("variable", ws), createWorkspaceVariable(ws)) @@
  Route("GET", Edit("variable"), editWorkspaceVariable(ws)) @@
  Route("POST", Update("variable"), updateWorkspaceVariable(ws)) @@
  Route("POST", Delete("variable"), deleteWorkspaceVariable(ws)) @@
  Route("GET", List("variable-set", Org), listVariableSets) @@
  Route("GET", New("variable-set", Org), newVariableSet) @@
  Route("POST", Create("variable-set", Org), createVariableSet) @@
  Route("GET", Edit("set"), editVariableSet) @@
  Route("POST", Update("set"), updateVariableSet) @@
  Route("POST", Delete("set"), deleteVariableSet) @@
  Route("GET", New("variable", "set"), newVSV) @@
  Route("POST", Create("variable", "set"), createVSV) @@
  Route("GET", Edit("setVariable"), editVSV) @@
  Route("POST", Update("setVariable"), updateVSV) @@
  Route("POST", Delete("setVariable"), deleteVSV)
=============================================================================
