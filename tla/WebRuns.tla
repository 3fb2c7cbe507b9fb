-------------------------------- MODULE WebRuns --------------------------------
(***************************************************************************)
(* Pages and handlers of runs and run triggers (run/ui, run/trigger/ui).   *)
(* An operator named after a template is what the template offers; one     *)
(* named after a handler is what the handler calls and what it answers     *)
(* with.                                                                   *)
(***************************************************************************)
EXTENDS Services

\* A row of a table of runs: what the run is about, and what can be done with it.
runsTable(run) ==
  { If(run, Link(Get(run))), If(run, Link(Get("workspace"))), RunStatusBadge(run) } \union
  IF run # "run" THEN { If(run, Htmx(Resource("cancel", run))) }
  ELSE { If("cause", Link(Get("cause"))),
         If("planned", Form(Resource("apply", run))),
         If(run, [Htmx(Resource("cancel", run)) EXCEPT !.unless = {"planned", "signaled", "done"}]),
         If("signaled", Unless("done", Htmx(Resource("force-cancel", run)))),
         If("planned", Htmx(Resource("discard", run))),
         If("done", Form(Resource("retry", run))) }
\* For a row the workspace's name is looked up, and the picture of who created the run.
runRow(S) == <<OnlyIfAny(S, GetWorkspace("workspace")), OnlyIfAny(S, GetUser)>>

runList(parent) == Polled(List("run", parent))
runRows == UNION { runsTable(run) : run \in Runs }
listWorkspaceRuns(ws) ==
  Renders(<<Do(GetWorkspace(ws)), Do(ListRuns(ws))>> \o runRow(Runs), WorkspaceLayout(ws, Org) \union runList(ws), runRows)
listOrganizationRuns ==
  Renders(<<Do(ListRuns(Org))>> \o runRow(Runs), OrganizationLayout(Org) \union runList(Org), runRows)

\* The alert of a run that was triggered.
triggeredRunAlert(run) == IF run = "run" THEN { If("effect", Link(Get("effect"))) } ELSE {}
\* The logs are tailed until they are complete.
getPostContent(run) == { Unless("applied", SSE(Resource("tail", run))) }
runGet(run) == { SSE(Resource("watch", run)) } \union getPostContent(run)
getRun(ws, run) ==
  Renders(<<Do(GetRun(run)), Do(GetWorkspace(ws)), Do(GetChunk(run)), Do(GetChunk(run)),
            OnlyIf("applied", ListTriggeredRunIDs(run))>> \o runRow({run}),
          WorkspaceLayout(ws, Org) \union runGet(run), runsTable(run) \union triggeredRunAlert(run))

createRun(ws) == Redirects(<<Do(CreateRun(ws, "started"))>>, "none", Get("started"))
deleteRun(ws, run) == Redirects(<<Do(GetRun(run)), Do(DeleteRun(run))>>, "none", Get(ws))
cancelRun(run) == Redirects(<<Do(CancelRun(run))>>, "none", Get(run))
forceCancelRun(run) == Redirects(<<Do(ForceCancelRun(run))>>, "none", Get(run))
applyRun(run) == Redirects(<<Do(ApplyRun(run))>>, "none", Get(run))
discardRun(run) == Redirects(<<Do(DiscardRun(run))>>, "none", Get(run))
retryRun(ws, run) == Redirects(<<Do(GetRun(run)), Do(CreateRun(ws, "retried"))>>, "none", Get("retried"))

\* Streams: the row of the run is read and sent again at the start and with
\* every event.  What goes wrong then is not shown.
watchRun(run) ==
  Renders(<<Do(WatchRuns), Do(GetRun(run))>> \o runRow({run}), {}, runsTable(run) \union triggeredRunAlert(run))
latestRun == { If("latest", offer) : offer \in runsTable("run") }
latestRow == <<OnlyIf("latest", GetRun("run"))>> \o runRow({"run"})
watchLatestRun(ws) == Renders(<<Do(WatchRuns), Do(GetWorkspace(ws))>> \o latestRow, {}, latestRun)
tailRun(run) == Renders(<<Do(TailRun(run))>>, {}, {})

\* The link to a run that the terraform command shows.
TerraformLink(ws, run) == <<Org, ws, "run", run>>

runHandlers(ws, run) ==
  Route("GET", Get(run), getRun(ws, run)) @@
  Route("GET", TerraformLink(ws, run), getRun(ws, run)) @@
  Route("POST", Delete(run), deleteRun(ws, run)) @@
  Route("POST", Resource("cancel", run), cancelRun(run)) @@
  Route("POST", Resource("force-cancel", run), forceCancelRun(run)) @@
  Route("POST", Resource("apply", run), applyRun(run)) @@
  Route("POST", Resource("discard", run), discardRun(run)) @@
  Route("POST", Resource("retry", run), retryRun(ws, run)) @@
  Route("GET", Resource("watch", run), watchRun(run)) @@
  Route("GET", Resource("tail", run), tailRun(run)) @@
  Route("POST", Resource("tail", run), tailRun(run))

workspaceRunHandlers(ws) ==
  Route("GET", List("run", Org), listOrganizationRuns) @@
  Route("GET", List("run", ws), listWorkspaceRuns(ws)) @@
  Route("POST", Resource("start-run", ws), createRun(ws)) @@
  Route("GET", Resources("watch-latest", "run", ws), watchLatestRun(ws)) @@
  runHandlers(ws, "run") @@ runHandlers(ws, "started") @@ runHandlers(ws, "retried")

-----------------------------------------------------------------------------
(* Run triggers *)

\* A workspace that triggers runs is listed if it is among those that the user sees.
triggersTable(ws) ==
  { Form(Resource("update-auto-apply-run-trigger", ws)), Link(Edit(ws)), Form(Create("run-trigger", ws)),
    If("trigger", If("upstream", Link(Get("upstream")))), If("trigger", If("upstream", Form(Delete("trigger")))) }
editTriggers(ws) ==
  Renders(<<Do(GetWorkspace(ws)), Do(ListWorkspaces), Do(ListRunTriggers(ws))>>,
          WorkspaceSettings(ws, Org) \union triggersTable(ws), {})
createTrigger(ws) == Redirects(<<Do(CreateRunTrigger(ws))>>, "success", Resource("edit-triggers", ws))
deleteTrigger == Redirects(<<Do(DeleteRunTrigger)>>, "success", Referer)
updateAutoApply(ws) == Redirects(<<Do(UpdateWorkspace(ws))>>, "success", Resource("edit-triggers", ws))

triggerHandlers(ws) ==
  Route("GET", Resource("edit-triggers", ws), editTriggers(ws)) @@
  Route("POST", Create("run-trigger", ws), createTrigger(ws)) @@
  Route("POST", Delete("trigger"), deleteTrigger) @@
  Route("POST", Resource("update-auto-apply-run-trigger", ws), updateAutoApply(ws))
=============================================================================
