---------------------------- MODULE WebProviders ----------------------------
(***************************************************************************)
(* Pages and handlers of VCS providers, GitHub apps and modules (vcs/ui,   *)
(* github/ui, module/ui), named like those of WebRuns.                     *)
(***************************************************************************)
EXTENDS Services

-----------------------------------------------------------------------------
(* VCS providers *)

\* A provider is of a kind with a token or of a kind with an app.
NewAppProvider == Resources("new-app", "vcs-provider", Org)

tableAction == { If("provider", Link(Edit("provider"))) }
providersTable == { If("provider", Link(Edit("provider"))) } \union tableAction
list == { Link(New("vcs-provider", Org)), Link(NewAppProvider) } \union providersTable
listProviders ==
  Renders(<<Do(ListVCSProviders)>>,
          OrganizationLayout(Org) \union Table(List("vcs-provider", Org)) \union list, {})

\* The form of a kind with an app is there once the app has been created.
vcsForm(action) == { Form(action) }
vcsAppForm(action) == { If("app", Form(action)), Unless("app", Link(NewGithubApp)) }
newVCSProvider ==
  Renders(<<>>, OrganizationLayout(Org) \union vcsForm(Create("vcs-provider", Org)), {})
newVCSAppProvider ==
  Renders(<<IfFound(GetApp), OnlyIf("app", ListInstallations)>>,
          OrganizationLayout(Org) \union vcsAppForm(Create("vcs-provider", Org)), {})
createVCSProvider == Redirects(<<Do(CreateVCSProvider)>>, "success", List("vcs-provider", Org))
editPage ==
  { Link(List("vcs-provider", Org)), Form(Delete("provider")) } \union
  { Unless("appKind", offer) : offer \in vcsForm(Update("provider")) } \union
  { If("appKind", offer) : offer \in vcsAppForm(Update("provider")) }
editVCSProvider ==
  Renders(<<Do(GetVCSProvider), [OnlyIf("appKind", GetApp) EXCEPT !.minds = {"refused"}]>>,
          OrganizationLayout(Org) \union editPage, {})
updateVCSProvider == Redirects(<<Do(UpdateVCSProvider)>>, "success", List("vcs-provider", Org))
deleteVCSProvider == Redirects(<<Do(DeleteVCSProvider)>>, "success", List("vcs-provider", Org))

vcsHandlers ==
  Route("GET", List("vcs-provider", Org), listProviders) @@
  Route("GET", New("vcs-provider", Org), newVCSProvider) @@
  Route("GET", NewAppProvider, newVCSAppProvider) @@
  Route("POST", Create("vcs-provider", Org), createVCSProvider) @@
  Route("GET", Edit("provider"), editVCSProvider) @@
  Route("POST", Update("provider"), updateVCSProvider) @@
  Route("POST", Delete("provider"), deleteVCSProvider)

appTable == { If("app", IfCan("delete", "github-app", Site, Form(Delete("app")))) }
installsTable == { If("install", Form(Resource("delete-install", "install"))) }
getApps == { Unless("app", IfCan("create", "github-app", Site, Link(NewGithubApp))) } \union appTable \union installsTable
getGithubApp == Renders(<<IfFound(GetApp), OnlyIf("app", ListInstallations)>>, Layout \union getApps, {})
\* GitHub sends the user back with a code.
newAppView == { Link(ExchangeCodeGithubApp) }
newGithubApp == Renders(<<>>, Layout \union newAppView, {})
exchangeCodeGithubApp == Redirects(<<Do(ExchangeCode), Do(CreateApp)>>, "success", GithubApps)
deleteGithubApp == Redirects(<<Do(GetApp), Do(DeleteApp)>>, "success", GithubApps)
deleteGithubAppInstall == Redirects(<<Do(DeleteInstallation)>>, "success", GithubApps)

githubHandlers ==
  Route("GET", GithubApps, getGithubApp) @@
  Route("GET", NewGithubApp, newGithubApp) @@
  Route("GET", ExchangeCodeGithubApp, exchangeCodeGithubApp) @@
  Route("POST", Delete("app"), deleteGithubApp) @@
  Route("POST", Resource("delete-install", "install"), deleteGithubAppInstall)

-----------------------------------------------------------------------------
(* Modules *)

ConnectModule == Resources("connect", "module", Site)

moduleListActions == { IfCan("create", "module", Org, Link(New("module", Org))) }
moduleTable == { If("module", Link(Get("module"))) }
listModules ==
  Renders(<<Do(ListModules), Do(ListProviders)>>,
          OrganizationLayout(Org) \union Table(List("module", Org)) \union moduleListActions \union moduleTable, {})

selectVCSProviderAction == { If("provider", Link(ConnectModule)) }
newView == { If("provider", Link(Edit("provider"))) } \union selectVCSProviderAction
newModule == Renders(<<Do(ListVCSProviders)>>, OrganizationLayout(Org) \union {Link(List("module", Org))} \union newView, {})
moduleRepoSelector == { Form(Create("module", Org)) }
connectPage == { Form(Create("module", Org)) } \union moduleRepoSelector
connectModule ==
  Renders(<<Do(GetVCSProvider), Do(ListRepositories)>>,
          OrganizationLayout(Org) \union {Link(List("module", Org))} \union connectPage, {})
publishModule == Redirects(<<Do(PublishModule)>>, "success", Get("module"))
\* Versions are selected once some are there.
moduleGet == { Link(List("module", Org)), If("published", Link(Get("module"))), Form(Delete("module")) }
getModule == Renders(<<Do(GetModuleByID), OnlyIf("published", GetModuleInfo)>>, OrganizationLayout(Org) \union moduleGet, {})
deleteModule == Redirects(<<Do(DeleteModule)>>, "success", List("module", Org))

moduleHandlers ==
  Route("GET", List("module", Org), listModules) @@
  Route("GET", New("module", Org), newModule) @@
  Route("POST", Create("module", Org), publishModule) @@
  Route("GET", ConnectModule, connectModule) @@
  Route("GET", Get("module"), getModule) @@
  Route("POST", Delete("module"), deleteModule)
=============================================================================
