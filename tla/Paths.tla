-------------------------------- MODULE Paths --------------------------------
(***************************************************************************)
(* Paths of the web interface, and what a page offers to its user (path,   *)
(* ui/helpers).                                                            *)
(*                                                                         *)
(* A path is a tuple: an id and an action, or a parent's id, a kind and an *)
(* action.  An offer is something on a page that makes the browser send a  *)
(* request: a link, a form, a button of htmx, a table that polls or a      *)
(* stream of events.  A page is a set of offers, each with what the page   *)
(* shows it under: rows that were read, and permissions of the user.       *)
(***************************************************************************)
EXTENDS Naturals, FiniteSets, Sequences, TLC

Site == "site"

(* path/path.go *)
Resource(action, id) == <<id, action>>
Resources(action, kind, parent) == <<parent, kind, action>>
Get(id) == Resource("get", id)
Edit(id) == Resource("edit", id)
Update(id) == Resource("update", id)
Delete(id) == Resource("delete", id)
List(kind, parent) == Resources("list", kind, parent)
New(kind, parent) == Resources("new", kind, parent)
Create(kind, parent) == Resources("create", kind, parent)

(* path/custom.go *)
Admin == <<Site, "admin">>
AdminLogin == <<Site, "admin-login">>
Profile == <<Site, "profile">>
Login == <<Site, "login">>
Logout == <<Site, "logout">>
Tokens == List("current-user-token", Site)
NewToken == New("current-user-token", Site)
CreateToken == Create("current-user-token", Site)
DeleteToken == Resources("delete", "current-user-token", Site)
GithubApps == List("github-app", Site)
NewGithubApp == New("github-app", Site)
ExchangeCodeGithubApp == Resources("exchange-code", "github-app", Site)
OrganizationToken(org) == Resources("show", "token", org)
CreateOrganizationToken(org) == Create("token", org)
DeleteOrganizationToken(org) == Resources("delete", "token", org)

NoPath == <<>>

\* Paths without the prefix /app, which need no authentication.
Public == {Login, AdminLogin}

-----------------------------------------------------------------------------
(* What a page offers *)

Offer(method, by, path) ==
  [method |-> method, by |-> by, path |-> path, when |-> {}, unless |-> {}, perms |-> {}, owner |-> FALSE]

Link(path) == Offer("GET", "link", path)
Form(path) == Offer("POST", "form", path)
Htmx(path) == Offer("POST", "htmx", path)
Fragment(path) == Offer("GET", "htmx", path)
PollingTable(path) == Offer("GET", "poll", path)
SSE(path) == Offer("GET", "stream", path)
\* A list: its page numbers and filters ask for the page's own path; it may poll.
Table(path) == { Link(path) }
Polled(path) == { PollingTable(path) } \union Table(path)

\* if, for and CanAccess in a template.
If(row, offer) == [offer EXCEPT !.when = @ \union {row}]
Unless(row, offer) == [offer EXCEPT !.unless = @ \union {row}]
IfCan(action, kind, id, offer) == [offer EXCEPT !.perms = @ \union {[perm |-> <<kind, action>>, on |-> id]}]
IfOwner(offer) == [offer EXCEPT !.owner = TRUE]

-----------------------------------------------------------------------------
(* Menus and layout *)

SiteMenu == { Link(List("organization", Site)), Link(Profile), Link(Tokens), Link(GithubApps) }

OrganizationMenu(org) ==
  { Link(List(kind, org)) : kind \in {"workspace", "team", "module"} } \union
  { IfOwner(Link(List(kind, org))) :
      kind \in {"run", "user", "runner", "agent-pool", "variable-set", "vcs-provider"} } \union
  { IfOwner(Link(Edit(org))) }

OrganizationSettingsMenu(org) ==
  { Link(Edit(org)), Link(List("ssh-key", org)), Link(OrganizationToken(org)), Link(Resource("edit-advanced", org)) }

WorkspaceMenu(ws, org) ==
  { Link(Get(org)), Link(Get(ws)), Link(List("run", ws)), Link(List("state-version", ws)), Link(List("variable", ws)),
    IfCan("update", "workspace", ws, Link(Edit(ws))),
    IfCan("create", "run", ws, Form(Resource("start-run", ws))) }

WorkspaceSettingsMenu(ws) ==
  { Link(Edit(ws)) } \union
  { Link(Resource(action, ws)) :
      action \in {"edit-permissions", "edit-vcs", "edit-engine", "edit-triggers", "edit-ssh-key", "edit-advanced"} }

\* navbar, for a user that is logged in.
navbar == { Link(List("organization", Site)), Link(Admin), Link(Profile) }

Layout == navbar \union SiteMenu
OrganizationLayout(org) == navbar \union { Link(Get(org)) } \union OrganizationMenu(org)
WorkspaceLayout(ws, org) == navbar \union { Link(Get(org)) } \union WorkspaceMenu(ws, org)
\* With the menu of the settings at the side.
OrganizationSettings(org) == OrganizationLayout(org) \union OrganizationSettingsMenu(org)
WorkspaceSettings(ws, org) == WorkspaceLayout(ws, org) \union WorkspaceSettingsMenu(ws)

\* The status of a run, linked to the run.
RunStatusBadge(run) == If(run, Link(Get(run)))
=============================================================================
