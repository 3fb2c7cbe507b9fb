--------------------------------- MODULE Web ---------------------------------
(***************************************************************************)
(* A browser's tab on the web interface (ui, ui/helpers, ui/auth,          *)
(* ui/session, authn): what a user opens and follows, what the handlers    *)
(* call one after the other, and what they answer, while others change     *)
(* what the pages are about and the session may expire.                    *)
(*                                                                         *)
(* Between any two calls of a handler others may delete or insert a row.   *)
(* The user, with its teams, is read when a request is authenticated; the  *)
(* role of its team on a workspace is read with every call.                *)
(***************************************************************************)
EXTENDS WebWorkspaces, WebVariables, WebOrganizations, WebRunners, WebProviders

CONSTANTS
  Visits,                         \* what is there, who looks at it and what may happen
  Disturbed,                      \* rows that others delete and insert
  RestrictOrganizationCreation

VARIABLES
  rows,      \* of the database
  me,        \* the user of the browser: a site admin, the role of devs, what devs manages
  tab,       \* the page that is shown, and the answer that it came with
  request,   \* the request under way
  cookies,   \* session, flash and path
  left       \* what the user, others and time may still do

vars == <<rows, me, tab, request, cookies, left>>

-----------------------------------------------------------------------------
(* Routes *)

Handlers ==
  workspaceHandlers("workspace") @@ workspaceRunHandlers("workspace") @@ triggerHandlers("workspace") @@
  stateHandlers("workspace") @@ variableHandlers("workspace") @@
  organizationHandlers @@ userHandlers @@ sshkeyHandlers @@
  teamHandlers("owners") @@ teamHandlers("devs") @@ memberHandlers("owners") @@ memberHandlers("devs") @@
  runnerHandlers("workspace") @@ vcsHandlers @@ githubHandlers @@ moduleHandlers

\* The other workspace and its runs are only linked to.
Canonical(path) ==
  [i \in DOMAIN path |-> CASE path[i] = "upstream" -> "workspace"
                          [] path[i] \in {"cause", "effect"} -> "run"
                          [] OTHER -> path[i]]
Routed(method, path) == <<method, Canonical(path)>> \in DOMAIN Handlers
Handler(r) == Handlers[<<r.method, r.path>>]

\* What a user may open from the address bar or a bookmark: what is a page, or leads to one.
Shows(h) == h.page # {} \/ h.to # NoPath
Pages == { r[2] : r \in { x \in DOMAIN Handlers : x[1] = "GET" /\ Shows(Handlers[x]) } }

\* Rows that a handler decides on.
Decides(h) ==
  UNION { h.calls[i].when : i \in DOMAIN h.calls } \union UNION { o.when \union o.unless : o \in h.page \union h.live }

-----------------------------------------------------------------------------
(* Authorization *)

Subjects(S) ==
  (IF "meOwner" \in S THEN {"owners"} ELSE {}) \union (IF "meMember" \in S THEN {"devs"} ELSE {})

Subject(teams) ==
  [kind |-> "user", name |-> "me", admin |-> me.admin,
   teams |-> { [id |-> t, name |-> t, organization |-> Org, manage |-> IF t = "devs" THEN me.manage ELSE {}] : t \in teams }]

\* generateRequest: what a row belongs to, and the roles on its workspace.
policyOf(ws) == [t \in Teams |-> IF ws = "workspace" /\ t = "devs" /\ "grant" \in rows THEN me.role ELSE NoRole]
generateRequest(on) ==
  CASE on = Site -> SiteRequest
    [] InWorkspace(on) -> WorkspaceRequest(Org, policyOf(WorkspaceOf(on)))
    [] OTHER -> OrganizationRequest(Org)
Resolved(on) == on \in {Site, Org} \union rows

\* Authorize
Authorized(teams, perm, on) == Resolved(on) /\ CanAccess(Subject(teams), perm, generateRequest(on))

restrictOrganizationCreation(op) == RestrictOrganizationCreation /\ op = CreateOrganization => me.admin

-----------------------------------------------------------------------------
(* What may come of a call *)

\* The permissions that are asked for: the method's own, and others for what is there.
Asked(op) ==
  (IF op.perm = NoPerm \/ op.own THEN {} ELSE { [perm |-> op.perm, on |-> op.on] }) \union
  { [perm |-> a.perm, on |-> a.on] : a \in { b \in op.also : b.row \in rows } }
Missing(op) == ~(op.needs \subseteq rows) \/ \E a \in Asked(op) : ~Resolved(a.on)
Refused(teams, op) ==
  \/ ~restrictOrganizationCreation(op)
  \/ \E a \in Asked(op) : Resolved(a.on) /\ ~Authorized(teams, a.perm, a.on)

\* Something else may be wrong with what was entered, or with another server.
Failures(teams, op) ==
  IF Refused(teams, op) THEN {"refused"}
  ELSE IF Missing(op) THEN {"missing"}
  ELSE IF op.fails THEN {"invalid"} ELSE {}
\* What then remains.
Remains(op, outcome) ==
  IF outcome = "invalid" /\ UNION { Parents[r] : r \in op.leaves } \subseteq rows THEN rows \union op.leaves ELSE rows
Succeeds(teams, op) == ~Refused(teams, op) /\ ~Missing(op)

\* Those who may not list everything see what their teams have a role on.
Visible(teams, op) ==
  IF op.own /\ ~Authorized(teams, op.perm, op.on)
  THEN op.reads \intersect ((IF teams # {} THEN {Org} ELSE {}) \union
                            (IF "devs" \in teams /\ "grant" \in rows THEN {"workspace"} \union Runs ELSE {}))
  ELSE op.reads

Ways(op) == IF ~op.write THEN {Does({}, {}, {}, {})}
            ELSE { d \in op.does : d.needs \subseteq rows /\ d.free \intersect rows = {} }
Done(d) == (rows \ UNION { Cascade[r] : r \in d.removes }) \union d.adds

\* Rows that make up what the user may do.
Mine(S) == S \intersect {"meOwner", "meMember", "grant"}

-----------------------------------------------------------------------------
(* The tab *)

NoAnswer == [outcome |-> "none", wrote |-> FALSE, calm |-> FALSE, guarded |-> FALSE, landing |-> FALSE, login |-> FALSE]
Blank ==
  [path |-> NoPath, at |-> "blank", seen |-> {}, live |-> {}, may |-> {}, owner |-> FALSE, calm |-> FALSE,
   answer |-> NoAnswer]
NoRequest == [by |-> "none"]

\* A request as it is sent, with the cookies of the moment.
Request(method, path, by) ==
  [method |-> method, path |-> path, by |-> by, from |-> tab.path, teams |-> Subjects(rows), flash |-> cookies.flash,
   at |-> 1, seen |-> {}, wrote |-> FALSE, calm |-> TRUE, fresh |-> TRUE, guarded |-> FALSE, landing |-> FALSE,
   login |-> FALSE, hops |-> 0]

\* The offers of the page as it was rendered, and of its live part as last read.
Shown(o, seen) == o.when \subseteq seen /\ o.unless \intersect seen = {}
Permitted(o) == o.perms \subseteq tab.may /\ (o.owner => tab.owner)
Offers ==
  IF tab.at # "page" THEN {}
  ELSE LET h == Handlers[<<"GET", tab.path>>]
       IN  { o \in h.page : Shown(o, tab.seen) /\ Permitted(o) } \union { o \in h.live : Shown(o, tab.live) }

AnswerOf(r, outcome) ==
  [outcome |-> outcome, wrote |-> r.wrote, calm |-> IF r.landing THEN r.calm ELSE r.fresh,
   guarded |-> r.guarded, landing |-> r.landing, login |-> r.login]

Background(r) == r.by \in {"poll", "stream", "htmx"}

-----------------------------------------------------------------------------
(* Sending *)

\* A mutant: a stream is returned to like a page.
returnURLOwn(r) == r.path
\* SendUserToLoginPage: where to return to.  A stream is no page.
returnURL(r) == IF r.by = "stream" THEN r.from ELSE r.path

\* A request of htmx makes the browser load the page again, which is then what
\* is returned to.  A stream only fails.
SendUserToLoginPage(r, jar, shown) ==
  /\ request' = NoRequest
  /\ cookies' = [jar EXCEPT !.flash = "error", !.form = r.by = "form",
                            !.path = IF r.by \in {"poll", "htmx"} THEN r.from ELSE returnURL(r)]
  /\ tab' = IF r.by = "stream" THEN shown ELSE [Blank EXCEPT !.at = "login", !.answer = shown.answer]

\* A request with the cookies in the jar.  The router is asked first, then the session.
Send(r, jar, shown) ==
  IF ~Routed(r.method, r.path)
  THEN /\ request' = NoRequest
       /\ cookies' = jar
       /\ tab' = [Blank EXCEPT !.at = "error", !.answer = AnswerOf(r, "unrouted")]
  ELSE IF ~jar.session
  THEN SendUserToLoginPage(r, jar, shown)
  ELSE /\ request' = [r EXCEPT !.flash = jar.flash]
       /\ cookies' = jar
       /\ tab' = shown

Idle == request = NoRequest

\* From the address bar.
Open ==
  /\ Idle /\ tab.at = "blank"
  /\ \E path \in Pages : Send(Request("GET", path, "link"), cookies, tab)
  /\ UNCHANGED <<rows, me, left>>

Follow(o) ==
  /\ Idle /\ left.follows > 0
  /\ o.path = Canonical(o.path)
  /\ Send([Request(o.method, o.path, o.by) EXCEPT !.fresh = tab.calm, !.guarded = o.perms # {}], cookies, tab)
  /\ left' = [left EXCEPT !.follows = @ - 1]
  /\ UNCHANGED <<rows, me>>

\* The login page from the address bar, instead of what the session has expired for.
OpenLogin ==
  /\ Idle /\ tab.at = "page" /\ ~cookies.session
  /\ tab' = [Blank EXCEPT !.at = "login"]
  /\ UNCHANGED <<rows, me, request, cookies, left>>

\* StartSession, ReturnUserOriginalPage: back to where the user wanted to go.
StartSession ==
  /\ Idle /\ tab.at = "login"
  /\ Send([Request("GET", IF cookies.path = NoPath THEN Profile ELSE cookies.path, "link") EXCEPT !.login = TRUE],
          [cookies EXCEPT !.session = TRUE, !.path = NoPath], tab)
  /\ UNCHANGED <<rows, me, left>>

-----------------------------------------------------------------------------
(* Handling *)

\* The calls that are left for a request: those that depend on nothing, or on what was seen.
Pending(h, r) ==
  { i \in r.at .. Len(h.calls) : h.calls[i].when = {} \/ h.calls[i].when \intersect r.seen # {} }
Upcoming(h, r) ==
  { [at |-> i, op |-> h.calls[i].op, minds |-> h.calls[i].minds, decides |-> Decides(h)] :
      i \in { j \in Pending(h, r) : \A k \in Pending(h, r) : j <= k } }
NextCall == IF Idle THEN {} ELSE Upcoming(Handler(request), request)
\* The handler that has nothing left but to answer.
Answering == IF Idle THEN {} ELSE { h \in {Handler(request)} : Pending(h, request) = {} }

\* A call of a service.
Call(c) ==
  /\ Succeeds(request.teams, c.op)
  /\ \E d \in Ways(c.op) :
       /\ rows' = Done(d)
       /\ request' = [request EXCEPT
            !.at = c.at + 1,
            !.seen = @ \union (Visible(request.teams, c.op) \intersect rows \intersect c.decides),
            !.wrote = @ \/ c.op.write,
            !.calm = IF c.op.write THEN Mine(Done(d)) = Mine(rows) ELSE @]
  /\ UNCHANGED <<me, tab, cookies, left>>

\* A call that fails, which the handler does not mind.
Skip(c) ==
  /\ \E outcome \in Failures(request.teams, c.op) \ {"invalid"} : outcome \notin c.minds
  /\ request' = [request EXCEPT !.at = c.at + 1]
  /\ UNCHANGED <<rows, me, tab, cookies, left>>

\* A mutant: a GET is sent back, too.
ErrorAlwaysBack(outcome) ==
  Send([Request("GET", request.from, "link") EXCEPT !.hops = request.hops + 1],
       [cookies EXCEPT !.flash = "error"], [tab EXCEPT !.answer = AnswerOf(request, outcome)])
\* Error: a POST is sent back to the page with a message, a GET gets an error page.
Error(outcome) ==
  LET shown == [tab EXCEPT !.answer = AnswerOf(request, outcome)]
  IN  IF request.method = "POST"
      THEN Send([Request("GET", request.from, IF request.by = "htmx" THEN "htmx" ELSE "link")
                   EXCEPT !.hops = request.hops + 1],
                [cookies EXCEPT !.flash = "error"], shown)
      ELSE /\ request' = NoRequest
           /\ tab' = IF Background(request) THEN shown ELSE [Blank EXCEPT !.at = "error", !.answer = shown.answer]
           /\ UNCHANGED cookies

Fail(c) ==
  /\ \E outcome \in Failures(request.teams, c.op) \intersect (c.minds \union {"invalid"}) :
       /\ Error(outcome)
       /\ rows' = Remains(c.op, outcome)
  /\ UNCHANGED <<me, left>>

-----------------------------------------------------------------------------
(* Answering *)

\* PopFlashes: the message that came with the request is shown and removed.
Popped(r) == IF r.flash = "none" THEN cookies ELSE [cookies EXCEPT !.flash = "none"]

\* RenderPage.  What is shown under a permission is decided now.
Rendered(h, r) ==
  LET may == { p \in UNION { o.perms : o \in h.page } : Authorized(r.teams, p.perm, p.on) }
      seen(S) == r.seen \intersect UNION { o.when \union o.unless : o \in S }
  IN  [path |-> r.path, at |-> "page", seen |-> seen(h.page), live |-> seen(h.live), may |-> may,
       owner |-> me.admin \/ "owners" \in r.teams, calm |-> r.calm, answer |-> AnswerOf(r, "ok")]

\* Of a background request only the live part is used.
Refreshed(r) ==
  LET live == Handlers[<<"GET", tab.path>>].live
  IN  [tab EXCEPT !.live = IF r.by = "htmx" THEN @
                           ELSE r.seen \intersect UNION { o.when \union o.unless : o \in live },
                  !.answer = AnswerOf(r, "ok")]

Render(h) ==
  /\ h.to = NoPath
  /\ tab' = IF Background(request) THEN Refreshed(request)
            ELSE IF Shows(h) THEN Rendered(h, request)
            ELSE [Blank EXCEPT !.at = "error", !.answer = AnswerOf(request, "fragment")]
  /\ cookies' = IF h.page = {} THEN cookies ELSE Popped(request)
  /\ request' = NoRequest
  /\ UNCHANGED <<rows, me, left>>

\* Redirects, which the browser follows with the cookies that came along.
Target(h, r) == IF h.to = Referer THEN r.from ELSE h.to
Jar(h, r) ==
  [cookies EXCEPT !.flash = IF h.flash = "none" THEN @ ELSE h.flash, !.session = @ /\ r.path # Logout]
Redirect(h) ==
  /\ Target(h, request) \notin {NoPath} \union Public
  /\ Send([Request("GET", Target(h, request), "link") EXCEPT
              !.calm = request.calm, !.landing = request.wrote \/ request.landing, !.login = request.login,
              !.hops = request.hops + 1],
          Jar(h, request), [tab EXCEPT !.answer = AnswerOf(request, "ok")])
  /\ UNCHANGED <<rows, me, left>>

\* The login page needs no session.
RedirectToLogin(h) ==
  /\ Target(h, request) \in Public
  /\ request' = NoRequest
  /\ cookies' = Jar(h, request)
  /\ tab' = [Blank EXCEPT !.at = "login", !.answer = AnswerOf(request, "ok")]
  /\ UNCHANGED <<rows, me, left>>

-----------------------------------------------------------------------------
(* Others, and time *)

Disturb(S) ==
  /\ left.changes > 0
  /\ rows' = S
  /\ left' = [left EXCEPT !.changes = @ - 1]
  /\ tab' = [tab EXCEPT !.calm = FALSE]
  /\ request' = IF Idle THEN request ELSE [request EXCEPT !.calm = FALSE, !.fresh = FALSE]
  /\ UNCHANGED <<me, cookies>>

\* A pool cannot be deleted while it is assigned, a run is not planned again.
DeleteElsewhere(row) ==
  /\ row \in rows
  /\ row = "pool" => "assigned" \notin rows
  /\ Disturb(rows \ Cascade[row])
InsertElsewhere(row) ==
  /\ row \notin rows /\ Parents[row] \subseteq rows
  /\ row = "planned" => "done" \notin rows
  /\ Disturb(rows \union {row})

Expire ==
  /\ left.expiries > 0 /\ cookies.session
  /\ cookies' = [cookies EXCEPT !.session = FALSE]
  /\ left' = [left EXCEPT !.expiries = @ - 1]
  /\ UNCHANGED <<rows, me, tab, request>>

-----------------------------------------------------------------------------

Init ==
  \E v \in Visits :
    /\ rows = v.rows
    /\ me = v.me
    /\ left = v.left
    /\ tab = Blank
    /\ request = NoRequest
    /\ cookies = [session |-> TRUE, flash |-> "none", path |-> NoPath, form |-> FALSE]

Next ==
  \/ Open
  \/ \E o \in Offers : Follow(o)
  \/ OpenLogin \/ StartSession
  \/ \E c \in NextCall : Call(c) \/ Skip(c) \/ Fail(c)
  \/ \E h \in Answering : Render(h) \/ Redirect(h) \/ RedirectToLogin(h)
  \/ \E row \in Disturbed : DeleteElsewhere(row) \/ InsertElsewhere(row)
  \/ Expire

Spec == Init /\ [][Next]_vars

-----------------------------------------------------------------------------
(* Properties *)

Outcomes == {"none", "ok", "missing", "refused", "invalid", "unrouted", "fragment"}

\* The state is well-formed: what is there has what it belongs to, and a chain
\* of redirects ends after a few of them (Error and http.Redirect never send
\* the browser round in a circle).
TypeOK ==
  /\ rows \subseteq Row /\ \A r \in rows : Parents[r] \subseteq rows
  /\ tab.at \in {"blank", "page", "error", "login"} /\ tab.answer.outcome \in Outcomes
  /\ tab.at = "page" => Routed("GET", tab.path)
  /\ cookies.flash \in {"none", "success", "error", "token"}
  /\ Idle \/ (request.hops \in 0..2 /\ Routed(request.method, request.path))

\* Whatever a page lets its user send or loads by itself - a form, a button, a
\* table that polls, a stream, a fragment - has a handler for that method and
\* path (path.go builds the paths, AddHandlers of thirteen packages the routes).
FormsAreRouted == \A o \in Offers : o.by # "link" => Routed(o.method, o.path)

\* A handler that answers with an error has changed nothing: no call that may
\* fail comes after one that has changed something (Error in ui/helpers).  What
\* one call itself leaves behind is not meant: publishing a module that cannot
\* be set up leaves the module, marked as such (Remains).
ErrorMeansUnchanged ==
  tab.answer.outcome \in {"missing", "refused", "invalid"} /\ ~tab.answer.landing => ~tab.answer.wrote

\* After a success the user arrives at a page: where the handler redirects to
\* is routed, is there and is permitted, unless others have interfered or the
\* user has taken away its own permissions.  Another server may still fail.
RedirectsLand ==
  tab.answer.landing /\ tab.answer.calm => tab.answer.outcome \notin {"missing", "refused", "unrouted", "fragment"}

\* What a page offers under a check of a permission is not refused for want of
\* a permission: the templates' CanAccess asks for what the service will ask for.
GuardedOffersWork == tab.answer.guarded /\ tab.answer.calm => tab.answer.outcome # "refused"

\* After logging in the user is back on a page and not on a fragment, a stream
\* or a path without a page (SendUserToLoginPage, ReturnUserOriginalPage) -
\* unless it was a form that found the session expired.
LoginReturns == tab.answer.login /\ ~cookies.form => tab.answer.outcome \notin {"unrouted", "fragment"}

\* SendUserToLoginPage says that it saves the path "so it can return them there
\* after login"; the path of a form is for POST only.
LoginReturnsToPage == tab.answer.login => tab.answer.outcome \notin {"unrouted", "fragment"}

\* path.Resource is said to return a routable path; links to it are not dead.
NoDeadLinks == \A o \in Offers : Routed(o.method, o.path)

\* What pages offer has a handler (FormsAreRouted), whatever state the browser
\* is in.
PagesAreRouted == TypeOK /\ FormsAreRouted

\* After a success and after a login the user is on a page that it may see
\* (RedirectsLand, LoginReturns).
UsersLand == RedirectsLand /\ LoginReturns
=============================================================================
