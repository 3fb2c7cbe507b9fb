-------------------------------- MODULE MCWeb --------------------------------
(***************************************************************************)
(* Small instances of Web.                                                 *)
(***************************************************************************)
EXTENDS Web

\* Everything is there, with a run that waits for confirmation.
Everything == Row \ {"lockMe", "lockThem", "signaled", "done", "applied", "started", "retried"}
\* The run was applied, the workspace locked by its user and not connected.
Finished ==
  (Everything \ {"lockRun", "planned", "connection", "assigned", "trigger", "app", "install", "published"}) \union
  {"lockMe", "done", "applied"}
\* The run is being canceled, the workspace locked by another user.
Canceling == (Everything \ {"lockRun", "planned", "grant", "state", "tag"}) \union {"lockThem", "signaled"}
\* An organization with nothing in it but its owners.
Bare == {"organization", "owners", "meOwner", "themOwner"}

Someone == [admin |-> FALSE, role |-> "read", manage |-> {}]
As(role) == [Someone EXCEPT !.role = role]
Manager(of) == [Someone EXCEPT !.manage = of]
Admin_ == [Someone EXCEPT !.admin = TRUE]

Budget(f, c, e) == [follows |-> f, changes |-> c, expiries |-> e]
Visit(there, who, budget) == [rows |-> there, me |-> who, left |-> budget]

Calm == Budget(1, 0, 0)
\* Everyone looks at everything and follows one offer.
Roles == { As(r) : r \in RoleName } \union { Manager({m}) : m \in DOMAIN ManagerRole }
Looking ==
  { Visit(Everything \ {"meOwner"}, who, Calm) : who \in Roles } \union
  { Visit(there \ {"meMember"}, Someone, Calm) : there \in {Everything, Finished, Canceling, Bare} } \union
  { Visit(there \ {"meOwner", "meMember"}, who, Calm) : there \in {Everything, {}}, who \in {Someone, Admin_} }
\* A browser follows two offers, one after the other.
Working == { Visit(there \ {"meMember"}, Someone, Budget(2, 0, 0)) : there \in {Everything, Finished} }
\* Others interfere with what an owner or a member does, or the session expires.
Disturbing ==
  { Visit(Everything \ {"meMember"}, Someone, Budget(1, 1, 0)), Visit(Everything \ {"meOwner"}, As("admin"), Budget(1, 1, 0)) }
Expiring == { Visit(Canceling \ {"meMember"}, Someone, Budget(2, 0, 1)) }

MCVisits == Looking \union Working \union Disturbing \union Expiring
MCDisturbed == {"workspace", "upstream", "grant", "run", "planned", "latest", "module", "provider", "devs", "pool", "assigned", "set"}
=============================================================================
