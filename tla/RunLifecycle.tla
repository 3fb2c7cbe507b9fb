---------------------------- MODULE RunLifecycle ----------------------------
(***************************************************************************)
(* What the database promises to the processes that only care how far a    *)
(* run has got: the life of a run in five statuses, and the lock of its    *)
(* workspace.  RunJobs implements this specification; Scheduler is built   *)
(* on it.                                                                  *)
(***************************************************************************)
CONSTANTS Run,        \* ids of runs
          Workspace,  \* ids of workspaces
          User,       \* names of users
          Nobody      \* the SQL NULL

VARIABLES rows,        \* table runs
          lock,        \* workspaces.lock_run_id / lock_username
          workspaces   \* the workspaces that exist

dbVars == <<rows, lock, workspaces>>

\* "active" stands for plan_queued, planning, planned, apply_queued and
\* applying, "ended" for the end states other than canceled.
Scheduled == {"active", "cost_estimated"}
Done == {"ended", "canceled"}
Gone == {"absent", "deleted"}
Status == {"pending"} \cup Scheduled \cup Done \cup Gone
Row == [status : Status, planOnly : BOOLEAN, workspace : Workspace \cup {Nobody}]

NoRow(status) == [status |-> status, planOnly |-> FALSE, workspace |-> Nobody]
Exists(r) == rows[r].status \notin Gone

\* The statuses the methods of a run move it to, EnqueuePlan excepted.
Moves(from) ==
  CASE from = "pending" -> Done
    [] from = "active" -> Scheduled \cup Done
    [] from = "cost_estimated" -> {"active"} \cup Done
    [] from \in Done -> {"canceled"}
    [] OTHER -> {}

DbInit ==
  /\ rows = [r \in Run |-> NoRow("absent")]
  /\ lock = [w \in Workspace |-> Nobody]
  /\ workspaces = Workspace

InsertRun(r, w, planOnly) ==
  /\ rows[r].status = "absent"
  /\ w \in workspaces
  /\ rows' = [rows EXCEPT ![r] = [status |-> "pending", planOnly |-> planOnly,
                                  workspace |-> w]]
  /\ UNCHANGED <<lock, workspaces>>

\* A run takes over the lock of another run, but not that of a user.
LockedByUser(w) == lock[w] \in User

EnqueuePlan(r) ==
  LET w == rows[r].workspace IN
  /\ rows[r].status = "pending"
  /\ rows' = [rows EXCEPT ![r].status = "active"]
  /\ IF rows[r].planOnly
     THEN lock' = lock
     ELSE ~LockedByUser(w) /\ lock' = [lock EXCEPT ![w] = r]
  /\ UNCHANGED workspaces

UpdateStatus(r, to) ==
  /\ to \in Moves(rows[r].status)
  /\ rows' = [rows EXCEPT ![r].status = to]
  /\ UNCHANGED <<lock, workspaces>>

DeleteRun(r) ==
  /\ Exists(r)
  /\ rows' = [rows EXCEPT ![r] = NoRow("deleted")]
  /\ lock' = [w \in Workspace |-> IF lock[w] = r THEN Nobody ELSE lock[w]]
  /\ UNCHANGED workspaces

RunsOf(w) == {r \in Run : Exists(r) /\ rows[r].workspace = w}

DeleteWorkspace(w) ==
  /\ w \in workspaces
  /\ workspaces' = workspaces \ {w}
  /\ rows' = [r \in Run |-> IF r \in RunsOf(w) THEN NoRow("deleted")
                                               ELSE rows[r]]
  /\ lock' = [lock EXCEPT ![w] = Nobody]

LockByUser(w, u) ==
  /\ w \in workspaces
  /\ lock[w] = Nobody
  /\ lock' = [lock EXCEPT ![w] = u]
  /\ UNCHANGED <<rows, workspaces>>

\* Unlock on behalf of `who`, a user or a run.
Unlock(w, who, force) ==
  /\ w \in workspaces
  /\ lock[w] # Nobody
  /\ lock[w] = who \/ force
  /\ lock' = [lock EXCEPT ![w] = Nobody]
  /\ UNCHANGED <<rows, workspaces>>

DbNext ==
  \/ \E r \in Run, w \in Workspace, planOnly \in BOOLEAN : InsertRun(r, w, planOnly)
  \/ \E r \in Run : EnqueuePlan(r) \/ DeleteRun(r)
  \/ \E r \in Run, to \in Status : UpdateStatus(r, to)
  \/ \E w \in Workspace : DeleteWorkspace(w)
  \/ \E w \in Workspace, u \in User : LockByUser(w, u)
  \/ \E w \in Workspace, u \in User, force \in BOOLEAN : Unlock(w, u, force)
  \/ \E w \in Workspace, r \in Run : Unlock(w, r, FALSE)

DbSpec == DbInit /\ [][DbNext]_dbVars
=============================================================================
