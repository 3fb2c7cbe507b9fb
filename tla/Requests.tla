------------------------------ MODULE Requests ------------------------------
(***************************************************************************)
(* Requests that change the tables of an organization at the same time.    *)
(*                                                                         *)
(* A request is a transaction of one or more statements.  A statement sees *)
(* what others have committed; what the transaction writes is seen with    *)
(* its commit, which every action that writes includes.  Between two       *)
(* statements a request is kept in session, together with what it has read *)
(* and, by its step, the locks that it holds.  A statement that needs a    *)
(* lock someone else holds waits: its action is disabled.                  *)
(***************************************************************************)
EXTENDS Naturals, FiniteSets, Sequences

CONSTANTS
  Workspace,
  Session,   \* requests that may be handled at the same time
  Budgets    \* bounds: the tables a behaviour starts with and what may happen in it

VARIABLES
  workspaces,  \* table workspaces: the ids
  session,     \* the request of each session
  budget       \* what is left of the behaviour's budget

requestVars == <<workspaces, session, budget>>

Idle == [op |-> "idle", at |-> "none"]

RequestsInit ==
  /\ budget \in Budgets
  /\ workspaces = budget.start.workspaces
  /\ session = [s \in Session |-> Idle]

Spend(kind) == /\ budget[kind] > 0
               /\ budget' = [budget EXCEPT ![kind] = @ - 1]

\* The first statement of a request that needs several.
Begin(s, request) == /\ session[s] = Idle
                     /\ session' = [session EXCEPT ![s] = request]

\* A request of a single statement, or one that is refused at once.
AtOnce(s) == /\ session[s] = Idle
             /\ UNCHANGED session

\* Commit, or rollback: nothing is written by a request that fails.
End(s) == session' = [session EXCEPT ![s] = Idle]

At(s, op, step) == session[s].op = op /\ session[s].at = step

Others(s) == Session \ {s}
=============================================================================
