------------------------------ MODULE Variables ------------------------------
(***************************************************************************)
(* Variables of workspaces and of variable sets, and what a run gets of    *)
(* them (variable).                                                        *)
(*                                                                         *)
(* A variable's key stands for its key and its category: only both         *)
(* together can conflict.  What a request writes is checked for conflicts  *)
(* under an exclusive lock on the tables, which others may still read.     *)
(***************************************************************************)
EXTENDS Requests, FiniteSetsExt, SequencesExt

CONSTANTS
  VariableSet, Variable,
  Key,              \* a key in a category
  TerraformKey,     \* those in the category terraform
  SetName           \* names of sets, as numbers in their lexical order

ASSUME VariablesAssumption ==
  /\ TerraformKey \subseteq Key
  /\ SetName \subseteq Nat
  /\ Workspace \intersect VariableSet = {}
  /\ "none" \notin Workspace \union VariableSet

VARIABLES
  variables,  \* table variables
  sets        \* tables variable_sets and variable_set_workspaces

variableVars == <<variables, sets>>

NoRow == [parent |-> "none"]
NoSet == [name |-> 0, global |-> FALSE, workspaces |-> {}, exists |-> FALSE]

Exists(v) == variables[v] # NoRow

VariablesInit ==
  /\ variables = budget.start.variables
  /\ sets = budget.start.sets

-----------------------------------------------------------------------------
(* Conflicts *)

listVariables(parent) == { v \in Variable : Exists(v) /\ variables[v].parent = parent }

listGlobalVariables == UNION { listVariables(x) : x \in { y \in VariableSet : sets[y].global } }

\* No other variable of the collection has the key.
checkConflicts(v, row, collection) == \A u \in collection \ {v} : variables[u].key # row.key

\* The variables a variable may conflict with.
Scope(parent) ==
  IF parent \in VariableSet /\ sets[parent].global THEN listGlobalVariables ELSE listVariables(parent)

\* The variable has no conflict; its set, if it is in a set, exists.
checkVariable(v, row) ==
  /\ row.parent \in VariableSet => sets[row.parent].exists
  /\ checkConflicts(v, row, Scope(row.parent))

\* A set that is or becomes global has no conflict with the global sets.
checkSet(x, set) ==
  set.global => \A v \in listVariables(x) : checkConflicts(v, variables[v], listGlobalVariables)

-----------------------------------------------------------------------------
(* Locks.  LOCK TABLE takes the tables one after the other. *)

LocksVariables(t) ==
  \/ session[t].op \in {"createVariable", "updateVariable"}
  \/ session[t].op = "updateSet"

LocksSets(t) == At(t, "updateSet", "write")

\* The set's row is deleted, and the deletion is not committed.
DeletesSet(t, x) == At(t, "deleteSet", "cascade") /\ session[t].set = x

\* Mutant: no lock.
VariablesFreeAlways(s) == TRUE

VariablesFree(s) == \A t \in Others(s) : ~LocksVariables(t)

SetsFree(s) == \A t \in Others(s) : ~LocksSets(t)

NoSetDeleted(s) == \A t \in Others(s), x \in VariableSet : ~DeletesSet(t, x)

-----------------------------------------------------------------------------
(* Variables *)

\* CreateVariable, once it holds the lock: it is checked,
CreateVariable(s, v, row) ==
  /\ Spend("variables")
  /\ ~Exists(v)
  /\ \A t \in Session : session[t].op = "createVariable" => session[t].variable # v
  /\ row.parent \in Workspace => row.parent \in workspaces
  /\ VariablesFree(s)
  /\ \/ /\ checkVariable(v, row)
        /\ Begin(s, [op |-> "createVariable", at |-> "write", variable |-> v, row |-> row])
     \/ /\ ~checkVariable(v, row)
        /\ AtOnce(s)
  /\ UNCHANGED <<workspaces, variables, sets>>

\* and inserted unless its parent is gone.
CreateVariableCommits(s) ==
  /\ At(s, "createVariable", "write")
  /\ LET v == session[s].variable
         row == session[s].row
         parentExists == row.parent \in workspaces \/ (row.parent \in VariableSet /\ sets[row.parent].exists)
     IN /\ \A t \in Others(s) : ~DeletesSet(t, row.parent)
        /\ variables' = IF parentExists THEN [variables EXCEPT ![v] = row] ELSE variables
  /\ End(s)
  /\ UNCHANGED <<workspaces, budget, sets>>

\* May the options be applied to the row?  (Variable.update)
UpdateAllowed(row, opts) ==
  row.sensitive => opts.key = {} /\ FALSE \notin opts.sensitive

Given(option, value) == IF option = {} THEN value ELSE CHOOSE x \in option : TRUE

Updated(row, opts) == [row EXCEPT !.key = Given(opts.key, @), !.sensitive = Given(opts.sensitive, @)]

\* UpdateVariable, once it holds the lock: it reads the row and checks the
\* updated copy of it,
UpdateVariable(s, v, opts) ==
  /\ Spend("variables")
  /\ VariablesFree(s)
  /\ Exists(v)
  /\ LET after == Updated(variables[v], opts)
         allowed == UpdateAllowed(variables[v], opts) /\ checkVariable(v, after)
     IN \/ allowed /\ Begin(s, [op |-> "updateVariable", at |-> "write", variable |-> v, row |-> after])
        \/ ~allowed /\ AtOnce(s)
  /\ UNCHANGED <<workspaces, variables, sets>>

\* and writes every column, unless the row is gone.
UpdateVariableCommits(s) ==
  /\ At(s, "updateVariable", "write")
  /\ variables' = [variables EXCEPT ![session[s].variable] = IF @ = NoRow THEN NoRow ELSE session[s].row]
  /\ End(s)
  /\ UNCHANGED <<workspaces, budget, sets>>

DeleteVariable(s, v) ==
  /\ Spend("variables")
  /\ AtOnce(s)
  /\ Exists(v)
  /\ VariablesFree(s)
  /\ variables' = [variables EXCEPT ![v] = NoRow]
  /\ UNCHANGED <<workspaces, sets>>

-----------------------------------------------------------------------------
(* Variable sets *)

NameTaken(x, name) == \E y \in VariableSet \ {x} : sets[y].exists /\ sets[y].name = name

\* A new set has no variables: there is nothing to check.
CreateVariableSet(s, x, name, global, applied) ==
  /\ Spend("sets")
  /\ AtOnce(s)
  /\ ~sets[x].exists
  /\ SetsFree(s) /\ NoSetDeleted(s)
  /\ ~NameTaken(x, name)
  /\ applied \subseteq workspaces
  /\ sets' = [sets EXCEPT ![x] = [name |-> name, global |-> global, workspaces |-> applied, exists |-> TRUE]]
  /\ UNCHANGED <<workspaces, variables>>

\* UpdateVariableSet locks the variables,
UpdateVariableSet(s, x, opts) ==
  /\ Spend("sets")
  /\ sets[x].exists
  /\ VariablesFree(s)
  /\ Begin(s, [op |-> "updateSet", at |-> "lock", set |-> x, opts |-> opts, after |-> NoSet])
  /\ UNCHANGED <<workspaces, variables, sets>>

SetUpdated(set, opts) ==
  [set EXCEPT !.name = Given(opts.name, @), !.global = Given(opts.global, @), !.workspaces = Given(opts.workspaces, @)]

\* then the sets; it reads the set and checks the updated copy of it,
UpdateVariableSetChecks(s) ==
  /\ At(s, "updateSet", "lock")
  /\ SetsFree(s) /\ NoSetDeleted(s)
  /\ LET x == session[s].set
         after == SetUpdated(sets[x], session[s].opts)
         allowed == sets[x].exists /\ checkSet(x, after)
     IN session' = [session EXCEPT ![s] = IF allowed THEN [@ EXCEPT !.at = "write", !.after = after] ELSE Idle]
  /\ UNCHANGED <<workspaces, budget, variables, sets>>

\* and writes it, its workspaces all deleted and inserted again: it fails when
\* the name is taken or one of the workspaces is gone.
UpdateVariableSetCommits(s) ==
  /\ At(s, "updateSet", "write")
  /\ LET x == session[s].set
         after == session[s].after
     IN sets' = IF ~NameTaken(x, after.name) /\ after.workspaces \subseteq workspaces
                THEN [sets EXCEPT ![x] = after] ELSE sets
  /\ End(s)
  /\ UNCHANGED <<workspaces, budget, variables>>

\* DeleteVariableSet deletes the set's row,
DeleteVariableSet(s, x) ==
  /\ Spend("sets")
  /\ sets[x].exists
  /\ SetsFree(s)
  /\ \A t \in Others(s) : ~DeletesSet(t, x)
  /\ Begin(s, [op |-> "deleteSet", at |-> "cascade", set |-> x])
  /\ UNCHANGED <<workspaces, variables, sets>>

SetsVariablesGone(x) == [v \in Variable |-> IF variables[v].parent = x THEN NoRow ELSE variables[v]]

\* and the database its variables.
DeleteVariableSetCascades(s) ==
  /\ At(s, "deleteSet", "cascade")
  /\ VariablesFree(s)
  /\ sets' = [sets EXCEPT ![session[s].set] = NoSet]
  /\ variables' = SetsVariablesGone(session[s].set)
  /\ End(s)
  /\ UNCHANGED <<workspaces, budget>>

\* The new rows refer to the set: the sets must not be locked.
ApplySetToWorkspaces(s, x, applied) ==
  /\ Spend("sets")
  /\ AtOnce(s)
  /\ sets[x].exists
  /\ SetsFree(s) /\ \A t \in Others(s) : ~DeletesSet(t, x)
  /\ applied \subseteq workspaces \ sets[x].workspaces
  /\ sets' = [sets EXCEPT ![x].workspaces = @ \union applied]
  /\ UNCHANGED <<workspaces, variables>>

\* Rows are deleted, for which no lock of the sets is needed.
DeleteSetFromWorkspaces(s, x, removed) ==
  /\ Spend("sets")
  /\ AtOnce(s)
  /\ sets[x].exists
  /\ \A t \in Others(s) : ~DeletesSet(t, x)
  /\ removed \subseteq sets[x].workspaces
  /\ sets' = [sets EXCEPT ![x].workspaces = @ \ removed]
  /\ UNCHANGED <<workspaces, variables>>

\* A request that holds the variables waits for the deletion of a set, which
\* waits for the variables: the database aborts one of them.
Deadlocked(s, t) ==
  /\ At(t, "deleteSet", "cascade")
  /\ \/ At(s, "updateSet", "lock")
     \/ At(s, "createVariable", "write") /\ DeletesSet(t, session[s].row.parent)

DeadlockDetected(s) ==
  /\ \E t \in Others(s) : Deadlocked(s, t) \/ Deadlocked(t, s)
  /\ End(s)
  /\ UNCHANGED <<workspaces, budget, variables, sets>>

\* A workspace is deleted: its rows go with it.
VariablesCascade(w) ==
  /\ \A t \in Session : ~LocksVariables(t)
  /\ variables' = SetsVariablesGone(w)
  /\ sets' = [x \in VariableSet |-> [sets[x] EXCEPT !.workspaces = @ \ {w}]]

-----------------------------------------------------------------------------
(* What a run gets: ListEffectiveVariables *)

\* The sets of a workspace, in whatever order the database returns them.
listVariableSetsByWorkspace(w) ==
  { x \in VariableSet : sets[x].exists /\ (sets[x].global \/ w \in sets[x].workspaces) }

NoVariables == [k \in Key |-> {}]

\* The entries of the map that the variables overwrite.
Overwrite(m, collection) ==
  [k \in Key |-> LET found == { v \in collection : variables[v].key = k } IN IF found = {} THEN m[k] ELSE found]

\* Mutant: the sets are overwritten in the order of their names.
ByPrecedenceForward(order) == SortSeq(order, LAMBDA x, y : sets[x].name < sets[y].name)

\* The sets sorted by name, and reversed.
ByPrecedence(order) == Reverse(SortSeq(order, LAMBDA x, y : sets[x].name < sets[y].name))

\* Each later group of variables overwrites the earlier ones; the run's own
\* variables, written "run", are terraform variables.
Merge(order, w, runKeys) ==
  LET globals == FoldLeft(LAMBDA m, x : IF sets[x].global THEN Overwrite(m, listVariables(x)) ELSE m, NoVariables, order)
      scoped == FoldLeft(LAMBDA m, x : IF sets[x].global THEN m ELSE Overwrite(m, listVariables(x)),
                         globals, ByPrecedence(order))
      own == Overwrite(scoped, listVariables(w))
  IN [k \in Key |-> IF k \in runKeys THEN {"run"} ELSE own[k]]

-----------------------------------------------------------------------------
(* Properties *)

VariablesTypeOK ==
  /\ variables \in [Variable -> {NoRow} \union
                      [parent : Workspace \union VariableSet, key : Key, sensitive : BOOLEAN]]
  /\ sets \in [VariableSet -> [name : SetName \union {0}, global : BOOLEAN,
                                workspaces : SUBSET Workspace, exists : BOOLEAN]]

InConflict(u, v) == u # v /\ variables[u].key = variables[v].key

\* No two variables of a workspace, of a set or of the global sets have the
\* same key and category, however requests are interleaved: what checkVariable
\* and checkSet saw stays true until their request commits
\* (conflict_checker.go, and the locks in service.go).
NoConflicts ==
  /\ \A p \in Workspace \union VariableSet : \A u, v \in listVariables(p) : ~InConflict(u, v)
  /\ \A u, v \in listGlobalVariables : ~InConflict(u, v)

Defines(x, k) == { v \in listVariables(x) : variables[v].key = k }

\* What the comment of Merge and the documentation of variables promise.
Effective(w, runKeys, k) ==
  LET applied == listVariableSetsByWorkspace(w)
      scoped == { x \in applied : ~sets[x].global /\ Defines(x, k) # {} }
      globals == { x \in applied : sets[x].global /\ Defines(x, k) # {} }
  IN CASE k \in runKeys -> {"run"}
       [] k \notin runKeys /\ Defines(w, k) # {} -> Defines(w, k)
       [] k \notin runKeys /\ Defines(w, k) = {} /\ scoped # {} ->
            Defines(CHOOSE x \in scoped : \A y \in scoped : sets[x].name <= sets[y].name, k)
       [] OTHER -> UNION { Defines(x, k) : x \in globals }

\* In every reachable state, for every workspace and for every order in which
\* the database returns the sets, the merged variables of a run are exactly
\* those of highest precedence, one per key (variable.go, Merge).
MergeFollowsPrecedence ==
  \A w \in workspaces, runKeys \in SUBSET TerraformKey :
    \A order \in SetToSeqs(listVariableSetsByWorkspace(w)) :
      LET merged == Merge(order, w, runKeys) IN
      \A k \in Key : merged[k] = Effective(w, runKeys, k) /\ Cardinality(merged[k]) <= 1

\* A sensitive variable stays sensitive and keeps its key until it is deleted,
\* though requests that update it read and write it in separate statements.
SensitiveStaysSensitive ==
  [][\A v \in Variable : (Exists(v) /\ variables[v].sensitive /\ Exists(v)') =>
       variables'[v].sensitive /\ variables'[v].key = variables[v].key]_variables
=============================================================================
