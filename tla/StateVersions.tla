---------------------------- MODULE StateVersions ----------------------------
(***************************************************************************)
(* State versions of workspaces (state).                                   *)
(*                                                                         *)
(* A version is created with its state or without it; a version without    *)
(* its state is pending until the state is uploaded.  The version whose    *)
(* state was stored last is the workspace's current one, and whatever was  *)
(* pending then is discarded.  The serial is compared with the current     *)
(* one's before the transaction that creates the version begins.           *)
(***************************************************************************)
EXTENDS Requests, FiniteSetsExt

CONSTANTS
  Version,    \* ids of state versions
  MaxSerial,  \* bound: the largest serial
  State       \* contents of state files

NoVersion == [status |-> "none"]
NoState == "none"
None == "none"

ASSUME StateAssumption == MaxSerial \in Nat /\ NoState \notin State

VARIABLES
  versions,   \* table state_versions
  current,    \* column current_state_version_id of table workspaces
  unchecked   \* history: workspaces with a version inserted with a serial that
              \* the check, done at that moment, would have refused

stateVars == <<versions, current, unchecked>>

StatesInit ==
  /\ versions = [v \in Version |-> NoVersion]
  /\ current = [w \in Workspace |-> None]
  /\ unchecked = {}

Stored(v) == versions[v] # NoVersion

Pending(w) == { v \in Version : Stored(v) /\ versions[v].workspace = w /\ versions[v].status = "pending" }

\* Only one request creates the version: its id is new.
IsNew(v) == ~Stored(v) /\ \A t \in Session : session[t].op = "createVersion" => session[t].version # v

-----------------------------------------------------------------------------
(* Creation *)

\* factory.new: the serial of a workspace without state is -1.
SerialAccepted(w, serial, state) ==
  current[w] # None =>
    LET c == versions[current[w]] IN
    \/ serial > c.serial
    \/ serial = c.serial /\ state # NoState /\ state = c.state

\* CreateStateVersion checks the serial,
CreateStateVersion(s, v, w, serial, state) ==
  /\ Spend("creations")
  /\ w \in workspaces
  /\ IsNew(v)
  /\ \/ /\ SerialAccepted(w, serial, state)
        /\ Begin(s, [op |-> "createVersion", at |-> "write", version |-> v,
                     row |-> [workspace |-> w, serial |-> serial, state |-> state, status |-> "pending"]])
     \/ /\ ~SerialAccepted(w, serial, state)
        /\ AtOnce(s)
  /\ UNCHANGED <<workspaces, versions, current, unchecked>>

\* RollbackStateVersion copies a version, with its serial and, if it has one,
\* its state: nothing is checked.
RollbackStateVersion(s, v, from) ==
  /\ Spend("rollbacks")
  /\ IsNew(v)
  /\ Stored(from)
  /\ Begin(s, [op |-> "createVersion", at |-> "rollback", version |-> v,
               row |-> [versions[from] EXCEPT !.status = "pending"]])
  /\ UNCHANGED <<workspaces, versions, current, unchecked>>

Creating(s) == session[s].op = "createVersion"

\* Mutant: nothing is discarded.
DiscardedNone(u, w) == FALSE

\* discardAnyPending: which rows.
Discarded(u, w) == u.status = "pending" /\ u.workspace = w

\* uploadStateAndOutputs: v is stored, finalized and becomes the current version
\* of its workspace; versions of the workspace that are pending are discarded.
Finalize(v, row, state) ==
  /\ versions' = [[u \in Version |-> IF Stored(u) /\ Discarded(versions[u], row.workspace)
                                      THEN [versions[u] EXCEPT !.status = "discarded"] ELSE versions[u]]
                   EXCEPT ![v] = [row EXCEPT !.state = state, !.status = "finalized"]]
  /\ current' = [current EXCEPT ![row.workspace] = v]

\* The request of an upload holds the row of its version.
HoldsVersion(t, v) == At(t, "uploadState", "write") /\ session[t].version = v

\* No pending version of the workspace but v is held by another request.
PendingFree(s, w, v) == \A u \in Pending(w) \ {v} : \A t \in Others(s) : ~HoldsVersion(t, u)

\* newWithoutValidation: the version is inserted, if its workspace still
\* exists, and finalized if it came with its state.
CreateStateVersionCommits(s) ==
  /\ Creating(s)
  /\ LET v == session[s].version
         row == session[s].row
     IN \/ /\ row.workspace \notin workspaces
           /\ UNCHANGED stateVars
        \/ /\ row.workspace \in workspaces
           /\ \/ /\ row.state = NoState
                 /\ versions' = [versions EXCEPT ![v] = row]
                 /\ UNCHANGED current
              \/ /\ row.state # NoState
                 /\ PendingFree(s, row.workspace, v)
                 /\ Finalize(v, row, row.state)
           /\ unchecked' = unchecked \union
                (IF SerialAccepted(row.workspace, row.serial, row.state) THEN {} ELSE {row.workspace})
  /\ End(s)
  /\ UNCHANGED <<workspaces, budget>>

-----------------------------------------------------------------------------
(* Upload and deletion *)

\* Mutant: the row is read without being locked.
VersionFreeAlways(s, v) == TRUE

VersionFree(s, v) == \A t \in Others(s) : ~HoldsVersion(t, v)

\* UploadState reads and locks the row; it must be pending.
UploadState(s, v, state) ==
  /\ Spend("uploads")
  /\ Stored(v)
  /\ VersionFree(s, v)
  /\ \/ /\ versions[v].status = "pending"
        /\ Begin(s, [op |-> "uploadState", at |-> "write", version |-> v, state |-> state])
     \/ /\ versions[v].status # "pending"
        /\ AtOnce(s)
  /\ UNCHANGED <<workspaces, versions, current, unchecked>>

UploadStateCommits(s) ==
  /\ At(s, "uploadState", "write")
  /\ LET v == session[s].version IN
     /\ PendingFree(s, versions[v].workspace, v)
     /\ Finalize(v, versions[v], session[s].state)
  /\ End(s)
  /\ UNCHANGED <<workspaces, budget, unchecked>>

\* Two uploads, each of which waits for the other's version to discard it: the
\* database aborts one.
UploadsDeadlock(s) ==
  /\ At(s, "uploadState", "write")
  /\ \E t \in Others(s) : /\ At(t, "uploadState", "write")
                          /\ versions[session[t].version].workspace = versions[session[s].version].workspace
  /\ End(s)
  /\ UNCHANGED <<workspaces, budget, versions, current, unchecked>>

\* Mutant: nothing keeps the current version from being deleted.
DeletableAny(v) == TRUE

\* The current version cannot be deleted: the workspace refers to it.
Deletable(v) == \A w \in Workspace : current[w] # v

DeleteStateVersion(s, v) ==
  /\ Spend("deletions")
  /\ AtOnce(s)
  /\ Stored(v)
  /\ \A t \in Session : ~HoldsVersion(t, v)
  /\ Deletable(v)
  /\ versions' = [versions EXCEPT ![v] = NoVersion]
  /\ UNCHANGED <<workspaces, current, unchecked>>

\* A workspace is deleted: its versions go with it.
StatesCascade(w) ==
  /\ \A t \in Session : session[t].op = "uploadState" => versions[session[t].version].workspace # w
  /\ versions' = [v \in Version |-> IF Stored(v) /\ versions[v].workspace = w THEN NoVersion ELSE versions[v]]
  /\ current' = [current EXCEPT ![w] = None]
  /\ unchecked' = unchecked \ {w}

-----------------------------------------------------------------------------
(* Properties *)

StatesTypeOK ==
  /\ versions \in [Version -> {NoVersion} \union
       [workspace : Workspace, serial : 0..MaxSerial, state : State \union {NoState},
        status : {"pending", "finalized", "discarded"}]]
  /\ current \in [Workspace -> Version \union {None}]

\* The current version of a workspace exists, is one of its own and has its
\* state, while versions are created, uploaded, discarded and deleted
\* (version.go, uploadStateAndOutputs; db.go, discardAnyPending).
CurrentHasState ==
  \A w \in Workspace : current[w] # None =>
    /\ Stored(current[w])
    /\ versions[current[w]].workspace = w
    /\ versions[current[w]].status = "finalized"
    /\ versions[current[w]].state # NoState

\* The state of a version is written once: a second upload, of a version that
\* has been finalized or discarded in the meantime, never changes it.
StateWrittenOnce ==
  [][\A v \in Version : (Stored(v) /\ Stored(v)' /\ versions[v].status # "pending") =>
       versions'[v] = versions[v]]_versions

\* When another version becomes current, whatever of the workspace was pending is
\* discarded, for good by StateWrittenOnce: no request that was on its way to
\* upload it is left behind (db.go, discardAnyPending).  This is so whatever
\* serials the versions have.
OvertakenIsDiscarded ==
  [][\A w \in Workspace : current'[w] \notin {None, current[w]} =>
       \A v \in Pending(w) \ {current'[w]} : versions'[v].status = "discarded"]_current

\* The current serial does not go back in a workspace for which the check of
\* serials was in time: every version was inserted with a serial that the check
\* would have accepted at that moment (version.go, uploadStateAndOutputs).  Where
\* it was not in time, or a version was rolled back to, nothing is claimed.
OvertakenIsNotUploaded ==
  [][\A w \in Workspace \ unchecked' : (current[w] # None /\ current'[w] # None) =>
       versions'[current'[w]].serial >= versions[current[w]].serial]_current

\* The current serial goes back only with a rollback (version.go, factory.new).
\* TLC refutes it: the check comes before the transaction that inserts the version.
SerialNeverGoesBack ==
  [][\A w \in Workspace : (current[w] # None /\ current'[w] # None) =>
       \/ versions'[current'[w]].serial >= versions[current[w]].serial
       \/ \E s \in Session : At(s, "createVersion", "rollback")]_current
=============================================================================
