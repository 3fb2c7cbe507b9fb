-------------------------- MODULE SchedulerProofs --------------------------
(***************************************************************************)
(* Proofs about Scheduler, for any sets of runs, workspaces and users, any *)
(* size of the buffers and any number of crashes, where costs are not      *)
(* estimated (a run in cost_estimated is not listed at a restart).         *)
(*                                                                         *)
(* A run is enqueued on the word of the queues, which lag behind the rows. *)
(* So the invariant relates rows, queues, the list and the events: the     *)
(* active run of a workspace is the current run of its queue, or is listed *)
(* ahead of the others; and whatever waits reaches the backlog in order of *)
(* creation, from the list first and then from the events.                 *)
(*                                                                         *)
(* The invariant is stated for a progress p, a list T, queues Q and events *)
(* E, since handling an event has a middle: the event is taken into the    *)
(* queue, and then the rows change.                                        *)
(***************************************************************************)
EXTENDS Scheduler, TLAPS, SequenceTheorems, FiniteSetTheorems

-----------------------------------------------------------------------------
(* What Deliver does to a buffer, for any events and any size *)

\* A watched buffer only grows, at its end and out of the events; no buffer
\* exceeds its size, and nothing is made up.
DeliveredTo(buffer, events, watching, isClosed, result) ==
  /\ Len(result) <= BufferSize
  /\ \A i \in DOMAIN result :
       \/ \E k \in DOMAIN buffer : result[i] = buffer[k]
       \/ \E k \in DOMAIN events : result[i] = events[k]
  /\ watching =>
       /\ Len(buffer) <= Len(result)
       /\ \A i \in DOMAIN buffer : result[i] = buffer[i]
       /\ \A i \in DOMAIN result :
            i > Len(buffer) => \E k \in DOMAIN events : result[i] = events[k]
       /\ isClosed => result = buffer
       /\ ~isClosed /\ Fits(buffer, events) =>
            \A k \in DOMAIN events : \E i \in DOMAIN result : result[i] = events[k]

LEMMA DeliverProperties ==
  ASSUME NEW S, NEW buffer \in Seq(S), NEW events \in Seq(S),
         NEW watching \in BOOLEAN, NEW isClosed \in BOOLEAN,
         Len(buffer) <= BufferSize
  PROVE  /\ Deliver(buffer, events, watching, isClosed) \in Seq(S)
         /\ DeliveredTo(buffer, events, watching, isClosed,
                        Deliver(buffer, events, watching, isClosed))
<1> DEFINE all == buffer \o events
           result == Deliver(buffer, events, watching, isClosed)
<1> SUFFICES /\ result \in Seq(S)
             /\ DeliveredTo(buffer, events, watching, isClosed, result)
  OBVIOUS
<1>1. /\ all \in Seq(S)
      /\ Len(all) = Len(buffer) + Len(events)
      /\ \A i \in DOMAIN buffer : all[i] = buffer[i]
      /\ \A i \in DOMAIN all : i > Len(buffer) =>
           i - Len(buffer) \in DOMAIN events /\ all[i] = events[i - Len(buffer)]
      /\ \A k \in DOMAIN events :
           k + Len(buffer) \in DOMAIN all /\ all[k + Len(buffer)] = events[k]
  BY ConcatProperties
<1>2. BufferSize \in Nat
  BY BufferAssumption
<1> HIDE DEF all
<1>3. CASE watching /\ isClosed
  <2>1. result = buffer
    BY <1>3 DEF Deliver, all
  <2> QED BY <2>1, <1>3 DEF DeliveredTo
<1>4. CASE ~(watching /\ isClosed) /\ Fits(buffer, events)
  <2>1. result = all
    BY <1>4 DEF Deliver, all
  <2>2. Len(all) <= BufferSize
    BY <1>1, <1>4 DEF Fits
  <2>3. ~(watching /\ isClosed)
    BY <1>4
  <2> HIDE DEF result
  <2>4. \A i \in DOMAIN all :
          \/ \E k \in DOMAIN buffer : all[i] = buffer[k]
          \/ \E k \in DOMAIN events : all[i] = events[k]
    <3> TAKE i \in DOMAIN all
    <3>1. CASE i \in DOMAIN buffer
      BY <3>1, <1>1
    <3>2. CASE i \notin DOMAIN buffer
      <4>1. i > Len(buffer)
        BY <3>2, <1>1
      <4> QED BY <4>1, <1>1
    <3> QED BY <3>1, <3>2
  <2>5. \A k \in DOMAIN events : \E i \in DOMAIN all : all[i] = events[k]
    BY <1>1
  <2>6. Len(buffer) <= Len(all)
    BY <1>1
  <2> QED BY <1>1, <2>1, <2>2, <2>3, <2>4, <2>5, <2>6 DEF DeliveredTo
<1>5. CASE watching /\ ~isClosed /\ ~Fits(buffer, events)
  <2>1. result = SubSeq(all, 1, BufferSize)
    BY <1>5 DEF Deliver, all
  <2>2. Len(all) > BufferSize
    BY <1>1, <1>2, <1>5 DEF Fits
  <2>3. /\ result \in Seq(S)
        /\ Len(result) = BufferSize
        /\ \A i \in DOMAIN result : i \in DOMAIN all /\ result[i] = all[i]
    BY <2>1, <2>2, <1>1, <1>2
  <2> HIDE DEF result
  <2>4. \A i \in DOMAIN result :
            i > Len(buffer) => \E k \in DOMAIN events : result[i] = events[k]
    BY <2>3, <1>1
  <2>5. \A i \in DOMAIN buffer : result[i] = buffer[i]
    BY <2>3, <1>1, <1>2
  <2>6. \A i \in DOMAIN result : i > Len(buffer) \/ i \in DOMAIN buffer
    BY <2>3, <1>1, <1>2
  <2> QED BY <1>2, <1>5, <2>3, <2>4, <2>5, <2>6 DEF DeliveredTo
<1>6. CASE ~watching /\ ~Fits(buffer, events)
  <2> DEFINE d == Len(all) - BufferSize
  <2>1. result = SubSeq(all, d + 1, Len(all))
    BY <1>6 DEF Deliver, all
  <2>2. Len(all) > BufferSize /\ d \in Nat
    BY <1>1, <1>2, <1>6 DEF Fits
  <2>3. /\ result \in Seq(S)
        /\ Len(result) = BufferSize
        /\ \A i \in DOMAIN result : i + d \in DOMAIN all /\ result[i] = all[i + d]
    <3>1. d + 1 \in 1..(Len(all) + 1) /\ Len(all) - (d + 1) + 1 = BufferSize
      BY <2>2, <1>1, <1>2
    <3>2. /\ SubSeq(all, d + 1, Len(all)) \in Seq(S)
          /\ Len(SubSeq(all, d + 1, Len(all))) = BufferSize
          /\ \A i \in 1..BufferSize : SubSeq(all, d + 1, Len(all))[i] = all[d + 1 + i - 1]
      <4> HIDE DEF d, result
      <4> QED BY <2>2, <3>1, <1>1, <1>2, SubSeqProperties
    <3>3. \A i \in 1..BufferSize : i + d \in DOMAIN all /\ d + 1 + i - 1 = i + d
      BY <2>2, <1>1, <1>2
    <3> DEFINE tail == SubSeq(all, d + 1, Len(all))
    <3>4. DOMAIN tail = 1..BufferSize
      BY <3>2
    <3>5. \A i \in DOMAIN tail : i + d \in DOMAIN all /\ tail[i] = all[i + d]
      <4> HIDE DEF tail, d
      <4> QED BY <3>2, <3>3, <3>4 DEF tail
    <3> HIDE DEF d, result
    <3> QED BY <2>1, <3>2, <3>5
  <2> HIDE DEF result, d
  <2>4. \A i \in DOMAIN all : i > Len(buffer) \/ i \in DOMAIN buffer
    BY <1>1
  <2>5. \A i \in DOMAIN all :
          \/ \E k \in DOMAIN buffer : all[i] = buffer[k]
          \/ \E k \in DOMAIN events : all[i] = events[k]
    BY <1>1, <2>4
  <2> QED BY <1>2, <1>6, <2>3, <2>5 DEF DeliveredTo
<1> QED BY <1>3, <1>4, <1>5, <1>6

-----------------------------------------------------------------------------
(* The inductive invariant *)

\* A run of w that waits for its turn; a run that has it.
Waits(r, w) ==
  rows[r].status = "pending" /\ ~rows[r].planOnly /\ rows[r].workspace = w
Works(r, w) ==
  rows[r].status = "active" /\ ~rows[r].planOnly /\ rows[r].workspace = w

\* A run the scheduler still has to know of.
Needs(r) ==
  \/ rows[r].status = "pending"
  \/ rows[r].status \in Scheduled /\ ~rows[r].planOnly

Running(p) == p \in {"seeding", "ready"}

\* The tables.
CreatedOnce == \A i, j \in DOMAIN created : created[i] = created[j] => i = j
CreatedExist ==
  \A r \in Run : rows[r].status # "absent" <=> \E i \in DOMAIN created : created[i] = r
RowsAgree ==
  \A r \in Run : /\ rows[r].status # "cost_estimated"
                 /\ Exists(r) => rows[r].workspace \in workspaces
LocksAgree ==
  \A w \in Workspace, r \in Run : lock[w] = r =>
    Exists(r) /\ rows[r].workspace = w /\ ~rows[r].planOnly
OneWorks == \A r, s \in Run, w \in Workspace : Works(r, w) /\ Works(s, w) => r = s
WorksFirst == \A r, s \in Run, w \in Workspace : Works(r, w) /\ Waits(s, w) => Before(r, s)

TablesAgree ==
  CreatedOnce /\ CreatedExist /\ RowsAgree /\ LocksAgree

\* What a copy of a row says of the row: a run may have moved on since, but
\* never back.
NoteAgrees(n) ==
  LET now == rows[n.run] IN
  ~n.deleted =>
    /\ n.row.status \notin Gone
    /\ n.row.workspace \in Workspace
    /\ now.status # "absent"
    /\ n.row.status # "pending" => now.status # "pending"
    /\ n.row.status \in Done => now.status \in Done \cup {"deleted"}
    /\ \/ now.status = "deleted"
       \/ now.workspace = n.row.workspace /\ now.planOnly = n.row.planOnly

NotesAgree(notes) == \A i \in DOMAIN notes : NoteAgrees(notes[i])
WsNotesAgree(notes) ==
  \A i \in DOMAIN notes : notes[i].deleted => notes[i].workspace \notin workspaces

\* A run in the queue of w is a run of w that changes its state.
MemberAgrees(m, w) ==
  \/ rows[m].status = "deleted"
  \/ rows[m].status # "absent" /\ rows[m].workspace = w /\ ~rows[m].planOnly

QueuesAgree(Q) ==
  \A w \in Workspace :
    /\ Q[w].current # Nobody =>
         MemberAgrees(Q[w].current, w) /\ rows[Q[w].current].status # "pending"
    /\ \A i \in DOMAIN Q[w].backlog : MemberAgrees(Q[w].backlog[i], w)

\* The progress of Start.
Progress(p, T, Q) ==
  /\ p = "ready" => T = <<>>
  /\ p = "seeding" => T # <<>>
  /\ ~Running(p) => T = <<>> /\ Q = [w \in Workspace |-> EmptyQueue]
  /\ \A i \in DOMAIN T : ~T[i].deleted

\* r is listed ahead of every other run that changes the state of w.
ListedFirst(r, w, T) ==
  \E i \in DOMAIN T : /\ T[i].run = r
                      /\ T[i].row.status \in Scheduled
                      /\ \A j \in 1..(i - 1) :
                           T[j].row.workspace = w => T[j].row.planOnly

WorksIsCurrent(T, Q) ==
  \A w \in Workspace, r \in Run : Works(r, w) =>
    \/ Q[w].current = r
    \/ Q[w] = EmptyQueue /\ ListedFirst(r, w, T)

\* Whoever waits in front of r was created before r: in the backlog, in the
\* list behind the backlog, and in the events behind both.
Rivals(r, s, w) == r # s /\ Waits(r, w) /\ Waits(s, w)

InOrder(b, w) ==
  \A s \in Run : \A i \in DOMAIN b :
    Rivals(b[i], s, w) => Before(b[i], s) \/ \E j \in 1..(i - 1) : b[j] = s

BacklogInOrder(Q) == \A w \in Workspace : InOrder(Q[w].backlog, w)

TodoInOrder(T, Q) ==
  \A w \in Workspace, s \in Run : \A i \in DOMAIN T :
    Rivals(T[i].run, s, w) =>
      \/ Before(T[i].run, s)
      \/ Contains(Q[w].backlog, s)
      \/ \E j \in 1..(i - 1) : T[j].run = s

EventsInOrder(T, Q, E) ==
  \A w \in Workspace, s \in Run : \A i \in DOMAIN E :
    ~E[i].deleted /\ Rivals(E[i].run, s, w) =>
      \/ Before(E[i].run, s)
      \/ Contains(Q[w].backlog, s)
      \/ Noted(s, T)
      \/ \E j \in 1..(i - 1) : E[j].run = s /\ ~E[j].deleted

\* The runs X are accounted for.
NoneLost(X, T, Q, E) ==
  \A r \in X : Needs(r) =>
    \/ Noted(r, T) \/ Noted(r, E)
    \/ /\ ~rows[r].planOnly
       /\ \/ Q[rows[r].workspace].current = r
          \/ Contains(Q[rows[r].workspace].backlog, r)

\* What the scheduler knows once it has listed the runs.
Knows(X, T, Q, E) ==
  /\ WorksIsCurrent(T, Q)
  /\ BacklogInOrder(Q) /\ TodoInOrder(T, Q) /\ EventsInOrder(T, Q, E)
  /\ "runs" \notin closed => NoneLost(X, T, Q, E)

QueueType == [current : Run \cup {Nobody}, backlog : Seq(Run)]

Typed(T, Q, E) ==
  /\ T \in Seq(RunNote)
  /\ Q \in [Workspace -> QueueType]
  /\ E \in Seq(RunNote) /\ Len(E) <= BufferSize

Agrees(X, p, T, Q, E) ==
  /\ Typed(T, Q, E)
  /\ Progress(p, T, Q)
  /\ NotesAgree(T) /\ NotesAgree(E)
  /\ QueuesAgree(Q)
  /\ Running(p) => Knows(X, T, Q, E)

IInv ==
  /\ TypeOK
  /\ TablesAgree
  /\ OneWorks /\ WorksFirst
  /\ WsNotesAgree(wsEvents)
  /\ Agrees(Run, pc, todo, queues, runEvents)

-----------------------------------------------------------------------------
(* The queue of a workspace *)

LEMMA RemoveAtProperties ==
  ASSUME NEW S, NEW b \in Seq(S), NEW k \in DOMAIN b
  PROVE  /\ RemoveAt(b, k) \in Seq(S)
         /\ Len(RemoveAt(b, k)) = Len(b) - 1
         /\ \A i \in 1..(Len(b) - 1) :
              RemoveAt(b, k)[i] = IF i < k THEN b[i] ELSE b[i + 1]
<1> DEFINE front == SubSeq(b, 1, k - 1)
           back == SubSeq(b, k + 1, Len(b))
<1>1. k \in 1..Len(b)
  OBVIOUS
<1>2. /\ front \in Seq(S) /\ Len(front) = k - 1
      /\ \A i \in 1..(k - 1) : front[i] = b[i]
  BY <1>1, SubSeqProperties
<1>3. /\ back \in Seq(S) /\ Len(back) = Len(b) - k
      /\ \A i \in 1..(Len(b) - k) : back[i] = b[k + i]
  BY <1>1, SubSeqProperties
<1>4. RemoveAt(b, k) = front \o back
  BY DEF RemoveAt
<1> HIDE DEF front, back
<1>5. /\ front \o back \in Seq(S)
      /\ Len(front \o back) = Len(b) - 1
  BY <1>1, <1>2, <1>3, ConcatProperties
<1>6. ASSUME NEW i \in 1..(Len(b) - 1)
      PROVE  (front \o back)[i] = IF i < k THEN b[i] ELSE b[i + 1]
  <2>1. (front \o back)[i] =
          IF i <= Len(front) THEN front[i] ELSE back[i - Len(front)]
    BY <1>1, <1>2, <1>3, ConcatProperties
  <2>2. CASE i < k
    BY <2>1, <2>2, <1>1, <1>2
  <2>3. CASE ~(i < k)
    <3>1. i - Len(front) \in 1..(Len(b) - k) /\ k + (i - Len(front)) = i + 1
      BY <2>3, <1>1, <1>2
    <3>2. ~(i <= Len(front))
      BY <2>3, <1>1, <1>2
    <3> QED BY <3>1, <3>2, <2>1, <1>3, <2>3
  <2> QED BY <2>2, <2>3
<1> QED BY <1>4, <1>5, <1>6

LEMMA IndexOfProperties ==
  ASSUME NEW b \in Seq(Run), NEW r, Contains(b, r)
  PROVE  IndexOf(b, r) \in DOMAIN b /\ b[IndexOf(b, r)] = r
BY DEF Contains, IndexOf

\* What the queue q of a workspace becomes when it takes in a run r that was
\* read with this status, before the next run is promoted.
Takes(q, r, status, q1) ==
  \/ /\ q1 = q
     /\ (q.current = r /\ status \notin Done) \/ Contains(q.backlog, r)
  \/ status \in Done /\ q.current = r /\ q1 = [q EXCEPT !.current = Nobody]
  \/ status \in Scheduled /\ q.current = Nobody /\ q1 = [q EXCEPT !.current = r]
  \/ /\ q.current # r /\ ~(q.current = Nobody /\ status \in Scheduled)
     /\ q1 = [q EXCEPT !.backlog = Append(@, r)]
  \/ /\ status \in Done /\ Contains(q.backlog, r)
     /\ q1 = [q EXCEPT !.backlog = RemoveAt(@, IndexOf(@, r))]

\* The head of the backlog is promoted, or the queue stays as it is.
Promotes(q1, d) ==
  \/ /\ d.enqueue /\ ~d.unlock /\ q1.current = Nobody /\ q1.backlog # <<>>
     /\ d.queue = [current |-> Head(q1.backlog), backlog |-> Tail(q1.backlog)]
  \/ ~d.enqueue /\ d.queue = q1

LEMMA PromoteProperties ==
  ASSUME NEW q, NEW unlock \in BOOLEAN
  PROVE  /\ Promotes(q, Promote(q, unlock))
         /\ Promote(q, unlock).unlock => unlock
BY DEF Promote, Promotes, Decision

\* process takes the run in, and then promotes.
LEMMA ProcessTakes ==
  ASSUME NEW q \in QueueType, NEW r \in Run, NEW status
  PROVE  \E q1 \in QueueType :
           /\ Takes(q, r, status, q1)
           /\ Promotes(q1, process(q, r, status))
           /\ process(q, r, status).unlock => status \in Done /\ q.current = r
<1> USE DEF QueueType
<1> DEFINE d == process(q, r, status)
<1>1. r # Nobody /\ q.current \in Run \cup {Nobody} /\ q.backlog \in Seq(Run)
  BY SchedulerAssumption
<1>2. CASE q.current = r
  <2>1. CASE status \in Done
    <3> DEFINE q1 == [q EXCEPT !.current = Nobody]
    <3>1. d = Promote(q1, TRUE)
      BY <1>1, <1>2, <2>1 DEF process
    <3>2. q1 \in QueueType /\ Takes(q, r, status, q1)
      BY <1>2, <2>1 DEF Takes
    <3> QED BY <1>2, <2>1, <3>1, <3>2, PromoteProperties
  <2>2. CASE status \notin Done
    <3>1. d = Promote(q, FALSE)
      BY <1>1, <1>2, <2>2 DEF process
    <3>2. Takes(q, r, status, q)
      BY <1>2, <2>2 DEF Takes
    <3> QED BY <3>1, <3>2, PromoteProperties
  <2> QED BY <2>1, <2>2
<1>3. CASE q.current = Nobody /\ status \in Scheduled
  <2> DEFINE q1 == [q EXCEPT !.current = r]
  <2>1. d = Decision(q1, FALSE, FALSE)
    BY <1>1, <1>3 DEF process
  <2>2. q1 \in QueueType /\ Takes(q, r, status, q1)
    BY <1>3 DEF Takes
  <2>3. Promotes(q1, d) /\ ~d.unlock
    BY <2>1 DEF Promotes, Decision
  <2> QED BY <2>2, <2>3
<1>4. CASE q.current # r /\ ~(q.current = Nobody /\ status \in Scheduled)
  <2>1. CASE ~Contains(q.backlog, r)
    <3> DEFINE q1 == [q EXCEPT !.backlog = Append(@, r)]
    <3>1. d = Promote(q1, FALSE)
      BY <1>1, <1>4, <2>1 DEF process
    <3>2. Append(q.backlog, r) \in Seq(Run)
      BY <1>1
    <3>3. q1 \in QueueType
      BY <1>1, <3>2
    <3>4. Takes(q, r, status, q1)
      BY <1>4 DEF Takes
    <3> QED BY <3>1, <3>3, <3>4, PromoteProperties
  <2>2. CASE Contains(q.backlog, r) /\ status \in Done
    <3> DEFINE q1 == [q EXCEPT !.backlog = RemoveAt(@, IndexOf(@, r))]
    <3>1. d = Decision(q1, FALSE, FALSE)
      BY <1>1, <1>4, <2>2 DEF process
    <3>2. RemoveAt(q.backlog, IndexOf(q.backlog, r)) \in Seq(Run)
      BY <1>1, <2>2, IndexOfProperties, RemoveAtProperties
    <3>3. q1 \in QueueType /\ Takes(q, r, status, q1)
      BY <1>1, <2>2, <3>2 DEF Takes
    <3>4. Promotes(q1, d) /\ ~d.unlock
      BY <3>1 DEF Promotes, Decision
    <3> QED BY <3>3, <3>4
  <2>3. CASE Contains(q.backlog, r) /\ status \notin Done
    <3>1. d = Promote(q, FALSE)
      BY <1>1, <1>4, <2>3 DEF process
    <3>2. Takes(q, r, status, q)
      BY <2>3 DEF Takes
    <3> QED BY <3>1, <3>2, PromoteProperties
  <2> QED BY <2>1, <2>2, <2>3
<1> QED BY <1>2, <1>3, <1>4

\* A workspace event only promotes.
LEMMA ProcessPromotes ==
  ASSUME NEW q, NEW status
  PROVE  /\ Promotes(q, process(q, Nobody, status))
         /\ ~process(q, Nobody, status).unlock
<1>1. process(q, Nobody, status) = Promote(q, FALSE)
  BY DEF process
<1> QED BY <1>1, PromoteProperties

-----------------------------------------------------------------------------
(* Taking a run into a queue *)

\* r, about to be taken in, was created before whoever is not in the backlog.
NextInOrder(r, w, b) ==
  \A s \in Run : Rivals(r, s, w) => Before(r, s) \/ Contains(b, s)

\* Nobody who waits is lost from a backlog, and the active run stays current.
KeepsRuns(Q, Q1) ==
  \A w \in Workspace, s \in Run :
    /\ Waits(s, w) /\ Contains(Q[w].backlog, s) => Contains(Q1[w].backlog, s)
    /\ Works(s, w) /\ Q[w].current = s => Q1[w].current = s
    /\ Works(s, w) /\ Contains(Q[w].backlog, s) =>
         Q1[w].current = s \/ Contains(Q1[w].backlog, s)

\* How a backlog changes when it takes in r: not at all, r joins it, or r,
\* which waits no more, leaves it.
BacklogTakes(b, r, b1) ==
  \/ b1 = b
  \/ b1 = Append(b, r)
  \/ \E k \in DOMAIN b : /\ b[k] = r /\ b1 = RemoveAt(b, k)
                         /\ rows[r].status \in Done \cup {"deleted"}

LEMMA BacklogTakesInOrder ==
  ASSUME NEW b \in Seq(Run), NEW r \in Run, NEW b1 \in Seq(Run), NEW w \in Workspace,
         BacklogTakes(b, r, b1), InOrder(b, w), NextInOrder(r, w, b)
  PROVE  InOrder(b1, w)
<1> SUFFICES ASSUME NEW s \in Run, NEW i \in DOMAIN b1, Rivals(b1[i], s, w)
             PROVE  Before(b1[i], s) \/ \E j \in 1..(i - 1) : b1[j] = s
  BY DEF InOrder
<1>1. CASE b1 = b
  BY <1>1 DEF InOrder
<1>2. CASE b1 = Append(b, r)
  <2>1. /\ Len(b1) = Len(b) + 1 /\ b1[Len(b) + 1] = r
        /\ \A j \in DOMAIN b : b1[j] = b[j]
    BY <1>2
  <2>2. CASE i \in DOMAIN b
    <3>1. Before(b[i], s) \/ \E j \in 1..(i - 1) : b[j] = s
      BY <2>1, <2>2 DEF InOrder
    <3>2. \A j \in 1..(i - 1) : j \in DOMAIN b
      BY <2>2
    <3> QED BY <2>1, <2>2, <3>1, <3>2
  <2>3. CASE i = Len(b) + 1
    <3>1. Before(r, s) \/ \E j \in DOMAIN b : b[j] = s
      BY <2>1, <2>3 DEF NextInOrder, Contains
    <3>2. \A j \in DOMAIN b : j \in 1..(i - 1)
      BY <2>3
    <3> QED BY <2>1, <2>3, <3>1, <3>2
  <2> QED BY <2>1, <2>2, <2>3
<1>3. ASSUME NEW k \in DOMAIN b, b[k] = r, b1 = RemoveAt(b, k),
             rows[r].status \in Done \cup {"deleted"}
      PROVE  Before(b1[i], s) \/ \E j \in 1..(i - 1) : b1[j] = s
  <2>1. /\ Len(b1) = Len(b) - 1
        /\ \A j \in 1..(Len(b) - 1) : b1[j] = IF j < k THEN b[j] ELSE b[j + 1]
    BY <1>3, RemoveAtProperties
  <2>2. s # r
    BY <1>3 DEF Rivals, Waits, Done
  <2> DEFINE ii == IF i < k THEN i ELSE i + 1
  <2>3. ii \in DOMAIN b /\ b1[i] = b[ii]
    BY <2>1
  <2>4. Before(b[ii], s) \/ \E j \in 1..(ii - 1) : b[j] = s
    BY <2>3 DEF InOrder
  <2>5. ASSUME NEW j \in 1..(ii - 1), b[j] = s
        PROVE  \E m \in 1..(i - 1) : b1[m] = s
    <3>1. j # k
      BY <1>3, <2>2, <2>5
    <3>2. CASE j < k
      <4>1. j \in 1..(i - 1) /\ j \in 1..(Len(b) - 1)
        BY <3>2, <2>1
      <4> QED BY <4>1, <3>2, <2>1, <2>5
    <3>3. CASE j > k
      <4>1. j - 1 \in 1..(i - 1) /\ j - 1 \in 1..(Len(b) - 1) /\ ~(j - 1 < k) /\ (j - 1) + 1 = j
        BY <3>3, <2>1
      <4> QED BY <4>1, <2>1, <2>5
    <3> QED BY <3>1, <3>2, <3>3
  <2> QED BY <2>3, <2>4, <2>5
<1> QED BY <1>1, <1>2, <1>3 DEF BacklogTakes

LEMMA BacklogTakesMembers ==
  ASSUME NEW b \in Seq(Run), NEW r \in Run, NEW b1 \in Seq(Run),
         BacklogTakes(b, r, b1)
  PROVE  /\ \A i \in DOMAIN b1 : b1[i] = r \/ \E j \in DOMAIN b : b1[i] = b[j]
         /\ \A s \in Run : Contains(b, s) /\ rows[s].status \notin Done \cup {"deleted"}
              => Contains(b1, s)
<1>1. CASE b1 = b
  BY <1>1
<1>2. CASE b1 = Append(b, r)
  BY <1>2 DEF Contains
<1>3. ASSUME NEW k \in DOMAIN b, b[k] = r, b1 = RemoveAt(b, k),
             rows[r].status \in Done \cup {"deleted"}
      PROVE  /\ \A i \in DOMAIN b1 : b1[i] = r \/ \E j \in DOMAIN b : b1[i] = b[j]
             /\ \A s \in Run : Contains(b, s) /\ rows[s].status \notin Done \cup {"deleted"}
                  => Contains(b1, s)
  <2>1. /\ Len(b1) = Len(b) - 1
        /\ \A j \in 1..(Len(b) - 1) : b1[j] = IF j < k THEN b[j] ELSE b[j + 1]
    BY <1>3, RemoveAtProperties
  <2>2. ASSUME NEW i \in DOMAIN b1
        PROVE  \E j \in DOMAIN b : b1[i] = b[j]
    <3>1. i \in DOMAIN b /\ i + 1 \in DOMAIN b /\ i \in 1..(Len(b) - 1)
      BY <2>1
    <3> QED BY <3>1, <2>1
  <2>3. ASSUME NEW s \in Run, NEW j \in DOMAIN b, b[j] = s, s # r
        PROVE  \E i \in DOMAIN b1 : b1[i] = s
    <3>1. j # k
      BY <1>3, <2>3
    <3>2. CASE j < k
      BY <3>2, <2>1, <2>3
    <3>3. CASE j > k
      <4>1. j - 1 \in 1..(Len(b) - 1) /\ ~(j - 1 < k) /\ (j - 1) + 1 = j
        BY <3>3
      <4> QED BY <4>1, <2>1, <2>3
    <3> QED BY <3>1, <3>2, <3>3
  <2>4. ASSUME NEW s \in Run, Contains(b, s),
               rows[s].status \notin Done \cup {"deleted"}
        PROVE  Contains(b1, s)
    <3>1. s # r
      BY <1>3, <2>4
    <3>2. PICK j \in DOMAIN b : b[j] = s
      BY <2>4 DEF Contains
    <3> QED BY <3>1, <3>2, <2>3 DEF Contains
  <2> QED BY <2>2, <2>4
<1> QED BY <1>1, <1>2, <1>3 DEF BacklogTakes

\* Taking a run of w into the queue of w leaves the queues in agreement.
LEMMA TakeQueue ==
  ASSUME NEW Q \in [Workspace -> QueueType], NEW w \in Workspace, NEW r \in Run,
         NEW status \in Status, NEW q1 \in QueueType,
         Takes(Q[w], r, status, q1),
         status \in Done => rows[r].status \in Done \cup {"deleted"},
         status # "pending" => rows[r].status # "pending",
         MemberAgrees(r, w), QueuesAgree(Q)
  PROVE  LET Q1 == [Q EXCEPT ![w] = q1] IN
         /\ Q1 \in [Workspace -> QueueType]
         /\ QueuesAgree(Q1)
         /\ KeepsRuns(Q, Q1)
         /\ Waits(r, w) => Contains(q1.backlog, r)
         /\ Works(r, w) => q1.current = r \/ Contains(q1.backlog, r)
         /\ BacklogInOrder(Q) /\ NextInOrder(r, w, Q[w].backlog) => BacklogInOrder(Q1)
<1> DEFINE Q1 == [Q EXCEPT ![w] = q1]
           q == Q[w]
<1>1. /\ Q1 \in [Workspace -> QueueType] /\ Q1[w] = q1
      /\ \A v \in Workspace : v # w => Q1[v] = Q[v]
  OBVIOUS
<1>2. /\ q \in QueueType /\ r # Nobody
      /\ q.current \in Run \cup {Nobody} /\ q1.current \in Run \cup {Nobody}
      /\ q.backlog \in Seq(Run) /\ q1.backlog \in Seq(Run)
  BY SchedulerAssumption DEF QueueType
<1>3. BacklogTakes(q.backlog, r, q1.backlog)
  <2>1. CASE status \in Done /\ Contains(q.backlog, r)
             /\ q1 = [q EXCEPT !.backlog = RemoveAt(@, IndexOf(@, r))]
    BY <2>1, <1>2, IndexOfProperties DEF BacklogTakes, QueueType
  <2>2. CASE ~(status \in Done /\ Contains(q.backlog, r)
               /\ q1 = [q EXCEPT !.backlog = RemoveAt(@, IndexOf(@, r))])
    <3>1. q1.backlog = q.backlog \/ q1.backlog = Append(q.backlog, r)
      BY <2>2, <1>2 DEF Takes, QueueType
    <3> QED BY <3>1 DEF BacklogTakes
  <2> QED BY <2>1, <2>2
<1>4. \/ q1.current = q.current
      \/ q1.current = Nobody /\ q.current = r /\ status \in Done
      \/ q1.current = r /\ q.current = Nobody /\ status \in Scheduled
  BY <1>2 DEF Takes, QueueType
<1>5. \/ q1.current = r \/ Contains(q1.backlog, r)
      \/ status \in Done
  <2>1. Contains(Append(q.backlog, r), r)
    BY <1>2 DEF Contains
  <2> QED BY <1>2, <2>1 DEF Takes, QueueType
<1>6. status \in Scheduled => status # "pending"
  BY DEF Scheduled
<1>7. QueuesAgree(Q1)
  <2>1. q1.current # Nobody =>
          MemberAgrees(q1.current, w) /\ rows[q1.current].status # "pending"
    BY <1>2, <1>4, <1>6 DEF QueuesAgree
  <2>2. \A i \in DOMAIN q1.backlog : MemberAgrees(q1.backlog[i], w)
    BY <1>2, <1>3, BacklogTakesMembers DEF QueuesAgree
  <2> QED BY <1>1, <2>1, <2>2 DEF QueuesAgree
<1>8. KeepsRuns(Q, Q1)
  <2> SUFFICES ASSUME NEW s \in Run, Waits(s, w) \/ Works(s, w)
               PROVE  /\ Contains(q.backlog, s) => Contains(q1.backlog, s)
                      /\ Works(s, w) /\ q.current = s => q1.current = s
    BY <1>1 DEF KeepsRuns
  <2>1. rows[s].status \notin Done \cup {"deleted"}
    BY DEF Waits, Works, Done
  <2>2. Contains(q.backlog, s) => Contains(q1.backlog, s)
    BY <1>2, <1>3, <2>1, BacklogTakesMembers
  <2>3. q.current = s => q1.current = s
    BY <1>2, <1>4, <2>1, SchedulerAssumption
  <2> QED BY <2>2, <2>3
<1>9. Waits(r, w) => Contains(q1.backlog, r)
  <2> HAVE Waits(r, w)
  <2>1. rows[r].status = "pending"
    BY DEF Waits
  <2>2. status \notin Done
    BY <2>1 DEF Done
  <2>3. q1.current # r
    BY <2>1, <1>1, <1>2, <1>7 DEF QueuesAgree
  <2> QED BY <1>5, <2>2, <2>3
<1>10. Works(r, w) => q1.current = r \/ Contains(q1.backlog, r)
  <2> HAVE Works(r, w)
  <2>1. status \notin Done
    BY DEF Done, Works
  <2> QED BY <1>5, <2>1
<1>11. BacklogInOrder(Q) /\ NextInOrder(r, w, q.backlog) => BacklogInOrder(Q1)
  <2> HAVE BacklogInOrder(Q) /\ NextInOrder(r, w, q.backlog)
  <2>1. InOrder(q1.backlog, w)
    BY <1>2, <1>3, BacklogTakesInOrder DEF BacklogInOrder
  <2> QED BY <1>1, <2>1 DEF BacklogInOrder
<1> HIDE DEF Q1, q
<1> QED BY <1>1, <1>7, <1>8, <1>9, <1>10, <1>11 DEF Q1, q

-----------------------------------------------------------------------------
(* Taking a listed run, or the run of an event, into the queues *)

\* n is the next note to be handled, and T1, E1 are what is left.
Source(n, p1, T1, E1) ==
  \/ /\ pc = "seeding" /\ n = Head(todo) /\ T1 = Tail(todo) /\ E1 = runEvents
     /\ p1 = IF T1 = <<>> THEN "ready" ELSE pc
  \/ /\ pc = "ready" /\ runEvents # <<>> /\ n = Head(runEvents)
     /\ T1 = <<>> /\ E1 = Tail(runEvents) /\ p1 = "ready"

\* The queues Q1 have taken in the note n.
TakenIn(n, Q1) ==
  LET w == n.row.workspace IN
  /\ \A v \in Workspace : (v = w /\ ~n.row.planOnly) \/ Q1[v] = queues[v]
  /\ ~n.row.planOnly /\ n.row.status \in Scheduled /\ queues[w] = EmptyQueue =>
       Q1[w].current = n.run
  /\ Waits(n.run, w) => Contains(Q1[w].backlog, n.run)
  /\ Works(n.run, w) => Q1[w].current = n.run \/ Contains(Q1[w].backlog, n.run)

\* A note in a sequence of notes.
LEMMA NoteOfRun ==
  ASSUME NEW notes \in Seq(RunNote), NEW i \in DOMAIN notes
  PROVE  notes[i] \in RunNote /\ notes[i].run \in Run
<1>1. notes[i] \in RunNote
  OBVIOUS
<1> QED BY <1>1 DEF RunNote

\* The rest of a sequence of notes.
LEMMA TailNotes ==
  ASSUME NEW notes \in Seq(RunNote), notes # <<>>
  PROVE  /\ Head(notes) = notes[1] /\ notes[1] \in RunNote
         /\ Tail(notes) \in Seq(RunNote) /\ Len(Tail(notes)) = Len(notes) - 1
         /\ \A i \in DOMAIN Tail(notes) : i + 1 \in DOMAIN notes /\ Tail(notes)[i] = notes[i + 1]
         /\ \A i \in DOMAIN notes :
              i # 1 => i - 1 \in DOMAIN Tail(notes) /\ Tail(notes)[i - 1] = notes[i]
         /\ \A s : Noted(s, notes) => s = notes[1].run \/ Noted(s, Tail(notes))
         /\ NotesAgree(notes) => NoteAgrees(notes[1]) /\ NotesAgree(Tail(notes))
<1>1. /\ Head(notes) = notes[1] /\ notes[1] \in RunNote
      /\ Tail(notes) \in Seq(RunNote) /\ Len(Tail(notes)) = Len(notes) - 1
      /\ \A i \in DOMAIN Tail(notes) : i + 1 \in DOMAIN notes /\ Tail(notes)[i] = notes[i + 1]
  OBVIOUS
<1>2. \A i \in DOMAIN notes :
        i # 1 => i - 1 \in DOMAIN Tail(notes) /\ Tail(notes)[i - 1] = notes[i]
  <2> TAKE i \in DOMAIN notes
  <2> HAVE i # 1
  <2>1. i - 1 \in DOMAIN Tail(notes) /\ (i - 1) + 1 = i
    BY <1>1
  <2> QED BY <1>1, <2>1
<1>3. 1 \in DOMAIN notes
  OBVIOUS
<1> QED BY <1>1, <1>2, <1>3 DEF Noted, NotesAgree

LEMMA SourceProperties ==
  ASSUME IInv, NEW n, NEW p1, NEW T1, NEW E1, Source(n, p1, T1, E1), ~n.deleted
  PROVE  /\ n \in RunNote /\ NoteAgrees(n) /\ Running(pc) /\ Running(p1)
         /\ T1 \in Seq(RunNote) /\ E1 \in Seq(RunNote) /\ Len(E1) <= BufferSize
         /\ NotesAgree(T1) /\ NotesAgree(E1)
         /\ p1 = "ready" <=> T1 = <<>>
         /\ \A i \in DOMAIN T1 : ~T1[i].deleted
         /\ \A s : Noted(s, todo) => s = n.run \/ Noted(s, T1)
         /\ \A s : Noted(s, runEvents) => s = n.run \/ Noted(s, E1)
         /\ \A w \in Workspace : NextInOrder(n.run, w, queues[w].backlog)
<1>1. /\ Typed(todo, queues, runEvents) /\ Progress(pc, todo, queues)
      /\ NotesAgree(todo) /\ NotesAgree(runEvents)
  BY DEF IInv, Agrees
<1>2. CASE /\ pc = "seeding" /\ n = Head(todo) /\ T1 = Tail(todo) /\ E1 = runEvents
           /\ p1 = IF T1 = <<>> THEN "ready" ELSE pc
  <2>1. todo # <<>> /\ todo \in Seq(RunNote) /\ Running(pc)
    BY <1>1, <1>2 DEF Typed, Progress, Running
  <2>2. \A w \in Workspace : NextInOrder(n.run, w, queues[w].backlog)
    <3>1. TodoInOrder(todo, queues)
      BY <2>1 DEF IInv, Agrees, Knows
    <3>2. 1 \in DOMAIN todo /\ n.run = todo[1].run
      BY <2>1, <1>2, TailNotes
    <3> QED BY <3>1, <3>2 DEF TodoInOrder, NextInOrder
  <2>3. \A i \in DOMAIN T1 : ~T1[i].deleted
    BY <1>1, <1>2, <2>1, TailNotes DEF Progress
  <2> QED BY <1>1, <1>2, <2>1, <2>2, <2>3, TailNotes DEF Typed, Running
<1>3. CASE /\ pc = "ready" /\ runEvents # <<>> /\ n = Head(runEvents)
           /\ T1 = <<>> /\ E1 = Tail(runEvents) /\ p1 = "ready"
  <2>1. todo = <<>> /\ runEvents \in Seq(RunNote) /\ Running(pc)
    BY <1>1, <1>3 DEF Typed, Progress, Running
  <2>2. \A w \in Workspace : NextInOrder(n.run, w, queues[w].backlog)
    <3>1. EventsInOrder(todo, queues, runEvents)
      BY <2>1 DEF IInv, Agrees, Knows
    <3>2. 1 \in DOMAIN runEvents /\ n.run = runEvents[1].run /\ ~runEvents[1].deleted
      BY <2>1, <1>3, TailNotes
    <3>3. \A s : ~Noted(s, todo)
      BY <2>1 DEF Noted
    <3> QED BY <3>1, <3>2, <3>3 DEF EventsInOrder, NextInOrder
  <2>3. T1 \in Seq(RunNote) /\ NotesAgree(T1) /\ T1 = todo
    BY <1>3, <2>1 DEF NotesAgree
  <2>4. Len(E1) <= BufferSize
    BY <1>1, <1>3, <2>1, TailNotes, BufferAssumption DEF Typed
  <2> QED BY <1>1, <1>3, <2>1, <2>2, <2>3, <2>4, TailNotes DEF Running
<1> QED BY <1>2, <1>3 DEF Source

LEMMA TakeWorksIsCurrent ==
  ASSUME IInv, NEW n, NEW p1, NEW T1, NEW E1, Source(n, p1, T1, E1), ~n.deleted,
         NEW Q1, TakenIn(n, Q1), KeepsRuns(queues, Q1)
  PROVE  WorksIsCurrent(T1, Q1)
<1> SUFFICES ASSUME NEW w \in Workspace, NEW r \in Run, Works(r, w)
             PROVE  \/ Q1[w].current = r
                    \/ Q1[w] = EmptyQueue /\ ListedFirst(r, w, T1)
  BY DEF WorksIsCurrent
<1>1. n \in RunNote /\ NoteAgrees(n) /\ Running(pc)
  BY SourceProperties
<1>2. \/ queues[w].current = r
      \/ queues[w] = EmptyQueue /\ ListedFirst(r, w, todo)
  BY <1>1 DEF IInv, Agrees, Knows, WorksIsCurrent
<1>3. CASE queues[w].current = r
  BY <1>3 DEF KeepsRuns
<1>4. CASE queues[w] = EmptyQueue /\ ListedFirst(r, w, todo)
  <2>1. PICK i \in DOMAIN todo :
          /\ todo[i].run = r /\ todo[i].row.status \in Scheduled
          /\ \A j \in 1..(i - 1) : todo[j].row.workspace = w => todo[j].row.planOnly
    BY <1>4 DEF ListedFirst
  <2>2. todo # <<>> /\ todo \in Seq(RunNote)
    BY <2>1 DEF IInv, Agrees, Typed
  <2>3. pc = "seeding" /\ n = todo[1] /\ T1 = Tail(todo)
    BY <2>2, TailNotes DEF Source, IInv, Agrees, Progress
  <2>4. CASE i = 1
    <3>1. n.row.workspace = w /\ ~n.row.planOnly /\ n.run = r
      BY <1>1, <2>1, <2>3, <2>4 DEF NoteAgrees, Works
    <3> QED BY <1>4, <2>1, <2>3, <2>4, <3>1 DEF TakenIn
  <2>5. CASE i # 1
    <3>1. 1 \in 1..(i - 1)
      BY <2>1, <2>2, <2>5
    <3>2. Q1[w] = queues[w]
      BY <2>1, <2>3, <3>1 DEF TakenIn
    <3>3. i - 1 \in DOMAIN T1 /\ T1[i - 1] = todo[i]
      BY <2>2, <2>3, <2>5, TailNotes
    <3>4. \A j \in 1..((i - 1) - 1) : T1[j].row.workspace = w => T1[j].row.planOnly
      <4> TAKE j \in 1..((i - 1) - 1)
      <4>1. j + 1 \in 1..(i - 1) /\ j \in DOMAIN T1
        <5>1. i \in 1..Len(todo) /\ Len(T1) = Len(todo) - 1 /\ T1 \in Seq(RunNote)
          BY <2>2, <2>3, TailNotes
        <5> QED BY <5>1
      <4>2. T1[j] = todo[j + 1]
        BY <4>1, <2>2, <2>3, TailNotes
      <4> QED BY <4>1, <4>2, <2>1
    <3>5. ListedFirst(r, w, T1)
      BY <2>1, <3>3, <3>4 DEF ListedFirst
    <3> QED BY <1>4, <3>2, <3>5
  <2> QED BY <2>4, <2>5
<1> QED BY <1>2, <1>3, <1>4

LEMMA TakeInOrder ==
  ASSUME IInv, NEW n, NEW p1, NEW T1, NEW E1, Source(n, p1, T1, E1), ~n.deleted,
         NEW Q1, TakenIn(n, Q1), KeepsRuns(queues, Q1)
  PROVE  TodoInOrder(T1, Q1) /\ EventsInOrder(T1, Q1, E1)
<1>1. /\ n \in RunNote /\ NoteAgrees(n) /\ Running(pc)
      /\ T1 \in Seq(RunNote) /\ E1 \in Seq(RunNote)
      /\ \A s : Noted(s, todo) => s = n.run \/ Noted(s, T1)
  BY SourceProperties
<1>2. /\ todo \in Seq(RunNote) /\ runEvents \in Seq(RunNote)
      /\ TodoInOrder(todo, queues) /\ EventsInOrder(todo, queues, runEvents)
      /\ \A i \in DOMAIN todo : ~todo[i].deleted
  BY <1>1 DEF IInv, Agrees, Typed, Knows, Progress
<1>3. \A w \in Workspace, s \in Run :
        Waits(s, w) /\ (s = n.run \/ Contains(queues[w].backlog, s)) =>
          Contains(Q1[w].backlog, s)
  <2> SUFFICES ASSUME NEW w \in Workspace, NEW s \in Run, Waits(s, w), s = n.run
               PROVE  Contains(Q1[w].backlog, s)
    BY DEF KeepsRuns
  <2>1. n.row.workspace = w
    BY <1>1 DEF NoteAgrees, Waits
  <2> QED BY <2>1 DEF TakenIn
<1>4. CASE /\ pc = "seeding" /\ n = Head(todo) /\ T1 = Tail(todo) /\ E1 = runEvents
  <2>0. todo # <<>>
    BY <1>4 DEF IInv, Agrees, Progress
  <2>1. TodoInOrder(T1, Q1)
    <3> SUFFICES ASSUME NEW w \in Workspace, NEW s \in Run, NEW i \in DOMAIN T1,
                        Rivals(T1[i].run, s, w), ~Before(T1[i].run, s),
                        ~Contains(Q1[w].backlog, s)
                 PROVE  \E j \in 1..(i - 1) : T1[j].run = s
      BY DEF TodoInOrder
    <3>1. i + 1 \in DOMAIN todo /\ T1[i] = todo[i + 1]
      BY <1>2, <1>4, <2>0, TailNotes
    <3>2. s # n.run /\ ~Contains(queues[w].backlog, s)
      BY <1>3 DEF Rivals
    <3>3. PICK j \in 1..((i + 1) - 1) : todo[j].run = s
      BY <1>2, <3>1, <3>2 DEF TodoInOrder
    <3>4. j \in DOMAIN todo /\ j # 1
      BY <1>2, <1>4, <2>0, <3>1, <3>2, <3>3, TailNotes
    <3>5. j - 1 \in 1..(i - 1) /\ T1[j - 1] = todo[j]
      BY <1>1, <1>2, <1>4, <2>0, <3>3, <3>4, TailNotes
    <3> QED BY <3>3, <3>5
  <2>2. EventsInOrder(T1, Q1, E1)
    <3> SUFFICES ASSUME NEW w \in Workspace, NEW s \in Run, NEW i \in DOMAIN E1,
                        ~E1[i].deleted, Rivals(E1[i].run, s, w), ~Before(E1[i].run, s),
                        ~Contains(Q1[w].backlog, s), ~Noted(s, T1)
                 PROVE  \E j \in 1..(i - 1) : E1[j].run = s /\ ~E1[j].deleted
      BY DEF EventsInOrder
    <3>1. s # n.run /\ ~Contains(queues[w].backlog, s)
      BY <1>3 DEF Rivals
    <3>2. ~Noted(s, todo)
      BY <1>1, <3>1
    <3> QED BY <1>2, <1>4, <3>1, <3>2 DEF EventsInOrder
  <2> QED BY <2>1, <2>2
<1>5. CASE /\ pc = "ready" /\ runEvents # <<>> /\ n = Head(runEvents)
           /\ T1 = <<>> /\ E1 = Tail(runEvents)
  <2>1. TodoInOrder(T1, Q1)
    BY <1>5 DEF TodoInOrder
  <2>2. EventsInOrder(T1, Q1, E1)
    <3> SUFFICES ASSUME NEW w \in Workspace, NEW s \in Run, NEW i \in DOMAIN E1,
                        ~E1[i].deleted, Rivals(E1[i].run, s, w), ~Before(E1[i].run, s),
                        ~Contains(Q1[w].backlog, s), ~Noted(s, T1)
                 PROVE  \E j \in 1..(i - 1) : E1[j].run = s /\ ~E1[j].deleted
      BY DEF EventsInOrder
    <3>1. i + 1 \in DOMAIN runEvents /\ E1[i] = runEvents[i + 1]
      BY <1>2, <1>5, TailNotes
    <3>2. s # n.run /\ ~Contains(queues[w].backlog, s)
      BY <1>3 DEF Rivals
    <3>3. ~Noted(s, todo)
      BY <1>1, <3>2
    <3>4. PICK j \in 1..((i + 1) - 1) : runEvents[j].run = s /\ ~runEvents[j].deleted
      BY <1>2, <3>1, <3>2, <3>3 DEF EventsInOrder
    <3>5. j \in DOMAIN runEvents /\ j # 1
      BY <1>2, <1>5, <3>1, <3>2, <3>4, TailNotes
    <3>6. j - 1 \in 1..(i - 1) /\ E1[j - 1] = runEvents[j]
      BY <1>1, <1>2, <1>5, <3>4, <3>5, TailNotes
    <3> QED BY <3>4, <3>6
  <2> QED BY <2>1, <2>2
<1> QED BY <1>4, <1>5 DEF Source

\* Once a note is taken in, the queues, the rest of the list and the rest of
\* the events agree as they did before.
LEMMA TakeAgrees ==
  ASSUME IInv, NEW n, NEW p1, NEW T1, NEW E1, Source(n, p1, T1, E1), ~n.deleted,
         NEW Q1 \in [Workspace -> QueueType], TakenIn(n, Q1), KeepsRuns(queues, Q1),
         QueuesAgree(Q1), BacklogInOrder(Q1),
         NEW X \in SUBSET Run, n.run \in X => ~n.row.planOnly \/ n.row.status # "pending"
  PROVE  Agrees(X, p1, T1, Q1, E1)
<1>1. /\ n \in RunNote /\ NoteAgrees(n) /\ Running(pc) /\ Running(p1)
      /\ T1 \in Seq(RunNote) /\ E1 \in Seq(RunNote) /\ Len(E1) <= BufferSize
      /\ NotesAgree(T1) /\ NotesAgree(E1)
      /\ p1 = "ready" <=> T1 = <<>>
      /\ \A i \in DOMAIN T1 : ~T1[i].deleted
      /\ \A s : Noted(s, todo) => s = n.run \/ Noted(s, T1)
      /\ \A s : Noted(s, runEvents) => s = n.run \/ Noted(s, E1)
  BY SourceProperties
<1>2. Typed(T1, Q1, E1)
  BY <1>1 DEF Typed
<1>3. Progress(p1, T1, Q1)
  BY <1>1 DEF Progress, Running
<1>4. WorksIsCurrent(T1, Q1) /\ TodoInOrder(T1, Q1) /\ EventsInOrder(T1, Q1, E1)
  BY TakeWorksIsCurrent, TakeInOrder
<1>5. ASSUME "runs" \notin closed
      PROVE  NoneLost(X, T1, Q1, E1)
  <2> SUFFICES ASSUME NEW r \in X, Needs(r), ~Noted(r, T1), ~Noted(r, E1)
               PROVE  /\ ~rows[r].planOnly
                      /\ \/ Q1[rows[r].workspace].current = r
                         \/ Contains(Q1[rows[r].workspace].backlog, r)
    BY DEF NoneLost
  <2> DEFINE w == rows[r].workspace
  <2>1. r \in Run /\ rows[r].status \in {"pending", "active"} /\ w \in Workspace
    BY DEF IInv, TablesAgree, RowsAgree, Exists, Needs, Scheduled, Gone, TypeOK
  <2>2. CASE r = n.run
    <3>1. n.row.planOnly = rows[r].planOnly /\ n.row.workspace = w
      BY <1>1, <2>1, <2>2 DEF NoteAgrees
    <3>2. rows[r].planOnly => n.row.status # "pending" /\ rows[r].status = "pending"
      BY <2>1, <2>2, <3>1 DEF Needs, Scheduled
    <3>3. ~rows[r].planOnly
      BY <1>1, <2>2, <3>2 DEF NoteAgrees
    <3>4. Waits(r, w) \/ Works(r, w)
      BY <2>1, <3>3 DEF Waits, Works
    <3> QED BY <2>2, <3>1, <3>3, <3>4 DEF TakenIn
  <2>3. CASE r # n.run
    <3>1. ~Noted(r, todo) /\ ~Noted(r, runEvents)
      BY <1>1, <2>3
    <3>2. /\ ~rows[r].planOnly
          /\ queues[w].current = r \/ Contains(queues[w].backlog, r)
      BY <1>1, <1>5, <2>1, <3>1 DEF IInv, Agrees, Knows, NoneLost
    <3>3. Waits(r, w) \/ Works(r, w)
      BY <2>1, <3>2 DEF Waits, Works
    <3>4. Waits(r, w) => queues[w].current # r
      BY <2>1, SchedulerAssumption DEF IInv, Agrees, QueuesAgree, Waits
    <3> QED BY <2>1, <3>2, <3>3, <3>4 DEF KeepsRuns
  <2> QED BY <2>2, <2>3
<1> QED BY <1>1, <1>2, <1>3, <1>4, <1>5 DEF Agrees, Knows

-----------------------------------------------------------------------------
(* The rows move on, and events are published *)

\* What the operations on the database may do to a row that exists.
RowsMoveOn ==
  \A r \in Run : rows[r].status # "absent" =>
    /\ rows'[r].status # "absent"
    /\ rows[r].status # "pending" => rows'[r].status # "pending"
    /\ rows[r].status \in Done \cup {"deleted"} =>
         rows'[r].status \in Done \cup {"deleted"}
    /\ rows[r].status = "deleted" => rows'[r].status = "deleted"
    /\ \/ rows'[r].status = "deleted"
       \/ /\ rows'[r].workspace = rows[r].workspace
          /\ rows'[r].planOnly = rows[r].planOnly

\* A step is past the middle: the progress, the list and the events are
\* those of p1, T1 and E1, and the events evs are published.
Publishes(p1, T1, E1, evs) ==
  /\ pc' = p1 /\ todo' = T1
  /\ Running(p1) => WatchingRuns
  /\ runEvents' \in Seq(RunNote)
  /\ DeliveredTo(E1, evs, WatchingRuns, "runs" \in closed, runEvents')
  /\ "runs" \notin closed' => "runs" \notin closed
  /\ WatchingRuns /\ "runs" \notin closed' => Fits(E1, evs)

LEMMA PublishProperties ==
  ASSUME TypeOK, NEW E1 \in Seq(RunNote), Len(E1) <= BufferSize,
         NEW W1 \in Seq(WsNote), Len(W1) <= BufferSize,
         NEW evs \in Seq(RunNote), NEW wevs \in Seq(WsNote),
         Publish(E1, W1, evs, wevs)
  PROVE  /\ runEvents' \in Seq(RunNote) /\ wsEvents' \in Seq(WsNote)
         /\ Len(runEvents') <= BufferSize /\ Len(wsEvents') <= BufferSize
         /\ DeliveredTo(E1, evs, WatchingRuns, "runs" \in closed, runEvents')
         /\ DeliveredTo(W1, wevs, WatchingWorkspaces, "workspaces" \in closed, wsEvents')
         /\ closed' \subseteq {"runs", "workspaces"}
         /\ "runs" \notin closed' => "runs" \notin closed
         /\ WatchingRuns /\ "runs" \notin closed' => Fits(E1, evs)
<1>1. WatchingRuns \in BOOLEAN /\ WatchingWorkspaces \in BOOLEAN
  BY DEF WatchingRuns, WatchingWorkspaces
<1>2. ("runs" \in closed) \in BOOLEAN /\ ("workspaces" \in closed) \in BOOLEAN
  OBVIOUS
<1>3. /\ runEvents' \in Seq(RunNote)
      /\ DeliveredTo(E1, evs, WatchingRuns, "runs" \in closed, runEvents')
  BY <1>1, <1>2, DeliverProperties DEF Publish
<1>4. /\ wsEvents' \in Seq(WsNote)
      /\ DeliveredTo(W1, wevs, WatchingWorkspaces, "workspaces" \in closed, wsEvents')
  BY <1>1, <1>2, DeliverProperties DEF Publish
<1>5. Len(runEvents') <= BufferSize /\ Len(wsEvents') <= BufferSize
  BY <1>3, <1>4 DEF DeliveredTo
<1>6. /\ closed' \subseteq {"runs", "workspaces"}
      /\ "runs" \notin closed' => "runs" \notin closed
      /\ WatchingRuns /\ "runs" \notin closed' => Fits(E1, evs)
  BY DEF Publish, TypeOK, Overflows
<1> QED BY <1>3, <1>4, <1>5, <1>6

\* The part of the agreement that speaks of one row at a time.
Settled(p, T, Q, E) ==
  /\ Typed(T, Q, E) /\ Progress(p, T, Q)
  /\ NotesAgree(T) /\ NotesAgree(E) /\ QueuesAgree(Q)

LEMMA NoteMovesOn ==
  ASSUME rows \in [Run -> Row], rows' \in [Run -> Row], RowsMoveOn,
         NEW n \in RunNote, NoteAgrees(n)
  PROVE  NoteAgrees(n)'
BY DEF NoteAgrees, RowsMoveOn, RunNote

LEMMA MemberMovesOn ==
  ASSUME rows \in [Run -> Row], rows' \in [Run -> Row], RowsMoveOn,
         NEW m \in Run, NEW w \in Workspace, MemberAgrees(m, w)
  PROVE  /\ MemberAgrees(m, w)'
         /\ rows[m].status # "pending" => rows'[m].status # "pending"
BY DEF MemberAgrees, RowsMoveOn

LEMMA SettledMovesOn ==
  ASSUME TypeOK, rows' \in [Run -> Row], RowsMoveOn,
         NEW p1, NEW T1, NEW Q1, NEW E1, Settled(p1, T1, Q1, E1),
         NEW evs \in Seq(RunNote), \A k \in DOMAIN evs : NoteAgrees(evs[k])',
         Publishes(p1, T1, E1, evs)
  PROVE  /\ NotesAgree(T1)' /\ NotesAgree(runEvents)' /\ QueuesAgree(Q1)'
         /\ Typed(todo, Q1, runEvents)'
         /\ Progress(p1, T1, Q1)'
<1>0. rows \in [Run -> Row] /\ Typed(T1, Q1, E1) /\ Progress(p1, T1, Q1)
  BY DEF TypeOK, Settled
<1>1. NotesAgree(T1)'
  <2> SUFFICES ASSUME NEW i \in DOMAIN T1
               PROVE  NoteAgrees(T1[i])'
    BY DEF NotesAgree
  <2>1. T1[i] \in RunNote /\ NoteAgrees(T1[i])
    BY <1>0 DEF Settled, NotesAgree, Typed
  <2> QED BY <1>0, <2>1, NoteMovesOn
<1>2. NotesAgree(E1)'
  <2> SUFFICES ASSUME NEW i \in DOMAIN E1
               PROVE  NoteAgrees(E1[i])'
    BY DEF NotesAgree
  <2>1. E1[i] \in RunNote /\ NoteAgrees(E1[i])
    BY <1>0 DEF Settled, NotesAgree, Typed
  <2> QED BY <1>0, <2>1, NoteMovesOn
<1>3. NotesAgree(runEvents)'
  BY <1>2 DEF NotesAgree, Publishes, DeliveredTo
<1>4. QueuesAgree(Q1)'
  <2> SUFFICES ASSUME NEW w \in Workspace
               PROVE  /\ Q1[w].current # Nobody =>
                           /\ MemberAgrees(Q1[w].current, w)'
                           /\ rows'[Q1[w].current].status # "pending"
                      /\ \A i \in DOMAIN Q1[w].backlog : MemberAgrees(Q1[w].backlog[i], w)'
    BY DEF QueuesAgree
  <2>1. Q1[w] \in QueueType
    BY <1>0 DEF Typed
  <2>2. Q1[w].current \in Run \cup {Nobody} /\ Q1[w].backlog \in Seq(Run)
    BY <2>1 DEF QueueType
  <2>3. /\ Q1[w].current # Nobody =>
             MemberAgrees(Q1[w].current, w) /\ rows[Q1[w].current].status # "pending"
        /\ \A i \in DOMAIN Q1[w].backlog : MemberAgrees(Q1[w].backlog[i], w)
    BY DEF Settled, QueuesAgree
  <2>4. \A i \in DOMAIN Q1[w].backlog : Q1[w].backlog[i] \in Run
    BY <2>2
  <2> QED BY <1>0, <2>2, <2>3, <2>4, MemberMovesOn
<1>5. Typed(todo, Q1, runEvents)'
  BY <1>0 DEF Typed, Publishes, DeliveredTo
<1>6. Progress(p1, T1, Q1)'
  BY <1>0 DEF Progress
<1> QED BY <1>1, <1>3, <1>4, <1>5, <1>6

\* No run is created and none gets its turn; a run outside X needs no more.
Wanes(X) ==
  /\ created' = created
  /\ \A r \in Run :
       /\ Needs(r)' => Needs(r) /\ r \in X
       /\ r \notin X => rows[r].planOnly
       /\ \A w \in Workspace : /\ Waits(r, w)' => Waits(r, w)
                               /\ Works(r, w)' => Works(r, w)

\* While the scheduler listens, a run that waits is known: in a backlog, in
\* the list or on its way.
LEMMA WaitingIsKnown ==
  ASSUME NEW X \in SUBSET Run, NEW p1, NEW T1, NEW Q1, NEW E1,
         Agrees(X, p1, T1, Q1, E1), Running(p1), "runs" \notin closed,
         NEW s \in X, NEW w \in Workspace, Waits(s, w)
  PROVE  Contains(Q1[w].backlog, s) \/ Noted(s, T1) \/ Noted(s, E1)
<1>1. NoneLost(X, T1, Q1, E1) /\ QueuesAgree(Q1)
  BY DEF Agrees, Knows
<1>2. Needs(s) /\ rows[s].workspace = w
  BY DEF Needs, Waits
<1>3. Q1[w].current # s
  BY <1>1, SchedulerAssumption DEF QueuesAgree, Waits
<1> QED BY <1>1, <1>2, <1>3 DEF NoneLost

LEMMA WaneKnows ==
  ASSUME RowsMoveOn, NEW X \in SUBSET Run, Wanes(X),
         NEW p1, NEW T1, NEW Q1, NEW E1, Agrees(X, p1, T1, Q1, E1), Running(p1),
         NEW evs \in Seq(RunNote), Publishes(p1, T1, E1, evs)
  PROVE  Knows(Run, T1, Q1, runEvents)'
<1>1. \A r, s : Before(r, s)' <=> Before(r, s)
  BY DEF Before, Wanes
<1>2. \A r, s \in Run, w \in Workspace : Rivals(r, s, w)' => Rivals(r, s, w)
  BY DEF Rivals, Wanes
<1>3. /\ Knows(X, T1, Q1, E1) /\ WatchingRuns
      /\ T1 \in Seq(RunNote) /\ Q1 \in [Workspace -> QueueType] /\ E1 \in Seq(RunNote)
  BY DEF Agrees, Publishes, Typed
<1>4. \A w \in Workspace : Q1[w].backlog \in Seq(Run)
  BY <1>3 DEF QueueType
<1>5. WorksIsCurrent(T1, Q1)'
  BY <1>3 DEF Knows, WorksIsCurrent, Wanes, ListedFirst
<1>6. BacklogInOrder(Q1)'
  BY <1>1, <1>2, <1>3, <1>4 DEF Knows, BacklogInOrder, InOrder
<1>7. TodoInOrder(T1, Q1)'
  <2>1. \A i \in DOMAIN T1 : T1[i].run \in Run
    BY <1>3, NoteOfRun
  <2> QED BY <1>1, <1>2, <1>3, <2>1 DEF Knows, TodoInOrder
<1>8. EventsInOrder(T1, Q1, runEvents)'
  <2>0. PICK E2 : E2 = runEvents'
    OBVIOUS
  <2> SUFFICES EventsInOrder(T1, Q1, E2)'
    BY <2>0
  <2> SUFFICES ASSUME NEW w \in Workspace, NEW s \in Run, NEW i \in DOMAIN E2,
                      ~E2[i].deleted, Rivals(E2[i].run, s, w)'
               PROVE  \/ Before(E2[i].run, s)
                      \/ Contains(Q1[w].backlog, s)
                      \/ Noted(s, T1)
                      \/ \E j \in 1..(i - 1) : E2[j].run = s /\ ~E2[j].deleted
    BY <1>1 DEF EventsInOrder, Noted
  <2>1. /\ E2 \in Seq(RunNote)
        /\ Len(E1) <= Len(E2)
        /\ \A j \in DOMAIN E1 : E2[j] = E1[j]
        /\ "runs" \in closed => E2 = E1
    BY <1>3, <2>0 DEF Publishes, DeliveredTo
  <2>2. Rivals(E2[i].run, s, w)
    <3>1. E2[i].run \in Run
      BY <2>1, NoteOfRun
    <3> QED BY <1>2, <3>1
  <2>3. CASE i \in DOMAIN E1
    <3>1. \/ Before(E1[i].run, s) \/ Contains(Q1[w].backlog, s) \/ Noted(s, T1)
          \/ \E j \in 1..(i - 1) : E1[j].run = s /\ ~E1[j].deleted
      BY <1>3, <2>1, <2>2, <2>3 DEF Knows, EventsInOrder
    <3>2. \A j \in 1..(i - 1) : j \in DOMAIN E1
      BY <1>3, <2>3
    <3> QED BY <2>1, <2>3, <3>1, <3>2
  <2>4. CASE i \notin DOMAIN E1
    <3>1. "runs" \notin closed
      BY <2>1, <2>4
    <3>2. s \in X /\ Waits(s, w)
      BY <2>2 DEF Rivals, Waits, Wanes
    <3>3. Contains(Q1[w].backlog, s) \/ Noted(s, T1) \/ Noted(s, E1)
      BY <3>1, <3>2, WaitingIsKnown
    <3>4. \A j \in DOMAIN E1 : j \in 1..(i - 1)
      BY <1>3, <2>1, <2>4
    <3> QED BY <2>1, <3>3, <3>4 DEF Noted
  <2> QED BY <2>3, <2>4
<1>9. ASSUME ("runs" \notin closed)'
      PROVE  NoneLost(Run, T1, Q1, runEvents)'
  <2> SUFFICES ASSUME NEW r \in Run, Needs(r)', ~Noted(r, T1), ~Noted(r, runEvents)'
               PROVE  /\ ~rows'[r].planOnly
                      /\ \/ Q1[rows'[r].workspace].current = r
                         \/ Contains(Q1[rows'[r].workspace].backlog, r)
    BY DEF NoneLost, Noted
  <2>1. Needs(r) /\ r \in X /\ "runs" \notin closed
    BY <1>9 DEF Wanes, Publishes
  <2>2. ~Noted(r, E1)
    BY <1>3 DEF Noted, Publishes, DeliveredTo
  <2>3. /\ ~rows[r].planOnly
        /\ \/ Q1[rows[r].workspace].current = r
           \/ Contains(Q1[rows[r].workspace].backlog, r)
    BY <1>3, <2>1, <2>2 DEF Knows, NoneLost
  <2>4. rows'[r].workspace = rows[r].workspace /\ rows'[r].planOnly = rows[r].planOnly
    BY <2>1 DEF RowsMoveOn, Needs, Scheduled
  <2> QED BY <2>3, <2>4
<1> QED BY <1>5, <1>6, <1>7, <1>8, <1>9 DEF Knows

LEMMA CreateKnows ==
  ASSUME TypeOK, TablesAgree,
         NEW r \in Run, NEW v \in Workspace, NEW planOnly \in BOOLEAN,
         rows[r].status = "absent",
         rows' = [rows EXCEPT ![r] = [status |-> "pending", planOnly |-> planOnly,
                                      workspace |-> v]],
         created' = Append(created, r),
         NEW p1, NEW T1, NEW Q1, NEW E1, Agrees(Run, p1, T1, Q1, E1), Running(p1),
         NEW n, n = Note(r, rows'[r]), Publishes(p1, T1, E1, <<n>>)
  PROVE  Knows(Run, T1, Q1, runEvents)'
<1>1. /\ Knows(Run, T1, Q1, E1) /\ WatchingRuns
      /\ T1 \in Seq(RunNote) /\ Q1 \in [Workspace -> QueueType] /\ E1 \in Seq(RunNote)
      /\ NotesAgree(T1) /\ NotesAgree(E1) /\ QueuesAgree(Q1)
  BY DEF Agrees, Publishes, Typed
<1>2. \A w \in Workspace : Q1[w].backlog \in Seq(Run)
  BY <1>1 DEF QueueType
<1>3. \A s \in Run : s # r => rows'[s] = rows[s]
  BY DEF TypeOK
<1>4. rows'[r].status = "pending" /\ rows'[r].workspace = v
  BY DEF TypeOK
<1>5. created \in Seq(Run) /\ \A i \in DOMAIN created : i \in DOMAIN created' /\ created'[i] = created[i]
  BY DEF TypeOK
<1>6. \A a, b : Before(a, b) => Before(a, b)'
  BY <1>5 DEF Before
<1>7. \A a \in Run : rows[a].status # "absent" => Before(a, r)'
  <2> SUFFICES ASSUME NEW a \in Run, rows[a].status # "absent"
               PROVE  Before(a, r)'
    OBVIOUS
  <2>1. PICK i \in DOMAIN created : created[i] = a
    BY DEF TablesAgree, CreatedExist
  <2>2. /\ Len(created) + 1 \in DOMAIN created' /\ created'[Len(created) + 1] = r
        /\ i < Len(created) + 1
    BY <1>5
  <2> QED BY <1>5, <2>1, <2>2 DEF Before
<1>8. /\ \A s \in Run, w \in Workspace : Works(s, w)' => Works(s, w)
      /\ \A s \in Run, w \in Workspace : Waits(s, w)' => s = r \/ Waits(s, w)
  BY <1>3, <1>4 DEF Works, Waits
<1>9. \A a, s \in Run, w \in Workspace :
        rows[a].status # "absent" /\ Rivals(a, s, w)' /\ ~Before(a, s)' => Rivals(a, s, w)
  BY <1>7, <1>8 DEF Rivals
<1>10. WorksIsCurrent(T1, Q1)'
  BY <1>1, <1>8 DEF Knows, WorksIsCurrent, ListedFirst
<1>11. BacklogInOrder(Q1)'
  <2>1. \A w \in Workspace : \A i \in DOMAIN Q1[w].backlog :
          Q1[w].backlog[i] \in Run /\ rows[Q1[w].backlog[i]].status # "absent"
    BY <1>1, <1>2 DEF QueuesAgree, MemberAgrees
  <2> QED BY <1>1, <1>6, <1>9, <2>1 DEF Knows, BacklogInOrder, InOrder
<1>12. TodoInOrder(T1, Q1)'
  <2>1. \A i \in DOMAIN T1 : T1[i].run \in Run
    BY <1>1, NoteOfRun
  <2>2. \A i \in DOMAIN T1 : ~T1[i].deleted
    BY DEF Agrees, Progress
  <2>3. \A i \in DOMAIN T1 : rows[T1[i].run].status # "absent"
    BY <1>1, <2>2 DEF NotesAgree, NoteAgrees
  <2> QED BY <1>1, <1>6, <1>9, <2>1, <2>3 DEF Knows, TodoInOrder
<1>13. EventsInOrder(T1, Q1, runEvents)'
  <2>0. PICK E2 : E2 = runEvents'
    OBVIOUS
  <2> SUFFICES EventsInOrder(T1, Q1, E2)'
    BY <2>0
  <2> SUFFICES ASSUME NEW w \in Workspace, NEW s \in Run, NEW i \in DOMAIN E2,
                      ~E2[i].deleted, Rivals(E2[i].run, s, w)', ~Before(E2[i].run, s)'
               PROVE  \/ Contains(Q1[w].backlog, s)
                      \/ Noted(s, T1)
                      \/ \E j \in 1..(i - 1) : E2[j].run = s /\ ~E2[j].deleted
    BY DEF EventsInOrder, Noted
  <2>1. /\ E2 \in Seq(RunNote)
        /\ Len(E1) <= Len(E2)
        /\ \A j \in DOMAIN E1 : E2[j] = E1[j]
        /\ \A j \in DOMAIN E2 : j > Len(E1) => E2[j] = n
        /\ "runs" \in closed => E2 = E1
    BY <1>1, <2>0 DEF Publishes, DeliveredTo
  <2>2. E2[i].run \in Run
    BY <2>1, NoteOfRun
  <2>3. CASE i \in DOMAIN E1
    <3>1. rows[E1[i].run].status # "absent"
      BY <1>1, <2>1, <2>3 DEF NotesAgree, NoteAgrees
    <3>2. Rivals(E1[i].run, s, w) /\ ~Before(E1[i].run, s)
      BY <1>6, <1>9, <2>1, <2>2, <2>3, <3>1
    <3>3. \/ Contains(Q1[w].backlog, s) \/ Noted(s, T1)
          \/ \E j \in 1..(i - 1) : E1[j].run = s /\ ~E1[j].deleted
      BY <1>1, <2>1, <2>3, <3>2 DEF Knows, EventsInOrder
    <3>4. \A j \in 1..(i - 1) : j \in DOMAIN E1
      BY <1>1, <2>3
    <3> QED BY <2>1, <2>3, <3>3, <3>4
  <2>4. CASE i \notin DOMAIN E1
    <3>1. "runs" \notin closed /\ i > Len(E1)
      BY <1>1, <2>1, <2>4
    <3>2. s # r /\ Waits(s, w)
      BY <1>8, <2>1, <3>1 DEF Rivals, Note
    <3>3. Contains(Q1[w].backlog, s) \/ Noted(s, T1) \/ Noted(s, E1)
      BY <3>1, <3>2, WaitingIsKnown
    <3>4. \A j \in DOMAIN E1 : j \in 1..(i - 1)
      BY <1>1, <2>1, <2>4
    <3> QED BY <2>1, <3>3, <3>4 DEF Noted
  <2> QED BY <2>3, <2>4
<1>14. ASSUME ("runs" \notin closed)'
      PROVE  NoneLost(Run, T1, Q1, runEvents)'
  <2> SUFFICES ASSUME NEW s \in Run, Needs(s)', ~Noted(s, T1), ~Noted(s, runEvents)'
               PROVE  /\ ~rows'[s].planOnly
                      /\ \/ Q1[rows'[s].workspace].current = s
                         \/ Contains(Q1[rows'[s].workspace].backlog, s)
    BY DEF NoneLost, Noted
  <2>1. "runs" \notin closed /\ Fits(E1, <<n>>)
    BY <1>1, <1>14 DEF Publishes
  <2>2. Noted(r, runEvents)'
    <3>1. PICK i \in DOMAIN runEvents' : runEvents'[i] = <<n>>[1]
      BY <1>1, <2>1 DEF Publishes, DeliveredTo
    <3> QED BY <3>1 DEF Noted, Note
  <2>3. s # r /\ rows'[s] = rows[s] /\ Needs(s)
    BY <1>3, <2>2 DEF Needs
  <2>4. ~Noted(s, E1)
    <3>1. /\ runEvents' \in Seq(RunNote) /\ Len(E1) <= Len(runEvents')
          /\ \A i \in DOMAIN E1 : runEvents'[i] = E1[i]
      BY <1>1 DEF Publishes, DeliveredTo
    <3> QED BY <1>1, <3>1 DEF Noted
  <2> QED BY <1>1, <2>1, <2>3, <2>4 DEF Knows, NoneLost
<1> QED BY <1>10, <1>11, <1>12, <1>13, <1>14 DEF Knows

\* The head c of the backlog may be promoted: no run of w is active, and no
\* run of w that waits was created before c.
LEMMA TurnIsRight ==
  ASSUME TypeOK, NEW p1, NEW T1, NEW Q1, NEW E1, Agrees(Run, p1, T1, Q1, E1), Running(p1),
         NEW w \in Workspace, Q1[w].current = Nobody, Q1[w].backlog # <<>>,
         NEW c, c = Head(Q1[w].backlog), rows[c].status = "pending"
  PROVE  /\ c \in Run /\ Waits(c, w)
         /\ \A s \in Run : ~Works(s, w)
         /\ \A s \in Run : Waits(s, w) /\ s # c => Before(c, s)
<1> DEFINE b == Q1[w].backlog
<1>1. Knows(Run, T1, Q1, E1) /\ QueuesAgree(Q1) /\ Q1[w] \in QueueType
  BY DEF Agrees, Typed
<1>2. b \in Seq(Run)
  BY <1>1 DEF QueueType
<1>3. 1 \in DOMAIN b /\ c = b[1] /\ c \in Run
  BY <1>2
<1>4. Waits(c, w)
  BY <1>1, <1>3 DEF QueuesAgree, MemberAgrees, Waits
<1>5. \A s \in Run : ~Works(s, w)
  BY <1>1, SchedulerAssumption DEF Knows, WorksIsCurrent, EmptyQueue
<1>6. InOrder(b, w)
  BY <1>1 DEF Knows, BacklogInOrder
<1>7. \A s \in Run : Waits(s, w) /\ s # c => Before(c, s)
  BY <1>3, <1>4, <1>6 DEF InOrder, Rivals
<1> QED BY <1>3, <1>4, <1>5, <1>7

LEMMA EnqueueKnows ==
  ASSUME TypeOK, TablesAgree, NEW p1, NEW T1, NEW Q1, NEW E1, Agrees(Run, p1, T1, Q1, E1), Running(p1),
         NEW w \in Workspace, Q1[w].current = Nobody, Q1[w].backlog # <<>>,
         NEW c, c = Head(Q1[w].backlog), rows[c].status = "pending",
         rows' = [rows EXCEPT ![c].status = "active"], created' = created,
         NEW Q2, Q2 = [Q1 EXCEPT ![w] = [current |-> c, backlog |-> Tail(Q1[w].backlog)]],
         NEW evs \in Seq(RunNote), Publishes(p1, T1, E1, evs)
  PROVE  Knows(Run, T1, Q2, runEvents)'
<1> DEFINE b == Q1[w].backlog
           t == Tail(b)
<1>1. /\ Knows(Run, T1, Q1, E1) /\ WatchingRuns
      /\ T1 \in Seq(RunNote) /\ Q1 \in [Workspace -> QueueType] /\ E1 \in Seq(RunNote)
      /\ QueuesAgree(Q1)
  BY DEF Agrees, Publishes, Typed
<1>2. /\ c \in Run /\ Waits(c, w)
      /\ \A s \in Run : ~Works(s, w)
      /\ \A s \in Run : Waits(s, w) /\ s # c => Before(c, s)
  BY TurnIsRight
<1>3. \A v \in Workspace : Q1[v].backlog \in Seq(Run)
  BY <1>1 DEF QueueType
<1>4. /\ Q2[w].current = c /\ Q2[w].backlog = t
      /\ \A v \in Workspace : v # w => Q2[v] = Q1[v]
  BY <1>1
<1>5. /\ b \in Seq(Run) /\ t \in Seq(Run) /\ c = b[1] /\ Len(t) = Len(b) - 1
      /\ \A i \in DOMAIN t : i + 1 \in DOMAIN b /\ t[i] = b[i + 1]
  BY <1>3
<1>6. /\ rows'[c].status = "active" /\ rows'[c].workspace = w /\ ~rows'[c].planOnly
      /\ \A s \in Run : s # c => rows'[s] = rows[s]
  BY <1>2 DEF TypeOK, Waits, Row
<1>7. \A r, s : Before(r, s)' <=> Before(r, s)
  BY DEF Before
<1>8. /\ \A s \in Run, v \in Workspace : Waits(s, v)' => s # c /\ Waits(s, v)
      /\ \A s \in Run, v \in Workspace : Works(s, v)' => (s = c /\ v = w) \/ (Works(s, v) /\ v # w)
  BY <1>2, <1>6 DEF Waits, Works
<1>9. \A a, s \in Run, v \in Workspace :
        Rivals(a, s, v)' => Rivals(a, s, v) /\ a # c /\ s # c
  BY <1>8 DEF Rivals
<1> HIDE DEF b, t
<1>10. \A v \in Workspace, s \in Run : Contains(Q1[v].backlog, s) /\ s # c => Contains(Q2[v].backlog, s)
  <2> SUFFICES ASSUME NEW s \in Run, s # c, Contains(b, s)
               PROVE  Contains(t, s)
    BY <1>4 DEF b
  <2>1. PICK i \in DOMAIN b : b[i] = s
    BY DEF Contains
  <2>2. i - 1 \in DOMAIN t /\ (i - 1) + 1 = i
    BY <1>5, <2>1
  <2>3. t[i - 1] = s
    BY <1>5, <2>1, <2>2
  <2> QED BY <1>5, <2>2, <2>3 DEF Contains
<1>11. WorksIsCurrent(T1, Q2)'
  BY <1>1, <1>4, <1>8 DEF Knows, WorksIsCurrent, ListedFirst
<1>12. BacklogInOrder(Q2)'
  <2>1. InOrder(t, w)'
    <3> SUFFICES ASSUME NEW s \in Run, NEW i \in DOMAIN t, Rivals(t[i], s, w)',
                        ~Before(t[i], s)
                 PROVE  \E j \in 1..(i - 1) : t[j] = s
      BY <1>7 DEF InOrder
    <3>1. t[i] \in Run
      BY <1>5
    <3>2. Rivals(b[i + 1], s, w) /\ s # c
      BY <1>5, <1>9, <3>1
    <3>3. PICK j \in 1..((i + 1) - 1) : b[j] = s
      BY <1>1, <1>5, <3>2 DEF Knows, BacklogInOrder, InOrder, b
    <3>4. j # 1
      BY <1>5, <3>2, <3>3
    <3>5. j - 1 \in 1..(i - 1) /\ j - 1 \in DOMAIN t /\ (j - 1) + 1 = j
      BY <1>5, <3>3, <3>4
    <3>6. t[j - 1] = s
      BY <1>5, <3>3, <3>5
    <3> QED BY <3>5, <3>6
  <2>2. ASSUME NEW v \in Workspace, v # w
        PROVE  InOrder(Q1[v].backlog, v)'
    <3>1. InOrder(Q1[v].backlog, v)
      BY <1>1 DEF Knows, BacklogInOrder
    <3> QED BY <1>3, <1>7, <1>9, <3>1 DEF InOrder
  <2> QED BY <1>4, <2>1, <2>2 DEF BacklogInOrder
<1>13. TodoInOrder(T1, Q2)'
  <2>1. \A i \in DOMAIN T1 : T1[i].run \in Run
    BY <1>1, NoteOfRun
  <2> QED BY <1>1, <1>7, <1>9, <1>10, <2>1 DEF Knows, TodoInOrder
<1>14. EventsInOrder(T1, Q2, runEvents)'
  <2>0. PICK E2 : E2 = runEvents'
    OBVIOUS
  <2> SUFFICES EventsInOrder(T1, Q2, E2)'
    BY <2>0
  <2> SUFFICES ASSUME NEW v \in Workspace, NEW s \in Run, NEW i \in DOMAIN E2,
                      ~E2[i].deleted, Rivals(E2[i].run, s, v)', ~Before(E2[i].run, s)
               PROVE  \/ Contains(Q2[v].backlog, s)
                      \/ Noted(s, T1)
                      \/ \E j \in 1..(i - 1) : E2[j].run = s /\ ~E2[j].deleted
    BY <1>7 DEF EventsInOrder, Noted
  <2>1. /\ E2 \in Seq(RunNote)
        /\ Len(E1) <= Len(E2)
        /\ \A j \in DOMAIN E1 : E2[j] = E1[j]
        /\ "runs" \in closed => E2 = E1
    BY <1>1, <2>0 DEF Publishes, DeliveredTo
  <2>2. E2[i].run \in Run
    BY <2>1, NoteOfRun
  <2>3. Rivals(E2[i].run, s, v) /\ s # c
    BY <1>9, <2>2
  <2>4. CASE i \in DOMAIN E1
    <3>1. \/ Contains(Q1[v].backlog, s) \/ Noted(s, T1)
          \/ \E j \in 1..(i - 1) : E1[j].run = s /\ ~E1[j].deleted
      BY <1>1, <2>1, <2>3, <2>4 DEF Knows, EventsInOrder
    <3>2. \A j \in 1..(i - 1) : j \in DOMAIN E1
      BY <1>1, <2>4
    <3> QED BY <1>10, <2>1, <2>3, <2>4, <3>1, <3>2
  <2>5. CASE i \notin DOMAIN E1
    <3>1. "runs" \notin closed
      BY <2>1, <2>5
    <3>2. Waits(s, v)
      BY <2>3 DEF Rivals
    <3>3. Contains(Q1[v].backlog, s) \/ Noted(s, T1) \/ Noted(s, E1)
      BY <3>1, <3>2, WaitingIsKnown
    <3>4. \A j \in DOMAIN E1 : j \in 1..(i - 1)
      BY <1>1, <2>1, <2>5
    <3> QED BY <1>10, <2>1, <2>3, <3>3, <3>4 DEF Noted
  <2> QED BY <2>4, <2>5
<1>15. ASSUME ("runs" \notin closed)'
      PROVE  NoneLost(Run, T1, Q2, runEvents)'
  <2> SUFFICES ASSUME NEW s \in Run, Needs(s)', ~Noted(s, T1), ~Noted(s, runEvents)'
               PROVE  /\ ~rows'[s].planOnly
                      /\ \/ Q2[rows'[s].workspace].current = s
                         \/ Contains(Q2[rows'[s].workspace].backlog, s)
    BY DEF NoneLost, Noted
  <2>1. CASE s = c
    BY <1>4, <1>6, <2>1
  <2>2. CASE s # c
    <3>1. "runs" \notin closed /\ rows'[s] = rows[s] /\ Needs(s)
      BY <1>1, <1>6, <1>15, <2>2 DEF Publishes, Needs
    <3>2. ~Noted(s, E1)
      <4>1. /\ runEvents' \in Seq(RunNote) /\ Len(E1) <= Len(runEvents')
            /\ \A i \in DOMAIN E1 : runEvents'[i] = E1[i]
        BY <1>1 DEF Publishes, DeliveredTo
      <4> QED BY <1>1, <4>1 DEF Noted
    <3>3. /\ ~rows[s].planOnly
          /\ \/ Q1[rows[s].workspace].current = s
             \/ Contains(Q1[rows[s].workspace].backlog, s)
      BY <1>1, <3>1, <3>2 DEF Knows, NoneLost
    <3>4. rows[s].workspace \in Workspace
      BY <3>1 DEF TypeOK, TablesAgree, RowsAgree, Exists, Needs, Scheduled, Gone
    <3>5. Q1[rows[s].workspace].current = s => rows[s].workspace # w
      BY SchedulerAssumption
    <3> QED BY <1>4, <1>10, <2>2, <3>1, <3>3, <3>4, <3>5
  <2> QED BY <2>1, <2>2
<1> QED BY <1>11, <1>12, <1>13, <1>14, <1>15 DEF Knows

-----------------------------------------------------------------------------
(* The operations on the database *)

DbTyped ==
  /\ rows \in [Run -> Row]
  /\ lock \in [Workspace -> Run \cup User \cup {Nobody}]
  /\ workspaces \subseteq Workspace
  /\ created \in Seq(Run)

DbAgrees == DbTyped /\ TablesAgree /\ OneWorks /\ WorksFirst

LEMMA WaneTables ==
  ASSUME DbAgrees, NEW X \in SUBSET Run, Wanes(X),
         \A r \in Run : rows'[r].status = "absent" <=> rows[r].status = "absent"
  PROVE  (CreatedOnce /\ CreatedExist /\ OneWorks /\ WorksFirst)'
<1>1. \A r, s \in Run : Before(r, s)' <=> Before(r, s)
  BY DEF Before, Wanes
<1>2. (CreatedOnce /\ CreatedExist)'
  BY DEF DbAgrees, TablesAgree, CreatedOnce, CreatedExist, Wanes
<1>3. OneWorks'
  BY DEF DbAgrees, OneWorks, Wanes
<1>4. WorksFirst'
  BY <1>1 DEF DbAgrees, WorksFirst, Wanes
<1> QED BY <1>2, <1>3, <1>4

LEMMA InsertRunAgrees ==
  ASSUME DbAgrees, NEW r \in Run, NEW w \in Workspace, NEW planOnly \in BOOLEAN,
         InsertRun(r, w, planOnly), created' = Append(created, r)
  PROVE  DbAgrees' /\ RowsMoveOn /\ NoteAgrees(Note(r, rows[r]))' /\ workspaces' = workspaces
<1> USE DEF DbAgrees, DbTyped
<1>1. /\ rows' \in [Run -> Row] /\ created' \in Seq(Run)
      /\ lock' = lock /\ workspaces' = workspaces
      /\ rows'[r] = [status |-> "pending", planOnly |-> planOnly, workspace |-> w]
      /\ w \in workspaces /\ rows[r].status = "absent"
      /\ \A s \in Run : s # r => rows'[s] = rows[s]
  BY DEF InsertRun, Row, Status
<1>2. /\ Len(created') = Len(created) + 1 /\ created'[Len(created) + 1] = r
      /\ \A i \in DOMAIN created : i \in DOMAIN created' /\ created'[i] = created[i]
      /\ \A i \in DOMAIN created' : i \in DOMAIN created \/ i = Len(created) + 1
  OBVIOUS
<1>3. \A i \in DOMAIN created : created[i] # r
  BY <1>1 DEF TablesAgree, CreatedExist
<1>4. CreatedOnce'
  BY <1>2, <1>3 DEF TablesAgree, CreatedOnce
<1>5. CreatedExist'
  <2> SUFFICES ASSUME NEW s \in Run
               PROVE  rows'[s].status # "absent" <=>
                        \E i \in DOMAIN created' : created'[i] = s
    BY DEF CreatedExist
  <2>1. CASE s = r
    <3>1. Len(created) + 1 \in DOMAIN created'
      BY <1>1, <1>2
    <3> QED BY <1>1, <1>2, <2>1, <3>1
  <2>2. CASE s # r
    BY <1>1, <1>2, <2>2 DEF TablesAgree, CreatedExist
  <2> QED BY <2>1, <2>2
<1>6. RowsAgree'
  BY <1>1 DEF TablesAgree, RowsAgree, Exists
<1>7. LocksAgree'
  BY <1>1 DEF TablesAgree, LocksAgree, Exists, Gone
<1>8. /\ \A s \in Run, v \in Workspace : Works(s, v)' => Works(s, v)
      /\ \A s \in Run, v \in Workspace : Waits(s, v)' => s = r \/ Waits(s, v)
  BY <1>1 DEF Works, Waits
<1>9. OneWorks'
  BY <1>8 DEF OneWorks
<1>10. WorksFirst'
  <2> SUFFICES ASSUME NEW a \in Run, NEW s \in Run, NEW v \in Workspace,
                      Works(a, v)', Waits(s, v)'
               PROVE  Before(a, s)'
    BY DEF WorksFirst
  <2>1. Works(a, v)
    BY <1>8
  <2>2. CASE s = r
    <3>1. PICK i \in DOMAIN created : created[i] = a
      BY <2>1 DEF TablesAgree, CreatedExist, Works
    <3>2. Len(created) + 1 \in DOMAIN created' /\ i < Len(created) + 1
      BY <1>1, <1>2
    <3> QED BY <1>2, <2>2, <3>1, <3>2 DEF Before
  <2>3. CASE s # r
    <3>1. Before(a, s)
      BY <1>8, <2>1, <2>3 DEF WorksFirst
    <3> QED BY <1>2, <3>1 DEF Before
  <2> QED BY <2>2, <2>3
<1>11. RowsMoveOn
  BY <1>1 DEF RowsMoveOn
<1>12. NoteAgrees(Note(r, rows[r]))'
  BY <1>1 DEF NoteAgrees, Note, Gone, Done
<1> QED BY <1>1, <1>4, <1>5, <1>6, <1>7, <1>9, <1>10, <1>11, <1>12 DEF TablesAgree

LEMMA UpdateStatusAgrees ==
  ASSUME DbAgrees, NEW r \in Run, NEW to \in Status, to # "cost_estimated",
         UpdateStatus(r, to), created' = created
  PROVE  /\ DbAgrees' /\ RowsMoveOn /\ Wanes(Run)
         /\ NoteAgrees(Note(r, rows[r]))' /\ workspaces' = workspaces
<1> USE DEF DbAgrees, DbTyped
<1>1. /\ rows' = [rows EXCEPT ![r].status = to]
      /\ lock' = lock /\ workspaces' = workspaces
      /\ to \in Moves(rows[r].status)
  BY DEF UpdateStatus
<1>2. /\ rows' \in [Run -> Row]
      /\ rows'[r].status = to /\ rows'[r].planOnly = rows[r].planOnly
      /\ rows'[r].workspace = rows[r].workspace
      /\ \A s \in Run : s # r => rows'[s] = rows[s]
  BY <1>1 DEF Row
<1>3. /\ rows[r].status \notin Gone /\ rows[r].status # "cost_estimated"
      /\ \/ to = "active" /\ rows[r].status = "active"
         \/ to \in Done
  BY <1>1 DEF Moves, Scheduled, Done, Gone, TablesAgree, RowsAgree
<1>4. rows'[r].workspace \in workspaces
  BY <1>2, <1>3 DEF TablesAgree, RowsAgree, Exists
<1>5. RowsMoveOn
  BY <1>2, <1>3 DEF RowsMoveOn, Done, Gone
<1>6. Wanes(Run)
  BY <1>2, <1>3 DEF Wanes, Needs, Waits, Works, Done, Scheduled
<1>7. \A s \in Run : rows'[s].status = "absent" <=> rows[s].status = "absent"
  BY <1>2, <1>3 DEF Gone, Done
<1>8. (CreatedOnce /\ CreatedExist /\ OneWorks /\ WorksFirst)'
  BY <1>6, <1>7, WaneTables
<1>9. (RowsAgree /\ LocksAgree)'
  BY <1>1, <1>2, <1>3, <1>4 DEF TablesAgree, RowsAgree, LocksAgree, Exists, Gone, Done
<1>10. NoteAgrees(Note(r, rows[r]))'
  BY <1>2, <1>3, <1>4 DEF NoteAgrees, Note, Gone, Done
<1> QED BY <1>1, <1>2, <1>5, <1>6, <1>8, <1>9, <1>10 DEF TablesAgree

\* A step that leaves the rows alone, or a copy of a row that exists.
LEMMA TouchAgrees ==
  ASSUME DbAgrees, UNCHANGED <<rows, workspaces, created>>
  PROVE  /\ RowsMoveOn /\ Wanes(Run)
         /\ (CreatedOnce /\ CreatedExist /\ OneWorks /\ WorksFirst /\ RowsAgree)'
         /\ \A r \in Run : Exists(r) => NoteAgrees(Note(r, rows[r]))'
<1> USE DEF DbAgrees, DbTyped
<1>1. RowsMoveOn
  BY DEF RowsMoveOn
<1>2. Wanes(Run)
  BY DEF Wanes, Needs, Waits, Works
<1>3. (CreatedOnce /\ CreatedExist /\ OneWorks /\ WorksFirst)'
  BY <1>2, WaneTables
<1>4. RowsAgree'
  BY DEF TablesAgree, RowsAgree, Exists
<1>5. \A r \in Run : Exists(r) => NoteAgrees(Note(r, rows[r]))'
  BY DEF NoteAgrees, Note, Exists, Gone, Done, TablesAgree, RowsAgree
<1> QED BY <1>1, <1>2, <1>3, <1>4, <1>5

LEMMA DeleteRunAgrees ==
  ASSUME DbAgrees, NEW r \in Run, DeleteRun(r), created' = created
  PROVE  DbAgrees' /\ RowsMoveOn /\ Wanes(Run) /\ workspaces' = workspaces
<1> USE DEF DbAgrees, DbTyped
<1>1. /\ rows' = [rows EXCEPT ![r] = NoRow("deleted")]
      /\ lock' = [w \in Workspace |-> IF lock[w] = r THEN Nobody ELSE lock[w]]
      /\ workspaces' = workspaces /\ rows[r].status \notin Gone
  BY DEF DeleteRun, Exists
<1>2. /\ rows' \in [Run -> Row]
      /\ rows'[r].status = "deleted"
      /\ \A s \in Run : s # r => rows'[s] = rows[s]
  BY <1>1 DEF Row, NoRow, Status, Gone
<1>3. lock' \in [Workspace -> Run \cup User \cup {Nobody}]
  BY <1>1
<1>4. RowsMoveOn
  BY <1>2 DEF RowsMoveOn, Gone
<1>5. Wanes(Run)
  BY <1>2 DEF Wanes, Needs, Waits, Works, Scheduled
<1>6. \A s \in Run : rows'[s].status = "absent" <=> rows[s].status = "absent"
  BY <1>1, <1>2 DEF Gone
<1>7. (CreatedOnce /\ CreatedExist /\ OneWorks /\ WorksFirst)'
  BY <1>5, <1>6, WaneTables
<1>8. RowsAgree'
  BY <1>1, <1>2 DEF TablesAgree, RowsAgree, Exists, Gone
<1>9. LocksAgree'
  <2> SUFFICES ASSUME NEW w \in Workspace, NEW s \in Run, lock'[w] = s
               PROVE  rows'[s].status \notin Gone /\ rows'[s].workspace = w /\ ~rows'[s].planOnly
    BY DEF LocksAgree, Exists
  <2>1. lock[w] = s /\ s # r
    BY <1>1, SchedulerAssumption
  <2> QED BY <1>2, <2>1 DEF TablesAgree, LocksAgree, Exists
<1> QED BY <1>1, <1>2, <1>3, <1>4, <1>5, <1>7, <1>8, <1>9 DEF TablesAgree

LEMMA DeleteWorkspaceAgrees ==
  ASSUME DbAgrees, NEW w \in Workspace, DeleteWorkspace(w), created' = created
  PROVE  DbAgrees' /\ RowsMoveOn /\ Wanes(Run) /\ workspaces' = workspaces \ {w}
<1> USE DEF DbAgrees, DbTyped
<1>1. /\ workspaces' = workspaces \ {w}
      /\ rows' = [r \in Run |-> IF r \in RunsOf(w) THEN NoRow("deleted") ELSE rows[r]]
      /\ lock' = [lock EXCEPT ![w] = Nobody]
  BY DEF DeleteWorkspace
<1>2. \A r \in Run :
        \/ rows'[r].status = "deleted" /\ rows[r].status \notin Gone /\ rows[r].workspace = w
        \/ /\ rows'[r] = rows[r]
           /\ rows[r].status \notin Gone => rows[r].workspace # w
  BY <1>1 DEF NoRow, RunsOf, Exists
<1>3. rows' \in [Run -> Row]
  <2>1. NoRow("deleted") \in Row
    BY DEF NoRow, Row, Status, Gone
  <2> QED BY <1>1, <2>1
<1>4. lock' \in [Workspace -> Run \cup User \cup {Nobody}]
  BY <1>1
<1>5. RowsMoveOn
  BY <1>2 DEF RowsMoveOn, Gone
<1>6. Wanes(Run)
  BY <1>2 DEF Wanes, Needs, Waits, Works, Scheduled
<1>7. \A s \in Run : rows'[s].status = "absent" <=> rows[s].status = "absent"
  BY <1>2 DEF Gone
<1>8. (CreatedOnce /\ CreatedExist /\ OneWorks /\ WorksFirst)'
  BY <1>6, <1>7, WaneTables
<1>9. RowsAgree'
  BY <1>1, <1>2 DEF TablesAgree, RowsAgree, Exists, Gone
<1>10. LocksAgree'
  <2> SUFFICES ASSUME NEW v \in Workspace, NEW s \in Run, lock'[v] = s
               PROVE  rows'[s].status \notin Gone /\ rows'[s].workspace = v /\ ~rows'[s].planOnly
    BY DEF LocksAgree, Exists
  <2>1. lock[v] = s /\ v # w
    BY <1>1, SchedulerAssumption
  <2> QED BY <1>2, <2>1 DEF TablesAgree, LocksAgree, Exists
<1> QED BY <1>1, <1>3, <1>4, <1>5, <1>6, <1>8, <1>9, <1>10 DEF TablesAgree

LEMMA LockByUserAgrees ==
  ASSUME DbAgrees, NEW w \in Workspace, NEW u \in User, LockByUser(w, u), created' = created
  PROVE  DbAgrees' /\ RowsMoveOn /\ Wanes(Run) /\ workspaces' = workspaces /\ rows' = rows
<1> USE DEF DbAgrees, DbTyped
<1>1. lock' = [lock EXCEPT ![w] = u] /\ UNCHANGED <<rows, workspaces, created>>
  BY DEF LockByUser
<1>2. LocksAgree'
  BY <1>1, SchedulerAssumption DEF TablesAgree, LocksAgree, Exists
<1> QED BY <1>1, <1>2, TouchAgrees DEF TablesAgree

LEMMA UnlockAgrees ==
  ASSUME DbAgrees, NEW w \in Workspace, NEW who, NEW force, Unlock(w, who, force),
         created' = created
  PROVE  DbAgrees' /\ RowsMoveOn /\ Wanes(Run) /\ workspaces' = workspaces /\ rows' = rows
<1> USE DEF DbAgrees, DbTyped
<1>1. lock' = [lock EXCEPT ![w] = Nobody] /\ UNCHANGED <<rows, workspaces, created>>
  BY DEF Unlock
<1>2. LocksAgree'
  BY <1>1, SchedulerAssumption DEF TablesAgree, LocksAgree, Exists
<1> QED BY <1>1, <1>2, TouchAgrees DEF TablesAgree

LEMMA UnchangedAgrees ==
  ASSUME DbAgrees, UNCHANGED <<dbVars, created>>
  PROVE  DbAgrees' /\ RowsMoveOn /\ Wanes(Run) /\ workspaces' = workspaces /\ rows' = rows
<1>1. LocksAgree'
  BY DEF DbAgrees, TablesAgree, LocksAgree, Exists, dbVars
<1> QED BY <1>1, TouchAgrees DEF TablesAgree, DbAgrees, DbTyped, dbVars

\* A run that waits for its turn gets it, if it is its turn.
LEMMA EnqueuePlanAgrees ==
  ASSUME DbAgrees, NEW c \in Run, EnqueuePlan(c), created' = created,
         ~rows[c].planOnly =>
           /\ \A s \in Run : ~Works(s, rows[c].workspace)
           /\ \A s \in Run : Waits(s, rows[c].workspace) /\ s # c => Before(c, s)
  PROVE  /\ DbAgrees' /\ RowsMoveOn /\ workspaces' = workspaces
         /\ NoteAgrees(Note(c, rows[c]))'
         /\ rows[c].planOnly => Wanes(Run \ {c})
         /\ rows' = [rows EXCEPT ![c].status = "active"]
<1> USE DEF DbAgrees, DbTyped
<1> DEFINE w == rows[c].workspace
<1>1. /\ rows' = [rows EXCEPT ![c].status = "active"] /\ workspaces' = workspaces
      /\ rows[c].status = "pending"
      /\ IF rows[c].planOnly THEN lock' = lock ELSE lock' = [lock EXCEPT ![w] = c]
  BY DEF EnqueuePlan
<1>2. /\ rows' \in [Run -> Row]
      /\ rows'[c].status = "active" /\ rows'[c].planOnly = rows[c].planOnly
      /\ rows'[c].workspace = w
      /\ \A s \in Run : s # c => rows'[s] = rows[s]
  BY <1>1 DEF Row, Status, Scheduled
<1>3. w \in workspaces /\ w \in Workspace
  BY <1>1 DEF TablesAgree, RowsAgree, Exists, Gone
<1>4. lock' \in [Workspace -> Run \cup User \cup {Nobody}]
  BY <1>1
<1>5. RowsMoveOn
  BY <1>1, <1>2 DEF RowsMoveOn, Done
<1>6. rows[c].planOnly => Wanes(Run \ {c})
  BY <1>1, <1>2 DEF Wanes, Needs, Waits, Works, Scheduled
<1>7. \A r, s \in Run : Before(r, s)' <=> Before(r, s)
  BY DEF Before
<1>8. (CreatedOnce /\ CreatedExist)'
  BY <1>1, <1>2 DEF TablesAgree, CreatedOnce, CreatedExist
<1>9. (OneWorks /\ WorksFirst)'
  <2>1. \A s \in Run, v \in Workspace : Waits(s, v)' => s # c /\ Waits(s, v)
    BY <1>2 DEF Waits
  <2>2. \A s \in Run, v \in Workspace :
          Works(s, v)' => Works(s, v) \/ (s = c /\ v = w /\ ~rows[c].planOnly)
    BY <1>2 DEF Works
  <2> QED BY <1>7, <2>1, <2>2 DEF OneWorks, WorksFirst
<1>10. (RowsAgree /\ LocksAgree)'
  <2>1. RowsAgree'
    BY <1>1, <1>2, <1>3 DEF TablesAgree, RowsAgree, Exists, Gone
  <2>2. LocksAgree'
    <3> SUFFICES ASSUME NEW v \in Workspace, NEW s \in Run, lock'[v] = s
                 PROVE  rows'[s].status \notin Gone /\ rows'[s].workspace = v /\ ~rows'[s].planOnly
      BY DEF LocksAgree, Exists
    <3>1. (s = c /\ v = w /\ ~rows[c].planOnly) \/ lock[v] = s
      BY <1>1
    <3> QED BY <1>1, <1>2, <3>1 DEF TablesAgree, LocksAgree, Exists, Gone
  <2> QED BY <2>1, <2>2
<1>11. NoteAgrees(Note(c, rows[c]))'
  BY <1>2, <1>3 DEF NoteAgrees, Note, Gone, Done
<1> QED BY <1>1, <1>2, <1>4, <1>5, <1>6, <1>8, <1>9, <1>10, <1>11 DEF TablesAgree

-----------------------------------------------------------------------------
(* The invariant after a step *)

Stages == {"down", "watching", "listing", "seeding", "ready"}

\* The parts of the invariant that a step has to establish.
LEMMA Assemble ==
  ASSUME IInv, DbAgrees', workspaces' \subseteq workspaces,
         pc' \in Stages, reminders' \subseteq Run, crashes' \in 0..MaxCrashes,
         Typed(todo, queues, runEvents)', Progress(pc, todo, queues)',
         NotesAgree(todo)', NotesAgree(runEvents)', QueuesAgree(queues)',
         Running(pc)' => Knows(Run, todo, queues, runEvents)',
         wsEvents' \in Seq(WsNote), Len(wsEvents') <= BufferSize, WsNotesAgree(wsEvents)',
         closed' \subseteq {"runs", "workspaces"}
  PROVE  IInv'
BY DEF IInv, TypeOK, DbAgrees, DbTyped, Agrees, Typed, QueueType, Stages

LEMMA WsMovesOn ==
  ASSUME workspaces' \subseteq workspaces,
         NEW W1 \in Seq(WsNote), WsNotesAgree(W1),
         NEW wevs \in Seq(WsNote), WsNotesAgree(wevs)',
         DeliveredTo(W1, wevs, WatchingWorkspaces, "workspaces" \in closed, wsEvents')
  PROVE  WsNotesAgree(wsEvents)'
<1> SUFFICES ASSUME NEW i \in DOMAIN wsEvents', wsEvents'[i].deleted
             PROVE  wsEvents'[i].workspace \notin workspaces'
  BY DEF WsNotesAgree
<1>1. \/ \E k \in DOMAIN W1 : wsEvents'[i] = W1[k]
      \/ \E k \in DOMAIN wevs : wsEvents'[i] = wevs[k]
  BY DEF DeliveredTo
<1>2. \A k \in DOMAIN W1 : W1[k].deleted => W1[k].workspace \notin workspaces'
  BY DEF WsNotesAgree
<1>3. \A k \in DOMAIN wevs : wevs[k].deleted => wevs[k].workspace \notin workspaces'
  BY DEF WsNotesAgree
<1> QED BY <1>1, <1>2, <1>3

\* A step in which, after the agreement of p1, T1, Q1 and E1, the rows wane
\* and events are published.
LEMMA WaningStep ==
  ASSUME IInv, DbAgrees', RowsMoveOn, workspaces' \subseteq workspaces,
         NEW X \in SUBSET Run, Running(pc) => Wanes(X),
         NEW p1 \in Stages, NEW T1, NEW Q1, NEW E1, Agrees(X, p1, T1, Q1, E1),
         Running(p1) => Running(pc),
         pc' = p1, todo' = T1, queues' = Q1,
         NEW W1 \in Seq(WsNote), Len(W1) <= BufferSize, WsNotesAgree(W1),
         NEW evs \in Seq(RunNote), \A k \in DOMAIN evs : NoteAgrees(evs[k])',
         NEW wevs \in Seq(WsNote), WsNotesAgree(wevs)',
         Publish(E1, W1, evs, wevs),
         reminders' \subseteq Run, crashes' \in 0..MaxCrashes
  PROVE  IInv'
<1>1. TypeOK /\ rows' \in [Run -> Row]
  BY DEF IInv, DbAgrees, DbTyped
<1>2. Settled(p1, T1, Q1, E1) /\ E1 \in Seq(RunNote) /\ Len(E1) <= BufferSize
  BY DEF Agrees, Settled, Typed
<1>3. Publishes(p1, T1, E1, evs)
  BY <1>1, <1>2, PublishProperties DEF Publishes, Running, WatchingRuns
<1>4. /\ NotesAgree(T1)' /\ NotesAgree(runEvents)' /\ QueuesAgree(Q1)'
      /\ Typed(todo, Q1, runEvents)' /\ Progress(p1, T1, Q1)'
  BY <1>1, <1>2, <1>3, SettledMovesOn
<1>5. Running(p1) => Knows(Run, T1, Q1, runEvents)'
  BY <1>3, WaneKnows
<1>6. /\ wsEvents' \in Seq(WsNote) /\ Len(wsEvents') <= BufferSize
      /\ DeliveredTo(W1, wevs, WatchingWorkspaces, "workspaces" \in closed, wsEvents')
      /\ closed' \subseteq {"runs", "workspaces"}
  BY <1>1, <1>2, PublishProperties
<1>7. WsNotesAgree(wsEvents)'
  BY <1>6, WsMovesOn
<1>8. /\ Typed(todo, queues, runEvents)' /\ Progress(pc, todo, queues)'
      /\ NotesAgree(todo)' /\ QueuesAgree(queues)'
      /\ Running(pc)' => Knows(Run, todo, queues, runEvents)'
  BY <1>4, <1>5 DEF Typed, Progress, NotesAgree, QueuesAgree, Running, Knows
<1> QED BY <1>4, <1>6, <1>7, <1>8, Assemble

-----------------------------------------------------------------------------
(* The steps of the other processes *)

LEMMA DbAgreesNow ==
  ASSUME IInv
  PROVE  DbAgrees /\ TypeOK /\ Agrees(Run, pc, todo, queues, runEvents)
BY DEF IInv, DbAgrees, DbTyped, TypeOK

\* A step of another process: rows wane, and the scheduler does not move.
LEMMA OtherStep ==
  ASSUME IInv, DbAgrees', RowsMoveOn, Wanes(Run), workspaces' \subseteq workspaces,
         UNCHANGED schedVars,
         NEW evs \in Seq(RunNote), \A k \in DOMAIN evs : NoteAgrees(evs[k])',
         NEW wevs \in Seq(WsNote), WsNotesAgree(wevs)',
         Emit(evs, wevs),
         reminders' \subseteq Run, crashes' = crashes
  PROVE  IInv'
<1>1. PICK p1, T1, Q1, E1, W1 :
        p1 = pc /\ T1 = todo /\ Q1 = queues /\ E1 = runEvents /\ W1 = wsEvents
  OBVIOUS
<1>2. /\ Agrees(Run, p1, T1, Q1, E1) /\ p1 \in Stages
      /\ W1 \in Seq(WsNote) /\ Len(W1) <= BufferSize /\ WsNotesAgree(W1)
  BY <1>1 DEF IInv, TypeOK, Stages
<1>3. pc' = p1 /\ todo' = T1 /\ queues' = Q1 /\ Publish(E1, W1, evs, wevs)
  BY <1>1 DEF schedVars, Emit
<1>4. crashes' \in 0..MaxCrashes /\ (Running(p1) => Running(pc))
  BY <1>1 DEF IInv, TypeOK
<1>5. Run \in SUBSET Run
  OBVIOUS
<1> QED BY <1>2, <1>3, <1>4, <1>5, WaningStep

LEMMA WsChangedNote ==
  ASSUME NEW w \in Workspace, NEW wevs, wevs = WsChanged(w)
  PROVE  wevs \in Seq(WsNote) /\ WsNotesAgree(wevs)'
<1>1. PICK n : n = [workspace |-> w, deleted |-> FALSE]
  OBVIOUS
<1>2. wevs = <<n>> \/ wevs = <<>>
  BY <1>1 DEF WsChanged
<1>3. n \in WsNote /\ ~n.deleted
  BY <1>1 DEF WsNote
<1>4. CASE wevs = <<n>>
  BY <1>3, <1>4 DEF WsNotesAgree
<1>5. CASE wevs = <<>>
  BY <1>5 DEF WsNotesAgree
<1> QED BY <1>2, <1>4, <1>5

LEMMA RunChangedNote ==
  ASSUME rows' \in [Run -> Row], NEW r \in Run, NoteAgrees(Note(r, rows[r]))',
         NEW evs, evs = RunChanged(r)
  PROVE  evs \in Seq(RunNote) /\ \A k \in DOMAIN evs : NoteAgrees(evs[k])'
<1>1. PICK n : n = Note(r, rows'[r])
  OBVIOUS
<1>2. n \in RunNote
  BY <1>1 DEF Note, RunNote
<1>3. NoteAgrees(n)'
  BY <1>1 DEF NoteAgrees, Note
<1>4. evs = <<n>>
  BY <1>1 DEF RunChanged
<1> QED BY <1>2, <1>3, <1>4

LEMMA NoNote == /\ <<>> \in Seq(RunNote) /\ <<>> \in Seq(WsNote)
                /\ \A k \in DOMAIN <<>> : FALSE
                /\ WsNotesAgree(<<>>)
BY DEF WsNotesAgree

LEMMA UpdateRunInv ==
  ASSUME ~CostEstimation, IInv, NEW r \in Run, NEW to \in Status, UpdateRun(r, to)
  PROVE  IInv'
<1>1. /\ UpdateStatus(r, to) /\ created' = created /\ to # "cost_estimated"
      /\ UNCHANGED schedVars /\ reminders' = reminders /\ crashes' = crashes
      /\ Emit(RunChanged(r), <<>>)
  BY DEF UpdateRun
<1>2. /\ DbAgrees' /\ RowsMoveOn /\ Wanes(Run)
      /\ NoteAgrees(Note(r, rows[r]))' /\ workspaces' = workspaces
  BY <1>1, DbAgreesNow, UpdateStatusAgrees
<1>3. PICK evs : evs = RunChanged(r)
  OBVIOUS
<1>4. evs \in Seq(RunNote) /\ \A k \in DOMAIN evs : NoteAgrees(evs[k])'
  BY <1>2, <1>3, RunChangedNote DEF DbAgrees, DbTyped
<1>5. reminders' \subseteq Run /\ Emit(evs, <<>>) /\ WsNotesAgree(<<>>)'
  BY <1>1, <1>3 DEF IInv, TypeOK, WsNotesAgree
<1> QED BY <1>1, <1>2, <1>4, <1>5, NoNote, OtherStep

\* A step that touches the row of r and changes none.
LEMMA TouchInv ==
  ASSUME IInv, NEW r \in Run, UNCHANGED <<dbVars, created, schedVars, crashes>>,
         reminders' \subseteq Run,
         \/ Exists(r) /\ Emit(RunChanged(r), <<>>)
         \/ Emit(<<>>, <<>>)
  PROVE  IInv'
<1>1. DbAgrees' /\ RowsMoveOn /\ Wanes(Run) /\ workspaces' = workspaces
  BY DbAgreesNow, UnchangedAgrees
<1>2. crashes' = crashes /\ UNCHANGED schedVars /\ WsNotesAgree(<<>>)'
  BY DEF WsNotesAgree
<1>3. CASE Exists(r) /\ Emit(RunChanged(r), <<>>)
  <2>1. NoteAgrees(Note(r, rows[r]))'
    BY <1>3, DbAgreesNow, TouchAgrees DEF dbVars
  <2>2. PICK evs : evs = RunChanged(r)
    OBVIOUS
  <2>3. evs \in Seq(RunNote) /\ \A k \in DOMAIN evs : NoteAgrees(evs[k])'
    BY <1>1, <2>1, <2>2, RunChangedNote DEF DbAgrees, DbTyped
  <2>4. Emit(evs, <<>>)
    BY <1>3, <2>2
  <2> QED BY <1>1, <1>2, <2>3, <2>4, NoNote, OtherStep
<1>4. CASE Emit(<<>>, <<>>)
  <2>1. PICK evs : evs = <<>>
    OBVIOUS
  <2>2. /\ evs \in Seq(RunNote) /\ \A k \in DOMAIN evs : NoteAgrees(evs[k])'
        /\ Emit(evs, <<>>)
    BY <1>4, <2>1
  <2> QED BY <1>1, <1>2, <2>2, NoNote, OtherStep
<1> QED BY <1>3, <1>4

LEMMA SignalInv ==
  ASSUME IInv, NEW r \in Run, SignalRun(r) \/ TriggerEvent(r)
  PROVE  IInv'
<1>1. UNCHANGED <<dbVars, created, schedVars, crashes>> /\ reminders' \subseteq Run
  BY DEF SignalRun, TriggerEvent, IInv, TypeOK
<1>2. \/ Exists(r) /\ Emit(RunChanged(r), <<>>)
      \/ Emit(<<>>, <<>>)
  BY DEF SignalRun, TriggerEvent, Exists, Gone
<1> QED BY <1>1, <1>2, TouchInv

LEMMA RemoveRunInv ==
  ASSUME IInv, NEW r \in Run, RemoveRun(r)
  PROVE  IInv'
<1>1. /\ DeleteRun(r) /\ created' = created
      /\ UNCHANGED schedVars /\ reminders' = reminders /\ crashes' = crashes
      /\ Emit(<<DeletedNote(r)>>, IF lock' = lock THEN <<>> ELSE WsChanged(rows[r].workspace))
  BY DEF RemoveRun
<1>2. DbAgrees' /\ RowsMoveOn /\ Wanes(Run) /\ workspaces' = workspaces
  BY <1>1, DbAgreesNow, DeleteRunAgrees
<1>3. rows[r].workspace \in Workspace
  BY <1>1, DbAgreesNow DEF DeleteRun, DbAgrees, DbTyped, TablesAgree, RowsAgree
<1>4. PICK evs : evs = <<DeletedNote(r)>>
  OBVIOUS
<1>5. PICK wevs : wevs = IF lock' = lock THEN <<>> ELSE WsChanged(rows[r].workspace)
  OBVIOUS
<1>6. DeletedNote(r) \in RunNote /\ DeletedNote(r).deleted
  BY DEF DeletedNote, RunNote, IInv, TypeOK
<1>7. evs \in Seq(RunNote) /\ \A k \in DOMAIN evs : NoteAgrees(evs[k])'
  BY <1>4, <1>6 DEF NoteAgrees
<1>8. wevs \in Seq(WsNote) /\ WsNotesAgree(wevs)'
  <2>1. CASE lock' = lock
    BY <1>5, <2>1 DEF WsNotesAgree
  <2>2. CASE lock' # lock
    BY <1>3, <1>5, <2>2, WsChangedNote
  <2> QED BY <2>1, <2>2
<1>9. reminders' \subseteq Run /\ Emit(evs, wevs)
  BY <1>1, <1>4, <1>5 DEF IInv, TypeOK
<1> QED BY <1>1, <1>2, <1>7, <1>8, <1>9, OtherStep

LEMMA RemoveWorkspaceInv ==
  ASSUME IInv, NEW w \in Workspace, RemoveWorkspace(w)
  PROVE  IInv'
<1>1. /\ DeleteWorkspace(w) /\ created' = created
      /\ UNCHANGED schedVars /\ reminders' = reminders /\ crashes' = crashes
  BY DEF RemoveWorkspace
<1>2. /\ DbAgrees' /\ RowsMoveOn /\ Wanes(Run) /\ workspaces' = workspaces \ {w}
  BY <1>1, DbAgreesNow, DeleteWorkspaceAgrees
<1>3. PICK n \in 0..Len(created) : \E g \in [1..n -> RunsOf(w)] :
        Emit([i \in 1..n |-> DeletedNote(g[i])], <<[workspace |-> w, deleted |-> TRUE]>>)
  BY DEF RemoveWorkspace
<1> n \in Nat
  BY DEF IInv, TypeOK
<1> PICK gone \in [1..n -> RunsOf(w)] :
        Emit([i \in 1..n |-> DeletedNote(gone[i])], <<[workspace |-> w, deleted |-> TRUE]>>)
  BY <1>3
<1>4. PICK evs : evs = [i \in 1..n |-> DeletedNote(gone[i])]
  OBVIOUS
<1>5. PICK wevs : wevs = <<[workspace |-> w, deleted |-> TRUE]>>
  OBVIOUS
<1>6. \A i \in 1..n : DeletedNote(gone[i]) \in RunNote /\ DeletedNote(gone[i]).deleted
  BY DEF DeletedNote, RunNote, IInv, TypeOK, RunsOf
<1>7. evs \in Seq(RunNote) /\ \A k \in DOMAIN evs : NoteAgrees(evs[k])'
  BY <1>4, <1>6 DEF NoteAgrees
<1>8. wevs \in Seq(WsNote) /\ WsNotesAgree(wevs)'
  <2>1. [workspace |-> w, deleted |-> TRUE] \in WsNote
    BY DEF WsNote
  <2> QED BY <1>2, <1>5, <2>1 DEF WsNotesAgree
<1>9. reminders' \subseteq Run /\ Emit(evs, wevs)
  BY <1>1, <1>4, <1>5 DEF IInv, TypeOK
<1>10. workspaces' \subseteq workspaces
  BY <1>2
<1> QED BY <1>1, <1>2, <1>7, <1>8, <1>9, <1>10, OtherStep

LEMMA WorkspaceStepInv ==
  ASSUME IInv, NEW w \in Workspace,
         \/ \E u \in User : UserLocks(w, u)
         \/ \E u \in User, force \in BOOLEAN : UserUnlocks(w, u, force)
         \/ UpdateWorkspace(w)
  PROVE  IInv'
<1>1. /\ UNCHANGED <<created, reminders, schedVars, crashes>>
      /\ Emit(<<>>, WsChanged(w))
  BY DEF UserLocks, UserUnlocks, UpdateWorkspace
<1>2. DbAgrees' /\ RowsMoveOn /\ Wanes(Run) /\ workspaces' = workspaces
  <2>1. ASSUME NEW u \in User, UserLocks(w, u)
        PROVE  DbAgrees' /\ RowsMoveOn /\ Wanes(Run) /\ workspaces' = workspaces
    BY <2>1, DbAgreesNow, LockByUserAgrees DEF UserLocks
  <2>2. ASSUME NEW u \in User, NEW force \in BOOLEAN, UserUnlocks(w, u, force)
        PROVE  DbAgrees' /\ RowsMoveOn /\ Wanes(Run) /\ workspaces' = workspaces
    BY <2>2, DbAgreesNow, UnlockAgrees DEF UserUnlocks
  <2>3. CASE UpdateWorkspace(w)
    BY <2>3, DbAgreesNow, UnchangedAgrees DEF UpdateWorkspace
  <2> QED BY <2>1, <2>2, <2>3
<1>3. PICK wevs : wevs = WsChanged(w)
  OBVIOUS
<1>4. wevs \in Seq(WsNote) /\ WsNotesAgree(wevs)'
  BY <1>3, WsChangedNote
<1>5. PICK evs : evs = <<>>
  OBVIOUS
<1>6. /\ evs \in Seq(RunNote) /\ \A k \in DOMAIN evs : NoteAgrees(evs[k])'
      /\ Emit(evs, wevs)
  BY <1>1, <1>3, <1>5
<1>7. reminders' \subseteq Run /\ crashes' = crashes /\ UNCHANGED schedVars
  BY <1>1 DEF IInv, TypeOK
<1> QED BY <1>2, <1>4, <1>6, <1>7, OtherStep

LEMMA CreateRunInv ==
  ASSUME IInv, NEW r \in Run, CreateRun(r)
  PROVE  IInv'
<1>1. PICK v \in Workspace, planOnly \in BOOLEAN : InsertRun(r, v, planOnly)
  BY DEF CreateRun
<1>2. /\ created' = Append(created, r) /\ Emit(RunChanged(r), <<>>)
      /\ UNCHANGED <<reminders, schedVars, crashes>>
  BY DEF CreateRun
<1>3. /\ DbAgrees' /\ RowsMoveOn /\ NoteAgrees(Note(r, rows[r]))' /\ workspaces' = workspaces
  BY <1>1, <1>2, DbAgreesNow, InsertRunAgrees
<1>4. TypeOK /\ rows' \in [Run -> Row] /\ rows[r].status = "absent"
  BY <1>1, <1>3 DEF IInv, DbAgrees, DbTyped, InsertRun
<1>5. PICK n, evs : n = Note(r, rows'[r]) /\ evs = <<n>>
  OBVIOUS
<1>6. evs = RunChanged(r)
  BY <1>5 DEF RunChanged
<1>7. evs \in Seq(RunNote) /\ \A k \in DOMAIN evs : NoteAgrees(evs[k])'
  BY <1>3, <1>4, <1>6, RunChangedNote
<1>8. PICK p1, T1, Q1, E1, W1 :
        p1 = pc /\ T1 = todo /\ Q1 = queues /\ E1 = runEvents /\ W1 = wsEvents
  OBVIOUS
<1>9. /\ Agrees(Run, p1, T1, Q1, E1) /\ p1 \in Stages
      /\ E1 \in Seq(RunNote) /\ Len(E1) <= BufferSize
      /\ W1 \in Seq(WsNote) /\ Len(W1) <= BufferSize /\ WsNotesAgree(W1)
  BY <1>8 DEF IInv, TypeOK, Stages
<1>10. Settled(p1, T1, Q1, E1)
  BY <1>9 DEF Agrees, Settled
<1>11. pc' = p1 /\ todo' = T1 /\ queues' = Q1 /\ Publish(E1, W1, evs, <<>>)
  BY <1>2, <1>6, <1>8 DEF schedVars, Emit
<1>12. /\ Publishes(p1, T1, E1, evs)
       /\ wsEvents' \in Seq(WsNote) /\ Len(wsEvents') <= BufferSize
       /\ DeliveredTo(W1, <<>>, WatchingWorkspaces, "workspaces" \in closed, wsEvents')
       /\ closed' \subseteq {"runs", "workspaces"}
  BY <1>4, <1>7, <1>8, <1>9, <1>11, NoNote, PublishProperties
     DEF Publishes, Running, WatchingRuns
<1>13. /\ NotesAgree(T1)' /\ NotesAgree(runEvents)' /\ QueuesAgree(Q1)'
       /\ Typed(todo, Q1, runEvents)' /\ Progress(p1, T1, Q1)'
  BY <1>3, <1>4, <1>7, <1>10, <1>12, SettledMovesOn
<1>14. Running(p1) => Knows(Run, T1, Q1, runEvents)'
  <2>1. rows' = [rows EXCEPT ![r] = [status |-> "pending", planOnly |-> planOnly,
                                      workspace |-> v]]
    BY <1>1 DEF InsertRun
  <2>2. TablesAgree
    BY DEF IInv
  <2> QED BY <1>2, <1>4, <1>5, <1>9, <1>12, <2>1, <2>2, CreateKnows
<1>15. WsNotesAgree(<<>>)'
  BY DEF WsNotesAgree
<1>16. WsNotesAgree(wsEvents)'
  BY <1>3, <1>9, <1>12, <1>15, NoNote, WsMovesOn
<1>17. /\ Typed(todo, queues, runEvents)' /\ Progress(pc, todo, queues)'
       /\ NotesAgree(todo)' /\ QueuesAgree(queues)'
       /\ Running(pc)' => Knows(Run, todo, queues, runEvents)'
  BY <1>11, <1>13, <1>14 DEF Typed, Progress, NotesAgree, QueuesAgree, Running, Knows
<1>18. pc' \in Stages /\ reminders' \subseteq Run /\ crashes' \in 0..MaxCrashes
  BY <1>2, <1>9, <1>11 DEF IInv, TypeOK
<1> QED BY <1>3, <1>12, <1>13, <1>16, <1>17, <1>18, Assemble

-----------------------------------------------------------------------------
(* The steps of the scheduler that leave the rows alone *)

\* A step after which the scheduler does not run, with no more events than
\* there were.
LEMMA QuietStep ==
  ASSUME IInv, UNCHANGED <<dbVars, created, reminders>>, crashes' \in 0..MaxCrashes,
         pc' \in Stages, ~Running(pc)', todo' = <<>>,
         queues' = [w \in Workspace |-> EmptyQueue],
         runEvents' \in Seq(RunNote), Len(runEvents') <= BufferSize, NotesAgree(runEvents'),
         wsEvents' \in Seq(WsNote), Len(wsEvents') <= BufferSize, WsNotesAgree(wsEvents'),
         closed' \subseteq {"runs", "workspaces"}
  PROVE  IInv'
<1>1. DbAgrees' /\ workspaces' \subseteq workspaces /\ rows' = rows
  BY DbAgreesNow, UnchangedAgrees DEF dbVars
<1>2. EmptyQueue \in QueueType
  BY DEF EmptyQueue, QueueType
<1>3. Typed(todo, queues, runEvents)'
  BY <1>2 DEF Typed
<1>4. Progress(pc, todo, queues)'
  BY DEF Progress, Running
<1>5. NotesAgree(todo)'
  BY DEF NotesAgree
<1>6. NotesAgree(runEvents)'
  BY <1>1 DEF NotesAgree, NoteAgrees
<1>7. QueuesAgree(queues)'
  BY DEF QueuesAgree, EmptyQueue
<1>8. WsNotesAgree(wsEvents)'
  BY DEF WsNotesAgree, dbVars
<1>9. reminders' \subseteq Run
  BY DEF IInv, TypeOK
<1> QED BY <1>1, <1>3, <1>4, <1>5, <1>6, <1>7, <1>8, <1>9, Assemble

LEMMA StopInv ==
  ASSUME IInv, NEW E1 \in Seq(RunNote), Len(E1) <= BufferSize, NotesAgree(E1),
         NEW W1 \in Seq(WsNote), Len(W1) <= BufferSize, WsNotesAgree(W1),
         Stop(E1, W1), UNCHANGED <<created, reminders>>, crashes' \in 0..MaxCrashes
  PROVE  IInv'
<1>1. /\ pc' = "down" /\ todo' = <<>> /\ queues' = [w \in Workspace |-> EmptyQueue]
      /\ closed' = {} /\ UNCHANGED dbVars
      /\ runEvents' = <<>> \/ runEvents' = E1
      /\ wsEvents' = <<>> \/ wsEvents' = W1
  BY DEF Stop
<1>2. /\ runEvents' \in Seq(RunNote) /\ Len(runEvents') <= BufferSize /\ NotesAgree(runEvents')
  <2>1. <<>> \in Seq(RunNote) /\ Len(<<>>) <= BufferSize /\ NotesAgree(<<>>)
    BY BufferAssumption DEF NotesAgree
  <2> QED BY <1>1, <2>1
<1>3. /\ wsEvents' \in Seq(WsNote) /\ Len(wsEvents') <= BufferSize /\ WsNotesAgree(wsEvents')
  <2>1. <<>> \in Seq(WsNote) /\ Len(<<>>) <= BufferSize /\ WsNotesAgree(<<>>)
    BY BufferAssumption DEF WsNotesAgree
  <2> QED BY <1>1, <2>1
<1>4. pc' \in Stages /\ ~Running(pc)'
  BY <1>1 DEF Stages, Running
<1> QED BY <1>1, <1>2, <1>3, <1>4, QuietStep

LEMMA EventsNow ==
  ASSUME IInv
  PROVE  /\ runEvents \in Seq(RunNote) /\ Len(runEvents) <= BufferSize /\ NotesAgree(runEvents)
         /\ wsEvents \in Seq(WsNote) /\ Len(wsEvents) <= BufferSize /\ WsNotesAgree(wsEvents)
         /\ crashes \in 0..MaxCrashes /\ closed \subseteq {"runs", "workspaces"}
BY DEF IInv, TypeOK, Agrees

LEMMA TailWsNotes ==
  ASSUME NEW W \in Seq(WsNote), W # <<>>, WsNotesAgree(W), Len(W) <= BufferSize
  PROVE  /\ Head(W) \in WsNote /\ (Head(W).deleted => Head(W).workspace \notin workspaces)
         /\ Tail(W) \in Seq(WsNote) /\ Len(Tail(W)) <= BufferSize /\ WsNotesAgree(Tail(W))
<1>1. /\ Head(W) = W[1] /\ 1 \in DOMAIN W /\ Head(W) \in WsNote
      /\ Tail(W) \in Seq(WsNote) /\ Len(Tail(W)) = Len(W) - 1
      /\ \A i \in DOMAIN Tail(W) : i + 1 \in DOMAIN W /\ Tail(W)[i] = W[i + 1]
  OBVIOUS
<1> QED BY <1>1, BufferAssumption DEF WsNotesAgree

LEMMA CrashInv ==
  ASSUME IInv, Crash \/ SubscriptionTerminated
  PROVE  IInv'
<1>1. Stop(runEvents, wsEvents) /\ UNCHANGED <<created, reminders>>
  BY DEF Crash, SubscriptionTerminated
<1>2. crashes' \in 0..MaxCrashes
  BY SchedulerAssumption DEF Crash, SubscriptionTerminated, IInv, TypeOK
<1>3. PICK E1, W1 : E1 = runEvents /\ W1 = wsEvents
  OBVIOUS
<1>4. Stop(E1, W1)
  BY <1>1, <1>3
<1> QED BY <1>1, <1>2, <1>3, <1>4, EventsNow, StopInv

LEMMA WatchInv ==
  ASSUME IInv, WatchWorkspaces \/ WatchRuns
  PROVE  IInv'
<1>1. /\ pc' \in {"watching", "listing"} /\ ~Running(pc)
      /\ UNCHANGED <<dbVars, created, reminders, todo, queues, busVars, crashes>>
  BY DEF WatchWorkspaces, WatchRuns, Running
<1>2. todo = <<>> /\ queues = [w \in Workspace |-> EmptyQueue]
  BY <1>1 DEF IInv, Agrees, Progress
<1>3. pc' \in Stages /\ ~Running(pc)'
  BY <1>1 DEF Stages, Running
<1>4. runEvents' = runEvents /\ wsEvents' = wsEvents /\ closed' = closed /\ crashes' = crashes
  BY <1>1 DEF busVars
<1> QED BY <1>1, <1>2, <1>3, <1>4, EventsNow, QuietStep

LEMMA MissRunEventInv ==
  ASSUME IInv, MissRunEvent
  PROVE  IInv'
<1>1. /\ ~Running(pc) /\ pc' = pc /\ todo' = todo /\ queues' = queues
      /\ runEvents # <<>> /\ runEvents' = Tail(runEvents)
      /\ UNCHANGED <<dbVars, created, reminders, wsEvents, closed, crashes>>
  BY DEF MissRunEvent, WatchingRuns, Running, schedVars
<1>2. todo = <<>> /\ queues = [w \in Workspace |-> EmptyQueue]
  BY <1>1 DEF IInv, Agrees, Progress
<1>3. pc' \in Stages /\ ~Running(pc)'
  BY <1>1 DEF Stages, Running, IInv, TypeOK
<1>4. /\ Tail(runEvents) \in Seq(RunNote) /\ Len(Tail(runEvents)) <= BufferSize
      /\ NotesAgree(Tail(runEvents))
  BY <1>1, EventsNow, TailNotes, BufferAssumption
<1> QED BY <1>1, <1>2, <1>3, <1>4, EventsNow, QuietStep

\* The events of workspaces say nothing of runs.
LEMMA MissWorkspaceEventInv ==
  ASSUME IInv, MissWorkspaceEvent
  PROVE  IInv'
<1>1. /\ pc' = pc /\ todo' = todo /\ queues' = queues
      /\ wsEvents # <<>> /\ wsEvents' = Tail(wsEvents)
      /\ UNCHANGED <<dbVars, created, reminders, runEvents, closed, crashes>>
  BY DEF MissWorkspaceEvent, schedVars
<1>2. DbAgrees' /\ workspaces' = workspaces /\ rows' = rows
  BY <1>1, DbAgreesNow, UnchangedAgrees
<1>3. /\ wsEvents' \in Seq(WsNote) /\ Len(wsEvents') <= BufferSize /\ WsNotesAgree(wsEvents)'
  BY <1>1, <1>2, EventsNow, TailWsNotes DEF WsNotesAgree
<1>4. PICK p1, T1, Q1, E1 : p1 = pc /\ T1 = todo /\ Q1 = queues /\ E1 = runEvents
  OBVIOUS
<1>5. Agrees(Run, p1, T1, Q1, E1)
  BY <1>4 DEF IInv
<1>6. Agrees(Run, p1, T1, Q1, E1)'
  BY <1>1, <1>2, <1>5
     DEF Agrees, Typed, Progress, NotesAgree, NoteAgrees, QueuesAgree, MemberAgrees,
         Knows, WorksIsCurrent, ListedFirst, BacklogInOrder, InOrder, TodoInOrder,
         EventsInOrder, NoneLost, Rivals, Before, Waits, Works, Needs, Noted
<1>7. Agrees(Run, pc, todo, queues, runEvents)'
  BY <1>1, <1>4, <1>6
<1> QED BY <1>1, <1>2, <1>3, <1>7 DEF IInv, TypeOK, DbAgrees, DbTyped

LEMMA BeforeAsymmetric ==
  ASSUME created \in Seq(Run), CreatedOnce, NEW r, NEW s, Before(r, s)
  PROVE  ~Before(s, r)
BY DEF CreatedOnce, Before

LEMMA ListRunsInv ==
  ASSUME IInv, ListRuns
  PROVE  IInv'
<1> DEFINE incomplete == {r \in Run : rows[r].status \in IncompleteRun}
<1>1. PICK n \in 0..Len(created) : \E l \in [1..n -> incomplete] :
         /\ Range(l) = incomplete /\ OldestFirst(l)
         /\ todo' = [i \in 1..n |-> Note(l[i], rows[l[i]])]
         /\ pc' = IF n = 0 THEN "ready" ELSE "seeding"
  BY DEF ListRuns
<1>2. PICK listed \in [1..n -> incomplete] :
         /\ Range(listed) = incomplete /\ OldestFirst(listed)
         /\ todo' = [i \in 1..n |-> Note(listed[i], rows[listed[i]])]
         /\ pc' = IF n = 0 THEN "ready" ELSE "seeding"
  BY <1>1
<1>3. /\ pc = "listing" /\ created \in Seq(Run) /\ n \in Nat
      /\ UNCHANGED <<dbVars, created, reminders, queues, busVars, crashes>>
  BY DEF ListRuns, IInv, TypeOK
<1>4. DbAgrees /\ DbAgrees' /\ workspaces' = workspaces /\ rows' = rows
  BY <1>3, DbAgreesNow, UnchangedAgrees
<1>5. \A i \in 1..n : /\ listed[i] \in Run
                      /\ rows[listed[i]].status \in {"pending", "active"}
  BY DEF IncompleteRun
<1>6. \A r \in Run : rows[r].status \in {"pending", "active"} => \E i \in 1..n : listed[i] = r
  <2> SUFFICES ASSUME NEW r \in incomplete
               PROVE  \E i \in 1..n : listed[i] = r
    BY DEF IncompleteRun
  <2> QED BY <1>2 DEF Range
<1>7. queues = [w \in Workspace |-> EmptyQueue]
  BY <1>3 DEF IInv, Agrees, Progress, Running
<1>8. \A i \in 1..n : Note(listed[i], rows[listed[i]]) \in RunNote
  BY <1>4, <1>5 DEF Note, RunNote, DbAgrees, DbTyped
<1>9. PICK T1, E1 : T1 = todo' /\ E1 = runEvents
  OBVIOUS
<1>10. /\ T1 \in Seq(RunNote) /\ DOMAIN T1 = 1..n /\ Len(T1) = n
       /\ \A i \in 1..n : /\ T1[i].run = listed[i] /\ T1[i].row = rows[listed[i]]
                          /\ ~T1[i].deleted
  BY <1>2, <1>3, <1>8, <1>9 DEF Note
<1>11. Typed(T1, queues, E1)
  BY <1>7, <1>9, <1>10, EventsNow DEF Typed, EmptyQueue, QueueType
<1>12. Progress(pc', T1, queues)
  BY <1>2, <1>10 DEF Progress, Running
<1>13. NotesAgree(T1)
  <2> SUFFICES ASSUME NEW i \in 1..n
               PROVE  NoteAgrees(T1[i])
    BY <1>10 DEF NotesAgree
  <2>1. rows[listed[i]].workspace \in Workspace
    BY <1>4, <1>5 DEF DbAgrees, DbTyped, TablesAgree, RowsAgree, Exists, Gone
  <2> QED BY <1>5, <1>10, <2>1 DEF NoteAgrees, Gone, Done
<1>14. NotesAgree(E1) /\ QueuesAgree(queues)
  BY <1>7, <1>9, EventsNow DEF QueuesAgree, EmptyQueue
<1>15. \A r \in Run : rows[r].status \in {"pending", "active"} => Noted(r, T1)
  BY <1>6, <1>10 DEF Noted
<1>16. WorksIsCurrent(T1, queues)
  <2> SUFFICES ASSUME NEW w \in Workspace, NEW r \in Run, Works(r, w)
               PROVE  ListedFirst(r, w, T1)
    BY <1>7 DEF WorksIsCurrent
  <2>1. PICK i \in 1..n : listed[i] = r
    BY <1>6 DEF Works
  <2>2. ASSUME NEW j \in 1..(i - 1), T1[j].row.workspace = w, ~T1[j].row.planOnly
        PROVE  FALSE
    <3>1. j \in 1..n /\ j < i
      BY <1>3, <2>1
    <3>2. Before(listed[j], r)
      BY <1>2, <2>1, <3>1 DEF OldestFirst
    <3>3. Waits(listed[j], w) \/ Works(listed[j], w)
      BY <1>5, <1>10, <2>2, <3>1 DEF Waits, Works
    <3>4. listed[j] = r \/ Before(r, listed[j])
      BY <1>4, <1>5, <3>1, <3>3 DEF DbAgrees, OneWorks, WorksFirst
    <3>5. CreatedOnce
      BY <1>4 DEF DbAgrees, TablesAgree
    <3> QED BY <1>3, <3>2, <3>4, <3>5, BeforeAsymmetric
  <2> QED BY <1>10, <2>1, <2>2 DEF ListedFirst, Works, Scheduled
<1>17. BacklogInOrder(queues)
  BY <1>7 DEF BacklogInOrder, InOrder, EmptyQueue
<1>18. TodoInOrder(T1, queues)
  <2> SUFFICES ASSUME NEW w \in Workspace, NEW s \in Run, NEW i \in 1..n,
                      Rivals(listed[i], s, w), ~Before(listed[i], s)
               PROVE  \E j \in 1..(i - 1) : T1[j].run = s
    BY <1>10 DEF TodoInOrder
  <2>1. PICK j \in 1..n : listed[j] = s
    BY <1>6 DEF Rivals, Waits
  <2>2. i # j /\ ~(i < j)
    BY <1>2, <2>1 DEF Rivals, OldestFirst
  <2>3. j \in 1..(i - 1)
    BY <1>3, <2>2
  <2> QED BY <1>10, <2>1, <2>3
<1>19. EventsInOrder(T1, queues, E1)
  BY <1>15 DEF EventsInOrder, Rivals, Waits
<1>20. NoneLost(Run, T1, queues, E1)
  BY <1>4, <1>15 DEF NoneLost, Needs, Scheduled, DbAgrees, TablesAgree, RowsAgree
<1>21. Knows(Run, T1, queues, E1)
  BY <1>16, <1>17, <1>18, <1>19, <1>20 DEF Knows
<1>22. PICK Q1, p1 : Q1 = queues /\ p1 = pc'
  OBVIOUS
<1>23. Agrees(Run, p1, T1, Q1, E1)
  BY <1>11, <1>12, <1>13, <1>14, <1>21, <1>22 DEF Agrees
<1>24. Agrees(Run, p1, T1, Q1, E1)'
  BY <1>3, <1>4, <1>23
     DEF Agrees, Typed, Progress, NotesAgree, NoteAgrees, QueuesAgree, MemberAgrees,
         Knows, WorksIsCurrent, ListedFirst, BacklogInOrder, InOrder, TodoInOrder,
         EventsInOrder, NoneLost, Rivals, Before, Waits, Works, Needs, Noted, busVars
<1>25. Agrees(Run, pc, todo, queues, runEvents)'
  BY <1>3, <1>9, <1>22, <1>24 DEF busVars
<1>26. pc' \in Stages /\ WsNotesAgree(wsEvents)'
  BY <1>2, <1>3, <1>4, EventsNow DEF Stages, WsNotesAgree, busVars
<1> QED BY <1>3, <1>4, <1>25, <1>26, EventsNow
        DEF IInv, TypeOK, DbAgrees, DbTyped, busVars, Stages, Agrees, Typed, QueueType

-----------------------------------------------------------------------------
(* The steps of the scheduler that schedule *)

\* A step of the scheduler that leaves the rows as they are and publishes
\* nothing of runs.
LEMMA IdleStep ==
  ASSUME IInv, NEW p1 \in Stages, NEW T1, NEW Q1, NEW E1, Agrees(Run, p1, T1, Q1, E1),
         Running(pc), DbAgrees', RowsMoveOn, Wanes(Run), workspaces' = workspaces,
         pc' = p1, todo' = T1, queues' = Q1,
         NEW W1 \in Seq(WsNote), Len(W1) <= BufferSize, WsNotesAgree(W1),
         NEW wevs \in Seq(WsNote), WsNotesAgree(wevs)', Publish(E1, W1, <<>>, wevs),
         UNCHANGED <<reminders, crashes>>
  PROVE  IInv'
<1>1. PICK evs : evs = <<>>
  OBVIOUS
<1>2. /\ evs \in Seq(RunNote) /\ \A k \in DOMAIN evs : NoteAgrees(evs[k])'
      /\ Publish(E1, W1, evs, wevs)
  BY <1>1
<1>3. reminders' \subseteq Run /\ crashes' \in 0..MaxCrashes
  BY DEF IInv, TypeOK
<1>4. Run \in SUBSET Run
  OBVIOUS
<1> QED BY <1>2, <1>3, <1>4, WaningStep

\* The head of a backlog is enqueued.
LEMMA EnqueueStep ==
  ASSUME IInv, NEW p1 \in Stages, NEW T1, NEW Q1, NEW E1, Agrees(Run, p1, T1, Q1, E1),
         Running(pc), Running(p1),
         NEW w \in Workspace, Q1[w].current = Nobody, Q1[w].backlog # <<>>,
         NEW c, c = Head(Q1[w].backlog), EnqueuePlan(c),
         pc' = p1, todo' = T1,
         queues' = [Q1 EXCEPT ![w] = [current |-> c, backlog |-> Tail(Q1[w].backlog)]],
         NEW W1 \in Seq(WsNote), Len(W1) <= BufferSize, WsNotesAgree(W1),
         Publish(E1, W1, RunChanged(c), WsChanged(w)),
         UNCHANGED <<created, reminders, crashes>>
  PROVE  IInv'
<1>1. TypeOK /\ rows[c].status = "pending" /\ TablesAgree
  BY DEF IInv, EnqueuePlan
<1>2. /\ c \in Run /\ Waits(c, w)
      /\ \A s \in Run : ~Works(s, w)
      /\ \A s \in Run : Waits(s, w) /\ s # c => Before(c, s)
  BY <1>1, TurnIsRight
<1>3. rows[c].workspace = w /\ ~rows[c].planOnly
  BY <1>2 DEF Waits
<1>4. /\ DbAgrees' /\ RowsMoveOn /\ workspaces' = workspaces
      /\ NoteAgrees(Note(c, rows[c]))'
      /\ rows' = [rows EXCEPT ![c].status = "active"]
  <2>1. created' = created
    OBVIOUS
  <2>2. /\ \A s \in Run : ~Works(s, rows[c].workspace)
        /\ \A s \in Run : Waits(s, rows[c].workspace) /\ s # c => Before(c, s)
    BY <1>2, <1>3
  <2> QED BY <1>2, <2>1, <2>2, DbAgreesNow, EnqueuePlanAgrees
<1>5. rows' \in [Run -> Row]
  BY <1>4 DEF DbAgrees, DbTyped
<1>6. PICK evs, wevs : evs = RunChanged(c) /\ wevs = WsChanged(w)
  OBVIOUS
<1>7. /\ evs \in Seq(RunNote) /\ \A k \in DOMAIN evs : NoteAgrees(evs[k])'
      /\ wevs \in Seq(WsNote) /\ WsNotesAgree(wevs)'
  BY <1>2, <1>4, <1>5, <1>6, RunChangedNote, WsChangedNote
<1>8. /\ E1 \in Seq(RunNote) /\ Len(E1) <= BufferSize /\ Settled(p1, T1, Q1, E1)
      /\ Q1 \in [Workspace -> QueueType]
  BY DEF Agrees, Typed, Settled
<1>9. Publish(E1, W1, evs, wevs)
  BY <1>6
<1>10. /\ Publishes(p1, T1, E1, evs)
       /\ wsEvents' \in Seq(WsNote) /\ Len(wsEvents') <= BufferSize
       /\ DeliveredTo(W1, wevs, WatchingWorkspaces, "workspaces" \in closed, wsEvents')
       /\ closed' \subseteq {"runs", "workspaces"}
  BY <1>1, <1>7, <1>8, <1>9, PublishProperties DEF Publishes, Running, WatchingRuns
<1>11. /\ NotesAgree(T1)' /\ NotesAgree(runEvents)' /\ QueuesAgree(Q1)'
       /\ Typed(todo, Q1, runEvents)' /\ Progress(p1, T1, Q1)'
  BY <1>1, <1>4, <1>5, <1>7, <1>8, <1>10, SettledMovesOn
<1>12. PICK Q2 : Q2 = [Q1 EXCEPT ![w] = [current |-> c, backlog |-> Tail(Q1[w].backlog)]]
  OBVIOUS
<1>13. Knows(Run, T1, Q2, runEvents)'
  BY <1>1, <1>4, <1>7, <1>10, <1>12, EnqueueKnows
<1>14. Q1[w] \in QueueType /\ Q1[w].backlog \in Seq(Run)
  BY <1>8 DEF QueueType
<1>15. /\ Tail(Q1[w].backlog) \in Seq(Run)
       /\ \A i \in DOMAIN Tail(Q1[w].backlog) :
            \E j \in DOMAIN Q1[w].backlog : Tail(Q1[w].backlog)[i] = Q1[w].backlog[j]
  <2> DEFINE b == Q1[w].backlog
  <2>1. b \in Seq(Run) /\ b # <<>>
    BY <1>14
  <2> HIDE DEF b
  <2>2. /\ Tail(b) \in Seq(Run)
        /\ \A i \in DOMAIN Tail(b) : i + 1 \in DOMAIN b /\ Tail(b)[i] = b[i + 1]
    BY <2>1
  <2>3. \A i \in DOMAIN Tail(b) : \E j \in DOMAIN b : Tail(b)[i] = b[j]
    BY <2>2
  <2> QED BY <2>2, <2>3 DEF b
<1>16. /\ Q2 \in [Workspace -> QueueType]
       /\ Q2[w].current = c /\ Q2[w].backlog = Tail(Q1[w].backlog)
       /\ \A v \in Workspace : v # w => Q2[v] = Q1[v]
  BY <1>2, <1>8, <1>12, <1>15 DEF QueueType
<1>17. QueuesAgree(Q2)'
  <2>1. MemberAgrees(c, w)' /\ rows'[c].status # "pending"
    <3>1. MemberAgrees(c, w)
      BY <1>2 DEF MemberAgrees, Waits
    <3>2. rows'[c].status = "active"
      BY <1>1, <1>2, <1>4 DEF TypeOK
    <3> QED BY <1>1, <1>2, <1>4, <1>5, <3>1, <3>2, MemberMovesOn DEF TypeOK
  <2>2. \A i \in DOMAIN Q2[w].backlog : MemberAgrees(Q2[w].backlog[i], w)'
    <3>1. \A i \in DOMAIN Q1[w].backlog : MemberAgrees(Q1[w].backlog[i], w)'
      BY <1>11 DEF QueuesAgree
    <3> QED BY <1>15, <1>16, <3>1
  <2> QED BY <1>11, <1>16, <2>1, <2>2 DEF QueuesAgree
<1>18. Typed(todo, Q2, runEvents)' /\ Progress(p1, T1, Q2)'
  BY <1>11, <1>16 DEF Typed, Progress
<1>19. WsNotesAgree(wsEvents)' /\ workspaces' \subseteq workspaces
  BY <1>4, <1>7, <1>10, WsMovesOn
<1>20. /\ Typed(todo, queues, runEvents)' /\ Progress(pc, todo, queues)'
       /\ NotesAgree(todo)' /\ QueuesAgree(queues)'
       /\ Running(pc)' => Knows(Run, todo, queues, runEvents)'
  BY <1>11, <1>12, <1>13, <1>17, <1>18
     DEF Typed, Progress, NotesAgree, QueuesAgree, Running, Knows
<1>21. pc' \in Stages /\ reminders' \subseteq Run /\ crashes' \in 0..MaxCrashes
  BY DEF IInv, TypeOK
<1> QED BY <1>4, <1>10, <1>11, <1>19, <1>20, <1>21, Assemble

\* schedule, unless the run is speculative: the queue of w becomes q1, and
\* then d is carried out.
LEMMA ScheduleQueue ==
  ASSUME IInv, Running(pc), UNCHANGED <<created, reminders, crashes>>,
         NEW w \in Workspace, NEW r, NEW row, ~(r # Nobody /\ row.planOnly),
         NEW T1, NEW E1, NEW W1 \in Seq(WsNote), Len(W1) <= BufferSize, WsNotesAgree(W1),
         schedule(w, r, row, T1, E1, W1),
         NEW d, d = process(queues[w], r, row.status),
         NEW q1 \in QueueType, Promotes(q1, d),
         NEW Q1, Q1 = [queues EXCEPT ![w] = q1],
         NEW p1 \in Stages, p1 = (IF T1 = <<>> THEN "ready" ELSE pc),
         Agrees(Run, p1, T1, Q1, E1),
         d.unlock => Agrees(Run, p1, T1, queues, E1)
  PROVE  IInv'
<1>1. queues \in [Workspace -> QueueType] /\ Running(p1)
  BY DEF IInv, TypeOK, QueueType, Running
<1>2. E1 \in Seq(RunNote) /\ Len(E1) <= BufferSize /\ NotesAgree(E1)
  BY DEF Agrees, Typed
<1>3. crashes' \in 0..MaxCrashes
  BY DEF IInv, TypeOK
<1>4. <<>> \in Seq(WsNote) /\ WsNotesAgree(<<>>)'
  BY NoNote DEF WsNotesAgree
<1>5. PICK wevs : wevs = WsChanged(w)
  OBVIOUS
<1>6. wevs \in Seq(WsNote) /\ WsNotesAgree(wevs)'
  BY <1>5, WsChangedNote
<1>7. Q1[w] = q1 /\ \A q : [queues EXCEPT ![w] = q] = [Q1 EXCEPT ![w] = q]
  BY <1>1
<1>8. [queues EXCEPT ![w] = queues[w]] = queues
  BY <1>1
<1> DEFINE c == d.queue.current
<1>9. CASE d.enqueue
  <2>1. /\ q1.current = Nobody /\ q1.backlog # <<>> /\ ~d.unlock
        /\ d.queue = [current |-> Head(q1.backlog), backlog |-> Tail(q1.backlog)]
    BY <1>9 DEF Promotes
  <2>2. c = Head(q1.backlog) /\ d.queue.backlog = Tail(q1.backlog)
    BY <2>1
  <2>3. \/ /\ EnqueuePlan(c)
           /\ Proceed(w, d.queue, T1)
           /\ Publish(E1, W1, RunChanged(c), WsChanged(w))
        \/ /\ Proceed(w, [current |-> Nobody, backlog |-> <<c>> \o d.queue.backlog], T1)
           /\ Publish(E1, W1, <<>>, <<>>)
           /\ UNCHANGED dbVars
        \/ Stop(E1, W1)
    BY <1>9, <2>1 DEF schedule
  <2>4. CASE /\ EnqueuePlan(c)
             /\ Proceed(w, d.queue, T1)
             /\ Publish(E1, W1, RunChanged(c), WsChanged(w))
    <3>1. /\ pc' = p1 /\ todo' = T1
          /\ queues' = [Q1 EXCEPT ![w] = [current |-> c, backlog |-> Tail(Q1[w].backlog)]]
      BY <1>7, <2>1, <2>2, <2>4 DEF Proceed
    <3>2. PICK cc : cc = c
      OBVIOUS
    <3> HIDE DEF c
    <3> QED BY <1>1, <1>7, <2>1, <2>2, <2>4, <3>1, <3>2, EnqueueStep
  <2>5. CASE /\ Proceed(w, [current |-> Nobody, backlog |-> <<c>> \o d.queue.backlog], T1)
             /\ Publish(E1, W1, <<>>, <<>>)
             /\ UNCHANGED dbVars
    <3>1. q1 = [current |-> Nobody, backlog |-> <<c>> \o d.queue.backlog]
      <4>1. q1.backlog \in Seq(Run) /\ q1 = [current |-> q1.current, backlog |-> q1.backlog]
        BY DEF QueueType
      <4>2. <<Head(q1.backlog)>> \o Tail(q1.backlog) = q1.backlog
        BY <2>1, <4>1
      <4> QED BY <2>1, <2>2, <4>1, <4>2
    <3>2. pc' = p1 /\ todo' = T1 /\ queues' = Q1
      BY <2>5, <3>1 DEF Proceed
    <3>3. DbAgrees' /\ RowsMoveOn /\ Wanes(Run) /\ workspaces' = workspaces
      BY <2>5, DbAgreesNow, UnchangedAgrees
    <3> QED BY <1>4, <2>5, <3>2, <3>3, IdleStep
  <2>6. CASE Stop(E1, W1)
    BY <1>2, <1>3, <2>6, StopInv
  <2> QED BY <2>3, <2>4, <2>5, <2>6
<1>10. CASE ~d.enqueue /\ d.unlock
  <2>1. d.queue = q1
    BY <1>10 DEF Promotes
  <2>2. \/ /\ Unlock(w, r, FALSE)
           /\ Proceed(w, d.queue, T1)
           /\ Publish(E1, W1, <<>>, WsChanged(w))
        \/ /\ Proceed(w, queues[w], T1)
           /\ Publish(E1, W1, <<>>, <<>>)
           /\ UNCHANGED dbVars
        \/ Stop(E1, W1)
    BY <1>10 DEF schedule
  <2>3. CASE /\ Unlock(w, r, FALSE)
             /\ Proceed(w, d.queue, T1)
             /\ Publish(E1, W1, <<>>, WsChanged(w))
    <3>1. pc' = p1 /\ todo' = T1 /\ queues' = Q1
      BY <2>1, <2>3 DEF Proceed
    <3>2. DbAgrees' /\ RowsMoveOn /\ Wanes(Run) /\ workspaces' = workspaces
      BY <2>3, DbAgreesNow, UnlockAgrees
    <3>3. Publish(E1, W1, <<>>, wevs)
      BY <1>5, <2>3
    <3> QED BY <1>6, <3>1, <3>2, <3>3, IdleStep
  <2>4. CASE /\ Proceed(w, queues[w], T1)
             /\ Publish(E1, W1, <<>>, <<>>)
             /\ UNCHANGED dbVars
    <3>1. PICK Q0 : Q0 = queues
      OBVIOUS
    <3>2. pc' = p1 /\ todo' = T1 /\ queues' = Q0 /\ Agrees(Run, p1, T1, Q0, E1)
      BY <1>8, <1>10, <2>4, <3>1 DEF Proceed
    <3>3. DbAgrees' /\ RowsMoveOn /\ Wanes(Run) /\ workspaces' = workspaces
      BY <2>4, DbAgreesNow, UnchangedAgrees
    <3> QED BY <1>4, <2>4, <3>2, <3>3, IdleStep
  <2>5. CASE Stop(E1, W1)
    BY <1>2, <1>3, <2>5, StopInv
  <2> QED BY <2>2, <2>3, <2>4, <2>5
<1>11. CASE ~d.enqueue /\ ~d.unlock
  <2>1. d.queue = q1
    BY <1>11 DEF Promotes
  <2>2. /\ Proceed(w, d.queue, T1)
        /\ Publish(E1, W1, <<>>, <<>>)
        /\ UNCHANGED dbVars
    BY <1>11 DEF schedule
  <2>3. pc' = p1 /\ todo' = T1 /\ queues' = Q1
    BY <2>1, <2>2 DEF Proceed
  <2>4. DbAgrees' /\ RowsMoveOn /\ Wanes(Run) /\ workspaces' = workspaces
    BY <2>2, DbAgreesNow, UnchangedAgrees
  <2> QED BY <1>4, <2>2, <2>3, <2>4, IdleStep
<1> QED BY <1>9, <1>10, <1>11

-----------------------------------------------------------------------------
(* What a step may do to those who wait, and to the lock of those who work *)

\* A run that gets its turn was created before whoever still waits.
InTurn ==
  \A r, s \in Run, w \in Workspace :
    Waits(r, w) /\ rows'[r].status = "active" /\ Waits(s, w) /\ s # r => Before(r, s)

\* A run at work loses the lock only to a user who forces it.
KeepsLock ==
  \A w \in Workspace, r \in Run :
    lock[w] = r /\ lock'[w] # r /\ Works(r, w) /\ rows'[r].status = "active" =>
      \E u \in User : UserUnlocks(w, u, TRUE)

Orderly == InTurn /\ KeepsLock

\* A step that gives nobody a turn and leaves the locks alone is orderly.
LEMMA StillOrderly ==
  ASSUME lock' = lock,
         \A r \in Run : rows'[r].status = "active" => rows[r].status = "active"
  PROVE  Orderly
BY DEF Orderly, InTurn, KeepsLock, Waits

LEMMA StopOrderly ==
  ASSUME UNCHANGED dbVars
  PROVE  Orderly
BY StillOrderly DEF dbVars

\* The steps of schedule are orderly.
LEMMA ScheduleOrderly ==
  ASSUME IInv, NEW w \in Workspace, NEW r, NEW row, ~(r # Nobody /\ row.planOnly),
         NEW T1, NEW E1, NEW W1,
         schedule(w, r, row, T1, E1, W1),
         NEW d, d = process(queues[w], r, row.status),
         NEW q1 \in QueueType, Promotes(q1, d),
         NEW Q1, Q1 = [queues EXCEPT ![w] = q1],
         NEW p1, Running(p1), Agrees(Run, p1, T1, Q1, E1),
         d.unlock => r \in Run /\ rows[r].status \notin Scheduled
  PROVE  Orderly
<1>1. queues \in [Workspace -> QueueType] /\ Q1[w] = q1
  BY DEF IInv, TypeOK, QueueType
<1>2. rows \in [Run -> Row] /\ TypeOK
  BY DEF IInv, TypeOK
<1>3. \/ UNCHANGED dbVars
      \/ d.enqueue /\ EnqueuePlan(d.queue.current)
      \/ d.unlock /\ Unlock(w, r, FALSE)
  <2>1. CASE d.enqueue
    <3>1. ~d.unlock
      BY <2>1 DEF Promotes
    <3> QED BY <2>1, <3>1 DEF schedule, Stop
  <2>2. CASE ~d.enqueue /\ d.unlock
    BY <2>2 DEF schedule, Stop
  <2>3. CASE ~d.enqueue /\ ~d.unlock
    BY <2>3 DEF schedule
  <2> QED BY <2>1, <2>2, <2>3
<1>4. CASE UNCHANGED dbVars
  BY <1>4, StopOrderly
<1>5. CASE d.enqueue /\ EnqueuePlan(d.queue.current)
  <2>1. PICK c : c = Head(Q1[w].backlog)
    OBVIOUS
  <2>2. d.queue.current = c /\ Q1[w].current = Nobody /\ Q1[w].backlog # <<>>
    BY <1>1, <1>5, <2>1 DEF Promotes
  <2>3. EnqueuePlan(c) /\ rows[c].status = "pending"
    BY <1>5, <2>2 DEF EnqueuePlan
  <2>4. /\ c \in Run /\ Waits(c, w)
        /\ \A s \in Run : ~Works(s, w)
        /\ \A s \in Run : Waits(s, w) /\ s # c => Before(c, s)
    BY <1>2, <2>1, <2>2, <2>3, TurnIsRight
  <2>5. /\ \A s \in Run : s # c => rows'[s] = rows[s]
        /\ \A v \in Workspace : v # w => lock'[v] = lock[v]
    BY <1>2, <2>3, <2>4 DEF EnqueuePlan, Waits, TypeOK
  <2>6. \A s \in Run, v \in Workspace :
          Waits(s, v) /\ rows'[s].status = "active" => s = c /\ v = w
    BY <2>4, <2>5 DEF Waits
  <2>7. InTurn
    BY <2>4, <2>6 DEF InTurn
  <2>8. KeepsLock
    BY <2>4, <2>5 DEF KeepsLock
  <2> QED BY <2>7, <2>8 DEF Orderly
<1>6. CASE d.unlock /\ Unlock(w, r, FALSE)
  <2>1. /\ rows' = rows /\ lock[w] = r /\ rows[r].status \notin Scheduled
        /\ \A v \in Workspace : v # w => lock'[v] = lock[v]
    BY <1>2, <1>6 DEF Unlock, TypeOK
  <2>2. InTurn
    BY <2>1 DEF InTurn, Waits
  <2>3. KeepsLock
    BY <2>1 DEF KeepsLock, Works, Scheduled
  <2> QED BY <2>2, <2>3 DEF Orderly
<1> QED BY <1>3, <1>4, <1>5, <1>6

-----------------------------------------------------------------------------
(* Scheduling a listed run, or the run of an event *)

\* What a note that is next says of its run.
LEMMA NextNote ==
  ASSUME IInv, NEW n, NEW p1, NEW T1, NEW E1, Source(n, p1, T1, E1), ~n.deleted
  PROVE  /\ n.run \in Run /\ n.run # Nobody /\ n.row \in Row /\ n.row.workspace \in Workspace
         /\ p1 \in Stages /\ p1 = (IF T1 = <<>> THEN "ready" ELSE pc)
         /\ queues \in [Workspace -> QueueType]
         /\ QueuesAgree(queues) /\ BacklogInOrder(queues)
         /\ ~n.row.planOnly => MemberAgrees(n.run, n.row.workspace)
         /\ rows[n.run].status = "deleted" \/ rows[n.run].planOnly = n.row.planOnly
         /\ n.row.status \in Done => rows[n.run].status \in Done \cup {"deleted"}
         /\ n.row.status # "pending" => rows[n.run].status # "pending"
<1>1. n \in RunNote /\ NoteAgrees(n) /\ Running(pc) /\ (p1 = "ready" <=> T1 = <<>>)
  BY SourceProperties
<1>2. n.run \in Run /\ n.run # Nobody /\ n.row \in Row
  BY <1>1, SchedulerAssumption DEF RunNote
<1>3. p1 \in Stages /\ p1 = (IF T1 = <<>> THEN "ready" ELSE pc)
  BY DEF Source, Stages
<1>4. QueuesAgree(queues) /\ BacklogInOrder(queues) /\ queues \in [Workspace -> QueueType]
  BY <1>1 DEF IInv, Agrees, Knows, Typed
<1> QED BY <1>1, <1>2, <1>3, <1>4 DEF NoteAgrees, MemberAgrees

LEMMA KeepsAll == KeepsRuns(queues, queues)
BY DEF KeepsRuns

\* schedule, for a run that changes the state of its workspace.
LEMMA ScheduleRun ==
  ASSUME IInv, UNCHANGED <<created, reminders, crashes>>,
         NEW n, NEW p1, NEW T1, NEW E1, Source(n, p1, T1, E1), ~n.deleted, ~n.row.planOnly,
         NEW W1 \in Seq(WsNote), Len(W1) <= BufferSize, WsNotesAgree(W1),
         schedule(n.row.workspace, n.run, n.row, T1, E1, W1)
  PROVE  IInv' /\ Orderly
<1> DEFINE w == n.row.workspace
           r == n.run
           status == n.row.status
<1>0. /\ r \in Run /\ r # Nobody /\ n.row \in Row /\ w \in Workspace
      /\ p1 \in Stages /\ p1 = (IF T1 = <<>> THEN "ready" ELSE pc)
      /\ queues \in [Workspace -> QueueType] /\ queues[w] \in QueueType
      /\ QueuesAgree(queues) /\ BacklogInOrder(queues)
      /\ MemberAgrees(r, w)
      /\ status \in Done => rows[r].status \in Done \cup {"deleted"}
      /\ status # "pending" => rows[r].status # "pending"
  BY NextNote
<1>1. Running(pc) /\ NextInOrder(r, w, queues[w].backlog)
  BY <1>0, SourceProperties
<1>2. status \in Status
  BY <1>0 DEF Row
<1>3. PICK q1 \in QueueType :
        /\ Takes(queues[w], r, status, q1)
        /\ Promotes(q1, process(queues[w], r, status))
        /\ process(queues[w], r, status).unlock => status \in Done /\ queues[w].current = r
  BY <1>0, ProcessTakes
<1>4. PICK d : d = process(queues[w], r, status)
  OBVIOUS
<1>5. PICK Q1 : Q1 = [queues EXCEPT ![w] = q1]
  OBVIOUS
<1> HIDE DEF w, r, status
<1>6. /\ Q1 \in [Workspace -> QueueType]
      /\ QueuesAgree(Q1) /\ KeepsRuns(queues, Q1)
      /\ Waits(r, w) => Contains(q1.backlog, r)
      /\ Works(r, w) => q1.current = r \/ Contains(q1.backlog, r)
      /\ BacklogInOrder(Q1)
  BY <1>0, <1>1, <1>2, <1>3, <1>5, TakeQueue
<1>7. Q1[w] = q1 /\ \A v \in Workspace : v # w => Q1[v] = queues[v]
  BY <1>0, <1>5
<1>8. status \in Scheduled /\ queues[w] = EmptyQueue => q1.current = r
  BY <1>0, <1>3 DEF Takes, EmptyQueue, QueueType, Contains, Scheduled, Done
<1>9. TakenIn(n, Q1)
  BY <1>6, <1>7, <1>8 DEF TakenIn, w, r, status
<1>10. Agrees(Run, p1, T1, Q1, E1)
  BY <1>6, <1>9, TakeAgrees
<1>11. d.unlock => Agrees(Run, p1, T1, queues, E1)
  <2>1. HAVE d.unlock
  <2>2. status \in Done /\ rows[r].status \in Done \cup {"deleted"}
    BY <1>0, <1>3, <1>4, <2>1
  <2>3. TakenIn(n, queues)
    BY <2>2 DEF TakenIn, Waits, Works, Scheduled, Done, w, r, status
  <2> QED BY <1>0, <2>3, KeepsAll, TakeAgrees
<1>12. schedule(w, r, n.row, T1, E1, W1) /\ d = process(queues[w], r, n.row.status)
  BY <1>4 DEF w, r, status
<1>13. Promotes(q1, d)
  BY <1>3, <1>4
<1>14. IInv'
  BY <1>0, <1>1, <1>5, <1>10, <1>11, <1>12, <1>13, ScheduleQueue
<1>15. Running(p1) /\ ~(r # Nobody /\ n.row.planOnly)
  BY SourceProperties
<1>16. d.unlock => r \in Run /\ rows[r].status \notin Scheduled
  BY <1>0, <1>3, <1>4 DEF Scheduled, Done
<1>17. Orderly
  BY <1>0, <1>5, <1>10, <1>12, <1>13, <1>15, <1>16, ScheduleOrderly
<1> QED BY <1>14, <1>17

\* schedule, for a speculative run.
LEMMA SchedulePlanOnly ==
  ASSUME IInv, UNCHANGED <<created, reminders, crashes>>,
         NEW n, NEW p1, NEW T1, NEW E1, Source(n, p1, T1, E1), ~n.deleted, n.row.planOnly,
         NEW W1 \in Seq(WsNote), Len(W1) <= BufferSize, WsNotesAgree(W1),
         schedule(n.row.workspace, n.run, n.row, T1, E1, W1)
  PROVE  IInv' /\ Orderly
<1> DEFINE w == n.row.workspace
           r == n.run
<1>0. /\ r \in Run /\ r # Nobody /\ n.row \in Row /\ w \in Workspace
      /\ p1 \in Stages /\ p1 = (IF T1 = <<>> THEN "ready" ELSE pc)
      /\ queues \in [Workspace -> QueueType] /\ QueuesAgree(queues) /\ BacklogInOrder(queues)
      /\ rows[r].status = "deleted" \/ rows[r].planOnly
  BY NextNote
<1>1. /\ Running(pc) /\ Running(p1) /\ NotesAgree(E1)
      /\ E1 \in Seq(RunNote) /\ Len(E1) <= BufferSize
  BY SourceProperties
<1>2. TakenIn(n, queues)
  BY <1>0 DEF TakenIn, Waits, Works
<1>3. \A X \in SUBSET Run : (r \in X => n.row.status # "pending") => Agrees(X, p1, T1, queues, E1)
  BY <1>0, <1>2, KeepsAll, TakeAgrees
<1>4. \/ /\ EnqueuePlan(r)
         /\ Proceed(w, queues[w], T1)
         /\ Publish(E1, W1, RunChanged(r), <<>>)
      \/ Stop(E1, W1)
      \/ /\ n.row.status # "pending"
         /\ Proceed(w, queues[w], T1)
         /\ Publish(E1, W1, <<>>, <<>>)
         /\ UNCHANGED dbVars
  BY <1>0 DEF schedule
<1>5. Proceed(w, queues[w], T1) => pc' = p1 /\ todo' = T1 /\ queues' = queues
  BY <1>0 DEF Proceed
<1>6. <<>> \in Seq(WsNote) /\ WsNotesAgree(<<>>)'
  BY NoNote DEF WsNotesAgree
<1> HIDE DEF w, r
<1>7. CASE /\ EnqueuePlan(r)
           /\ Proceed(w, queues[w], T1)
           /\ Publish(E1, W1, RunChanged(r), <<>>)
  <2>1. rows[r].planOnly
    BY <1>0, <1>7 DEF EnqueuePlan
  <2>2. DbAgrees' /\ RowsMoveOn /\ workspaces' = workspaces /\ Wanes(Run \ {r})
        /\ NoteAgrees(Note(r, rows[r]))'
    BY <1>0, <1>7, <2>1, DbAgreesNow, EnqueuePlanAgrees
  <2>3. rows' \in [Run -> Row]
    BY <2>2 DEF DbAgrees, DbTyped
  <2>4. PICK evs : evs = RunChanged(r)
    OBVIOUS
  <2>5. evs \in Seq(RunNote) /\ \A k \in DOMAIN evs : NoteAgrees(evs[k])'
    BY <1>0, <2>2, <2>3, <2>4, RunChangedNote
  <2>6. Agrees(Run \ {r}, p1, T1, queues, E1)
    BY <1>3
  <2>7. PICK Q0 : Q0 = queues
    OBVIOUS
  <2>8. pc' = p1 /\ todo' = T1 /\ queues' = Q0 /\ Agrees(Run \ {r}, p1, T1, Q0, E1)
    BY <1>5, <1>7, <2>6, <2>7
  <2>9. reminders' \subseteq Run /\ crashes' \in 0..MaxCrashes
    BY DEF IInv, TypeOK
  <2>10. Publish(E1, W1, evs, <<>>)
    BY <1>7, <2>4
  <2>11. IInv'
    BY <1>0, <1>1, <1>6, <2>2, <2>5, <2>8, <2>9, <2>10, WaningStep
  <2>12. lock' = lock /\ rows' = [rows EXCEPT ![r].status = "active"] /\ rows \in [Run -> Row]
    BY <1>7, <2>1 DEF EnqueuePlan, IInv, TypeOK
  <2>13. \A s \in Run, v \in Workspace : Waits(s, v) => rows'[s].status # "active"
    BY <1>0, <2>1, <2>12 DEF Waits
  <2> QED BY <2>11, <2>12, <2>13 DEF Orderly, InTurn, KeepsLock
<1>8. CASE Stop(E1, W1)
  <2>1. crashes' \in 0..MaxCrashes
    BY DEF IInv, TypeOK
  <2>2. IInv'
    BY <1>1, <1>8, <2>1, StopInv
  <2> QED BY <1>8, <2>2, StopOrderly DEF Stop
<1>9. CASE /\ n.row.status # "pending"
           /\ Proceed(w, queues[w], T1)
           /\ Publish(E1, W1, <<>>, <<>>)
           /\ UNCHANGED dbVars
  <2>1. PICK Q0 : Q0 = queues
    OBVIOUS
  <2>2. pc' = p1 /\ todo' = T1 /\ queues' = Q0 /\ Agrees(Run, p1, T1, Q0, E1)
    BY <1>3, <1>5, <1>9, <2>1
  <2>3. DbAgrees' /\ RowsMoveOn /\ Wanes(Run) /\ workspaces' = workspaces
    BY <1>9, DbAgreesNow, UnchangedAgrees
  <2>4. IInv'
    BY <1>0, <1>1, <1>6, <1>9, <2>2, <2>3, IdleStep
  <2> QED BY <1>9, <2>4, StopOrderly
<1> QED BY <1>4, <1>7, <1>8, <1>9

-----------------------------------------------------------------------------
(* The steps of the scheduler that handle an event *)

LEMMA SeedInv ==
  ASSUME IInv, Seed
  PROVE  IInv' /\ Orderly
<1>1. PICK n, T1, E1, W1 : n = Head(todo) /\ T1 = Tail(todo) /\ E1 = runEvents /\ W1 = wsEvents
  OBVIOUS
<1>2. PICK p1 : p1 = (IF T1 = <<>> THEN "ready" ELSE pc)
  OBVIOUS
<1>3. /\ pc = "seeding" /\ UNCHANGED <<created, reminders, crashes>>
      /\ schedule(n.row.workspace, n.run, n.row, T1, E1, W1)
  BY <1>1 DEF Seed
<1>4. Source(n, p1, T1, E1)
  BY <1>1, <1>2, <1>3 DEF Source
<1>5. ~n.deleted
  <2>1. todo \in Seq(RunNote) /\ todo # <<>> /\ \A i \in DOMAIN todo : ~todo[i].deleted
    BY <1>3 DEF IInv, Agrees, Typed, Progress
  <2>2. Head(todo) = todo[1] /\ 1 \in DOMAIN todo
    BY <2>1
  <2> QED BY <1>1, <2>1, <2>2
<1>6. W1 \in Seq(WsNote) /\ Len(W1) <= BufferSize /\ WsNotesAgree(W1)
  BY <1>1, EventsNow
<1>7. CASE n.row.planOnly
  BY <1>3, <1>4, <1>5, <1>6, <1>7, SchedulePlanOnly
<1>8. CASE ~n.row.planOnly
  BY <1>3, <1>4, <1>5, <1>6, <1>8, ScheduleRun
<1> QED BY <1>7, <1>8

\* An event is dropped, and at most the queues change.
LEMMA HandledStep ==
  ASSUME IInv, UNCHANGED <<dbVars, created, reminders, closed, crashes>>,
         NEW p1 \in Stages, NEW T1, NEW Q1, NEW E1, Agrees(Run, p1, T1, Q1, E1),
         pc' = p1, todo' = T1, queues' = Q1, runEvents' = E1,
         wsEvents' \in Seq(WsNote), Len(wsEvents') <= BufferSize, WsNotesAgree(wsEvents')
  PROVE  IInv'
<1>1. DbAgrees' /\ workspaces' = workspaces /\ rows' = rows
  BY DbAgreesNow, UnchangedAgrees
<1>2. Agrees(Run, p1, T1, Q1, E1)'
  BY <1>1
     DEF Agrees, Typed, Progress, NotesAgree, NoteAgrees, QueuesAgree, MemberAgrees,
         Knows, WorksIsCurrent, ListedFirst, BacklogInOrder, InOrder, TodoInOrder,
         EventsInOrder, NoneLost, Rivals, Before, Waits, Works, Needs, Noted
<1>3. Agrees(Run, pc, todo, queues, runEvents)'
  BY <1>2
<1>4. WsNotesAgree(wsEvents)'
  BY <1>1 DEF WsNotesAgree
<1>5. reminders' \subseteq Run /\ crashes' \in 0..MaxCrashes /\ closed' \subseteq {"runs", "workspaces"}
  BY DEF IInv, TypeOK
<1>6. pc' \in Stages
  OBVIOUS
<1> QED BY <1>1, <1>3, <1>4, <1>5, <1>6, Assemble DEF Agrees

\* The event of a deleted run tells the scheduler nothing.
LEMMA DropDeletedNote ==
  ASSUME IInv, pc = "ready", runEvents # <<>>, Head(runEvents).deleted
  PROVE  Agrees(Run, pc, todo, queues, Tail(runEvents))
<1> DEFINE E == runEvents
           E1 == Tail(runEvents)
<1>1. /\ E \in Seq(RunNote) /\ Head(E) = E[1] /\ E[1].deleted
      /\ E1 \in Seq(RunNote) /\ Len(E1) = Len(E) - 1 /\ NotesAgree(E1)
      /\ \A i \in DOMAIN E1 : i + 1 \in DOMAIN E /\ E1[i] = E[i + 1]
      /\ \A i \in DOMAIN E : i # 1 => i - 1 \in DOMAIN E1 /\ E1[i - 1] = E[i]
  BY EventsNow, TailNotes
<1>2. Len(E) \in Nat /\ Len(E) <= BufferSize
  BY <1>1, EventsNow
<1>3. Knows(Run, todo, queues, E)
  BY DEF IInv, Agrees, Running
<1>4. EventsInOrder(todo, queues, E1)
  <2> SUFFICES ASSUME NEW w \in Workspace, NEW s \in Run, NEW i \in DOMAIN E1,
                      ~E1[i].deleted, Rivals(E1[i].run, s, w)
               PROVE  \/ Before(E1[i].run, s)
                      \/ Contains(queues[w].backlog, s)
                      \/ Noted(s, todo)
                      \/ \E j \in 1..(i - 1) : E1[j].run = s /\ ~E1[j].deleted
    BY DEF EventsInOrder
  <2>1. i \in Nat /\ i + 1 \in DOMAIN E /\ E1[i] = E[i + 1] /\ (i + 1) - 1 = i
    BY <1>1
  <2>2. \/ Before(E1[i].run, s)
        \/ Contains(queues[w].backlog, s)
        \/ Noted(s, todo)
        \/ \E j \in 1..((i + 1) - 1) : E[j].run = s /\ ~E[j].deleted
    BY <1>3, <2>1 DEF Knows, EventsInOrder
  <2>3. ASSUME NEW j \in 1..i, E[j].run = s, ~E[j].deleted
        PROVE  \E k \in 1..(i - 1) : E1[k].run = s /\ ~E1[k].deleted
    <3>1. j # 1 /\ j \in DOMAIN E
      BY <1>1, <2>1, <2>3
    <3>2. E1[j - 1] = E[j] /\ j - 1 \in 1..(i - 1)
      BY <1>1, <2>1, <3>1
    <3> QED BY <2>3, <3>2
  <2> QED BY <2>1, <2>2, <2>3
<1>5. \A r : Noted(r, E) => Noted(r, E1)
  <2> SUFFICES ASSUME NEW r, NEW i \in DOMAIN E, E[i].run = r, ~E[i].deleted
               PROVE  Noted(r, E1)
    BY DEF Noted
  <2>1. i - 1 \in DOMAIN E1 /\ E1[i - 1] = E[i]
    BY <1>1
  <2> QED BY <2>1 DEF Noted
<1>6. "runs" \notin closed => NoneLost(Run, todo, queues, E1)
  BY <1>3, <1>5 DEF Knows, NoneLost
<1>7. Len(E1) <= BufferSize
  BY <1>1, <1>2, BufferAssumption
<1> HIDE DEF E1, E
<1>8. Agrees(Run, pc, todo, queues, E)
  BY DEF IInv, E
<1>9. Agrees(Run, pc, todo, queues, E1)
  BY <1>1, <1>3, <1>4, <1>6, <1>7, <1>8 DEF Agrees, Typed, Knows
<1> QED BY <1>9 DEF E1

LEMMA HandleRunEventInv ==
  ASSUME IInv, HandleRunEvent
  PROVE  IInv' /\ Orderly
<1>1. PICK n, E1, W1 : n = Head(runEvents) /\ E1 = Tail(runEvents) /\ W1 = wsEvents
  OBVIOUS
<1>2. pc = "ready" /\ runEvents # <<>> /\ UNCHANGED <<created, reminders, crashes>>
  BY DEF HandleRunEvent
<1>3. W1 \in Seq(WsNote) /\ Len(W1) <= BufferSize /\ WsNotesAgree(W1)
  BY <1>1, EventsNow
<1>4. CASE n.deleted
  <2>1. /\ runEvents' = E1 /\ pc' = pc /\ todo' = todo /\ queues' = queues
        /\ UNCHANGED <<dbVars, wsEvents, closed>>
    BY <1>1, <1>4 DEF HandleRunEvent, schedVars
  <2>2. PICK p1, T1, Q1 : p1 = pc /\ T1 = todo /\ Q1 = queues
    OBVIOUS
  <2>3. Agrees(Run, p1, T1, Q1, E1)
    BY <1>1, <1>2, <1>4, <2>2, DropDeletedNote
  <2>4. p1 \in Stages
    BY <2>2 DEF IInv, TypeOK, Stages
  <2>5. pc' = p1 /\ todo' = T1 /\ queues' = Q1
    BY <2>1, <2>2
  <2>6. wsEvents' \in Seq(WsNote) /\ Len(wsEvents') <= BufferSize /\ WsNotesAgree(wsEvents')
    BY <1>1, <1>3, <2>1
  <2>7. IInv'
    BY <1>2, <2>1, <2>3, <2>4, <2>5, <2>6, HandledStep
  <2> QED BY <2>1, <2>7, StopOrderly
<1>5. CASE ~n.deleted
  <2>1. schedule(n.row.workspace, n.run, n.row, <<>>, E1, W1)
    BY <1>1, <1>5 DEF HandleRunEvent
  <2>2. Source(n, "ready", <<>>, E1)
    BY <1>1, <1>2 DEF Source
  <2>3. CASE n.row.planOnly
    BY <1>2, <1>3, <1>5, <2>1, <2>2, <2>3, SchedulePlanOnly
  <2>4. CASE ~n.row.planOnly
    BY <1>2, <1>3, <1>5, <2>1, <2>2, <2>4, ScheduleRun
  <2> QED BY <2>3, <2>4
<1> QED BY <1>4, <1>5

\* The queue of a deleted workspace holds nobody who waits or works.
LEMMA DropQueue ==
  ASSUME IInv, pc = "ready", NEW v \in Workspace, v \notin workspaces,
         NEW Q1, Q1 = [queues EXCEPT ![v] = EmptyQueue]
  PROVE  Agrees(Run, pc, todo, Q1, runEvents)
<1>1. Agrees(Run, pc, todo, queues, runEvents) /\ Knows(Run, todo, queues, runEvents)
  BY DEF IInv, Agrees, Running
<1>2. queues \in [Workspace -> QueueType] /\ EmptyQueue \in QueueType
  BY <1>1 DEF Agrees, Typed, QueueType, EmptyQueue
<1>3. /\ Q1 \in [Workspace -> QueueType] /\ Q1[v] = EmptyQueue
      /\ \A w \in Workspace : w # v => Q1[w] = queues[w]
  BY <1>2
<1>4. \A r \in Run : Exists(r) => rows[r].workspace # v
  BY DEF IInv, TablesAgree, RowsAgree
<1>5. \A r \in Run : ~Waits(r, v) /\ ~Works(r, v)
  BY <1>4 DEF Waits, Works, Exists, Gone
<1>6. \A r \in Run : Needs(r) => rows[r].workspace \in Workspace \ {v}
  BY <1>4 DEF Needs, Exists, Gone, IInv, TypeOK, TablesAgree, RowsAgree, Scheduled
<1>7. Typed(todo, Q1, runEvents) /\ Progress(pc, todo, Q1)
  BY <1>1, <1>3 DEF Agrees, Typed, Progress, Running
<1>8. QueuesAgree(Q1)
  BY <1>1, <1>3 DEF Agrees, QueuesAgree, EmptyQueue
<1>9. WorksIsCurrent(todo, Q1)
  BY <1>1, <1>3, <1>5 DEF Knows, WorksIsCurrent
<1>10. BacklogInOrder(Q1)
  BY <1>1, <1>3, <1>5 DEF Knows, BacklogInOrder, InOrder, Rivals, EmptyQueue
<1>11. TodoInOrder(todo, Q1) /\ EventsInOrder(todo, Q1, runEvents)
  BY <1>1, <1>3, <1>5 DEF Knows, TodoInOrder, EventsInOrder, Rivals
<1>12. "runs" \notin closed => NoneLost(Run, todo, Q1, runEvents)
  BY <1>1, <1>3, <1>6 DEF Knows, NoneLost
<1> QED BY <1>1, <1>7, <1>8, <1>9, <1>10, <1>11, <1>12 DEF Agrees, Knows

LEMMA HandleWorkspaceEventInv ==
  ASSUME IInv, HandleWorkspaceEvent
  PROVE  IInv' /\ Orderly
<1>1. PICK n, E1, W1 : n = Head(wsEvents) /\ E1 = runEvents /\ W1 = Tail(wsEvents)
  OBVIOUS
<1>2. pc = "ready" /\ wsEvents # <<>> /\ UNCHANGED <<created, reminders, crashes>>
  BY DEF HandleWorkspaceEvent
<1>3. /\ n \in WsNote /\ (n.deleted => n.workspace \notin workspaces)
      /\ W1 \in Seq(WsNote) /\ Len(W1) <= BufferSize /\ WsNotesAgree(W1)
  BY <1>1, <1>2, EventsNow, TailWsNotes
<1>4. PICK w : w = n.workspace
  OBVIOUS
<1>5. w \in Workspace
  BY <1>3, <1>4 DEF WsNote
<1>6. queues \in [Workspace -> QueueType] /\ todo = <<>>
  BY <1>2 DEF IInv, Agrees, Typed, Progress
<1>7. Agrees(Run, pc, todo, queues, E1) /\ Running(pc) /\ pc \in Stages
  BY <1>1, <1>2 DEF IInv, Running, Stages
<1>8. CASE n.deleted
  <2>1. PICK Q1 : Q1 = [queues EXCEPT ![w] = EmptyQueue]
    OBVIOUS
  <2>2. /\ wsEvents' = W1 /\ pc' = pc /\ todo' = todo /\ queues' = Q1 /\ runEvents' = E1
        /\ UNCHANGED <<dbVars, closed>>
    BY <1>1, <1>4, <1>8, <2>1 DEF HandleWorkspaceEvent
  <2>3. PICK p1, T1 : p1 = pc /\ T1 = todo
    OBVIOUS
  <2>4. Agrees(Run, p1, T1, Q1, E1)
    BY <1>1, <1>2, <1>3, <1>4, <1>5, <1>8, <2>1, <2>3, DropQueue
  <2>5. pc' = p1 /\ todo' = T1 /\ p1 \in Stages
    BY <1>7, <2>2, <2>3
  <2>6. wsEvents' \in Seq(WsNote) /\ Len(wsEvents') <= BufferSize /\ WsNotesAgree(wsEvents')
    BY <1>3, <2>2
  <2>7. IInv'
    BY <1>2, <2>2, <2>4, <2>5, <2>6, HandledStep
  <2> QED BY <2>2, <2>7, StopOrderly
<1>9. CASE ~n.deleted
  <2>1. PICK row, d, q1, Q1 : /\ row = NoRow("absent") /\ q1 = queues[w] /\ Q1 = queues
                              /\ d = process(queues[w], Nobody, row.status)
    OBVIOUS
  <2>2. schedule(w, Nobody, row, <<>>, E1, W1)
    BY <1>1, <1>4, <1>9, <2>1 DEF HandleWorkspaceEvent
  <2>3. Promotes(q1, d) /\ ~d.unlock
    BY <2>1, ProcessPromotes
  <2>4. q1 \in QueueType /\ Q1 = [queues EXCEPT ![w] = q1]
    BY <1>5, <1>6, <2>1
  <2>5. Agrees(Run, "ready", <<>>, Q1, E1)
    BY <1>2, <1>6, <1>7, <2>1
  <2>6. ~(Nobody # Nobody /\ row.planOnly) /\ "ready" \in Stages
    BY DEF Stages
  <2>7. IInv'
    BY <1>2, <1>3, <1>5, <1>7, <2>1, <2>2, <2>3, <2>4, <2>5, <2>6, ScheduleQueue
  <2>8. Orderly
    BY <1>2, <1>5, <1>7, <2>1, <2>2, <2>3, <2>4, <2>5, <2>6, ScheduleOrderly
  <2> QED BY <2>7, <2>8
<1> QED BY <1>8, <1>9

-----------------------------------------------------------------------------
(* Every step *)

LEMMA InitInv == Init => IInv
<1> SUFFICES ASSUME Init PROVE IInv
  OBVIOUS
<1>1. /\ \A r \in Run : rows[r] = NoRow("absent")
      /\ rows \in [Run -> Row] /\ lock = [w \in Workspace |-> Nobody]
      /\ workspaces = Workspace /\ created = <<>> /\ reminders = {} /\ pc = "down"
      /\ todo = <<>> /\ queues = [w \in Workspace |-> EmptyQueue]
      /\ runEvents = <<>> /\ wsEvents = <<>> /\ closed = {} /\ crashes = 0
  BY DEF Init, DbInit, NoRow, Row, Status, Gone
<1>2. TypeOK
  BY <1>1, SchedulerAssumption, BufferAssumption DEF TypeOK, EmptyQueue
<1>3. \A r \in Run : rows[r].status = "absent"
  BY DEF Init, DbInit, NoRow
<1>4. TablesAgree
  BY <1>1, <1>3, SchedulerAssumption
     DEF TablesAgree, CreatedOnce, CreatedExist, RowsAgree, LocksAgree, Exists, Gone
<1>5. OneWorks /\ WorksFirst
  BY <1>3 DEF OneWorks, WorksFirst, Works
<1>6. WsNotesAgree(wsEvents)
  BY <1>1 DEF WsNotesAgree
<1>7. Agrees(Run, pc, todo, queues, runEvents)
  BY <1>1, <1>2
     DEF Agrees, Typed, TypeOK, QueueType, Progress, Running, NotesAgree, QueuesAgree, EmptyQueue
<1> QED BY <1>2, <1>4, <1>5, <1>6, <1>7 DEF IInv

LEMMA StutterInv ==
  ASSUME IInv, UNCHANGED vars
  PROVE  IInv'
<1>1. PICK p1, T1, Q1, E1 : p1 = pc /\ T1 = todo /\ Q1 = queues /\ E1 = runEvents
  OBVIOUS
<1>2. /\ UNCHANGED <<dbVars, created, reminders, closed, crashes>>
      /\ pc' = p1 /\ todo' = T1 /\ queues' = Q1 /\ runEvents' = E1 /\ wsEvents' = wsEvents
  BY <1>1 DEF vars, schedVars, busVars
<1>3. p1 \in Stages /\ Agrees(Run, p1, T1, Q1, E1)
  BY <1>1 DEF IInv, TypeOK, Stages
<1>4. wsEvents' \in Seq(WsNote) /\ Len(wsEvents') <= BufferSize /\ WsNotesAgree(wsEvents')
  BY <1>2, EventsNow
<1> QED BY <1>2, <1>3, <1>4, HandledStep

LEMMA NextInv ==
  ASSUME ~CostEstimation, IInv, [Next]_vars
  PROVE  IInv'
<1>1. CASE UNCHANGED vars
  BY <1>1, StutterInv
<1>2. CASE SchedulerStep
  <2>1. CASE WatchWorkspaces \/ WatchRuns
    BY <2>1, WatchInv
  <2>2. CASE ListRuns
    BY <2>2, ListRunsInv
  <2>3. CASE Seed
    BY <2>3, SeedInv
  <2>4. CASE HandleRunEvent
    BY <2>4, HandleRunEventInv
  <2>5. CASE HandleWorkspaceEvent
    BY <2>5, HandleWorkspaceEventInv
  <2>6. CASE SubscriptionTerminated
    BY <2>6, CrashInv
  <2> QED BY <1>2, <2>1, <2>2, <2>3, <2>4, <2>5, <2>6 DEF SchedulerStep
<1>3. CASE Others
  <2>1. ASSUME NEW r \in Run, CreateRun(r)
        PROVE  IInv'
    BY <2>1, CreateRunInv
  <2>2. ASSUME NEW r \in Run, SignalRun(r) \/ TriggerEvent(r)
        PROVE  IInv'
    BY <2>2, SignalInv
  <2>3. ASSUME NEW r \in Run, RemoveRun(r)
        PROVE  IInv'
    BY <2>3, RemoveRunInv
  <2>4. ASSUME NEW r \in Run, NEW to \in Status, UpdateRun(r, to)
        PROVE  IInv'
    BY <2>4, UpdateRunInv
  <2>5. ASSUME NEW w \in Workspace, RemoveWorkspace(w)
        PROVE  IInv'
    BY <2>5, RemoveWorkspaceInv
  <2>6. ASSUME NEW w \in Workspace,
               \/ \E u \in User : UserLocks(w, u)
               \/ \E u \in User, force \in BOOLEAN : UserUnlocks(w, u, force)
               \/ UpdateWorkspace(w)
        PROVE  IInv'
    BY <2>6, WorkspaceStepInv
  <2> QED BY <1>3, <2>1, <2>2, <2>3, <2>4, <2>5, <2>6 DEF Others
<1>4. CASE Crash
  BY <1>4, CrashInv
<1>5. CASE MissRunEvent
  BY <1>5, MissRunEventInv
<1>6. CASE MissWorkspaceEvent
  BY <1>6, MissWorkspaceEventInv
<1> QED BY <1>1, <1>2, <1>3, <1>4, <1>5, <1>6 DEF Next

\* What the users, the runners and the timeout daemon do to the rows.
LEMMA OthersOrderly ==
  ASSUME IInv, Others
  PROVE  Orderly
<1>0. /\ rows \in [Run -> Row] /\ lock \in [Workspace -> Run \cup User \cup {Nobody}]
      /\ LocksAgree
  BY DEF IInv, TypeOK, TablesAgree
<1>1. ASSUME NEW r \in Run, CreateRun(r)
      PROVE  Orderly
  <2>1. PICK w \in Workspace, planOnly \in BOOLEAN : InsertRun(r, w, planOnly)
    BY <1>1 DEF CreateRun
  <2>2. /\ lock' = lock
        /\ \A s \in Run : rows'[s] = rows[s] \/ rows'[s].status = "pending"
    BY <1>0, <2>1 DEF InsertRun
  <2>3. \A s \in Run : rows'[s].status = "active" => rows[s].status = "active"
    BY <2>2
  <2> QED BY <2>2, <2>3, StillOrderly
<1>2. ASSUME NEW r \in Run, SignalRun(r) \/ TriggerEvent(r)
      PROVE  Orderly
  BY <1>2, StopOrderly DEF SignalRun, TriggerEvent
<1>3. ASSUME NEW r \in Run, RemoveRun(r)
      PROVE  Orderly
  <2>1. /\ \A s \in Run : rows'[s] = rows[s] \/ rows'[s].status = "deleted"
        /\ rows'[r].status = "deleted"
        /\ \A w \in Workspace : lock[w] # r => lock'[w] = lock[w]
    BY <1>0, <1>3 DEF RemoveRun, DeleteRun, NoRow
  <2>2. \A s \in Run : rows'[s].status = "active" => rows[s].status = "active" /\ s # r
    BY <2>1
  <2> QED BY <2>1, <2>2 DEF Orderly, InTurn, KeepsLock, Waits
<1>4. ASSUME NEW r \in Run, NEW to \in Status, UpdateRun(r, to)
      PROVE  Orderly
  <2>1. lock' = lock /\ to \in Moves(rows[r].status) /\ rows' = [rows EXCEPT ![r].status = to]
    BY <1>4 DEF UpdateRun, UpdateStatus
  <2>2. \A s \in Run, w \in Workspace : Waits(s, w) => rows'[s].status # "active"
    BY <1>0, <2>1 DEF Moves, Waits, Done
  <2> QED BY <2>1, <2>2 DEF Orderly, InTurn, KeepsLock
<1>5. ASSUME NEW w \in Workspace, RemoveWorkspace(w)
      PROVE  Orderly
  <2>1. /\ \A s \in Run : rows'[s] = IF s \in RunsOf(w) THEN NoRow("deleted") ELSE rows[s]
        /\ \A v \in Workspace : v # w => lock'[v] = lock[v]
    BY <1>0, <1>5 DEF RemoveWorkspace, DeleteWorkspace
  <2>2. \A s \in Run : rows'[s].status = "active" =>
          rows[s].status = "active" /\ s \notin RunsOf(w)
    BY <2>1 DEF NoRow
  <2>3. \A s \in Run : lock[w] = s => s \in RunsOf(w)
    BY <1>0 DEF LocksAgree, RunsOf
  <2>4. InTurn
    BY <2>2 DEF InTurn, Waits
  <2>5. KeepsLock
    BY <2>1, <2>2, <2>3 DEF KeepsLock
  <2> QED BY <2>4, <2>5 DEF Orderly
<1>6. ASSUME NEW w \in Workspace, NEW u \in User, UserLocks(w, u)
      PROVE  Orderly
  <2>1. /\ rows' = rows /\ lock[w] = Nobody
        /\ \A v \in Workspace : v # w => lock'[v] = lock[v]
    BY <1>0, <1>6 DEF UserLocks, LockByUser
  <2> QED BY <2>1, SchedulerAssumption DEF Orderly, InTurn, KeepsLock, Waits, Works
<1>7. ASSUME NEW w \in Workspace, NEW u \in User, NEW force \in BOOLEAN, UserUnlocks(w, u, force)
      PROVE  Orderly
  <2>1. /\ rows' = rows /\ (lock[w] = u \/ force)
        /\ \A v \in Workspace : v # w => lock'[v] = lock[v]
    BY <1>0, <1>7 DEF UserUnlocks, Unlock
  <2>2. \A r \in Run : lock[w] = r => \E x \in User : UserUnlocks(w, x, TRUE)
    <3>1. ASSUME NEW r \in Run, lock[w] = r
          PROVE  force = TRUE
      BY <2>1, <3>1, SchedulerAssumption
    <3> QED BY <1>7, <3>1
  <2>3. InTurn
    BY <2>1 DEF InTurn, Waits, Works
  <2>4. KeepsLock
    BY <2>1, <2>2 DEF KeepsLock
  <2> QED BY <2>3, <2>4 DEF Orderly
<1>8. ASSUME NEW w \in Workspace, UpdateWorkspace(w)
      PROVE  Orderly
  BY <1>8, StopOrderly DEF UpdateWorkspace
<1> QED BY <1>1, <1>2, <1>3, <1>4, <1>5, <1>6, <1>7, <1>8 DEF Others

LEMMA NextOrderly ==
  ASSUME IInv, [Next]_vars
  PROVE  Orderly
<1>1. CASE UNCHANGED vars
  BY <1>1, StopOrderly DEF vars
<1>2. CASE SchedulerStep
  <2>1. CASE WatchWorkspaces \/ WatchRuns \/ ListRuns \/ SubscriptionTerminated
    BY <2>1, StopOrderly DEF WatchWorkspaces, WatchRuns, ListRuns, SubscriptionTerminated, Stop
  <2> QED BY <1>2, <2>1, SeedInv, HandleRunEventInv, HandleWorkspaceEventInv DEF SchedulerStep
<1>3. CASE Others
  BY <1>3, OthersOrderly
<1>4. CASE Crash \/ MissRunEvent \/ MissWorkspaceEvent
  BY <1>4, StopOrderly DEF Crash, Stop, MissRunEvent, MissWorkspaceEvent
<1> QED BY <1>1, <1>2, <1>3, <1>4 DEF Next

-----------------------------------------------------------------------------
(* What follows *)

\* What the queues, the list and the events say of the rows stays right.
THEOREM SchedulerInvariance ==
  ASSUME ~CostEstimation
  PROVE  Spec => []IInv
BY InitInv, NextInv, PTL DEF Spec

\* No run is forgotten across subscribing, listing, crashes and restarts: once
\* the scheduler has listed the runs, a run that needs it is in the queue of
\* its workspace, is listed, or has an event on its way.
THEOREM NobodyForgotten ==
  ASSUME ~CostEstimation
  PROVE  Spec => []RunsAreKnown
<1>1. IInv => RunsAreKnown
  <2> SUFFICES ASSUME IInv PROVE NoRunForgotten
    BY DEF RunsAreKnown, IInv
  <2>1. SUFFICES ASSUME pc \in {"seeding", "ready"}, "runs" \notin closed, NEW r \in Run,
                        Needs(r), ~(rows[r].planOnly /\ rows[r].status # "pending")
                 PROVE  \/ ~rows[r].planOnly /\ Queued(r)
                        \/ Noted(r, todo) \/ Noted(r, runEvents)
    BY DEF NoRunForgotten, Needs
  <2>2. NoneLost(Run, todo, queues, runEvents)
    BY <2>1 DEF IInv, Agrees, Running, Knows
  <2> QED BY <2>1, <2>2 DEF NoneLost, Queued
<1> QED BY <1>1, SchedulerInvariance, PTL

\* A workspace has at most one run that is enqueued and not done, across
\* restarts of the scheduler and whatever the events say.
THEOREM OneAtATime ==
  ASSUME ~CostEstimation
  PROVE  Spec => []OneActiveRun
<1>1. IInv => OneActiveRun
  <2> SUFFICES ASSUME IInv, NEW w \in Workspace
               PROVE  Cardinality(ActiveRuns(w)) <= 1
    BY DEF OneActiveRun
  <2>1. \A r \in ActiveRuns(w) : r \in Run /\ Works(r, w)
    BY DEF ActiveRuns, Works, IInv, TablesAgree, RowsAgree, Scheduled
  <2>2. \A r, s \in ActiveRuns(w) : r = s
    BY <2>1 DEF IInv, OneWorks
  <2>3. CASE ActiveRuns(w) = {}
    BY <2>3, FS_EmptySet
  <2>4. CASE ActiveRuns(w) # {}
    <3>1. PICK r : ActiveRuns(w) = {r}
      BY <2>2, <2>4
    <3>2. Cardinality({r}) = 1
      BY FS_Singleton
    <3> QED BY <3>1, <3>2
  <2> QED BY <2>3, <2>4
<1> QED BY <1>1, SchedulerInvariance, PTL

\* The runs of a workspace get their turn in the order in which they were
\* created, also those listed at a restart and those whose events overtake.
THEOREM InOrderOfCreation ==
  ASSUME ~CostEstimation
  PROVE  Spec => FirstComeFirstServed
<1> DEFINE Step ==
      \A r, s \in Run :
       /\ rows[r].status = "pending" /\ rows'[r].status = "active"
       /\ rows[s].status = "pending"
       /\ ~rows[r].planOnly /\ ~rows[s].planOnly
       /\ rows[r].workspace = rows[s].workspace
       => \E i, j \in DOMAIN created : i <= j /\ created[i] = r /\ created[j] = s
<1>1. ASSUME IInv, [Next]_vars
      PROVE  Step
  <2> SUFFICES ASSUME NEW r \in Run, NEW s \in Run,
                      rows[r].status = "pending", rows'[r].status = "active",
                      rows[s].status = "pending",
                      ~rows[r].planOnly, ~rows[s].planOnly,
                      rows[r].workspace = rows[s].workspace
               PROVE  \E i, j \in DOMAIN created : i <= j /\ created[i] = r /\ created[j] = s
    OBVIOUS
  <2>1. created \in Seq(Run) /\ CreatedExist
    BY <1>1 DEF IInv, TypeOK, TablesAgree
  <2>2. CASE r = s
    BY <2>1, <2>2 DEF CreatedExist
  <2>3. CASE r # s
    <3>1. PICK w \in Workspace : w = rows[r].workspace
      BY <1>1 DEF IInv, TypeOK, TablesAgree, RowsAgree, Exists, Gone
    <3>2. Waits(r, w) /\ Waits(s, w)
      BY <3>1 DEF Waits
    <3>3. Before(r, s)
      BY <1>1, <2>3, <3>2, NextOrderly DEF Orderly, InTurn
    <3> QED BY <2>1, <3>3 DEF Before
  <2> QED BY <2>2, <2>3
<1>2. IInv /\ [Next]_vars => [Step]_vars
  BY <1>1
<1> QED BY <1>2, SchedulerInvariance, PTL DEF Spec, FirstComeFirstServed

\* Nobody but a user who forces it takes the lock of a workspace away from a
\* run that is at work: neither a stale event nor a run that is next does.
THEOREM WorkKeepsLock ==
  ASSUME ~CostEstimation
  PROVE  Spec => ActiveRunKeepsLock
<1> DEFINE Step ==
      \A w \in Workspace, r \in Run :
       /\ lock[w] = r /\ lock'[w] # r
       /\ rows[r].status \in Scheduled /\ rows'[r].status \in Scheduled
       => \E u \in User : UserUnlocks(w, u, TRUE)
<1>1. ASSUME IInv, IInv', [Next]_vars
      PROVE  Step
  <2> SUFFICES ASSUME NEW w \in Workspace, NEW r \in Run,
                      lock[w] = r, lock'[w] # r,
                      rows[r].status \in Scheduled, rows'[r].status \in Scheduled
               PROVE  \E u \in User : UserUnlocks(w, u, TRUE)
    OBVIOUS
  <2>1. Works(r, w)
    BY <1>1 DEF IInv, TablesAgree, LocksAgree, RowsAgree, Works, Scheduled
  <2>2. rows'[r].status = "active"
    BY <1>1 DEF IInv, TablesAgree, RowsAgree, Scheduled
  <2> QED BY <1>1, <2>1, <2>2, NextOrderly DEF Orderly, KeepsLock
<1>2. IInv /\ IInv' /\ [Next]_vars => [Step]_vars
  BY <1>1
<1> QED BY <1>2, SchedulerInvariance, PTL DEF Spec, ActiveRunKeepsLock
=============================================================================
