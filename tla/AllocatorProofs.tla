-------------------------- MODULE AllocatorProofs --------------------------
(***************************************************************************)
(* Proofs about Allocator, for any sets of jobs and runners, any size of   *)
(* the buffers and any number of crashes.                                  *)
(*                                                                         *)
(* The caches are filled from lists and from events that are older or      *)
(* newer than the lists.  What keeps them right is that the newest event   *)
(* of a job or a runner that is on its way tells its present status, and   *)
(* that what is cached of one that no event is on its way of is its row.   *)
(***************************************************************************)
EXTENDS Allocator, TLAPS, SequenceTheorems, FiniteSetTheorems

-----------------------------------------------------------------------------
(* What Deliver does to a buffer, for any events and any size *)

\* The result is a stretch of the events that were and that came; the newest
\* are missing only from a subscription that is closed.
StretchOf(result, all, watching, whole) ==
  \E d \in Nat :
    /\ \A i \in DOMAIN result : i + d \in DOMAIN all /\ result[i] = all[i + d]
    /\ watching => d = 0
    /\ whole => Len(all) = Len(result) + d

LEMMA DeliverStretch ==
  ASSUME NEW S, NEW buffer \in Seq(S), NEW events \in Seq(S),
         NEW watching \in BOOLEAN, NEW isClosed \in BOOLEAN,
         Len(buffer) <= BufferSize
  PROVE  /\ Deliver(buffer, events, watching, isClosed) \in Seq(S)
         /\ Len(Deliver(buffer, events, watching, isClosed)) <= BufferSize
         /\ StretchOf(Deliver(buffer, events, watching, isClosed), buffer \o events, watching,
                      ~(watching /\ (isClosed \/ ~Fits(buffer, events))))
<1> DEFINE all == buffer \o events
           result == Deliver(buffer, events, watching, isClosed)
<1>1. /\ all \in Seq(S)
      /\ Len(all) = Len(buffer) + Len(events)
      /\ \A i \in DOMAIN buffer : i \in DOMAIN all /\ all[i] = buffer[i]
  BY ConcatProperties
<1>2. BufferSize \in Nat
  BY BufferAssumption
<1> HIDE DEF all
<1>3. CASE watching /\ isClosed
  <2>1. result = buffer
    BY <1>3 DEF Deliver, all
  <2>2. \A i \in DOMAIN result : i + 0 \in DOMAIN all /\ result[i] = all[i + 0]
    BY <1>1, <2>1
  <2> QED BY <1>3, <2>1, <2>2 DEF StretchOf, all
<1>4. CASE ~(watching /\ isClosed) /\ Fits(buffer, events)
  <2>1. result = all
    BY <1>4 DEF Deliver, all
  <2>2. \A i \in DOMAIN result : i + 0 \in DOMAIN all /\ result[i] = all[i + 0]
    BY <1>1, <2>1
  <2>3. Len(all) = Len(result) + 0 /\ Len(all) <= BufferSize
    BY <1>1, <1>4, <2>1 DEF Fits
  <2> QED BY <1>1, <2>1, <2>2, <2>3 DEF StretchOf, all
<1>5. CASE watching /\ ~isClosed /\ ~Fits(buffer, events)
  <2>1. result = SubSeq(all, 1, BufferSize)
    BY <1>5 DEF Deliver, all
  <2>2. Len(all) > BufferSize
    BY <1>1, <1>2, <1>5 DEF Fits
  <2>3. /\ result \in Seq(S) /\ Len(result) <= BufferSize
        /\ \A i \in DOMAIN result : i + 0 \in DOMAIN all /\ result[i] = all[i + 0]
    BY <2>1, <2>2, <1>1, <1>2
  <2> QED BY <1>5, <2>3 DEF StretchOf, all
<1>6. CASE ~watching /\ ~Fits(buffer, events)
  <2> DEFINE d == Len(all) - BufferSize
  <2>1. result = SubSeq(all, d + 1, Len(all))
    BY <1>6 DEF Deliver, all
  <2>2. Len(all) > BufferSize /\ d \in Nat
    BY <1>1, <1>2, <1>6 DEF Fits
  <2>3. /\ result \in Seq(S)
        /\ Len(result) = BufferSize
        /\ \A i \in 1..BufferSize : result[i] = all[d + 1 + i - 1]
    <3>1. d + 1 \in 1..(Len(all) + 1) /\ Len(all) - (d + 1) + 1 = BufferSize
      BY <2>2, <1>1, <1>2
    <3> HIDE DEF d, result
    <3> QED BY <2>1, <2>2, <3>1, <1>1, <1>2, SubSeqProperties
  <2>4. \A i \in 1..BufferSize : i + d \in DOMAIN all /\ d + 1 + i - 1 = i + d
    BY <2>2, <1>1, <1>2
  <2>5. DOMAIN result = 1..BufferSize
    <3> HIDE DEF result
    <3> QED BY <2>3
  <2>6. \A i \in DOMAIN result : i + d \in DOMAIN all /\ result[i] = all[i + d]
    <3> HIDE DEF result, d
    <3> QED BY <2>3, <2>4, <2>5
  <2>7. Len(all) = Len(result) + d
    BY <2>3, <1>1, <1>2
  <2> HIDE DEF result, d
  <2> QED BY <1>2, <1>6, <2>2, <2>3, <2>6, <2>7 DEF StretchOf, all, result
<1> QED BY <1>3, <1>4, <1>5, <1>6

\* The sequence of a finite set has all of its members.
LEMMA SetToSeqProperties ==
  ASSUME NEW S, IsFiniteSet(S)
  PROVE  /\ SetToSeq(S) \in Seq(S)
         /\ \A x \in S : \E i \in DOMAIN SetToSeq(S) : SetToSeq(S)[i] = x
<1> DEFINE n == Cardinality(S)
<1>1. n \in Nat /\ ExistsBijection(1..n, S)
  BY FS_CardinalityType
<1> HIDE DEF n
<1>2. \E f \in [1..n -> S] : IsInjective(f)
  BY <1>1 DEF ExistsBijection, Bijection, Injection
<1> DEFINE f == SetToSeq(S)
<1>3. f \in [1..n -> S] /\ IsInjective(f)
  BY <1>2 DEF SetToSeq, n
<1> HIDE DEF f
<1>4. f \in Injection(1..n, S)
  BY <1>3 DEF Injection
<1>5. Cardinality(1..n) = n
  BY <1>1, FS_Interval
<1>6. f \in Surjection(1..n, S)
  BY <1>4, <1>5, FS_Injection DEF n
<1>7. f \in Seq(S) /\ DOMAIN f = 1..n
  BY <1>1, <1>3
<1>8. \A x \in S : \E i \in DOMAIN f : f[i] = x
  BY <1>6, <1>7 DEF Surjection
<1> QED BY <1>7, <1>8 DEF f
-----------------------------------------------------------------------------
(* The inductive invariant *)

\* A job that is, or was, handed out has a runner, which has a row.
RowAgrees(j) ==
  LET row == jobRows[j] IN
  /\ row.status \in {"allocated", "running"} => row.runner # Nobody
  /\ row.status \in {"unallocated"} \cup Gone => row.runner = Nobody
  /\ row.runner # Nobody => runnerRows[row.runner] \notin Gone

\* An event is older than the row, and a row only moves on.
JobEventAgrees(e) ==
  LET row == jobRows[e.job]
      cached == cachedJobs[e.job] IN
  /\ row.status # "absent"
  /\ e.kind = "created" => e.status = "unallocated"
  /\ e.kind = "updated" => e.status \in {"allocated", "running", "done"}
  /\ e.kind = "deleted" => e.status = "deleted"
  /\ e.status = "deleted" => row.status = "deleted"
  /\ e.status = "done" => row.status \in {"done", "deleted"}
  /\ e.status \in {"allocated", "running"} =>
       /\ row.status = "deleted" \/ row.runner # Nobody
       /\ cached.status = "absent" \/ cached.runner # Nobody

RunnerEventAgrees(e) ==
  /\ runnerRows[e.runner] # "absent"
  /\ e.status # "absent"
  /\ e.kind = "deleted" <=> e.status = "deleted"
  /\ e.status = "deleted" => runnerRows[e.runner] = "deleted"

\* A cached job is one whose row exists or did, and its runner is the row's;
\* one that is done is looked at in this round.
CachedAgrees(j) ==
  LET row == jobRows[j]
      cached == cachedJobs[j] IN
  /\ cached.status # "deleted"
  /\ cached.status = "absent" => cached.runner = Nobody
  /\ cached.status # "absent" =>
       /\ pc = "ready"
       /\ row.status # "absent"
       /\ row.status = "deleted" \/ cached.runner = row.runner
  /\ cached.status \in {"allocated", "running"} => cached.runner # Nobody
  /\ cached.status = "done" => row.status \in {"done", "deleted"} /\ j \in todo
  /\ j \in todo => cached.status # "absent"

\* The newest event on its way tells the present status.
NewestJobAgrees(E) ==
  \A i \in DOMAIN E : (\A k \in DOMAIN E : k > i => E[k].job # E[i].job)
                      => E[i].status = jobRows[E[i].job].status
NewestRunnerAgrees(E) ==
  \A i \in DOMAIN E : (\A k \in DOMAIN E : k > i => E[k].runner # E[i].runner)
                      => E[i].status = runnerRows[E[i].runner]

\* What is cached of a job that no event is on its way of.
JobIsFresh(j) ==
  IF jobRows[j].status \in Gone \cup {"done"}
  THEN cachedJobs[j].status \in {"absent", "done"}
  ELSE cachedJobs[j] = jobRows[j]
RunnerIsFresh(n) ==
  cachedRunners[n] = IF runnerRows[n] \in Gone THEN "absent" ELSE runnerRows[n]

JobNoted(E, j) == \E i \in DOMAIN E : E[i].job = j
RunnerNoted(E, n) == \E i \in DOMAIN E : E[i].runner = n

JobsAgree ==
  /\ \A j \in Job : RowAgrees(j) /\ CachedAgrees(j)
  /\ \A i \in DOMAIN jobEvents : JobEventAgrees(jobEvents[i])
  /\ "jobs" \notin closed =>
       /\ NewestJobAgrees(jobEvents)
       /\ pc = "ready" => \A j \in Job : JobNoted(jobEvents, j) \/ JobIsFresh(j)

RunnersAgree ==
  /\ \A i \in DOMAIN runnerEvents : RunnerEventAgrees(runnerEvents[i])
  /\ "runners" \notin closed =>
       /\ NewestRunnerAgrees(runnerEvents)
       /\ pc \in {"listed", "ready"} =>
            \A n \in Runner : RunnerNoted(runnerEvents, n) \/ RunnerIsFresh(n)

IInv == TypeOK /\ JobsAgree /\ RunnersAgree

-----------------------------------------------------------------------------
(* Events that are published *)

LEMMA ConstantsTyped ==
  /\ IsFiniteSet(Job) /\ Nobody \notin Job /\ Nobody \notin Runner
  /\ MaxJobs \in Nat /\ BufferSize \in Nat /\ BufferSize > 0
BY AllocatorAssumption, BufferAssumption

LEMMA ConcatParts ==
  ASSUME NEW S, NEW a \in Seq(S), NEW b \in Seq(S)
  PROVE  /\ a \o b \in Seq(S)
         /\ Len(a \o b) = Len(a) + Len(b)
         /\ \A i \in DOMAIN a : i \in DOMAIN (a \o b) /\ (a \o b)[i] = a[i]
         /\ \A i \in DOMAIN (a \o b) :
              \/ i \in DOMAIN a
              \/ i > Len(a) /\ i - Len(a) \in DOMAIN b /\ (a \o b)[i] = b[i - Len(a)]
         /\ \A k \in DOMAIN b :
              k + Len(a) \in DOMAIN (a \o b) /\ (a \o b)[k + Len(a)] = b[k]
BY ConcatProperties

\* What Arrive leaves of the events.
LEMMA ArriveStretch ==
  ASSUME NEW S, NEW E \in Seq(S), NEW evs \in Seq(S), Len(E) <= BufferSize,
         NEW watching \in BOOLEAN, NEW isClosed \in BOOLEAN, NEW F,
         F = Arrive(E, evs, watching, isClosed)
  PROVE  /\ F \in Seq(S) /\ Len(F) <= BufferSize
         /\ \/ F = <<>> /\ ~watching
            \/ StretchOf(F, E \o evs, watching,
                         ~(watching /\ (isClosed \/ ~Fits(E, evs))))
         /\ ~LateEvents /\ ~watching => F = <<>>
<1> DEFINE D == Deliver(E, evs, watching, isClosed)
<1>1. D \in Seq(S) /\ Len(D) <= BufferSize
  BY DeliverStretch
<1>2. StretchOf(D, E \o evs, watching, ~(watching /\ (isClosed \/ ~Fits(E, evs))))
  BY DeliverStretch
<1>3. F = D \/ (F = <<>> /\ ~watching)
  BY DEF Arrive, InFlight
<1>4. ~LateEvents /\ ~watching => F = <<>>
  BY DEF Arrive, InFlight
<1>5. <<>> \in Seq(S) /\ Len(<<>>) <= BufferSize
  BY ConstantsTyped
<1> HIDE DEF D
<1> QED BY <1>1, <1>2, <1>3, <1>4, <1>5

\* Where an event of the result was.
LEMMA StretchParts ==
  ASSUME NEW S, NEW E \in Seq(S), NEW evs \in Seq(S), NEW F \in Seq(S),
         NEW watching \in BOOLEAN, NEW whole \in BOOLEAN,
         StretchOf(F, E \o evs, watching, whole)
  PROVE  \A i \in DOMAIN F : \/ \E k \in DOMAIN E : F[i] = E[k]
                             \/ \E k \in DOMAIN evs : F[i] = evs[k]
<1>1. PICK d \in Nat :
        /\ \A i \in DOMAIN F : i + d \in DOMAIN (E \o evs) /\ F[i] = (E \o evs)[i + d]
        /\ watching => d = 0
        /\ whole => Len(E \o evs) = Len(F) + d
  BY DEF StretchOf
<1>2. ASSUME NEW i \in DOMAIN F
      PROVE  \/ \E k \in DOMAIN E : F[i] = E[k]
             \/ \E k \in DOMAIN evs : F[i] = evs[k]
  <2> DEFINE all == E \o evs
  <2>1. i + d \in DOMAIN all /\ F[i] = all[i + d]
    BY <1>1
  <2>2. /\ \A k \in DOMAIN E : all[k] = E[k]
        /\ \A k \in DOMAIN all : \/ k \in DOMAIN E
                                 \/ k - Len(E) \in DOMAIN evs /\ all[k] = evs[k - Len(E)]
    BY ConcatParts
  <2> HIDE DEF all
  <2> QED BY <2>1, <2>2
<1> QED BY <1>2

\* A subscription that stays open has all of them.
LEMMA StretchWhole ==
  ASSUME NEW S, NEW E \in Seq(S), NEW evs \in Seq(S), NEW F \in Seq(S),
         StretchOf(F, E \o evs, TRUE, TRUE)
  PROVE  F = E \o evs
<1> DEFINE all == E \o evs
<1>1. all \in Seq(S)
  BY ConcatParts
<1>2. /\ \A i \in DOMAIN F : i + 0 \in DOMAIN all /\ F[i] = all[i + 0]
      /\ Len(all) = Len(F) + 0
  BY DEF StretchOf
<1> HIDE DEF all
<1>3. Len(all) = Len(F) /\ \A i \in 1..Len(F) : F[i] = all[i]
  BY <1>1, <1>2
<1>4. F = all
  BY <1>1, <1>3, SeqEqual
<1> QED BY <1>4 DEF all

LEMMA JobsArrive ==
  ASSUME TypeOK, NEW evs \in Seq(JobEvent), NEW revs \in Seq(RunnerEvent),
         Emit(evs, revs)
  PROVE  /\ jobEvents' \in Seq(JobEvent) /\ Len(jobEvents') <= BufferSize
         /\ \/ jobEvents' = <<>> /\ ~WatchingJobs
            \/ StretchOf(jobEvents', jobEvents \o evs, WatchingJobs, "jobs" \notin closed')
         /\ ~LateEvents /\ ~WatchingJobs => jobEvents' = <<>>
         /\ "jobs" \notin closed' => "jobs" \notin closed
<1> DEFINE whole == ~(WatchingJobs /\ ("jobs" \in closed \/ ~Fits(jobEvents, evs)))
<1>1. jobEvents \in Seq(JobEvent) /\ Len(jobEvents) <= BufferSize
  BY DEF TypeOK
<1>2. jobEvents' = Arrive(jobEvents, evs, WatchingJobs, "jobs" \in closed)
  BY DEF Emit, Publish
<1>3. WatchingJobs \in BOOLEAN /\ ("jobs" \in closed) \in BOOLEAN
  BY DEF WatchingJobs
<1>4. /\ jobEvents' \in Seq(JobEvent) /\ Len(jobEvents') <= BufferSize
      /\ \/ jobEvents' = <<>> /\ ~WatchingJobs
         \/ StretchOf(jobEvents', jobEvents \o evs, WatchingJobs, whole)
  BY <1>1, <1>2, <1>3, ArriveStretch
<1>8. ~LateEvents /\ ~WatchingJobs => jobEvents' = <<>>
  BY <1>2 DEF Arrive, InFlight
<1>5. "jobs" \in closed' <=> "jobs" \in closed \/ Overflows(jobEvents, evs, WatchingJobs)
  BY DEF Emit, Publish
<1>6. "jobs" \notin closed' => whole
  BY <1>5 DEF Overflows
<1>7. ASSUME StretchOf(jobEvents', jobEvents \o evs, WatchingJobs, whole)
      PROVE  StretchOf(jobEvents', jobEvents \o evs, WatchingJobs, "jobs" \notin closed')
  <2> HIDE DEF whole
  <2> QED BY <1>6, <1>7 DEF StretchOf
<1> QED BY <1>4, <1>5, <1>7, <1>8

LEMMA RunnersArrive ==
  ASSUME TypeOK, NEW evs \in Seq(JobEvent), NEW revs \in Seq(RunnerEvent),
         Emit(evs, revs)
  PROVE  /\ runnerEvents' \in Seq(RunnerEvent) /\ Len(runnerEvents') <= BufferSize
         /\ \/ runnerEvents' = <<>> /\ ~WatchingRunners
            \/ StretchOf(runnerEvents', runnerEvents \o revs, WatchingRunners,
                         "runners" \notin closed')
         /\ "runners" \notin closed' => "runners" \notin closed
<1> DEFINE whole == ~(WatchingRunners /\ ("runners" \in closed \/ ~Fits(runnerEvents, revs)))
<1>1. runnerEvents \in Seq(RunnerEvent) /\ Len(runnerEvents) <= BufferSize
  BY DEF TypeOK
<1>2. runnerEvents' = Arrive(runnerEvents, revs, WatchingRunners, "runners" \in closed)
  BY DEF Emit, Publish
<1>3. WatchingRunners \in BOOLEAN /\ ("runners" \in closed) \in BOOLEAN
  BY DEF WatchingRunners, WatchingJobs
<1>4. /\ runnerEvents' \in Seq(RunnerEvent) /\ Len(runnerEvents') <= BufferSize
      /\ \/ runnerEvents' = <<>> /\ ~WatchingRunners
         \/ StretchOf(runnerEvents', runnerEvents \o revs, WatchingRunners, whole)
  BY <1>1, <1>2, <1>3, ArriveStretch
<1>5. "runners" \in closed' <=>
        "runners" \in closed \/ Overflows(runnerEvents, revs, WatchingRunners)
  BY DEF Emit, Publish
<1>6. "runners" \notin closed' => whole
  BY <1>5 DEF Overflows
<1>7. ASSUME StretchOf(runnerEvents', runnerEvents \o revs, WatchingRunners, whole)
      PROVE  StretchOf(runnerEvents', runnerEvents \o revs, WatchingRunners,
                       "runners" \notin closed')
  <2> HIDE DEF whole
  <2> QED BY <1>6, <1>7 DEF StretchOf
<1> QED BY <1>4, <1>5, <1>7
\* What a step does to a row: it only moves on.
JobMovesOn(j) ==
  LET row == jobRows[j]
      row2 == jobRows'[j] IN
  /\ row.status # "absent" => row2.status # "absent"
  /\ row.status = "deleted" => row2.status = "deleted"
  /\ row.status = "done" => row2.status \in {"done", "deleted"}
  /\ row.runner # Nobody => row2.runner # Nobody \/ row2.status = "deleted"
  /\ cachedJobs[j].status = "absent" => cachedJobs'[j].status = "absent"
  /\ cachedJobs[j].runner # Nobody =>
       cachedJobs'[j].runner # Nobody \/ cachedJobs'[j].status = "absent"

LEMMA JobEventMovesOn ==
  ASSUME NEW e \in JobEvent, JobEventAgrees(e), JobMovesOn(e.job)
  PROVE  JobEventAgrees(e)'
BY DEF JobEventAgrees, JobMovesOn

\* The events tell the present status again once a step has published an
\* event of each row that it changes.
LEMMA NewestJobs ==
  ASSUME TypeOK, NEW evs \in Seq(JobEvent), NEW F \in Seq(JobEvent),
         NEW watching \in BOOLEAN,
         StretchOf(F, jobEvents \o evs, watching, TRUE),
         NewestJobAgrees(jobEvents),
         \A j \in Job : jobRows'[j] = jobRows[j] \/ JobNoted(evs, j),
         \A k \in DOMAIN evs : evs[k].status = jobRows'[evs[k].job].status
  PROVE  \A i \in DOMAIN F : (\A k \in DOMAIN F : k > i => F[k].job # F[i].job)
                             => F[i].status = jobRows'[F[i].job].status
<1> DEFINE all == jobEvents \o evs
<1>1. PICK d \in Nat :
        /\ \A i \in DOMAIN F : i + d \in DOMAIN all /\ F[i] = all[i + d]
        /\ Len(all) = Len(F) + d
  BY DEF StretchOf
<1>2. jobEvents \in Seq(JobEvent)
  BY DEF TypeOK
<1>3. /\ all \in Seq(JobEvent)
      /\ Len(all) = Len(jobEvents) + Len(evs)
      /\ \A i \in DOMAIN jobEvents : i \in DOMAIN all /\ all[i] = jobEvents[i]
      /\ \A i \in DOMAIN all :
           \/ i \in DOMAIN jobEvents
           \/ i > Len(jobEvents) /\ i - Len(jobEvents) \in DOMAIN evs
              /\ all[i] = evs[i - Len(jobEvents)]
      /\ \A k \in DOMAIN evs :
           k + Len(jobEvents) \in DOMAIN all /\ all[k + Len(jobEvents)] = evs[k]
  BY <1>2, ConcatParts
<1> HIDE DEF all
<1> TAKE i \in DOMAIN F
<1> HAVE \A k \in DOMAIN F : k > i => F[k].job # F[i].job
<1>4. i + d \in DOMAIN all /\ F[i] = all[i + d] /\ all[i + d].job \in Job
  <2>1. i + d \in DOMAIN all /\ F[i] = all[i + d]
    BY <1>1
  <2>2. F[i] \in JobEvent
    OBVIOUS
  <2> QED BY <2>1, <2>2 DEF JobEvent
<1>5. \A k \in DOMAIN all : k > i + d => all[k].job # F[i].job
  <2> TAKE k \in DOMAIN all
  <2> HAVE k > i + d
  <2>1. k - d \in DOMAIN F /\ k - d > i /\ (k - d) + d = k
    BY <1>1, <1>3
  <2> QED BY <2>1, <1>1
<1>6. CASE i + d \in DOMAIN jobEvents
  <2>1. all[i + d] = jobEvents[i + d]
    BY <1>3, <1>6
  <2>2. \A k \in DOMAIN evs : evs[k].job # F[i].job
    <3> TAKE k \in DOMAIN evs
    <3>1. k + Len(jobEvents) > i + d
      BY <1>2, <1>6
    <3> QED BY <3>1, <1>3, <1>5
  <2>3. jobRows'[F[i].job] = jobRows[F[i].job]
    BY <2>2, <1>4 DEF JobNoted
  <2>4. \A k \in DOMAIN jobEvents : k > i + d => jobEvents[k].job # jobEvents[i + d].job
    BY <1>3, <1>4, <1>5, <2>1
  <2>5. jobEvents[i + d].status = jobRows[jobEvents[i + d].job].status
    BY <2>4, <1>6 DEF NewestJobAgrees
  <2> QED BY <2>1, <2>3, <2>5, <1>4
<1>7. CASE i + d \notin DOMAIN jobEvents
  <2>1. PICK k \in DOMAIN evs : all[i + d] = evs[k]
    BY <1>3, <1>4, <1>7
  <2> QED BY <2>1, <1>4
<1> QED BY <1>6, <1>7

LEMMA NewestRunners ==
  ASSUME TypeOK, NEW revs \in Seq(RunnerEvent), NEW F \in Seq(RunnerEvent),
         NEW watching \in BOOLEAN,
         StretchOf(F, runnerEvents \o revs, watching, TRUE),
         NewestRunnerAgrees(runnerEvents),
         \A n \in Runner : runnerRows'[n] = runnerRows[n] \/ RunnerNoted(revs, n),
         \A k \in DOMAIN revs : revs[k].status = runnerRows'[revs[k].runner]
  PROVE  \A i \in DOMAIN F : (\A k \in DOMAIN F : k > i => F[k].runner # F[i].runner)
                             => F[i].status = runnerRows'[F[i].runner]
<1> DEFINE all == runnerEvents \o revs
<1>1. PICK d \in Nat :
        /\ \A i \in DOMAIN F : i + d \in DOMAIN all /\ F[i] = all[i + d]
        /\ Len(all) = Len(F) + d
  BY DEF StretchOf
<1>2. runnerEvents \in Seq(RunnerEvent)
  BY DEF TypeOK
<1>3. /\ all \in Seq(RunnerEvent)
      /\ Len(all) = Len(runnerEvents) + Len(revs)
      /\ \A i \in DOMAIN runnerEvents : i \in DOMAIN all /\ all[i] = runnerEvents[i]
      /\ \A i \in DOMAIN all :
           \/ i \in DOMAIN runnerEvents
           \/ i > Len(runnerEvents) /\ i - Len(runnerEvents) \in DOMAIN revs
              /\ all[i] = revs[i - Len(runnerEvents)]
      /\ \A k \in DOMAIN revs :
           k + Len(runnerEvents) \in DOMAIN all /\ all[k + Len(runnerEvents)] = revs[k]
  BY <1>2, ConcatParts
<1> HIDE DEF all
<1> TAKE i \in DOMAIN F
<1> HAVE \A k \in DOMAIN F : k > i => F[k].runner # F[i].runner
<1>4. i + d \in DOMAIN all /\ F[i] = all[i + d] /\ all[i + d].runner \in Runner
  <2>1. i + d \in DOMAIN all /\ F[i] = all[i + d]
    BY <1>1
  <2>2. F[i] \in RunnerEvent
    OBVIOUS
  <2> QED BY <2>1, <2>2 DEF RunnerEvent
<1>5. \A k \in DOMAIN all : k > i + d => all[k].runner # F[i].runner
  <2> TAKE k \in DOMAIN all
  <2> HAVE k > i + d
  <2>1. k - d \in DOMAIN F /\ k - d > i /\ (k - d) + d = k
    BY <1>1, <1>3
  <2> QED BY <2>1, <1>1
<1>6. CASE i + d \in DOMAIN runnerEvents
  <2>1. all[i + d] = runnerEvents[i + d]
    BY <1>3, <1>6
  <2>2. \A k \in DOMAIN revs : revs[k].runner # F[i].runner
    <3> TAKE k \in DOMAIN revs
    <3>1. k + Len(runnerEvents) > i + d
      BY <1>2, <1>6
    <3> QED BY <3>1, <1>3, <1>5
  <2>3. runnerRows'[F[i].runner] = runnerRows[F[i].runner]
    BY <2>2, <1>4 DEF RunnerNoted
  <2>4. \A k \in DOMAIN runnerEvents :
          k > i + d => runnerEvents[k].runner # runnerEvents[i + d].runner
    BY <1>3, <1>4, <1>5, <2>1
  <2>5. runnerEvents[i + d].status = runnerRows[runnerEvents[i + d].runner]
    BY <2>4, <1>6 DEF NewestRunnerAgrees
  <2> QED BY <2>1, <2>3, <2>5, <1>4
<1>7. CASE i + d \notin DOMAIN runnerEvents
  <2>1. PICK k \in DOMAIN revs : all[i + d] = revs[k]
    BY <1>3, <1>4, <1>7
  <2> QED BY <2>1, <1>4
<1> QED BY <1>6, <1>7
\* A step that publishes an event of each job whose row it changes, and
\* leaves the other jobs alone, keeps the agreement.
LEMMA JobsPublished ==
  ASSUME IInv, NEW evs \in Seq(JobEvent), NEW revs \in Seq(RunnerEvent),
         Emit(evs, revs), pc' = pc, jobRows' \in [Job -> JobRow],
         \A j \in Job : RowAgrees(j)' /\ CachedAgrees(j)' /\ JobMovesOn(j),
         \A j \in Job : \/ jobRows'[j] = jobRows[j] /\ cachedJobs'[j] = cachedJobs[j]
                        \/ JobNoted(evs, j),
         \A k \in DOMAIN evs : /\ JobEventAgrees(evs[k])'
                               /\ evs[k].status = jobRows'[evs[k].job].status
  PROVE  JobsAgree'
<1> DEFINE whole == "jobs" \notin closed'
<1>1. TypeOK /\ jobEvents \in Seq(JobEvent)
  BY DEF IInv, TypeOK
<1>2. /\ jobEvents' \in Seq(JobEvent)
      /\ \/ jobEvents' = <<>> /\ ~WatchingJobs
         \/ StretchOf(jobEvents', jobEvents \o evs, WatchingJobs, "jobs" \notin closed')
      /\ "jobs" \notin closed' => "jobs" \notin closed
  BY <1>1, JobsArrive
<1>3. WatchingJobs \in BOOLEAN /\ whole \in BOOLEAN
  BY DEF WatchingJobs
<1>4. ASSUME NEW i \in DOMAIN jobEvents' PROVE JobEventAgrees(jobEvents[i])'
  <2>1. \/ \E k \in DOMAIN jobEvents : jobEvents'[i] = jobEvents[k]
        \/ \E k \in DOMAIN evs : jobEvents'[i] = evs[k]
    <3>1. StretchOf(jobEvents', jobEvents \o evs, WatchingJobs, whole)
      BY <1>2, <1>4
    <3> HIDE DEF whole
    <3> QED BY <1>1, <1>2, <1>3, <3>1, StretchParts
  <2>2. ASSUME NEW e, NEW k \in DOMAIN jobEvents, e = jobEvents[k] PROVE JobEventAgrees(e)'
    <3>1. e \in JobEvent
      BY <1>1, <2>2
    <3>2. e.job \in Job
      BY <3>1 DEF JobEvent
    <3>3. JobEventAgrees(e)
      BY <2>2 DEF IInv, JobsAgree
    <3> QED BY <3>1, <3>2, <3>3, JobEventMovesOn
  <2>3. ASSUME NEW e, NEW k \in DOMAIN evs, e = evs[k] PROVE JobEventAgrees(e)'
    BY <2>3
  <2>4. PICK e : e = jobEvents'[i]
    OBVIOUS
  <2>5. JobEventAgrees(e)'
    BY <2>1, <2>2, <2>3, <2>4
  <2> QED BY <2>4, <2>5 DEF JobEventAgrees
<1>5. ASSUME "jobs" \notin closed'
      PROVE  /\ NewestJobAgrees(jobEvents)'
             /\ pc' = "ready" =>
                  \A j \in Job : JobNoted(jobEvents', j) \/ JobIsFresh(j)'
  <2>1. NewestJobAgrees(jobEvents)
    BY <1>2, <1>5 DEF IInv, JobsAgree
  <2>2. CASE jobEvents' = <<>> /\ ~WatchingJobs
    BY <2>2 DEF NewestJobAgrees, WatchingJobs
  <2>3. CASE StretchOf(jobEvents', jobEvents \o evs, WatchingJobs, whole)
    <3>1. StretchOf(jobEvents', jobEvents \o evs, WatchingJobs, TRUE)
      BY <1>5, <2>3 DEF StretchOf
    <3>2. NewestJobAgrees(jobEvents)'
      BY <1>1, <1>2, <1>3, <2>1, <3>1, NewestJobs DEF NewestJobAgrees
    <3>3. ASSUME pc = "ready", NEW j \in Job
          PROVE  JobNoted(jobEvents', j) \/ JobIsFresh(j)'
      <4>1. WatchingJobs
        BY <3>3 DEF WatchingJobs
      <4>2. jobEvents' = jobEvents \o evs
        <5>1. StretchOf(jobEvents', jobEvents \o evs, TRUE, TRUE)
          BY <3>1, <4>1 DEF StretchOf
        <5>2. jobEvents' \in Seq(JobEvent) /\ jobEvents \in Seq(JobEvent)
          BY <1>1, <1>2
        <5> QED BY <5>1, <5>2, StretchWhole
      <4>3. /\ \A i \in DOMAIN jobEvents :
                 i \in DOMAIN jobEvents' /\ jobEvents'[i] = jobEvents[i]
            /\ \A k \in DOMAIN evs : k + Len(jobEvents) \in DOMAIN jobEvents'
                                     /\ jobEvents'[k + Len(jobEvents)] = evs[k]
        BY <1>1, <4>2, ConcatParts
      <4>4. CASE JobNoted(evs, j)
        BY <4>3, <4>4 DEF JobNoted
      <4>5. CASE JobNoted(jobEvents, j)
        BY <4>3, <4>5 DEF JobNoted
      <4>6. CASE JobIsFresh(j) /\ jobRows'[j] = jobRows[j] /\ cachedJobs'[j] = cachedJobs[j]
        BY <4>6 DEF JobIsFresh
      <4>7. JobNoted(jobEvents, j) \/ JobIsFresh(j)
        BY <1>2, <1>5, <3>3 DEF IInv, JobsAgree
      <4> QED BY <4>4, <4>5, <4>6, <4>7
    <3> QED BY <3>2, <3>3
  <2> QED BY <1>2, <2>2, <2>3
<1> QED BY <1>4, <1>5 DEF JobsAgree

LEMMA RunnersPublished ==
  ASSUME IInv, NEW evs \in Seq(JobEvent), NEW revs \in Seq(RunnerEvent),
         Emit(evs, revs), pc' = pc, runnerRows' \in [Runner -> RunnerStatus],
         cachedRunners' = cachedRunners,
         \A n \in Runner : /\ runnerRows[n] # "absent" => runnerRows'[n] # "absent"
                           /\ runnerRows[n] = "deleted" => runnerRows'[n] = "deleted"
                           /\ runnerRows'[n] = runnerRows[n] \/ RunnerNoted(revs, n),
         \A k \in DOMAIN revs : /\ RunnerEventAgrees(revs[k])'
                                /\ revs[k].status = runnerRows'[revs[k].runner]
  PROVE  RunnersAgree'
<1> DEFINE whole == "runners" \notin closed'
<1>1. TypeOK /\ runnerEvents \in Seq(RunnerEvent)
  BY DEF IInv, TypeOK
<1>2. /\ runnerEvents' \in Seq(RunnerEvent)
      /\ \/ runnerEvents' = <<>> /\ ~WatchingRunners
         \/ StretchOf(runnerEvents', runnerEvents \o revs, WatchingRunners,
                      "runners" \notin closed')
      /\ "runners" \notin closed' => "runners" \notin closed
  BY <1>1, RunnersArrive
<1>3. WatchingRunners \in BOOLEAN /\ whole \in BOOLEAN
  BY DEF WatchingRunners, WatchingJobs
<1>4. ASSUME NEW i \in DOMAIN runnerEvents' PROVE RunnerEventAgrees(runnerEvents[i])'
  <2>1. \/ \E k \in DOMAIN runnerEvents : runnerEvents'[i] = runnerEvents[k]
        \/ \E k \in DOMAIN revs : runnerEvents'[i] = revs[k]
    <3>1. StretchOf(runnerEvents', runnerEvents \o revs, WatchingRunners, whole)
      BY <1>2, <1>4
    <3> HIDE DEF whole
    <3> QED BY <1>1, <1>2, <1>3, <3>1, StretchParts
  <2>2. ASSUME NEW e, NEW k \in DOMAIN runnerEvents, e = runnerEvents[k] PROVE RunnerEventAgrees(e)'
    <3>1. e \in RunnerEvent
      BY <1>1, <2>2
    <3>2. e.runner \in Runner
      BY <3>1 DEF RunnerEvent
    <3>3. RunnerEventAgrees(e)
      BY <2>2 DEF IInv, RunnersAgree
    <3> QED BY <3>1, <3>2, <3>3 DEF RunnerEventAgrees
  <2>3. ASSUME NEW e, NEW k \in DOMAIN revs, e = revs[k] PROVE RunnerEventAgrees(e)'
    BY <2>3
  <2>4. PICK e : e = runnerEvents'[i]
    OBVIOUS
  <2>5. RunnerEventAgrees(e)'
    BY <2>1, <2>2, <2>3, <2>4
  <2> QED BY <2>4, <2>5 DEF RunnerEventAgrees
<1>5. ASSUME "runners" \notin closed'
      PROVE  /\ NewestRunnerAgrees(runnerEvents)'
             /\ pc' \in {"listed", "ready"} =>
                  \A n \in Runner : RunnerNoted(runnerEvents', n) \/ RunnerIsFresh(n)'
  <2>1. NewestRunnerAgrees(runnerEvents)
    BY <1>2, <1>5 DEF IInv, RunnersAgree
  <2>2. CASE runnerEvents' = <<>> /\ ~WatchingRunners
    BY <2>2 DEF NewestRunnerAgrees, WatchingRunners, WatchingJobs
  <2>3. CASE StretchOf(runnerEvents', runnerEvents \o revs, WatchingRunners, whole)
    <3>1. StretchOf(runnerEvents', runnerEvents \o revs, WatchingRunners, TRUE)
      BY <1>5, <2>3 DEF StretchOf
    <3>2. NewestRunnerAgrees(runnerEvents)'
      BY <1>1, <1>2, <1>3, <2>1, <3>1, NewestRunners DEF NewestRunnerAgrees
    <3>3. ASSUME pc \in {"listed", "ready"}, NEW n \in Runner
          PROVE  RunnerNoted(runnerEvents', n) \/ RunnerIsFresh(n)'
      <4>1. WatchingRunners
        BY <3>3 DEF WatchingRunners, WatchingJobs
      <4>2. runnerEvents' = runnerEvents \o revs
        <5>1. StretchOf(runnerEvents', runnerEvents \o revs, TRUE, TRUE)
          BY <3>1, <4>1 DEF StretchOf
        <5>2. runnerEvents' \in Seq(RunnerEvent) /\ runnerEvents \in Seq(RunnerEvent)
          BY <1>1, <1>2
        <5> QED BY <5>1, <5>2, StretchWhole
      <4>3. /\ \A i \in DOMAIN runnerEvents :
                 i \in DOMAIN runnerEvents' /\ runnerEvents'[i] = runnerEvents[i]
            /\ \A k \in DOMAIN revs : k + Len(runnerEvents) \in DOMAIN runnerEvents'
                                      /\ runnerEvents'[k + Len(runnerEvents)] = revs[k]
        BY <1>1, <4>2, ConcatParts
      <4>4. CASE RunnerNoted(revs, n)
        BY <4>3, <4>4 DEF RunnerNoted
      <4>5. CASE RunnerNoted(runnerEvents, n)
        BY <4>3, <4>5 DEF RunnerNoted
      <4>6. CASE RunnerIsFresh(n) /\ runnerRows'[n] = runnerRows[n]
        BY <4>6 DEF RunnerIsFresh
      <4>7. RunnerNoted(runnerEvents, n) \/ RunnerIsFresh(n)
        BY <1>2, <1>5, <3>3 DEF IInv, RunnersAgree
      <4> QED BY <4>4, <4>5, <4>6, <4>7
    <3> QED BY <3>2, <3>3
  <2> QED BY <1>2, <2>2, <2>3
<1> QED BY <1>4, <1>5 DEF RunnersAgree
-----------------------------------------------------------------------------
(* What others do *)

LEMMA JobNoteTyped ==
  ASSUME NEW j \in Job, NEW kind \in Kind, jobRows' \in [Job -> JobRow]
  PROVE  /\ JobNote(kind, j) \in Seq(JobEvent)
         /\ DOMAIN JobNote(kind, j) = {1}
         /\ JobNote(kind, j)[1] = [kind |-> kind, job |-> j, status |-> jobRows'[j].status]
         /\ JobNoted(JobNote(kind, j), j)
<1> DEFINE e == [kind |-> kind, job |-> j, status |-> jobRows'[j].status]
<1>1. jobRows'[j].status \in JobStatus
  BY DEF JobRow
<1>2. e \in JobEvent
  BY <1>1 DEF JobEvent
<1>3. JobNote(kind, j) = <<e>> /\ e.job = j
  BY DEF JobNote
<1> HIDE DEF e
<1>4. <<e>> \in Seq(JobEvent) /\ DOMAIN <<e>> = {1} /\ <<e>>[1] = e
  BY <1>2
<1>5. JobNoted(<<e>>, j)
  BY <1>3, <1>4 DEF JobNoted
<1> QED BY <1>3, <1>4, <1>5 DEF e

LEMMA RunnerNoteTyped ==
  ASSUME NEW n \in Runner, NEW kind \in Kind, runnerRows' \in [Runner -> RunnerStatus]
  PROVE  /\ RunnerNote(kind, n) \in Seq(RunnerEvent)
         /\ DOMAIN RunnerNote(kind, n) = {1}
         /\ RunnerNote(kind, n)[1] = [kind |-> kind, runner |-> n, status |-> runnerRows'[n]]
         /\ RunnerNoted(RunnerNote(kind, n), n)
<1> DEFINE e == [kind |-> kind, runner |-> n, status |-> runnerRows'[n]]
<1>1. e \in RunnerEvent
  BY DEF RunnerEvent
<1>2. RunnerNote(kind, n) = <<e>> /\ e.runner = n
  BY DEF RunnerNote
<1> HIDE DEF e
<1>3. <<e>> \in Seq(RunnerEvent) /\ DOMAIN <<e>> = {1} /\ <<e>>[1] = e
  BY <1>1
<1>4. RunnerNoted(<<e>>, n)
  BY <1>2, <1>3 DEF RunnerNoted
<1> QED BY <1>2, <1>3, <1>4 DEF e

LEMMA NoNote ==
  /\ <<>> \in Seq(JobEvent) /\ <<>> \in Seq(RunnerEvent)
  /\ DOMAIN <<>> = {} /\ Len(<<>>) = 0
OBVIOUS

LEMMA EmitTyped ==
  ASSUME TypeOK, NEW evs \in Seq(JobEvent), NEW revs \in Seq(RunnerEvent),
         Emit(evs, revs)
  PROVE  /\ jobEvents' \in Seq(JobEvent) /\ Len(jobEvents') <= BufferSize
         /\ runnerEvents' \in Seq(RunnerEvent) /\ Len(runnerEvents') <= BufferSize
         /\ closed' \subseteq {"jobs", "runners"}
<1>1. closed' \subseteq {"jobs", "runners"}
  BY DEF Emit, Publish, TypeOK
<1> QED BY <1>1, JobsArrive, RunnersArrive

LEMMA OthersTyped ==
  ASSUME TypeOK, NEW evs \in Seq(JobEvent), NEW revs \in Seq(RunnerEvent),
         Others(evs, revs),
         jobRows' \in [Job -> JobRow], runnerRows' \in [Runner -> RunnerStatus]
  PROVE  TypeOK'
BY EmitTyped DEF Others, TypeOK, cacheVars

\* What others do to one job.
JobStep(j, kind, row) ==
  LET now == jobRows[j] IN
  \/ kind = "created" /\ now.status = "absent" /\ row = NoJob("unallocated")
  \/ kind = "deleted" /\ now.status \notin Gone /\ row = NoJob("deleted")
  \/ /\ kind = "updated" /\ row.runner = now.runner
     /\ \/ row.status = "running" /\ now.status = "allocated"
        \/ row.status = "done" /\ now.status \in {"unallocated", "allocated", "running"}

LEMMA JobStepInv ==
  ASSUME IInv, NEW j \in Job, NEW kind \in Kind, NEW row \in JobRow,
         JobStep(j, kind, row), SetJob(j, row), UNCHANGED runnerRows,
         Others(JobNote(kind, j), <<>>)
  PROVE  IInv'
<1>1. TypeOK /\ jobRows \in [Job -> JobRow] /\ runnerRows \in [Runner -> RunnerStatus]
  BY DEF IInv, TypeOK
<1>2. /\ jobRows' \in [Job -> JobRow]
      /\ jobRows'[j] = row
      /\ \A k \in Job : k # j => jobRows'[k] = jobRows[k]
  BY <1>1 DEF SetJob
<1> DEFINE e == [kind |-> kind, job |-> j, status |-> row.status]
           evs == <<e>>
<1>3. /\ evs = JobNote(kind, j)
      /\ evs \in Seq(JobEvent) /\ DOMAIN evs = {1} /\ evs[1] = e
      /\ JobNoted(evs, j)
  <2>1. evs = JobNote(kind, j)
    BY <1>2 DEF JobNote
  <2> HIDE DEF evs
  <2> QED BY <1>2, <2>1, JobNoteTyped
<1>4. TypeOK'
  BY <1>1, <1>2, <1>3, NoNote, OthersTyped
<1>5. /\ Emit(evs, <<>>)
      /\ pc' = pc /\ cachedJobs' = cachedJobs /\ todo' = todo
      /\ cachedRunners' = cachedRunners
  BY <1>3 DEF Others, cacheVars
<1>6. \A k \in Job : RowAgrees(k) /\ CachedAgrees(k) /\ jobRows[k] \in JobRow
  BY <1>1 DEF IInv, JobsAgree
<1>7. RowAgrees(j)' /\ CachedAgrees(j)' /\ JobMovesOn(j)
  BY <1>2, <1>5, <1>6
  DEF JobStep, RowAgrees, CachedAgrees, JobMovesOn, NoJob, Gone, JobRow
<1>8. \A k \in Job : k # j => RowAgrees(k)' /\ CachedAgrees(k)' /\ JobMovesOn(k)
  BY <1>2, <1>5, <1>6 DEF RowAgrees, CachedAgrees, JobMovesOn
<1>9. \A k \in DOMAIN evs : /\ JobEventAgrees(evs[k])'
                            /\ evs[k].status = jobRows'[evs[k].job].status
  <2>1. JobEventAgrees(e)' /\ e.status = jobRows'[e.job].status
    BY <1>2, <1>5, <1>6, <1>7
    DEF JobStep, JobEventAgrees, CachedAgrees, RowAgrees, NoJob, Gone
  <2> HIDE DEF e
  <2> QED BY <1>3, <2>1
<1>10. JobsAgree'
  <2> HIDE DEF evs
  <2> QED BY <1>2, <1>3, <1>5, <1>7, <1>8, <1>9, NoNote, JobsPublished
<1>11. RunnersAgree'
  BY <1>1, <1>3, <1>5, NoNote, RunnersPublished
<1> QED BY <1>4, <1>10, <1>11 DEF IInv
\* What others do to the status of one runner.
RunnerStep(n, kind, status) ==
  \/ kind = "created" /\ runnerRows[n] = "absent" /\ status = "healthy"
  \/ /\ kind = "updated" /\ runnerRows[n] \in {"healthy", "unknown"}
     /\ status \in {"healthy", "unknown", "final"}

LEMMA RunnerStepInv ==
  ASSUME IInv, NEW n \in Runner, NEW kind \in Kind, NEW status \in RunnerStatus,
         RunnerStep(n, kind, status), SetRunner(n, status), UNCHANGED jobRows,
         Others(<<>>, RunnerNote(kind, n))
  PROVE  IInv'
<1>1. TypeOK /\ jobRows \in [Job -> JobRow] /\ runnerRows \in [Runner -> RunnerStatus]
  BY DEF IInv, TypeOK
<1>2. /\ runnerRows' \in [Runner -> RunnerStatus]
      /\ runnerRows'[n] = status
      /\ \A m \in Runner : m # n => runnerRows'[m] = runnerRows[m]
  BY <1>1 DEF SetRunner
<1> DEFINE e == [kind |-> kind, runner |-> n, status |-> status]
           revs == <<e>>
<1>3. /\ revs = RunnerNote(kind, n)
      /\ revs \in Seq(RunnerEvent) /\ DOMAIN revs = {1} /\ revs[1] = e
      /\ RunnerNoted(revs, n)
  <2>1. revs = RunnerNote(kind, n)
    BY <1>2 DEF RunnerNote
  <2> HIDE DEF revs
  <2> QED BY <1>2, <2>1, RunnerNoteTyped
<1>4. TypeOK'
  BY <1>1, <1>2, <1>3, NoNote, OthersTyped
<1>5. /\ Emit(<<>>, revs)
      /\ pc' = pc /\ cachedJobs' = cachedJobs /\ todo' = todo
      /\ cachedRunners' = cachedRunners
  BY <1>3 DEF Others, cacheVars
<1>6. \A k \in Job : RowAgrees(k) /\ CachedAgrees(k) /\ jobRows[k] \in JobRow
  BY <1>1 DEF IInv, JobsAgree
<1>7. \A k \in Job : RowAgrees(k)' /\ CachedAgrees(k)' /\ JobMovesOn(k)
  BY <1>2, <1>5, <1>6
  DEF RunnerStep, RowAgrees, CachedAgrees, JobMovesOn, Gone, JobRow
<1>8. JobsAgree'
  <2> HIDE DEF revs
  <2> QED BY <1>1, <1>3, <1>5, <1>7, NoNote, JobsPublished
<1>9. \A k \in DOMAIN revs : /\ RunnerEventAgrees(revs[k])'
                             /\ revs[k].status = runnerRows'[revs[k].runner]
  <2>1. RunnerEventAgrees(e)' /\ e.status = runnerRows'[e.runner]
    BY <1>2 DEF RunnerStep, RunnerEventAgrees
  <2> HIDE DEF e
  <2> QED BY <1>3, <2>1
<1>10. \A m \in Runner : /\ runnerRows[m] # "absent" => runnerRows'[m] # "absent"
                         /\ runnerRows[m] = "deleted" => runnerRows'[m] = "deleted"
                         /\ runnerRows'[m] = runnerRows[m] \/ RunnerNoted(revs, m)
  <2> HIDE DEF revs
  <2> QED BY <1>2, <1>3 DEF RunnerStep
<1>11. RunnersAgree'
  <2> HIDE DEF revs
  <2> QED BY <1>2, <1>3, <1>5, <1>9, <1>10, NoNote, RunnersPublished
<1> QED BY <1>4, <1>8, <1>11 DEF IInv

\* The events of the jobs that are deleted along with a runner.
LEMMA PurgeNotes ==
  ASSUME NEW mine \in SUBSET Job, NEW evs,
         evs = [i \in DOMAIN SetToSeq(mine) |->
                  [kind |-> "deleted", job |-> SetToSeq(mine)[i], status |-> "deleted"]]
  PROVE  /\ evs \in Seq(JobEvent)
         /\ \A k \in DOMAIN evs :
              evs[k].job \in mine /\ evs[k].status = "deleted" /\ evs[k].kind = "deleted"
         /\ \A j \in mine : JobNoted(evs, j)
<1> DEFINE held == SetToSeq(mine)
<1>1. IsFiniteSet(mine)
  BY ConstantsTyped, FS_Subset
<1>2. /\ held \in Seq(mine)
      /\ \A j \in mine : \E i \in DOMAIN held : held[i] = j
  BY <1>1, SetToSeqProperties
<1>3. evs = [i \in DOMAIN held |-> [kind |-> "deleted", job |-> held[i],
                                    status |-> "deleted"]]
  OBVIOUS
<1> HIDE DEF held
<1>4. DOMAIN held = 1..Len(held) /\ Len(held) \in Nat /\ \A k \in DOMAIN held : held[k] \in mine
  BY <1>2
<1>5. /\ DOMAIN evs = DOMAIN held
      /\ \A k \in DOMAIN held :
           evs[k] = [kind |-> "deleted", job |-> held[k], status |-> "deleted"]
  BY <1>3
<1>6. \A k \in DOMAIN held : evs[k] \in JobEvent
  BY <1>4, <1>5 DEF JobEvent, Kind, JobStatus, Gone
<1>7. evs = [k \in 1..Len(held) |-> evs[k]]
  BY <1>3, <1>4, <1>5
<1>8. evs \in Seq(JobEvent)
  BY <1>4, <1>5, <1>6, <1>7
<1>9. \A j \in mine : JobNoted(evs, j)
  BY <1>2, <1>5 DEF JobNoted
<1> QED BY <1>4, <1>5, <1>8, <1>9

LEMMA DeleteRunnerInv ==
  ASSUME IInv, NEW n \in Runner, DeleteRunner(n)
  PROVE  IInv'
<1> DEFINE mine == {j \in Job : jobRows[j].runner = n}
           held == SetToSeq(mine)
           gone == [i \in DOMAIN held |-> [kind |-> "deleted", job |-> held[i],
                                           status |-> "deleted"]]
<1>1. TypeOK /\ jobRows \in [Job -> JobRow] /\ runnerRows \in [Runner -> RunnerStatus]
  BY DEF IInv, TypeOK
<1>2. /\ runnerRows[n] = "final"
      /\ SetRunner(n, "deleted")
      /\ jobRows' = [j \in Job |-> IF jobRows[j].runner = n THEN NoJob("deleted")
                                                            ELSE jobRows[j]]
      /\ Others(gone, RunnerNote("deleted", n))
  BY DEF DeleteRunner
<1>3. mine \in SUBSET Job
  OBVIOUS
<1>4. PICK evs : evs = gone
  OBVIOUS
<1>5. /\ evs \in Seq(JobEvent)
      /\ \A k \in DOMAIN evs :
           evs[k].job \in mine /\ evs[k].status = "deleted" /\ evs[k].kind = "deleted"
      /\ \A j \in mine : JobNoted(evs, j)
  <2> HIDE DEF mine
  <2> QED BY <1>3, <1>4, PurgeNotes
<1>6. /\ runnerRows' \in [Runner -> RunnerStatus]
      /\ runnerRows'[n] = "deleted"
      /\ \A m \in Runner : m # n => runnerRows'[m] = runnerRows[m]
  BY <1>1, <1>2 DEF SetRunner, RunnerStatus, Gone
<1>7. /\ jobRows' \in [Job -> JobRow]
      /\ \A j \in mine : jobRows'[j] = [status |-> "deleted", runner |-> Nobody]
      /\ \A j \in Job : j \notin mine => jobRows'[j] = jobRows[j]
  BY <1>1, <1>2 DEF NoJob, JobRow, JobStatus, Gone
<1> DEFINE e == [kind |-> "deleted", runner |-> n, status |-> "deleted"]
           revs == <<e>>
<1>8. /\ revs = RunnerNote("deleted", n)
      /\ revs \in Seq(RunnerEvent) /\ DOMAIN revs = {1} /\ revs[1] = e
      /\ RunnerNoted(revs, n)
  <2>1. revs = RunnerNote("deleted", n)
    BY <1>6 DEF RunnerNote
  <2>2. "deleted" \in Kind
    BY DEF Kind
  <2> HIDE DEF revs
  <2>3. /\ revs \in Seq(RunnerEvent) /\ DOMAIN revs = {1} /\ RunnerNoted(revs, n)
    BY <1>6, <2>1, <2>2, RunnerNoteTyped
  <2>4. revs[1] = e
    BY DEF revs
  <2> QED BY <2>1, <2>3, <2>4
<1>9. Others(evs, revs)
  BY <1>2, <1>4, <1>8
<1> HIDE DEF gone, held, revs
<1>10. TypeOK'
  BY <1>1, <1>5, <1>6, <1>7, <1>8, <1>9, OthersTyped
<1>11. /\ Emit(evs, revs)
       /\ pc' = pc /\ cachedJobs' = cachedJobs /\ todo' = todo
       /\ cachedRunners' = cachedRunners
  BY <1>9 DEF Others, cacheVars
<1>12. \A j \in Job : RowAgrees(j) /\ CachedAgrees(j) /\ jobRows[j] \in JobRow
  BY <1>1 DEF IInv, JobsAgree
<1>13. \A j \in Job : RowAgrees(j)' /\ CachedAgrees(j)' /\ JobMovesOn(j)
  <2>1. ASSUME NEW j \in mine PROVE RowAgrees(j)' /\ CachedAgrees(j)' /\ JobMovesOn(j)
    <3>1. jobRows[j].status # "absent"
      BY <1>12, <2>1, ConstantsTyped DEF RowAgrees, Gone
    <3> QED BY <1>7, <1>11, <1>12, <2>1, <3>1
        DEF RowAgrees, CachedAgrees, JobMovesOn, Gone
  <2>2. ASSUME NEW j \in Job, j \notin mine
        PROVE  RowAgrees(j)' /\ CachedAgrees(j)' /\ JobMovesOn(j)
    <3>1. jobRows[j].runner # n /\ jobRows'[j] = jobRows[j]
      BY <1>7, <2>2
    <3> QED BY <1>6, <1>11, <1>12, <3>1, <2>2
        DEF RowAgrees, CachedAgrees, JobMovesOn, Gone, JobRow
  <2> QED BY <2>1, <2>2
<1>14. \A k \in DOMAIN evs : /\ JobEventAgrees(evs[k])'
                             /\ evs[k].status = jobRows'[evs[k].job].status
  BY <1>5, <1>7 DEF JobEventAgrees
<1>15. JobsAgree'
  <2>1. \A j \in Job : \/ jobRows'[j] = jobRows[j] /\ cachedJobs'[j] = cachedJobs[j]
                       \/ JobNoted(evs, j)
    BY <1>5, <1>7, <1>11
  <2> QED BY <1>5, <1>7, <1>8, <1>11, <1>13, <1>14, <2>1, JobsPublished
<1>16. \A k \in DOMAIN revs : /\ RunnerEventAgrees(revs[k])'
                              /\ revs[k].status = runnerRows'[revs[k].runner]
  BY <1>6, <1>8 DEF RunnerEventAgrees
<1>17. \A m \in Runner : /\ runnerRows[m] # "absent" => runnerRows'[m] # "absent"
                         /\ runnerRows[m] = "deleted" => runnerRows'[m] = "deleted"
                         /\ runnerRows'[m] = runnerRows[m] \/ RunnerNoted(revs, m)
  BY <1>6, <1>8
<1>18. RunnersAgree'
  BY <1>5, <1>6, <1>8, <1>11, <1>16, <1>17, RunnersPublished
<1> QED BY <1>10, <1>15, <1>18 DEF IInv
-----------------------------------------------------------------------------
(* What the allocator does *)

\* The first event of a stream, and the others.
LEMMA TailJobs ==
  ASSUME IInv, jobEvents # <<>>, NEW rest, rest = Tail(jobEvents)
  PROVE  /\ rest \in Seq(JobEvent) /\ Len(rest) <= BufferSize
         /\ Head(jobEvents) \in JobEvent /\ JobEventAgrees(Head(jobEvents))
         /\ \A i \in DOMAIN rest : rest[i] \in JobEvent /\ JobEventAgrees(rest[i])
         /\ \A j \in Job : JobNoted(jobEvents, j) =>
              j = Head(jobEvents).job \/ JobNoted(rest, j)
         /\ NewestJobAgrees(jobEvents) =>
              /\ NewestJobAgrees(rest)
              /\ ~JobNoted(rest, Head(jobEvents).job) =>
                   Head(jobEvents).status = jobRows[Head(jobEvents).job].status
<1>1. /\ jobEvents \in Seq(JobEvent) /\ Len(jobEvents) <= BufferSize
      /\ \A i \in DOMAIN jobEvents : JobEventAgrees(jobEvents[i])
  BY DEF IInv, TypeOK, JobsAgree
<1>2. /\ rest \in Seq(JobEvent) /\ Len(rest) = Len(jobEvents) - 1
      /\ \A i \in DOMAIN rest : i + 1 \in DOMAIN jobEvents /\ rest[i] = jobEvents[i + 1]
      /\ \A k \in DOMAIN jobEvents : k > 1 => k - 1 \in DOMAIN rest /\ rest[k - 1] = jobEvents[k]
      /\ 1 \in DOMAIN jobEvents /\ Head(jobEvents) = jobEvents[1]
  BY <1>1
<1>3. Len(rest) <= BufferSize
  BY <1>1, <1>2, ConstantsTyped
<1>4. Head(jobEvents) \in JobEvent /\ JobEventAgrees(Head(jobEvents))
  BY <1>1, <1>2
<1>5. \A i \in DOMAIN rest : rest[i] \in JobEvent /\ JobEventAgrees(rest[i])
  BY <1>1, <1>2
<1>6. \A j \in Job : JobNoted(jobEvents, j) => j = Head(jobEvents).job \/ JobNoted(rest, j)
  <2> TAKE j \in Job
  <2> HAVE JobNoted(jobEvents, j)
  <2>1. PICK k \in DOMAIN jobEvents : jobEvents[k].job = j
    BY DEF JobNoted
  <2>2. k = 1 \/ k > 1
    BY <1>1
  <2> QED BY <1>2, <2>1, <2>2 DEF JobNoted
<1>7. ASSUME NewestJobAgrees(jobEvents), NEW i \in DOMAIN rest,
             \A k \in DOMAIN rest : k > i => rest[k].job # rest[i].job
      PROVE  rest[i].status = jobRows[rest[i].job].status
  <2>1. i + 1 \in DOMAIN jobEvents /\ rest[i] = jobEvents[i + 1]
    BY <1>2
  <2>2. ASSUME NEW k \in DOMAIN jobEvents, k > i + 1
        PROVE  jobEvents[k].job # jobEvents[i + 1].job
    <3>1. k - 1 \in DOMAIN rest /\ rest[k - 1] = jobEvents[k] /\ k - 1 > i
      BY <1>1, <1>2, <2>2
    <3> QED BY <1>7, <2>1, <3>1
  <2> QED BY <1>7, <2>1, <2>2 DEF NewestJobAgrees
<1>8. ASSUME NewestJobAgrees(jobEvents), ~JobNoted(rest, Head(jobEvents).job)
      PROVE  Head(jobEvents).status = jobRows[Head(jobEvents).job].status
  <2>1. \A k \in DOMAIN jobEvents : k > 1 => jobEvents[k].job # jobEvents[1].job
    BY <1>2, <1>8 DEF JobNoted
  <2> QED BY <1>2, <1>8, <2>1 DEF NewestJobAgrees
<1>9. NewestJobAgrees(jobEvents) => NewestJobAgrees(rest)
  BY <1>7 DEF NewestJobAgrees
<1> QED BY <1>2, <1>3, <1>4, <1>5, <1>6, <1>8, <1>9

LEMMA TailRunners ==
  ASSUME IInv, runnerEvents # <<>>, NEW rest, rest = Tail(runnerEvents)
  PROVE  /\ rest \in Seq(RunnerEvent) /\ Len(rest) <= BufferSize
         /\ Head(runnerEvents) \in RunnerEvent /\ RunnerEventAgrees(Head(runnerEvents))
         /\ \A i \in DOMAIN rest : RunnerEventAgrees(rest[i])
         /\ \A n \in Runner : RunnerNoted(runnerEvents, n) =>
              n = Head(runnerEvents).runner \/ RunnerNoted(rest, n)
         /\ NewestRunnerAgrees(runnerEvents) =>
              /\ NewestRunnerAgrees(rest)
              /\ ~RunnerNoted(rest, Head(runnerEvents).runner) =>
                   Head(runnerEvents).status = runnerRows[Head(runnerEvents).runner]
<1>1. /\ runnerEvents \in Seq(RunnerEvent) /\ Len(runnerEvents) <= BufferSize
      /\ \A i \in DOMAIN runnerEvents : RunnerEventAgrees(runnerEvents[i])
  BY DEF IInv, TypeOK, RunnersAgree
<1>2. /\ rest \in Seq(RunnerEvent) /\ Len(rest) = Len(runnerEvents) - 1
      /\ \A i \in DOMAIN rest : i + 1 \in DOMAIN runnerEvents /\ rest[i] = runnerEvents[i + 1]
      /\ \A k \in DOMAIN runnerEvents :
           k > 1 => k - 1 \in DOMAIN rest /\ rest[k - 1] = runnerEvents[k]
      /\ 1 \in DOMAIN runnerEvents /\ Head(runnerEvents) = runnerEvents[1]
  BY <1>1
<1>3. Len(rest) <= BufferSize
  BY <1>1, <1>2, ConstantsTyped
<1>4. Head(runnerEvents) \in RunnerEvent /\ RunnerEventAgrees(Head(runnerEvents))
  BY <1>1, <1>2
<1>5. \A i \in DOMAIN rest : RunnerEventAgrees(rest[i])
  BY <1>1, <1>2
<1>6. \A n \in Runner : RunnerNoted(runnerEvents, n) =>
        n = Head(runnerEvents).runner \/ RunnerNoted(rest, n)
  <2> TAKE n \in Runner
  <2> HAVE RunnerNoted(runnerEvents, n)
  <2>1. PICK k \in DOMAIN runnerEvents : runnerEvents[k].runner = n
    BY DEF RunnerNoted
  <2>2. k = 1 \/ k > 1
    BY <1>1
  <2> QED BY <1>2, <2>1, <2>2 DEF RunnerNoted
<1>7. ASSUME NewestRunnerAgrees(runnerEvents), NEW i \in DOMAIN rest,
             \A k \in DOMAIN rest : k > i => rest[k].runner # rest[i].runner
      PROVE  rest[i].status = runnerRows[rest[i].runner]
  <2>1. i + 1 \in DOMAIN runnerEvents /\ rest[i] = runnerEvents[i + 1]
    BY <1>2
  <2>2. ASSUME NEW k \in DOMAIN runnerEvents, k > i + 1
        PROVE  runnerEvents[k].runner # runnerEvents[i + 1].runner
    <3>1. k - 1 \in DOMAIN rest /\ rest[k - 1] = runnerEvents[k] /\ k - 1 > i
      BY <1>1, <1>2, <2>2
    <3> QED BY <1>7, <2>1, <3>1
  <2> QED BY <1>7, <2>1, <2>2 DEF NewestRunnerAgrees
<1>8. ASSUME NewestRunnerAgrees(runnerEvents), ~RunnerNoted(rest, Head(runnerEvents).runner)
      PROVE  Head(runnerEvents).status = runnerRows[Head(runnerEvents).runner]
  <2>1. \A k \in DOMAIN runnerEvents : k > 1 => runnerEvents[k].runner # runnerEvents[1].runner
    BY <1>2, <1>8 DEF RunnerNoted
  <2> QED BY <1>2, <1>8, <2>1 DEF NewestRunnerAgrees
<1>9. NewestRunnerAgrees(runnerEvents) => NewestRunnerAgrees(rest)
  BY <1>7 DEF NewestRunnerAgrees
<1> QED BY <1>2, <1>3, <1>4, <1>5, <1>6, <1>8, <1>9

\* The allocator may stop at any time, whatever is left of the streams.
LeftOfJobs(rest) ==
  /\ rest \in Seq(JobEvent) /\ Len(rest) <= BufferSize
  /\ \A i \in DOMAIN rest : rest[i] \in JobEvent /\ JobEventAgrees(rest[i])
  /\ "jobs" \notin closed => NewestJobAgrees(rest)
LeftOfRunners(rest) ==
  /\ rest \in Seq(RunnerEvent) /\ Len(rest) <= BufferSize
  /\ \A i \in DOMAIN rest : RunnerEventAgrees(rest[i])
  /\ "runners" \notin closed => NewestRunnerAgrees(rest)

LEMMA LeftNow ==
  ASSUME IInv, NEW js, js = jobEvents, NEW rs, rs = runnerEvents
  PROVE  LeftOfJobs(js) /\ LeftOfRunners(rs)
<1>1. \A i \in DOMAIN js : js[i] \in JobEvent
  BY DEF IInv, TypeOK
<1> QED BY <1>1 DEF IInv, TypeOK, JobsAgree, RunnersAgree, LeftOfJobs, LeftOfRunners

LEMMA StopInv ==
  ASSUME IInv, NEW js, NEW rs, LeftOfJobs(js), LeftOfRunners(rs), Stop(js, rs),
         crashes' \in 0..MaxCrashes
  PROVE  IInv'
<1>1. /\ pc' = "down" /\ todo' = {} /\ closed' = {}
      /\ cachedJobs' = [j \in Job |-> [status |-> "absent", runner |-> Nobody]]
      /\ cachedRunners' = [n \in Runner |-> "absent"]
      /\ currentJobs' = [n \in Runner |-> 0]
      /\ jobRows' = jobRows /\ runnerRows' = runnerRows
  BY DEF Stop, rowVars, NoJob
<1>2. jobEvents' = <<>> \/ (jobEvents' = js /\ "jobs" \notin closed)
  BY DEF Stop, InFlight
<1>3. runnerEvents' = <<>> \/ (runnerEvents' = rs /\ "runners" \notin closed)
  BY DEF Stop, InFlight
<1>4. TypeOK'
  <2>1. /\ jobEvents' \in Seq(JobEvent) /\ Len(jobEvents') <= BufferSize
        /\ runnerEvents' \in Seq(RunnerEvent) /\ Len(runnerEvents') <= BufferSize
    <3>1. <<>> \in Seq(JobEvent) /\ <<>> \in Seq(RunnerEvent) /\ Len(<<>>) <= BufferSize
      BY ConstantsTyped
    <3> QED BY <1>2, <1>3, <3>1 DEF LeftOfJobs, LeftOfRunners
  <2>2. cachedJobs' \in [Job -> JobRow] /\ cachedRunners' \in [Runner -> RunnerStatus]
    BY <1>1 DEF JobRow, JobStatus, RunnerStatus, Gone
  <2> QED BY <1>1, <2>1, <2>2 DEF IInv, TypeOK
<1>5. \A j \in Job : RowAgrees(j)' /\ CachedAgrees(j)'
  BY <1>1 DEF IInv, JobsAgree, RowAgrees, CachedAgrees
<1>6. \A i \in DOMAIN jobEvents' : JobEventAgrees(jobEvents[i])'
  <2>1. ASSUME NEW e \in JobEvent, JobEventAgrees(e) PROVE JobEventAgrees(e)'
    <3>1. e.job \in Job
      BY DEF JobEvent
    <3> QED BY <1>1, <2>1, <3>1 DEF JobEventAgrees
  <2>2. CASE jobEvents' = <<>>
    BY <2>2
  <2>3. CASE jobEvents' = js
    <3>1. ASSUME NEW i \in DOMAIN js PROVE JobEventAgrees(js[i])'
      BY <2>1 DEF LeftOfJobs
    <3> QED BY <2>3, <3>1 DEF JobEventAgrees
  <2> QED BY <1>2, <2>2, <2>3
<1>7. NewestJobAgrees(jobEvents)'
  BY <1>1, <1>2 DEF LeftOfJobs, NewestJobAgrees
<1>8. \A i \in DOMAIN runnerEvents' : RunnerEventAgrees(runnerEvents[i])'
  BY <1>1, <1>3 DEF LeftOfRunners, RunnerEventAgrees
<1>9. NewestRunnerAgrees(runnerEvents)'
  BY <1>1, <1>3 DEF LeftOfRunners, NewestRunnerAgrees
<1> QED BY <1>1, <1>4, <1>5, <1>6, <1>7, <1>8, <1>9 DEF IInv, JobsAgree, RunnersAgree
\* What a step leaves alone.
LEMMA JobsSame ==
  ASSUME IInv, UNCHANGED <<jobRows, runnerRows, cachedJobs, jobEvents, closed>>,
         pc' = "ready" => pc = "ready",
         \A j \in Job : CachedAgrees(j)'
  PROVE  JobsAgree'
<1>1. \A j \in Job : RowAgrees(j)'
  BY DEF IInv, JobsAgree, RowAgrees
<1>2. \A i \in DOMAIN jobEvents' : JobEventAgrees(jobEvents[i])'
  BY DEF IInv, JobsAgree, JobEventAgrees
<1>3. ASSUME "jobs" \notin closed'
      PROVE  /\ NewestJobAgrees(jobEvents)'
             /\ pc' = "ready" => \A j \in Job : JobNoted(jobEvents', j) \/ JobIsFresh(j)'
  BY <1>3 DEF IInv, JobsAgree, NewestJobAgrees, JobIsFresh
<1> QED BY <1>1, <1>2, <1>3 DEF JobsAgree

LEMMA RunnersSame ==
  ASSUME IInv, UNCHANGED <<runnerRows, cachedRunners, runnerEvents, closed>>,
         pc' \in {"listed", "ready"} => pc \in {"listed", "ready"}
  PROVE  RunnersAgree'
BY DEF IInv, RunnersAgree, RunnerEventAgrees, NewestRunnerAgrees, RunnerIsFresh

\* An event of a job is handled: what was read from it, or from the row, is
\* right if it is the newest.
LEMMA JobsHandled ==
  ASSUME IInv, jobEvents # <<>>, NEW rest, rest = Tail(jobEvents), jobEvents' = rest,
         UNCHANGED <<jobRows, runnerRows, closed>>, pc = "ready", pc' = "ready",
         \A j \in Job : CachedAgrees(j)',
         \A j \in Job : j # Head(jobEvents).job => cachedJobs'[j] = cachedJobs[j],
         \A e \in JobEvent : JobEventAgrees(e) => JobEventAgrees(e)',
         \A j \in Job : j = Head(jobEvents).job /\ Head(jobEvents).status = jobRows[j].status
                        => JobIsFresh(j)'
  PROVE  JobsAgree'
<1> DEFINE h == Head(jobEvents)
<1>1. /\ rest \in Seq(JobEvent)
      /\ h \in JobEvent
      /\ \A i \in DOMAIN rest : rest[i] \in JobEvent /\ JobEventAgrees(rest[i])
      /\ \A j \in Job : JobNoted(jobEvents, j) => j = h.job \/ JobNoted(rest, j)
      /\ NewestJobAgrees(jobEvents) =>
           /\ NewestJobAgrees(rest)
           /\ ~JobNoted(rest, h.job) => h.status = jobRows[h.job].status
  BY TailJobs
<1>2. h.job \in Job
  BY <1>1 DEF JobEvent
<1>3. PICK j1 : j1 = h.job
  OBVIOUS
<1>4. PICK st : st = h.status
  OBVIOUS
<1> HIDE DEF h
<1>5. \A j \in Job : RowAgrees(j)'
  BY DEF IInv, JobsAgree, RowAgrees
<1>6. \A i \in DOMAIN jobEvents' : JobEventAgrees(jobEvents[i])'
  <2>1. ASSUME NEW i \in DOMAIN rest PROVE JobEventAgrees(rest[i])'
    BY <1>1
  <2> QED BY <2>1 DEF JobEventAgrees
<1>7. ASSUME "jobs" \notin closed'
      PROVE  /\ NewestJobAgrees(jobEvents)'
             /\ pc' = "ready" => \A j \in Job : JobNoted(jobEvents', j) \/ JobIsFresh(j)'
  <2>1. /\ NewestJobAgrees(jobEvents)
        /\ \A j \in Job : JobNoted(jobEvents, j) \/ JobIsFresh(j)
    BY <1>7 DEF IInv, JobsAgree
  <2>2. NewestJobAgrees(jobEvents)'
    BY <1>1, <2>1 DEF NewestJobAgrees
  <2>3. ASSUME NEW j \in Job, ~JobNoted(rest, j) PROVE JobIsFresh(j)'
    <3>1. CASE j = j1
      <4>1. st = jobRows[j1].status
        BY <1>1, <1>3, <1>4, <2>1, <2>3, <3>1
      <4>2. JobIsFresh(j1)'
        BY <1>2, <1>3, <1>4, <4>1 DEF h
      <4> QED BY <3>1, <4>2
    <3>2. CASE j # j1
      <4>1. JobIsFresh(j) /\ cachedJobs'[j] = cachedJobs[j]
        BY <1>1, <1>3, <2>1, <2>3, <3>2 DEF h
      <4> QED BY <4>1 DEF JobIsFresh
    <3> QED BY <3>1, <3>2
  <2> QED BY <2>2, <2>3
<1> QED BY <1>5, <1>6, <1>7 DEF JobsAgree

LEMMA RunnersHandled ==
  ASSUME IInv, runnerEvents # <<>>, NEW rest, rest = Tail(runnerEvents),
         runnerEvents' = rest, UNCHANGED <<runnerRows, closed>>, pc = "ready", pc' = "ready",
         \A n \in Runner : n # Head(runnerEvents).runner => cachedRunners'[n] = cachedRunners[n],
         \A n \in Runner : n = Head(runnerEvents).runner
                           /\ Head(runnerEvents).status = runnerRows[n]
                           => RunnerIsFresh(n)'
  PROVE  RunnersAgree'
<1> DEFINE h == Head(runnerEvents)
<1>1. /\ rest \in Seq(RunnerEvent)
      /\ h \in RunnerEvent
      /\ \A i \in DOMAIN rest : RunnerEventAgrees(rest[i])
      /\ \A n \in Runner : RunnerNoted(runnerEvents, n) => n = h.runner \/ RunnerNoted(rest, n)
      /\ NewestRunnerAgrees(runnerEvents) =>
           /\ NewestRunnerAgrees(rest)
           /\ ~RunnerNoted(rest, h.runner) => h.status = runnerRows[h.runner]
  BY TailRunners
<1>2. h.runner \in Runner
  BY <1>1 DEF RunnerEvent
<1>3. PICK n1 : n1 = h.runner
  OBVIOUS
<1>4. PICK st : st = h.status
  OBVIOUS
<1> HIDE DEF h
<1>5. \A i \in DOMAIN runnerEvents' : RunnerEventAgrees(runnerEvents[i])'
  BY <1>1 DEF RunnerEventAgrees
<1>6. ASSUME "runners" \notin closed'
      PROVE  /\ NewestRunnerAgrees(runnerEvents)'
             /\ \A n \in Runner : RunnerNoted(runnerEvents', n) \/ RunnerIsFresh(n)'
  <2>1. /\ NewestRunnerAgrees(runnerEvents)
        /\ \A n \in Runner : RunnerNoted(runnerEvents, n) \/ RunnerIsFresh(n)
    BY <1>6 DEF IInv, RunnersAgree
  <2>2. NewestRunnerAgrees(runnerEvents)'
    BY <1>1, <2>1 DEF NewestRunnerAgrees
  <2>3. ASSUME NEW n \in Runner, ~RunnerNoted(rest, n) PROVE RunnerIsFresh(n)'
    <3>1. CASE n = n1
      <4>1. st = runnerRows[n1]
        BY <1>1, <1>3, <1>4, <2>1, <2>3, <3>1
      <4>2. RunnerIsFresh(n1)'
        BY <1>2, <1>3, <1>4, <4>1 DEF h
      <4> QED BY <3>1, <4>2
    <3>2. CASE n # n1
      <4>1. RunnerIsFresh(n) /\ cachedRunners'[n] = cachedRunners[n]
        BY <1>1, <1>3, <2>1, <2>3, <3>2 DEF h
      <4> QED BY <4>1 DEF RunnerIsFresh
    <3> QED BY <3>1, <3>2
  <2> QED BY <2>2, <2>3
<1> QED BY <1>5, <1>6 DEF RunnersAgree

LEMMA HeldTyped ==
  ASSUME NEW n
  PROVE  IsFiniteSet(Held(n)) /\ Cardinality(Held(n)) \in Nat
<1>1. Held(n) \in SUBSET Job
  BY DEF Held
<1>2. IsFiniteSet(Held(n))
  BY <1>1, ConstantsTyped, FS_Subset
<1> QED BY <1>2, FS_CardinalityType

LEMMA TallyMovedTyped ==
  ASSUME currentJobs \in [Runner -> Int], NEW from, NEW to
  PROVE  TallyMoved(from, to) \in [Runner -> Int]
BY DEF TallyMoved
\* The round over the jobs that follows an event.
LEMMA RoundTakes ==
  ASSUME Round(cachedJobs')
  PROVE  /\ todo' \subseteq Job
         /\ \A j \in Job : j \in todo' <=> cachedJobs'[j].status # "absent"
BY DEF Round

LEMMA HandleJobCreatedInv ==
  ASSUME IInv, pc = "ready", jobEvents # <<>>, NEW rest, rest = Tail(jobEvents),
         NEW j, j = Head(jobEvents).job, Head(jobEvents).kind = "created",
         HandleJobCreated(j, rest), UNCHANGED crashes
  PROVE  IInv'
<1>1. /\ TypeOK /\ jobRows \in [Job -> JobRow] /\ cachedJobs \in [Job -> JobRow]
      /\ \A k \in Job : RowAgrees(k) /\ CachedAgrees(k) /\ jobRows[k] \in JobRow
  BY DEF IInv, TypeOK, JobsAgree
<1>2. /\ LeftOfJobs(rest) /\ rest \in Seq(JobEvent) /\ Len(rest) <= BufferSize
      /\ Head(jobEvents) \in JobEvent /\ JobEventAgrees(Head(jobEvents))
  BY TailJobs DEF LeftOfJobs, IInv, JobsAgree
<1>3. j \in Job
  BY <1>2 DEF JobEvent
<1>4. CASE Stop(rest, runnerEvents)
  <2>1. PICK rs : rs = runnerEvents
    OBVIOUS
  <2>2. LeftOfRunners(rs) /\ crashes' \in 0..MaxCrashes
    BY <1>1, <2>1, LeftNow DEF TypeOK
  <2> QED BY <1>2, <1>4, <2>1, <2>2, StopInv
<1>5. CASE /\ jobRows[j].status \notin Gone
           /\ cachedJobs' = [cachedJobs EXCEPT ![j] = jobRows[j]]
           /\ Round(cachedJobs')
           /\ jobEvents' = rest
           /\ UNCHANGED <<rowVars, pc, cachedRunners, currentJobs, runnerEvents, closed>>
  <2>1. /\ cachedJobs' \in [Job -> JobRow]
        /\ cachedJobs'[j] = jobRows[j]
        /\ \A k \in Job : k # j => cachedJobs'[k] = cachedJobs[k]
    BY <1>1, <1>3, <1>5
  <2>2. /\ jobRows' = jobRows /\ runnerRows' = runnerRows /\ pc' = pc /\ closed' = closed
        /\ runnerEvents' = runnerEvents /\ cachedRunners' = cachedRunners
        /\ currentJobs' = currentJobs
    BY <1>5 DEF rowVars
  <2>3. TypeOK'
    BY <1>1, <1>2, <1>5, <2>1, <2>2, RoundTakes DEF TypeOK
  <2>4. ASSUME NEW k \in Job PROVE CachedAgrees(k)'
    <3>1. CASE k = j
      BY <1>1, <1>3, <1>5, <2>1, <2>2, <3>1, RoundTakes
      DEF CachedAgrees, RowAgrees, Gone
    <3>2. CASE k # j
      BY <1>1, <1>5, <2>1, <2>2, <3>2, RoundTakes DEF CachedAgrees
    <3> QED BY <3>1, <3>2
  <2>5. ASSUME NEW e \in JobEvent, JobEventAgrees(e) PROVE JobEventAgrees(e)'
    <3>1. e.job \in Job
      BY DEF JobEvent
    <3>2. CASE e.job = j
      BY <1>5, <2>1, <2>2, <2>5, <3>2 DEF JobEventAgrees, Gone
    <3>3. CASE e.job # j
      BY <2>1, <2>2, <2>5, <3>1, <3>3 DEF JobEventAgrees
    <3> QED BY <3>2, <3>3
  <2>6. JobIsFresh(j)'
    BY <1>1, <1>2, <1>5, <2>1, <2>2 DEF JobIsFresh, JobEventAgrees
  <2>7. JobsAgree'
    BY <1>5, <2>1, <2>2, <2>4, <2>5, <2>6, JobsHandled
  <2>8. RunnersAgree'
    BY <2>2, RunnersSame
  <2> QED BY <2>3, <2>7, <2>8 DEF IInv
<1> QED BY <1>4, <1>5 DEF HandleJobCreated

LEMMA HandleJobUpdatedInv ==
  ASSUME IInv, pc = "ready", jobEvents # <<>>, NEW rest, rest = Tail(jobEvents),
         NEW j, j = Head(jobEvents).job, Head(jobEvents).kind = "updated",
         NEW status, status = Head(jobEvents).status,
         HandleJobUpdated(j, status, rest), UNCHANGED crashes
  PROVE  IInv'
<1>1. /\ TypeOK /\ jobRows \in [Job -> JobRow] /\ cachedJobs \in [Job -> JobRow]
      /\ \A k \in Job : RowAgrees(k) /\ CachedAgrees(k) /\ jobRows[k] \in JobRow
  BY DEF IInv, TypeOK, JobsAgree
<1>2. /\ LeftOfJobs(rest) /\ rest \in Seq(JobEvent) /\ Len(rest) <= BufferSize
      /\ Head(jobEvents) \in JobEvent /\ JobEventAgrees(Head(jobEvents))
  BY TailJobs DEF LeftOfJobs, IInv, JobsAgree
<1>3. j \in Job
  BY <1>2 DEF JobEvent
<1>4. CASE Stop(rest, runnerEvents)
  <2>1. PICK rs : rs = runnerEvents
    OBVIOUS
  <2>2. LeftOfRunners(rs) /\ crashes' \in 0..MaxCrashes
    BY <1>1, <2>1, LeftNow DEF TypeOK
  <2> QED BY <1>2, <1>4, <2>1, <2>2, StopInv
<1>5. CASE /\ cachedJobs[j].status # "absent"
           /\ cachedJobs' = [cachedJobs EXCEPT ![j].status = status]
           /\ Round(cachedJobs')
           /\ jobEvents' = rest
           /\ UNCHANGED <<rowVars, pc, cachedRunners, currentJobs, runnerEvents, closed>>
  <2>1. /\ status \in {"allocated", "running", "done"}
        /\ status = "done" => jobRows[j].status \in {"done", "deleted"}
        /\ status \in {"allocated", "running"} => cachedJobs[j].runner # Nobody
    BY <1>2, <1>5 DEF JobEventAgrees
  <2>2. /\ cachedJobs' \in [Job -> JobRow]
        /\ cachedJobs'[j] = [status |-> status, runner |-> cachedJobs[j].runner]
        /\ \A k \in Job : k # j => cachedJobs'[k] = cachedJobs[k]
    <3>1. PICK row \in JobRow : row = cachedJobs[j]
      BY <1>1, <1>3
    <3>2. PICK row2 : row2 = [row EXCEPT !.status = status]
      OBVIOUS
    <3>3. row2 = [status |-> status, runner |-> row.runner] /\ row2 \in JobRow
      BY <2>1, <3>2 DEF JobRow, JobStatus
    <3>4. cachedJobs' = [cachedJobs EXCEPT ![j] = row2]
      BY <1>5, <3>1, <3>2
    <3> QED BY <1>1, <1>3, <3>1, <3>3, <3>4
  <2>3. /\ jobRows' = jobRows /\ runnerRows' = runnerRows /\ pc' = pc /\ closed' = closed
        /\ runnerEvents' = runnerEvents /\ cachedRunners' = cachedRunners
        /\ currentJobs' = currentJobs
    BY <1>5 DEF rowVars
  <2>4. TypeOK'
    BY <1>1, <1>2, <1>5, <2>2, <2>3, RoundTakes DEF TypeOK
  <2>5. ASSUME NEW k \in Job PROVE CachedAgrees(k)'
    <3>1. CASE k = j
      BY <1>1, <1>3, <1>5, <2>1, <2>2, <2>3, <3>1, RoundTakes DEF CachedAgrees
    <3>2. CASE k # j
      BY <1>1, <1>5, <2>2, <2>3, <3>2, RoundTakes DEF CachedAgrees
    <3> QED BY <3>1, <3>2
  <2>6. ASSUME NEW e \in JobEvent, JobEventAgrees(e) PROVE JobEventAgrees(e)'
    <3>1. e.job \in Job
      BY DEF JobEvent
    <3>2. CASE e.job = j
      BY <1>5, <2>2, <2>3, <2>6, <3>2 DEF JobEventAgrees
    <3>3. CASE e.job # j
      BY <2>2, <2>3, <2>6, <3>1, <3>3 DEF JobEventAgrees
    <3> QED BY <3>2, <3>3
  <2>7. status = jobRows[j].status => JobIsFresh(j)'
    <3> HAVE status = jobRows[j].status
    <3>1. jobRows[j] = [status |-> jobRows[j].status, runner |-> jobRows[j].runner]
      BY <1>1, <1>3 DEF JobRow
    <3>2. cachedJobs[j].runner = jobRows[j].runner
      BY <1>1, <1>3, <1>5, <2>1 DEF CachedAgrees
    <3> QED BY <2>1, <2>2, <2>3, <3>1, <3>2 DEF JobIsFresh, Gone
  <2>8. JobsAgree'
    BY <1>5, <2>2, <2>3, <2>5, <2>6, <2>7, JobsHandled
  <2>9. RunnersAgree'
    BY <2>3, RunnersSame
  <2> QED BY <2>4, <2>8, <2>9 DEF IInv
<1> QED BY <1>4, <1>5 DEF HandleJobUpdated
LEMMA HandleJobDeletedInv ==
  ASSUME IInv, pc = "ready", jobEvents # <<>>, NEW rest, rest = Tail(jobEvents),
         NEW j, j = Head(jobEvents).job, Head(jobEvents).kind = "deleted",
         HandleJobDeleted(j, rest), UNCHANGED crashes
  PROVE  IInv'
<1>1. /\ TypeOK /\ jobRows \in [Job -> JobRow] /\ cachedJobs \in [Job -> JobRow]
      /\ \A k \in Job : CachedAgrees(k)
  BY DEF IInv, TypeOK, JobsAgree
<1>2. /\ rest \in Seq(JobEvent) /\ Len(rest) <= BufferSize
      /\ Head(jobEvents) \in JobEvent /\ JobEventAgrees(Head(jobEvents))
  BY TailJobs
<1>3. j \in Job /\ jobRows[j].status = "deleted"
  BY <1>2 DEF JobEvent, JobEventAgrees
<1>4. /\ cachedJobs' \in [Job -> JobRow]
      /\ cachedJobs'[j] = [status |-> "absent", runner |-> Nobody]
      /\ \A k \in Job : k # j => cachedJobs'[k] = cachedJobs[k]
  BY <1>1, <1>3 DEF HandleJobDeleted, NoJob, JobRow, JobStatus, Gone
<1>5. /\ jobRows' = jobRows /\ runnerRows' = runnerRows /\ pc' = pc /\ closed' = closed
      /\ runnerEvents' = runnerEvents /\ cachedRunners' = cachedRunners
      /\ jobEvents' = rest
  BY DEF HandleJobDeleted, rowVars
<1>6. /\ currentJobs' \in [Runner -> Int]
      /\ todo' \subseteq Job
      /\ \A k \in Job : k \in todo' <=> cachedJobs'[k].status # "absent"
  BY <1>1, TallyMovedTyped, RoundTakes DEF HandleJobDeleted, TypeOK
<1>7. TypeOK'
  BY <1>1, <1>2, <1>4, <1>5, <1>6 DEF TypeOK
<1>8. \A k \in Job : CachedAgrees(k)'
  BY <1>1, <1>4, <1>5, <1>6 DEF CachedAgrees
<1>9. ASSUME NEW e \in JobEvent, JobEventAgrees(e) PROVE JobEventAgrees(e)'
  <2>1. e.job \in Job
    BY DEF JobEvent
  <2> QED BY <1>4, <1>5, <1>9, <2>1 DEF JobEventAgrees
<1>10. JobIsFresh(j)'
  BY <1>3, <1>4, <1>5 DEF JobIsFresh, Gone
<1>11. JobsAgree'
  BY <1>4, <1>5, <1>8, <1>9, <1>10, JobsHandled
<1>12. RunnersAgree'
  BY <1>5, RunnersSame
<1> QED BY <1>7, <1>11, <1>12 DEF IInv

\* An event of a runner is handled, and leaves the jobs alone.
LEMMA RunnerEventInv ==
  ASSUME IInv, pc = "ready", runnerEvents # <<>>, runnerEvents' = Tail(runnerEvents),
         cachedRunners' \in [Runner -> RunnerStatus], currentJobs' \in [Runner -> Int],
         Round(cachedJobs), UNCHANGED <<rowVars, pc, cachedJobs, jobEvents, closed, crashes>>,
         \A n \in Runner : n # Head(runnerEvents).runner => cachedRunners'[n] = cachedRunners[n],
         \A n \in Runner : n = Head(runnerEvents).runner
                           /\ Head(runnerEvents).status = runnerRows[n]
                           => RunnerIsFresh(n)'
  PROVE  IInv'
<1>1. /\ jobRows' = jobRows /\ runnerRows' = runnerRows /\ pc' = pc /\ closed' = closed
      /\ cachedJobs' = cachedJobs /\ jobEvents' = jobEvents /\ crashes' = crashes
  BY DEF rowVars
<1>2. PICK rest : rest = Tail(runnerEvents)
  OBVIOUS
<1>3. rest \in Seq(RunnerEvent) /\ Len(rest) <= BufferSize
  BY <1>2, TailRunners
<1>4. /\ todo' \subseteq Job
      /\ \A k \in Job : k \in todo' <=> cachedJobs'[k].status # "absent"
  BY <1>1, RoundTakes DEF Round
<1>5. TypeOK'
  BY <1>1, <1>2, <1>3, <1>4 DEF IInv, TypeOK
<1>6. \A k \in Job : CachedAgrees(k)'
  BY <1>1, <1>4 DEF IInv, JobsAgree, CachedAgrees
<1>7. JobsAgree'
  BY <1>1, <1>6, JobsSame
<1>8. RunnersAgree'
  BY <1>1, <1>2, RunnersHandled
<1> QED BY <1>5, <1>7, <1>8 DEF IInv

LEMMA HandleRunnerEventInv ==
  ASSUME IInv, HandleRunnerEvent
  PROVE  IInv'
<1>1. PICK n, kind, status, rest :
        /\ n = Head(runnerEvents).runner /\ kind = Head(runnerEvents).kind
        /\ status = Head(runnerEvents).status /\ rest = Tail(runnerEvents)
  OBVIOUS
<1>2. /\ pc = "ready" /\ runnerEvents # <<>> /\ UNCHANGED crashes
      /\ \/ kind = "created" /\ HandleRunnerCreated(n, rest)
         \/ kind = "updated" /\ HandleRunnerUpdated(n, status, rest)
         \/ kind = "deleted" /\ HandleRunnerDeleted(n, rest)
  BY <1>1 DEF HandleRunnerEvent
<1>3. /\ TypeOK /\ runnerRows \in [Runner -> RunnerStatus]
      /\ cachedRunners \in [Runner -> RunnerStatus] /\ currentJobs \in [Runner -> Int]
      /\ crashes' \in 0..MaxCrashes
  BY <1>2 DEF IInv, TypeOK
<1>4. /\ Head(runnerEvents) \in RunnerEvent /\ RunnerEventAgrees(Head(runnerEvents))
      /\ LeftOfRunners(rest)
  BY <1>1, <1>2, TailRunners DEF LeftOfRunners, IInv, RunnersAgree
<1>5. n \in Runner /\ status \in RunnerStatus
  BY <1>1, <1>4 DEF RunnerEvent
<1>6. ASSUME Stop(jobEvents, rest) PROVE IInv'
  <2>1. PICK js : js = jobEvents
    OBVIOUS
  <2>2. LeftOfJobs(js)
    BY <2>1, LeftNow
  <2> QED BY <1>3, <1>4, <1>6, <2>1, <2>2, StopInv
<1>7. CASE kind = "created" /\ HandleRunnerCreated(n, rest)
  <2>1. CASE runnerRows[n] \notin Gone
    <3>1. /\ cachedRunners' = [cachedRunners EXCEPT ![n] = runnerRows[n]]
          /\ currentJobs' = [currentJobs EXCEPT ![n] = Cardinality(Held(n))]
          /\ Round(cachedJobs) /\ runnerEvents' = rest
          /\ UNCHANGED <<rowVars, pc, cachedJobs, jobEvents, closed>>
      BY <1>7, <2>1 DEF HandleRunnerCreated
    <3>2. currentJobs' \in [Runner -> Int]
      <4>1. PICK c : c = Cardinality(Held(n))
        OBVIOUS
      <4>2. c \in Int
        BY <4>1, HeldTyped
      <4> QED BY <1>3, <3>1, <4>1, <4>2
    <3>3. runnerRows' = runnerRows
      BY <3>1 DEF rowVars
    <3>4. /\ cachedRunners' \in [Runner -> RunnerStatus]
          /\ \A m \in Runner : m # n => cachedRunners'[m] = cachedRunners[m]
          /\ cachedRunners'[n] = runnerRows'[n]
      BY <1>3, <1>5, <3>1, <3>3
    <3>5. RunnerIsFresh(n)'
      BY <2>1, <3>3, <3>4 DEF RunnerIsFresh
    <3> QED BY <1>1, <1>2, <3>1, <3>2, <3>4, <3>5, RunnerEventInv
  <2>2. CASE runnerRows[n] \in Gone
    BY <1>6, <1>7, <2>2 DEF HandleRunnerCreated
  <2> QED BY <2>1, <2>2
<1>8. CASE kind = "updated" /\ HandleRunnerUpdated(n, status, rest)
  <2>1. CASE cachedRunners[n] # "absent"
    <3>1. /\ cachedRunners' = [cachedRunners EXCEPT ![n] = status]
          /\ Round(cachedJobs) /\ runnerEvents' = rest
          /\ UNCHANGED <<rowVars, pc, cachedJobs, currentJobs, jobEvents, closed>>
      BY <1>8, <2>1 DEF HandleRunnerUpdated
    <3>2. currentJobs' \in [Runner -> Int] /\ runnerRows' = runnerRows
      BY <1>3, <3>1 DEF rowVars
    <3>3. /\ cachedRunners' \in [Runner -> RunnerStatus]
          /\ \A m \in Runner : m # n => cachedRunners'[m] = cachedRunners[m]
          /\ cachedRunners'[n] = status
      BY <1>3, <1>5, <3>1
    <3>4. status \notin Gone
      BY <1>1, <1>4, <1>8 DEF RunnerEventAgrees, Gone
    <3>5. status = runnerRows[n] => RunnerIsFresh(n)'
      BY <3>2, <3>3, <3>4 DEF RunnerIsFresh
    <3> QED BY <1>1, <1>2, <3>1, <3>2, <3>3, <3>5, RunnerEventInv
  <2>2. CASE cachedRunners[n] = "absent"
    BY <1>6, <1>8, <2>2 DEF HandleRunnerUpdated
  <2> QED BY <2>1, <2>2
<1>9. CASE kind = "deleted" /\ HandleRunnerDeleted(n, rest)
  <2>1. /\ cachedRunners' = [cachedRunners EXCEPT ![n] = "absent"]
        /\ currentJobs' = [currentJobs EXCEPT ![n] = 0]
        /\ Round(cachedJobs) /\ runnerEvents' = rest
        /\ UNCHANGED <<rowVars, pc, cachedJobs, jobEvents, closed>>
    BY <1>9 DEF HandleRunnerDeleted
  <2>2. currentJobs' \in [Runner -> Int] /\ runnerRows' = runnerRows
    <3>1. PICK c \in Int : c = 0
      OBVIOUS
    <3>2. currentJobs' \in [Runner -> Int]
      <4>1. currentJobs' = [currentJobs EXCEPT ![n] = c]
        BY <2>1, <3>1
      <4> QED BY <1>3, <4>1
    <3> QED BY <2>1, <3>2 DEF rowVars
  <2>3. /\ cachedRunners' \in [Runner -> RunnerStatus]
        /\ \A m \in Runner : m # n => cachedRunners'[m] = cachedRunners[m]
        /\ cachedRunners'[n] = "absent"
    BY <1>3, <1>5, <2>1 DEF RunnerStatus, Gone
  <2>4. runnerRows[n] = "deleted"
    BY <1>1, <1>4, <1>9 DEF RunnerEventAgrees
  <2>5. RunnerIsFresh(n)'
    BY <2>2, <2>3, <2>4 DEF RunnerIsFresh, Gone
  <2> QED BY <1>1, <1>2, <2>1, <2>2, <2>3, <2>5, RunnerEventInv
<1> QED BY <1>2, <1>7, <1>8, <1>9

LEMMA HandleJobEventInv ==
  ASSUME IInv, HandleJobEvent
  PROVE  IInv'
<1>1. PICK j, status, rest : /\ j = Head(jobEvents).job
                             /\ status = Head(jobEvents).status
                             /\ rest = Tail(jobEvents)
  OBVIOUS
<1>2. /\ pc = "ready" /\ jobEvents # <<>> /\ UNCHANGED crashes
      /\ \/ Head(jobEvents).kind = "created" /\ HandleJobCreated(j, rest)
         \/ Head(jobEvents).kind = "updated" /\ HandleJobUpdated(j, status, rest)
         \/ Head(jobEvents).kind = "deleted" /\ HandleJobDeleted(j, rest)
  BY <1>1 DEF HandleJobEvent
<1> QED BY <1>1, <1>2, HandleJobCreatedInv, HandleJobUpdatedInv, HandleJobDeletedInv

\* The allocator starts.
LEMMA WatchInv ==
  ASSUME IInv, WatchRunners \/ WatchJobs
  PROVE  IInv'
<1>1. /\ UNCHANGED <<jobRows, runnerRows, cachedJobs, cachedRunners, currentJobs, todo,
                     jobEvents, runnerEvents, closed, crashes>>
      /\ pc \in {"down", "watching"} /\ pc' \in {"watching", "subscribed"}
  BY DEF WatchRunners, WatchJobs, rowVars, cacheVars, busVars
<1>2. TypeOK'
  BY <1>1 DEF IInv, TypeOK
<1>3. \A j \in Job : CachedAgrees(j)'
  BY <1>1 DEF IInv, JobsAgree, CachedAgrees
<1>4. JobsAgree'
  BY <1>1, <1>3, JobsSame
<1>5. RunnersAgree'
  BY <1>1, RunnersSame
<1> QED BY <1>2, <1>4, <1>5 DEF IInv

LEMMA ListRunnersInv ==
  ASSUME IInv, ListRunners
  PROVE  IInv'
<1>1. /\ UNCHANGED <<jobRows, runnerRows, cachedJobs, todo, jobEvents, runnerEvents,
                     closed, crashes>>
      /\ pc = "subscribed" /\ pc' = "listed"
      /\ cachedRunners' = [n \in Runner |-> IF runnerRows[n] \in Gone
                                            THEN "absent" ELSE runnerRows[n]]
      /\ currentJobs' = [n \in Runner |-> Cardinality(Held(n))]
  BY DEF ListRunners, rowVars, busVars
<1>2. cachedRunners' \in [Runner -> RunnerStatus] /\ currentJobs' \in [Runner -> Int]
  BY <1>1, HeldTyped DEF IInv, TypeOK, RunnerStatus, Gone
<1>3. TypeOK'
  BY <1>1, <1>2 DEF IInv, TypeOK
<1>4. \A j \in Job : CachedAgrees(j)'
  BY <1>1 DEF IInv, JobsAgree, CachedAgrees
<1>5. JobsAgree'
  BY <1>1, <1>4, JobsSame
<1>6. \A n \in Runner : RunnerIsFresh(n)'
  BY <1>1 DEF RunnerIsFresh
<1>7. RunnersAgree'
  BY <1>1, <1>6 DEF IInv, RunnersAgree, RunnerEventAgrees, NewestRunnerAgrees
<1> QED BY <1>3, <1>5, <1>7 DEF IInv

LEMMA listJobsInv ==
  ASSUME IInv, listJobs
  PROVE  IInv'
<1> DEFINE live == {j \in Job : jobRows[j].status \notin Gone \cup {"done"}}
<1>1. /\ UNCHANGED <<jobRows, runnerRows, cachedRunners, currentJobs, jobEvents,
                     runnerEvents, closed, crashes>>
      /\ pc = "listed" /\ pc' = "ready"
      /\ cachedJobs' = [j \in Job |-> IF j \in live THEN jobRows[j]
                                     ELSE [status |-> "absent", runner |-> Nobody]]
      /\ todo' = live
  BY DEF listJobs, rowVars, busVars, NoJob
<1>2. /\ TypeOK /\ jobRows \in [Job -> JobRow]
      /\ \A j \in Job : RowAgrees(j) /\ CachedAgrees(j) /\ jobRows[j] \in JobRow
  BY DEF IInv, TypeOK, JobsAgree
<1>3. cachedJobs' \in [Job -> JobRow]
  BY <1>1, <1>2 DEF JobRow, JobStatus, Gone
<1>4. TypeOK'
  BY <1>1, <1>2, <1>3 DEF TypeOK
<1>5. ASSUME NEW j \in Job PROVE CachedAgrees(j)' /\ JobIsFresh(j)' /\ RowAgrees(j)'
  <2>1. CASE j \in live
    <3>1. cachedJobs'[j] = jobRows[j] /\ j \in todo'
      BY <1>1, <2>1
    <3> QED BY <1>1, <1>2, <2>1, <3>1
        DEF CachedAgrees, JobIsFresh, RowAgrees, Gone
  <2>2. CASE j \notin live
    <3>1. cachedJobs'[j] = [status |-> "absent", runner |-> Nobody] /\ j \notin todo'
      BY <1>1, <2>2
    <3> QED BY <1>1, <1>2, <2>2, <3>1
        DEF CachedAgrees, JobIsFresh, RowAgrees, Gone
  <2> QED BY <2>1, <2>2
<1>6. ASSUME NEW i \in DOMAIN jobEvents PROVE JobEventAgrees(jobEvents[i])'
  <2>1. jobEvents[i] \in JobEvent /\ JobEventAgrees(jobEvents[i])
    BY <1>2 DEF TypeOK, IInv, JobsAgree
  <2>2. PICK e \in JobEvent : e = jobEvents[i] /\ JobEventAgrees(e)
    BY <2>1
  <2>3. e.job \in Job
    BY DEF JobEvent
  <2>4. CASE e.job \in live
    <3>1. cachedJobs'[e.job] = jobRows[e.job]
      BY <1>1, <2>4
    <3>2. JobEventAgrees(e)'
      BY <1>1, <1>2, <2>2, <2>3, <2>4, <3>1 DEF JobEventAgrees, Gone
    <3> QED BY <1>1, <2>2, <3>2
  <2>5. CASE e.job \notin live
    <3>1. cachedJobs'[e.job].status = "absent"
      BY <1>1, <2>3, <2>5
    <3>2. JobEventAgrees(e)'
      BY <1>1, <2>2, <2>3, <3>1 DEF JobEventAgrees
    <3> QED BY <1>1, <2>2, <3>2
  <2> QED BY <2>4, <2>5
<1>7. JobsAgree'
  BY <1>1, <1>5, <1>6 DEF IInv, JobsAgree, NewestJobAgrees
<1>8. RunnersAgree'
  BY <1>1, RunnersSame
<1> QED BY <1>4, <1>7, <1>8 DEF IInv

\* A job is placed, or not.
LEMMA SkipInv ==
  ASSUME IInv, NEW j \in Job, Skip(j), cachedJobs[j].status # "done", UNCHANGED crashes
  PROVE  IInv'
<1>1. /\ UNCHANGED <<jobRows, runnerRows, pc, cachedJobs, cachedRunners, currentJobs,
                     jobEvents, runnerEvents, closed, crashes>>
      /\ todo' = todo \ {j}
  BY DEF Skip, rowVars, cacheVars, busVars
<1>2. TypeOK'
  BY <1>1 DEF IInv, TypeOK
<1>3. \A k \in Job : CachedAgrees(k)'
  BY <1>1 DEF IInv, JobsAgree, CachedAgrees
<1>4. JobsAgree'
  BY <1>1, <1>3, JobsSame
<1>5. RunnersAgree'
  BY <1>1, RunnersSame
<1> QED BY <1>2, <1>4, <1>5 DEF IInv

LEMMA RetireInv ==
  ASSUME IInv, NEW j \in Job, Retire(j), cachedJobs[j].status = "done", UNCHANGED crashes
  PROVE  IInv'
<1>1. /\ UNCHANGED <<jobRows, runnerRows, pc, cachedRunners, jobEvents, runnerEvents,
                     closed, crashes>>
      /\ todo' = todo \ {j}
      /\ cachedJobs' = [cachedJobs EXCEPT ![j] = [status |-> "absent", runner |-> Nobody]]
      /\ currentJobs' = TallyMoved(cachedJobs[j].runner, Nobody)
  BY DEF Retire, rowVars, busVars, NoJob
<1>2. /\ TypeOK /\ cachedJobs \in [Job -> JobRow]
      /\ \A k \in Job : RowAgrees(k) /\ CachedAgrees(k)
  BY DEF IInv, TypeOK, JobsAgree
<1>3. /\ cachedJobs' \in [Job -> JobRow]
      /\ cachedJobs'[j] = [status |-> "absent", runner |-> Nobody]
      /\ \A k \in Job : k # j => cachedJobs'[k] = cachedJobs[k]
  BY <1>1, <1>2 DEF JobRow, JobStatus, Gone
<1>4. currentJobs' \in [Runner -> Int]
  BY <1>1, <1>2, TallyMovedTyped DEF TypeOK
<1>5. TypeOK'
  BY <1>1, <1>2, <1>3, <1>4 DEF TypeOK
<1>6. \A k \in Job : RowAgrees(k)' /\ CachedAgrees(k)'
  BY <1>1, <1>2, <1>3 DEF RowAgrees, CachedAgrees
<1>7. \A k \in Job : JobIsFresh(k) => JobIsFresh(k)'
  <2>1. jobRows[j].status \in {"done", "deleted"}
    BY <1>2 DEF CachedAgrees
  <2> QED BY <1>1, <1>3, <2>1 DEF JobIsFresh, Gone
<1>8. ASSUME NEW i \in DOMAIN jobEvents PROVE JobEventAgrees(jobEvents[i])'
  <2>1. jobEvents[i] \in JobEvent /\ JobEventAgrees(jobEvents[i])
    BY <1>2 DEF TypeOK, IInv, JobsAgree
  <2>2. PICK e \in JobEvent : e = jobEvents[i] /\ JobEventAgrees(e)
    BY <2>1
  <2>3. e.job \in Job
    BY DEF JobEvent
  <2>4. JobEventAgrees(e)'
    BY <1>1, <1>3, <2>2, <2>3 DEF JobEventAgrees
  <2> QED BY <1>1, <2>2, <2>4
<1>9. JobsAgree'
  BY <1>1, <1>6, <1>7, <1>8 DEF IInv, JobsAgree, NewestJobAgrees
<1>10. RunnersAgree'
  BY <1>1, RunnersSame
<1> QED BY <1>5, <1>9, <1>10 DEF IInv

LEMMA StopNowInv ==
  ASSUME IInv, Stop(jobEvents, runnerEvents), crashes' \in 0..MaxCrashes
  PROVE  IInv'
<1>1. PICK js, rs : js = jobEvents /\ rs = runnerEvents
  OBVIOUS
<1> QED BY <1>1, LeftNow, StopInv

LEMMA PlaceInv ==
  ASSUME IInv, pc = "ready", NEW j \in Job, NEW n \in Runner, Place(j, n),
         cachedJobs[j].status \in {"unallocated", "allocated"}, UNCHANGED crashes
  PROVE  IInv'
<1> DEFINE row == [status |-> "allocated", runner |-> n]
           e == [kind |-> "updated", job |-> j, status |-> "allocated"]
           evs == <<e>>
<1>1. /\ TypeOK /\ jobRows \in [Job -> JobRow] /\ cachedJobs \in [Job -> JobRow]
      /\ runnerRows \in [Runner -> RunnerStatus] /\ crashes' \in 0..MaxCrashes
      /\ \A k \in Job : RowAgrees(k) /\ CachedAgrees(k)
  BY DEF IInv, TypeOK, JobsAgree
<1>2. CASE Stop(jobEvents, runnerEvents)
  BY <1>1, <1>2, StopNowInv
<1>3. CASE /\ jobRows[j].status = cachedJobs[j].status
           /\ runnerRows[n] \notin Gone
           /\ SetJob(j, row)
           /\ cachedJobs' = [cachedJobs EXCEPT ![j] = row]
           /\ currentJobs' = TallyMoved(cachedJobs[j].runner, n)
           /\ todo' = todo \ {j}
           /\ Emit(JobNote("updated", j), <<>>)
           /\ UNCHANGED <<runnerRows, pc, cachedRunners>>
  <2>1. row \in JobRow
    BY DEF JobRow, JobStatus
  <2>2. /\ jobRows' \in [Job -> JobRow] /\ cachedJobs' \in [Job -> JobRow]
        /\ jobRows'[j] = row /\ cachedJobs'[j] = row
        /\ \A k \in Job : k # j => jobRows'[k] = jobRows[k] /\ cachedJobs'[k] = cachedJobs[k]
    <3> HIDE DEF row
    <3> QED BY <1>1, <1>3, <2>1 DEF SetJob
  <2>3. /\ evs = JobNote("updated", j)
        /\ evs \in Seq(JobEvent) /\ DOMAIN evs = {1} /\ evs[1] = e
        /\ JobNoted(evs, j)
    <3>1. evs = JobNote("updated", j)
      BY <2>2 DEF JobNote
    <3>2. "updated" \in Kind
      BY DEF Kind
    <3>3. evs[1] = e
      OBVIOUS
    <3> HIDE DEF evs
    <3> QED BY <2>2, <3>1, <3>2, <3>3, JobNoteTyped
  <2>4. Emit(evs, <<>>)
    BY <1>3, <2>3
  <2>5. currentJobs' \in [Runner -> Int]
    BY <1>1, <1>3, TallyMovedTyped DEF TypeOK
  <2>6. /\ jobEvents' \in Seq(JobEvent) /\ Len(jobEvents') <= BufferSize
        /\ runnerEvents' \in Seq(RunnerEvent) /\ Len(runnerEvents') <= BufferSize
        /\ closed' \subseteq {"jobs", "runners"}
    <3> HIDE DEF evs
    <3> QED BY <1>1, <2>3, <2>4, NoNote, EmitTyped
  <2>7. TypeOK'
    BY <1>1, <1>3, <2>2, <2>5, <2>6 DEF TypeOK
  <2>8. RowAgrees(j)' /\ CachedAgrees(j)' /\ JobMovesOn(j)
    <3>1. /\ RowAgrees(j)' /\ CachedAgrees(j)'
      BY <1>3, <2>2, ConstantsTyped DEF RowAgrees, CachedAgrees, Gone
    <3>2. JobMovesOn(j)
      BY <1>3, <2>2, ConstantsTyped DEF JobMovesOn
    <3> QED BY <3>1, <3>2
  <2>9. \A k \in Job : k # j => RowAgrees(k)' /\ CachedAgrees(k)' /\ JobMovesOn(k)
    BY <1>1, <1>3, <2>2 DEF RowAgrees, CachedAgrees, JobMovesOn
  <2>10. \A k \in DOMAIN evs : /\ JobEventAgrees(evs[k])'
                               /\ evs[k].status = jobRows'[evs[k].job].status
    <3>1. JobEventAgrees(e)' /\ e.status = jobRows'[e.job].status
      BY <2>2, ConstantsTyped DEF JobEventAgrees
    <3> HIDE DEF e
    <3> QED BY <2>3, <3>1
  <2>11. JobsAgree'
    <3> HIDE DEF evs, row, e
    <3> QED BY <1>3, <2>2, <2>3, <2>4, <2>8, <2>9, <2>10, NoNote, JobsPublished
  <2>12. RunnersAgree'
    <3> HIDE DEF evs, row, e
    <3> QED BY <1>1, <1>3, <2>3, <2>4, NoNote, RunnersPublished
  <2> QED BY <2>7, <2>11, <2>12 DEF IInv
<1> QED BY <1>2, <1>3 DEF Place

LEMMA allocateInv ==
  ASSUME IInv, NEW j \in todo, allocate(j)
  PROVE  IInv'
<1>1. /\ j \in Job /\ pc = "ready" /\ UNCHANGED crashes /\ crashes' \in 0..MaxCrashes
      /\ cachedJobs[j] \in JobRow /\ CachedAgrees(j)
  BY DEF IInv, TypeOK, JobsAgree, allocate
<1>2. cachedJobs[j].status \in {"unallocated", "allocated", "running", "done"}
  BY <1>1 DEF CachedAgrees, JobRow, JobStatus, Gone
<1>3. ASSUME cachedJobs[j].status \in {"unallocated", "allocated"}, PlaceIfAvailable(j)
      PROVE  IInv'
  BY <1>1, <1>3, SkipInv, PlaceInv DEF PlaceIfAvailable, Available
<1>4. CASE cachedJobs[j].status = "unallocated"
  BY <1>3, <1>4 DEF allocate
<1>5. CASE cachedJobs[j].status = "allocated"
  <2>1. \/ Stop(jobEvents, runnerEvents)
        \/ Skip(j)
        \/ PlaceIfAvailable(j)
    BY <1>5 DEF allocate
  <2> QED BY <1>1, <1>3, <1>5, <2>1, SkipInv, StopNowInv
<1>6. CASE cachedJobs[j].status = "running"
  <2>1. Skip(j)
    BY <1>6 DEF allocate
  <2> QED BY <1>1, <1>6, <2>1, SkipInv
<1>7. CASE cachedJobs[j].status = "done"
  <2>1. Retire(j)
    BY <1>7 DEF allocate
  <2> QED BY <1>1, <1>7, <2>1, RetireInv
<1> QED BY <1>2, <1>4, <1>5, <1>6, <1>7

\* Without a subscription an event that is on its way is lost.
LEMMA MissJobEventInv ==
  ASSUME IInv, MissJobEvent
  PROVE  IInv'
<1>1. /\ UNCHANGED <<jobRows, runnerRows, pc, cachedJobs, cachedRunners, currentJobs,
                     todo, runnerEvents, closed, crashes>>
      /\ jobEvents # <<>> /\ pc # "ready"
  BY DEF MissJobEvent, WatchingJobs, rowVars, cacheVars
<1>2. PICK rest : rest = Tail(jobEvents)
  OBVIOUS
<1>3. LeftOfJobs(rest) /\ jobEvents' = rest
  BY <1>1, <1>2, TailJobs DEF LeftOfJobs, IInv, JobsAgree, MissJobEvent
<1>4. TypeOK'
  BY <1>1, <1>3 DEF IInv, TypeOK, LeftOfJobs
<1>5. \A i \in DOMAIN jobEvents' : JobEventAgrees(jobEvents[i])'
  BY <1>1, <1>3 DEF LeftOfJobs, JobEventAgrees
<1>6. \A j \in Job : RowAgrees(j)' /\ CachedAgrees(j)'
  BY <1>1 DEF IInv, JobsAgree, RowAgrees, CachedAgrees
<1>7. JobsAgree'
  BY <1>1, <1>3, <1>5, <1>6 DEF LeftOfJobs, JobsAgree, NewestJobAgrees
<1>8. RunnersAgree'
  BY <1>1, RunnersSame
<1> QED BY <1>4, <1>7, <1>8 DEF IInv

LEMMA MissRunnerEventInv ==
  ASSUME IInv, MissRunnerEvent
  PROVE  IInv'
<1>1. /\ UNCHANGED <<jobRows, runnerRows, pc, cachedJobs, cachedRunners, currentJobs,
                     todo, jobEvents, closed, crashes>>
      /\ runnerEvents # <<>> /\ pc \notin {"listed", "ready"}
  BY DEF MissRunnerEvent, WatchingRunners, WatchingJobs, rowVars, cacheVars
<1>2. PICK rest : rest = Tail(runnerEvents)
  OBVIOUS
<1>3. LeftOfRunners(rest) /\ runnerEvents' = rest
  BY <1>1, <1>2, TailRunners DEF LeftOfRunners, IInv, RunnersAgree, MissRunnerEvent
<1>4. TypeOK'
  BY <1>1, <1>3 DEF IInv, TypeOK, LeftOfRunners
<1>5. \A j \in Job : CachedAgrees(j)'
  BY <1>1 DEF IInv, JobsAgree, CachedAgrees
<1>6. JobsAgree'
  BY <1>1, <1>5, JobsSame
<1>7. RunnersAgree'
  BY <1>1, <1>3 DEF LeftOfRunners, RunnersAgree, RunnerEventAgrees, NewestRunnerAgrees
<1> QED BY <1>4, <1>6, <1>7 DEF IInv

-----------------------------------------------------------------------------
(* The invariant holds *)

LEMMA InitInv == Init => IInv
<1> SUFFICES ASSUME Init PROVE IInv
  OBVIOUS
<1>1. /\ jobRows = [j \in Job |-> [status |-> "absent", runner |-> Nobody]]
      /\ cachedJobs = [j \in Job |-> [status |-> "absent", runner |-> Nobody]]
      /\ runnerRows = [n \in Runner |-> IF n \in Latecomers THEN "absent" ELSE "healthy"]
      /\ pc = "down" /\ todo = {} /\ closed = {} /\ crashes = 0
      /\ cachedRunners = [n \in Runner |-> "absent"]
      /\ currentJobs = [n \in Runner |-> 0]
      /\ jobEvents = <<>> /\ runnerEvents = <<>>
  BY DEF Init, NoJob
<1>2. /\ jobRows \in [Job -> JobRow] /\ cachedJobs \in [Job -> JobRow]
      /\ runnerRows \in [Runner -> RunnerStatus] /\ cachedRunners \in [Runner -> RunnerStatus]
      /\ currentJobs \in [Runner -> Int]
  BY <1>1 DEF JobRow, JobStatus, RunnerStatus, Gone
<1>3. /\ jobEvents \in Seq(JobEvent) /\ Len(jobEvents) <= BufferSize
      /\ runnerEvents \in Seq(RunnerEvent) /\ Len(runnerEvents) <= BufferSize
      /\ DOMAIN jobEvents = {} /\ DOMAIN runnerEvents = {}
  BY <1>1, ConstantsTyped
<1>4. MaxCrashes \in Nat
  BY AllocatorAssumption
<1>5. TypeOK
  BY <1>1, <1>2, <1>3, <1>4 DEF TypeOK
<1>6. \A j \in Job : RowAgrees(j) /\ CachedAgrees(j)
  BY <1>1 DEF RowAgrees, CachedAgrees
<1>7. JobsAgree
  BY <1>1, <1>3, <1>6 DEF JobsAgree, NewestJobAgrees
<1>8. RunnersAgree
  BY <1>1, <1>3 DEF RunnersAgree, NewestRunnerAgrees
<1> QED BY <1>5, <1>7, <1>8 DEF IInv

\* What others do to a job, and to a runner.
JobStepTaken(j) ==
  \E kind \in Kind, row \in JobRow :
    /\ JobStep(j, kind, row)
    /\ SetJob(j, row)
    /\ UNCHANGED runnerRows
    /\ Others(JobNote(kind, j), <<>>)

RunnerStepTaken(n) ==
  \E kind \in Kind, status \in RunnerStatus :
    /\ RunnerStep(n, kind, status)
    /\ SetRunner(n, status)
    /\ UNCHANGED jobRows
    /\ Others(<<>>, RunnerNote(kind, n))

LEMMA JobStepsOfOthers ==
  ASSUME IInv, NEW j \in Job,
         CreateJob(j) \/ StartJob(j) \/ EndJob(j) \/ DeleteJob(j)
  PROVE  JobStepTaken(j)
<1>1. jobRows \in [Job -> JobRow] /\ jobRows[j] \in JobRow
  BY DEF IInv, TypeOK
<1>2. PICK now \in JobRow : now = jobRows[j]
  BY <1>1
<1>3. /\ "created" \in Kind /\ "updated" \in Kind /\ "deleted" \in Kind
      /\ [now EXCEPT !.status = "running"] = [status |-> "running", runner |-> now.runner]
      /\ [now EXCEPT !.status = "done"] = [status |-> "done", runner |-> now.runner]
      /\ [status |-> "running", runner |-> now.runner] \in JobRow
      /\ [status |-> "done", runner |-> now.runner] \in JobRow
      /\ NoJob("unallocated") \in JobRow /\ NoJob("deleted") \in JobRow
  BY DEF Kind, JobRow, JobStatus, Gone, NoJob
<1>4. CASE CreateJob(j)
  <2>1. JobStep(j, "created", NoJob("unallocated"))
    BY <1>4 DEF CreateJob, JobStep
  <2> QED BY <1>3, <1>4, <2>1 DEF CreateJob, JobStepTaken
<1>5. CASE StartJob(j)
  <2>1. PICK row \in JobRow : row = [status |-> "running", runner |-> now.runner]
    BY <1>3
  <2>2. JobStep(j, "updated", row) /\ SetJob(j, row)
    BY <1>2, <1>3, <1>5, <2>1 DEF StartJob, JobStep
  <2> QED BY <1>3, <1>5, <2>2 DEF StartJob, JobStepTaken
<1>6. CASE EndJob(j)
  <2>1. PICK row \in JobRow : row = [status |-> "done", runner |-> now.runner]
    BY <1>3
  <2>2. JobStep(j, "updated", row) /\ SetJob(j, row)
    BY <1>2, <1>3, <1>6, <2>1 DEF EndJob, JobStep
  <2> QED BY <1>3, <1>6, <2>2 DEF EndJob, JobStepTaken
<1>7. CASE DeleteJob(j)
  <2>1. JobStep(j, "deleted", NoJob("deleted"))
    BY <1>7 DEF DeleteJob, JobStep
  <2> QED BY <1>3, <1>7, <2>1 DEF DeleteJob, JobStepTaken
<1> QED BY <1>4, <1>5, <1>6, <1>7

LEMMA RunnerStepsOfOthers ==
  ASSUME NEW n \in Runner, Register(n) \/ Heartbeat(n)
  PROVE  RunnerStepTaken(n)
<1>1. "created" \in Kind /\ "updated" \in Kind
  BY DEF Kind
<1>2. {"healthy", "unknown", "final"} \subseteq RunnerStatus
  BY DEF RunnerStatus
<1>3. CASE Register(n)
  <2>1. RunnerStep(n, "created", "healthy")
    BY <1>3 DEF Register, RunnerStep
  <2> QED BY <1>1, <1>2, <1>3, <2>1 DEF Register, RunnerStepTaken
<1>4. ASSUME NEW to \in {"healthy", "unknown", "final"}, UpdateStatus(n, to)
      PROVE  RunnerStepTaken(n)
  <2>1. RunnerStep(n, "updated", to) /\ SetRunner(n, to)
    BY <1>4 DEF UpdateStatus, setStatus, RunnerStep
  <2> QED BY <1>1, <1>2, <1>4, <2>1 DEF UpdateStatus, RunnerStepTaken
<1>5. CASE Heartbeat(n)
  BY <1>4, <1>5 DEF Heartbeat, sendStatusUpdate, sendFinalStatus, ManagerUpdate
<1> QED BY <1>3, <1>5

LEMMA OthersInv ==
  ASSUME IInv, OthersNext
  PROVE  IInv'
<1>1. ASSUME NEW j \in Job, JobStepTaken(j) PROVE IInv'
  BY <1>1, JobStepInv DEF JobStepTaken
<1>2. ASSUME NEW n \in Runner, RunnerStepTaken(n) PROVE IInv'
  BY <1>2, RunnerStepInv DEF RunnerStepTaken
<1> QED BY <1>1, <1>2, JobStepsOfOthers, RunnerStepsOfOthers, DeleteRunnerInv
    DEF OthersNext

LEMMA StopsInv ==
  ASSUME IInv, SubscriptionTerminated \/ Crash
  PROVE  IInv'
<1>1. crashes' \in 0..MaxCrashes
  <2>1. crashes \in 0..MaxCrashes /\ MaxCrashes \in Nat
    BY AllocatorAssumption DEF IInv, TypeOK
  <2>2. CASE SubscriptionTerminated
    BY <2>1, <2>2 DEF SubscriptionTerminated
  <2>3. CASE Crash
    BY <2>1, <2>3 DEF Crash
  <2> QED BY <2>2, <2>3
<1>2. Stop(jobEvents, runnerEvents)
  BY DEF SubscriptionTerminated, Crash
<1> QED BY <1>1, <1>2, StopNowInv

LEMMA StutterInv ==
  ASSUME IInv, UNCHANGED vars
  PROVE  IInv'
<1>1. UNCHANGED <<jobRows, runnerRows, pc, cachedJobs, cachedRunners, currentJobs, todo,
                  jobEvents, runnerEvents, closed, crashes>>
  BY DEF vars, rowVars, cacheVars, busVars
<1>2. TypeOK'
  BY <1>1 DEF IInv, TypeOK
<1>3. \A j \in Job : CachedAgrees(j)'
  BY <1>1 DEF IInv, JobsAgree, CachedAgrees
<1>4. JobsAgree'
  BY <1>1, <1>3, JobsSame
<1>5. RunnersAgree'
  BY <1>1, RunnersSame
<1> QED BY <1>2, <1>4, <1>5 DEF IInv

LEMMA NextInv ==
  ASSUME IInv, [Next]_vars
  PROVE  IInv'
<1>1. CASE AllocatorStep
  BY <1>1, WatchInv, ListRunnersInv, listJobsInv, allocateInv, HandleJobEventInv,
     HandleRunnerEventInv, StopsInv DEF AllocatorStep, Allocate
<1>2. CASE OthersNext
  BY <1>2, OthersInv
<1>3. CASE Crash
  BY <1>3, StopsInv
<1>4. CASE MissJobEvent \/ MissRunnerEvent
  BY <1>4, MissJobEventInv, MissRunnerEventInv
<1>5. CASE UNCHANGED vars
  BY <1>5, StutterInv
<1> QED BY <1>1, <1>2, <1>3, <1>4, <1>5 DEF Next

\* The rows only move on, the newest event that is on its way tells the present
\* status, and what no event is on its way of is cached as it is.
THEOREM AllocatorInvariance == Spec => []IInv
<1>1. Init => IInv
  BY InitInv
<1>2. IInv /\ [Next]_vars => IInv'
  BY NextInv
<1> QED BY <1>1, <1>2, PTL DEF Spec

\* Start lists the jobs once it watches them: no job that waits for a runner
\* falls between the list and the events, and no buffer exceeds its size.
THEOREM NoJobIsLost == Spec => []JobsAreKnown
<1>1. IInv => JobsAreKnown
  <2> SUFFICES ASSUME IInv PROVE JobsAreKnown
    OBVIOUS
  <2>1. ASSUME pc = "ready", "jobs" \notin closed, NEW j \in Job,
               jobRows[j].status \in {"unallocated", "allocated"},
               ~JobNoted(jobEvents, j)
        PROVE  cachedJobs[j].status # "absent"
    <3>1. JobIsFresh(j)
      BY <2>1 DEF IInv, JobsAgree
    <3> QED BY <2>1, <3>1 DEF JobIsFresh, Gone
  <2>2. NoJobForgotten
    BY <2>1 DEF NoJobForgotten, JobNoted
  <2> QED BY <2>2 DEF JobsAreKnown, IInv
<1> QED BY <1>1, AllocatorInvariance, PTL

\* Once the handlers of job and runner events have handled all that were
\* published, the caches of the allocator are the tables.
THEOREM CachesCatchUp == Spec => []CacheAgreesWhenQuiet
<1>1. IInv => CacheAgreesWhenQuiet
  <2> SUFFICES ASSUME IInv, Quiet
               PROVE  /\ \A j \in Job :
                           /\ cachedJobs[j].status = Uncached(jobRows[j].status)
                           /\ cachedJobs[j].status # "absent" => cachedJobs[j] = jobRows[j]
                      /\ \A n \in Runner :
                           cachedRunners[n] = IF runnerRows[n] \in Gone THEN "absent"
                                                                        ELSE runnerRows[n]
    BY DEF CacheAgreesWhenQuiet
  <2>1. /\ pc = "ready" /\ todo = {} /\ closed = {}
        /\ \A j \in Job : ~JobNoted(jobEvents, j)
        /\ \A n \in Runner : ~RunnerNoted(runnerEvents, n)
    <3>1. DOMAIN jobEvents = {} /\ DOMAIN runnerEvents = {}
      BY DEF Quiet
    <3> QED BY <3>1 DEF Quiet, JobNoted, RunnerNoted
  <2>2. ASSUME NEW j \in Job
        PROVE  /\ cachedJobs[j].status = Uncached(jobRows[j].status)
               /\ cachedJobs[j].status # "absent" => cachedJobs[j] = jobRows[j]
    <3>1. JobIsFresh(j) /\ CachedAgrees(j)
      BY <2>1 DEF IInv, JobsAgree
    <3> QED BY <2>1, <3>1 DEF JobIsFresh, CachedAgrees, Uncached
  <2>3. ASSUME NEW n \in Runner PROVE RunnerIsFresh(n)
    BY <2>1 DEF IInv, RunnersAgree
  <2> QED BY <2>2, <2>3 DEF RunnerIsFresh
<1> QED BY <1>1, AllocatorInvariance, PTL
=============================================================================
