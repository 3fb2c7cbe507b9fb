---------------------------- MODULE JobSignaler ----------------------------
(***************************************************************************)
(* The job signaler: how the request to cancel a job reaches the operation *)
(* that carries the job out.  A request is published on a channel of the   *)
(* database; a server relays it to the one subscriber of the job, whose    *)
(* subscription is good for one signal.                                    *)
(*                                                                         *)
(* A poll is one call of AwaitJobSignal with the channel that it makes.  A *)
(* server runner calls it in its own process, under the context of the     *)
(* operation; an agent by an HTTP request, whose context ends some time    *)
(* after the agent, or a proxy, has given up on it.                        *)
(***************************************************************************)
EXTENDS Naturals, Sequences

CONSTANTS Job,       \* ids of jobs
          MaxPolls   \* bound: polls of all operations together

ASSUME PollsAssumption == MaxPolls \in Nat \ {0}

VARIABLES notices,     \* job_signals: notifications on their way to the server
          subscribers, \* jobSignaler.subscribers: the poll of each job, or 0
          polls,       \* every poll made so far
          relay,       \* where the relay has got to with a notification
          panicked     \* did the server send on a closed channel?

signalVars == <<notices, subscribers, polls, relay, panicked>>

Poll == 1..MaxPolls
Signal == [job : Job, force : BOOLEAN]
NoSignal == "none"

\* What a poll has come back with: nothing yet, a signal, the zero JobSignal
\* of a channel that was closed under it, or an error.
\* When the answer has been taken in, or lost, nobody waits any more.
Answers == {"waiting", "interrupt", "kill", "zero", "error", "taken"}

PollRow == [job : Job, buffer : {NoSignal, "interrupt", "kill"},
            closed : BOOLEAN, done : BOOLEAN, watched : BOOLEAN,
            answer : Answers]
NewPoll(j) == [job |-> j, buffer |-> NoSignal, closed |-> FALSE,
               done |-> FALSE, watched |-> TRUE, answer |-> "waiting"]

SignalInit ==
  /\ notices = <<>>
  /\ subscribers = [j \in Job |-> 0]
  /\ polls = <<>>
  /\ relay = [at |-> "idle"]
  /\ panicked = FALSE

SignalTypeOK ==
  /\ notices \in Seq(Signal)
  /\ subscribers \in [Job -> {0} \cup DOMAIN polls]
  /\ polls \in Seq(PollRow) /\ Len(polls) <= MaxPolls
  /\ relay \in [at : {"idle"}]
       \cup [at : {"send"}, to : Poll, signal : Signal]
       \cup [at : {"unsubscribe"}, job : Job]
  /\ panicked \in BOOLEAN

\* Mutant: a forced signal is passed on under another name.
KindRaw(signal) == IF signal.force THEN "force" ELSE "interrupt"

Kind(signal) == IF signal.force THEN "kill" ELSE "interrupt"

\* The subscriber of a job, if there is one, is forgotten and its channel
\* closed.
unsubscribe(j, rows) ==
  /\ subscribers' = [subscribers EXCEPT ![j] = 0]
  /\ polls' = IF subscribers[j] = 0 THEN rows
              ELSE [rows EXCEPT ![subscribers[j]].closed = TRUE]

\* publish, inside the transaction that cancels the job.
publish(j, force) == notices' = Append(notices, [job |-> j, force |-> force])

-----------------------------------------------------------------------------
(* The relay: look up under the mutex, send without it, unsubscribe *)

RelayLookUp ==
  LET signal == Head(notices)
      to == subscribers[signal.job]
  IN
  /\ relay.at = "idle" /\ notices # <<>>
  /\ notices' = Tail(notices)
  /\ relay' = IF to = 0 THEN relay
              ELSE [at |-> "send", to |-> to, signal |-> signal]
  /\ UNCHANGED <<subscribers, polls, panicked>>

\* Sending on a closed channel panics and takes the server down with all that
\* it has in memory; requests in flight break off.
RelaySend ==
  /\ relay.at = "send"
  /\ IF polls[relay.to].closed
     THEN /\ panicked' = TRUE
          /\ relay' = [at |-> "idle"]
          /\ notices' = <<>>
          /\ subscribers' = [j \in Job |-> 0]
          /\ polls' = [p \in DOMAIN polls |->
                [polls[p] EXCEPT !.done = TRUE, !.watched = FALSE,
                   !.answer = IF @ = "waiting" THEN "error" ELSE @]]
     ELSE /\ polls' = [polls EXCEPT ![relay.to].buffer = Kind(relay.signal)]
          /\ relay' = [at |-> "unsubscribe", job |-> relay.signal.job]
          /\ UNCHANGED <<notices, subscribers, panicked>>

RelayUnsubscribe ==
  /\ relay.at = "unsubscribe"
  /\ unsubscribe(relay.job, polls)
  /\ relay' = [at |-> "idle"]
  /\ UNCHANGED <<notices, panicked>>

-----------------------------------------------------------------------------
(* A poll *)

\* A later subscription of the same job takes the place of an earlier one.
awaitJobSignal(j) ==
  /\ Len(polls) < MaxPolls
  /\ polls' = Append(polls, NewPoll(j))
  /\ subscribers' = [subscribers EXCEPT ![j] = Len(polls) + 1]
  /\ UNCHANGED <<notices, relay, panicked>>

\* The context of a poll ends.
ContextEnds(rows, p) == [rows EXCEPT ![p].done = TRUE]

\* The goroutine that waits for the end of the context then unsubscribes
\* whichever poll the job has.
WatcherUnsubscribes(p) ==
  /\ p \in DOMAIN polls /\ polls[p].done /\ polls[p].watched
  /\ unsubscribe(polls[p].job, [polls EXCEPT ![p].watched = FALSE])
  /\ UNCHANGED <<notices, relay, panicked>>

\* Mutant: the channel being closed is noticed before the signal in it.
AnswerToClosedFirst(row) ==
  CASE row.closed /\ row.done -> "error"
    [] row.closed /\ ~row.done -> "error"
    [] OTHER -> row.buffer

\* Mutant: the end of the context is not told from a signal.
AnswerToNoError(row) == IF row.buffer # NoSignal THEN row.buffer ELSE "zero"

\* Receiving yields what is in the channel, and once it is closed and empty the
\* zero signal with the error of the context, which may have none.
AnswerTo(row) ==
  CASE row.buffer # NoSignal -> row.buffer
    [] row.buffer = NoSignal /\ row.done -> "error"
    [] OTHER -> "zero"

Receive(p) ==
  /\ p \in DOMAIN polls /\ polls[p].answer = "waiting"
  /\ polls[p].buffer # NoSignal \/ polls[p].closed
  /\ polls' = [polls EXCEPT ![p].answer = AnswerTo(polls[p]),
                            ![p].buffer = NoSignal]
  /\ UNCHANGED <<notices, subscribers, relay, panicked>>
=============================================================================
