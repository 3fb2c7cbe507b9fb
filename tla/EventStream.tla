----------------------------- MODULE EventStream -----------------------------
(***************************************************************************)
(* How the changes to one table reach the subscribers on one otfd node.    *)
(*                                                                         *)
(* A trigger on the table inserts a row into the table `events' and        *)
(* notifies its id; the node's listener (sql/listener.go) receives the     *)
(* ids in commit order on a connection of its own, reads each row back     *)
(* and hands it to the broker of the table (pubsub/broker.go), which puts  *)
(* it into the buffer of every subscription.                               *)
(*                                                                         *)
(* A cleanup deletes rows older than a minute, on every node.  When a row  *)
(* is gone before this node's listener has read it, or its read fails for  *)
(* another reason, the listener ends WITHOUT disabling its brokers.  The   *)
(* subsystem supervisor starts it again.                                   *)
(***************************************************************************)
EXTENDS Subscription

CONSTANT Sub   \* the subscriptions that may be made

VARIABLES
  feed,      \* the committed changes of the table; an event's id is its index
  rows,      \* ids of the rows of the table events
  listener,  \* "up" while it holds a connection that listens
  notified,  \* ids sent to that connection and not yet read
  enabled,   \* Broker.enabled
  subs,      \* per subscription: open, its buffer, the next id it is due, and
             \* whether events pass it by (deaf)
  lapsed     \* history: the listener has ended on a failed read

streamVars == <<feed, rows, listener, notified, enabled, subs, lapsed>>

\* The ids from..to in order.
Ids(from, to) == [i \in 1..(to - from + 1) |-> from + i - 1]

NoSub == [open |-> FALSE, deaf |-> FALSE, due |-> 0, buffer |-> <<>>]

StreamInit ==
  /\ feed = <<>>
  /\ rows = {}
  /\ listener = "up"
  /\ notified = <<>>
  /\ enabled = TRUE
  /\ subs = [s \in Sub |-> NoSub]
  /\ lapsed = FALSE

-----------------------------------------------------------------------------
(* The database *)

\* Mutant: the ids are counted from one too high.
build_and_send_eventOff(changes) ==
  LET ids == Ids(Len(feed) + 2, Len(feed) + Len(changes) + 1) IN
  /\ feed' = feed \o changes
  /\ rows' = rows \union Range(ids)
  /\ notified' = IF listener = "up" THEN notified \o ids ELSE notified

\* A transaction commits: the trigger build_and_send_event has inserted an
\* event for each changed row and notified its id.
build_and_send_event(changes) ==
  LET ids == Ids(Len(feed) + 1, Len(feed) + Len(changes)) IN
  /\ feed' = feed \o changes
  /\ rows' = rows \union Range(ids)
  /\ notified' = IF listener = "up" THEN notified \o ids ELSE notified

\* A minute has passed since the transactions of the events up to an id began.
cleanup(id) ==
  /\ id \in rows
  /\ rows' = rows \ 1..id
  /\ UNCHANGED <<feed, listener, notified, enabled, subs, lapsed>>

-----------------------------------------------------------------------------
(* The broker *)

\* Mutant: a full subscriber only misses the event.
ForwardedLossy(sub, id) ==
  IF sub.open /\ Fits(sub.buffer, <<id>>)
  THEN [sub EXCEPT !.buffer = Append(@, id)] ELSE sub

\* Broker.Forward for one subscription; a full one is closed.
Forwarded(sub, id) ==
  CASE ~sub.open -> sub
    [] sub.open /\ Fits(sub.buffer, <<id>>) -> [sub EXCEPT !.buffer = Append(@, id)]
    [] sub.open /\ ~Fits(sub.buffer, <<id>>) -> [sub EXCEPT !.open = FALSE]

\* Mutant: Disable only refuses new subscriptions.
DisableNew == /\ enabled' = FALSE
              /\ subs' = subs

\* Closing the channel of a subscription leaves what is buffered to be read.
Disable ==
  /\ enabled' = FALSE
  /\ subs' = [s \in Sub |-> [subs[s] EXCEPT !.open = FALSE]]

Enable == enabled' = TRUE

Subscribed == [open |-> TRUE, deaf |-> listener = "down",
               due |-> Len(feed) + 1 - Len(notified), buffer |-> <<>>]

\* The events that were notified and not yet read will reach it too.  A listener
\* that has ended without disabling the broker lets it subscribe to nothing.
Subscribe(s) ==
  /\ enabled
  /\ subs' = [subs EXCEPT ![s] = Subscribed]

\* The context of the subscriber is done: nobody reads the rest.
Unsubscribe(s) == subs' = [subs EXCEPT ![s] = NoSub]

\* The subscriber takes the next event.
Take(s) ==
  /\ subs[s].buffer # <<>>
  /\ subs' = [subs EXCEPT ![s].buffer = Tail(@), ![s].due = @ + 1]

-----------------------------------------------------------------------------
(* The listener *)

\* The row of the next id is read and forwarded.
ForwardNext ==
  /\ notified # <<>>
  /\ Head(notified) \in rows
  /\ subs' = [s \in Sub |-> Forwarded(subs[s], Head(notified))]
  /\ notified' = Tail(notified)
  /\ UNCHANGED <<feed, rows, listener, enabled, lapsed>>

\* The row cannot be read: the listener returns the error at once, and leaves
\* open what is subscribed.
QueryFails ==
  /\ notified # <<>>
  /\ Head(notified) \notin rows
  /\ listener' = "down"
  /\ notified' = <<>>
  /\ lapsed' = TRUE
  /\ subs' = [s \in Sub |-> [subs[s] EXCEPT !.deaf = subs[s].open]]
  /\ UNCHANGED <<feed, rows, enabled>>

\* The connection that listens is lost; the brokers are disabled.
ConnectionLost ==
  /\ listener = "up"
  /\ listener' = "down"
  /\ notified' = <<>>
  /\ Disable
  /\ UNCHANGED <<feed, rows, lapsed>>

\* The supervisor starts the listener again, after its backoff.
Start ==
  /\ listener = "down"
  /\ listener' = "up"
  /\ Enable
  /\ UNCHANGED <<feed, rows, notified, subs, lapsed>>

-----------------------------------------------------------------------------
StreamTypeOK ==
  /\ rows \subseteq 1..Len(feed)
  /\ listener \in {"up", "down"}
  /\ notified \in Seq(1..Len(feed))
  /\ enabled \in BOOLEAN
  /\ subs \in [Sub -> [open : BOOLEAN, deaf : BOOLEAN, due : Nat,
                       buffer : Seq(1..Len(feed))]]
  /\ lapsed \in BOOLEAN

\* An open subscription has in its buffer, and then among the ids on their
\* way to the listener, every event from the one it is due to the last one
\* committed, each once and in commit order: whatever a subscriber misses, it
\* is told of by the closing of its channel.  Not so a subscription that was open
\* when the listener ended on a failed read, or was made before it was started
\* again (sql/listener.go, Start): that one is told nothing, and misses events.
NoSilentGap ==
  \A s \in Sub : subs[s].open /\ ~subs[s].deaf =>
    subs[s].buffer \o notified = Ids(subs[s].due, Len(feed))
=============================================================================
