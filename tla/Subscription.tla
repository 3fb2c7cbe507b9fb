---------------------------- MODULE Subscription ----------------------------
(***************************************************************************)
(* What a broker does to the events that it forwards to one subscriber.    *)
(*                                                                         *)
(* An event is on its way from the commit to its handling: in flight to    *)
(* the broker or in the buffer of a subscription, which the subscriber     *)
(* cannot tell apart.  A sequence `buffer` holds the events on their way.  *)
(***************************************************************************)
EXTENDS Integers, SequencesExt

CONSTANT BufferSize   \* events a subscription holds (100 in the code)

ASSUME BufferAssumption == BufferSize \in Nat \ {0}

\* Mutant: one event too many is let in.
FitsOneMore(buffer, events) == Len(buffer) + Len(events) <= BufferSize + 1

Fits(buffer, events) == Len(buffer) + Len(events) <= BufferSize

\* A full subscription takes what still fits, is closed, and gets no more
\* events.  Without a subscription the oldest events on their way are
\* forwarded to nobody.
Deliver(buffer, events, watching, isClosed) ==
  LET all == buffer \o events IN
  CASE watching /\ isClosed -> buffer
    [] ~(watching /\ isClosed) /\ Fits(buffer, events) -> all
    [] watching /\ ~isClosed /\ ~Fits(buffer, events) -> SubSeq(all, 1, BufferSize)
    [] ~watching /\ ~Fits(buffer, events) ->
         SubSeq(all, Len(all) - BufferSize + 1, Len(all))

\* Does the broker close the subscription over these events?
Overflows(buffer, events, watching) == watching /\ ~Fits(buffer, events)
=============================================================================
