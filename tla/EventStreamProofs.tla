-------------------------- MODULE EventStreamProofs --------------------------
(***************************************************************************)
(* What the operations of EventStream preserve, for any changes, any set   *)
(* of subscriptions and any size of their buffers.                         *)
(***************************************************************************)
EXTENDS EventStream, TLAPS, SequenceTheorems

\* The ids on their way to the listener are those of the last changes; a
\* listener that is down has lost them.
InFlight ==
  /\ Len(notified) <= Len(feed)
  /\ \A i \in 1..Len(notified) : notified[i] = Len(feed) - Len(notified) + i
  /\ listener = "down" => notified = <<>>

\* A listener that is down has no subscription open but those it does not serve,
\* and there are none of these unless it has ended on a failed read.
DownIsDisabled ==
  /\ listener = "down" => /\ lapsed \/ ~enabled
                         /\ \A s \in Sub : subs[s].open => subs[s].deaf
  /\ lapsed \/ \A s \in Sub : ~subs[s].deaf

\* The buffer of an open subscription holds consecutive ids from the one that
\* is due, up to those that are in flight.
Consecutive(sub) ==
  /\ sub.due + Len(sub.buffer) + Len(notified) = Len(feed) + 1
  /\ \A i \in 1..Len(sub.buffer) : sub.buffer[i] = sub.due + i - 1

StreamInv(Change) ==
  /\ feed \in Seq(Change)
  /\ StreamTypeOK
  /\ InFlight
  /\ DownIsDisabled
  /\ \A s \in Sub : subs[s].open /\ ~subs[s].deaf => Consecutive(subs[s])

\* A buffer of consecutive ids and the ids in flight make an interval of ids.
LEMMA ConsecutiveIds ==
  ASSUME NEW Change, StreamInv(Change)
  PROVE  NoSilentGap
<1> SUFFICES ASSUME NEW s \in Sub, subs[s].open, ~subs[s].deaf
             PROVE  subs[s].buffer \o notified = Ids(subs[s].due, Len(feed))
  BY DEF NoSilentGap
<1> DEFINE b == subs[s].buffer
           d == subs[s].due
           n == notified
           l == Len(feed)
<1>1. /\ b \in Seq(Nat) /\ n \in Seq(Nat) /\ d \in Nat /\ l \in Nat
      /\ d + Len(b) + Len(n) = l + 1
      /\ \A i \in 1..Len(b) : b[i] = d + i - 1
      /\ \A i \in 1..Len(n) : n[i] = l - Len(n) + i
  BY DEF StreamInv, StreamTypeOK, InFlight, Consecutive
<1> HIDE DEF b, d, n, l
<1>2. /\ Len(b) \in Nat /\ Len(n) \in Nat
      /\ b \o n = [i \in 1..(Len(b) + Len(n)) |->
                     IF i <= Len(b) THEN b[i] ELSE n[i - Len(b)]]
  <2>1. /\ Len(b \o n) = Len(b) + Len(n) /\ b \o n \in Seq(Nat)
        /\ \A i \in 1..(Len(b) + Len(n)) :
             (b \o n)[i] = IF i <= Len(b) THEN b[i] ELSE n[i - Len(b)]
    BY <1>1, ConcatProperties
  <2> DEFINE c == b \o n
  <2>3. c \in Seq(Nat)
    BY <2>1
  <2> HIDE DEF c
  <2>2. c = [i \in 1..Len(c) |-> c[i]]
    BY <2>3
  <2> USE DEF c
  <2> QED BY <1>1, <2>1, <2>2
<1>3. Len(b) + Len(n) = l - d + 1
  BY <1>1, <1>2
<1>4. ASSUME NEW i \in 1..(l - d + 1)
      PROVE  (IF i <= Len(b) THEN b[i] ELSE n[i - Len(b)]) = d + i - 1
  <2>1. CASE i <= Len(b)
    BY <1>1, <1>2, <2>1
  <2>2. CASE ~(i <= Len(b))
    <3> DEFINE k == i - Len(b)
    <3>1. k \in 1..Len(n)
      BY <1>1, <1>2, <1>3, <2>2
    <3>2. n[k] = l - Len(n) + k
      BY <1>1, <3>1
    <3>3. l - Len(n) + k = d + i - 1
      BY <1>1, <1>2
    <3> QED BY <2>2, <3>2, <3>3
  <2> QED BY <2>1, <2>2
<1>5. b \o n = [i \in 1..(l - d + 1) |-> d + i - 1]
  BY <1>2, <1>3, <1>4
<1> QED BY <1>5 DEF Ids, b, n, d, l

\* The node starts with nothing committed.
LEMMA StreamInitInv == ASSUME NEW Change, StreamInit PROVE StreamInv(Change)
<1>1. feed \in Seq(Change) /\ Len(feed) = 0 /\ Len(notified) = 0
  BY DEF StreamInit
<1>2. StreamTypeOK
  <2>1. notified \in Seq(1..Len(feed)) /\ <<>> \in Seq(1..Len(feed))
    BY EmptySeq DEF StreamInit
  <2> QED BY <2>1 DEF StreamInit, StreamTypeOK, NoSub
<1>3. InFlight /\ DownIsDisabled
  BY <1>1 DEF StreamInit, InFlight, DownIsDisabled, NoSub
<1>4. \A s \in Sub : ~subs[s].open
  BY DEF StreamInit, NoSub
<1> QED BY <1>1, <1>2, <1>3, <1>4 DEF StreamInv

\* A commit: the new ids follow those in flight, or meet a listener that is
\* down and has no subscription open.
LEMMA CommitInv ==
  ASSUME NEW Change, StreamInv(Change), NEW changes \in Seq(Change),
         build_and_send_event(changes), UNCHANGED <<listener, enabled, subs, lapsed>>
  PROVE  StreamInv(Change)'
<1> DEFINE ids == Ids(Len(feed) + 1, Len(feed) + Len(changes))
<1> USE DEF StreamInv
<1>1. /\ feed' \in Seq(Change) /\ Len(feed') = Len(feed) + Len(changes)
      /\ Len(feed) \in Nat /\ Len(changes) \in Nat
  BY DEF build_and_send_event
<1>2. /\ ids \in Seq(1..Len(feed')) /\ Len(ids) = Len(changes)
      /\ \A i \in 1..Len(changes) : ids[i] = Len(feed) + i
  BY <1>1 DEF Ids
<1> HIDE DEF ids
<1>3. /\ 1..Len(feed) \subseteq 1..Len(feed')
      /\ \A s : s \in Seq(1..Len(feed)) => s \in Seq(1..Len(feed')) /\ Len(s) \in Nat
  <2>1. 1..Len(feed) \subseteq 1..Len(feed')
    BY <1>1
  <2> QED BY <2>1, SeqMonotonic, LenProperties
<1>4. notified \in Seq(1..Len(feed')) /\ Len(notified) \in Nat
  BY <1>3 DEF StreamTypeOK
<1>7. rows' \subseteq 1..Len(feed')
  <2>1. rows' = rows \union Range(ids)
    BY DEF build_and_send_event, ids
  <2>2. \A x \in Range(ids) : x \in 1..Len(feed')
    BY <1>2 DEF Range
  <2> QED BY <1>3, <2>1, <2>2 DEF StreamTypeOK
<1>8. subs' \in [Sub -> [open : BOOLEAN, deaf : BOOLEAN, due : Nat, buffer : Seq(1..Len(feed'))]]
  <2>1. \A s \in Sub : /\ subs[s] \in [open : BOOLEAN, deaf : BOOLEAN, due : Nat, buffer : Seq(1..Len(feed'))]
    BY <1>3 DEF StreamTypeOK
  <2> QED BY <2>1 DEF StreamTypeOK
<1>5. CASE listener = "up"
  <2>1. notified' = notified \o ids
    BY <1>5 DEF build_and_send_event, ids
  <2>2. /\ notified' \in Seq(1..Len(feed'))
        /\ Len(notified') = Len(notified) + Len(ids)
        /\ \A i \in 1..Len(notified') :
             notified'[i] = IF i <= Len(notified) THEN notified[i]
                                                  ELSE ids[i - Len(notified)]
    <3> DEFINE Id == 1..Len(feed')
    <3>1. notified \in Seq(Id) /\ ids \in Seq(Id)
      BY <1>2, <1>4
    <3> HIDE DEF Id
    <3>2. /\ notified \o ids \in Seq(Id)
          /\ Len(notified \o ids) = Len(notified) + Len(ids)
          /\ \A i \in 1..(Len(notified) + Len(ids)) :
               (notified \o ids)[i] = IF i <= Len(notified) THEN notified[i]
                                                          ELSE ids[i - Len(notified)]
      BY <3>1, ConcatProperties
    <3> QED BY <2>1, <3>2 DEF Id
  <2>3. InFlight'
    <3>1. ASSUME NEW i \in 1..Len(notified')
          PROVE  notified'[i] = Len(feed') - Len(notified') + i
      <4>1. CASE i <= Len(notified)
        <5>1. notified'[i] = notified[i] /\ i \in 1..Len(notified) /\ i \in Nat
          BY <1>2, <1>4, <2>2, <4>1
        <5>2. notified[i] = Len(feed) - Len(notified) + i
          BY <5>1 DEF InFlight
        <5> QED BY <1>1, <1>2, <1>4, <2>2, <5>1, <5>2
      <4>2. CASE ~(i <= Len(notified))
        <5>1. i - Len(notified) \in 1..Len(changes)
          BY <1>1, <1>2, <1>4, <2>2, <4>2
        <5>2. ids[i - Len(notified)] = Len(feed) + (i - Len(notified))
          BY <1>2, <5>1
        <5>3. notified'[i] = ids[i - Len(notified)]
          BY <2>2, <4>2
        <5> QED BY <1>1, <1>2, <1>4, <2>2, <5>2, <5>3
      <4> QED BY <4>1, <4>2
    <3>2. Len(notified') <= Len(feed')
      BY <1>1, <1>2, <1>4, <2>2 DEF InFlight
    <3> QED BY <1>5, <3>1, <3>2 DEF InFlight
  <2>4. ASSUME NEW s \in Sub, subs[s].open, ~subs[s].deaf
        PROVE  Consecutive(subs[s])'
    <3>1. Consecutive(subs[s]) /\ subs'[s] = subs[s]
      BY <2>4
    <3>2. subs[s].due \in Nat /\ Len(subs[s].buffer) \in Nat
      BY <1>3 DEF StreamTypeOK
    <3>3. Len(feed') - Len(notified') = Len(feed) - Len(notified)
      BY <1>1, <1>2, <1>4, <2>2
    <3>4. Len(notified') \in Nat
      BY <1>2, <1>4, <2>2
    <3>5. subs[s].due + Len(subs[s].buffer) + Len(notified') = Len(feed') + 1
      <4>1. subs[s].due + Len(subs[s].buffer) + Len(notified) = Len(feed) + 1
        BY <3>1 DEF Consecutive
      <4> DEFINE d == subs[s].due
                 b == Len(subs[s].buffer)
                 n == Len(notified)
                 m == Len(notified')
                 f == Len(feed)
                 g == Len(feed')
      <4>2. /\ d \in Nat /\ b \in Nat /\ n \in Nat /\ m \in Nat
            /\ f \in Nat /\ g \in Nat /\ g - m = f - n /\ d + b + n = f + 1
        BY <1>1, <1>4, <3>2, <3>3, <3>4, <4>1
      <4> HIDE DEF d, b, n, m, f, g
      <4>3. d + b + m = g + 1
        BY <4>2
      <4> QED BY <4>3 DEF d, b, m, g
    <3> QED BY <3>1, <3>5 DEF Consecutive
  <2>5. StreamTypeOK'
    BY <2>2, <1>7, <1>8 DEF StreamTypeOK
  <2> QED BY <1>1, <1>5, <2>3, <2>4, <2>5 DEF DownIsDisabled
<1>6. CASE listener = "down"
  <2>1. notified' = notified /\ notified = <<>>
    BY <1>6 DEF build_and_send_event, InFlight
  <2>2. InFlight'
    BY <1>1, <1>6, <2>1 DEF InFlight
  <2>3. DownIsDisabled' /\ \A s \in Sub : subs'[s].open => subs'[s].deaf
    BY <1>6 DEF DownIsDisabled
  <2>4. StreamTypeOK'
    BY <1>4, <1>7, <1>8, <2>1 DEF StreamTypeOK
  <2> QED BY <1>1, <2>2, <2>3, <2>4
<1> QED BY <1>5, <1>6 DEF StreamTypeOK

\* A cleanup of old events.
LEMMA CleanupInv ==
  ASSUME NEW Change, StreamInv(Change), NEW id, cleanup(id)
  PROVE  StreamInv(Change)'
BY DEF StreamInv, StreamTypeOK, InFlight, DownIsDisabled, Consecutive, cleanup

\* The listener forwards an event to every subscription.
LEMMA ForwardNextInv ==
  ASSUME NEW Change, StreamInv(Change), ForwardNext
  PROVE  StreamInv(Change)'
<1> USE DEF StreamInv
<1>1. /\ Len(feed) \in Nat /\ notified \in Seq(1..Len(feed)) /\ notified # <<>>
      /\ UNCHANGED <<feed, rows, listener, enabled, lapsed>>
      /\ notified' = Tail(notified)
      /\ subs' = [s \in Sub |-> Forwarded(subs[s], Head(notified))]
  BY DEF ForwardNext, StreamTypeOK
<1> DEFINE id == Head(notified)
<1>2. /\ Len(notified) \in Nat \ {0}
      /\ id \in 1..Len(feed) /\ id = notified[1]
      /\ notified' \in Seq(1..Len(feed)) /\ Len(notified') = Len(notified) - 1
      /\ \A i \in 1..Len(notified') : notified'[i] = notified[i + 1]
  BY <1>1, HeadTailProperties, EmptySeq
<1>3. /\ id = Len(feed) - Len(notified) + 1
      /\ listener # "down"
  BY <1>1, <1>2 DEF InFlight
<1>4. InFlight'
  <2>1. ASSUME NEW i \in 1..Len(notified')
        PROVE  notified'[i] = Len(feed') - Len(notified') + i
    <3>1. i + 1 \in 1..Len(notified)
      BY <1>2
    <3>2. notified[i + 1] = Len(feed) - Len(notified) + (i + 1)
      BY <3>1 DEF InFlight
    <3> QED BY <1>1, <1>2, <3>2
  <2> QED BY <1>1, <1>2, <1>3, <2>1 DEF InFlight
<1> HIDE DEF id
<1>5. ASSUME NEW s \in Sub
      PROVE  /\ subs'[s] \in [open : BOOLEAN, deaf : BOOLEAN, due : Nat, buffer : Seq(1..Len(feed))]
             /\ subs'[s].open => subs[s].open
             /\ subs'[s].deaf = subs[s].deaf
             /\ subs'[s].open /\ ~subs'[s].deaf => Consecutive(subs[s])'
  <2> DEFINE b == subs[s].buffer
  <2>1. /\ subs[s] \in [open : BOOLEAN, deaf : BOOLEAN, due : Nat, buffer : Seq(1..Len(feed))]
        /\ b \in Seq(1..Len(feed)) /\ Len(b) \in Nat
        /\ subs'[s] = Forwarded(subs[s], id)
    BY <1>1, LenProperties DEF StreamTypeOK, id
  <2>2. CASE ~subs[s].open
    BY <2>1, <2>2 DEF Forwarded
  <2>3. CASE subs[s].open /\ ~Fits(b, <<id>>)
    BY <2>1, <2>3 DEF Forwarded
  <2>4. CASE subs[s].open /\ Fits(b, <<id>>)
    <3>1. subs'[s] = [subs[s] EXCEPT !.buffer = Append(b, id)]
      BY <2>1, <2>4 DEF Forwarded
    <3>2. /\ Append(b, id) \in Seq(1..Len(feed))
          /\ Len(Append(b, id)) = Len(b) + 1
          /\ \A i \in 1..Len(b) : Append(b, id)[i] = b[i]
          /\ Append(b, id)[Len(b) + 1] = id
      BY <1>2, <2>1, AppendProperties
    <3> DEFINE c == Append(b, id)
    <3> HIDE DEF c
    <3>3. /\ subs'[s] \in [open : BOOLEAN, deaf : BOOLEAN, due : Nat, buffer : Seq(1..Len(feed))]
          /\ subs'[s].due = subs[s].due /\ subs'[s].buffer = c
          /\ subs'[s].deaf = subs[s].deaf
      BY <2>1, <3>1, <3>2 DEF c
    <3>4. ASSUME ~subs[s].deaf PROVE Consecutive(subs[s])'
      <4>1. Consecutive(subs[s]) /\ subs[s].due \in Nat
        BY <2>1, <2>4, <3>4
      <4>2. subs[s].due + Len(b) = id
        <5>1. subs[s].due + Len(b) + Len(notified) = Len(feed) + 1
          BY <4>1 DEF Consecutive
        <5> DEFINE d == subs[s].due
                   l == Len(b)
                   n == Len(notified)
                   f == Len(feed)
        <5>2. /\ d \in Nat /\ l \in Nat /\ n \in Nat /\ f \in Nat
              /\ d + l + n = f + 1 /\ id = f - n + 1
          BY <1>1, <1>2, <1>3, <2>1, <4>1, <5>1 DEF id
        <5> HIDE DEF d, l, n, f
        <5>3. d + l = id
          BY <5>2
        <5> QED BY <5>3 DEF d, l
      <4>3. ASSUME NEW i \in 1..Len(c) PROVE c[i] = subs[s].due + i - 1
        <5>1. i \in 1..Len(b) \/ i = Len(b) + 1
          BY <2>1, <3>2 DEF c
        <5>2. CASE i \in 1..Len(b)
          BY <3>2, <4>1, <5>2 DEF c, Consecutive
        <5>3. CASE i = Len(b) + 1
          BY <2>1, <3>2, <4>1, <4>2, <5>3 DEF c
        <5> QED BY <5>1, <5>2, <5>3
      <4>4. subs[s].due + Len(c) + Len(notified') = Len(feed') + 1
        BY <1>1, <1>2, <2>1, <3>2, <4>1 DEF Consecutive, c
      <4> QED BY <3>3, <4>3, <4>4 DEF Consecutive
    <3> QED BY <2>4, <3>3, <3>4
  <2> QED BY <2>2, <2>3, <2>4
<1>6. StreamTypeOK'
  <2>1. subs' \in [Sub -> [open : BOOLEAN, deaf : BOOLEAN, due : Nat, buffer : Seq(1..Len(feed))]]
    BY <1>1, <1>5
  <2> QED BY <1>1, <1>2, <2>1 DEF StreamTypeOK
<1>7. DownIsDisabled'
  BY <1>1, <1>3, <1>5 DEF DownIsDisabled
<1> QED BY <1>1, <1>4, <1>5, <1>6, <1>7

\* The listener ends: on a failed read it forgets the ids in flight and has
\* lapsed, on a lost connection its brokers close every subscription.
LEMMA ListenerEndsInv ==
  ASSUME NEW Change, StreamInv(Change), QueryFails \/ ConnectionLost
  PROVE  StreamInv(Change)'
<1> USE DEF StreamInv
<1>1. /\ notified' = <<>> /\ Len(notified') = 0 /\ notified' \in Seq(1..Len(feed))
      /\ UNCHANGED <<feed, rows>> /\ listener' = "down" /\ Len(feed) \in Nat
  BY EmptySeq, LenProperties DEF QueryFails, ConnectionLost
<1>2. InFlight'
  BY <1>1 DEF InFlight
<1>3. CASE QueryFails
  <2>1. /\ lapsed' = TRUE /\ UNCHANGED enabled
        /\ subs' = [s \in Sub |-> [subs[s] EXCEPT !.deaf = subs[s].open]]
    BY <1>3 DEF QueryFails
  <2>2. \A s \in Sub : /\ subs'[s] \in [open : BOOLEAN, deaf : BOOLEAN, due : Nat,
                                        buffer : Seq(1..Len(feed))]
                       /\ subs'[s].deaf = subs'[s].open
    BY <2>1 DEF StreamTypeOK
  <2>3. subs' \in [Sub -> [open : BOOLEAN, deaf : BOOLEAN, due : Nat, buffer : Seq(1..Len(feed))]]
    BY <2>1, <2>2
  <2> QED BY <1>1, <1>2, <2>1, <2>2, <2>3 DEF StreamTypeOK, DownIsDisabled
<1>4. CASE ConnectionLost
  <2>1. /\ enabled' = FALSE /\ UNCHANGED lapsed
        /\ \A s \in Sub : subs'[s] = [subs[s] EXCEPT !.open = FALSE]
        /\ subs' = [s \in Sub |-> [subs[s] EXCEPT !.open = FALSE]]
    BY <1>4 DEF ConnectionLost, Disable
  <2>2. \A s \in Sub : /\ ~subs'[s].open /\ subs'[s].deaf = subs[s].deaf
                       /\ subs'[s] \in [open : BOOLEAN, deaf : BOOLEAN, due : Nat,
                                        buffer : Seq(1..Len(feed))]
    BY <2>1 DEF StreamTypeOK
  <2>3. subs' \in [Sub -> [open : BOOLEAN, deaf : BOOLEAN, due : Nat, buffer : Seq(1..Len(feed))]]
    BY <2>1, <2>2
  <2> QED BY <1>1, <1>2, <2>1, <2>2, <2>3 DEF StreamTypeOK, DownIsDisabled
<1> QED BY <1>3, <1>4

\* The supervisor starts the listener, and with it the brokers.
LEMMA StartInv ==
  ASSUME NEW Change, StreamInv(Change), Start
  PROVE  StreamInv(Change)'
<1> USE DEF StreamInv
<1>1. /\ UNCHANGED <<feed, rows, notified, subs, lapsed>>
      /\ listener = "down" /\ listener' = "up" /\ enabled' = TRUE
  BY DEF Start, Enable
<1>2. \A s \in Sub : subs'[s].open => subs'[s].deaf
  BY <1>1 DEF DownIsDisabled
<1> QED BY <1>1, <1>2 DEF StreamTypeOK, InFlight, DownIsDisabled

\* An update of one subscription: to one that is closed, or is not served, or
\* agrees with what is in flight.
LEMMA SubUpdateInv ==
  ASSUME NEW Change, StreamInv(Change), NEW s \in Sub,
         NEW sub \in [open : BOOLEAN, deaf : BOOLEAN, due : Nat, buffer : Seq(1..Len(feed))],
         subs' = [subs EXCEPT ![s] = sub],
         UNCHANGED <<feed, rows, listener, notified, enabled, lapsed>>,
         sub.open /\ listener = "down" => sub.deaf,
         sub.deaf => lapsed,
         sub.open /\ ~sub.deaf => Consecutive(sub)
  PROVE  StreamInv(Change)'
<1> USE DEF StreamInv
<1>1. /\ subs' \in [Sub -> [open : BOOLEAN, deaf : BOOLEAN, due : Nat, buffer : Seq(1..Len(feed))]]
      /\ subs'[s] = sub /\ \A t \in Sub \ {s} : subs'[t] = subs[t]
  BY DEF StreamTypeOK
<1>2. ASSUME NEW t \in Sub, subs'[t].open, ~subs'[t].deaf
      PROVE  Consecutive(subs[t])'
  <2>1. CASE t = s
    BY <1>1, <1>2, <2>1 DEF Consecutive
  <2>2. CASE t # s
    BY <1>1, <1>2, <2>2 DEF Consecutive
  <2> QED BY <2>1, <2>2
<1>3. DownIsDisabled'
  BY <1>1 DEF DownIsDisabled
<1> QED BY <1>1, <1>2, <1>3 DEF StreamTypeOK, InFlight

\* A new subscription is due the first event that is still in flight.
LEMMA SubscribeInv ==
  ASSUME NEW Change, StreamInv(Change), NEW s \in Sub, Subscribe(s),
         UNCHANGED <<feed, rows, listener, notified, enabled, lapsed>>
  PROVE  StreamInv(Change)'
<1>1. /\ Len(feed) \in Nat /\ Len(notified) \in Nat /\ Len(notified) <= Len(feed)
  BY LenProperties DEF StreamInv, StreamTypeOK, InFlight
<1>2. Subscribed \in [open : BOOLEAN, deaf : BOOLEAN, due : Nat, buffer : Seq(1..Len(feed))]
  <2>1. <<>> \in Seq(1..Len(feed))
    BY EmptySeq
  <2> QED BY <1>1, <2>1 DEF Subscribed
<1>3. Consecutive(Subscribed)
  BY <1>1 DEF Consecutive, Subscribed
<1>4. Subscribed.deaf = (listener = "down") /\ (Subscribed.deaf => lapsed)
  BY DEF Subscribed, Subscribe, StreamInv, DownIsDisabled
<1> HIDE DEF Subscribed
<1> QED BY <1>2, <1>3, <1>4, SubUpdateInv DEF Subscribe

\* A subscription that is given up leaves nothing.
LEMMA UnsubscribeInv ==
  ASSUME NEW Change, StreamInv(Change), NEW s \in Sub, Unsubscribe(s),
         UNCHANGED <<feed, rows, listener, notified, enabled, lapsed>>
  PROVE  StreamInv(Change)'
<1>1. /\ NoSub \in [open : BOOLEAN, deaf : BOOLEAN, due : Nat, buffer : Seq(1..Len(feed))]
      /\ ~NoSub.open /\ ~NoSub.deaf
  BY EmptySeq DEF NoSub
<1> QED BY <1>1, SubUpdateInv DEF Unsubscribe

\* Taking the first event of a buffer leaves the following one due.
LEMMA TakeInv ==
  ASSUME NEW Change, StreamInv(Change), NEW s \in Sub, Take(s),
         UNCHANGED <<feed, rows, listener, notified, enabled, lapsed>>
  PROVE  StreamInv(Change)'
<1> DEFINE b == subs[s].buffer
           sub == [subs[s] EXCEPT !.buffer = Tail(b), !.due = subs[s].due + 1]
<1>1. /\ subs[s] \in [open : BOOLEAN, deaf : BOOLEAN, due : Nat, buffer : Seq(1..Len(feed))]
      /\ b \in Seq(1..Len(feed)) /\ b # <<>>
      /\ Len(feed) \in Nat /\ Len(notified) \in Nat
  BY LenProperties DEF StreamInv, StreamTypeOK, Take
<1>2. /\ Len(b) \in Nat \ {0}
      /\ Tail(b) \in Seq(1..Len(feed)) /\ Len(Tail(b)) = Len(b) - 1
      /\ \A i \in 1..Len(Tail(b)) : Tail(b)[i] = b[i + 1]
  BY <1>1, HeadTailProperties, EmptySeq
<1>3. subs' = [subs EXCEPT ![s] = sub]
  BY DEF Take
<1>4. /\ sub \in [open : BOOLEAN, deaf : BOOLEAN, due : Nat, buffer : Seq(1..Len(feed))]
      /\ sub.open = subs[s].open /\ sub.deaf = subs[s].deaf /\ sub.due = subs[s].due + 1
      /\ sub.buffer = Tail(b)
  <2> DEFINE t == Tail(b)
             d == subs[s].due
  <2>1. t \in Seq(1..Len(feed)) /\ d \in Nat
    BY <1>1, <1>2
  <2> HIDE DEF t, d
  <2>2. sub = [subs[s] EXCEPT !.buffer = t, !.due = d + 1]
    BY DEF t, d
  <2>3. /\ sub \in [open : BOOLEAN, deaf : BOOLEAN, due : Nat, buffer : Seq(1..Len(feed))]
        /\ sub.open = subs[s].open /\ sub.deaf = subs[s].deaf /\ sub.due = d + 1 /\ sub.buffer = t
    <3>1. d + 1 \in Nat
      BY <2>1
    <3>2. sub = [open |-> subs[s].open, deaf |-> subs[s].deaf, due |-> d + 1, buffer |-> t]
      <4> HIDE DEF sub
      <4> QED BY <1>1, <2>2
    <3>3. subs[s].open \in BOOLEAN /\ subs[s].deaf \in BOOLEAN
      BY <1>1
    <3> HIDE DEF sub
    <3> QED BY <2>1, <3>1, <3>2, <3>3
  <2> QED BY <2>3 DEF t, d
<1> HIDE DEF sub
<1>5. ASSUME sub.open, ~sub.deaf PROVE Consecutive(sub)
  <2> DEFINE t == Tail(b)
             d == subs[s].due
  <2>1. /\ d \in Nat /\ Len(t) = Len(b) - 1
        /\ Len(b) \in Nat \ {0} /\ Len(feed) \in Nat /\ Len(notified) \in Nat
        /\ \A i \in 1..Len(t) : t[i] = b[i + 1]
        /\ sub.due = d + 1 /\ sub.buffer = t
    BY <1>1, <1>2, <1>4
  <2>2. Consecutive(subs[s])
    BY <1>4, <1>5 DEF StreamInv
  <2>3. /\ \A i \in 1..Len(b) : b[i] = d + i - 1
        /\ d + Len(b) + Len(notified) = Len(feed) + 1
    BY <2>2 DEF Consecutive
  <2> HIDE DEF b, t, d
  <2>4. ASSUME NEW i \in 1..Len(t)
        PROVE  t[i] = (d + 1) + i - 1
    <3>1. i \in Nat /\ i + 1 \in 1..Len(b)
      BY <2>1
    <3>2. t[i] = d + (i + 1) - 1
      BY <2>1, <2>3, <3>1
    <3> QED BY <2>1, <3>1, <3>2
  <2>5. (d + 1) + Len(t) + Len(notified) = Len(feed) + 1
    BY <2>1, <2>3
  <2> QED BY <2>1, <2>4, <2>5 DEF Consecutive
<1>6. (sub.open /\ listener = "down" => sub.deaf) /\ (sub.deaf => lapsed)
  BY <1>4 DEF StreamInv, DownIsDisabled
<1> QED BY <1>3, <1>4, <1>5, <1>6, SubUpdateInv

-----------------------------------------------------------------------------
(* While the listener has not lapsed, closed subscriptions are in order too *)

\* Open or closed, a subscription has in its buffer the events that follow
\* the last one its subscriber took, and none of those still in flight.
Ordered(sub) ==
  /\ sub.due + Len(sub.buffer) + Len(notified) <= Len(feed) + 1
  /\ \A i \in 1..Len(sub.buffer) : sub.buffer[i] = sub.due + i - 1

OrderedStream(Change) ==
  /\ StreamInv(Change)
  /\ ~lapsed
  /\ \A s \in Sub : Ordered(subs[s])

\* The feed only grows, and nothing that was on its way is again in flight.
Grows ==
  /\ Len(feed) <= Len(feed')
  /\ \A id \in 1..Len(feed) : feed'[id] = feed[id]
  /\ Len(feed) - Len(notified) <= Len(feed') - Len(notified')

\* What the operations of the stream need of the types.
LEMMA OrderedTyped ==
  ASSUME NEW Change, OrderedStream(Change)
  PROVE  /\ feed \in Seq(Change) /\ Len(feed) \in Nat
         /\ notified \in Seq(1..Len(feed)) /\ Len(notified) \in Nat /\ Len(notified) <= Len(feed)
         /\ \A i \in 1..Len(notified) : notified[i] = Len(feed) - Len(notified) + i
         /\ subs \in [Sub -> [open : BOOLEAN, deaf : BOOLEAN, due : Nat, buffer : Seq(1..Len(feed))]]
         /\ \A s \in Sub : /\ subs[s].buffer \in Seq(1..Len(feed)) /\ Len(subs[s].buffer) \in Nat
                           /\ subs[s].due \in Nat
                           /\ Ordered(subs[s])
                           /\ subs[s].open => Consecutive(subs[s])
<1>1. /\ feed \in Seq(Change) /\ Len(feed) \in Nat
      /\ notified \in Seq(1..Len(feed)) /\ Len(notified) \in Nat
  BY DEF OrderedStream, StreamInv, StreamTypeOK
<1>2. subs \in [Sub -> [open : BOOLEAN, deaf : BOOLEAN, due : Nat, buffer : Seq(1..Len(feed))]]
  BY DEF OrderedStream, StreamInv, StreamTypeOK
<1>3. \A s \in Sub : /\ subs[s].buffer \in Seq(1..Len(feed)) /\ Len(subs[s].buffer) \in Nat
                     /\ subs[s].due \in Nat
  BY <1>2
<1> QED BY <1>1, <1>2, <1>3 DEF OrderedStream, StreamInv, InFlight, DownIsDisabled

\* Some changes are committed.
LEMMA CommitOrdered ==
  ASSUME NEW Change, OrderedStream(Change), NEW changes \in Seq(Change), build_and_send_event(changes),
         UNCHANGED <<listener, enabled, subs, lapsed>>
  PROVE  StreamInv(Change)' /\ Grows /\ \A s \in Sub : Ordered(subs[s])'
<1>1. StreamInv(Change)'
  BY CommitInv DEF OrderedStream
<1> DEFINE ids == Ids(Len(feed) + 1, Len(feed) + Len(changes))
<1>2. /\ feed' \in Seq(Change) /\ Len(feed') = Len(feed) + Len(changes)
      /\ Len(feed) \in Nat /\ Len(changes) \in Nat
      /\ \A id \in 1..Len(feed) : feed'[id] = feed[id]
  BY OrderedTyped, ConcatProperties DEF build_and_send_event
<1>3. ids \in Seq(Nat) /\ Len(ids) = Len(changes)
  BY <1>2 DEF Ids
<1> HIDE DEF ids
<1>4. notified \in Seq(Nat) /\ Len(notified) \in Nat
  <2>1. notified \in Seq(1..Len(feed)) /\ 1..Len(feed) \subseteq Nat
    BY <1>2, OrderedTyped
  <2> QED BY <2>1, SeqMonotonic
<1>5. notified' = notified \/ notified' = notified \o ids
  BY DEF build_and_send_event, ids
<1>6. Len(notified') = Len(notified) \/ Len(notified') = Len(notified) + Len(changes)
  BY <1>3, <1>4, <1>5, ConcatProperties
<1>7. Grows
  BY <1>2, <1>4, <1>6 DEF Grows
<1>8. ASSUME NEW s \in Sub PROVE Ordered(subs[s])'
  <2> DEFINE b == subs[s].buffer
             d == subs[s].due
  <2>1. Ordered(subs[s]) /\ subs' = subs /\ d \in Nat /\ Len(b) \in Nat
    BY OrderedTyped
  <2>2. d + Len(b) + Len(notified') <= Len(feed') + 1
    <3>1. d + Len(b) + Len(notified) <= Len(feed) + 1
      BY <2>1 DEF Ordered
    <3> HIDE DEF b, d
    <3> QED BY <1>2, <1>4, <1>6, <2>1, <3>1
  <2> QED BY <2>1, <2>2 DEF Ordered
<1> QED BY <1>1, <1>7, <1>8

\* The listener forwards the next event, to every subscription it fits in.
LEMMA ForwardOrdered ==
  ASSUME NEW Change, OrderedStream(Change), ForwardNext
  PROVE  /\ StreamInv(Change)' /\ Grows /\ \A s \in Sub : Ordered(subs[s])'
         /\ \A s \in Sub : subs'[s].due = subs[s].due
<1>1. StreamInv(Change)'
  BY ForwardNextInv DEF OrderedStream
<1>2. /\ feed' = feed /\ Len(feed) \in Nat /\ notified \in Seq(1..Len(feed)) /\ notified # <<>>
      /\ notified' = Tail(notified)
      /\ subs' = [s \in Sub |-> Forwarded(subs[s], Head(notified))]
  BY OrderedTyped DEF ForwardNext
<1> DEFINE id == Head(notified)
<1>3. /\ Len(notified) \in Nat \ {0} /\ Len(notified') = Len(notified) - 1
      /\ id = Len(feed) - Len(notified) + 1 /\ id \in Nat
  <2>1. /\ Len(notified) \in Nat \ {0} /\ Len(notified') = Len(notified) - 1
        /\ id = notified[1]
    BY <1>2, HeadTailProperties, EmptySeq
  <2>2. 1 \in 1..Len(notified) /\ Len(notified) <= Len(feed)
    BY <2>1, OrderedTyped
  <2> QED BY <1>2, <2>1, <2>2, OrderedTyped
<1>4. Grows
  BY <1>2, <1>3 DEF Grows
<1> HIDE DEF id
<1>5. ASSUME NEW s \in Sub
      PROVE  Ordered(subs[s])' /\ subs'[s].due = subs[s].due
  <2> DEFINE b == subs[s].buffer
             d == subs[s].due
  <2>1. /\ subs[s] \in [open : BOOLEAN, deaf : BOOLEAN, due : Nat, buffer : Seq(1..Len(feed))]
        /\ b \in Seq(1..Len(feed)) /\ Len(b) \in Nat /\ d \in Nat /\ Ordered(subs[s])
        /\ subs'[s] = Forwarded(subs[s], id)
        /\ 1..Len(feed) \subseteq Nat
    BY <1>2, OrderedTyped DEF id
  <2>2. CASE subs[s].open /\ Fits(b, <<id>>)
    <3>1. b \in Seq(Nat)
      BY <2>1, SeqMonotonic
    <3> DEFINE c == Append(b, id)
    <3>2. /\ Len(c) = Len(b) + 1 /\ c[Len(b) + 1] = id
          /\ \A i \in 1..Len(b) : c[i] = b[i]
      BY <1>3, <3>1, AppendProperties
    <3>3. subs'[s].buffer = c /\ subs'[s].due = d
      BY <2>1, <2>2 DEF Forwarded
    <3>4. d + Len(b) + Len(notified) = Len(feed) + 1
      BY <2>2, OrderedTyped DEF Consecutive
    <3> HIDE DEF c
    <3>5. d + Len(c) + Len(notified') <= Len(feed') + 1
      BY <1>2, <1>3, <2>1, <3>2, <3>4
    <3>6. ASSUME NEW i \in 1..Len(c) PROVE c[i] = d + i - 1
      <4>1. CASE i \in 1..Len(b)
        BY <2>1, <3>2, <4>1 DEF Ordered
      <4>2. CASE i = Len(b) + 1
        <5> DEFINE n == Len(notified)
                   f == Len(feed)
                   l == Len(b)
        <5>1. /\ n \in Nat /\ f \in Nat /\ l \in Nat /\ d \in Nat
              /\ id = f - n + 1 /\ d + l + n = f + 1 /\ i = l + 1 /\ c[l + 1] = id
          BY <1>2, <1>3, <2>1, <3>2, <3>4, <4>2
        <5> HIDE DEF d, n, f, l
        <5>2. c[i] = id /\ id = d + i - 1
          BY <5>1
        <5> QED BY <5>2
      <4> QED BY <2>1, <3>2, <4>1, <4>2
    <3> QED BY <3>3, <3>5, <3>6 DEF Ordered
  <2>3. CASE ~(subs[s].open /\ Fits(b, <<id>>))
    <3>1. subs'[s].buffer = b /\ subs'[s].due = d
      BY <2>1, <2>3 DEF Forwarded
    <3>2. d + Len(b) + Len(notified') <= Len(feed') + 1
      <4>1. d + Len(b) + Len(notified) <= Len(feed) + 1
        BY <2>1 DEF Ordered
      <4> HIDE DEF b, d
      <4> QED BY <1>2, <1>3, <2>1, <4>1
    <3> QED BY <2>1, <3>1, <3>2 DEF Ordered
  <2> QED BY <2>2, <2>3
<1> QED BY <1>1, <1>4, <1>5

\* The listener loses its connection, or is started again.
LEMMA ListenerOrdered ==
  ASSUME NEW Change, OrderedStream(Change), ConnectionLost \/ Start
  PROVE  /\ StreamInv(Change)' /\ Grows /\ \A s \in Sub : Ordered(subs[s])'
         /\ \A s \in Sub : subs'[s].due = subs[s].due
<1>1. StreamInv(Change)'
  BY ListenerEndsInv, StartInv DEF OrderedStream
<1>2. /\ feed' = feed
      /\ notified' = notified \/ notified' = <<>>
      /\ \A s \in Sub : subs'[s].due = subs[s].due /\ subs'[s].buffer = subs[s].buffer
  <2>1. \A s \in Sub : subs[s] \in [open : BOOLEAN, deaf : BOOLEAN, due : Nat, buffer : Seq(1..Len(feed))]
    BY OrderedTyped
  <2> QED BY <2>1 DEF ConnectionLost, Start, Disable
<1>3. Len(notified') \in Nat /\ Len(notified') <= Len(notified)
  BY <1>2, OrderedTyped
<1>4. Grows
  BY <1>2, <1>3, OrderedTyped DEF Grows
<1>5. ASSUME NEW s \in Sub PROVE Ordered(subs[s])'
  <2> DEFINE b == subs[s].buffer
             d == subs[s].due
  <2>1. /\ Ordered(subs[s]) /\ d \in Nat /\ Len(b) \in Nat
        /\ Len(feed) \in Nat /\ Len(notified) \in Nat
    BY OrderedTyped
  <2>2. d + Len(b) + Len(notified') <= Len(feed') + 1
    <3>1. d + Len(b) + Len(notified) <= Len(feed) + 1
      BY <2>1 DEF Ordered
    <3> HIDE DEF b, d
    <3> QED BY <1>2, <1>3, <2>1, <3>1
  <2> QED BY <1>2, <2>1, <2>2 DEF Ordered
<1> QED BY <1>1, <1>2, <1>4, <1>5

\* A subscriber subscribes, gives up its subscription, or takes the next event:
\* the one that it is due.
LEMMA SubscriberOrdered ==
  ASSUME NEW Change, OrderedStream(Change), NEW s \in Sub, Subscribe(s) \/ Unsubscribe(s) \/ Take(s),
         UNCHANGED <<feed, rows, listener, notified, enabled, lapsed>>
  PROVE  /\ StreamInv(Change)' /\ Grows /\ \A t \in Sub : Ordered(subs[t])'
         /\ \A t \in Sub : t # s => subs'[t].due = subs[t].due
         /\ Subscribe(s) => subs'[s].due = Len(feed) + 1 - Len(notified)
         /\ Take(s) => /\ subs'[s].due = subs[s].due + 1
                       /\ Head(subs[s].buffer) = subs[s].due
                       /\ subs[s].due \in 1..(Len(feed) - Len(notified))
<1>1. StreamInv(Change)'
  BY SubscribeInv, UnsubscribeInv, TakeInv DEF OrderedStream
<1>2. Grows
  BY OrderedTyped DEF Grows
<1>3. /\ subs \in [Sub -> [open : BOOLEAN, deaf : BOOLEAN, due : Nat, buffer : Seq(1..Len(feed))]]
      /\ \A t \in Sub : t # s => subs'[t] = subs[t]
  BY OrderedTyped DEF Subscribe, Unsubscribe, Take
<1>4. \A t \in Sub : t # s => Ordered(subs[t])' /\ subs'[t].due = subs[t].due
  BY <1>3, OrderedTyped DEF Ordered
<1>5. ASSUME Subscribe(s)
      PROVE  Ordered(subs[s])' /\ subs'[s].due = Len(feed) + 1 - Len(notified)
  <2>1. subs'[s] = Subscribed
    BY <1>3, <1>5 DEF Subscribe
  <2>2. subs'[s].due = Len(feed) + 1 - Len(notified) /\ subs'[s].buffer = <<>>
    BY <2>1 DEF Subscribed
  <2> QED BY <2>2, OrderedTyped DEF Ordered
<1>6. ASSUME Unsubscribe(s)
      PROVE  Ordered(subs[s])'
  <2>1. subs'[s].due = 0 /\ subs'[s].buffer = <<>>
    BY <1>3, <1>6 DEF Unsubscribe, NoSub
  <2> QED BY <2>1, OrderedTyped DEF Ordered
<1>7. ASSUME Take(s)
      PROVE  /\ Ordered(subs[s])'
             /\ subs'[s].due = subs[s].due + 1
             /\ Head(subs[s].buffer) = subs[s].due
             /\ subs[s].due \in 1..(Len(feed) - Len(notified))
  <2> DEFINE b == subs[s].buffer
             d == subs[s].due
             n == Len(notified)
             f == Len(feed)
             t == Tail(b)
  <2>1. /\ b \in Seq(1..f) /\ b # <<>> /\ d \in Nat /\ n \in Nat /\ f \in Nat
        /\ subs'[s].due = d + 1 /\ subs'[s].buffer = t
        /\ notified' = notified /\ feed' = feed
    BY <1>3, <1>7, OrderedTyped DEF Take
  <2>2. /\ Len(b) \in Nat \ {0} /\ Len(t) = Len(b) - 1
        /\ \A i \in 1..Len(t) : t[i] = b[i + 1]
        /\ Head(b) = b[1] /\ b[1] \in 1..f
    BY <2>1, HeadTailProperties, EmptySeq
  <2>3. d + Len(b) + n <= f + 1 /\ \A i \in 1..Len(b) : b[i] = d + i - 1
    BY OrderedTyped DEF Ordered
  <2> HIDE DEF b, d, n, f, t
  <2>4. b[1] = d /\ d \in 1..(f - n) /\ (d + 1) + Len(t) + n <= f + 1
    <3>1. 1 \in 1..Len(b)
      BY <2>2
    <3>2. b[1] = d + 1 - 1
      BY <2>3, <3>1
    <3> QED BY <2>1, <2>2, <2>3, <3>2
  <2>5. ASSUME NEW i \in 1..Len(t) PROVE t[i] = (d + 1) + i - 1
    <3>1. i + 1 \in 1..Len(b) /\ i \in Nat
      BY <2>2
    <3>2. b[i + 1] = d + (i + 1) - 1
      BY <2>3, <3>1
    <3> QED BY <2>1, <2>2, <3>1, <3>2
  <2>6. Ordered(subs[s])'
    BY <2>1, <2>4, <2>5 DEF Ordered, n, f
  <2> QED BY <2>1, <2>2, <2>4, <2>6 DEF b, d, n, f
<1> QED BY <1>1, <1>2, <1>4, <1>5, <1>6, <1>7
=============================================================================
