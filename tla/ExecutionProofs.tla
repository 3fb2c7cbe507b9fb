--------------------------- MODULE ExecutionProofs ---------------------------
(***************************************************************************)
(* Proofs about Execution, for any provider versions, any choice of        *)
(* configurations and any number of polls.                                 *)
(***************************************************************************)
EXTENDS Execution, TLAPS, SequenceTheorems

-----------------------------------------------------------------------------
(* The signaler *)

\* The relay sends to a poll that was made.
SignalInv ==
  /\ SignalTypeOK
  /\ relay.at = "send" => relay.to \in DOMAIN polls

\* Rows put in the place of the polls, one for one.
LEMMA RowsTyped ==
  ASSUME NEW rows \in Seq(PollRow), NEW new,
         new = [p \in DOMAIN rows |-> new[p]],
         \A p \in DOMAIN rows : new[p] \in PollRow
  PROVE  new \in Seq(PollRow) /\ Len(new) = Len(rows) /\ DOMAIN new = DOMAIN rows
<1>1. Len(rows) \in Nat /\ DOMAIN rows = 1..Len(rows)
  BY LenProperties
<1>2. new \in [1..Len(rows) -> PollRow]
  BY <1>1
<1>3. new \in Seq(PollRow)
  BY <1>1, <1>2, SeqDef
<1> QED BY <1>1, <1>2, <1>3, LenProperties

\* A change of some rows that keeps the number of polls keeps the invariant,
\* when the relay stays or moves on.
LEMMA RowsInv ==
  ASSUME SignalInv, polls' \in Seq(PollRow), Len(polls') = Len(polls),
         notices' \in Seq(Signal), panicked' \in BOOLEAN,
         \A j \in Job : subscribers'[j] \in {0, subscribers[j]},
         subscribers' = [j \in Job |-> subscribers'[j]],
         \/ relay' = relay
         \/ relay' \in [at : {"idle"}] \cup [at : {"unsubscribe"}, job : Job]
  PROVE  SignalInv'
<1>1. DOMAIN polls' = DOMAIN polls
  BY LenProperties DEF SignalInv, SignalTypeOK
<1>2. subscribers' \in [Job -> {0} \cup DOMAIN polls']
  BY <1>1 DEF SignalInv, SignalTypeOK
<1>3. CASE relay' = relay
  BY <1>1, <1>2, <1>3 DEF SignalInv, SignalTypeOK
<1>4. CASE relay' \in [at : {"idle"}] \cup [at : {"unsubscribe"}, job : Job]
  <2>1. relay'.at # "send"
    BY <1>4
  <2> QED BY <1>2, <1>4, <2>1 DEF SignalInv, SignalTypeOK
<1> QED BY <1>3, <1>4

\* No notice, no subscriber and no poll at the start.
LEMMA SignalInitInv == SignalInit => SignalInv
<1> SUFFICES ASSUME SignalInit PROVE SignalInv
  OBVIOUS
<1>1. <<>> \in Seq(Signal) /\ <<>> \in Seq(PollRow) /\ Len(polls) = 0
  BY EmptySeq DEF SignalInit
<1>2. relay.at # "send" /\ relay \in [at : {"idle"}]
  BY DEF SignalInit
<1>3. Len(polls) <= MaxPolls
  BY <1>1, PollsAssumption
<1>4. subscribers \in [Job -> {0} \cup DOMAIN polls] /\ panicked \in BOOLEAN
  BY DEF SignalInit
<1>5. notices \in Seq(Signal) /\ polls \in Seq(PollRow)
  BY <1>1 DEF SignalInit
<1> QED BY <1>2, <1>3, <1>4, <1>5 DEF SignalInv, SignalTypeOK

\* A signal is published.
LEMMA PublishInv ==
  ASSUME SignalInv, NEW j \in Job, NEW force \in BOOLEAN, publish(j, force),
         UNCHANGED <<subscribers, polls, relay, panicked>>
  PROVE  SignalInv'
<1>1. [job |-> j, force |-> force] \in Signal
  BY DEF Signal
<1>2. notices' \in Seq(Signal)
  BY <1>1, AppendProperties DEF publish, SignalInv, SignalTypeOK
<1> QED BY <1>2, RowsInv DEF SignalInv, SignalTypeOK

\* The relay finds the poll that the table of subscribers names.
LEMMA RelayLookUpInv == ASSUME SignalInv, RelayLookUp PROVE SignalInv'
<1> DEFINE signal == Head(notices)
           to == subscribers[signal.job]
<1>1. /\ notices \in Seq(Signal) /\ notices # <<>> /\ notices' = Tail(notices)
      /\ UNCHANGED <<subscribers, polls, panicked>>
      /\ relay' = IF to = 0 THEN relay ELSE [at |-> "send", to |-> to, signal |-> signal]
  BY DEF RelayLookUp, SignalInv, SignalTypeOK
<1>2. signal \in Signal /\ notices' \in Seq(Signal)
  BY <1>1, HeadTailProperties
<1>3. to \in {0} \cup DOMAIN polls
  BY <1>2 DEF SignalInv, SignalTypeOK, Signal
<1>4. DOMAIN polls \subseteq Poll
  <2>1. DOMAIN polls = 1..Len(polls) /\ Len(polls) <= MaxPolls /\ Len(polls) \in Nat
    BY LenProperties DEF SignalInv, SignalTypeOK
  <2> QED BY <2>1, PollsAssumption DEF Poll
<1> HIDE DEF signal, to
<1>5. CASE to = 0
  BY <1>1, <1>2, <1>5, RowsInv DEF SignalInv, SignalTypeOK
<1>6. CASE to # 0
  <2>1. relay' = [at |-> "send", to |-> to, signal |-> signal]
    BY <1>1, <1>6
  <2>2. relay' \in [at : {"send"}, to : Poll, signal : Signal]
        /\ relay'.to \in DOMAIN polls'
    BY <1>1, <1>2, <1>3, <1>4, <1>6, <2>1
  <2> QED BY <1>1, <1>2, <2>2 DEF SignalInv, SignalTypeOK
<1> QED BY <1>5, <1>6

\* The relay sends to a poll, or panics.
LEMMA RelaySendInv ==
  ASSUME SignalInv, RelaySend PROVE SignalInv' /\ Len(polls') = Len(polls)
<1>1. /\ polls \in Seq(PollRow) /\ DOMAIN polls = 1..Len(polls)
      /\ relay.at = "send" /\ relay.to \in DOMAIN polls
      /\ \A p \in DOMAIN polls : polls[p] \in PollRow
      /\ relay.signal.job \in Job /\ relay.signal \in Signal
  <2>1. relay.at = "send" /\ relay.to \in DOMAIN polls
    BY DEF RelaySend, SignalInv
  <2>2. polls \in Seq(PollRow)
    BY DEF SignalInv, SignalTypeOK
  <2>3. relay \in [at : {"send"}, to : Poll, signal : Signal]
    BY <2>1 DEF SignalInv, SignalTypeOK
  <2> QED BY <2>1, <2>2, <2>3, LenProperties, ElementOfSeq DEF Signal
<1>2. CASE polls[relay.to].closed
  <2>1. /\ panicked' = TRUE /\ relay' = [at |-> "idle"] /\ notices' = <<>>
        /\ subscribers' = [j \in Job |-> 0]
        /\ polls' = [p \in DOMAIN polls |->
             [polls[p] EXCEPT !.done = TRUE, !.watched = FALSE,
                !.answer = IF @ = "waiting" THEN "error" ELSE @]]
    BY <1>2 DEF RelaySend
  <2>2. \A p \in DOMAIN polls : polls'[p] \in PollRow
    BY <1>1, <2>1 DEF PollRow, Answers
  <2>3. polls' = [p \in DOMAIN polls |-> polls'[p]]
    BY <2>1
  <2>4. polls' \in Seq(PollRow) /\ Len(polls') = Len(polls)
    BY <1>1, <2>2, <2>3, RowsTyped
  <2> QED BY <2>1, <2>4, EmptySeq, RowsInv
<1>3. CASE ~polls[relay.to].closed
  <2>1. /\ polls' = [polls EXCEPT ![relay.to].buffer = Kind(relay.signal)]
        /\ relay' = [at |-> "unsubscribe", job |-> relay.signal.job]
        /\ UNCHANGED <<notices, subscribers, panicked>>
    BY <1>3 DEF RelaySend
  <2>2. [polls[relay.to] EXCEPT !.buffer = Kind(relay.signal)] \in PollRow
    BY <1>1 DEF PollRow, Kind
  <2>3. polls' \in Seq(PollRow) /\ Len(polls') = Len(polls)
    BY <1>1, <2>1, <2>2, ExceptSeq
  <2> QED BY <1>1, <2>1, <2>3, RowsInv DEF SignalInv, SignalTypeOK
<1> QED BY <1>2, <1>3

\* A subscriber is forgotten.
LEMMA UnsubscribeInv ==
  ASSUME SignalInv, NEW j \in Job, NEW rows \in Seq(PollRow), Len(rows) = Len(polls),
         unsubscribe(j, rows), UNCHANGED <<notices, panicked>>,
         relay' = relay \/ relay' = [at |-> "idle"]
  PROVE  SignalInv' /\ Len(polls') = Len(polls)
<1>1. /\ subscribers' = [subscribers EXCEPT ![j] = 0]
      /\ polls' = IF subscribers[j] = 0 THEN rows
                  ELSE [rows EXCEPT ![subscribers[j]].closed = TRUE]
      /\ subscribers[j] \in {0} \cup DOMAIN polls
      /\ DOMAIN rows = 1..Len(rows) /\ DOMAIN polls = DOMAIN rows
  BY LenProperties DEF unsubscribe, SignalInv, SignalTypeOK
<1>2. polls' \in Seq(PollRow) /\ Len(polls') = Len(polls)
  <2>1. CASE subscribers[j] = 0
    BY <1>1, <2>1
  <2>2. CASE subscribers[j] # 0
    <3>1. subscribers[j] \in 1..Len(rows) /\ rows[subscribers[j]] \in PollRow
      BY <1>1, <2>2, ElementOfSeq
    <3>2. [rows[subscribers[j]] EXCEPT !.closed = TRUE] \in PollRow
      BY <3>1 DEF PollRow
    <3> QED BY <1>1, <2>2, <3>1, <3>2, ExceptSeq
  <2> QED BY <2>1, <2>2
<1> QED BY <1>1, <1>2, RowsInv DEF SignalInv, SignalTypeOK

\* The relay, the goroutines that wait for contexts, and the receivers.
LEMMA SignalerInv ==
  ASSUME SignalInv,
         \/ RelayUnsubscribe
         \/ \E p \in Poll : WatcherUnsubscribes(p) \/ Receive(p)
  PROVE  SignalInv' /\ Len(polls') = Len(polls)
<1>1. polls \in Seq(PollRow) /\ DOMAIN polls = 1..Len(polls)
  BY LenProperties DEF SignalInv, SignalTypeOK
<1>2. CASE RelayUnsubscribe
  <2>1. relay.job \in Job
    BY <1>2 DEF RelayUnsubscribe, SignalInv, SignalTypeOK
  <2> QED BY <1>1, <1>2, <2>1, UnsubscribeInv DEF RelayUnsubscribe
<1>3. ASSUME NEW p \in Poll, WatcherUnsubscribes(p)
      PROVE  SignalInv' /\ Len(polls') = Len(polls)
  <2>1. p \in 1..Len(polls) /\ polls[p] \in PollRow
    BY <1>1, <1>3, ElementOfSeq DEF WatcherUnsubscribes
  <2> DEFINE row == [polls[p] EXCEPT !.watched = FALSE]
             rows == [polls EXCEPT ![p] = row]
  <2>2. row \in PollRow /\ polls[p].job \in Job
    BY <2>1 DEF PollRow
  <2>3. rows \in Seq(PollRow) /\ Len(rows) = Len(polls)
    <3> HIDE DEF row
    <3> QED BY <1>1, <2>1, <2>2, ExceptSeq
  <2>4. unsubscribe(polls[p].job, rows) /\ UNCHANGED <<notices, relay, panicked>>
    BY <1>3 DEF WatcherUnsubscribes
  <2> HIDE DEF rows
  <2> QED BY <2>2, <2>3, <2>4, UnsubscribeInv
<1>4. ASSUME NEW p \in Poll, Receive(p) PROVE SignalInv' /\ Len(polls') = Len(polls)
  <2>1. p \in 1..Len(polls) /\ polls[p] \in PollRow
    BY <1>1, <1>4, ElementOfSeq DEF Receive
  <2> DEFINE row == [polls[p] EXCEPT !.answer = AnswerTo(polls[p]), !.buffer = NoSignal]
  <2>2. row \in PollRow
    <3>1. AnswerTo(polls[p]) \in Answers
      BY <2>1 DEF AnswerTo, PollRow, Answers, NoSignal
    <3> QED BY <2>1, <3>1 DEF PollRow
  <2>3. polls' = [polls EXCEPT ![p] = row] /\ UNCHANGED <<notices, subscribers, relay, panicked>>
    BY <1>1, <1>4, <2>1 DEF Receive
  <2> HIDE DEF row
  <2>4. polls' \in Seq(PollRow) /\ Len(polls') = Len(polls)
    BY <1>1, <2>1, <2>2, <2>3, ExceptSeq
  <2> QED BY <2>3, <2>4, RowsInv DEF SignalInv, SignalTypeOK
<1> QED BY <1>2, <1>3, <1>4

\* A poll is made; the new one is the job's subscriber.
LEMMA AwaitSignalInv ==
  ASSUME SignalInv, NEW j \in Job, awaitJobSignal(j)
  PROVE  SignalInv' /\ polls' # <<>>
<1>1. /\ polls \in Seq(PollRow) /\ Len(polls) \in Nat /\ Len(polls) < MaxPolls
      /\ polls' = Append(polls, NewPoll(j))
      /\ subscribers' = [subscribers EXCEPT ![j] = Len(polls) + 1]
      /\ UNCHANGED <<notices, relay, panicked>>
  BY LenProperties DEF awaitJobSignal, SignalInv, SignalTypeOK
<1>2. NewPoll(j) \in PollRow
  BY DEF NewPoll, PollRow, Answers, NoSignal
<1>3. /\ polls' \in Seq(PollRow) /\ polls' # <<>> /\ Len(polls') = Len(polls) + 1
      /\ DOMAIN polls' = 1..(Len(polls) + 1) /\ DOMAIN polls = 1..Len(polls)
  BY <1>1, <1>2, AppendProperties, LenProperties
<1>4. subscribers' \in [Job -> {0} \cup DOMAIN polls']
  BY <1>1, <1>3 DEF SignalInv, SignalTypeOK
<1>5. Len(polls') <= MaxPolls
  BY <1>1, <1>3, PollsAssumption
<1> QED BY <1>1, <1>3, <1>4, <1>5 DEF SignalInv, SignalTypeOK

-----------------------------------------------------------------------------
(* The steps of an operation, by their place *)

\* The plugin cache is one more step before the first that runs the engine.
Shift == IF PluginCache THEN 1 ELSE 0

\* Three sequences of strings after one another.
LEMMA ConcatThree ==
  ASSUME NEW S, NEW a \in Seq(S), NEW b \in Seq(S), NEW c \in Seq(S),
         NEW all, all = a \o b \o c
  PROVE  /\ Len(all) = Len(a) + Len(b) + Len(c)
         /\ \A i \in 1..Len(a) : all[i] = a[i]
         /\ \A i \in 1..Len(b) : all[Len(a) + i] = b[i]
         /\ \A i \in 1..Len(c) : all[Len(a) + Len(b) + i] = c[i]
<1>1. PICK ab \in Seq(S) : ab = a \o b
  BY ConcatProperties
<1>2. all = ab \o c
  BY <1>1
<1>3. Len(a) \in Nat /\ Len(b) \in Nat /\ Len(c) \in Nat
  BY LenProperties
<1>4. /\ Len(ab) = Len(a) + Len(b)
      /\ \A i \in 1..(Len(a) + Len(b)) : ab[i] = IF i <= Len(a) THEN a[i] ELSE b[i - Len(a)]
  BY <1>1, ConcatProperties
<1>5. /\ Len(all) = Len(ab) + Len(c)
      /\ \A i \in 1..(Len(ab) + Len(c)) : all[i] = IF i <= Len(ab) THEN ab[i] ELSE c[i - Len(ab)]
  BY <1>2, ConcatProperties
<1>6. ASSUME NEW i \in 1..Len(a) PROVE all[i] = a[i]
  BY <1>3, <1>4, <1>5
<1>7. ASSUME NEW i \in 1..Len(b) PROVE all[Len(a) + i] = b[i]
  <2>1. PICK k \in Nat : k = Len(a) + i /\ k - Len(a) = i
    BY <1>3
  <2>2. k \in 1..(Len(a) + Len(b)) /\ ~(k <= Len(a)) /\ k <= Len(ab) /\ k \in 1..(Len(ab) + Len(c))
    BY <1>3, <1>4, <2>1
  <2> QED BY <1>4, <1>5, <2>1, <2>2
<1>8. ASSUME NEW i \in 1..Len(c) PROVE all[Len(a) + Len(b) + i] = c[i]
  <2>1. PICK k \in Nat : k = Len(ab) + i /\ k - Len(ab) = i
    BY <1>3, <1>4
  <2>2. ~(k <= Len(ab)) /\ k \in 1..(Len(ab) + Len(c))
    BY <1>3, <1>4, <2>1
  <2> QED BY <1>4, <1>5, <2>1, <2>2
<1> QED BY <1>1, <1>2, <1>4, <1>5, <1>6, <1>7, <1>8

\* A function on 1..n is a sequence of length n.
LEMMA TupleTyped ==
  ASSUME NEW S, NEW n \in Nat, NEW s \in [1..n -> S]
  PROVE  s \in Seq(S) /\ Len(s) = n
<1>1. s \in Seq(S)
  BY SeqDef
<1> QED BY <1>1, LenProperties

\* Which step is where.
LEMMA StepsTable ==
  /\ Len(Steps("plan")) = 14 + Shift /\ Len(Steps("apply")) = 12 + Shift
  /\ \A phase \in {"plan", "apply"} :
       /\ \A i \in 1..8 : Steps(phase)[i] = Prepare[i]
       /\ PluginCache => Steps(phase)[9] = "enablePluginCache"
  /\ Steps("plan")[9 + Shift] = "init"
  /\ Steps("plan")[10 + Shift] = "plan"
  /\ Steps("plan")[11 + Shift] = "convertPlanToJSON"
  /\ Steps("plan")[12 + Shift] = "uploadPlan"
  /\ Steps("plan")[13 + Shift] = "uploadJSONPlan"
  /\ Steps("plan")[14 + Shift] = "uploadLockFile"
  /\ Steps("apply")[9 + Shift] = "downloadLockFile"
  /\ Steps("apply")[10 + Shift] = "downloadPlanFile"
  /\ Steps("apply")[11 + Shift] = "init"
  /\ Steps("apply")[12 + Shift] = "apply"
<1> DEFINE cache == IF PluginCache THEN <<"enablePluginCache">> ELSE <<>>
           forPlan == <<"init", "plan", "convertPlanToJSON", "uploadPlan",
                        "uploadJSONPlan", "uploadLockFile">>
           forApply == <<"downloadLockFile", "downloadPlanFile", "init", "apply">>
           Name == {Prepare[i] : i \in 1..8} \cup {"enablePluginCache"}
                   \cup {forPlan[i] : i \in 1..6} \cup {forApply[i] : i \in 1..4}
<1>1. Prepare \in Seq(Name) /\ Len(Prepare) = 8
  <2>1. Prepare = [i \in 1..8 |-> Prepare[i]]
    BY DEF Prepare
  <2>2. \A i \in 1..8 : Prepare[i] \in Name
    OBVIOUS
  <2> HIDE DEF Name
  <2>3. Prepare \in [1..8 -> Name]
    BY <2>1, <2>2
  <2> QED BY <2>3, TupleTyped
<1>2. forPlan \in Seq(Name) /\ Len(forPlan) = 6
  <2>1. forPlan = [i \in 1..6 |-> forPlan[i]]
    OBVIOUS
  <2> HIDE DEF forPlan
  <2>2. \A i \in 1..6 : forPlan[i] \in Name
    OBVIOUS
  <2> HIDE DEF Name
  <2>3. forPlan \in [1..6 -> Name]
    BY <2>1, <2>2
  <2> QED BY <2>3, TupleTyped
<1>3. forApply \in Seq(Name) /\ Len(forApply) = 4
  <2>1. forApply = [i \in 1..4 |-> forApply[i]]
    OBVIOUS
  <2> HIDE DEF forApply
  <2>2. \A i \in 1..4 : forApply[i] \in Name
    OBVIOUS
  <2> HIDE DEF Name
  <2>3. forApply \in [1..4 -> Name]
    BY <2>1, <2>2
  <2> QED BY <2>3, TupleTyped
<1>4. /\ cache \in Seq(Name) /\ Len(cache) = Shift /\ Shift \in {0, 1}
      /\ PluginCache => Shift = 1 /\ cache[1] = "enablePluginCache"
  <2>1. "enablePluginCache" \in Name
    OBVIOUS
  <2> HIDE DEF Name
  <2>2. CASE PluginCache
    <3>1. cache = <<"enablePluginCache">> /\ Shift = 1
      BY <2>2 DEF Shift
    <3>2. cache \in Seq(Name) /\ Len(cache) = 1 /\ cache[1] = "enablePluginCache"
      BY <2>1, <3>1
    <3> QED BY <3>1, <3>2
  <2>3. CASE ~PluginCache
    <3>1. cache = <<>> /\ Shift = 0
      BY <2>3 DEF Shift
    <3> QED BY <2>3, <3>1, EmptySeq
  <2> QED BY <2>2, <2>3
<1>5. /\ Steps("plan") = Prepare \o cache \o forPlan
      /\ Steps("apply") = Prepare \o cache \o forApply
  BY DEF Steps
<1>6. /\ forPlan[1] = "init" /\ forPlan[2] = "plan" /\ forPlan[3] = "convertPlanToJSON"
      /\ forPlan[4] = "uploadPlan" /\ forPlan[5] = "uploadJSONPlan"
      /\ forPlan[6] = "uploadLockFile"
      /\ forApply[1] = "downloadLockFile" /\ forApply[2] = "downloadPlanFile"
      /\ forApply[3] = "init" /\ forApply[4] = "apply"
  OBVIOUS
<1> HIDE DEF cache, forPlan, forApply, Name
<1>7. /\ Len(Steps("plan")) = 8 + Shift + 6
      /\ \A i \in 1..8 : Steps("plan")[i] = Prepare[i]
      /\ \A i \in 1..Shift : Steps("plan")[8 + i] = cache[i]
      /\ \A i \in 1..6 : Steps("plan")[8 + Shift + i] = forPlan[i]
  <2>1. /\ Len(Steps("plan")) = Len(Prepare) + Len(cache) + Len(forPlan)
        /\ \A i \in 1..Len(Prepare) : Steps("plan")[i] = Prepare[i]
        /\ \A i \in 1..Len(cache) : Steps("plan")[Len(Prepare) + i] = cache[i]
        /\ \A i \in 1..Len(forPlan) :
             Steps("plan")[Len(Prepare) + Len(cache) + i] = forPlan[i]
    <3> DEFINE a == Prepare
               all == Steps("plan")
    <3>1. a \in Seq(Name) /\ cache \in Seq(Name) /\ forPlan \in Seq(Name)
      BY <1>1, <1>2, <1>4
    <3>2. all = a \o cache \o forPlan
      BY <1>5
    <3> HIDE DEF a, all
    <3>3. /\ Len(all) = Len(a) + Len(cache) + Len(forPlan)
          /\ \A i \in 1..Len(a) : all[i] = a[i]
      BY <3>1, <3>2, ConcatThree
    <3>4. \A i \in 1..Len(cache) : all[Len(a) + i] = cache[i]
      BY <3>1, <3>2, ConcatThree
    <3>5. \A i \in 1..Len(forPlan) : all[Len(a) + Len(cache) + i] = forPlan[i]
      BY <3>1, <3>2, ConcatThree
    <3> QED BY <3>3, <3>4, <3>5 DEF a, all
  <2> QED BY <1>1, <1>2, <1>4, <2>1
<1>8. /\ Len(Steps("apply")) = 8 + Shift + 4
      /\ \A i \in 1..8 : Steps("apply")[i] = Prepare[i]
      /\ \A i \in 1..Shift : Steps("apply")[8 + i] = cache[i]
      /\ \A i \in 1..4 : Steps("apply")[8 + Shift + i] = forApply[i]
  <2>1. /\ Len(Steps("apply")) = Len(Prepare) + Len(cache) + Len(forApply)
        /\ \A i \in 1..Len(Prepare) : Steps("apply")[i] = Prepare[i]
        /\ \A i \in 1..Len(cache) : Steps("apply")[Len(Prepare) + i] = cache[i]
        /\ \A i \in 1..Len(forApply) :
             Steps("apply")[Len(Prepare) + Len(cache) + i] = forApply[i]
    <3> DEFINE a == Prepare
               all == Steps("apply")
    <3>1. a \in Seq(Name) /\ cache \in Seq(Name) /\ forApply \in Seq(Name)
      BY <1>1, <1>3, <1>4
    <3>2. all = a \o cache \o forApply
      BY <1>5
    <3> HIDE DEF a, all
    <3>3. /\ Len(all) = Len(a) + Len(cache) + Len(forApply)
          /\ \A i \in 1..Len(a) : all[i] = a[i]
      BY <3>1, <3>2, ConcatThree
    <3>4. \A i \in 1..Len(cache) : all[Len(a) + i] = cache[i]
      BY <3>1, <3>2, ConcatThree
    <3>5. \A i \in 1..Len(forApply) : all[Len(a) + Len(cache) + i] = forApply[i]
      BY <3>1, <3>2, ConcatThree
    <3> QED BY <3>3, <3>4, <3>5 DEF a, all
  <2> QED BY <1>1, <1>3, <1>4, <2>1
<1>9. CASE PluginCache
  <2>1. Shift = 1 /\ 1 \in 1..Shift
    BY <1>4, <1>9
  <2> QED BY <1>4, <1>6, <1>7, <1>8, <1>9, <2>1
<1>10. CASE ~PluginCache
  <2>1. Shift = 0
    BY <1>10 DEF Shift
  <2> QED BY <1>4, <1>6, <1>7, <1>8, <1>10, <2>1
<1> QED BY <1>9, <1>10

-----------------------------------------------------------------------------
(* What the working directory holds before each step *)

Thing == {"engine", "config", "backend", "vars", "tfvars", "creds", "ssh",
          "state", "cache", "plan", "json"}
MaybeVersion == Version \cup {NoVersion}
WorkDir == [has : SUBSET Thing, lock : MaybeVersion, providers : MaybeVersion]
StoreRow == [plan : BOOLEAN, json : BOOLEAN, lock : MaybeVersion, state : BOOLEAN,
             planned : MaybeVersion]

\* The plan is on the server, with the lock file that it was made with.
PlanStored(s) ==
  s.plan /\ s.json /\ s.lock = s.planned /\ s.lock \in Version

\* What is in the directory w before step k of either phase.
Prepared(w, k) ==
  /\ k > 1 => "engine" \in w.has
  /\ k > 2 => "config" \in w.has
  /\ k > 3 => "vars" \in w.has
  /\ k > 6 => "tfvars" \in w.has
  /\ k > 7 => "backend" \notin w.has
  /\ k > 8 => "state" \in w.has

\* What a plan has by then, in w and on the server.
Planned(w, s, k) ==
  /\ k <= 9 + Shift => w.lock = NoVersion
  /\ k > 9 + Shift => w.lock \in Version /\ w.providers = w.lock
  /\ k > 12 + Shift => s.plan /\ s.planned = w.providers
  /\ k > 13 + Shift => s.json
  /\ k > 14 + Shift => s.lock = w.lock

\* What an apply has got of the plan.
Fetched(w, s, k) ==
  /\ k > 9 + Shift => w.lock = s.lock
  /\ k > 10 + Shift => "plan" \in w.has
  /\ k > 11 + Shift => w.providers = s.planned

Ready(w, s, k, phase) ==
  /\ Prepared(w, k)
  /\ phase = "plan" => Planned(w, s, k)
  /\ phase = "apply" => Fetched(w, s, k) /\ PlanStored(s)

\* Each step leaves what the next one is to find.
LEMMA PrepareStepDone ==
  ASSUME wd \in WorkDir, store \in StoreRow, NEW phase \in Job, NEW k \in 1..8,
         Ready(wd, store, k, phase), NEW v
  PROVE  /\ Result(Steps(phase)[k], v) \in WorkDir
         /\ Stored(Steps(phase)[k]) = store
         /\ Ready(Result(Steps(phase)[k], v), store, k + 1, phase)
<1> DEFINE step == Prepare[k]
           w == Result(step, v)
<1>1. Steps(phase)[k] = step /\ k \in Int
  <2>1. phase \in {"plan", "apply"} /\ k \in Int
    BY ExecutionAssumption
  <2>2. \A p \in {"plan", "apply"} : \A i \in 1..8 : Steps(p)[i] = Prepare[i]
    BY StepsTable
  <2> QED BY <2>1, <2>2
<1>2. Shift \in {0, 1}
  BY DEF Shift
<1>3. /\ k = 1 => step = "downloadEngine"
      /\ k = 2 => step = "downloadConfig"
      /\ k = 3 => step = "readVars"
      /\ k = 4 => step = "setupDynamicCredentials"
      /\ k = 5 => step = "setupSSHKey"
      /\ k = 6 => step = "writeTerraformVars"
      /\ k = 7 => step = "deleteBackendConfig"
      /\ k = 8 => step = "downloadState"
      /\ k \in {1, 2, 3, 4, 5, 6, 7, 8}
  BY DEF Prepare
<1> HIDE DEF step
<1>4. Stored(step) = store
  BY <1>3 DEF Stored
<1>5. /\ w \in WorkDir /\ w.lock = wd.lock /\ w.providers = wd.providers
      /\ Prepared(w, k + 1)
  <2>1. ASSUME NEW h, w = [wd EXCEPT !.has = h], h \subseteq Thing
        PROVE  /\ w \in WorkDir /\ w.has = h
               /\ w.lock = wd.lock /\ w.providers = wd.providers
    <3> HIDE DEF w
    <3> QED BY <2>1 DEF WorkDir
  <2>2. wd.has \subseteq Thing /\ wd = [wd EXCEPT !.has = wd.has]
    BY DEF WorkDir
  <2> HIDE DEF Ready
  <2>3. CASE k = 1
    <3> DEFINE h == wd.has \cup {"engine"}
    <3>1. w = [wd EXCEPT !.has = h]
      BY <1>3, <2>2, <2>3 DEF Result, downloadEngine, Put
    <3>2. h \subseteq Thing
      BY <2>2 DEF Thing
    <3> HIDE DEF h, w
    <3>3. w \in WorkDir /\ w.has = h /\ w.lock = wd.lock /\ w.providers = wd.providers
      BY <2>1, <3>1, <3>2
    <3> QED BY <2>3, <3>3 DEF Ready, Prepared, h
  <2>4. CASE k = 2
    <3> DEFINE h == (wd.has \ {"tfvars"}) \cup {"config", "backend"}
    <3>1. w = [wd EXCEPT !.has = h]
      BY <1>3, <2>2, <2>4 DEF Result, downloadConfig, Put
    <3>2. h \subseteq Thing
      BY <2>2 DEF Thing
    <3> HIDE DEF h, w
    <3>3. w \in WorkDir /\ w.has = h /\ w.lock = wd.lock /\ w.providers = wd.providers
      BY <2>1, <3>1, <3>2
    <3> QED BY <2>4, <3>3 DEF Ready, Prepared, h
  <2>5. CASE k = 3
    <3> DEFINE h == wd.has \cup {"vars"}
    <3>1. w = [wd EXCEPT !.has = h]
      BY <1>3, <2>2, <2>5 DEF Result, readVars, Put
    <3>2. h \subseteq Thing
      BY <2>2 DEF Thing
    <3> HIDE DEF h, w
    <3>3. w \in WorkDir /\ w.has = h /\ w.lock = wd.lock /\ w.providers = wd.providers
      BY <2>1, <3>1, <3>2
    <3> QED BY <2>5, <3>3 DEF Ready, Prepared, h
  <2>6. CASE k = 4
    <3> DEFINE h == wd.has \cup {"creds"}
    <3>1. w = [wd EXCEPT !.has = h]
      BY <1>3, <2>2, <2>6 DEF Result, setupDynamicCredentials, Put
    <3>2. h \subseteq Thing
      BY <2>2 DEF Thing
    <3> HIDE DEF h, w
    <3>3. w \in WorkDir /\ w.has = h /\ w.lock = wd.lock /\ w.providers = wd.providers
      BY <2>1, <3>1, <3>2
    <3> QED BY <2>6, <3>3 DEF Ready, Prepared, h
  <2>7. CASE k = 5
    <3> DEFINE h == wd.has \cup {"ssh"}
    <3>1. w = [wd EXCEPT !.has = h]
      BY <1>3, <2>2, <2>7 DEF Result, setupSSHKey, Put
    <3>2. h \subseteq Thing
      BY <2>2 DEF Thing
    <3> HIDE DEF h, w
    <3>3. w \in WorkDir /\ w.has = h /\ w.lock = wd.lock /\ w.providers = wd.providers
      BY <2>1, <3>1, <3>2
    <3> QED BY <2>7, <3>3 DEF Ready, Prepared, h
  <2>8. CASE k = 6
    <3> DEFINE h == IF "vars" \in wd.has THEN wd.has \cup {"tfvars"} ELSE wd.has
    <3>1. w = [wd EXCEPT !.has = h]
      BY <1>3, <2>2, <2>8 DEF Result, writeTerraformVars, Put
    <3>2. h \subseteq Thing
      BY <2>2 DEF Thing
    <3> HIDE DEF h, w
    <3>3. w \in WorkDir /\ w.has = h /\ w.lock = wd.lock /\ w.providers = wd.providers
      BY <2>1, <3>1, <3>2
    <3> QED BY <2>8, <3>3 DEF Ready, Prepared, h
  <2>9. CASE k = 7
    <3> DEFINE h == wd.has \ {"backend"}
    <3>1. w = [wd EXCEPT !.has = h]
      BY <1>3, <2>2, <2>9 DEF Result, deleteBackendConfig, Put
    <3>2. h \subseteq Thing
      BY <2>2 DEF Thing
    <3> HIDE DEF h, w
    <3>3. w \in WorkDir /\ w.has = h /\ w.lock = wd.lock /\ w.providers = wd.providers
      BY <2>1, <3>1, <3>2
    <3> QED BY <2>9, <3>3 DEF Ready, Prepared, h
  <2>10. CASE k = 8
    <3> DEFINE h == wd.has \cup {"state"}
    <3>1. w = [wd EXCEPT !.has = h]
      BY <1>3, <2>2, <2>10 DEF Result, downloadState, Put
    <3>2. h \subseteq Thing
      BY <2>2 DEF Thing
    <3> HIDE DEF h, w
    <3>3. w \in WorkDir /\ w.has = h /\ w.lock = wd.lock /\ w.providers = wd.providers
      BY <2>1, <3>1, <3>2
    <3> QED BY <2>10, <3>3 DEF Ready, Prepared, h
  <2> QED BY <1>3, <2>3, <2>4, <2>5, <2>6, <2>7, <2>8, <2>9, <2>10
<1> HIDE DEF w
<1>6. Planned(wd, store, k) => Planned(w, store, k + 1)
  BY <1>2, <1>3, <1>5 DEF Planned
<1>7. Fetched(w, store, k + 1)
  BY <1>2, <1>3 DEF Fetched
<1> QED BY <1>1, <1>4, <1>5, <1>6, <1>7 DEF Ready, w

\* The cache is put in place after the preparations.
LEMMA CacheStepDone ==
  ASSUME wd \in WorkDir, store \in StoreRow, NEW phase \in Job, PluginCache,
         Ready(wd, store, 9, phase), NEW v
  PROVE  /\ Result(Steps(phase)[9], v) \in WorkDir
         /\ Stored(Steps(phase)[9]) = store
         /\ Ready(Result(Steps(phase)[9], v), store, 10, phase)
<1> DEFINE w == Result("enablePluginCache", v)
           h == wd.has \cup {"cache"}
<1>1. Steps(phase)[9] = "enablePluginCache" /\ Shift = 1
  BY StepsTable, ExecutionAssumption DEF Shift
<1>2. Stored("enablePluginCache") = store
  BY DEF Stored
<1>3. w = [wd EXCEPT !.has = h]
  BY DEF Result, enablePluginCache, Put
<1>4. h \subseteq Thing
  BY DEF WorkDir, Thing
<1> HIDE DEF w, h
<1>5. w \in WorkDir /\ w.has = h /\ w.lock = wd.lock /\ w.providers = wd.providers
  BY <1>3, <1>4 DEF WorkDir
<1>6. Ready(w, store, 10, phase)
  BY <1>1, <1>5 DEF Ready, Prepared, Planned, Fetched, h
<1> QED BY <1>1, <1>2, <1>5, <1>6 DEF w

\* Outside the preparations nothing is taken away from the directory.
LEMMA StaysPrepared ==
  ASSUME NEW w, NEW w1, NEW k \in Nat, k > 8, Prepared(w, k), w.has \subseteq w1.has,
         "backend" \notin w1.has
  PROVE  Prepared(w1, k + 1)
BY DEF Prepared

\* The steps of a plan from its first run of the engine on.
LEMMA PlanStepDone ==
  ASSUME wd \in WorkDir, store \in StoreRow, NEW k \in (9 + Shift)..(14 + Shift),
         Ready(wd, store, k, "plan"), NEW v, k = 9 + Shift => v \in Version
  PROVE  /\ Result(Steps("plan")[k], v) \in WorkDir
         /\ Stored(Steps("plan")[k]) \in StoreRow
         /\ Stored(Steps("plan")[k]).state = store.state
         /\ Ready(Result(Steps("plan")[k], v), Stored(Steps("plan")[k]), k + 1, "plan")
<1> DEFINE step == Steps("plan")[k]
           w == Result(step, v)
           s == Stored(step)
<1>1. Shift \in {0, 1}
  BY DEF Shift
<1>2. /\ k = 9 + Shift => step = "init"
      /\ k = 10 + Shift => step = "plan"
      /\ k = 11 + Shift => step = "convertPlanToJSON"
      /\ k = 12 + Shift => step = "uploadPlan"
      /\ k = 13 + Shift => step = "uploadJSONPlan"
      /\ k = 14 + Shift => step = "uploadLockFile"
      /\ k \in {9 + Shift, 10 + Shift, 11 + Shift, 12 + Shift, 13 + Shift, 14 + Shift}
      /\ k \in Nat /\ k > 8
  <2>1. /\ k \in {9 + Shift, 10 + Shift, 11 + Shift, 12 + Shift, 13 + Shift, 14 + Shift}
        /\ k \in Nat /\ k > 8
    BY <1>1
  <2> QED BY <2>1, StepsTable
<1>3. /\ Prepared(wd, k) /\ Planned(wd, store, k)
      /\ wd.has \subseteq Thing /\ "backend" \notin wd.has
  BY <1>2 DEF Ready, Prepared, WorkDir
<1> HIDE DEF step
<1>4. /\ w \in WorkDir /\ wd.has \subseteq w.has /\ "backend" \notin w.has
      /\ k # 9 + Shift => w.lock = wd.lock /\ w.providers = wd.providers
      /\ k = 9 + Shift => w.lock \in Version /\ w.providers = w.lock
  <2>1. ASSUME NEW h, w = [wd EXCEPT !.has = h], h \subseteq Thing
        PROVE  w \in WorkDir /\ w.has = h /\ w.lock = wd.lock /\ w.providers = wd.providers
    <3> HIDE DEF w
    <3> QED BY <2>1 DEF WorkDir
  <2>2. CASE k = 9 + Shift
    <3>1. wd.lock = NoVersion /\ v \in Version
      BY <1>1, <1>3, <2>2 DEF Planned
    <3>2. w = [wd EXCEPT !.lock = v, !.providers = v]
      BY <1>2, <2>2, <3>1 DEF Result, init
    <3> HIDE DEF w
    <3>3. w \in WorkDir /\ w.has = wd.has /\ w.lock = v /\ w.providers = v
      BY <3>1, <3>2 DEF WorkDir, MaybeVersion
    <3> QED BY <1>3, <2>2, <3>1, <3>3
  <2>3. CASE k = 10 + Shift \/ k = 11 + Shift
    <3> DEFINE h == wd.has \cup {IF k = 10 + Shift THEN "plan" ELSE "json"}
    <3>1. w = [wd EXCEPT !.has = h]
      BY <1>1, <1>2, <2>3 DEF Result, plan, convertPlanToJSON, Put
    <3>2. h \subseteq Thing /\ "backend" \notin h
      BY <1>3 DEF Thing
    <3> HIDE DEF h, w
    <3>3. w \in WorkDir /\ w.has = h /\ w.lock = wd.lock /\ w.providers = wd.providers
      BY <2>1, <3>1, <3>2
    <3> QED BY <1>1, <2>3, <3>2, <3>3 DEF h
  <2>4. CASE k \in {12 + Shift, 13 + Shift, 14 + Shift}
    <3>1. w = wd
      BY <1>1, <1>2, <2>4 DEF Result
    <3> HIDE DEF w
    <3> QED BY <1>1, <1>3, <2>4, <3>1
  <2> QED BY <1>2, <2>2, <2>3, <2>4
<1> HIDE DEF w
<1>5. /\ s \in StoreRow /\ s.state = store.state
      /\ store.plan \/ k = 12 + Shift => s.plan
      /\ s.planned = IF k = 12 + Shift THEN wd.providers ELSE store.planned
      /\ store.json \/ k = 13 + Shift => s.json
      /\ s.lock = IF k = 14 + Shift THEN wd.lock ELSE store.lock
  <2>1. wd.lock \in MaybeVersion /\ wd.providers \in MaybeVersion
    BY DEF WorkDir
  <2>2. CASE k = 12 + Shift
    <3>1. s = [store EXCEPT !.plan = TRUE, !.planned = wd.providers]
      BY <1>2, <2>2 DEF Stored, uploadPlan
    <3> HIDE DEF s
    <3>2. s \in StoreRow
      BY <2>1, <3>1 DEF StoreRow
    <3>3. /\ s.plan /\ s.json = store.json /\ s.state = store.state
          /\ s.planned = wd.providers /\ s.lock = store.lock
      BY <3>1 DEF StoreRow
    <3>4. k # 13 + Shift /\ k # 14 + Shift
      BY <1>1, <2>2
    <3> QED BY <2>2, <3>2, <3>3, <3>4
  <2>3. CASE k = 13 + Shift
    <3>1. s = [store EXCEPT !.json = TRUE]
      BY <1>2, <2>3 DEF Stored, uploadJSONPlan
    <3> HIDE DEF s
    <3>2. s \in StoreRow
      BY <3>1 DEF StoreRow
    <3>3. /\ s.json /\ s.plan = store.plan /\ s.state = store.state
          /\ s.planned = store.planned /\ s.lock = store.lock
      BY <3>1 DEF StoreRow
    <3>4. k # 12 + Shift /\ k # 14 + Shift
      BY <1>1, <2>3
    <3> QED BY <2>3, <3>2, <3>3, <3>4
  <2>4. CASE k = 14 + Shift
    <3>1. s = [store EXCEPT !.lock = wd.lock]
      BY <1>2, <2>4 DEF Stored, uploadLockFile
    <3> HIDE DEF s
    <3> QED BY <1>1, <2>1, <2>4, <3>1 DEF StoreRow
  <2>5. CASE k \in {9 + Shift, 10 + Shift, 11 + Shift}
    <3>1. s = store
      BY <1>1, <1>2, <2>5 DEF Stored
    <3> HIDE DEF s
    <3> QED BY <1>1, <2>5, <3>1 DEF StoreRow
  <2> QED BY <1>2, <2>2, <2>3, <2>4, <2>5
<1> HIDE DEF s
<1>6. Planned(w, s, k + 1)
  BY <1>1, <1>2, <1>3, <1>4, <1>5 DEF Planned
<1>7. Prepared(w, k + 1)
  BY <1>2, <1>3, <1>4, StaysPrepared
<1> QED BY <1>4, <1>5, <1>6, <1>7 DEF Ready, step, w, s

\* The steps of an apply from the download of the lock file on, the last one,
\* which leaves the directory to the saving of the state, apart.
LEMMA ApplyStepDone ==
  ASSUME wd \in WorkDir, store \in StoreRow, NEW k \in (9 + Shift)..(11 + Shift),
         Ready(wd, store, k, "apply"), NEW v
  PROVE  /\ Result(Steps("apply")[k], v) \in WorkDir
         /\ Stored(Steps("apply")[k]) = store
         /\ Ready(Result(Steps("apply")[k], v), store, k + 1, "apply")
<1> DEFINE step == Steps("apply")[k]
           w == Result(step, v)
<1>1. Shift \in {0, 1}
  BY DEF Shift
<1>2. /\ k = 9 + Shift => step = "downloadLockFile"
      /\ k = 10 + Shift => step = "downloadPlanFile"
      /\ k = 11 + Shift => step = "init"
      /\ k \in {9 + Shift, 10 + Shift, 11 + Shift}
      /\ k \in Nat /\ k > 8
  <2>1. /\ k \in {9 + Shift, 10 + Shift, 11 + Shift}
        /\ k \in Nat /\ k > 8
    BY <1>1
  <2> QED BY <2>1, StepsTable
<1>3. /\ Prepared(wd, k) /\ Fetched(wd, store, k) /\ PlanStored(store)
      /\ wd.has \subseteq Thing /\ "backend" \notin wd.has
  BY <1>2 DEF Ready, Prepared, WorkDir
<1> HIDE DEF step
<1>4. Stored(step) = store
  BY <1>2 DEF Stored
<1>5. /\ w \in WorkDir /\ wd.has \subseteq w.has /\ "backend" \notin w.has
      /\ Fetched(w, store, k + 1)
  <2>1. CASE k = 9 + Shift
    <3>1. w = [wd EXCEPT !.lock = store.lock]
      BY <1>2, <2>1 DEF Result, downloadLockFile
    <3> HIDE DEF w
    <3>2. w \in WorkDir /\ w.has = wd.has /\ w.lock = store.lock
      BY <3>1 DEF WorkDir, StoreRow
    <3> QED BY <1>1, <1>3, <2>1, <3>2 DEF Fetched
  <2>2. CASE k = 10 + Shift
    <3> DEFINE h == wd.has \cup {"plan"}
    <3>1. w = [wd EXCEPT !.has = h]
      BY <1>2, <1>3, <2>2 DEF Result, downloadPlanFile, Put, PlanStored
    <3>2. h \subseteq Thing /\ "backend" \notin h /\ "plan" \in h
      BY <1>3 DEF Thing
    <3> HIDE DEF w, h
    <3>3. w \in WorkDir /\ w.has = h /\ w.lock = wd.lock
      BY <3>1, <3>2 DEF WorkDir
    <3> QED BY <1>1, <1>3, <2>2, <3>2, <3>3 DEF Fetched, h
  <2>3. CASE k = 11 + Shift
    <3>1. wd.lock = store.lock /\ wd.lock # NoVersion /\ wd.lock \in MaybeVersion
      BY <1>1, <1>3, <2>3, ExecutionAssumption DEF Fetched, PlanStored, MaybeVersion
    <3>2. w = [wd EXCEPT !.lock = wd.lock, !.providers = wd.lock]
      BY <1>2, <2>3, <3>1 DEF Result, init
    <3> HIDE DEF w
    <3>3. w \in WorkDir /\ w.has = wd.has /\ w.lock = wd.lock /\ w.providers = wd.lock
      BY <3>1, <3>2 DEF WorkDir
    <3> QED BY <1>1, <1>3, <2>3, <3>1, <3>3 DEF Fetched, PlanStored
  <2> QED BY <1>2, <2>1, <2>2, <2>3
<1> HIDE DEF w
<1>6. Prepared(w, k + 1)
  BY <1>2, <1>3, <1>5, StaysPrepared
<1>7. Ready(w, store, k + 1, "apply")
  BY <1>3, <1>5, <1>6 DEF Ready
<1> QED BY <1>4, <1>5, <1>7 DEF step, w

-----------------------------------------------------------------------------
(* The inductive invariant *)

RunnerRow ==
  [at : {"waiting", "stopped"}]
    \cup [at : {"starting", "spawning", "secret", "kjob", "owner"}, job : Job]

TypeInv ==
  /\ SignalInv
  /\ remote \in BOOLEAN /\ kube \in BOOLEAN /\ cancelSignaled \in BOOLEAN
  /\ stopping \in BOOLEAN
  /\ jobs \in [Job -> JobStatus]
  /\ runner \in RunnerRow
  /\ op \in OpRow
  /\ listener \in {"off", "subscribing", "polling"}
  /\ wd \in WorkDir
  /\ store \in StoreRow

\* Where an operation is in its steps, and what it has by then.
Placed ==
  /\ op.alive => op.at = "engine"
  /\ op.at \in {"begin", "check", "window", "engine"} =>
       op.step \in 1..LastStep /\ Ready(wd, store, op.step, op.job)
  /\ op.at \in {"window", "engine"} => Step \in Engine
  /\ op.at = "saving" => op.job = "apply"

\* What an operation leaves on the server by the time it says how it went.
Kept ==
  /\ op.changed => /\ op.job = "apply"
                   /\ op.at \in {"engine", "saving", "report", "finish", "ended"}
                   /\ op.at = "engine" => Step = "apply"
                   /\ op.at \in {"report", "finish"} =>
                        store.state \/ (op.saveFailed /\ op.err)
                   /\ op.at = "ended" => store.state \/ op.saveFailed \/ panicked
  /\ op.job = "plan" /\ op.at \in {"report", "finish"} /\ ~op.err => PlanStored(store)
  /\ op.at = "finish" => op.report \in JobDone /\ (op.report = "finished" => ~op.err)

\* An operation that has been canceled does not get past another check.
Late ==
  /\ op.lateStarts <= 1
  /\ ~op.canceled \/ op.at = "window" => op.lateStarts = 0

\* No operation of the job has been started.
Unspawned(j) == op.job = "plan" /\ (j = "plan" => op.at = "none")

\* The runner spawns an operation once.
SpawnsOnce ==
  runner.at \in {"spawning", "secret", "kjob"} =>
    jobs[runner.job] \notin {"absent", "allocated"} /\ Unspawned(runner.job)

\* How the two jobs of the run stand to the runner and to the operation.
InTurn ==
  /\ SpawnsOnce
  /\ \A j \in Job : jobs[j] = "allocated" => Unspawned(j)
  /\ op.job = "apply" => jobs["apply"] # "absent"
  /\ jobs["apply"] # "absent" => jobs["plan"] = "finished"
  /\ jobs["plan"] = "finished" =>
       PlanStored(store) /\ (op.job = "plan" => op.at = "ended")
  /\ jobs["apply"] = "finished" =>
       op.job = "apply" /\ op.at = "ended" /\ (op.changed => store.state)
  /\ op.at = "none" => op.job = "plan" /\ polls = <<>> /\ listener = "off"
  /\ listener = "polling" => polls # <<>>

ExecutionInv == TypeInv /\ Placed /\ Kept /\ Late /\ InTurn

\* The run starts with no operation and nothing stored.
LEMMA InitInv == Init => ExecutionInv
<1> SUFFICES ASSUME Init PROVE ExecutionInv
  OBVIOUS
<1>1. Job = {"plan", "apply"} /\ Remote \subseteq BOOLEAN /\ Kube \subseteq BOOLEAN
  BY ExecutionAssumption
<1>2. SignalInv /\ polls = <<>> /\ panicked = FALSE
  BY SignalInitInv DEF Init, SignalInit
<1>3. op = Idle("plan") /\ op \in OpRow
  BY <1>1 DEF Init, Idle, OpRow
<1>4. runner \in RunnerRow /\ runner.at = "waiting"
  BY DEF Init, RunnerRow
<1>5. wd \in WorkDir /\ store \in StoreRow
  BY DEF Init, WorkDir, StoreRow, MaybeVersion, Emptied
<1>6. jobs \in [Job -> JobStatus] /\ jobs["plan"] = "allocated" /\ jobs["apply"] = "absent"
  BY <1>1 DEF Init, JobStatus, JobLive
<1>7. TypeInv
  BY <1>1, <1>2, <1>3, <1>4, <1>5, <1>6 DEF TypeInv, Init
<1>8. Placed /\ Kept /\ Late
  BY <1>3 DEF Placed, Kept, Late, Idle
<1>9. InTurn
  BY <1>1, <1>2, <1>3, <1>4, <1>6 DEF InTurn, SpawnsOnce, Idle, Unspawned, Init
<1> QED BY <1>7, <1>8, <1>9 DEF ExecutionInv

\* The operation is canceled by the end of its runner.
Warned == op' = [Canceled(FALSE) EXCEPT !.warned = TRUE]

\* cancel marks the operation and tells its process.
LEMMA CancelMarks ==
  ASSUME op \in OpRow, Warned \/ \E force \in BOOLEAN : Cancel(force)
  PROVE  /\ op' \in OpRow /\ op'.canceled
         /\ op'.job = op.job /\ op'.at = op.at /\ op'.step = op.step
         /\ op'.alive = op.alive /\ op'.err = op.err /\ op'.changed = op.changed
         /\ op'.saveFailed = op.saveFailed /\ op'.lateStarts = op.lateStarts
         /\ op'.report = op.report
<1> DEFINE Marks(row) ==
      /\ row \in OpRow /\ row.canceled
      /\ row.job = op.job /\ row.at = op.at /\ row.step = op.step
      /\ row.alive = op.alive /\ row.err = op.err /\ row.changed = op.changed
      /\ row.saveFailed = op.saveFailed /\ row.lateStarts = op.lateStarts
      /\ row.report = op.report
<1>1. ASSUME NEW force \in BOOLEAN
      PROVE  Marks(Canceled(force))
  <2> DEFINE done == op.ctxDone \/ force
             told == op.told \/ op.alive
             killed == op.killed \/ (force /\ op.alive)
  <2>1. done \in BOOLEAN /\ told \in BOOLEAN /\ killed \in BOOLEAN
    BY DEF OpRow
  <2>2. Canceled(force) = [op EXCEPT !.canceled = TRUE, !.ctxDone = done, !.told = told, !.killed = killed]
    BY DEF Canceled
  <2> HIDE DEF done, told, killed
  <2> QED BY <2>1, <2>2 DEF OpRow
<1>2. CASE Warned
  <2> DEFINE row == Canceled(FALSE)
  <2>1. Marks(row)
    BY <1>1
  <2>2. op' = [row EXCEPT !.warned = TRUE]
    BY <1>2 DEF Warned
  <2> HIDE DEF row
  <2> QED BY <2>1, <2>2 DEF OpRow
<1>3. ASSUME NEW force \in BOOLEAN, Cancel(force)
      PROVE  Marks(op')
  BY <1>1, <1>3 DEF Cancel
<1> QED BY <1>2, <1>3

\* The steps that neither the operation nor the jobs take part in, but for the
\* marks of a cancelation.
LEMMA AsideInv ==
  ASSUME ExecutionInv, SignalInv', panicked => panicked',
         (polls = <<>> <=> polls' = <<>>) \/ (listener = "subscribing" /\ polls' # <<>>),
         UNCHANGED <<remote, kube, cancelSignaled, jobs, runner, stopping, wd, store>>,
         op' = op \/ Warned \/ (\E force \in BOOLEAN : Cancel(force)),
         listener' \in {"off", "subscribing", "polling"},
         listener' = "polling" => listener = "polling" \/ polls' # <<>>,
         listener = "off" => listener' = "off"
  PROVE  ExecutionInv'
<1>1. op \in OpRow
  BY DEF ExecutionInv, TypeInv
<1>2. /\ op' \in OpRow /\ (op.canceled => op'.canceled)
      /\ op'.job = op.job /\ op'.at = op.at /\ op'.step = op.step
      /\ op'.alive = op.alive /\ op'.err = op.err /\ op'.changed = op.changed
      /\ op'.saveFailed = op.saveFailed /\ op'.lateStarts = op.lateStarts
      /\ op'.report = op.report
  BY <1>1, CancelMarks
<1>3. Step' = Step /\ LastStep' = LastStep
  BY <1>2 DEF Step, LastStep
<1>4. TypeInv'
  BY <1>2 DEF ExecutionInv, TypeInv
<1>5. Placed'
  BY <1>2, <1>3 DEF ExecutionInv, Placed
<1>6. Kept'
  BY <1>2, <1>3 DEF ExecutionInv, Kept
<1>7. Late'
  BY <1>2 DEF ExecutionInv, Late
<1>8. InTurn'
  BY <1>2 DEF ExecutionInv, InTurn, SpawnsOnce, Unspawned
<1> QED BY <1>4, <1>5, <1>6, <1>7, <1>8 DEF ExecutionInv

\* The polls of an operation end with it.
LEMMA EndContextTyped ==
  ASSUME NEW rows \in Seq(PollRow)
  PROVE  EndContext(rows) \in Seq(PollRow) /\ Len(EndContext(rows)) = Len(rows)
<1> DEFINE ended(p) == IF rows[p].job = op.job THEN [rows[p] EXCEPT !.done = TRUE]
                       ELSE rows[p]
           new == [p \in DOMAIN rows |-> ended(p)]
<1>1. \A p \in DOMAIN rows : rows[p] \in PollRow
  BY ElementOfSeq, LenProperties
<1>2. \A p \in DOMAIN rows : ended(p) \in PollRow
  BY <1>1 DEF PollRow
<1> HIDE DEF ended
<1>3. \A p \in DOMAIN rows : new[p] \in PollRow
  BY <1>2
<1>4. new = [p \in DOMAIN rows |-> new[p]]
  OBVIOUS
<1> HIDE DEF new
<1>5. new \in Seq(PollRow) /\ Len(new) = Len(rows)
  BY <1>3, <1>4, RowsTyped
<1>6. CASE remote
  BY <1>6 DEF EndContext
<1>7. CASE ~remote
  BY <1>5, <1>7 DEF EndContext, new, ended
<1> QED BY <1>6, <1>7

\* The latest poll is over.
LEMMA TakenTyped ==
  ASSUME SignalInv, polls # <<>>, NEW rows, rows = [polls EXCEPT ![Latest].answer = "taken"]
  PROVE  rows \in Seq(PollRow) /\ Len(rows) = Len(polls)
<1>1. polls \in Seq(PollRow) /\ Latest \in 1..Len(polls)
  <2>1. polls \in Seq(PollRow)
    BY DEF SignalInv, SignalTypeOK
  <2>2. Len(polls) \in Nat \ {0}
    BY <2>1, EmptySeq
  <2> QED BY <2>1, <2>2 DEF Latest
<1>2. polls[Latest] \in PollRow
  BY <1>1, ElementOfSeq
<1>3. [polls[Latest] EXCEPT !.answer = "taken"] \in PollRow
  BY <1>2 DEF PollRow, Answers
<1> QED BY <1>1, <1>3, ExceptSeq

\* What the goroutine that awaits signals does, and the signaler.
LEMMA ListenerInv ==
  ASSUME ExecutionInv,
         Subscribe \/ Answered \/ PollBreaks \/ SignalerStep
         \/ (\E p \in Poll : ServerNotices(p))
  PROVE  ExecutionInv'
<1>1. /\ SignalInv /\ op \in OpRow /\ op.job \in Job /\ polls \in Seq(PollRow)
      /\ listener \in {"off", "subscribing", "polling"}
      /\ listener = "polling" => polls # <<>>
  BY DEF ExecutionInv, TypeInv, InTurn, OpRow, SignalInv, SignalTypeOK
<1>2. ASSUME NEW rows \in Seq(PollRow), Len(rows) = Len(polls)
      PROVE  polls = <<>> <=> rows = <<>>
  BY <1>1, <1>2, EmptySeq
<1>3. ASSUME polls' \in Seq(PollRow), Len(polls') = Len(polls),
             UNCHANGED <<notices, subscribers, relay, panicked>>
      PROVE  SignalInv' /\ (polls = <<>> <=> polls' = <<>>)
  BY <1>1, <1>2, <1>3, RowsInv DEF SignalInv, SignalTypeOK
<1>4. CASE Subscribe
  <2>1. CASE op.ctxDone
    BY <1>1, <1>4, <2>1, AsideInv DEF Subscribe, ListenerStep, runVars, runnerVars,
      signalVars, SignalInv, SignalTypeOK
  <2>2. CASE ~op.ctxDone
    <3>1. awaitJobSignal(op.job) /\ listener' = "polling" /\ UNCHANGED op /\ ListenerStep
      BY <1>4, <2>2 DEF Subscribe
    <3>2. SignalInv' /\ polls' # <<>> /\ UNCHANGED panicked /\ listener = "subscribing"
      BY <1>1, <1>4, <3>1, AwaitSignalInv DEF awaitJobSignal, Subscribe
    <3> QED BY <3>1, <3>2, AsideInv DEF ListenerStep, runVars, runnerVars
  <2> QED BY <2>1, <2>2
<1>5. CASE Answered
  <2> DEFINE answer == polls[Latest].answer
             rows == [polls EXCEPT ![Latest].answer = "taken"]
  <2>1. /\ listener = "polling" /\ listener' \in {"off", "subscribing"}
        /\ op' = op \/ Cancel(answer = "kill")
        /\ polls' = IF answer = "kill" THEN EndContext(rows) ELSE rows
        /\ UNCHANGED <<notices, subscribers, relay, panicked>> /\ ListenerStep
    BY <1>5 DEF Answered
  <2>2. rows \in Seq(PollRow) /\ Len(rows) = Len(polls)
    BY <1>1, <2>1, TakenTyped
  <2> HIDE DEF rows, answer
  <2>3. polls' \in Seq(PollRow) /\ Len(polls') = Len(polls)
    BY <2>1, <2>2, EndContextTyped
  <2>4. op' = op \/ \E force \in BOOLEAN : Cancel(force)
    <3>1. (answer = "kill") \in BOOLEAN
      OBVIOUS
    <3> QED BY <2>1, <3>1
  <2>5. SignalInv' /\ (polls = <<>> <=> polls' = <<>>)
    BY <1>3, <2>1, <2>3
  <2> QED BY <2>1, <2>4, <2>5, AsideInv DEF ListenerStep, runVars, runnerVars
<1>6. CASE PollBreaks
  <2>1. /\ listener = "polling" /\ listener' \in {"off", "subscribing"}
        /\ polls' = [polls EXCEPT ![Latest].answer = "taken"]
        /\ UNCHANGED <<notices, subscribers, relay, panicked, op>> /\ ListenerStep
    BY <1>6 DEF PollBreaks
  <2>2. polls' \in Seq(PollRow) /\ Len(polls') = Len(polls)
    BY <1>1, <2>1, TakenTyped
  <2>3. SignalInv' /\ (polls = <<>> <=> polls' = <<>>)
    BY <1>3, <2>1, <2>2
  <2> QED BY <2>1, <2>3, AsideInv DEF ListenerStep, runVars, runnerVars
<1>7. ASSUME NEW p \in Poll, ServerNotices(p) PROVE ExecutionInv'
  <2>1. p \in 1..Len(polls) /\ polls[p] \in PollRow
    BY <1>1, <1>7, ElementOfSeq, LenProperties DEF ServerNotices
  <2>2. [polls[p] EXCEPT !.done = TRUE] \in PollRow
    BY <2>1 DEF PollRow
  <2>3. /\ polls' = [polls EXCEPT ![p].done = TRUE]
        /\ UNCHANGED <<notices, subscribers, relay, panicked, op, listener>> /\ ListenerStep
    BY <1>7 DEF ServerNotices, ContextEnds
  <2>4. polls' \in Seq(PollRow) /\ Len(polls') = Len(polls)
    BY <1>1, <2>1, <2>2, <2>3, ExceptSeq
  <2>5. SignalInv' /\ (polls = <<>> <=> polls' = <<>>)
    BY <1>3, <2>3, <2>4
  <2> QED BY <1>1, <2>3, <2>5, AsideInv DEF ListenerStep, runVars, runnerVars
<1>8. CASE SignalerStep
  <2>1. /\ RelayLookUp \/ RelayUnsubscribe
           \/ \E p \in Poll : WatcherUnsubscribes(p) \/ Receive(p)
        /\ UNCHANGED <<op, listener>> /\ ListenerStep
    BY <1>8 DEF SignalerStep
  <2>2. SignalInv' /\ Len(polls') = Len(polls) /\ UNCHANGED panicked
    <3>1. CASE RelayLookUp
      BY <1>1, <3>1, RelayLookUpInv DEF RelayLookUp
    <3>2. CASE ~RelayLookUp
      <4>1. SignalInv' /\ Len(polls') = Len(polls)
        BY <1>1, <2>1, <3>2, SignalerInv
      <4>2. UNCHANGED panicked
        BY <2>1, <3>2 DEF RelayUnsubscribe, WatcherUnsubscribes, Receive
      <4> QED BY <4>1, <4>2
    <3> QED BY <3>1, <3>2
  <2>3. polls = <<>> <=> polls' = <<>>
    BY <1>2, <2>2 DEF SignalInv, SignalTypeOK
  <2> QED BY <1>1, <2>1, <2>2, <2>3, AsideInv DEF ListenerStep, runVars, runnerVars
<1> QED BY <1>4, <1>5, <1>6, <1>7, <1>8

\* Steps that leave the operation and what it has made alone.
LEMMA OpStays ==
  ASSUME ExecutionInv, UNCHANGED <<op, wd, store, panicked>>
  PROVE  Placed' /\ Kept' /\ Late'
<1>1. Step' = Step /\ LastStep' = LastStep
  BY DEF Step, LastStep
<1>2. Placed'
  BY <1>1 DEF ExecutionInv, Placed
<1>3. Kept'
  BY <1>1 DEF ExecutionInv, Kept
<1>4. Late'
  BY DEF ExecutionInv, Late
<1> QED BY <1>2, <1>3, <1>4

\* What users and the scheduler do to the jobs.
LEMMA ServerInv ==
  ASSUME ExecutionInv, EnqueueApply \/ (\E j \in Job : CancelRun(j) \/ ForceCancelRun(j))
  PROVE  ExecutionInv'
<1>1. /\ SignalInv /\ jobs \in [Job -> JobStatus] /\ Job = {"plan", "apply"}
      /\ InTurn /\ runner \in RunnerRow
  BY ExecutionAssumption DEF ExecutionInv, TypeInv
<1>2. CASE EnqueueApply
  <2>1. /\ jobs["plan"] = "finished" /\ jobs["apply"] = "absent"
        /\ jobs' = [jobs EXCEPT !["apply"] = "allocated"]
        /\ UNCHANGED <<signalVars, remote, kube, cancelSignaled, runnerVars, opVars, store>>
    BY <1>2 DEF EnqueueApply
  <2>2. /\ jobs' \in [Job -> JobStatus] /\ jobs'["plan"] = "finished"
        /\ jobs'["apply"] = "allocated"
    BY <1>1, <2>1 DEF JobStatus, JobLive
  <2>3. TypeInv'
    BY <2>1, <2>2 DEF ExecutionInv, TypeInv, runnerVars, opVars, signalVars,
      SignalInv, SignalTypeOK
  <2>4. op.job = "plan"
    <3>1. op.job \in Job
      BY DEF ExecutionInv, TypeInv, OpRow
    <3> QED BY <1>1, <2>1, <3>1 DEF InTurn
  <2>5. InTurn'
    <3>1. SpawnsOnce'
      <4>1. CASE runner.at \in {"spawning", "secret", "kjob"}
        <5>1. runner.job \in Job
          BY <1>1, <4>1 DEF RunnerRow
        <5> QED BY <1>1, <2>1, <2>2, <2>4, <4>1, <5>1 DEF InTurn, SpawnsOnce, Unspawned, runnerVars, opVars
      <4>2. CASE runner.at \notin {"spawning", "secret", "kjob"}
        BY <2>1, <4>2 DEF SpawnsOnce, runnerVars
      <4> QED BY <4>1, <4>2
    <3>2. \A j \in Job : jobs'[j] = "allocated" => Unspawned(j)'
      BY <1>1, <2>1, <2>2, <2>4 DEF Unspawned, opVars
    <3> QED BY <1>1, <2>1, <2>2, <3>1, <3>2 DEF InTurn, opVars, signalVars
  <2> QED BY <2>1, <2>3, <2>5, OpStays DEF ExecutionInv, opVars, signalVars
<1>3. ASSUME NEW j \in Job, CancelRun(j) \/ ForceCancelRun(j) PROVE ExecutionInv'
  <2>1. /\ jobs[j] \in JobLive
        /\ jobs' = jobs \/ jobs' = [jobs EXCEPT ![j] = "canceled"]
        /\ cancelSignaled' \in {TRUE, cancelSignaled}
        /\ UNCHANGED <<subscribers, polls, relay, panicked, remote, kube, runnerVars,
                       opVars, store>>
    BY <1>3 DEF CancelRun, ForceCancelRun, JobLive
  <2>2. SignalInv'
    <3>1. publish(j, FALSE) \/ publish(j, TRUE) \/ UNCHANGED notices
      BY <1>3 DEF CancelRun, ForceCancelRun
    <3>2. CASE UNCHANGED notices
      BY <1>1, <2>1, <3>2 DEF SignalInv, SignalTypeOK
    <3> QED BY <1>1, <2>1, <3>1, <3>2, PublishInv
  <2>3. /\ jobs' \in [Job -> JobStatus]
        /\ \A i \in Job : jobs'[i] = jobs[i]
                          \/ (jobs[i] \in JobLive /\ jobs'[i] = "canceled")
    BY <1>1, <2>1 DEF JobStatus, JobDone
  <2>4. TypeInv'
    BY <2>1, <2>2, <2>3 DEF ExecutionInv, TypeInv, runnerVars, opVars
  <2>5. InTurn'
    <3>1. SpawnsOnce'
      <4>1. CASE runner.at \in {"spawning", "secret", "kjob"}
        <5>1. runner.job \in Job
          BY <1>1, <4>1 DEF RunnerRow
        <5> QED BY <1>1, <2>1, <2>3, <4>1, <5>1 DEF InTurn, SpawnsOnce, Unspawned, runnerVars, opVars
      <4>2. CASE runner.at \notin {"spawning", "secret", "kjob"}
        BY <2>1, <4>2 DEF SpawnsOnce, runnerVars
      <4> QED BY <4>1, <4>2
    <3>2. \A i \in Job : jobs'[i] = "allocated" => Unspawned(i)'
      BY <1>1, <2>1, <2>3 DEF InTurn, SpawnsOnce, Unspawned, opVars
    <3>3. /\ jobs'["plan"] = "finished" <=> jobs["plan"] = "finished"
          /\ jobs'["apply"] = "finished" <=> jobs["apply"] = "finished"
          /\ jobs'["apply"] = "absent" <=> jobs["apply"] = "absent"
      BY <1>1, <2>3 DEF JobLive
    <3> QED BY <1>1, <2>1, <3>1, <3>2, <3>3 DEF InTurn, opVars
  <2> QED BY <2>1, <2>4, <2>5, OpStays DEF ExecutionInv, opVars
<1> QED BY <1>2, <1>3

\* The loop of the runner up to the point where it spawns an operation.
LEMMA RunnerInv ==
  ASSUME ExecutionInv,
         \/ \E j \in Job : AwaitAllocatedJobs(j)
         \/ StartJob \/ RunnerStop \/ RunnerExits \/ RunnerCancelsOp
  PROVE  ExecutionInv'
<1>1. /\ SignalInv /\ jobs \in [Job -> JobStatus] /\ Job = {"plan", "apply"}
      /\ InTurn /\ runner \in RunnerRow /\ op \in OpRow
      /\ listener \in {"off", "subscribing", "polling"}
      /\ listener = "polling" => polls # <<>>
  BY ExecutionAssumption DEF ExecutionInv, TypeInv, InTurn
<1>2. RunnerStep /\ polls' = polls => SignalInv'
  BY <1>1 DEF RunnerStep, SignalInv, SignalTypeOK
<1>3. ASSUME RunnerStep, UNCHANGED <<polls, jobs, opVars>>, stopping' \in BOOLEAN,
             \/ runner' = runner \/ runner' = [at |-> "waiting"]
             \/ runner' = [at |-> "stopped"]
             \/ \E j \in Job : runner' = [at |-> "starting", job |-> j]
      PROVE  ExecutionInv'
  <2>1. runner' \in RunnerRow
    BY <1>1, <1>3 DEF RunnerRow
  <2>2. runner' = runner \/ runner'.at \notin {"spawning", "secret", "kjob"}
    BY <1>3
  <2>3. TypeInv'
    BY <1>2, <1>3, <2>1 DEF ExecutionInv, TypeInv, RunnerStep, opVars
  <2>4. InTurn'
    BY <1>1, <1>3, <2>2 DEF InTurn, SpawnsOnce, Unspawned, RunnerStep, opVars
  <2> QED BY <1>3, <2>3, <2>4, OpStays DEF ExecutionInv, RunnerStep, opVars
<1>4. CASE \E j \in Job : AwaitAllocatedJobs(j)
  <2>1. stopping \in BOOLEAN
    BY DEF ExecutionInv, TypeInv
  <2> QED BY <1>3, <1>4, <2>1 DEF AwaitAllocatedJobs
<1>5. CASE StartJob
  <2>1. /\ runner.at = "starting" /\ RunnerStep /\ UNCHANGED <<polls, stopping, opVars>>
        /\ stopping \in BOOLEAN
    BY <1>5 DEF StartJob, ExecutionInv, TypeInv
  <2>2. runner.job \in Job
    BY <1>1, <2>1 DEF RunnerRow
  <2> DEFINE j == runner.job
  <2>3. CASE UNCHANGED jobs /\ runner' = [at |-> "waiting"]
    BY <1>3, <2>1, <2>3
  <2>4. CASE /\ jobs[j] = "allocated" /\ jobs' = [jobs EXCEPT ![j] = "running"]
             /\ \/ runner' = [at |-> IF kube THEN "secret" ELSE "spawning", job |-> j]
                \/ runner' = [at |-> "waiting"]
    <3>1. /\ jobs' \in [Job -> JobStatus] /\ jobs'[j] = "running"
          /\ \A i \in Job : i # j => jobs'[i] = jobs[i]
      BY <1>1, <2>2, <2>4 DEF JobStatus, JobLive
    <3>2. /\ runner' \in RunnerRow
          /\ runner'.at \in {"spawning", "secret", "kjob"} => runner'.job = j
      <4>1. CASE runner' = [at |-> "waiting"]
        BY <4>1 DEF RunnerRow
      <4>2. CASE runner' = [at |-> IF kube THEN "secret" ELSE "spawning", job |-> j]
        BY <2>2, <4>2 DEF RunnerRow
      <4> QED BY <2>4, <4>1, <4>2
    <3>3. Unspawned(j) /\ UNCHANGED op
      BY <1>1, <2>1, <2>2, <2>4 DEF InTurn, opVars
    <3>4. TypeInv'
      BY <1>2, <2>1, <3>1, <3>2 DEF ExecutionInv, TypeInv, RunnerStep, opVars
    <3>5. InTurn'
      <4> HIDE DEF j
      <4>1. SpawnsOnce'
        BY <2>2, <3>1, <3>2, <3>3 DEF SpawnsOnce, Unspawned
      <4>2. \A i \in Job : jobs'[i] = "allocated" => Unspawned(i)'
        BY <1>1, <2>2, <3>1, <3>3 DEF InTurn, SpawnsOnce, Unspawned
      <4>3. /\ jobs'["plan"] = "finished" => jobs["plan"] = "finished"
            /\ jobs'["apply"] = "finished" => jobs["apply"] = "finished"
            /\ jobs'["apply"] # "absent" <=> jobs["apply"] # "absent"
            /\ jobs["plan"] = "finished" => jobs'["plan"] = "finished"
        BY <1>1, <2>2, <2>4, <3>1 DEF j
      <4> QED BY <1>1, <2>1, <3>3, <4>1, <4>2, <4>3 DEF InTurn, RunnerStep, opVars
    <3> QED BY <2>1, <3>4, <3>5, OpStays DEF ExecutionInv, RunnerStep, opVars
  <2> QED BY <1>5, <2>3, <2>4 DEF StartJob
<1>6. CASE RunnerStop
  BY <1>3, <1>6 DEF RunnerStop
<1>7. CASE RunnerExits
  <2>1. stopping \in BOOLEAN
    BY DEF ExecutionInv, TypeInv
  <2> QED BY <1>3, <1>7, <2>1 DEF RunnerExits
<1>8. CASE RunnerCancelsOp
  <2>1. Warned /\ RunnerStep /\ UNCHANGED <<polls, jobs, runnerVars, listener, wd>>
    BY <1>8 DEF RunnerCancelsOp, Warned
  <2> QED BY <1>1, <1>2, <2>1, AsideInv DEF RunnerStep, runnerVars
<1> QED BY <1>4, <1>5, <1>6, <1>7, <1>8

\* An operation begins in an empty directory, with the plan on the server if
\* it is an apply.
LEMMA SpawnInv ==
  ASSUME ExecutionInv, SpawnFork \/ SpawnKube
  PROVE  ExecutionInv'
<1>1. /\ SignalInv /\ jobs \in [Job -> JobStatus] /\ Job = {"plan", "apply"}
      /\ InTurn /\ runner \in RunnerRow /\ polls \in Seq(PollRow)
  BY ExecutionAssumption DEF ExecutionInv, TypeInv, SignalInv, SignalTypeOK
<1>2. RunnerStep /\ UNCHANGED <<jobs, stopping>>
  BY DEF SpawnFork, SpawnKube
<1>3. CASE UNCHANGED <<polls, opVars>>
  <2>1. /\ runner.at \in {"spawning", "secret", "kjob", "owner"}
        /\ \/ runner.at = "secret" /\ runner' = [runner EXCEPT !.at = "kjob"]
           \/ runner' = [at |-> "waiting"]
           \/ runner.at = "kjob" /\ runner' = [runner EXCEPT !.at = "owner"]
    BY DEF SpawnFork, SpawnKube
  <2>2. runner \in [at : {"spawning", "secret", "kjob", "owner"}, job : Job]
    BY <1>1, <2>1 DEF RunnerRow
  <2>3. /\ runner' \in RunnerRow
        /\ runner'.at \in {"spawning", "secret", "kjob"} =>
             runner.at = "secret" /\ runner'.job = runner.job
    <3>1. CASE runner' = [at |-> "waiting"]
      BY <3>1 DEF RunnerRow
    <3>2. CASE runner.at = "secret" /\ runner' = [runner EXCEPT !.at = "kjob"]
      BY <2>2, <3>2 DEF RunnerRow
    <3>3. CASE runner' = [runner EXCEPT !.at = "owner"]
      BY <2>2, <3>3 DEF RunnerRow
    <3> QED BY <2>1, <3>1, <3>2, <3>3
  <2>4. TypeInv'
    BY <1>1, <1>2, <1>3, <2>3 DEF ExecutionInv, TypeInv, RunnerStep, opVars, SignalInv,
      SignalTypeOK
  <2>5. SpawnsOnce'
    BY <1>1, <1>2, <1>3, <2>3 DEF InTurn, SpawnsOnce, Unspawned, opVars
  <2>6. InTurn'
    BY <1>1, <1>2, <1>3, <2>5 DEF InTurn, Unspawned, RunnerStep, opVars
  <2> QED BY <1>2, <1>3, <2>4, <2>6, OpStays DEF ExecutionInv, RunnerStep, opVars
<1>4. CASE /\ runner.at \in {"spawning", "kjob"} /\ Spawned(runner.job)
           /\ \/ runner' = [at |-> "waiting"]
              \/ runner' = [runner EXCEPT !.at = "owner"]
  <2> DEFINE j == runner.job
             new == [p \in DOMAIN polls |->
                       [polls[p] EXCEPT !.answer = "taken", !.buffer = NoSignal]]
  <2>1. /\ runner \in [at : {"spawning", "kjob"}, job : Job] /\ j \in Job
        /\ jobs[j] \notin {"absent", "allocated"} /\ Unspawned(j)
    BY <1>1, <1>4 DEF RunnerRow, InTurn, SpawnsOnce
  <2>2. /\ op' = [Idle(j) EXCEPT !.at = "begin"] /\ polls' = new
        /\ listener' = "subscribing" /\ wd' = Emptied
    BY <1>4 DEF Spawned
  <2>3. /\ runner' \in RunnerRow /\ runner'.at \in {"waiting", "owner"}
    <3> HIDE DEF j, new
    <3>1. CASE runner' = [at |-> "waiting"]
      BY <3>1 DEF RunnerRow
    <3>2. CASE runner' = [runner EXCEPT !.at = "owner"]
      BY <2>1, <3>2 DEF RunnerRow
    <3> QED BY <1>4, <3>1, <3>2
  <2>4. new \in Seq(PollRow) /\ Len(new) = Len(polls)
    <3>1. \A p \in DOMAIN polls : polls[p] \in PollRow
      BY <1>1, ElementOfSeq, LenProperties
    <3>2. \A p \in DOMAIN polls : new[p] \in PollRow
      BY <3>1 DEF PollRow, Answers, NoSignal
    <3>3. new = [p \in DOMAIN polls |-> new[p]]
      OBVIOUS
    <3> HIDE DEF new
    <3> QED BY <1>1, <3>2, <3>3, RowsTyped
  <2> HIDE DEF j, new
  <2>5. SignalInv'
    BY <1>1, <1>2, <2>2, <2>4, RowsInv DEF RunnerStep, SignalInv, SignalTypeOK
  <2>6. /\ op' \in OpRow /\ op'.job = j /\ op'.at = "begin" /\ op'.step = 1
        /\ ~op'.alive /\ ~op'.changed /\ ~op'.canceled /\ op'.lateStarts = 0
    <3> DEFINE begun == [Idle(j) EXCEPT !.at = "begin"]
    <3>1. Idle(j) \in OpRow
      BY <2>1 DEF Idle, OpRow
    <3>2. /\ begun \in OpRow /\ begun.job = j /\ begun.at = "begin" /\ begun.step = 1
          /\ ~begun.alive /\ ~begun.changed /\ ~begun.canceled /\ begun.lateStarts = 0
      <4> DEFINE row == Idle(j)
      <4>1. /\ row.job = j /\ row.step = 1 /\ row.lateStarts = 0
            /\ ~row.alive /\ ~row.changed /\ ~row.canceled
        BY DEF Idle
      <4> HIDE DEF row
      <4> QED BY <3>1, <4>1 DEF OpRow, row
    <3>3. op' = begun
      BY <2>2 DEF begun
    <3> QED BY <3>1, <3>2, <3>3
  <2>7. TypeInv'
    BY <1>2, <2>2, <2>3, <2>5, <2>6 DEF ExecutionInv, TypeInv, RunnerStep, Emptied, WorkDir,
      MaybeVersion
  <2>8. j = "apply" => PlanStored(store) /\ jobs["plan"] = "finished"
    BY <1>1, <2>1 DEF InTurn
  <2>9. Placed'
    <3>1. Shift \in {0, 1}
      BY DEF Shift
    <3>2. 1 \in 1..Len(Steps(j))
      <4>1. 1 \in 1..(12 + Shift) /\ 1 \in 1..(14 + Shift)
        BY <3>1
      <4>2. Len(Steps(j)) = 12 + Shift \/ Len(Steps(j)) = 14 + Shift
        BY <1>1, <2>1, StepsTable
      <4> QED BY <4>1, <4>2
    <3>3. LastStep' = Len(Steps(j))
      BY <2>6 DEF LastStep
    <3>4. Ready(Emptied, store, 1, j)
      BY <2>8, <3>1 DEF Ready, Prepared, Planned, Fetched, Emptied
    <3>5. store' = store
      BY <1>2 DEF RunnerStep
    <3> QED BY <2>2, <2>6, <3>2, <3>3, <3>4, <3>5 DEF Placed
  <2>10. Kept' /\ Late'
    BY <2>6 DEF Kept, Late
  <2>11. SpawnsOnce'
    BY <2>3 DEF SpawnsOnce
  <2>12. InTurn'
    <3>1. UNCHANGED <<jobs, store>>
      BY <1>2 DEF RunnerStep
    <3>2. jobs["apply"] # "finished"
      BY <1>1, <2>1 DEF InTurn, Unspawned
    <3>3. CASE j = "plan"
      <4>1. jobs["plan"] \notin {"finished", "allocated"} /\ jobs["apply"] = "absent"
        BY <1>1, <2>1, <3>3 DEF InTurn, Unspawned
      <4> QED BY <1>1, <2>2, <2>6, <2>11, <3>1, <3>2, <3>3, <4>1 DEF InTurn
    <3>4. CASE j = "apply"
      <4>1. jobs["apply"] \notin {"absent", "allocated"} /\ jobs["plan"] = "finished"
        BY <2>1, <2>8, <3>4
      <4> QED BY <1>1, <2>2, <2>6, <2>8, <2>11, <3>1, <3>2, <3>4, <4>1 DEF InTurn
    <3> QED BY <1>1, <2>1, <3>3, <3>4
  <2> QED BY <2>7, <2>9, <2>10, <2>12 DEF ExecutionInv
<1> QED BY <1>3, <1>4 DEF SpawnFork, SpawnKube

\* A step that succeeds leaves what the next one is to find, and the last step
\* of a plan the plan on the server.
LEMMA StepDone ==
  ASSUME ExecutionInv, op.at \in {"check", "engine"}, Step # "apply",
         NEW v, Step = "init" => v \in Version,
         wd' = Result(Step, v), store' = Stored(Step)
  PROVE  /\ wd' \in WorkDir /\ store' \in StoreRow /\ store'.state = store.state
         /\ op.job = "apply" => store' = store
         /\ op.step # LastStep => Ready(wd', store', op.step + 1, op.job)
         /\ op.step = LastStep => op.job = "plan" /\ PlanStored(store')
<1> DEFINE k == op.step
           phase == op.job
<1>1. /\ wd \in WorkDir /\ store \in StoreRow /\ phase \in {"plan", "apply"}
      /\ phase \in Job /\ k \in 1..LastStep /\ Ready(wd, store, k, phase)
  BY ExecutionAssumption DEF ExecutionInv, TypeInv, Placed, OpRow
<1>2. Shift \in {0, 1} /\ (PluginCache <=> Shift = 1)
  BY ExecutionAssumption DEF Shift
<1>3. /\ phase = "plan" => LastStep = 14 + Shift
      /\ phase = "apply" => LastStep = 12 + Shift
      /\ Step = Steps(phase)[k]
  BY StepsTable DEF LastStep, Step
<1>4. phase = "apply" => k # 12 + Shift
  BY <1>3, StepsTable
<1> HIDE DEF phase, k
<1>5. ASSUME k < 9 + Shift
      PROVE  wd' \in WorkDir /\ store' = store /\ Ready(wd', store', k + 1, phase)
  <2>1. k \in 1..8 \/ (k = 9 /\ PluginCache)
    <3>1. k \in Int /\ k >= 1
      BY <1>1, <1>2, <1>3
    <3> QED BY <1>2, <1>5, <3>1
  <2>2. CASE k \in 1..8
    BY <1>1, <1>3, <2>2, PrepareStepDone
  <2>3. CASE k = 9 /\ PluginCache
    <3>1. 9 + 1 = 10
      OBVIOUS
    <3> QED BY <1>1, <1>3, <2>3, <3>1, CacheStepDone
  <2> QED BY <2>1, <2>2, <2>3
<1>6. ASSUME k >= 9 + Shift, phase = "plan"
      PROVE  /\ wd' \in WorkDir /\ store' \in StoreRow /\ store'.state = store.state
             /\ Ready(wd', store', k + 1, phase)
  <2>1. k \in (9 + Shift)..(14 + Shift)
    BY <1>1, <1>2, <1>3, <1>6
  <2>2. k = 9 + Shift => v \in Version
    BY <1>3, <1>6, StepsTable
  <2>3. Ready(wd, store, k, "plan") /\ wd' = Result(Steps("plan")[k], v)
        /\ store' = Stored(Steps("plan")[k])
    BY <1>1, <1>3, <1>6
  <2> QED BY <1>1, <1>6, <2>1, <2>2, <2>3, PlanStepDone
<1>7. ASSUME k >= 9 + Shift, phase = "apply"
      PROVE  wd' \in WorkDir /\ store' = store /\ Ready(wd', store', k + 1, phase)
  <2>1. k \in (9 + Shift)..(11 + Shift)
    BY <1>1, <1>2, <1>3, <1>4, <1>7
  <2>2. Ready(wd, store, k, "apply") /\ wd' = Result(Steps("apply")[k], v)
        /\ store' = Stored(Steps("apply")[k])
    BY <1>1, <1>3, <1>7
  <2> QED BY <1>1, <1>7, <2>1, <2>2, ApplyStepDone
<1>8. /\ wd' \in WorkDir /\ store' \in StoreRow /\ store'.state = store.state
      /\ phase = "apply" => store' = store
      /\ Ready(wd', store', k + 1, phase)
  <2>1. k < 9 + Shift \/ k >= 9 + Shift
    BY <1>1, <1>2, <1>3
  <2> QED BY <1>1, <1>5, <1>6, <1>7, <2>1
<1>9. ASSUME k = LastStep PROVE phase = "plan" /\ PlanStored(store')
  <2>1. phase = "plan" /\ k = 14 + Shift
    BY <1>1, <1>3, <1>4, <1>9
  <2>2. Planned(wd', store', k + 1)
    BY <1>8, <2>1 DEF Ready
  <2> QED BY <1>2, <2>1, <2>2 DEF Planned, PlanStored
<1> QED BY <1>8, <1>9 DEF k, phase

\* The steps of an operation leave the rest alone.
LEMMA OpStepInv ==
  ASSUME ExecutionInv, OpStep, UNCHANGED jobs, op.at \notin {"none", "ended"},
         op' \in OpRow, op'.job = op.job, op'.at # "none",
         wd' \in WorkDir, store' \in StoreRow,
         op.job = "apply" /\ PlanStored(store) => PlanStored(store'),
         Placed', Kept', Late'
  PROVE  ExecutionInv'
<1>1. TypeInv'
  BY DEF ExecutionInv, TypeInv, OpStep, signalVars, runnerVars, SignalInv, SignalTypeOK
<1>2. op.job \in {"plan", "apply"} /\ Job = {"plan", "apply"}
  BY ExecutionAssumption DEF ExecutionInv, TypeInv, OpRow
<1>3. jobs["plan"] = "finished" => op.job = "apply"
  BY <1>2 DEF ExecutionInv, InTurn
<1>4. jobs["apply"] # "finished"
  BY DEF ExecutionInv, InTurn
<1>5. UNCHANGED <<runner, polls, listener>>
  BY DEF OpStep, runnerVars, signalVars
<1>6. InTurn'
  BY <1>2, <1>3, <1>4, <1>5 DEF ExecutionInv, InTurn, SpawnsOnce, Unspawned
<1> QED BY <1>1, <1>6 DEF ExecutionInv

\* A step fails, and the operation with it.
LEMMA FailedInv ==
  ASSUME ExecutionInv, OpStep, UNCHANGED <<jobs, wd, store>>, Failed,
         op.at \in {"begin", "check", "window", "engine"},
         op.at = "engine" => Step # "apply"
  PROVE  ExecutionInv'
<1>1. op \in OpRow /\ wd \in WorkDir /\ store \in StoreRow
  BY DEF ExecutionInv, TypeInv
<1>2. /\ op' \in OpRow /\ op'.job = op.job /\ op'.at = "report" /\ ~op'.alive /\ op'.err
      /\ op'.changed = op.changed /\ op'.canceled = op.canceled
      /\ op'.lateStarts = op.lateStarts
  <2>1. op' \in OpRow
    <3>1. 1 \in 1..20
      OBVIOUS
    <3>2. op' = [op EXCEPT !.at = "report", !.step = 1, !.err = TRUE, !.alive = FALSE]
      BY DEF Failed
    <3> QED BY <1>1, <3>1, <3>2 DEF OpRow
  <2> QED BY <1>1, <2>1 DEF Failed, OpRow
<1>3. ~op.changed
  BY DEF ExecutionInv, Kept
<1>4. Placed' /\ Kept' /\ Late'
  BY <1>2, <1>3 DEF ExecutionInv, Placed, Kept, Late
<1> QED BY <1>1, <1>2, <1>4, OpStepInv

\* A step succeeds.
LEMMA NextStepInv ==
  ASSUME ExecutionInv, OpStep, UNCHANGED jobs, NextStep, op.at \in {"check", "engine"},
         Step # "apply", NEW v, Step = "init" => v \in Version,
         wd' = Result(Step, v), store' = Stored(Step)
  PROVE  ExecutionInv'
<1>1. op \in OpRow /\ op.step \in 1..LastStep
  BY DEF ExecutionInv, TypeInv, Placed
<1>2. LastStep <= 15 /\ LastStep \in Nat
  <2>1. op.job \in {"plan", "apply"}
    BY <1>1, ExecutionAssumption DEF OpRow
  <2>2. LastStep = 14 + Shift \/ LastStep = 12 + Shift
    BY <2>1, StepsTable DEF LastStep
  <2>3. Shift \in {0, 1}
    BY DEF Shift
  <2> QED BY <2>2, <2>3
<1>3. ~op.changed
  BY DEF ExecutionInv, Kept
<1>4. /\ wd' \in WorkDir /\ store' \in StoreRow
      /\ op.job = "apply" => store' = store
      /\ op.step # LastStep => Ready(wd', store', op.step + 1, op.job)
      /\ op.step = LastStep => op.job = "plan" /\ PlanStored(store')
  BY StepDone
<1>5. CASE op.step = LastStep
  <2>1. op' = [op EXCEPT !.at = "report", !.step = 1, !.alive = FALSE]
    BY <1>5 DEF NextStep
  <2>2. op' \in OpRow
    <3>1. 1 \in 1..20
      OBVIOUS
    <3> QED BY <1>1, <2>1, <3>1 DEF OpRow
  <2>3. /\ op'.job = op.job /\ op'.at = "report" /\ ~op'.alive
        /\ op'.changed = op.changed /\ op'.canceled = op.canceled
        /\ op'.lateStarts = op.lateStarts
    BY <1>1, <2>1 DEF OpRow
  <2>4. Placed' /\ Kept' /\ Late'
    BY <1>3, <1>4, <1>5, <2>3 DEF ExecutionInv, Placed, Kept, Late
  <2> QED BY <1>4, <2>2, <2>3, <2>4, OpStepInv
<1>6. CASE op.step # LastStep
  <2>1. op' = [op EXCEPT !.at = "check", !.step = @ + 1, !.alive = FALSE]
    BY <1>6 DEF NextStep
  <2>2. op.step + 1 \in 1..LastStep /\ op.step + 1 \in 1..20
    BY <1>1, <1>2, <1>6
  <2>3. op' \in OpRow
    BY <1>1, <2>1, <2>2 DEF OpRow
  <2>4. /\ op'.job = op.job /\ op'.at = "check" /\ ~op'.alive
        /\ op'.changed = op.changed /\ op'.canceled = op.canceled
        /\ op'.lateStarts = op.lateStarts /\ op'.step = op.step + 1
    BY <1>1, <2>1 DEF OpRow
  <2>5. LastStep' = LastStep
    BY <2>4 DEF LastStep
  <2>6. Placed'
    BY <1>4, <1>6, <2>2, <2>4, <2>5 DEF Placed
  <2>7. Kept' /\ Late'
    BY <1>3, <2>4 DEF ExecutionInv, Kept, Late
  <2> QED BY <1>4, <2>3, <2>4, <2>6, <2>7, OpStepInv
<1> QED BY <1>5, <1>6

\* Steps that run the engine send nothing to the server.
LEMMA EngineStoresNothing == ASSUME Step \in Engine PROVE Stored(Step) = store
BY DEF Engine, Stored

\* The operation moves on within the same step, or to its report.
LEMMA GotoInv ==
  ASSUME ExecutionInv, OpStep, UNCHANGED <<jobs, wd>>, NEW at, Goto(at),
         \/ op.at = "begin" /\ at = "check" /\ store' = store
         \/ op.at = "check" /\ at = "window" /\ store' = store /\ Step \in Engine
            /\ ~op.canceled
         \/ op.at = "saving" /\ at = "report" /\ store' = store /\ ~op.changed
         \/ op.at = "saving" /\ at = "report" /\ store' = uploadState
  PROVE  ExecutionInv'
<1>1. op \in OpRow /\ wd \in WorkDir /\ store \in StoreRow /\ ~op.alive
  BY DEF ExecutionInv, TypeInv, Placed
<1>2. op' \in OpRow
  BY <1>1 DEF Goto, OpRow
<1>3. /\ op'.job = op.job /\ op'.at = at /\ op'.step = op.step /\ op'.alive = op.alive
      /\ op'.changed = op.changed /\ op'.canceled = op.canceled /\ op'.err = op.err
      /\ op'.lateStarts = op.lateStarts
  BY <1>1 DEF Goto, OpRow
<1>4. LastStep' = LastStep /\ Step' = Step
  BY <1>3 DEF LastStep, Step
<1>5. /\ store' \in StoreRow /\ (PlanStored(store) => PlanStored(store'))
      /\ store' = uploadState => store'.state
  <2>1. CASE store' = store
    BY <1>1, <2>1 DEF uploadState, StoreRow
  <2>2. CASE store' = uploadState
    BY <1>1, <2>2 DEF uploadState, StoreRow, PlanStored
  <2> QED BY <2>1, <2>2
<1>6. Placed'
  BY <1>1, <1>3, <1>4 DEF ExecutionInv, Placed
<1>7. Kept'
  BY <1>3, <1>4, <1>5 DEF ExecutionInv, Kept, Placed
<1>8. Late'
  BY <1>3 DEF ExecutionInv, Late
<1> QED BY <1>1, <1>2, <1>3, <1>5, <1>6, <1>7, <1>8, OpStepInv

\* The checks between the steps, and the steps that do not run the engine.
LEMMA StepInv ==
  ASSUME ExecutionInv, Begin \/ CheckStep
  PROVE  ExecutionInv'
<1>1. CASE Begin
  BY <1>1, GotoInv, FailedInv DEF Begin
<1>2. CASE CheckStep
  <2>1. op.at = "check" /\ OpStep /\ UNCHANGED jobs
    BY <1>2 DEF CheckStep
  <2>2. CASE Failed /\ UNCHANGED <<wd, store>>
    BY <2>1, <2>2, FailedInv
  <2>3. CASE ~op.canceled /\ Step \in Engine /\ Goto("window") /\ UNCHANGED <<wd, store>>
    BY <2>1, <2>3, GotoInv
  <2>4. CASE /\ Step \notin Engine /\ NextStep
             /\ wd' = Result(Step, NoVersion) /\ store' = Stored(Step)
    <3>1. Step # "apply" /\ Step # "init"
      BY <2>4 DEF Engine
    <3> QED BY <2>1, <2>4, <3>1, NextStepInv
  <2> QED BY <1>2, <2>2, <2>3, <2>4 DEF CheckStep
<1> QED BY <1>1, <1>2

\* The engine starts, writes and exits.
LEMMA EngineInv ==
  ASSUME ExecutionInv, StartProcess \/ EngineWritesState \/ EngineExits
  PROVE  ExecutionInv'
<1>1. op \in OpRow /\ wd \in WorkDir /\ store \in StoreRow /\ op.job \in {"plan", "apply"}
  BY ExecutionAssumption DEF ExecutionInv, TypeInv, OpRow
<1>2. op.at \in {"window", "engine"} /\ Step = "apply" => op.job = "apply"
  <2>1. op.at \in {"window", "engine"} => op.step \in 1..LastStep
    BY DEF ExecutionInv, Placed
  <2>2. ASSUME op.job = "plan", op.step \in 1..LastStep PROVE Step # "apply"
    <3>1. Shift \in {0, 1} /\ LastStep = 14 + Shift /\ (PluginCache <=> Shift = 1)
      BY <2>2, StepsTable, ExecutionAssumption DEF LastStep, Shift
    <3>2. \/ op.step \in 1..8 \/ (op.step = 9 /\ PluginCache)
          \/ op.step \in {9 + Shift, 10 + Shift, 11 + Shift, 12 + Shift, 13 + Shift,
                          14 + Shift}
      BY <2>2, <3>1
    <3>3. CASE op.step \in 1..8
      <4>1. Step = Prepare[op.step]
        BY <2>2, <3>3, StepsTable DEF Step
      <4> QED BY <3>3, <4>1 DEF Prepare
    <3>4. CASE op.step = 9 /\ PluginCache
      BY <2>2, <3>4, StepsTable DEF Step
    <3>5. CASE op.step \in {9 + Shift, 10 + Shift, 11 + Shift, 12 + Shift, 13 + Shift,
                            14 + Shift}
      BY <2>2, <3>5, StepsTable DEF Step
    <3> QED BY <3>2, <3>3, <3>4, <3>5
  <2> QED BY <1>1, <2>1, <2>2
<1>3. CASE StartProcess
  <2>1. op.at = "window" /\ OpStep /\ UNCHANGED <<jobs, wd, store>>
    BY <1>3 DEF StartProcess
  <2>2. CASE Failed
    BY <2>1, <2>2, FailedInv
  <2>3. CASE op' = [op EXCEPT !.at = "engine", !.alive = TRUE,
                              !.lateStarts = @ + (IF op.canceled THEN 1 ELSE 0)]
    <3>1. op.lateStarts = 0
      BY <2>1 DEF ExecutionInv, Late
    <3> DEFINE late == IF op.canceled THEN 1 ELSE 0
    <3>2. late \in 0..1 /\ 0 + late = late /\ late \in Nat /\ (~op.canceled => late = 0)
      OBVIOUS
    <3>3. op' = [op EXCEPT !.at = "engine", !.alive = TRUE, !.lateStarts = late]
      BY <2>3, <3>1, <3>2
    <3> HIDE DEF late
    <3>4. op' \in OpRow
      BY <1>1, <3>2, <3>3 DEF OpRow
    <3>5. /\ op'.job = op.job /\ op'.at = "engine" /\ op'.step = op.step
          /\ op'.changed = op.changed /\ op'.canceled = op.canceled
          /\ op'.lateStarts = late
      BY <1>1, <3>3 DEF OpRow
    <3>6. LastStep' = LastStep /\ Step' = Step
      BY <3>5 DEF LastStep, Step
    <3>7. Placed'
      BY <2>1, <3>5, <3>6 DEF ExecutionInv, Placed
    <3>8. Kept'
      BY <2>1, <3>5, <3>6 DEF ExecutionInv, Kept
    <3>9. Late'
      BY <3>2, <3>5 DEF Late
    <3> QED BY <1>1, <2>1, <3>4, <3>5, <3>7, <3>8, <3>9, OpStepInv
  <2> QED BY <1>3, <2>2, <2>3 DEF StartProcess
<1>4. CASE EngineWritesState
  <2>1. /\ op.at = "engine" /\ Step = "apply" /\ op' = [op EXCEPT !.changed = TRUE]
        /\ OpStep /\ UNCHANGED <<jobs, wd, store>>
    BY <1>4 DEF EngineWritesState
  <2>2. op' \in OpRow
    BY <1>1, <2>1 DEF OpRow
  <2>3. /\ op'.job = op.job /\ op'.at = op.at /\ op'.step = op.step
        /\ op'.canceled = op.canceled /\ op'.lateStarts = op.lateStarts
    BY <1>1, <2>1 DEF OpRow
  <2>4. LastStep' = LastStep /\ Step' = Step
    BY <2>3 DEF LastStep, Step
  <2>5. Placed'
    BY <2>1, <2>3, <2>4 DEF ExecutionInv, Placed
  <2>6. Kept'
    BY <1>2, <2>1, <2>3, <2>4 DEF Kept
  <2>7. Late'
    BY <2>3 DEF ExecutionInv, Late
  <2> QED BY <1>1, <2>1, <2>2, <2>3, <2>5, <2>6, <2>7, OpStepInv
<1>5. CASE EngineExits
  <2>1. op.at = "engine" /\ OpStep /\ UNCHANGED <<jobs, store>> /\ Step \in Engine
    BY <1>5 DEF EngineExits, ExecutionInv, Placed
  <2>2. CASE Step # "apply" /\ Failed /\ UNCHANGED wd
    BY <2>1, <2>2, FailedInv
  <2>3. CASE /\ Step # "apply" /\ NextStep
             /\ \E v \in Offered[op.job] : wd' = Result(Step, v)
    <3>1. PICK v \in Version : wd' = Result(Step, v)
      <4>1. Offered[op.job] \subseteq Version
        BY <1>1, ExecutionAssumption
      <4> QED BY <2>3, <4>1
    <3>2. store' = Stored(Step)
      BY <2>1, EngineStoresNothing
    <3> QED BY <2>1, <2>3, <3>1, <3>2, NextStepInv
  <2>4. CASE /\ Step = "apply" /\ UNCHANGED wd
             /\ \E err \in BOOLEAN :
                  op' = [op EXCEPT !.at = "saving", !.step = 1, !.alive = FALSE, !.err = err]
    <3>1. PICK err \in BOOLEAN :
            op' = [op EXCEPT !.at = "saving", !.step = 1, !.alive = FALSE, !.err = err]
      BY <2>4
    <3>2. op' \in OpRow
      <4>1. 1 \in 1..20
        OBVIOUS
      <4> QED BY <1>1, <3>1, <4>1 DEF OpRow
    <3>3. /\ op'.job = op.job /\ op'.at = "saving" /\ ~op'.alive
          /\ op'.canceled = op.canceled /\ op'.lateStarts = op.lateStarts
      BY <1>1, <3>1 DEF OpRow
    <3>4. op.job = "apply"
      BY <1>2, <2>1, <2>4
    <3>5. Placed' /\ Kept'
      BY <3>3, <3>4 DEF Placed, Kept
    <3>6. Late'
      BY <3>3 DEF ExecutionInv, Late
    <3> QED BY <1>1, <2>1, <2>4, <3>2, <3>3, <3>5, <3>6, OpStepInv
  <2> QED BY <1>5, <2>2, <2>3, <2>4 DEF EngineExits
<1> QED BY <1>3, <1>4, <1>5

\* The state is saved, or the operation notes that it could not be.
LEMMA SaveStateInv ==
  ASSUME ExecutionInv, SaveState
  PROVE  ExecutionInv'
<1>1. /\ op \in OpRow /\ wd \in WorkDir /\ store \in StoreRow /\ op.at = "saving"
      /\ OpStep /\ UNCHANGED <<jobs, wd>> /\ op.job = "apply" /\ ~op.alive
  BY DEF ExecutionInv, TypeInv, Placed, SaveState
<1>2. CASE Goto("report") /\ (store' = uploadState \/ (~op.changed /\ store' = store))
  BY <1>1, <1>2, GotoInv
<1>3. CASE op.changed /\ SaveFailed /\ UNCHANGED store
  <2>1. op' \in OpRow
    BY <1>1, <1>3 DEF SaveFailed, OpRow
  <2>2. /\ op'.job = op.job /\ op'.at = "report" /\ op'.alive = op.alive
        /\ op'.canceled = op.canceled /\ op'.lateStarts = op.lateStarts
        /\ op'.saveFailed /\ op'.err
    BY <1>1, <1>3 DEF SaveFailed, OpRow
  <2>3. Placed' /\ Kept'
    BY <1>1, <2>2 DEF Placed, Kept
  <2>4. Late'
    BY <2>2 DEF ExecutionInv, Late
  <2> QED BY <1>1, <1>3, <2>1, <2>2, <2>3, <2>4, OpStepInv
<1> QED BY <1>2, <1>3 DEF SaveState

\* The operation makes up its mind about how it went.
LEMMA ReportInv ==
  ASSUME ExecutionInv, Report
  PROVE  ExecutionInv'
<1>1. /\ op \in OpRow /\ store \in StoreRow /\ op.at = "report" /\ ~op.alive
      /\ OpStep /\ UNCHANGED <<jobs, store>> /\ wd' = Emptied /\ Kept /\ Late
      /\ UNCHANGED panicked
  BY DEF ExecutionInv, TypeInv, Placed, Report, OpStep, signalVars
<1>2. wd' \in WorkDir
  BY <1>1 DEF Emptied, WorkDir, MaybeVersion
<1>3. CASE op' = [op EXCEPT !.at = "ended"]
  <2>1. op' \in OpRow
    BY <1>1, <1>3 DEF OpRow
  <2>2. /\ op'.job = op.job /\ op'.at = "ended" /\ op'.alive = op.alive
        /\ op'.changed = op.changed /\ op'.saveFailed = op.saveFailed
        /\ op'.canceled = op.canceled /\ op'.lateStarts = op.lateStarts
    BY <1>1, <1>3 DEF OpRow
  <2>3. Placed' /\ Kept' /\ Late'
    BY <1>1, <2>2 DEF Placed, Kept, Late
  <2> QED BY <1>1, <1>2, <2>1, <2>2, <2>3, OpStepInv
<1>4. CASE op' = [op EXCEPT !.at = "finish",
                    !.report = IF op.canceled THEN "canceled" ELSE
                               IF op.err THEN "errored" ELSE "finished"]
  <2> DEFINE report == IF op.canceled THEN "canceled" ELSE
                       IF op.err THEN "errored" ELSE "finished"
  <2>1. report \in JobDone /\ (report = "finished" => ~op.err)
    BY DEF JobDone
  <2>2. op' = [op EXCEPT !.at = "finish", !.report = report]
    BY <1>4
  <2> HIDE DEF report
  <2>3. op' \in OpRow
    BY <1>1, <2>1, <2>2 DEF OpRow
  <2>4. /\ op'.job = op.job /\ op'.at = "finish" /\ op'.alive = op.alive
        /\ op'.changed = op.changed /\ op'.saveFailed = op.saveFailed
        /\ op'.err = op.err /\ op'.report = report
        /\ op'.canceled = op.canceled /\ op'.lateStarts = op.lateStarts
    BY <1>1, <2>2 DEF OpRow
  <2>5. Placed' /\ Kept' /\ Late'
    BY <1>1, <2>1, <2>4 DEF Placed, Kept, Late
  <2> QED BY <1>1, <1>2, <2>3, <2>4, <2>5, OpStepInv
<1> QED BY <1>3, <1>4 DEF Report

\* The job is finished as reported, or the operation ends without.
LEMMA FinishInv ==
  ASSUME ExecutionInv, FinishJob
  PROVE  ExecutionInv'
<1>1. /\ op \in OpRow /\ op.at = "finish" /\ ~op.alive /\ SignalInv
      /\ op.job \in {"plan", "apply"} /\ Job = {"plan", "apply"}
      /\ jobs \in [Job -> JobStatus] /\ polls \in Seq(PollRow)
      /\ op.report \in JobDone /\ (op.report = "finished" => ~op.err)
      /\ Kept /\ Late /\ InTurn /\ runner \in RunnerRow
      /\ listener = "polling" => polls # <<>>
  BY ExecutionAssumption DEF ExecutionInv, TypeInv, Placed, Kept, InTurn, FinishJob, OpRow,
    SignalInv, SignalTypeOK
<1>2. /\ op' = [op EXCEPT !.at = "ended", !.ctxDone = TRUE]
      /\ polls' = EndContext(polls)
      /\ UNCHANGED <<notices, subscribers, relay, panicked, remote, kube,
                     cancelSignaled, runnerVars, listener, wd, store>>
      /\ jobs' = jobs \/ (jobs[op.job] = "running" /\ jobs' = [jobs EXCEPT ![op.job] = op.report])
  BY DEF FinishJob
<1>3. op' \in OpRow
  BY <1>1, <1>2 DEF OpRow
<1>4. /\ op'.job = op.job /\ op'.at = "ended" /\ op'.alive = op.alive
      /\ op'.changed = op.changed /\ op'.saveFailed = op.saveFailed
      /\ op'.canceled = op.canceled /\ op'.lateStarts = op.lateStarts
  BY <1>1, <1>2 DEF OpRow
<1>5. SignalInv' /\ Len(polls') = Len(polls) /\ polls' \in Seq(PollRow)
  <2>1. polls' \in Seq(PollRow) /\ Len(polls') = Len(polls)
    BY <1>1, <1>2, EndContextTyped
  <2> QED BY <1>1, <1>2, <2>1, RowsInv DEF SignalInv, SignalTypeOK
<1>6. polls # <<>> => polls' # <<>>
  BY <1>1, <1>5, EmptySeq
<1>7. /\ jobs' \in [Job -> JobStatus]
      /\ \A j \in Job : j # op.job => jobs'[j] = jobs[j]
      /\ \/ jobs'[op.job] = jobs[op.job]
         \/ jobs[op.job] = "running" /\ jobs'[op.job] = op.report
  BY <1>1, <1>2 DEF JobStatus
<1>8. TypeInv'
  BY <1>2, <1>3, <1>5, <1>7 DEF ExecutionInv, TypeInv, runnerVars
<1>9. Placed' /\ Kept' /\ Late'
  BY <1>1, <1>2, <1>4 DEF Placed, Kept, Late
<1>10. SpawnsOnce'
  <2>1. ASSUME runner.at \in {"spawning", "secret", "kjob"}
        PROVE  /\ runner.job \in Job /\ jobs[runner.job] \notin {"absent", "allocated"}
               /\ op.job = "plan" /\ runner.job = "apply"
    <3>1. runner.job \in Job
      BY <1>1, <2>1 DEF RunnerRow
    <3> QED BY <1>1, <2>1, <3>1 DEF InTurn, SpawnsOnce, Unspawned
  <2> QED BY <1>1, <1>2, <1>4, <1>7, <2>1 DEF SpawnsOnce, Unspawned, runnerVars
<1>11. jobs' = jobs \/ jobs'[op.job] \in JobDone
  BY <1>1, <1>2, <1>7
<1>12. InTurn'
  <2>1. \A j \in Job : jobs'[j] = "allocated" => Unspawned(j)'
    BY <1>1, <1>4, <1>7 DEF InTurn, Unspawned, JobDone
  <2>2. CASE op.job = "plan"
    <3>1. jobs["apply"] = "absent" /\ jobs["plan"] # "finished"
      BY <1>1, <2>2 DEF InTurn
    <3>2. jobs'["plan"] = "finished" => PlanStored(store)
      BY <1>1, <1>7, <2>2, <3>1 DEF Kept
    <3> QED BY <1>1, <1>2, <1>4, <1>6, <1>7, <1>10, <2>1, <2>2, <3>1, <3>2 DEF InTurn
  <2>3. CASE op.job = "apply"
    <3>1. /\ jobs["plan"] = "finished" /\ PlanStored(store) /\ jobs["apply"] # "finished"
          /\ jobs["apply"] # "absent"
      BY <1>1, <2>3 DEF InTurn
    <3>2. jobs'["apply"] = "finished" => (op.changed => store.state)
      BY <1>1, <1>7, <2>3, <3>1 DEF Kept
    <3>3. jobs'["apply"] # "absent"
      BY <1>1, <1>7, <2>3, <3>1 DEF JobDone
    <3> QED BY <1>1, <1>2, <1>4, <1>6, <1>7, <1>10, <2>1, <2>3, <3>1, <3>2, <3>3 DEF InTurn
  <2> QED BY <1>1, <2>2, <2>3
<1> QED BY <1>8, <1>9, <1>12 DEF ExecutionInv

\* The relay sends, and a panic ends the operation of a server runner.
LEMMA RelaySendsInv ==
  ASSUME ExecutionInv, RelaySends
  PROVE  ExecutionInv'
<1>1. /\ SignalInv /\ op \in OpRow /\ Kept /\ Late /\ InTurn
      /\ polls \in Seq(PollRow) /\ Job = {"plan", "apply"}
      /\ listener \in {"off", "subscribing", "polling"}
      /\ listener = "polling" => polls # <<>>
  BY ExecutionAssumption DEF ExecutionInv, TypeInv, InTurn, SignalInv, SignalTypeOK
<1>2. SignalInv' /\ Len(polls') = Len(polls)
  BY <1>1, RelaySendInv DEF RelaySends
<1>3. (polls = <<>> <=> polls' = <<>>) /\ op.at # "none"
  <2>1. polls # <<>> /\ Len(polls) # 0
    <3>1. relay.to \in DOMAIN polls
      BY <1>1 DEF RelaySends, RelaySend, SignalInv
    <3> QED BY <1>1, <3>1, EmptySeq, LenProperties
  <2>2. polls' # <<>>
    BY <1>2, <2>1, EmptySeq DEF SignalInv, SignalTypeOK
  <2> QED BY <1>1, <2>1, <2>2 DEF InTurn
<1>4. panicked => panicked'
  BY DEF RelaySends, RelaySend
<1>5. UNCHANGED <<remote, kube, runVars, runnerVars, store>>
  BY DEF RelaySends
<1>6. CASE UNCHANGED opVars
  BY <1>1, <1>2, <1>3, <1>4, <1>5, <1>6, AsideInv DEF opVars, runVars, runnerVars
<1>7. CASE /\ panicked' /\ op' = [op EXCEPT !.at = "ended", !.alive = FALSE]
           /\ listener' = "off" /\ wd' = Emptied
  <2>1. op' \in OpRow
    BY <1>1, <1>7 DEF OpRow
  <2>2. /\ op'.job = op.job /\ op'.at = "ended" /\ ~op'.alive
        /\ op'.changed = op.changed /\ op'.canceled = op.canceled
        /\ op'.lateStarts = op.lateStarts
    BY <1>1, <1>7 DEF OpRow
  <2>3. TypeInv'
    BY <1>2, <1>5, <1>7, <2>1 DEF ExecutionInv, TypeInv, Emptied, WorkDir, MaybeVersion,
      runVars, runnerVars
  <2>4. Placed' /\ Kept' /\ Late'
    BY <1>1, <1>7, <2>2 DEF Placed, Kept, Late
  <2>5. InTurn'
    BY <1>1, <1>3, <1>5, <1>7, <2>2 DEF InTurn, SpawnsOnce, Unspawned, runVars, runnerVars
  <2> QED BY <2>3, <2>4, <2>5 DEF ExecutionInv
<1> QED BY <1>6, <1>7 DEF RelaySends

LEMMA NextInv ==
  ASSUME ExecutionInv, Next
  PROVE  ExecutionInv'
<1>1. CASE \/ EnqueueApply
           \/ \E j \in Job : CancelRun(j) \/ ForceCancelRun(j)
  BY <1>1, ServerInv
<1>2. CASE \/ \E j \in Job : AwaitAllocatedJobs(j)
           \/ StartJob \/ RunnerStop \/ RunnerExits \/ RunnerCancelsOp
  BY <1>2, RunnerInv
<1>3. CASE SpawnFork \/ SpawnKube
  BY <1>3, SpawnInv
<1>4. CASE \/ Subscribe \/ Answered \/ PollBreaks \/ SignalerStep
           \/ \E p \in Poll : ServerNotices(p)
  BY <1>4, ListenerInv
<1>5. CASE RelaySends
  BY <1>5, RelaySendsInv
<1>6. CASE Proceed
  <2>1. CASE Begin \/ CheckStep
    BY <2>1, StepInv
  <2>2. CASE StartProcess
    BY <2>2, EngineInv
  <2>3. CASE SaveState
    BY <2>3, SaveStateInv
  <2>4. CASE Report
    BY <2>4, ReportInv
  <2>5. CASE FinishJob
    BY <2>5, FinishInv
  <2> QED BY <1>6, <2>1, <2>2, <2>3, <2>4, <2>5 DEF Proceed
<1>7. CASE EngineWritesState \/ EngineExits
  BY <1>7, EngineInv
<1> QED BY <1>1, <1>2, <1>3, <1>4, <1>5, <1>6, <1>7 DEF Next

LEMMA StutterInv ==
  ASSUME ExecutionInv, UNCHANGED vars
  PROVE  ExecutionInv'
<1>1. SignalInv' /\ UNCHANGED <<remote, kube, cancelSignaled, jobs, runner, stopping, wd, store,
                               op, listener, polls, panicked>>
  BY DEF ExecutionInv, TypeInv, SignalInv, SignalTypeOK, vars, signalVars, runVars, runnerVars,
    opVars
<1> QED BY <1>1, AsideInv DEF ExecutionInv, TypeInv

-----------------------------------------------------------------------------
(* The theorems *)

\* The invariant above holds of every run: where an operation is in its steps
\* tells what is in its directory, and how the jobs stand tells what is stored.
THEOREM ExecutionInvariance == Spec => []ExecutionInv
<1>1. ExecutionInv /\ [Next]_vars => ExecutionInv'
  BY NextInv, StutterInv
<1> QED BY InitInv, <1>1, PTL DEF Spec

\* The engine runs on a directory with all that the steps before are to put
\* into it, and an apply on the plan and the providers of the plan job, for any
\* versions released between the two and wherever a step may fail or be canceled
\* (the order of the steps in do, and downloadLockFile).
THEOREM EnginesArePrepared == Spec => []EngineIsPrepared
<1>1. ExecutionInv => EngineIsPrepared
  <2> SUFFICES ASSUME ExecutionInv, op.alive PROVE EngineIsPrepared
    BY DEF EngineIsPrepared, EngineRunsPrepared, AppliesWhatWasPlanned
  <2>1. /\ op.at = "engine" /\ Step \in Engine /\ op.step \in 1..LastStep
        /\ Ready(wd, store, op.step, op.job) /\ op.job \in {"plan", "apply"}
    BY ExecutionAssumption DEF ExecutionInv, TypeInv, OpRow, Placed
  <2>2. Shift \in {0, 1} /\ (PluginCache <=> Shift = 1) /\ op.step \in Int /\ op.step >= 1
        /\ (op.job = "plan" => LastStep = 14 + Shift)
        /\ (op.job = "apply" => LastStep = 12 + Shift)
    <3>1. /\ op.job = "plan" => LastStep = 14 + Shift
          /\ op.job = "apply" => LastStep = 12 + Shift
      BY StepsTable DEF LastStep
    <3>2. Shift \in {0, 1} /\ (PluginCache <=> Shift = 1)
      BY ExecutionAssumption DEF Shift
    <3>3. LastStep \in Int
      BY <2>1, <3>1, <3>2
    <3> QED BY <2>1, <3>1, <3>2, <3>3
  <2>3. op.step > 8
    <3> SUFFICES ASSUME op.step \in 1..8 PROVE FALSE
      BY <2>2
    <3>1. Step = Prepare[op.step]
      BY <2>1, StepsTable DEF Step
    <3> QED BY <2>1, <3>1 DEF Prepare, Engine
  <2>4. EngineRunsPrepared
    BY <2>1, <2>2, <2>3 DEF Ready, Prepared, EngineRunsPrepared
  <2>5. AppliesWhatWasPlanned
    <3> SUFFICES ASSUME Step = "apply" PROVE "plan" \in wd.has /\ wd.providers = store.planned
      BY DEF AppliesWhatWasPlanned
    <3>1. op.job = "apply" /\ op.step = 12 + Shift
      <4>1. \/ op.step = 9 /\ PluginCache
            \/ op.step \in {9 + Shift, 10 + Shift, 11 + Shift, 12 + Shift}
            \/ op.job = "plan" /\ op.step \in {13 + Shift, 14 + Shift}
        BY <2>1, <2>2, <2>3
      <4>2. ~(op.step = 9 /\ PluginCache)
        BY <2>1, StepsTable DEF Step
      <4>3. CASE op.job = "plan"
        BY <2>1, <4>1, <4>2, <4>3, StepsTable DEF Step
      <4>4. CASE op.job = "apply"
        BY <2>1, <4>1, <4>2, <4>4, StepsTable DEF Step
      <4> QED BY <2>1, <4>3, <4>4
    <3> QED BY <2>1, <2>2, <3>1 DEF Ready, Fetched
  <2> QED BY <2>4, <2>5 DEF EngineIsPrepared
<1> QED BY ExecutionInvariance, <1>1, PTL

\* What a finished job should leave on the server is there, and a state that
\* an apply has changed is saved whatever became of the apply, unless saving
\* fails or the process dies (doAndFinish, apply, uploadState).
THEOREM ResultsAreKept == Spec => []ResultsAreStored
<1>1. ExecutionInv => ResultsAreStored
  <2> SUFFICES ASSUME ExecutionInv PROVE ResultsAreStored
    OBVIOUS
  <2>1. TypeOK
    BY DEF ExecutionInv, TypeInv, TypeOK, SignalInv, RunnerRow, WorkDir, StoreRow, MaybeVersion
  <2>2. FinishedMeansStored
    BY DEF ExecutionInv, InTurn, PlanStored, FinishedMeansStored
  <2>3. StateSaved
    BY DEF ExecutionInv, Kept, StateSaved
  <2> QED BY <2>1, <2>2, <2>3 DEF ResultsAreStored
<1> QED BY ExecutionInvariance, <1>1, PTL

-----------------------------------------------------------------------------
(* Who cancels *)

\* As long as nobody has asked for a cancelation, nothing a server runner's
\* operation receives looks like a signal: a channel is only closed when all
\* polls of its job are over.
Undisturbed ==
  /\ notices = <<>> /\ relay.at = "idle"
  /\ listener = "polling" => polls[Latest].answer # "taken"
  /\ \A j \in Job : subscribers[j] # 0 => polls[subscribers[j]].job = j
  /\ \A p \in DOMAIN polls :
       /\ polls[p].buffer = NoSignal
       /\ polls[p].answer \in {"waiting", "error", "taken"}
       /\ polls[p].closed => polls[p].done
       /\ polls[p].done /\ polls[p].job = op.job => op.ctxDone
       /\ polls[p].job = "apply" => op.job = "apply"
       /\ \A q \in DOMAIN polls :
            polls[p].done /\ polls[q].job = polls[p].job => polls[q].done

CancelInv ==
  /\ ~remote /\ ~cancelSignaled => Undisturbed
  /\ CanceledOnlyOnRequest

\* Steps that leave every poll with its job, and its end to its context.
LEMMA UndisturbedKept ==
  ASSUME SignalInv, Undisturbed, UNCHANGED <<notices, relay>>,
         \A j \in Job : subscribers'[j] \in {0, subscribers[j]},
         Len(polls') = Len(polls), polls' \in Seq(PollRow),
         \A p \in DOMAIN polls :
           /\ polls'[p].job = polls[p].job /\ polls'[p].buffer = NoSignal
           /\ polls'[p].done <=> polls[p].done
           /\ polls'[p].closed => polls[p].done
           /\ polls'[p].answer \in {"waiting", "error", "taken"}
           /\ polls'[p].answer = "taken" => polls[p].answer = "taken" \/ listener' # "polling",
         listener' = "polling" => listener = "polling" /\ polls # <<>>,
         op'.job = op.job, op.ctxDone => op'.ctxDone
  PROVE  Undisturbed'
<1>1. polls \in Seq(PollRow) /\ DOMAIN polls' = DOMAIN polls /\ Latest' = Latest
  BY LenProperties DEF SignalInv, SignalTypeOK, Latest
<1>2. \A j \in Job : subscribers[j] # 0 => subscribers[j] \in DOMAIN polls
  BY DEF SignalInv, SignalTypeOK
<1>3. polls # <<>> => Latest \in DOMAIN polls
  <2>1. polls # <<>> => Len(polls) \in Nat \ {0} /\ DOMAIN polls = 1..Len(polls)
    BY <1>1, EmptySeq, LenProperties
  <2> QED BY <2>1 DEF Latest
<1>4. listener' = "polling" => polls'[Latest'].answer # "taken"
  BY <1>1, <1>3 DEF Undisturbed
<1>5. \A j \in Job : subscribers'[j] # 0 => polls'[subscribers'[j]].job = j
  BY <1>2 DEF Undisturbed
<1>6. \A p \in DOMAIN polls' :
        /\ polls'[p].buffer = NoSignal
        /\ polls'[p].answer \in {"waiting", "error", "taken"}
        /\ polls'[p].closed => polls'[p].done
        /\ polls'[p].done /\ polls'[p].job = op'.job => op'.ctxDone
        /\ polls'[p].job = "apply" => op'.job = "apply"
        /\ \A q \in DOMAIN polls' :
             polls'[p].done /\ polls'[q].job = polls'[p].job => polls'[q].done
  BY <1>1 DEF Undisturbed
<1>7. notices' = <<>> /\ relay'.at = "idle"
  BY DEF Undisturbed
<1> QED BY <1>4, <1>5, <1>6, <1>7 DEF Undisturbed

\* Steps in which no poll takes part.
LEMMA PollsAside ==
  ASSUME ExecutionInv, Undisturbed, UNCHANGED <<notices, relay, subscribers, polls>>,
         listener' = listener \/ listener' = "off",
         op'.job = op.job, op.ctxDone => op'.ctxDone
  PROVE  Undisturbed'
<1>1. SignalInv /\ polls \in Seq(PollRow) /\ (listener = "polling" => polls # <<>>)
  BY DEF ExecutionInv, TypeInv, InTurn, SignalInv, SignalTypeOK
<1>2. listener' = "polling" => listener = "polling"
  OBVIOUS
<1>3. \A p \in DOMAIN polls :
           /\ polls'[p].job = polls[p].job /\ polls'[p].buffer = NoSignal
           /\ polls'[p].done <=> polls[p].done
           /\ polls'[p].closed => polls[p].done
           /\ polls'[p].answer \in {"waiting", "error", "taken"}
           /\ polls'[p].answer = "taken" => polls[p].answer = "taken" \/ listener' # "polling"
  BY DEF Undisturbed
<1> QED BY <1>1, <1>2, <1>3, UndisturbedKept

\* The steps of the operation itself do not cancel it.
LEMMA OpKeepsMarks ==
  ASSUME op \in OpRow,
         Begin \/ CheckStep \/ StartProcess \/ SaveState \/ Report
         \/ EngineWritesState \/ EngineExits
  PROVE  /\ op'.job = op.job /\ (op.ctxDone => op'.ctxDone)
         /\ op'.canceled => op.canceled
<1>1. ASSUME NEW at, Goto(at)
      PROVE  /\ op'.job = op.job /\ (op.ctxDone => op'.ctxDone)
             /\ op'.canceled => op.canceled
  BY <1>1 DEF Goto, OpRow
<1>2. Failed \/ NextStep \/ SaveFailed \/ Report =>
        /\ op'.job = op.job /\ (op.ctxDone => op'.ctxDone)
        /\ op'.canceled => op.canceled
  <2>1. Failed \/ SaveFailed => <1>2!2
    BY DEF Failed, SaveFailed, OpRow
  <2>2. NextStep => <1>2!2
    BY DEF NextStep, OpRow
  <2>3. Report => <1>2!2
    BY DEF Report, OpRow
  <2> QED BY <2>1, <2>2, <2>3
<1>3. CASE Begin \/ CheckStep \/ SaveState
  BY <1>1, <1>2, <1>3 DEF Begin, CheckStep, SaveState
<1>4. CASE StartProcess
  BY <1>2, <1>4 DEF StartProcess, OpRow
<1>5. CASE EngineWritesState \/ EngineExits
  BY <1>2, <1>5 DEF EngineWritesState, EngineExits, OpRow
<1> QED BY <1>2, <1>3, <1>4, <1>5

\* A new poll is the only one of its job that is not over, or one of several.
LEMMA SubscribeUndisturbed ==
  ASSUME ExecutionInv, Undisturbed, Subscribe
  PROVE  Undisturbed'
<1>1. /\ op.job \in Job /\ polls \in Seq(PollRow) /\ Len(polls) \in Nat
      /\ DOMAIN polls = 1..Len(polls) /\ SignalInv
  BY LenProperties DEF ExecutionInv, TypeInv, OpRow, SignalInv, SignalTypeOK
<1>2. CASE op.ctxDone
  BY <1>2, PollsAside DEF Subscribe, signalVars
<1>3. CASE ~op.ctxDone
  <2> DEFINE n == Len(polls) + 1
             poll == NewPoll(op.job)
  <2>1. /\ polls' = Append(polls, poll)
        /\ subscribers' = [subscribers EXCEPT ![op.job] = n]
        /\ UNCHANGED <<notices, relay, op>>
    BY <1>3 DEF Subscribe, awaitJobSignal
  <2>2. /\ poll \in PollRow /\ poll.job = op.job /\ poll.buffer = NoSignal /\ ~poll.closed
        /\ ~poll.done /\ poll.answer = "waiting"
    BY <1>1 DEF NewPoll, PollRow, Answers, NoSignal
  <2> HIDE DEF poll
  <2>3. /\ DOMAIN polls' = DOMAIN polls \cup {n} /\ n \notin DOMAIN polls /\ Latest' = n
        /\ polls'[n] = poll /\ \A p \in DOMAIN polls : polls'[p] = polls[p]
    <3>1. /\ Len(polls') = n /\ polls' \in Seq(PollRow) /\ polls'[n] = poll
          /\ \A p \in 1..Len(polls) : polls'[p] = polls[p]
      BY <1>1, <2>1, <2>2, AppendProperties
    <3>2. DOMAIN polls' = 1..n
      BY <3>1, LenProperties
    <3> QED BY <1>1, <3>1, <3>2 DEF Latest
  <2> HIDE DEF n
  <2>4. \A j \in Job : subscribers'[j] # 0 => polls'[subscribers'[j]].job = j
    <3> SUFFICES ASSUME NEW j \in Job, subscribers'[j] # 0
                 PROVE  polls'[subscribers'[j]].job = j
      OBVIOUS
    <3>1. subscribers \in [Job -> {0} \cup DOMAIN polls]
      BY <1>1 DEF SignalInv, SignalTypeOK
    <3>2. CASE j = op.job
      BY <2>1, <2>2, <2>3, <3>1, <3>2
    <3>3. CASE j # op.job
      BY <2>1, <2>3, <3>1, <3>3 DEF Undisturbed
    <3> QED BY <3>2, <3>3
  <2>5. \A p \in DOMAIN polls :
          polls[p].job = op.job => ~polls[p].done
    BY <1>3 DEF Undisturbed
  <2>6. \A p \in DOMAIN polls' :
          /\ polls'[p].buffer = NoSignal
          /\ polls'[p].answer \in {"waiting", "error", "taken"}
          /\ polls'[p].closed => polls'[p].done
          /\ polls'[p].done /\ polls'[p].job = op'.job => op'.ctxDone
          /\ polls'[p].job = "apply" => op'.job = "apply"
          /\ \A q \in DOMAIN polls' :
               polls'[p].done /\ polls'[q].job = polls'[p].job => polls'[q].done
    <3> SUFFICES ASSUME NEW p \in DOMAIN polls'
                 PROVE  /\ polls'[p].buffer = NoSignal
                        /\ polls'[p].answer \in {"waiting", "error", "taken"}
                        /\ polls'[p].closed => polls'[p].done
                        /\ polls'[p].done /\ polls'[p].job = op'.job => op'.ctxDone
                        /\ polls'[p].job = "apply" => op'.job = "apply"
                        /\ \A q \in DOMAIN polls' :
                             polls'[p].done /\ polls'[q].job = polls'[p].job => polls'[q].done
      OBVIOUS
    <3>1. CASE p = n
      BY <2>1, <2>2, <2>3, <3>1
    <3>2. CASE p \in DOMAIN polls
      <4>1. polls'[p] = polls[p]
        BY <2>3, <3>2
      <4>2. \A q \in DOMAIN polls' :
              polls[p].done /\ polls'[q].job = polls[p].job => polls'[q].done
        BY <2>2, <2>3, <2>5, <3>2 DEF Undisturbed
      <4> QED BY <2>1, <3>2, <4>1, <4>2 DEF Undisturbed
    <3> QED BY <2>3, <3>1, <3>2
  <2> QED BY <2>1, <2>2, <2>3, <2>4, <2>6 DEF Undisturbed
<1> QED BY <1>2, <1>3

\* What comes back from a poll is an error: the operation goes on.
LEMMA AnsweredUndisturbed ==
  ASSUME ExecutionInv, Undisturbed, Answered
  PROVE  Undisturbed' /\ op' = op
<1>1. /\ polls \in Seq(PollRow) /\ SignalInv /\ polls # <<>> /\ Latest \in DOMAIN polls
      /\ DOMAIN polls = 1..Len(polls)
  <2>1. polls \in Seq(PollRow) /\ SignalInv /\ polls # <<>>
    BY DEF ExecutionInv, TypeInv, SignalInv, SignalTypeOK, InTurn, Answered
  <2>2. Len(polls) \in Nat \ {0} /\ DOMAIN polls = 1..Len(polls)
    BY <2>1, EmptySeq, LenProperties
  <2> QED BY <2>1, <2>2 DEF Latest
<1>2. polls[Latest].answer = "error"
  BY <1>1 DEF Answered, Undisturbed
<1>3. /\ op' = op /\ listener' \in {"off", "subscribing"}
      /\ polls' = [polls EXCEPT ![Latest].answer = "taken"]
      /\ UNCHANGED <<notices, subscribers, relay, panicked>>
  BY <1>2 DEF Answered
<1>4. polls' \in Seq(PollRow) /\ Len(polls') = Len(polls)
  BY <1>1, <1>3, TakenTyped
<1>5. \A p \in DOMAIN polls :
           /\ polls'[p].job = polls[p].job /\ polls'[p].buffer = NoSignal
           /\ polls'[p].done <=> polls[p].done
           /\ polls'[p].closed => polls[p].done
           /\ polls'[p].answer \in {"waiting", "error", "taken"}
  <2> SUFFICES ASSUME NEW p \in DOMAIN polls
               PROVE  /\ polls'[p].job = polls[p].job /\ polls'[p].buffer = NoSignal
                      /\ polls'[p].done <=> polls[p].done
                      /\ polls'[p].closed => polls[p].done
                      /\ polls'[p].answer \in {"waiting", "error", "taken"}
    OBVIOUS
  <2>1. polls[p] \in PollRow
    BY <1>1, ElementOfSeq
  <2>2. CASE p = Latest
    <3>1. polls'[p] = [polls[p] EXCEPT !.answer = "taken"]
      BY <1>3, <2>2
    <3> QED BY <2>1, <3>1 DEF PollRow, Undisturbed
  <2>3. CASE p # Latest
    <3>1. polls'[p] = polls[p]
      BY <1>3, <2>3
    <3> QED BY <3>1 DEF Undisturbed
  <2> QED BY <2>2, <2>3
<1> QED BY <1>1, <1>3, <1>4, <1>5, UndisturbedKept

\* A context that ends closes the channel of a poll that is over, too.
LEMMA SignalerUndisturbed ==
  ASSUME ExecutionInv, Undisturbed, SignalerStep
  PROVE  Undisturbed'
<1>1. /\ polls \in Seq(PollRow) /\ SignalInv /\ DOMAIN polls = 1..Len(polls)
      /\ listener = "polling" => polls # <<>>
      /\ UNCHANGED <<op, listener>>
  BY LenProperties DEF ExecutionInv, TypeInv, SignalInv, SignalTypeOK, InTurn, SignalerStep
<1>2. SignalInv' /\ Len(polls') = Len(polls)
  BY <1>1, SignalerInv DEF SignalerStep, RelayLookUp, Undisturbed
<1>3. PICK p \in Poll : WatcherUnsubscribes(p) \/ Receive(p)
  BY DEF SignalerStep, RelayLookUp, RelayUnsubscribe, Undisturbed
<1>4. UNCHANGED <<notices, relay>> /\ p \in DOMAIN polls /\ polls[p] \in PollRow
  BY <1>1, <1>3, ElementOfSeq DEF WatcherUnsubscribes, Receive
<1>5. CASE WatcherUnsubscribes(p)
  <2> DEFINE j == polls[p].job
             row == [polls[p] EXCEPT !.watched = FALSE]
             rows == [polls EXCEPT ![p].watched = FALSE]
             q == subscribers[j]
  <2>1. /\ polls[p].done /\ subscribers' = [subscribers EXCEPT ![j] = 0]
        /\ polls' = IF q = 0 THEN rows ELSE [rows EXCEPT ![q].closed = TRUE]
    BY <1>5 DEF WatcherUnsubscribes, unsubscribe
  <2>2. j \in Job /\ q \in {0} \cup DOMAIN polls
    BY <1>1, <1>4 DEF PollRow, SignalInv, SignalTypeOK
  <2>3. q # 0 => polls[q].done /\ polls[q].job = j
    BY <1>4, <2>1, <2>2 DEF Undisturbed
  <2>4. \A i \in Job : subscribers'[i] \in {0, subscribers[i]}
    BY <1>1, <2>1, <2>2 DEF SignalInv, SignalTypeOK
  <2>5. \A i \in DOMAIN polls : rows[i] = IF i = p THEN row ELSE polls[i]
    BY <1>4
  <2>6. DOMAIN rows = DOMAIN polls
    OBVIOUS
  <2> HIDE DEF rows, q
  <2>7. \A i \in DOMAIN polls :
          polls'[i] = IF i = q THEN [rows[i] EXCEPT !.closed = TRUE] ELSE rows[i]
    <3>1. CASE q = 0
      BY <1>1, <2>1, <2>6, <3>1
    <3>2. CASE q # 0
      BY <2>1, <2>2, <2>6, <3>2
    <3> QED BY <3>1, <3>2
  <2>8. ASSUME NEW i \in DOMAIN polls
        PROVE  /\ polls'[i].job = polls[i].job /\ polls'[i].buffer = NoSignal
               /\ polls'[i].done <=> polls[i].done
               /\ polls'[i].closed => polls[i].done
               /\ polls'[i].answer = polls[i].answer
               /\ polls'[i].answer \in {"waiting", "error", "taken"}
    <3> DEFINE r == rows[i]
    <3>1. polls[i] \in PollRow
      BY <1>1, ElementOfSeq
    <3>2. /\ r.job = polls[i].job /\ r.buffer = NoSignal /\ r.done = polls[i].done
          /\ r.closed = polls[i].closed /\ r.answer = polls[i].answer /\ r \in PollRow
      <4>1. polls[i].buffer = NoSignal
        BY DEF Undisturbed
      <4>2. CASE i = p
        <5>1. r = row
          BY <2>5, <4>2
        <5> HIDE DEF r
        <5>2. r = [polls[i] EXCEPT !.watched = FALSE]
          BY <4>2, <5>1
        <5> QED BY <3>1, <4>1, <5>2 DEF PollRow
      <4>3. CASE i # p
        BY <2>5, <3>1, <4>1, <4>3
      <4> QED BY <4>2, <4>3
    <3> HIDE DEF r
    <3>3. polls'[i] = IF i = q THEN [r EXCEPT !.closed = TRUE] ELSE r
      BY <2>7 DEF r
    <3>4. CASE i = q
      <4>1. polls'[i] = [r EXCEPT !.closed = TRUE]
        BY <3>3, <3>4
      <4>2. polls[i].done
        BY <1>1, <2>2, <2>3, <3>4
      <4>3. polls'[i].job = r.job /\ polls'[i].buffer = r.buffer /\ polls'[i].done = r.done
            /\ polls'[i].answer = r.answer
        BY <3>2, <4>1 DEF PollRow
      <4> QED BY <3>2, <4>2, <4>3 DEF Undisturbed
    <3>5. CASE i # q
      BY <3>2, <3>3, <3>5 DEF Undisturbed
    <3> QED BY <3>4, <3>5
  <2> QED BY <1>1, <1>2, <1>4, <2>4, <2>8, UndisturbedKept DEF SignalInv, SignalTypeOK
<1>6. CASE Receive(p)
  <2> DEFINE row == [polls[p] EXCEPT !.answer = "error", !.buffer = NoSignal]
  <2>1. polls[p].buffer = NoSignal /\ polls[p].closed /\ polls[p].done
    BY <1>4, <1>6 DEF Receive, Undisturbed
  <2>2. AnswerTo(polls[p]) = "error"
    BY <2>1 DEF AnswerTo
  <2>3. polls' = [polls EXCEPT ![p] = row] /\ UNCHANGED subscribers
    BY <1>4, <1>6, <2>2 DEF Receive
  <2>4. /\ row.job = polls[p].job /\ row.buffer = NoSignal /\ row.done = polls[p].done
        /\ row.closed = polls[p].closed /\ row.answer = "error"
    BY <1>4 DEF PollRow
  <2> HIDE DEF row
  <2>5. ASSUME NEW i \in DOMAIN polls
        PROVE  /\ polls'[i].job = polls[i].job /\ polls'[i].buffer = NoSignal
               /\ polls'[i].done <=> polls[i].done
               /\ polls'[i].closed => polls[i].done
               /\ polls'[i].answer \in {"waiting", "error", "taken"}
               /\ polls'[i].answer = "taken" => polls[i].answer = "taken"
    <3>1. CASE i = p
      BY <2>1, <2>3, <2>4, <3>1
    <3>2. CASE i # p
      BY <2>3, <3>2 DEF Undisturbed
    <3> QED BY <3>1, <3>2
  <2> QED BY <1>1, <1>2, <1>4, <2>3, <2>5, UndisturbedKept DEF SignalInv, SignalTypeOK
<1> QED BY <1>3, <1>5, <1>6

\* An operation begins without polls of its job, and ends with those it has.
LEMMA SpawnUndisturbed ==
  ASSUME ExecutionInv, Undisturbed, SpawnFork \/ SpawnKube
  PROVE  Undisturbed' /\ (op'.canceled => op.canceled)
<1>1. /\ polls \in Seq(PollRow) /\ SignalInv /\ Job = {"plan", "apply"}
      /\ UNCHANGED <<notices, relay, subscribers>> /\ runner \in RunnerRow /\ InTurn
  BY ExecutionAssumption DEF ExecutionInv, TypeInv, SignalInv, SignalTypeOK, SpawnFork,
    SpawnKube, RunnerStep
<1>2. CASE UNCHANGED <<polls, opVars>>
  BY <1>1, <1>2, PollsAside DEF opVars
<1>3. CASE runner.at \in {"spawning", "kjob"} /\ Spawned(runner.job)
  <2> DEFINE j == runner.job
  <2>1. j \in Job /\ Unspawned(j)
    BY <1>1, <1>3 DEF RunnerRow, InTurn, SpawnsOnce
  <2>2. /\ op' = [Idle(j) EXCEPT !.at = "begin"] /\ listener' = "subscribing"
        /\ polls' = [p \in DOMAIN polls |->
                       [polls[p] EXCEPT !.answer = "taken", !.buffer = NoSignal]]
    BY <1>3 DEF Spawned
  <2> HIDE DEF j
  <2>3. op'.job = j /\ ~op'.canceled
    BY <2>2 DEF Idle
  <2>4. \A p \in DOMAIN polls : polls[p].job = "plan" /\ j = "apply"
    <3> SUFFICES ASSUME NEW p \in DOMAIN polls PROVE polls[p].job = "plan" /\ j = "apply"
      OBVIOUS
    <3>1. op.job = "plan" /\ (j = "plan" => polls = <<>>)
      BY <1>1, <2>1 DEF Unspawned, InTurn
    <3>2. polls[p] \in PollRow /\ polls # <<>>
      BY <1>1, ElementOfSeq, LenProperties
    <3>3. polls[p].job \in {"plan", "apply"} /\ polls[p].job # "apply"
      BY <1>1, <3>1, <3>2 DEF PollRow, Undisturbed
    <3> QED BY <1>1, <2>1, <3>1, <3>2, <3>3
  <2>5. ASSUME NEW p \in DOMAIN polls
        PROVE  /\ polls'[p].job = polls[p].job /\ polls'[p].buffer = NoSignal
               /\ polls'[p].done = polls[p].done /\ polls'[p].closed = polls[p].closed
               /\ polls'[p].answer = "taken"
    <3>1. polls[p] \in PollRow
      BY <1>1, ElementOfSeq, LenProperties
    <3>2. polls'[p] = [polls[p] EXCEPT !.answer = "taken", !.buffer = NoSignal]
      BY <2>2
    <3> QED BY <3>1, <3>2 DEF PollRow
  <2>6. DOMAIN polls' = DOMAIN polls
    BY <2>2
  <2>7. \A i \in Job : subscribers'[i] # 0 => polls'[subscribers'[i]].job = i
    BY <1>1, <2>5 DEF Undisturbed, SignalInv, SignalTypeOK
  <2>8. \A p \in DOMAIN polls' :
          /\ polls'[p].buffer = NoSignal
          /\ polls'[p].answer \in {"waiting", "error", "taken"}
          /\ polls'[p].closed => polls'[p].done
          /\ polls'[p].done /\ polls'[p].job = op'.job => op'.ctxDone
          /\ polls'[p].job = "apply" => op'.job = "apply"
          /\ \A q \in DOMAIN polls' :
               polls'[p].done /\ polls'[q].job = polls'[p].job => polls'[q].done
    BY <2>3, <2>4, <2>5, <2>6 DEF Undisturbed
  <2>9. notices' = <<>> /\ relay'.at = "idle" /\ listener' # "polling"
    BY <1>1, <2>2 DEF Undisturbed
  <2> QED BY <2>3, <2>7, <2>8, <2>9 DEF Undisturbed
<1> QED BY <1>2, <1>3 DEF SpawnFork, SpawnKube

LEMMA FinishUndisturbed ==
  ASSUME ExecutionInv, Undisturbed, FinishJob, ~remote
  PROVE  Undisturbed'
<1>1. /\ polls \in Seq(PollRow) /\ SignalInv /\ op \in OpRow /\ DOMAIN polls = 1..Len(polls)
      /\ listener = "polling" => polls # <<>>
  BY LenProperties DEF ExecutionInv, TypeInv, SignalInv, SignalTypeOK, InTurn
<1>2. /\ op' = [op EXCEPT !.at = "ended", !.ctxDone = TRUE] /\ polls' = EndContext(polls)
      /\ UNCHANGED <<notices, subscribers, relay, listener>>
  BY DEF FinishJob
<1>3. op'.job = op.job /\ op'.ctxDone
  BY <1>1, <1>2 DEF OpRow
<1>4. /\ DOMAIN polls' = DOMAIN polls
      /\ \A p \in DOMAIN polls :
           polls'[p] = IF polls[p].job = op.job THEN [polls[p] EXCEPT !.done = TRUE] ELSE polls[p]
  BY <1>2 DEF EndContext
<1>5. ASSUME NEW p \in DOMAIN polls
      PROVE  /\ polls'[p].job = polls[p].job /\ polls'[p].buffer = polls[p].buffer
             /\ polls'[p].answer = polls[p].answer /\ polls'[p].closed = polls[p].closed
             /\ polls[p].job = op.job => polls'[p].done
             /\ polls[p].job # op.job => polls'[p].done = polls[p].done
             /\ polls[p].done => polls'[p].done
  <2>1. polls[p] \in PollRow
    BY <1>1, ElementOfSeq
  <2> QED BY <1>4, <2>1 DEF PollRow
<1>6. \A j \in Job : subscribers'[j] # 0 => polls'[subscribers'[j]].job = j
  BY <1>1, <1>2, <1>5 DEF Undisturbed, SignalInv, SignalTypeOK
<1>7. listener' = "polling" => polls'[Latest'].answer # "taken"
  <2>1. polls # <<>> => Len(polls) \in Nat \ {0}
    BY <1>1, EmptySeq
  <2>2. Latest' = Latest
    BY <1>1, <1>2, EndContextTyped DEF Latest
  <2>3. polls # <<>> => Latest \in DOMAIN polls
    BY <1>1, <2>1 DEF Latest
  <2> QED BY <1>1, <1>2, <1>5, <2>2, <2>3 DEF Undisturbed
<1>8. \A p \in DOMAIN polls' :
        /\ polls'[p].buffer = NoSignal
        /\ polls'[p].answer \in {"waiting", "error", "taken"}
        /\ polls'[p].closed => polls'[p].done
        /\ polls'[p].done /\ polls'[p].job = op'.job => op'.ctxDone
        /\ polls'[p].job = "apply" => op'.job = "apply"
        /\ \A q \in DOMAIN polls' :
             polls'[p].done /\ polls'[q].job = polls'[p].job => polls'[q].done
  BY <1>3, <1>4, <1>5 DEF Undisturbed
<1> QED BY <1>2, <1>6, <1>7, <1>8 DEF Undisturbed

LEMMA CancelInitInv == Init => CancelInv
<1> SUFFICES ASSUME Init PROVE CancelInv
  OBVIOUS
<1>1. /\ notices = <<>> /\ relay.at = "idle" /\ polls = <<>> /\ listener = "off"
      /\ \A j \in Job : subscribers[j] = 0
  BY DEF Init, SignalInit
<1>2. ~op.canceled
  BY DEF Init, Idle
<1>3. DOMAIN polls = {}
  BY <1>1
<1> QED BY <1>1, <1>2, <1>3 DEF CancelInv, Undisturbed, CanceledOnlyOnRequest

LEMMA CancelNextInv ==
  ASSUME ExecutionInv, CancelInv, [Next]_vars
  PROVE  CancelInv'
<1>1. op \in OpRow /\ SignalInv /\ cancelSignaled \in BOOLEAN
  BY DEF ExecutionInv, TypeInv
<1>2. ASSUME UNCHANGED remote, cancelSignaled => cancelSignaled', stopping => stopping',
             ~remote /\ ~cancelSignaled /\ ~cancelSignaled' => Undisturbed',
             ~remote /\ ~cancelSignaled /\ ~cancelSignaled' => (op'.canceled => op.canceled \/ stopping')
      PROVE  CancelInv'
  BY <1>2 DEF CancelInv, CanceledOnlyOnRequest
<1>3. CASE \/ EnqueueApply \/ UNCHANGED vars
           \/ \E j \in Job : CancelRun(j) \/ ForceCancelRun(j)
  <2>1. UNCHANGED <<remote, stopping, relay, subscribers, polls, op, listener>>
    BY <1>3 DEF EnqueueApply, CancelRun, ForceCancelRun, vars, signalVars, runnerVars, opVars
  <2>2. /\ cancelSignaled => cancelSignaled'
        /\ cancelSignaled \/ cancelSignaled' \/ UNCHANGED notices
    <3>1. CASE EnqueueApply \/ UNCHANGED vars
      BY <3>1 DEF EnqueueApply, vars, signalVars, runVars
    <3>2. CASE \E j \in Job : CancelRun(j)
      BY <3>2 DEF CancelRun
    <3>3. CASE \E j \in Job : ForceCancelRun(j)
      BY <3>3 DEF ForceCancelRun
    <3> QED BY <1>3, <3>1, <3>2, <3>3
  <2> QED BY <1>2, <2>1, <2>2, PollsAside DEF CancelInv
<1>4. CASE \/ \E j \in Job : AwaitAllocatedJobs(j)
           \/ StartJob \/ RunnerStop \/ RunnerExits \/ RunnerCancelsOp
  <2>1. RunnerStep /\ UNCHANGED <<polls, listener>> /\ (stopping => stopping')
    <3>1. CASE StartJob \/ RunnerExits \/ \E j \in Job : AwaitAllocatedJobs(j)
      BY <3>1 DEF AwaitAllocatedJobs, StartJob, RunnerExits, opVars
    <3>2. CASE RunnerStop
      BY <3>2 DEF RunnerStop, opVars
    <3>3. CASE RunnerCancelsOp
      BY <3>3 DEF RunnerCancelsOp, runnerVars
    <3> QED BY <1>4, <3>1, <3>2, <3>3
  <2>2. op' = op \/ (Warned /\ stopping)
    BY <1>4 DEF AwaitAllocatedJobs, StartJob, RunnerStop, RunnerExits, RunnerCancelsOp, opVars, Warned
  <2>3. op'.job = op.job /\ (op.ctxDone => op'.ctxDone) /\ (op'.canceled => op.canceled \/ stopping)
    BY <1>1, <2>2 DEF Warned, Canceled, OpRow
  <2>4. UNCHANGED <<remote, cancelSignaled, notices, relay, subscribers>>
    BY <2>1 DEF RunnerStep
  <2> QED BY <1>2, <2>1, <2>3, <2>4, PollsAside DEF CancelInv
<1>5. CASE SpawnFork \/ SpawnKube
  <2>1. UNCHANGED <<remote, cancelSignaled, stopping>>
    BY <1>5 DEF SpawnFork, SpawnKube, RunnerStep
  <2> QED BY <1>2, <1>5, <2>1, SpawnUndisturbed DEF CancelInv
<1>6. CASE \/ Subscribe \/ Answered \/ SignalerStep \/ PollBreaks
           \/ \E p \in Poll : ServerNotices(p)
  <2>1. ListenerStep
    BY <1>6 DEF Subscribe, Answered, SignalerStep, PollBreaks, ServerNotices
  <2>2. UNCHANGED <<remote, cancelSignaled, stopping>>
    BY <2>1 DEF ListenerStep, runVars, runnerVars
  <2>3. CASE PollBreaks \/ \E p \in Poll : ServerNotices(p)
    <3>1. remote
      BY <2>3 DEF PollBreaks, ServerNotices
    <3> QED BY <1>2, <2>2, <3>1
  <2>4. CASE Subscribe \/ SignalerStep
    <3>1. UNCHANGED op
      BY <2>4 DEF Subscribe, SignalerStep
    <3> QED BY <1>2, <2>2, <2>4, <3>1, SubscribeUndisturbed, SignalerUndisturbed DEF CancelInv
  <2>5. CASE Answered
    BY <1>2, <2>2, <2>5, AnsweredUndisturbed DEF CancelInv
  <2> QED BY <1>6, <2>3, <2>4, <2>5
<1>7. CASE RelaySends
  <2>1. relay.at = "send" /\ UNCHANGED <<remote, cancelSignaled, stopping>>
    BY <1>7 DEF RelaySends, RelaySend, runVars, runnerVars
  <2> QED BY <1>2, <2>1 DEF CancelInv, Undisturbed
<1>8. CASE FinishJob
  <2>1. UNCHANGED <<remote, cancelSignaled, stopping>> /\ (op'.canceled => op.canceled)
    BY <1>1, <1>8 DEF FinishJob, runnerVars, OpRow
  <2> QED BY <1>2, <1>8, <2>1, FinishUndisturbed DEF CancelInv
<1>9. CASE \/ Begin \/ CheckStep \/ StartProcess \/ SaveState \/ Report
           \/ EngineWritesState \/ EngineExits
  <2>1. OpStep
    BY <1>9 DEF Begin, CheckStep, StartProcess, SaveState, Report, EngineWritesState, EngineExits
  <2>2. UNCHANGED <<remote, cancelSignaled, stopping, notices, relay, subscribers, polls, listener>>
    BY <2>1 DEF OpStep, signalVars, runnerVars
  <2>3. op'.job = op.job /\ (op.ctxDone => op'.ctxDone) /\ (op'.canceled => op.canceled)
    BY <1>1, <1>9, OpKeepsMarks
  <2> QED BY <1>2, <2>2, <2>3, PollsAside DEF CancelInv
<1> QED BY <1>3, <1>4, <1>5, <1>6, <1>7, <1>8, <1>9 DEF Next, Proceed

-----------------------------------------------------------------------------
(* Cancelation *)

\* An operation of a server runner is canceled only on request, though polls
\* are replaced, closed and come back with a zero signal or none
\* (awaitJobSignal, relay, doAndFinish).
THEOREM OnlyOnRequest == Spec => []CanceledOnlyOnRequest
<1>1. Init => ExecutionInv /\ CancelInv
  BY InitInv, CancelInitInv
<1>2. (ExecutionInv /\ CancelInv) /\ [Next]_vars => (ExecutionInv /\ CancelInv)'
  BY NextInv, StutterInv, CancelNextInv
<1>3. CancelInv => CanceledOnlyOnRequest
  BY DEF CancelInv
<1> QED BY <1>1, <1>2, <1>3, PTL DEF Spec

\* A canceled operation starts at most one more process (execute after the
\* check of do's loop).
THEOREM OneLateStart == Spec => []AtMostOneLateStart
<1>1. ExecutionInv => AtMostOneLateStart
  BY DEF ExecutionInv, Late, AtMostOneLateStart
<1> QED BY ExecutionInvariance, <1>1, PTL
=============================================================================
