--------------------------------- MODULE Logs ---------------------------------
(***************************************************************************)
(* The logs of one phase of a run, from the engine's output to the pages   *)
(* that show them.                                                         *)
(*                                                                         *)
(* An operation gives the engine a PhaseWriter for its output; both of     *)
(* the process's streams write to it, from a goroutine each and without a  *)
(* lock.  Every write is a chunk of its own, put by a call that a remote   *)
(* client repeats when the answer is lost.  The last chunk coalesces all.  *)
(* The run page shows what is stored and then tails the rest (tailer.go),  *)
(* with the events of the table chunks, on which all runs share a broker.  *)
(*                                                                         *)
(* Data: a byte of output is a number, in the order in which it is         *)
(* produced; negative numbers, STX and ETX, mark the beginning and the end *)
(***************************************************************************)
EXTENDS EventStream

CONSTANTS
  MaxBytes,    \* bound: bytes of output
  MaxFaults    \* bound: how many kinds of fault a behaviour has, each once

ASSUME LogsAssumption == MaxBytes \in Nat /\ MaxFaults \in Nat

Stream == {"stdout", "stderr"}

Fault == { "race",        \* stderr is written to while stdout is
           "repeat",      \* a remote client misses an answer and calls again
           "failure",     \* a call fails for good
           "break",       \* the connection of a page breaks
           "other",       \* another run puts a chunk
           "delete",      \* the run is deleted
           "outage",      \* the listener's connection is lost
           "cleanup" }    \* events grow old before the listener has read them

Page == Sub    \* a page has one subscription at a time

STX == -2
ETX == -3

VARIABLES
  writer,     \* PhaseWriter: started, offset, and whether it is open
  produced,   \* bytes the engine has output
  writing,    \* per stream, the Write under way
  acked,      \* bytes whose Write has returned without an error
  chunks,     \* rows of the table chunks for this phase, in the order of _offset
  logs,       \* the row of the table logs; <<>> when there is none
  deleted,    \* has the run been deleted?
  page,       \* per page: where it is, the offset it would resume from, what it shows
  faults      \* history: the faults so far

vars == <<streamVars, writer, produced, writing, acked, chunks, logs, deleted, page, faults>>
writerVars == <<writer, produced, writing, acked>>
store == <<chunks, logs, deleted>>

Quiet == [pc |-> "idle", data |-> <<>>, at |-> 0]

Init ==
  /\ StreamInit
  /\ writer = [started |-> FALSE, offset |-> 0, state |-> "open"]
  /\ produced = 0
  /\ writing = [g \in Stream |-> Quiet]
  /\ acked = {}
  /\ chunks = <<>>
  /\ logs = <<>>
  /\ deleted = FALSE
  /\ page = [p \in Page |-> [state |-> "unopened", offset |-> 0, from |-> 0, shown |-> <<>>]]
  /\ faults = {}

\* A fault happens.
Happens(fault) ==
  /\ fault \in faults \/ Cardinality(faults) < MaxFaults
  /\ faults' = faults \union {fault}

\* A fault happens that has not happened yet.
HappensOnce(fault) == fault \notin faults /\ Happens(fault)

-----------------------------------------------------------------------------
(* Chunks *)

Chunk(offset, data) == [mine |-> TRUE, offset |-> offset, data |-> data]
OtherChunk == [mine |-> FALSE, offset |-> 0, data |-> <<0>>]

NextOffset(chunk) == chunk.offset + Len(chunk.data)
IsStart(data) == data # <<>> /\ data[1] = STX
IsEnd(data) == data # <<>> /\ Last(data) = ETX

\* Chunk.Cut, without a limit: the part from the given offset on.
Cut(chunk, offset) ==
  IF offset > NextOffset(chunk)
  THEN Chunk(NextOffset(chunk), <<>>)
  ELSE Chunk(offset, SubSeq(chunk.data, offset - chunk.offset + 1, Len(chunk.data)))

\* Chunk.ToHTML: the markers are removed at either end.
ToHTML(data) ==
  LET tail == IF IsStart(data) THEN Tail(data) ELSE data IN
  IF IsEnd(tail) THEN Front(tail) ELSE tail

Coalesced(rowsInOrder) == FlattenSeq([i \in DOMAIN rowsInOrder |-> rowsInOrder[i].data])

\* What getChunk finds, before it takes the part asked for.
Stored == IF logs # <<>> THEN logs ELSE Coalesced(chunks)

getChunk(offset) == Chunk(offset, SubSeq(Stored, offset + 1, Len(Stored)))

\* Rows with equal offsets come back in an order of the database's choice.
Insertions(chunk) ==
  { InsertAt(chunks, i, chunk) : i \in { j \in 1..(Len(chunks) + 1) :
      /\ \A k \in 1..(j - 1) : chunks[k].offset <= chunk.offset
      /\ \A k \in j..Len(chunks) : chunk.offset <= chunks[k].offset } }

\* Mutant: the chunks are deleted before they are coalesced.
putChunkDeletesFirst(chunk) ==
  /\ ~deleted /\ (IsEnd(chunk.data) => logs = <<>>)
  /\ \E inOrder \in Insertions(chunk) :
       IF IsEnd(chunk.data)
       THEN /\ logs' = chunk.data
            /\ chunks' = <<>>
            /\ build_and_send_event(<<chunk>> \o inOrder)
       ELSE /\ chunks' = inOrder
            /\ logs' = logs
            /\ build_and_send_event(<<chunk>>)
  /\ UNCHANGED <<deleted, listener, enabled, subs, lapsed>>

\* The insert and, with the last chunk, the coalescing and the deletion, in
\* one transaction; each of them is an event.  A second row in logs violates
\* its primary key, a run that is gone the foreign key.
putChunk(chunk) ==
  /\ ~deleted /\ (IsEnd(chunk.data) => logs = <<>>)
  /\ \E inOrder \in Insertions(chunk) :
       IF IsEnd(chunk.data)
       THEN /\ logs' = Coalesced(inOrder)
            /\ chunks' = <<>>
            /\ build_and_send_event(<<chunk>> \o inOrder)
       ELSE /\ chunks' = inOrder
            /\ logs' = logs
            /\ build_and_send_event(<<chunk>>)
  /\ UNCHANGED <<deleted, listener, enabled, subs, lapsed>>

-----------------------------------------------------------------------------
(* PhaseWriter *)

\* The first half of Write reads started and offset.
WriteReads(g) ==
  /\ writer.state = "open"
  /\ writing[g].pc = "idle"
  /\ produced < MaxBytes
  /\ produced' = produced + 1
  /\ IF g = "stderr" THEN Happens("race") ELSE faults' = faults
  /\ writing' = [writing EXCEPT ![g] =
       [pc |-> "read", at |-> writer.offset,
        data |-> IF writer.started THEN <<produced'>> ELSE <<STX, produced'>>]]
  /\ UNCHANGED <<streamVars, store, writer, acked, page>>

\* The second half sets them; nothing keeps the other stream from the middle.
WriteSets(g) ==
  /\ writing[g].pc = "read"
  /\ writing' = [writing EXCEPT ![g].pc = "put"]
  /\ writer' = [writer EXCEPT !.started = TRUE,
                              !.offset = writing[g].at + Len(writing[g].data)]
  /\ UNCHANGED <<streamVars, store, produced, acked, page, faults>>

\* PutChunk succeeds and Write returns.
WritePuts(g) ==
  /\ writing[g].pc = "put"
  /\ putChunk(Chunk(writing[g].at, writing[g].data))
  /\ writing' = [writing EXCEPT ![g] = Quiet]
  /\ acked' = acked \union (Range(writing[g].data) \ {STX})
  /\ UNCHANGED <<writer, produced, page, faults>>

\* It succeeds, but the answer is lost and the client sends the chunk again.
WriteRetries(g) ==
  /\ writing[g].pc = "put"
  /\ putChunk(Chunk(writing[g].at, writing[g].data))
  /\ HappensOnce("repeat")
  /\ UNCHANGED <<writerVars, page>>

\* A call fails, as every call for a run that is gone does.
Fails == IF deleted THEN faults' = faults ELSE HappensOnce("failure")

\* It fails: the copying from the process ends, and with it the step.
WriteFails(g) ==
  /\ writing[g].pc = "put"
  /\ writing' = [writing EXCEPT ![g] = [Quiet EXCEPT !.pc = "ended"]]
  /\ Fails
  /\ UNCHANGED <<streamVars, store, writer, produced, acked, page>>

Ready == writer.state = "open" /\ \A g \in Stream : writing[g].pc \in {"idle", "ended"}

\* Mutant: the end has no offset.
CloseWriterAtStart ==
  /\ Ready
  /\ putChunk(Chunk(0, IF writer.started THEN <<ETX>> ELSE <<STX, ETX>>))
  /\ writer' = [writer EXCEPT !.state = "closed"]
  /\ UNCHANGED <<produced, writing, acked, page, faults>>

\* Close, deferred by the operation, marks the end of the logs.
CloseWriter ==
  /\ Ready
  /\ putChunk(Chunk(writer.offset, IF writer.started THEN <<ETX>> ELSE <<STX, ETX>>))
  /\ writer' = [writer EXCEPT !.state = "closed"]
  /\ UNCHANGED <<produced, writing, acked, page, faults>>

\* A forced cancelation has ended the context: the logs never end.
CloseFails ==
  /\ Ready
  /\ writer' = [writer EXCEPT !.state = "failed"]
  /\ Fails
  /\ UNCHANGED <<streamVars, store, produced, writing, acked, page>>

\* Another run's chunk is put.
PutOther ==
  /\ build_and_send_event(<<OtherChunk>>)
  /\ HappensOnce("other")
  /\ UNCHANGED <<listener, enabled, subs, lapsed, writerVars, store, page>>

\* The run is deleted, and its logs by cascade.
DeleteRun ==
  /\ HappensOnce("delete")
  /\ deleted' = TRUE
  /\ build_and_send_event(chunks)
  /\ chunks' = <<>> /\ logs' = <<>>
  /\ UNCHANGED <<listener, enabled, subs, lapsed, writerVars, page>>

-----------------------------------------------------------------------------
(* The run page and its tail *)

\* The page gets data that ends at the given offset.  Data without visible
\* bytes is not sent, and leaves the offset of the page alone.
Show(pg, data, next) ==
  IF ToHTML(data) = <<>> THEN pg
  ELSE [pg EXCEPT !.shown = @ \o ToHTML(data), !.offset = next]

\* getRun renders what is stored; logs that have ended are not tailed.
getRun(p) ==
  /\ page[p].state = "unopened"
  /\ page' = [page EXCEPT ![p] =
       [state |-> IF IsEnd(Stored) THEN "complete" ELSE "opened",
        offset |-> Len(Stored), from |-> 0, shown |-> ToHTML(Stored)]]
  /\ UNCHANGED <<streamVars, writerVars, store, faults>>

TailSubscribes(p) ==
  /\ page[p].state = "opened"
  /\ Subscribe(p)
  /\ page' = [page EXCEPT ![p].state = "subscribed"]
  /\ UNCHANGED <<feed, rows, listener, notified, enabled, lapsed, writerVars, store, faults>>

TailReads(p) ==
  /\ page[p].state = "subscribed"
  /\ LET chunk == getChunk(page[p].offset) IN
     page' = [page EXCEPT ![p] =
       [Show(@, chunk.data, NextOffset(chunk)) EXCEPT !.state = "tailing",
                                                       !.from = NextOffset(chunk)]]
  /\ UNCHANGED <<streamVars, writerVars, store, faults>>

\* Mutant: a chunk that overlaps what was read is sent whole.
RelayedWhole(chunk, from) == IF chunk.mine THEN chunk ELSE Chunk(from, <<>>)

\* Mutant: a chunk that begins where the read ended is taken for one that was read.
RelayedAfter(chunk, from) ==
  IF ~chunk.mine \/ chunk.offset <= from THEN Chunk(from, <<>>) ELSE chunk

\* What the tail makes of an event: the chunk without what it has read, and
\* nothing of other phases.  (The type of the event is not looked at.)
Relayed(chunk, from) ==
  CASE ~chunk.mine -> Chunk(from, <<>>)
    [] chunk.mine /\ chunk.offset < from /\ NextOffset(chunk) <= from -> Chunk(from, <<>>)
    [] chunk.mine /\ chunk.offset < from /\ NextOffset(chunk) > from -> Cut(chunk, from)
    [] chunk.mine /\ chunk.offset >= from -> chunk

\* The tail relays the next event; the last chunk ends it, and the handler.
TailRelays(p) ==
  /\ page[p].state = "tailing"
  /\ subs[p].buffer # <<>>
  /\ LET chunk == Relayed(feed[Head(subs[p].buffer)], page[p].from) IN
     /\ page' = [page EXCEPT ![p] =
          [Show(@, chunk.data, NextOffset(chunk)) EXCEPT
             !.state = IF IsEnd(chunk.data) THEN "finished" ELSE "tailing"]]
     /\ IF IsEnd(chunk.data) THEN Unsubscribe(p) ELSE Take(p)
  /\ UNCHANGED <<feed, rows, listener, notified, enabled, lapsed, writerVars, store, faults>>

\* The broker has closed the subscription: the page is told that there are
\* no more logs, and closes its connection.
TailCloses(p) ==
  /\ page[p].state = "tailing"
  /\ ~subs[p].open
  /\ subs[p].buffer = <<>>
  /\ page' = [page EXCEPT ![p].state = "cut"]
  /\ Unsubscribe(p)
  /\ UNCHANGED <<feed, rows, listener, notified, enabled, lapsed, writerVars, store, faults>>

\* The connection of the page breaks; it will connect again, from its offset.
ConnectionBreaks(p) ==
  /\ page[p].state \in {"subscribed", "tailing"}
  /\ HappensOnce("break")
  /\ page' = [page EXCEPT ![p].state = "opened"]
  /\ Unsubscribe(p)
  /\ UNCHANGED <<feed, rows, listener, notified, enabled, lapsed, writerVars, store>>

-----------------------------------------------------------------------------
ListenerSteps ==
  /\ ForwardNext \/ QueryFails \/ Start
  /\ UNCHANGED <<writerVars, store, page, faults>>

ListenerFaults ==
  /\ \/ HappensOnce("outage") /\ ConnectionLost
     \/ HappensOnce("cleanup") /\ \E id \in rows : cleanup(id)
  /\ UNCHANGED <<writerVars, store, page>>

WriterSteps(g) == WriteReads(g) \/ WriteSets(g) \/ WritePuts(g)

PageSteps(p) == TailSubscribes(p) \/ TailReads(p) \/ TailRelays(p) \/ TailCloses(p)

Next ==
  \/ \E g \in Stream : WriterSteps(g) \/ WriteRetries(g) \/ WriteFails(g)
  \/ CloseWriter
  \/ CloseFails
  \/ PutOther
  \/ DeleteRun
  \/ \E p \in Page : getRun(p) \/ PageSteps(p) \/ ConnectionBreaks(p)
  \/ ListenerSteps
  \/ ListenerFaults

\* The listener is restarted for ever, a tail is a loop of its own, a page
\* connects again for ever, and a write that has begun is carried on.
Fairness ==
  /\ WF_vars(ListenerSteps)
  /\ \A p \in Page : WF_vars(PageSteps(p))
  /\ \A g \in Stream : WF_vars(WriteSets(g) \/ WritePuts(g) \/ WriteFails(g))

Spec == Init /\ [][Next]_vars /\ Fairness

-----------------------------------------------------------------------------
TypeOK ==
  /\ StreamTypeOK
  /\ writer.started \in BOOLEAN /\ writer.offset \in Nat
  /\ writer.state \in {"open", "closed", "failed"}
  /\ produced \in 0..MaxBytes
  /\ \A g \in Stream : writing[g].pc \in {"idle", "read", "put", "ended"}
  /\ acked \subseteq 1..MaxBytes
  /\ \A i \in DOMAIN chunks : chunks[i].mine /\ chunks[i].data # <<>>
  /\ deleted \in BOOLEAN
  /\ faults \subseteq Fault
  /\ \A p \in Page : page[p].state \in
       {"unopened", "opened", "subscribed", "tailing", "finished", "cut", "complete"}

\* What is visible of some data.
Bytes(data) ==
  FlattenSeq([i \in DOMAIN data |-> IF data[i] \in {STX, ETX} THEN <<>> ELSE <<data[i]>>])

\* A byte whose Write has returned is stored, until the run is deleted:
\* neither the race of the two streams, nor a repeated or a failed call, nor
\* the coalescing loses it.
OutputKept == ~deleted => acked \subseteq Range(Stored)

\* One stream whose calls are not repeated, and a listener that has not
\* lapsed: what a page shows is a beginning of what is stored, without a
\* hole or a repetition, across the page's own reconnections.
Faithful == ~lapsed /\ faults \intersect {"race", "repeat", "delete"} = {}
PagesShowTheLogs ==
  Faithful => \A p \in Page : IsPrefix(page[p].shown, Bytes(Stored))

\* The end of the logs is their last chunk, so a page that finds it in what
\* is stored has all the output and need not tail.
EndIsLast ==
  "race" \notin faults => \A i \in 1..(Len(Stored) - 1) : Stored[i] # ETX

\* What the handler of a tail says when its channel is closed: "no more logs".
\* TLC refutes it: the broker closes the channels of slow readers as well.
FinishedPageIsComplete ==
  Faithful => \A p \in Page : page[p].state \in {"finished", "cut"} =>
    writer.state = "closed" /\ page[p].shown = Bytes(Stored)

\* A byte that is stored while a page is open is shown by the page, whether the
\* page renders it, reads it or is sent it, or the page is told that there is no
\* more because its channel was closed (run/tailer.go, Tail; run/ui/handlers.go).
PageCatchesUp ==
  \A p \in Page, byte \in 1..MaxBytes :
    page[p].state \in {"opened", "subscribed", "tailing"} /\ byte \in Range(Stored) ~>
      \/ byte \in Range(page[p].shown)
      \/ page[p].state = "cut"
      \/ ~Faithful

\* From the engine's output to a page nothing is lost, doubled or out of place:
\* what was written is stored (OutputKept) and ends with its end (EndIsLast),
\* what is shown is a beginning of it (PagesShowTheLogs).
LogsAreKept == TypeOK /\ OutputKept /\ EndIsLast /\ PagesShowTheLogs
=============================================================================
