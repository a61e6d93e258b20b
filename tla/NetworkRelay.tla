---------------------------- MODULE NetworkRelay ----------------------------
(***************************************************************************)
(* NetworkHarness.relay of src/.../network_harness.py: a producer task     *)
(* drains a source into a bounded asyncio.Queue, the caller's task reads   *)
(* the queue, and leaving the context closes the source.                   *)
(*                                                                         *)
(* One action per run of a task between two awaits.  Chunks are numbered   *)
(* in the order the source yields them.  A pending task.cancel() of the    *)
(* producer is pcancel: its next step throws CancelledError at its await.  *)
(* The source is external: it yields, ends, fails or cancels its own task, *)
(* and its cleanup (aclose or finally blocks) takes time and may fail.     *)
(* One that is thrown a CancelledError ends.                               *)
(***************************************************************************)
EXTENDS Integers, Sequences

CONSTANTS
  BufferChunks,    \* self.buffer_chunks
  MaxChunks        \* bound: the chunks a source may yield

ASSUME ConstantsAssumption ==
  /\ BufferChunks \in Nat \ {0}
  /\ MaxChunks \in Nat

VARIABLES
  ppc,       \* the producer: "start", "reading" the source, "putting" a chunk
             \* into a full queue, in the source's "cleanup", putting the
             \* "terminal" item into a full queue, "done"
  pcancel,   \* the producer is to be thrown a CancelledError
  held,      \* the item a blocked producer holds
  read,      \* chunks read from the source
  open,      \* the source is open, with the admission slot it owns
  queue,     \* the asyncio.Queue
  cpc,       \* the caller's task: in "get", in its "body" with a chunk, after
             \* the "end" of the stream, in "join" on the producer, "exited"
  delivered, \* chunks yielded to the caller
  closing,   \* the relay is being left
  outcome,   \* how the stream went for the caller
  lost       \* history: what a cancel took from a producer before closing,
             \* a read "chunk" or the "terminal" item

producerVars == <<ppc, held, read, open, lost>>
callerVars   == <<cpc, delivered, closing, outcome>>
vars == <<ppc, pcancel, held, read, open, queue, cpc, delivered, closing, outcome, lost>>

\* Items of the queue that are not chunks, and no item.
End     == 0
Failure == -1
Nothing == -2

Full == Len(queue) >= BufferChunks

-----------------------------------------------------------------------------

Init ==
  /\ ppc = "start" /\ pcancel = FALSE /\ held = Nothing
  /\ read = 0 /\ open = FALSE /\ queue = <<>>
  /\ cpc = "body" /\ delivered = 0 /\ closing = FALSE /\ outcome = "streaming"
  /\ lost = {}

\* The producer takes its first step: it opens the source.
Start ==
  /\ ppc = "start" /\ ~pcancel
  /\ ppc' = "reading" /\ open' = TRUE
  /\ UNCHANGED <<pcancel, held, read, queue, callerVars, lost>>

\* A producer that is cancelled before its first step never runs.
CancelledAtStart ==
  /\ ppc = "start" /\ pcancel
  /\ ppc' = "done" /\ pcancel' = FALSE
  /\ UNCHANGED <<held, read, open, queue, callerVars, lost>>

\* put(value): into the queue at once, or the producer blocks at blocked.  If the
\* source cancelled its task on the way and nothing was awaited since, a producer
\* that blocks is cancelled there; one that does not runs on, and its next await
\* is another action.
Put(value, blocked, after, cancels) ==
  IF Full THEN /\ ppc' = blocked /\ held' = value /\ pcancel' = cancels /\ UNCHANGED queue
          ELSE /\ ppc' = after /\ held' = Nothing /\ pcancel' = FALSE
               /\ queue' = Append(queue, value)

\* Mutant of ReadChunk: the chunk is queued whether there is room or not.
ReadChunkUnbounded(cancels) ==
  /\ ppc = "reading" /\ ~pcancel /\ read < MaxChunks
  /\ read' = read + 1
  /\ queue' = Append(queue, read + 1)
  /\ UNCHANGED <<ppc, held, pcancel, open, callerVars, lost>>

\* The source yields its next chunk.
ReadChunk(cancels) ==
  /\ ppc = "reading" /\ ~pcancel /\ read < MaxChunks
  /\ read' = read + 1
  /\ Put(read + 1, "putting", "reading", cancels)
  /\ UNCHANGED <<open, callerVars, lost>>

\* The source calls cancel() of the task it runs in, the producer, and awaits.
SourceCancelsTask ==
  /\ ppc = "reading" /\ ~pcancel
  /\ pcancel' = TRUE
  /\ UNCHANGED <<producerVars, queue, callerVars>>

\* The source ends, or raises an exception or a CancelledError of its own:
\* closing it again is a no-op, and the terminal item follows the chunks.
SourceStops(item, cancels) ==
  /\ ppc = "reading" /\ ~pcancel
  /\ open' = FALSE
  /\ Put(item, "terminal", "done", cancels)
  /\ UNCHANGED <<read, callerVars, lost>>

\* A blocked put finds room.
Unblock ==
  /\ ppc \in {"putting", "terminal"} /\ ~pcancel /\ ~Full
  /\ Put(held, ppc, IF ppc = "putting" THEN "reading" ELSE "done", FALSE)
  /\ UNCHANGED <<read, open, callerVars, lost>>

\* CancelledError at the source's await or at the put of a chunk, which is lost:
\* aclosing runs the source's cleanup.
CancelledWhileOpen ==
  /\ ppc \in {"reading", "putting"} /\ pcancel
  /\ ppc' = "cleanup" /\ held' = Nothing /\ pcancel' = FALSE
  /\ lost' = IF ppc = "putting" /\ ~closing THEN lost \cup {"chunk"} ELSE lost
  /\ UNCHANGED <<read, open, queue, callerVars>>

\* The cleanup ends.  The CancelledError goes on: it ends the producer when the
\* relay is being left, and is put as a failure when the source cancelled its
\* own task; an exception of the cleanup replaces it, and is always put.  The
\* cleanup, too, may cancel its task.  A cancel of the caller's during the
\* cleanup adds no other outcome.
CleanupEnds(fails, cancels) ==
  /\ ppc = "cleanup"
  /\ open' = FALSE
  /\ IF fails \/ ~closing THEN Put(Failure, "terminal", "done", cancels)
     ELSE ppc' = "done" /\ pcancel' = FALSE /\ UNCHANGED <<held, queue>>
  /\ UNCHANGED <<read, callerVars, lost>>

\* CancelledError at the put of the terminal item, which is lost, ends the
\* producer.
CancelledAtTerminal ==
  /\ ppc = "terminal" /\ pcancel
  /\ ppc' = "done" /\ held' = Nothing /\ pcancel' = FALSE
  /\ lost' = IF closing THEN lost ELSE lost \cup {"terminal"}
  /\ UNCHANGED <<read, open, queue, callerVars>>

-----------------------------------------------------------------------------

\* Mutant of Teardown: the caller does not wait for the producer.
TeardownWithoutJoin ==
  /\ closing' = TRUE
  /\ pcancel' = (ppc # "done")
  /\ cpc' = "exited"

\* Mutant of Teardown: the producer is awaited and not cancelled.
TeardownWithoutCancel ==
  /\ closing' = TRUE
  /\ pcancel' = FALSE
  /\ cpc' = IF ppc = "done" THEN "exited" ELSE "join"

\* The finally block up to its await: it cancels a producer that still runs.
Teardown ==
  /\ closing' = TRUE
  /\ pcancel' = (ppc # "done")
  /\ cpc' = IF ppc = "done" THEN "exited" ELSE "join"

\* The caller asks for the next chunk.
AskNext ==
  /\ cpc = "body"
  /\ cpc' = "get"
  /\ UNCHANGED <<producerVars, pcancel, queue, delivered, closing, outcome>>

\* Mutant of Get: the newest item is taken.
GetNewest ==
  /\ cpc = "get" /\ queue # <<>>
  /\ queue' = SubSeq(queue, 1, Len(queue) - 1)
  /\ LET item == queue[Len(queue)] IN
       \/ item > 0 /\ cpc' = "body" /\ delivered' = delivered + 1
            /\ UNCHANGED <<pcancel, closing, outcome>>
       \/ item = End /\ cpc' = "end" /\ outcome' = "exhausted"
            /\ UNCHANGED <<pcancel, closing, delivered>>
       \/ item = Failure /\ Teardown /\ outcome' = "failed" /\ UNCHANGED delivered
  /\ UNCHANGED producerVars

\* queue.get() returns: a chunk is yielded, the end marker ends the loop, a
\* failure is raised out of the caller's body.
Get ==
  /\ cpc = "get" /\ queue # <<>>
  /\ queue' = Tail(queue)
  /\ LET item == Head(queue) IN
       \/ item > 0 /\ cpc' = "body" /\ delivered' = delivered + 1
            /\ UNCHANGED <<pcancel, closing, outcome>>
       \/ item = End /\ cpc' = "end" /\ outcome' = "exhausted"
            /\ UNCHANGED <<pcancel, closing, delivered>>
       \/ item = Failure /\ Teardown /\ outcome' = "failed" /\ UNCHANGED delivered
  /\ UNCHANGED producerVars

\* The caller's body ends, with or without an exception of its own.
LeaveBody ==
  /\ cpc \in {"body", "end"}
  /\ Teardown
  /\ UNCHANGED <<producerVars, queue, delivered, outcome>>

\* The caller's task is cancelled in the relay.  While it waits for the
\* producer the cancel is passed on to the producer.
CancelCaller ==
  \/ /\ cpc = "get"
     /\ Teardown /\ outcome' = "cancelled"
     /\ UNCHANGED <<producerVars, queue, delivered>>
  \/ /\ cpc = "join" /\ ppc # "done"
     /\ pcancel' = TRUE
     /\ UNCHANGED <<producerVars, queue, callerVars>>

\* The awaited producer has ended; its CancelledError is swallowed.
Join ==
  /\ cpc = "join" /\ ppc = "done"
  /\ cpc' = "exited"
  /\ UNCHANGED <<producerVars, pcancel, queue, delivered, closing, outcome>>

SourceActs ==
  \/ SourceCancelsTask
  \/ \E cancels \in BOOLEAN :
       ReadChunk(cancels) \/ \E item \in {End, Failure} : SourceStops(item, cancels)

ProducerRuns ==
  \/ Start \/ CancelledAtStart \/ Unblock
  \/ CancelledWhileOpen \/ CancelledAtTerminal
  \/ \E fails, cancels \in BOOLEAN : CleanupEnds(fails, cancels)

Terminated == cpc = "exited" /\ ppc = "done" /\ UNCHANGED vars

Next ==
  \/ SourceActs \/ ProducerRuns
  \/ AskNext \/ Get \/ LeaveBody \/ CancelCaller \/ Join
  \/ Terminated

Spec == Init /\ [][Next]_vars

\* The loop runs both tasks, a source that is read answers and its cleanup
\* ends.  Nothing makes the caller read on, leave or be cancelled.
FairSpec ==
  /\ Spec
  /\ WF_vars(SourceActs) /\ WF_vars(ProducerRuns) /\ WF_vars(Get) /\ WF_vars(Join)

-----------------------------------------------------------------------------

\* Types of the state.
TypeOK ==
  /\ ppc \in {"start", "reading", "putting", "cleanup", "terminal", "done"}
  /\ pcancel \in BOOLEAN /\ open \in BOOLEAN /\ closing \in BOOLEAN
  /\ read \in 0..MaxChunks /\ delivered \in 0..MaxChunks
  /\ held \in {Nothing, Failure, End} \cup 1..MaxChunks
  /\ queue \in Seq({Failure, End} \cup 1..MaxChunks)
  /\ cpc \in {"body", "get", "end", "join", "exited"}
  /\ outcome \in {"streaming", "exhausted", "failed", "cancelled"}
  /\ lost \subseteq {"chunk", "terminal"}

\* Memory is bounded: the queue never exceeds its bound, and at most one more
\* chunk, in the hands of a blocked producer, has been read and not delivered
\* ("bounded memory is preferred to unbounded prefetch").
BoundedPrefetch ==
  /\ Len(queue) <= BufferChunks
  /\ ~closing => read - delivered <= BufferChunks + 1

\* What is between the source and the caller, in order.
InFlight == IF held = Nothing THEN queue ELSE Append(queue, held)

\* The chunks read that no cancel took from the producer.
Kept == IF "chunk" \in lost THEN read - 1 ELSE read

\* Every chunk the source yields reaches the caller exactly once and in order,
\* and a terminal item comes after all of them: while the relay is open, what
\* is in flight is the chunks after the delivered ones, then at most one
\* terminal item.  An exhausted or failed stream has delivered every chunk; only
\* a source that cancels its own task takes one, the last it yielded, with it,
\* and then the stream does not look exhausted.
ExactlyOnceInOrder ==
  /\ ~closing => /\ \A i \in 1..Len(InFlight) :
                      IF delivered + i <= Kept THEN InFlight[i] = delivered + i
                      ELSE i = Len(InFlight) /\ InFlight[i] \in {End, Failure}
                 /\ outcome = "streaming" => Len(InFlight) >= Kept - delivered
  /\ outcome \in {"exhausted", "failed"} => delivered = Kept
  /\ outcome = "exhausted" => lost = {}

\* When the context is left the producer has ended and the source is closed,
\* so the admission slot the source owns is free; it is free as soon as the
\* source ends, before the caller has drained the queue.
ClosedOnExit ==
  /\ cpc = "exited" => ppc = "done" /\ ~open
  /\ ppc \in {"terminal", "done"} => ~open

\* The producer blocks on a terminal item although the relay is being left.
BlockedOnAbandonedBuffer == closing /\ ppc = "terminal" /\ ~pcancel

\* The caller waits for an item that a cancel of the source's own took.
WaitsForLostTerminal == cpc = "get" /\ queue = <<>> /\ "terminal" \in lost

\* A caller that waits for the next item is woken; and leaving the context ends,
\* however full the buffer and wherever the producer is.  The two exceptions are
\* what SelfCancelWakesCaller and AbandonedBufferNeverBlocks are about.
NobodyHangs ==
  /\ cpc = "get" ~> cpc # "get" \/ WaitsForLostTerminal
  /\ closing ~> cpc = "exited" \/ BlockedOnAbandonedBuffer

\* "An upstream may cancel its own task.  Wake the consumer with that exact error
\* instead of silently leaving it on queue.get()" (the comment in produce): a
\* caller in get() is woken.  It fails when the source cancels its task and ends,
\* raises or is closed without another await: with a full queue the CancelledError
\* is thrown at the put of the terminal item, and nothing follows the chunks.
SelfCancelWakesCaller == cpc = "get" ~> cpc # "get"

\* "Do not enqueue a terminal item into a full abandoned buffer" (the comment
\* in produce): once the relay is being left, the producer does not stay blocked
\* on a terminal item that nobody will take.  It fails when the cleanup of the
\* cancelled source raises: the handler for exceptions does not look at closing,
\* and the caller waits for the producer forever.
AbandonedBufferNeverBlocks == BlockedOnAbandonedBuffer ~> ppc = "done"
=============================================================================
