--------------------------- MODULE ManagedStream ---------------------------
(***************************************************************************)
(* A streamed completion of src/.../application_adapter.py: the source of  *)
(* a NetworkRelay that holds a ticket of the CompletionRouter, which it    *)
(* asks for when it is opened and returns when it is closed; or, for a     *)
(* model that is not one of the router's aliases, a source without one.    *)
(***************************************************************************)
EXTENDS NetworkRelay

VARIABLE ticket   \* "unmanaged", or "none", "waiting", "active", or released as "ok" or "failed"

managedVars == <<ticket, vars>>

ManagedInit == Init /\ ticket \in {"none", "unmanaged"}

\* The ticket becomes t, if the call is managed.
TicketIs(t) == ticket' = IF ticket = "unmanaged" THEN ticket ELSE t

\* The first anext() of the source enters call(), which asks the router.
Request == Start /\ TicketIs("waiting")

\* acquire() returns, when the router sees fit.
Admitted ==
  /\ ticket = "waiting" /\ ppc = "reading" /\ ~pcancel
  /\ ticket' = "active" /\ UNCHANGED vars

\* acquire() raises.
Rejected == ticket = "waiting" /\ SourceStops(Failure, FALSE) /\ ticket' = "none"

\* The upstream yields a chunk, or cancels the task it runs in.
Streams ==
  /\ ticket \in {"active", "unmanaged"} /\ UNCHANGED ticket
  /\ SourceCancelsTask \/ \E cancels \in BOOLEAN : ReadChunk(cancels)

\* The upstream is exhausted or raises: call() releases its ticket.
Finished ==
  /\ ticket \in {"active", "unmanaged"}
  /\ \E item \in {End, Failure}, cancels \in BOOLEAN :
       SourceStops(item, cancels) /\ TicketIs(IF item = End THEN "ok" ELSE "failed")

\* Mutant of Abandoned: the ticket is kept when the source is closed early.
AbandonedHeld(fails, cancels) == CleanupEnds(fails, cancels) /\ UNCHANGED ticket

\* The source was cancelled: a call that waits takes its request back, and one
\* that streams releases its ticket after the upstream's own cleanup.
Abandoned(fails, cancels) ==
  /\ CleanupEnds(fails, cancels) /\ (fails \/ cancels => ticket # "waiting")
  /\ TicketIs(IF ticket = "active" THEN "failed" ELSE "none")

ProducerStops ==
  (CancelledAtStart \/ Unblock \/ CancelledWhileOpen \/ CancelledAtTerminal) /\ UNCHANGED ticket

CallerRuns ==
  (AskNext \/ Get \/ LeaveBody \/ CancelCaller \/ Join \/ Terminated) /\ UNCHANGED ticket

ManagedNext ==
  \/ Request \/ Admitted \/ Rejected \/ Streams \/ Finished \/ ProducerStops \/ CallerRuns
  \/ \E fails, cancels \in BOOLEAN : Abandoned(fails, cancels)

ManagedSpec == ManagedInit /\ [][ManagedNext]_managedVars

-----------------------------------------------------------------------------

\* A credit of the model is held only while the source is open, so it is back
\* when the relay is left, even by a caller that was cancelled or read nothing;
\* and the router is told of a success exactly when the stream was exhausted.
TicketReturned ==
  /\ ticket \in {"waiting", "active"} => open
  /\ cpc = "exited" => ticket \notin {"waiting", "active"}
  /\ outcome = "exhausted" => ticket \in {"ok", "unmanaged"}
  /\ outcome = "failed" => ticket \in {"none", "failed", "unmanaged"}
=============================================================================
