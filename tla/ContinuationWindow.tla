------------------------- MODULE ContinuationWindow -------------------------
(***************************************************************************)
(* The dispatch window of src/.../continuation.py: one resource with a     *)
(* bounded number of credits, whose waiting calls are served by the        *)
(* progress of their workflow, overdue calls first.                        *)
(*                                                                         *)
(* Tasks of one event loop enter slot(); a handler runs without an await,  *)
(* so it is one action with the _dispatch() that ends it.  A task has at   *)
(* most one ticket (a nested slot() of the same task takes none), so the   *)
(* task names the ticket.  Sequence numbers are kept as "who is ahead of   *)
(* whom"; progress counts up to 3, as far as priorities tell it apart.     *)
(***************************************************************************)
EXTENDS Integers, FiniteSets

CONSTANTS
  Task,       \* asyncio tasks that enter the window
  Flow,       \* workflows
  FlowOf,     \* [Task -> Flow], the workflow context of each task
  Capacity,   \* credits of the window
  Orderings   \* the orderings a window is made with

ASSUME ConstantsAssumption ==
  /\ IsFiniteSet(Task)
  /\ FlowOf \in [Task -> Flow]
  /\ Capacity \in Nat \ {0}
  /\ Orderings \subseteq {"continuation", "fifo"}

VARIABLES
  ordering,   \* self.ordering, never changed
  pc,         \* each task: "idle", "waiting" on ticket.ready, in its "body"
  ready,      \* the future ticket.ready
  cancelling, \* tasks with a CancelledError to be thrown at their await
  acquired, released,  \* flags of the ticket
  pending,    \* self.pending
  ahead,      \* pending tickets with a smaller sequence number
  aged,       \* pending tickets queued for aging_s or longer
  active,     \* self.active
  completed   \* flow.completed, up to 3

vars == <<ordering, pc, ready, cancelling, acquired, released, pending, ahead,
          aged, active, completed>>

MaxProgress == 3

-----------------------------------------------------------------------------

\* Mutant of Precedes: time in the queue gives no precedence.
PrecedesByProgress(t, u, ahd) ==
  LET m == completed'[FlowOf[t]]
      n == completed'[FlowOf[u]]
  IN  m > n \/ (m = n /\ t \in ahd[u])

\* priority(t) < priority(u) in _dispatch, with the progress at that moment.
Precedes(t, u, ahd) ==
  LET overdue(x) == ordering = "fifo" \/ x \in aged
      m == completed'[FlowOf[t]]
      n == completed'[FlowOf[u]]
  IN  \/ overdue(t) /\ (overdue(u) => t \in ahd[u])
      \/ ~overdue(t) /\ ~overdue(u) /\ (m > n \/ (m = n /\ t \in ahd[u]))

\* Mutant of Granted: one credit more than there are free.
GrantedOneMore(queue, act, ahd) ==
  {t \in queue : Cardinality({u \in queue : Precedes(u, t, ahd)}) <= Capacity - act}

\* The tickets the loop of _dispatch takes from the queue while credits last.
Granted(queue, act, ahd) ==
  {t \in queue : Cardinality({u \in queue : Precedes(u, t, ahd)}) < Capacity - act}

\* _dispatch(), given what the handler that calls it has left of the queue,
\* the credit count, the futures, the flags and the arrival order.
Dispatch(pend, act, fut, acq, ahd) ==
  LET queue == {t \in pend : fut[t] # "cancelled"}
      go    == Granted(queue, act, ahd)
      left  == queue \ go
  IN  /\ pending' = left
      /\ active' = act + Cardinality(go)
      /\ ready' = [t \in Task |-> IF t \in go THEN "set" ELSE fut[t]]
      /\ acquired' = [t \in Task |-> t \in go \/ acq[t]]
      /\ ahead' = [t \in Task |-> IF t \in left THEN ahd[t] \cap left ELSE {}]
      /\ aged' = aged \cap left

\* Mutant of Release: a ticket that was granted but never ran gives nothing back.
ReleaseIfRun(t, success) ==
  /\ released' = [released EXCEPT ![t] = TRUE]
  /\ completed' = IF acquired[t] /\ success /\ completed[FlowOf[t]] < MaxProgress
                  THEN [completed EXCEPT ![FlowOf[t]] = @ + 1] ELSE completed
  /\ Dispatch(pending \ {t}, IF pc[t] = "body" THEN active - 1 ELSE active,
              [ready EXCEPT ![t] = "none"], [acquired EXCEPT ![t] = FALSE], ahead)

\* Mutant of Release: a call that fails gives its credit back but wakes nobody.
ReleaseQuietOnFailure(t, success) ==
  /\ acquired[t] /\ ~success
  /\ released' = [released EXCEPT ![t] = TRUE]
  /\ ready' = [ready EXCEPT ![t] = "none"]
  /\ acquired' = [acquired EXCEPT ![t] = FALSE]
  /\ active' = active - 1
  /\ UNCHANGED <<completed, pending, ahead, aged>>

\* _release(ticket, success): leaves the queue or returns the credit, counts
\* progress and dispatches.  The ticket is dropped: its flags are reset.
Release(t, success) ==
  /\ released' = [released EXCEPT ![t] = TRUE]
  /\ completed' = IF acquired[t] /\ success /\ completed[FlowOf[t]] < MaxProgress
                  THEN [completed EXCEPT ![FlowOf[t]] = @ + 1] ELSE completed
  /\ Dispatch(pending \ {t}, IF acquired[t] THEN active - 1 ELSE active,
              [ready EXCEPT ![t] = "none"], [acquired EXCEPT ![t] = FALSE], ahead)

-----------------------------------------------------------------------------

Init ==
  /\ ordering \in Orderings
  /\ pc = [t \in Task |-> "idle"]
  /\ ready = [t \in Task |-> "none"]
  /\ cancelling = {}
  /\ acquired = [t \in Task |-> FALSE]
  /\ released = [t \in Task |-> TRUE]
  /\ pending = {} /\ aged = {}
  /\ ahead = [t \in Task |-> {}]
  /\ active = 0
  /\ completed = [f \in Flow |-> 0]

\* slot() up to its await; a future that is already set does not suspend.
Enter(t) ==
  /\ pc[t] = "idle"
  /\ released' = [released EXCEPT ![t] = FALSE]
  /\ UNCHANGED <<ordering, cancelling, completed>>
  /\ Dispatch(pending \cup {t}, active, [ready EXCEPT ![t] = "waiting"], acquired,
              [ahead EXCEPT ![t] = pending])
  /\ pc' = [pc EXCEPT ![t] = IF ready'[t] = "set" THEN "body" ELSE "waiting"]

Resume(t) ==
  /\ pc[t] = "waiting" /\ ready[t] = "set" /\ t \notin cancelling
  /\ pc' = [pc EXCEPT ![t] = "body"]
  /\ UNCHANGED <<ordering, ready, cancelling, acquired, released, pending, ahead,
                 aged, active, completed>>

\* task.cancel(): cancels a future that is not done at once, and otherwise
\* leaves the error to be thrown when the task resumes.
Cancel(t) ==
  /\ pc[t] = "waiting" /\ t \notin cancelling
  /\ cancelling' = cancelling \cup {t}
  /\ ready' = [ready EXCEPT ![t] = IF @ = "waiting" THEN "cancelled" ELSE @]
  /\ UNCHANGED <<ordering, pc, acquired, released, pending, ahead, aged, active,
                 completed>>

\* The await raises CancelledError, and finally releases.
EnterCancelled(t) ==
  /\ pc[t] = "waiting" /\ t \in cancelling
  /\ cancelling' = cancelling \ {t}
  /\ pc' = [pc EXCEPT ![t] = "idle"]
  /\ UNCHANGED ordering
  /\ Release(t, FALSE)

\* The body returns, or fails or is cancelled.
Leave(t, success) ==
  /\ pc[t] = "body"
  /\ pc' = [pc EXCEPT ![t] = "idle"]
  /\ UNCHANGED <<ordering, cancelling>>
  /\ Release(t, success)

\* A workflow whose calls are all over ends, and another takes its place.
NewFlow(f) ==
  /\ completed[f] > 0 /\ \A t \in Task : FlowOf[t] = f => pc[t] = "idle"
  /\ completed' = [completed EXCEPT ![f] = 0]
  /\ UNCHANGED <<ordering, pc, ready, cancelling, acquired, released, pending, ahead,
                 aged, active>>

\* Time passes until the oldest ticket that is not overdue becomes overdue.
Age(t) ==
  /\ ordering = "continuation"
  /\ t \in pending \ aged /\ ahead[t] \subseteq aged
  /\ aged' = aged \cup {t}
  /\ UNCHANGED <<ordering, pc, ready, cancelling, acquired, released, pending, ahead,
                 active, completed>>

Next ==
  \/ \E t \in Task : Enter(t)
  \/ \E t \in Task : Resume(t)
  \/ \E t \in Task : Cancel(t)
  \/ \E t \in Task : EnterCancelled(t)
  \/ \E t \in Task, success \in BOOLEAN : Leave(t, success)
  \/ \E f \in Flow : NewFlow(f)
  \/ \E t \in Task : Age(t)

Spec == Init /\ [][Next]_vars

\* What the event loop does for a task once it can run again.
Proceed(t) == Resume(t) \/ EnterCancelled(t) \/ \E success \in BOOLEAN : Leave(t, success)

-----------------------------------------------------------------------------

\* Types of the state.
TypeOK ==
  /\ ordering \in Orderings
  /\ pc \in [Task -> {"idle", "waiting", "body"}]
  /\ ready \in [Task -> {"none", "waiting", "set", "cancelled"}]
  /\ cancelling \subseteq Task
  /\ acquired \in [Task -> BOOLEAN]
  /\ released \in [Task -> BOOLEAN]
  /\ pending \subseteq Task /\ aged \subseteq pending
  /\ ahead \in [Task -> SUBSET Task]
  /\ active \in 0..Capacity
  /\ completed \in [Flow -> 0..MaxProgress]

Holders == {t \in Task : acquired[t] /\ ~released[t]}

\* The counter agrees with the tickets: it is the number of calls that were
\* granted a credit and have not given it back, and never exceeds the capacity,
\* also when a call is cancelled between its grant and its first step.
CreditsCounted == active = Cardinality(Holders) /\ active <= Capacity

\* No credit outlives its call: a task that is outside slot() has none, so a
\* window nobody uses is empty.
NoCreditLeak ==
  /\ \A t \in Holders \cup pending : pc[t] # "idle"
  /\ (\A t \in Task : pc[t] = "idle") => active = 0 /\ pending = {}

Waiting(t) == t \in pending /\ ready[t] = "waiting"

\* A live request waits only while every credit is out: no release, cancelled
\* grant or withdrawn request is a missed wake-up.
WorkConserving == (\E t \in Task : Waiting(t)) => active = Capacity

OvertakesNoOverdue ==
  \A t \in Task, u \in aged \cap pending' :
    (acquired'[t] /\ ~acquired[t] /\ Waiting(u)') => t \in aged /\ t \in ahead[u]

\* "Aged pending work takes FIFO precedence": no call is granted a credit while
\* an overdue call stays in the queue, unless it is overdue and older itself.
OverdueFirst == [][OvertakesNoOverdue]_vars

\* "... preventing fresh workflows from waiting behind an endless loop": every
\* request is granted or cancelled.
EventuallyGranted == \A t \in Task : Waiting(t) ~> ~Waiting(t)

Asking  == {t \in Task : Waiting(t)}
Usable  == [t \in Task |-> IF t \in Asking THEN {"window"} ELSE {}]
Holding == [p \in {"window"} |-> Holders]
Credits == [p \in {"window"} |-> Capacity]

\* The window is a pool with one place that gives Capacity credits: its steps are
\* the pool's.
Pool == INSTANCE CreditPool WITH
  Caller <- Task, Place <- {"window"},
  asking <- Asking, usable <- Usable, holding <- Holding, credits <- Credits

ImplementsPool == Pool!Spec
=============================================================================
