-------------------------- MODULE CompletionRouter --------------------------
(***************************************************************************)
(* Admission of completion calls to replicas, src/.../completion.py.       *)
(*                                                                         *)
(* Tasks of one asyncio event loop call acquire(), wait on the future of   *)
(* their ticket, run a body and release().  Every handler runs without an  *)
(* await, so it is one action, with the _dispatch() that ends it.          *)
(* A task has at most one ticket, so the task names the ticket.            *)
(*                                                                         *)
(* Abstractions.  Scores (service estimates, EWMA history, residual work)  *)
(* only decide WHICH replica a ticket tries and, for "coflow", in which    *)
(* order tickets that are not overdue are tried: both are choices here.    *)
(* A lane of an active call has a positive remaining time, so a ticket     *)
(* meets queue = 0 exactly when its receiver has a lane that no active     *)
(* call and no earlier ticket of the same pass has taken.  Sequence        *)
(* numbers are kept as "who is ahead of whom", dispatch numbers as ranks.  *)
(***************************************************************************)
EXTENDS Integers, FiniteSets

CONSTANTS
  Task,        \* asyncio tasks, each making one call at a time
  Root,        \* root_id: the questions the calls belong to
  Replica, Receiver, Contract,
  RootOf,      \* [Task -> Root]
  ReceiverOf,  \* [Replica -> Receiver], ReplicaSpec.resource_id
  ContractOf,  \* [Replica -> Contract], ReplicaSpec.contract_id
  Slowness,    \* [Replica -> Nat], the order of (initial_service_ms, replica_id)
  Capacity,    \* [Receiver -> Nat \ {0}], ReceiverSpec.capacity
  Request,     \* calls: records of a contract and a set of allowed replicas
  Orderings,   \* the values of CompletionPolicy.ordering a router is made with
  Routing,     \* "fastest", or "any" for "completion" and "recent"
  Toggled,     \* replicas whose health a checker may change
  NoReplica, NoRequest

ASSUME ConstantsAssumption ==
  /\ IsFiniteSet(Task) /\ IsFiniteSet(Root)
  /\ RootOf \in [Task -> Root]
  /\ ReceiverOf \in [Replica -> Receiver]
  /\ ContractOf \in [Replica -> Contract]
  /\ Slowness \in [Replica -> Nat]
  /\ Capacity \in [Receiver -> Nat \ {0}]
  /\ Request \subseteq [contract : Contract, allowed : SUBSET Replica]
  /\ Orderings \subseteq {"fifo", "coflow", "fair"}
  /\ Routing \in {"fastest", "any"}
  /\ Toggled \subseteq Replica
  /\ NoReplica \notin Replica
  /\ NoRequest \notin Request

VARIABLES
  ordering,     \* self.policy.ordering, never changed
  pc,           \* where each task is: "idle", "waiting" on its future, "body"
  request,      \* the call each ticket was made for
  future,       \* the ticket's future
  cancelling,   \* tasks with a CancelledError to be thrown at their await
  released,     \* ticket.released
  assigned,     \* ticket.replica_id
  pending,      \* self._pending
  ahead,        \* pending tickets with a smaller sequence number
  aged,         \* pending tickets older than starvation_seconds
  active,       \* self._active
  enabled,      \* self._enabled
  lastDispatch, \* self._last_dispatch as ranks; 0 for a root not in it
  recheck       \* is the recheck timer armed

vars == <<ordering, pc, request, future, cancelling, released, assigned, pending, ahead,
          aged, active, enabled, lastDispatch, recheck>>

-----------------------------------------------------------------------------

EligibleFor(q) == {r \in q.allowed : ContractOf[r] = q.contract}

\* Mutant of Choices: replicas that were disabled are still tried.
ChoicesIgnoringHealth(t) == EligibleFor(request[t])

\* Enabled replicas a ticket may be sent to.
Choices(t) == EligibleFor(request[t]) \cap enabled

\* Lanes of receiver v that no call in act occupies.
Idle(v, act) == Capacity[v] - Cardinality({t \in act : ReceiverOf[assigned[t]] = v})

\* The replica each ready ticket tries: the best score, see the header.
Picks(ready) ==
  {pick \in [ready -> Replica] :
     \A t \in ready :
       /\ pick[t] \in Choices(t)'
       /\ Routing = "fastest" =>
            \A r \in Choices(t)' : Slowness[pick[t]] <= Slowness[r]}

LiveRoots(queue, act) == {RootOf[t] : t \in queue \cup act}

\* The turns of roots that still have a pending or an active ticket.
Pruned(queue, act) ==
  [x \in Root |-> IF x \in LiveRoots(queue, act) THEN lastDispatch[x] ELSE 0]

\* Mutant of RoundOf: the youngest ticket of a question is taken first.
RoundOfYoungest(t, queue, ahd) ==
  Cardinality({u \in queue \ ahd[t] : RootOf[u] = RootOf[t]})

\* The how-manieth ticket of its question t is in the queue.
RoundOf(t, queue, ahd) ==
  Cardinality({u \in queue \cap ahd[t] : RootOf[u] = RootOf[t]})

\* Mutant of RootBefore: the question served last goes first.
RootBeforeReversed(x, y, queue, ahd, turn) ==
  \/ turn[x] > turn[y]
  \/ /\ turn[x] = turn[y]
     /\ \E t \in queue :
          RootOf[t] = x /\ \A u \in queue : RootOf[u] = y => t \in ahd[u]

\* Question x is served before question y in every round of fair ordering.
RootBefore(x, y, queue, ahd, turn) ==
  \/ turn[x] < turn[y]
  \/ /\ turn[x] = turn[y]
     /\ \E t \in queue :
          RootOf[t] = x /\ \A u \in queue : RootOf[u] = y => t \in ahd[u]

FairBefore(t, u, queue, ahd, turn) ==
  LET m == RoundOf(t, queue, ahd)
      n == RoundOf(u, queue, ahd)
  IN  \/ m < n
      \/ m = n /\ RootBefore(RootOf[t], RootOf[u], queue, ahd, turn)

\* Mutant of CoflowBefore: waiting time gives no precedence.
CoflowBeforeWithoutAging(t, u, ahd) == RootOf[t] = RootOf[u] => t \in ahd[u]

\* An overdue ticket goes first, in arrival order; of two that are not, the
\* older goes first when they share the visible work of one question.
CoflowBefore(t, u, ahd) ==
  \/ t \in aged /\ (u \in aged => t \in ahd[u])
  \/ t \notin aged /\ u \notin aged /\ (RootOf[t] = RootOf[u] => t \in ahd[u])

Before(t, u, queue, ahd, turn) ==
  CASE ordering = "fifo"   -> t \in ahd[u]
    [] ordering = "coflow" -> CoflowBefore(t, u, ahd)
    [] ordering = "fair"   -> FairBefore(t, u, queue, ahd, turn)

\* The orders _ordered() may return, as the position of each ticket.
Orders(queue, ahd, turn) ==
  {pos \in [queue -> 1..Cardinality(queue)] :
     \A t, u \in queue : t # u =>
       /\ pos[t] # pos[u]
       /\ pos[t] < pos[u] => Before(t, u, queue, ahd, turn)}

\* When the pass reaches t, its receiver has a lane left: fewer earlier tickets
\* tried the receiver than it has lanes idle.
MeetsIdleLane(t, ready, act, pick, pos) ==
  LET v == ReceiverOf[pick[t]]
  IN  Cardinality({u \in ready : pos[u] < pos[t] /\ ReceiverOf[pick[u]] = v}) < Idle(v, act)

\* Mutant of Admitted: the pass does not reserve the lanes it hands out.
AdmittedUnreserved(ready, act, pick, pos) ==
  {t \in ready : Idle(ReceiverOf[pick[t]], act) > 0}

\* Mutant of Admitted: the pass stops at the first ticket that must wait.
AdmittedHeadOfLine(ready, act, pick, pos) ==
  {t \in ready : \A u \in ready :
     pos[u] <= pos[t] => MeetsIdleLane(u, ready, act, pick, pos)}

\* Tickets for which the pass finds a free lane on the receiver they try.
Admitted(ready, act, pick, pos) ==
  {t \in ready : MeetsIdleLane(t, ready, act, pick, pos)}

\* Turns after a pass: the roots served now come last, in the order served.
NextTurns(go, pos, turn) ==
  LET raw == [x \in Root |->
                LET mine == {t \in go : RootOf[t] = x}
                IN  IF mine = {} THEN turn[x]
                    ELSE Cardinality(Root)
                         + (CHOOSE n \in {pos[t] : t \in mine} :
                              \A t \in mine : pos[t] <= n)]
  IN  [x \in Root |-> IF raw[x] = 0 THEN 0
                      ELSE Cardinality({y \in Root : raw[y] > 0 /\ raw[y] <= raw[x]})]

\* _dispatch(), given what the handler that calls it has left of the queue,
\* of the active calls, of the futures, flags and arrival order.
Dispatch(pend, act, fut, rel, ahd) ==
  LET swept == {t \in pend : fut[t] = "cancelled"}
      queue == pend \ swept
      ready == {t \in queue : Choices(t)' # {}}
      turn  == Pruned(queue, act)
  IN  \E pick \in Picks(ready), pos \in Orders(queue, ahd, turn) :
        LET go == Admitted(ready, act, pick, pos)
        IN  /\ pending' = queue \ go
            /\ active' = act \cup go
            /\ future' = [t \in Task |-> IF t \in go THEN "set" ELSE fut[t]]
            /\ released' = [t \in Task |-> IF t \in swept THEN TRUE ELSE rel[t]]
            /\ assigned' = [t \in Task |-> IF t \in go THEN pick[t]
                                           ELSE IF t \in act THEN assigned[t]
                                           ELSE NoReplica]
            /\ ahead' = [t \in Task |-> IF t \in queue \ go
                                        THEN ahd[t] \cap (queue \ go) ELSE {}]
            /\ aged' = aged \cap (queue \ go)
            /\ lastDispatch' = IF ordering = "fair"
                               THEN NextTurns(go, pos, turn) ELSE turn
            /\ recheck' = (queue \ go # {} /\ act \cup go # {})

-----------------------------------------------------------------------------

Init ==
  /\ ordering \in Orderings
  /\ pc = [t \in Task |-> "idle"]
  /\ request = [t \in Task |-> NoRequest]
  /\ future = [t \in Task |-> "none"]
  /\ cancelling = {}
  /\ released = [t \in Task |-> TRUE]
  /\ assigned = [t \in Task |-> NoReplica]
  /\ pending = {} /\ active = {} /\ aged = {}
  /\ ahead = [t \in Task |-> {}]
  /\ enabled = Replica
  /\ lastDispatch = [x \in Root |-> 0]
  /\ recheck = FALSE

\* acquire(): the ticket joins the queue; when the pass admits it at once,
\* awaiting the finished future does not suspend the task.
Acquire(t, q) ==
  /\ pc[t] = "idle"
  /\ EligibleFor(q) # {}
  /\ request' = [request EXCEPT ![t] = q]
  /\ UNCHANGED <<ordering, enabled, cancelling>>
  /\ Dispatch(pending \cup {t}, active, [future EXCEPT ![t] = "waiting"],
              [released EXCEPT ![t] = FALSE], [ahead EXCEPT ![t] = pending])
  /\ pc' = [pc EXCEPT ![t] = IF future'[t] = "set" THEN "body" ELSE "waiting"]

\* The event loop resumes a task whose future has its result.
Resume(t) ==
  /\ pc[t] = "waiting" /\ future[t] = "set" /\ t \notin cancelling
  /\ pc' = [pc EXCEPT ![t] = "body"]
  /\ UNCHANGED <<ordering, request, future, cancelling, released, assigned, pending, ahead,
                 aged, active, enabled, lastDispatch, recheck>>

\* task.cancel(): cancels a future that is not done at once, and otherwise
\* leaves the error to be thrown when the task resumes.
Cancel(t) ==
  /\ pc[t] = "waiting" /\ t \notin cancelling
  /\ cancelling' = cancelling \cup {t}
  /\ future' = [future EXCEPT ![t] = IF @ = "waiting" THEN "cancelled" ELSE @]
  /\ UNCHANGED <<ordering, pc, request, released, assigned, pending, ahead, aged, active,
                 enabled, lastDispatch, recheck>>

\* The task's call is over: it may make another.
Leave(t) ==
  /\ pc' = [pc EXCEPT ![t] = "idle"]
  /\ request' = [request EXCEPT ![t] = NoRequest]
  /\ cancelling' = cancelling \ {t}
  /\ UNCHANGED <<ordering, enabled>>

\* Mutant of Release: the flag that makes a second release a no-op is not set.
ReleaseUnflagged(t) ==
  /\ t \in active /\ ~released[t]
  /\ Dispatch(pending, active \ {t}, [future EXCEPT ![t] = "none"], released, ahead)

\* release() of a ticket that is active; it is a no-op on a released one.
Release(t) ==
  /\ t \in active /\ ~released[t]
  /\ Dispatch(pending, active \ {t}, [future EXCEPT ![t] = "none"],
              [released EXCEPT ![t] = TRUE], ahead)

\* No release: the ticket is already accounted for.
NoRelease(t) ==
  /\ future' = [future EXCEPT ![t] = "none"]
  /\ UNCHANGED <<released, assigned, pending, ahead, aged, active, lastDispatch,
                 recheck>>

\* acquire()'s CancelledError branch: withdraw a pending ticket, give back
\* the credit of a dispatched one, do nothing for one _dispatch() has swept.
AcquireCancelled(t) ==
  /\ pc[t] = "waiting" /\ t \in cancelling
  /\ Leave(t)
  /\ \/ /\ t \in pending
        /\ Dispatch(pending \ {t}, active, [future EXCEPT ![t] = "none"],
                    [released EXCEPT ![t] = TRUE], ahead)
     \/ t \notin pending /\ Release(t)
     \/ t \notin pending /\ t \notin active /\ NoRelease(t)

\* A caller inside slot() gives its credit back itself, before the slot ends.
ReleaseEarly(t) ==
  /\ pc[t] = "body"
  /\ UNCHANGED <<ordering, pc, request, cancelling, enabled>>
  /\ Release(t)

\* slot(), call() or stream() ends, whatever the outcome: finally release().
Finish(t) ==
  /\ pc[t] = "body"
  /\ Leave(t)
  /\ \/ Release(t)
     \/ released[t] /\ NoRelease(t)

SetEnabled(r, on) ==
  /\ enabled' = IF on THEN enabled \cup {r} ELSE enabled \ {r}
  /\ UNCHANGED <<ordering, pc, request, cancelling>>
  /\ Dispatch(pending, active, future, released, ahead)

\* The recheck timer fires.
Recheck ==
  /\ recheck
  /\ UNCHANGED <<ordering, pc, request, cancelling, enabled>>
  /\ Dispatch(pending, active, future, released, ahead)

\* Time passes until the oldest ticket that is not overdue becomes overdue.
Age(t) ==
  /\ ordering = "coflow"
  /\ t \in pending \ aged /\ ahead[t] \subseteq aged
  /\ aged' = aged \cup {t}
  /\ UNCHANGED <<ordering, pc, request, future, cancelling, released, assigned, pending,
                 ahead, active, enabled, lastDispatch, recheck>>

Next ==
  \/ \E t \in Task, q \in Request : Acquire(t, q)
  \/ \E t \in Task : Resume(t)
  \/ \E t \in Task : Cancel(t)
  \/ \E t \in Task : AcquireCancelled(t)
  \/ \E t \in Task : ReleaseEarly(t)
  \/ \E t \in Task : Finish(t)
  \/ \E t \in Task : Age(t)
  \/ \E r \in Toggled, on \in BOOLEAN : SetEnabled(r, on)
  \/ Recheck

Spec == Init /\ [][Next]_vars

\* What the event loop does for a task once it can run again.
Proceed(t) == Resume(t) \/ AcquireCancelled(t) \/ Finish(t)

\* The loop runs every task that is ready, bodies end and time passes.
\* Nothing makes a caller start a call, cancel one or change a replica, and
\* the properties need no help from the recheck timer.
Fairness == \A t \in Task : WF_vars(Proceed(t)) /\ WF_vars(Age(t))

FairSpec == Spec /\ Fairness

-----------------------------------------------------------------------------

\* Types of the state.
TypeOK ==
  /\ ordering \in Orderings
  /\ pc \in [Task -> {"idle", "waiting", "body"}]
  /\ request \in [Task -> Request \cup {NoRequest}]
  /\ future \in [Task -> {"none", "waiting", "set", "cancelled"}]
  /\ cancelling \subseteq Task
  /\ released \in [Task -> BOOLEAN]
  /\ assigned \in [Task -> Replica \cup {NoReplica}]
  /\ pending \subseteq Task /\ aged \subseteq pending /\ active \subseteq Task
  /\ ahead \in [Task -> SUBSET Task]
  /\ enabled \subseteq Replica
  /\ lastDispatch \in [Root -> 0..Cardinality(Root)]
  /\ recheck \in BOOLEAN

\* A receiver never holds more calls than it has lanes, whatever mixture of
\* arrivals, releases, cancellations, health changes and timer passes admitted
\* them (the lane bookkeeping of _dispatch).
CapacityRespected ==
  \A v \in Receiver :
    Cardinality({t \in active : ReceiverOf[assigned[t]] = v}) <= Capacity[v]

\* A ticket is in exactly one of: waiting in the queue, holding a credit, or
\* released; a released one is in neither list, so no credit outlives its call
\* and none is returned twice (acquire's cancel branch racing with _dispatch).
Bookkeeping ==
  /\ pending \cap active = {}
  /\ \A t \in Task :
       /\ released[t] <=> t \notin pending \cup active
       /\ t \in active <=> assigned[t] # NoReplica
       /\ t \in active => future[t] = "set"
       /\ t \in pending => pc[t] = "waiting" /\ future[t] \in {"waiting", "cancelled"}
       /\ future[t] = "cancelled" => t \in cancelling
       /\ pc[t] = "waiting" /\ t \notin pending \cup active => future[t] = "cancelled"

\* Only a task inside acquire() or inside its slot holds a credit: when no
\* call is in progress the router is empty (no leaked admission credit).
NoCreditLeak ==
  /\ \A t \in active : pc[t] # "idle"
  /\ (\A t \in Task : pc[t] = "idle") => active = {} /\ pending = {}

Waiting(t) == t \in pending /\ future[t] = "waiting"

\* The router is work conserving: a call that some enabled replica could
\* serve waits only while a receiver of such a replica is full, whichever
\* tickets are ahead of it (no head-of-line blocking, no missed wake-up).
NoIdleStall ==
  \A t \in Task : Waiting(t) /\ Choices(t) # {} =>
    \E r \in Choices(t) : Idle(ReceiverOf[r], active) <= 0

PlacesWhereAllowed ==
  /\ \A t \in active' \ active : assigned'[t] \in EligibleFor(request'[t]) \cap enabled'
  /\ \A t \in active' \cap active : assigned'[t] = assigned[t]

\* A call starts only on a replica that is enabled at that moment and meets
\* the contract and the allow-list of the call; a call that has started keeps
\* its replica until it is released: nothing migrates or duplicates it.
DispatchedWhereAllowed == [][PlacesWhereAllowed]_vars

\* Receivers a ticket could be sent to.
ReceiversFor(t) == {ReceiverOf[r] : r \in Choices(t)}

OvertakesNoOverdue ==
  \A t \in active' \ active, u \in aged \cap pending' :
    /\ Waiting(u)'
    /\ ReceiversFor(u)' = {ReceiverOf[assigned'[t]]}
    => t \in aged /\ t \in ahead[u]

\* "Aging gives overdue work FIFO precedence at its next feasible slot": no
\* dispatch gives the only receiver an overdue call can use to a call that is
\* not overdue, or to a younger overdue one, and leaves the overdue one waiting.
OverdueFirst == [][OvertakesNoOverdue]_vars

OvertakesNoElder ==
  \A t \in active' \ active, u \in pending' :
    /\ RootOf[t] = RootOf[u]
    /\ Waiting(u)'
    /\ ReceiversFor(u)' = {ReceiverOf[assigned'[t]]}
    => u \notin ahead[t]

\* "FIFO within each question": no dispatch gives the only receiver a call can use
\* to a younger call of the same question, and leaves the older one waiting.
FifoWithinRoot == [][OvertakesNoElder]_vars

Asking  == {t \in Task : Waiting(t)}
Usable  == [t \in Task |-> IF t \in Asking THEN ReceiversFor(t) ELSE {}]
Holding == [v \in Receiver |-> {t \in active : ReceiverOf[assigned[t]] = v}]

\* The router is a pool whose places are the receivers: a ticket may be served
\* at the receivers of the replicas that are enabled for it, and a pass takes
\* the lanes it hands out from the pool and no other.
Pool == INSTANCE CreditPool WITH
  Caller <- Task, Place <- Receiver,
  asking <- Asking, usable <- Usable, holding <- Holding, credits <- Capacity

ImplementsPool == Pool!Spec

\* In fifo and coflow ordering every waiting call is admitted, is cancelled, or
\* finds its replicas disabled, when bodies end and time passes: nothing
\* overtakes it forever (for coflow this needs the aging of _ordered).
EventuallyServed ==
  ordering \in {"fifo", "coflow"} =>
    \A t \in Task : Waiting(t) ~> ~Waiting(t) \/ Choices(t) = {}

Backlogged(x) == \E t \in Task : RootOf[t] = x /\ Waiting(t)
Served(x) == \E t \in active : RootOf[t] = x

\* In fair ordering a waiting call is admitted or cancelled, or finds its
\* replicas disabled, if, from some moment
\* on, no other question leaves the router: turns that are remembered are taken
\* in rotation.
TurnsWhileOthersStay ==
  ordering = "fair" =>
    \A t \in Task :
      <>[](Root \ {RootOf[t]} \subseteq LiveRoots(pending, active))
        => (Waiting(t) ~> ~Waiting(t) \/ Choices(t) = {})

\* "One turn per backlogged question" (the comment that opens fair ordering in
\* _ordered): a question that waits has a call admitted, or stops waiting.  It
\* fails: _dispatch forgets the turn of a question that has no call for a
\* moment, so questions that issue their calls one after the other always
\* return ahead of one that keeps a call waiting.
OneTurnPerBackloggedQuestion ==
  \A x \in Root : Backlogged(x) ~> Served(x) \/ ~Backlogged(x)
=============================================================================
