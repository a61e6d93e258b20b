---------------------------- MODULE PressureGate ----------------------------
(***************************************************************************)
(* PressureGate of src/.../admission.py: a FIFO queue on an                *)
(* asyncio.Condition and a limit that follows the load of the server.      *)
(*                                                                         *)
(* No section under the condition's lock awaits anything but the condition *)
(* itself, so a task that is woken finds the lock free and each of its     *)
(* runs is one action.                                                     *)
(***************************************************************************)
EXTENDS Integers, Sequences, FiniteSets, SequencesExt, FiniteSetsExt

CONSTANTS
  Request,            \* the tasks that use slot()
  Minimum, Maximum    \* bounds of the limit

\* The ValueError of the constructor.
ASSUME BoundsAssumption ==
  /\ IsFiniteSet(Request)
  /\ Minimum \in Nat \ {0} /\ Maximum \in Nat /\ Minimum <= Maximum

VARIABLES
  gpc,       \* a request is "out", "waiting" on the condition or "in" its slot
  pending,   \* self.pending
  active,    \* self.active
  limit,     \* self.limit
  healthy,   \* self.healthy_samples
  woken,     \* waiters that were notified and have not run yet
  gcancel    \* waiters with a CancelledError to be thrown

gateVars == <<gpc, pending, active, limit, healthy, woken, gcancel>>

Waiting == {t \in Request : gpc[t] = "waiting"}

Init ==
  /\ gpc = [t \in Request |-> "out"]
  /\ pending = <<>> /\ active = 0 /\ limit \in Minimum..Maximum
  /\ healthy = 0 /\ woken = {} /\ gcancel = {}

\* The predicate of wait_for, for a queue.
MayPass(t, queue) == Head(queue) = t /\ active < limit

\* slot() up to its body: the head of the queue takes a credit.
Admit(t, queue) ==
  /\ pending' = Tail(queue)
  /\ active' = active + 1
  /\ gpc' = [gpc EXCEPT ![t] = "in"]
  /\ woken' = Waiting \ {t}

Enter(t) ==
  /\ gpc[t] = "out"
  /\ LET queue == Append(pending, t) IN
       \/ MayPass(t, queue) /\ Admit(t, queue)
       \/ /\ ~MayPass(t, queue)
          /\ pending' = queue /\ gpc' = [gpc EXCEPT ![t] = "waiting"]
          /\ UNCHANGED <<active, woken>>
  /\ UNCHANGED <<limit, healthy, gcancel>>

\* A notified request looks at the predicate again.
Wake(t) ==
  /\ t \in woken \ gcancel
  /\ \/ MayPass(t, pending) /\ Admit(t, pending)
     \/ /\ ~MayPass(t, pending)
        /\ woken' = woken \ {t}
        /\ UNCHANGED <<gpc, pending, active>>
  /\ UNCHANGED <<limit, healthy, gcancel>>

Cancel(t) ==
  /\ t \in Waiting \ gcancel
  /\ gcancel' = gcancel \cup {t}
  /\ UNCHANGED <<gpc, pending, active, limit, healthy, woken>>

\* Mutant of EnterCancelled: nobody is told that the queue has a new head.
LeaveQueueSilently(t) ==
  /\ t \in gcancel
  /\ pending' = RemoveFirst(pending, t)
  /\ gpc' = [gpc EXCEPT ![t] = "out"]
  /\ woken' = woken \ {t} /\ gcancel' = gcancel \ {t}
  /\ UNCHANGED <<active, limit, healthy>>

\* CancelledError in wait_for: the ticket leaves the queue.
EnterCancelled(t) ==
  /\ t \in gcancel
  /\ pending' = RemoveFirst(pending, t)
  /\ gpc' = [gpc EXCEPT ![t] = "out"]
  /\ woken' = Waiting \ {t} /\ gcancel' = gcancel \ {t}
  /\ UNCHANGED <<active, limit, healthy>>

\* Mutant of Leave: the credit comes back and nobody is told.
LeaveSilently(t) ==
  /\ gpc[t] = "in"
  /\ gpc' = [gpc EXCEPT ![t] = "out"]
  /\ active' = active - 1
  /\ UNCHANGED <<pending, limit, healthy, woken, gcancel>>

\* The body ends in any way.
Leave(t) ==
  /\ gpc[t] = "in"
  /\ gpc' = [gpc EXCEPT ![t] = "out"]
  /\ active' = active - 1
  /\ woken' = Waiting
  /\ UNCHANGED <<pending, limit, healthy, gcancel>>

\* Mutant of Observe: the limit is halved below its minimum.
HalveFreely(sample) ==
  /\ limit' = IF sample = "congested" THEN limit \div 2 ELSE limit
  /\ woken' = Waiting
  /\ UNCHANGED <<gpc, pending, active, healthy, gcancel>>

\* observe() of an adaptive gate.  A sample is "missing" a value, "congested",
\* "idle" or between the two.
Observe(sample) ==
  /\ LET eases == sample = "idle" /\ pending # <<>> IN
       /\ limit' = CASE sample = "congested"    -> Max({Minimum, limit \div 2})
                     [] eases /\ healthy = 2    -> Min({Maximum, limit + 1})
                     [] OTHER                   -> limit
       /\ healthy' = IF eases THEN (healthy + 1) % 3 ELSE 0
  /\ woken' = IF sample = "missing" THEN woken ELSE Waiting
  /\ UNCHANGED <<gpc, pending, active, gcancel>>

Run(t) == Wake(t) \/ EnterCancelled(t) \/ Leave(t)

Next ==
  \/ \E t \in Request : Enter(t) \/ Cancel(t) \/ Run(t)
  \/ \E sample \in {"missing", "congested", "idle", "other"} : Observe(sample)

-----------------------------------------------------------------------------

TypeOK ==
  /\ gpc \in [Request -> {"out", "waiting", "in"}]
  /\ pending \in Seq(Request) /\ IsInjective(pending) /\ Range(pending) = Waiting
  /\ active = Cardinality({t \in Request : gpc[t] = "in"})
  /\ limit \in Minimum..Maximum /\ healthy \in 0..2
  /\ woken \subseteq Waiting /\ gcancel \subseteq Waiting

\* A credit is never left idle for want of a notification: when the head of the
\* queue could pass, it is about to run.  A limit that rises, a credit that
\* comes back, an admission and a withdrawal all make a new head possible.
NoMissedWakeUp ==
  pending # <<>> /\ active < limit => Head(pending) \in woken \cup gcancel

\* Whoever waits at the gate leaves the queue, in spite of cuts of the limit.
GateAdmits == \A t \in Request : gpc[t] = "waiting" ~> gpc[t] # "waiting"
=============================================================================
