---------------------------- MODULE SingleFlight ----------------------------
(***************************************************************************)
(* AsyncSingleFlight of src/.../singleflight.py: concurrent calls with     *)
(* the same key share one task.                                            *)
(*                                                                         *)
(* No section under self._lock awaits anything, so the lock is always free *)
(* when a task asks for it and each section is part of one action.  The    *)
(* callers wait on a shield of the task: their cancellation leaves it      *)
(* alone.  What a flight returns or raises makes no difference here.       *)
(***************************************************************************)
EXTENDS Integers, FiniteSets

CONSTANTS
  Caller, Key,
  Flight,      \* bound: the tasks that are in use at one time
  NoFlight, NoKey

VARIABLES
  tasks,      \* self._tasks: the flight of each key, or NoFlight
  keyOf,      \* the key each task was started for, or NoKey before its first use
  flying,     \* the tasks that are not done
  joined,     \* the flight each caller waits for, or NoFlight
  cancelling  \* callers with a CancelledError to be thrown at their await

vars == <<tasks, keyOf, flying, joined, cancelling>>

Done(f) == f \in Flight \ flying

\* A task object nobody refers to any more.
Free(f) ==
  /\ Done(f)
  /\ \A k \in Key : tasks[k] # f
  /\ \A c \in Caller : joined[c] # f

-----------------------------------------------------------------------------

Init ==
  /\ tasks = [k \in Key |-> NoFlight]
  /\ keyOf = [f \in Flight |-> NoKey]
  /\ flying = {}
  /\ joined = [c \in Caller |-> NoFlight]
  /\ cancelling = {}

\* Mutant of Forget: the entry of the key is dropped, whichever task it holds.
ForgetWhatever(f) == tasks' = [tasks EXCEPT ![keyOf[f]] = NoFlight]

\* The finally block of do() when its task is done: the entry is dropped if it
\* still holds this task.
Forget(f) == tasks' = [tasks EXCEPT ![keyOf[f]] = IF @ = f THEN NoFlight ELSE @]

\* do() of a key that has no task: it starts one.
Lead(c, k) ==
  /\ joined[c] = NoFlight /\ tasks[k] = NoFlight
  /\ \E f \in Flight :
       /\ Free(f)
       /\ tasks' = [tasks EXCEPT ![k] = f]
       /\ keyOf' = [keyOf EXCEPT ![f] = k]
       /\ flying' = flying \cup {f}
       /\ joined' = [joined EXCEPT ![c] = f]
  /\ UNCHANGED cancelling

\* do() of a key that has a task.
Join(c, k) ==
  /\ joined[c] = NoFlight /\ tasks[k] # NoFlight /\ ~Done(tasks[k])
  /\ joined' = [joined EXCEPT ![c] = tasks[k]]
  /\ UNCHANGED <<tasks, keyOf, flying, cancelling>>

\* do() of a key whose task is done and still in the table: awaiting it does
\* not suspend, so the call returns its answer and drops the entry.
JoinDone(c, k) ==
  /\ joined[c] = NoFlight /\ Done(tasks[k])
  /\ Forget(tasks[k])
  /\ UNCHANGED <<keyOf, flying, joined, cancelling>>

\* The task returns or raises.
Land(f) ==
  /\ f \in flying
  /\ flying' = flying \ {f}
  /\ UNCHANGED <<tasks, keyOf, joined, cancelling>>

\* A caller is woken with the outcome.
Answer(c) ==
  /\ Done(joined[c]) /\ c \notin cancelling
  /\ Forget(joined[c])
  /\ joined' = [joined EXCEPT ![c] = NoFlight]
  /\ UNCHANGED <<keyOf, flying, cancelling>>

Cancel(c) ==
  /\ joined[c] # NoFlight /\ c \notin cancelling
  /\ cancelling' = cancelling \cup {c}
  /\ UNCHANGED <<tasks, keyOf, flying, joined>>

\* CancelledError at the await: the caller leaves, and drops the entry if the
\* task happens to be done by then.
CallCancelled(c) ==
  /\ c \in cancelling
  /\ IF Done(joined[c]) THEN Forget(joined[c]) ELSE UNCHANGED tasks
  /\ joined' = [joined EXCEPT ![c] = NoFlight]
  /\ cancelling' = cancelling \ {c}
  /\ UNCHANGED <<keyOf, flying>>

Next ==
  \/ \E c \in Caller, k \in Key : Lead(c, k) \/ Join(c, k) \/ JoinDone(c, k)
  \/ \E f \in Flight : Land(f)
  \/ \E c \in Caller : Answer(c) \/ Cancel(c) \/ CallCancelled(c)

Spec == Init /\ [][Next]_vars

-----------------------------------------------------------------------------

\* Types of the state.
TypeOK ==
  /\ tasks \in [Key -> Flight \cup {NoFlight}]
  /\ keyOf \in [Flight -> Key \cup {NoKey}]
  /\ flying \subseteq Flight
  /\ joined \in [Caller -> Flight \cup {NoFlight}]
  /\ cancelling \subseteq {c \in Caller : joined[c] # NoFlight}

\* "Share one in-flight task for identical keys": every task in flight is the
\* one the table holds for its key, so that no key has two and a call always
\* finds the one there is, also after another task of the key was dropped late.
OneFlightPerKey == \A f \in flying : tasks[keyOf[f]] = f

\* "... retain no completed answer" (the docstring of the class): a task that is
\* done is in the table only until a caller that waits for it drops it.  It
\* fails when every caller is cancelled before the task is done: nobody drops
\* the entry, and a call that comes any time later is served the old answer.
RetainsNoCompletedAnswer ==
  \A k \in Key : Done(tasks[k]) => \E c \in Caller : joined[c] = tasks[k]
=============================================================================
