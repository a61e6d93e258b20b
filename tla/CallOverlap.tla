---------------------------- MODULE CallOverlap ----------------------------
(***************************************************************************)
(* CallOverlapAdapter of src/.../call_overlap.py: a call is prepared ahead *)
(* of its place in the program, kept in a table, and consumed by the       *)
(* program only under exactly the contract it was prepared for.            *)
(*                                                                         *)
(* A contract is a key (request and operation) and a version of its other  *)
(* inputs.  One action per run of a client between two awaits.  A prepared *)
(* call runs in a task of its own and is external: it returns, raises or   *)
(* ends cancelled, whether it was asked to stop or not (it may raise an    *)
(* error of its cleanup, or finish anyway).                                *)
(***************************************************************************)
EXTENDS Integers, FiniteSets

CONSTANTS
  Client,      \* tasks of the program that consume and close
  Request, Key,
  RequestOf,   \* [Key -> Request]
  Version,     \* the contracts of one key
  Eligible,    \* the versions whose contract is eligible
  Call,        \* bound: the prepared calls that exist at one time
  MaxPending,  \* self.max_pending
  NoCall, NoContract

ASSUME ConstantsAssumption ==
  /\ RequestOf \in [Key -> Request]
  /\ Eligible \subseteq Version
  /\ MaxPending \in Nat \ {0}
  /\ NoCall \notin Call

Contract == [key : Key, version : Version]

VARIABLES
  pending,    \* self._pending: the prepared call of each key, or NoCall
  task,       \* the task of each call: "none" when nobody refers to it,
              \* "running", "raised", "ended" (returned or cancelled)
  contract,   \* the contract each call was prepared for
  stopping,   \* running calls that were cancelled
  stale,      \* keys whose prepared call is older than stale_seconds
  pc,         \* each client: "idle", "dropping" a key of its list, "awaiting" a
              \* prepared call, "discarding" one, in its "fallback"
  wanted,     \* the contract a client consumes; NoContract in close()
  list,       \* the keys a client has yet to drop
  held,       \* the call a client waits for
  cancelled   \* clients whose own task was cancelled, until they leave

vars == <<pending, task, contract, stopping, stale, pc, wanted, list, held, cancelled>>

Over(p) == task[p] \in {"raised", "ended"}
Prepared(pend) == {k \in Key : pend[k] # NoCall}

-----------------------------------------------------------------------------

Init ==
  /\ pending = [k \in Key |-> NoCall]
  /\ task = [p \in Call |-> "none"]
  /\ contract = [p \in Call |-> NoContract]
  /\ stopping = {} /\ stale = {}
  /\ pc = [c \in Client |-> "idle"]
  /\ wanted = [c \in Client |-> NoContract]
  /\ list = [c \in Client |-> {}]
  /\ held = [c \in Client |-> NoCall]
  /\ cancelled = {}

\* prepare(): starts the call, unless it is ineligible, is prepared already or
\* the table is full.
Prepare(x) ==
  /\ x.version \in Eligible
  /\ pending[x.key] = NoCall
  /\ Cardinality(Prepared(pending)) < MaxPending
  /\ \E p \in Call :
       /\ task[p] = "none"
       /\ pending' = [pending EXCEPT ![x.key] = p]
       /\ task' = [task EXCEPT ![p] = "running"]
       /\ contract' = [contract EXCEPT ![p] = x]
  /\ UNCHANGED <<stopping, stale, pc, wanted, list, held, cancelled>>

\* discard() up to its await: a call that is not done is cancelled.
Stop(p) == stopping' = IF task[p] = "running" THEN stopping \cup {p} ELSE stopping

\* Mutant of Pop: the age of the call stays with its key.
PopKeepingAge(k) ==
  /\ pending' = [pending EXCEPT ![k] = NoCall]
  /\ UNCHANGED stale

\* self._pending.pop(k).
Pop(k) ==
  /\ pending' = [pending EXCEPT ![k] = NoCall]
  /\ stale' = stale \ {k}

\* The call the client waited for, which is over, is garbage.
LetGo(c) ==
  /\ task' = [p \in Call |-> IF p = held[c] THEN "none" ELSE task[p]]
  /\ contract' = [p \in Call |-> IF p = held[c] THEN NoContract ELSE contract[p]]

\* The client's part in the adapter is over.
LeaveAs(c, next) ==
  /\ pc' = [pc EXCEPT ![c] = next]
  /\ held' = [held EXCEPT ![c] = NoCall]
  /\ list' = [list EXCEPT ![c] = {}]
  /\ wanted' = [wanted EXCEPT ![c] = NoContract]
  /\ cancelled' = IF next = "idle" THEN cancelled \ {c} ELSE cancelled

\* The client waits for call p, taken out of the table.
WaitFor(c, next, p, keys, x) ==
  /\ pc' = [pc EXCEPT ![c] = next]
  /\ held' = [held EXCEPT ![c] = p]
  /\ list' = [list EXCEPT ![c] = keys]
  /\ wanted' = [wanted EXCEPT ![c] = x]
  /\ UNCHANGED cancelled

\* Mutant of Take: the call stays in the table while it is awaited.
TakeKeeping(c, x) ==
  LET p == pending[x.key]
  IN  /\ \/ p = NoCall /\ LeaveAs(c, "fallback") /\ UNCHANGED stopping
         \/ /\ p # NoCall
            /\ IF x.version \in Eligible /\ x = contract[p]
               THEN WaitFor(c, "awaiting", p, {}, x) /\ UNCHANGED stopping
               ELSE WaitFor(c, "discarding", p, {}, NoContract) /\ Stop(p)
      /\ UNCHANGED <<pending, stale>>

\* Mutant of Take: a call of another contract is dropped and left running.
TakeAbandoning(c, x) ==
  LET p == pending[x.key]
  IN  /\ Pop(x.key)
      /\ UNCHANGED stopping
      /\ IF p # NoCall /\ x.version \in Eligible /\ x = contract[p]
         THEN WaitFor(c, "awaiting", p, {}, x)
         ELSE LeaveAs(c, "fallback")

\* consume() after the purge: the prepared call leaves the table; it is awaited
\* when the contracts are equal and discarded when they are not.
Take(c, x) ==
  LET p == pending[x.key]
  IN  /\ Pop(x.key)
      /\ \/ p = NoCall /\ LeaveAs(c, "fallback") /\ UNCHANGED stopping
         \/ /\ p # NoCall
            /\ IF x.version \in Eligible /\ x = contract[p]
               THEN WaitFor(c, "awaiting", p, {}, x) /\ UNCHANGED stopping
               ELSE WaitFor(c, "discarding", p, {}, NoContract) /\ Stop(p)

\* The loop over the keys to drop up to its next await: a key that is no longer
\* in the table is passed over.
DropNext(c, keys, x) ==
  LET present == keys \cap Prepared(pending)
  IN  \/ \E k \in present :
           /\ Pop(k) /\ Stop(pending[k])
           /\ WaitFor(c, "dropping", pending[k], keys \ {k}, x)
      \/ present = {} /\ x # NoContract /\ Take(c, x)
      \/ present = {} /\ x = NoContract /\ LeaveAs(c, "idle") /\ UNCHANGED <<pending, stopping, stale>>

\* consume(): first the stale calls of all requests are dropped.
Consume(c, x) ==
  /\ pc[c] = "idle"
  /\ DropNext(c, stale, x)
  /\ UNCHANGED <<task, contract>>

\* close(): the calls of one request are dropped.
Close(c, r) ==
  /\ pc[c] = "idle"
  /\ DropNext(c, {k \in Prepared(pending) : RequestOf[k] = r}, NoContract)
  /\ UNCHANGED <<task, contract>>

\* The dropped call has ended; a client cancelled meanwhile leaves.
Dropped(c) ==
  /\ pc[c] = "dropping" /\ Over(held[c])
  /\ LetGo(c)
  /\ IF c \in cancelled THEN LeaveAs(c, "idle") /\ UNCHANGED <<pending, stopping, stale>>
                        ELSE DropNext(c, list[c], wanted[c])

\* The discarded call has ended.
Discarded(c) ==
  /\ pc[c] = "discarding" /\ Over(held[c])
  /\ LetGo(c)
  /\ LeaveAs(c, IF c \in cancelled THEN "idle" ELSE "fallback")
  /\ UNCHANGED <<pending, stopping, stale>>

\* The awaited call has ended: its result is returned or its CancelledError is
\* raised, and its error leads to the fallback.
Consumed(c) ==
  /\ pc[c] = "awaiting" /\ Over(held[c])
  /\ LetGo(c)
  /\ LeaveAs(c, IF task[held[c]] = "raised" THEN "fallback" ELSE "idle")
  /\ UNCHANGED <<pending, stopping, stale>>

\* A client is cancelled while it waits for a call: the call is cancelled too.
CancelClient(c) ==
  /\ pc[c] \in {"dropping", "discarding", "awaiting"} /\ c \notin cancelled
  /\ task[held[c]] = "running"
  /\ cancelled' = cancelled \cup {c}
  /\ Stop(held[c])
  /\ UNCHANGED <<pending, task, contract, stale, pc, wanted, list, held>>

\* A client is cancelled when the call it waits for is over: CancelledError is
\* thrown at its await, and the keys it has yet to drop stay in the table.
CancelLate(c) ==
  /\ pc[c] \in {"dropping", "discarding", "awaiting"} /\ Over(held[c])
  /\ LetGo(c)
  /\ LeaveAs(c, "idle")
  /\ UNCHANGED <<pending, stopping, stale>>

\* The fallback ends, whatever its outcome.
FallbackEnds(c) ==
  /\ pc[c] = "fallback"
  /\ LeaveAs(c, "idle")
  /\ UNCHANGED <<pending, task, contract, stopping, stale>>

\* A prepared call ends.
CallEnds(p, outcome) ==
  /\ task[p] = "running"
  /\ task' = [task EXCEPT ![p] = outcome]
  /\ stopping' = stopping \ {p}
  /\ UNCHANGED <<pending, contract, stale, pc, wanted, list, held, cancelled>>

\* stale_seconds pass for a call in the table.
Age(k) ==
  /\ k \in Prepared(pending) \ stale
  /\ stale' = stale \cup {k}
  /\ UNCHANGED <<pending, task, contract, stopping, pc, wanted, list, held, cancelled>>

Next ==
  \/ \E x \in Contract : Prepare(x)
  \/ \E c \in Client, x \in Contract : Consume(c, x)
  \/ \E c \in Client, r \in Request : Close(c, r)
  \/ \E c \in Client : Dropped(c)
  \/ \E c \in Client : Discarded(c)
  \/ \E c \in Client : Consumed(c)
  \/ \E c \in Client : CancelClient(c)
  \/ \E c \in Client : CancelLate(c)
  \/ \E c \in Client : FallbackEnds(c)
  \/ \E p \in Call, outcome \in {"raised", "ended"} : CallEnds(p, outcome)
  \/ \E k \in Key : Age(k)

Spec == Init /\ [][Next]_vars

-----------------------------------------------------------------------------

\* Types of the state.
TypeOK ==
  /\ pending \in [Key -> Call \cup {NoCall}]
  /\ task \in [Call -> {"none", "running", "raised", "ended"}]
  /\ contract \in [Call -> Contract \cup {NoContract}]
  /\ stopping \subseteq {p \in Call : task[p] = "running"} /\ stale \subseteq Prepared(pending)
  /\ pc \in [Client -> {"idle", "dropping", "awaiting", "discarding", "fallback"}]
  /\ wanted \in [Client -> Contract \cup {NoContract}]
  /\ list \in [Client -> SUBSET Key]
  /\ held \in [Client -> Call \cup {NoCall}]
  /\ cancelled \subseteq Client

\* A prepared call serves one client at most, and nobody disturbs the one it
\* serves: what a client waits for is not in the table, where a second consume,
\* a purge or a close would find it, and no other client waits for it; what a
\* client awaits was prepared for exactly the contract it consumes.
ServedOnceExactly ==
  \A c \in Client : held[c] # NoCall =>
    /\ \A k \in Key : pending[k] # held[c]
    /\ \A d \in Client \ {c} : held[d] # held[c]
    /\ pc[c] = "awaiting" => contract[held[c]] = wanted[c] /\ wanted[c].version \in Eligible

\* "A request that took another route cannot leak work": a prepared call that
\* runs is in the table, where a close or a purge finds it, or a client waits
\* for it, having cancelled it unless it will use the result.
NoOrphanWork ==
  \A p \in Call : task[p] = "running" =>
    \/ \E k \in Key : pending[k] = p
    \/ \E c \in Client : held[c] = p /\ (pc[c] = "awaiting" \/ p \in stopping)

\* "The consumer's own cancellation is never turned into a fallback call" (the
\* comment in consume()).  It fails: cancelling the consumer cancels the call
\* it awaits, and if that call answers with an exception of its own cleanup,
\* consume() takes it for a failed call and runs the fallback.
CancellationNeverFallsBack == \A c \in cancelled : pc[c] # "fallback"
=============================================================================
