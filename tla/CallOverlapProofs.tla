-------------------------- MODULE CallOverlapProofs --------------------------
(***************************************************************************)
(* Proofs about the prepared calls, for every number of clients, keys and  *)
(* calls: the types, that a call serves one client under its contract, and *)
(* that none runs without somebody who refers to it.                       *)
(***************************************************************************)
EXTENDS CallOverlap, TLAPS

Waits == {"dropping", "awaiting", "discarding"}

\* A call is in the table once.
TableDistinct == \A j, k \in Key : pending[j] # NoCall /\ pending[j] = pending[k] => j = k

\* What somebody refers to has a task.
CallsExist ==
  /\ \A k \in Key : pending[k] # NoCall => task[pending[k]] # "none"
  /\ \A c \in Client : held[c] # NoCall => task[held[c]] # "none"

\* A client has a call exactly while it waits for one.
HeldByPlace == \A c \in Client : held[c] # NoCall <=> pc[c] \in Waits

IInv == TypeOK /\ ServedOnceExactly /\ NoOrphanWork /\ TableDistinct /\ CallsExist /\ HeldByPlace

\* What a step of client c makes of the tasks: the call it waited for is garbage.
TasksKept(c) ==
  \/ held[c] = NoCall /\ UNCHANGED <<task, contract>>
  \/ held[c] # NoCall /\ Over(held[c]) /\ LetGo(c)

LEMMA InitIInv == Init => IInv
<1> SUFFICES ASSUME Init PROVE IInv
  OBVIOUS
<1>1. TypeOK
  BY DEF Init, TypeOK, Prepared
<1>2. ServedOnceExactly /\ NoOrphanWork /\ TableDistinct /\ CallsExist /\ HeldByPlace
  BY DEF Init, ServedOnceExactly, NoOrphanWork, TableDistinct, CallsExist, HeldByPlace, Waits
<1> QED
  BY <1>1, <1>2 DEF IInv

\* The other calls are as they were, and those that run still do.
LEMMA TasksEffect ==
  ASSUME TypeOK, NEW c \in Client, TasksKept(c)
  PROVE  /\ task' \in [Call -> {"none", "running", "raised", "ended"}]
         /\ contract' \in [Call -> Contract \cup {NoContract}]
         /\ \A q \in Call : q # held[c] => task'[q] = task[q] /\ contract'[q] = contract[q]
         /\ \A q \in Call : task'[q] = "running" <=> task[q] = "running"
BY DEF TypeOK, TasksKept, LetGo, Over

\* A client takes a call out of the table and waits for it.
LEMMA TakingKeeps ==
  ASSUME IInv, NEW c \in Client, NEW k \in Key, pending[k] # NoCall,
         NEW next \in Waits, NEW keys \in SUBSET Key, NEW x \in Contract \cup {NoContract},
         TasksKept(c), Pop(k), WaitFor(c, next, pending[k], keys, x),
         \/ /\ next = "awaiting" /\ UNCHANGED stopping
            /\ x = contract[pending[k]] /\ x.version \in Eligible
         \/ next # "awaiting" /\ Stop(pending[k])
  PROVE  IInv'
<1> DEFINE p == pending[k]
<1>1. TypeOK /\ p \in Call /\ p # NoCall /\ task[p] # "none"
  BY DEF IInv, TypeOK, CallsExist
<1>2. \A d \in Client : held[d] # p
  BY <1>1 DEF IInv, ServedOnceExactly
<1>3. /\ task' \in [Call -> {"none", "running", "raised", "ended"}]
      /\ contract' \in [Call -> Contract \cup {NoContract}]
      /\ \A q \in Call : q # held[c] => task'[q] = task[q] /\ contract'[q] = contract[q]
      /\ \A q \in Call : task'[q] = "running" <=> task[q] = "running"
  BY <1>1, TasksEffect
<1>4. /\ pending'[k] = NoCall /\ \A j \in Key \ {k} : pending'[j] = pending[j]
      /\ held'[c] = p /\ pc'[c] = next /\ wanted'[c] = x
      /\ \A d \in Client \ {c} : held'[d] = held[d] /\ pc'[d] = pc[d] /\ wanted'[d] = wanted[d]
  BY <1>1 DEF Pop, WaitFor, TypeOK
<1>5. /\ stopping \subseteq stopping' /\ stopping' \subseteq stopping \cup {p}
      /\ p \in stopping' => task[p] = "running"
      /\ next # "awaiting" /\ task[p] = "running" => p \in stopping'
  BY <1>1 DEF Stop, TypeOK
<1> HIDE DEF p
<1>6. TypeOK'
  <2>1. stopping' \subseteq {q \in Call : task'[q] = "running"}
    BY <1>1, <1>3, <1>5 DEF TypeOK
  <2>2. stale' \subseteq Prepared(pending')
    BY <1>1, <1>4 DEF TypeOK, Pop, Prepared
  <2>3. pending' \in [Key -> Call \cup {NoCall}]
    BY <1>1 DEF TypeOK, Pop
  <2>4. /\ pc' \in [Client -> {"idle", "dropping", "awaiting", "discarding", "fallback"}]
        /\ wanted' \in [Client -> Contract \cup {NoContract}] /\ list' \in [Client -> SUBSET Key]
        /\ held' \in [Client -> Call \cup {NoCall}] /\ cancelled' \subseteq Client
    BY <1>1 DEF TypeOK, WaitFor, Waits, p
  <2> QED
    BY <1>3, <2>1, <2>2, <2>3, <2>4 DEF TypeOK
<1>7. \A d \in Client \ {c} : held[d] # NoCall => held[d] # held[c] /\ held[d] \in Call
  BY <1>1 DEF IInv, ServedOnceExactly, TypeOK
<1>8. \A j \in Key : pending[j] # NoCall => pending[j] # held[c] /\ pending[j] \in Call
  BY <1>1 DEF IInv, ServedOnceExactly, TypeOK
<1>9. \A j \in Key \ {k} : pending'[j] # p
  BY <1>1, <1>4 DEF IInv, TableDistinct, p
<1>10. ServedOnceExactly'
  <2> SUFFICES ASSUME NEW d \in Client, held'[d] # NoCall
               PROVE  /\ \A j \in Key : pending'[j] # held'[d]
                      /\ \A e \in Client \ {d} : held'[e] # held'[d]
                      /\ pc'[d] = "awaiting" => contract'[held'[d]] = wanted'[d] /\ wanted'[d].version \in Eligible
    BY DEF ServedOnceExactly
  <2>1. CASE d = c
    <3>1. \A e \in Client \ {d} : held'[e] # held'[d]
      BY <1>2, <1>4, <2>1
    <3>2. \A j \in Key : pending'[j] # held'[d]
      BY <1>1, <1>4, <1>9, <2>1
    <3>3. pc'[d] = "awaiting" => contract'[held'[d]] = wanted'[d] /\ wanted'[d].version \in Eligible
      BY <1>1, <1>2, <1>3, <1>4, <2>1 DEF p
    <3> QED
      BY <3>1, <3>2, <3>3
  <2>2. CASE d # c
    <3>1. held'[d] = held[d] /\ pc'[d] = pc[d] /\ wanted'[d] = wanted[d]
      BY <1>4, <2>2
    <3>2. \A e \in Client \ {d} : held'[e] # held'[d]
      BY <1>2, <1>4, <2>2, <3>1 DEF IInv, ServedOnceExactly
    <3>3. \A j \in Key : pending'[j] # held'[d]
      BY <1>4, <2>2, <3>1 DEF IInv, ServedOnceExactly
    <3>4. pc'[d] = "awaiting" => contract'[held'[d]] = wanted'[d] /\ wanted'[d].version \in Eligible
      <4>1. held[d] # held[c] /\ held[d] \in Call
        BY <1>7, <2>2, <3>1
      <4>2. contract'[held[d]] = contract[held[d]]
        BY <1>3, <4>1
      <4>3. pc[d] = "awaiting" => contract[held[d]] = wanted[d] /\ wanted[d].version \in Eligible
        BY <3>1 DEF IInv, ServedOnceExactly
      <4> QED
        BY <3>1, <4>2, <4>3
    <3> QED
      BY <3>2, <3>3, <3>4
  <2> QED
    BY <2>1, <2>2
<1>11. NoOrphanWork'
  <2> SUFFICES ASSUME NEW q \in Call, task'[q] = "running"
               PROVE  \/ \E j \in Key : pending'[j] = q
                      \/ \E d \in Client : held'[d] = q /\ (pc'[d] = "awaiting" \/ q \in stopping')
    BY DEF NoOrphanWork
  <2>1. task[q] = "running"
    BY <1>3
  <2>2. CASE q = p
    BY <1>4, <1>5, <2>1, <2>2
  <2>3. CASE q # p /\ \E j \in Key : pending[j] = q
    BY <1>4, <2>3 DEF p
  <2>4. ASSUME NEW d \in Client, held[d] = q, pc[d] = "awaiting" \/ q \in stopping
        PROVE  held'[d] = q /\ (pc'[d] = "awaiting" \/ q \in stopping')
    <3>1. d # c
      BY <2>1, <2>4, <1>1, ConstantsAssumption DEF TasksKept, Over, ConstantsAssumption
    <3> QED
      BY <3>1, <2>4, <1>4, <1>5
  <2> QED
    BY <2>1, <2>2, <2>3, <2>4 DEF IInv, NoOrphanWork
<1>12. TableDistinct'
  BY <1>4 DEF IInv, TableDistinct
<1>13. CallsExist'
  <2>1. \A j \in Key : pending'[j] # NoCall => task'[pending'[j]] # "none"
    BY <1>3, <1>4, <1>8 DEF IInv, CallsExist
  <2>2. \A d \in Client : held'[d] # NoCall => task'[held'[d]] # "none"
    BY <1>1, <1>2, <1>3, <1>4, <1>7 DEF IInv, CallsExist
  <2> QED
    BY <2>1, <2>2 DEF CallsExist
<1>14. HeldByPlace'
  BY <1>1, <1>4 DEF IInv, HeldByPlace
<1> QED
  BY <1>6, <1>10, <1>11, <1>12, <1>13, <1>14 DEF IInv

\* A client leaves, for its caller or for the fallback.
LEMMA LeavingKeeps ==
  ASSUME IInv, NEW c \in Client, NEW next \in {"idle", "fallback"},
         TasksKept(c), LeaveAs(c, next), UNCHANGED <<pending, stopping, stale>>
  PROVE  IInv'
<1>1. TypeOK
  BY DEF IInv
<1>2. /\ task' \in [Call -> {"none", "running", "raised", "ended"}]
      /\ contract' \in [Call -> Contract \cup {NoContract}]
      /\ \A q \in Call : q # held[c] => task'[q] = task[q] /\ contract'[q] = contract[q]
      /\ \A q \in Call : task'[q] = "running" <=> task[q] = "running"
  BY <1>1, TasksEffect
<1>3. /\ held'[c] = NoCall /\ pc'[c] = next
      /\ \A d \in Client \ {c} : held'[d] = held[d] /\ pc'[d] = pc[d] /\ wanted'[d] = wanted[d]
  BY <1>1 DEF LeaveAs, TypeOK
<1>4. TypeOK'
  BY <1>1, <1>2 DEF TypeOK, LeaveAs, Prepared
<1>5. \A d \in Client \ {c} : held[d] # NoCall => held[d] # held[c] /\ held[d] \in Call
  BY <1>1 DEF IInv, ServedOnceExactly, TypeOK
<1>6. \A j \in Key : pending[j] # NoCall => pending[j] # held[c] /\ pending[j] \in Call
  BY <1>1 DEF IInv, ServedOnceExactly, TypeOK
<1>7. ServedOnceExactly'
  BY <1>2, <1>3, <1>5 DEF IInv, ServedOnceExactly
<1>8. NoOrphanWork'
  <2> SUFFICES ASSUME NEW q \in Call, task'[q] = "running"
               PROVE  \/ \E j \in Key : pending'[j] = q
                      \/ \E d \in Client : held'[d] = q /\ (pc'[d] = "awaiting" \/ q \in stopping')
    BY DEF NoOrphanWork
  <2>1. task[q] = "running"
    BY <1>2
  <2>2. q # held[c]
    BY <2>1, ConstantsAssumption DEF TasksKept, Over, ConstantsAssumption
  <2> QED
    BY <1>3, <2>1, <2>2 DEF IInv, NoOrphanWork
<1>9. TableDistinct' /\ HeldByPlace'
  BY <1>3 DEF IInv, TableDistinct, HeldByPlace, Waits
<1>10. CallsExist'
  BY <1>2, <1>3, <1>5, <1>6 DEF IInv, CallsExist
<1> QED
  BY <1>4, <1>7, <1>8, <1>9, <1>10 DEF IInv

\* The loop over stale or closed keys, with what comes after it.
LEMMA DropNextKeeps ==
  ASSUME IInv, NEW c \in Client, NEW keys \in SUBSET Key, NEW x \in Contract \cup {NoContract},
         TasksKept(c), DropNext(c, keys, x)
  PROVE  IInv'
<1>1. TypeOK
  BY DEF IInv
<1>2. ASSUME NEW k \in keys \cap Prepared(pending), Pop(k), Stop(pending[k]),
             WaitFor(c, "dropping", pending[k], keys \ {k}, x)
      PROVE  IInv'
  BY <1>2, TakingKeeps DEF Prepared, Waits
<1>3. CASE x # NoContract /\ Take(c, x)
  <2>1. x \in Contract /\ x.key \in Key
    BY <1>3 DEF Contract
  <2>2. CASE pending[x.key] = NoCall
    <3>1. Pop(x.key) /\ LeaveAs(c, "fallback") /\ UNCHANGED stopping
      BY <1>3, <2>2 DEF Take
    <3>2. UNCHANGED <<pending, stale>>
      BY <1>1, <2>1, <2>2, <3>1 DEF Pop, TypeOK, Prepared
    <3> QED
      BY <3>1, <3>2, LeavingKeeps
  <2>3. CASE pending[x.key] # NoCall
    <3>1. CASE x.version \in Eligible /\ x = contract[pending[x.key]]
      <4>1. Pop(x.key) /\ WaitFor(c, "awaiting", pending[x.key], {}, x) /\ UNCHANGED stopping
        BY <1>3, <2>3, <3>1 DEF Take
      <4> QED
        BY <2>1, <2>3, <3>1, <4>1, TakingKeeps DEF Waits
    <3>2. CASE ~(x.version \in Eligible /\ x = contract[pending[x.key]])
      <4>1. Pop(x.key) /\ WaitFor(c, "discarding", pending[x.key], {}, NoContract) /\ Stop(pending[x.key])
        BY <1>3, <2>3, <3>2 DEF Take
      <4> QED
        BY <2>1, <2>3, <4>1, TakingKeeps DEF Waits
    <3> QED
      BY <3>1, <3>2
  <2> QED
    BY <2>2, <2>3
<1>4. CASE LeaveAs(c, "idle") /\ UNCHANGED <<pending, stopping, stale>>
  BY <1>4, LeavingKeeps
<1> QED
  BY <1>2, <1>3, <1>4 DEF DropNext

LEMMA NextIInv == IInv /\ [Next]_vars => IInv'
<1> SUFFICES ASSUME IInv, [Next]_vars PROVE IInv'
  OBVIOUS
<1>a. TypeOK
  BY DEF IInv
<1>1. ASSUME NEW x \in Contract, Prepare(x) PROVE IInv'
  <2>1. PICK p \in Call :
          /\ task[p] = "none"
          /\ pending' = [pending EXCEPT ![x.key] = p]
          /\ task' = [task EXCEPT ![p] = "running"]
          /\ contract' = [contract EXCEPT ![p] = x]
    BY <1>1 DEF Prepare
  <2>2. x.key \in Key /\ pending[x.key] = NoCall /\ p # NoCall
        /\ UNCHANGED <<stopping, stale, pc, wanted, list, held, cancelled>>
    BY <1>1, ConstantsAssumption DEF Prepare, Contract, ConstantsAssumption
  <2>3. /\ \A k \in Key : pending[k] # p
        /\ \A c \in Client : held[c] # p
    BY <2>1, <2>2 DEF IInv, CallsExist
  <2>4. /\ pending'[x.key] = p /\ \A k \in Key \ {x.key} : pending'[k] = pending[k]
        /\ task'[p] = "running" /\ \A q \in Call \ {p} : task'[q] = task[q] /\ contract'[q] = contract[q]
    BY <1>a, <2>1, <2>2 DEF TypeOK
  <2>5. TypeOK'
    <3>1. stopping' \subseteq {q \in Call : task'[q] = "running"}
      BY <1>a, <2>1, <2>2, <2>4 DEF TypeOK
    <3>2. stale' \subseteq Prepared(pending')
      BY <1>a, <2>2, <2>4 DEF TypeOK, Prepared
    <3> QED
      BY <1>a, <2>1, <2>2, <3>1, <3>2 DEF TypeOK
  <2>6. ServedOnceExactly'
    BY <1>a, <2>2, <2>3, <2>4 DEF IInv, ServedOnceExactly, TypeOK
  <2>7. NoOrphanWork'
    BY <2>2, <2>3, <2>4, ConstantsAssumption DEF IInv, NoOrphanWork, ConstantsAssumption
  <2>8. TableDistinct' /\ HeldByPlace'
    BY <2>2, <2>3, <2>4 DEF IInv, TableDistinct, HeldByPlace
  <2>9. CallsExist'
    BY <1>a, <2>2, <2>3, <2>4 DEF IInv, CallsExist, TypeOK
  <2> QED
    BY <2>5, <2>6, <2>7, <2>8, <2>9 DEF IInv
\* A client that waits for nothing starts to consume or to close.
<1>b. ASSUME NEW c \in Client, pc[c] = "idle", UNCHANGED <<task, contract>> PROVE TasksKept(c)
  BY <1>b DEF IInv, HeldByPlace, Waits, TasksKept
<1>2. ASSUME NEW c \in Client, NEW x \in Contract, Consume(c, x) PROVE IInv'
  <2>1. stale \in SUBSET Key
    BY <1>a DEF TypeOK, Prepared
  <2>2. TasksKept(c) /\ DropNext(c, stale, x)
    BY <1>2, <1>b DEF Consume
  <2> QED
    BY <2>1, <2>2, DropNextKeeps
<1>3. ASSUME NEW c \in Client, NEW r \in Request, Close(c, r) PROVE IInv'
  <2>1. {k \in Prepared(pending) : RequestOf[k] = r} \in SUBSET Key
    BY DEF Prepared
  <2>2. TasksKept(c) /\ DropNext(c, {k \in Prepared(pending) : RequestOf[k] = r}, NoContract)
    BY <1>3, <1>b DEF Close
  <2> QED
    BY <2>1, <2>2, DropNextKeeps
\* A client that waits for a call which is over runs on.
<1>c. ASSUME NEW c \in Client, pc[c] \in Waits, Over(held[c]), LetGo(c) PROVE TasksKept(c)
  BY <1>c DEF IInv, HeldByPlace, TasksKept
<1>4. ASSUME NEW c \in Client, Dropped(c) PROVE IInv'
  <2>1. TasksKept(c)
    BY <1>4, <1>c DEF Dropped, Waits
  <2>2. CASE LeaveAs(c, "idle") /\ UNCHANGED <<pending, stopping, stale>>
    BY <2>1, <2>2, LeavingKeeps
  <2>3. CASE DropNext(c, list[c], wanted[c])
    BY <1>a, <2>1, <2>3, DropNextKeeps DEF TypeOK
  <2> QED
    BY <1>4, <2>2, <2>3 DEF Dropped
<1>5. ASSUME NEW c \in Client, Discarded(c) \/ Consumed(c) \/ CancelLate(c) PROVE IInv'
  <2>1. TasksKept(c) /\ UNCHANGED <<pending, stopping, stale>>
    BY <1>5, <1>c DEF Discarded, Consumed, CancelLate, Waits
  <2>2. LeaveAs(c, "idle") \/ LeaveAs(c, "fallback")
    BY <1>5 DEF Discarded, Consumed, CancelLate
  <2> QED
    BY <2>1, <2>2, LeavingKeeps
<1>6. ASSUME NEW c \in Client, FallbackEnds(c) PROVE IInv'
  <2>1. TasksKept(c)
    BY <1>6 DEF FallbackEnds, IInv, HeldByPlace, Waits, TasksKept
  <2> QED
    BY <1>6, <2>1, LeavingKeeps DEF FallbackEnds
<1>7. ASSUME NEW c \in Client, CancelClient(c) PROVE IInv'
  <2>1. /\ pc[c] \in Waits /\ task[held[c]] = "running" /\ cancelled' = cancelled \cup {c}
        /\ UNCHANGED <<pending, task, contract, stale, pc, wanted, list, held>>
    BY <1>7 DEF CancelClient, Waits
  <2>2. held[c] \in Call /\ stopping' = stopping \cup {held[c]}
    BY <1>a, <1>7, <2>1 DEF CancelClient, Stop, IInv, HeldByPlace, TypeOK
  <2>3. TypeOK'
    BY <1>a, <2>1, <2>2 DEF TypeOK, Prepared
  <2>4. ServedOnceExactly' /\ TableDistinct' /\ CallsExist' /\ HeldByPlace'
    BY <2>1 DEF IInv, ServedOnceExactly, TableDistinct, CallsExist, HeldByPlace
  <2>5. NoOrphanWork'
    BY <2>1, <2>2 DEF IInv, NoOrphanWork
  <2> QED
    BY <2>3, <2>4, <2>5 DEF IInv
<1>8. ASSUME NEW p \in Call, NEW outcome \in {"raised", "ended"}, CallEnds(p, outcome) PROVE IInv'
  <2>1. /\ task[p] = "running" /\ task' = [task EXCEPT ![p] = outcome] /\ stopping' = stopping \ {p}
        /\ UNCHANGED <<pending, contract, stale, pc, wanted, list, held, cancelled>>
    BY <1>8 DEF CallEnds
  <2>2. task'[p] = outcome /\ \A q \in Call \ {p} : task'[q] = task[q]
    BY <1>a, <2>1 DEF TypeOK
  <2>3. TypeOK'
    BY <1>a, <2>1, <2>2 DEF TypeOK, Prepared
  <2>4. ServedOnceExactly' /\ TableDistinct' /\ HeldByPlace'
    BY <2>1 DEF IInv, ServedOnceExactly, TableDistinct, HeldByPlace
  <2>5. CallsExist'
    BY <1>a, <2>1, <2>2 DEF IInv, CallsExist, TypeOK
  <2>6. NoOrphanWork'
    BY <2>1, <2>2 DEF IInv, NoOrphanWork
  <2> QED
    BY <2>3, <2>4, <2>5, <2>6 DEF IInv
<1>9. ASSUME NEW k \in Key, Age(k) PROVE IInv'
  <2>1. /\ stale' = stale \cup {k} /\ k \in Prepared(pending)
        /\ UNCHANGED <<pending, task, contract, stopping, pc, wanted, list, held, cancelled>>
    BY <1>9 DEF Age
  <2>2. TypeOK'
    BY <1>a, <2>1 DEF TypeOK
  <2> QED
    BY <2>1, <2>2 DEF IInv, ServedOnceExactly, NoOrphanWork, TableDistinct, CallsExist, HeldByPlace
<1>10. CASE UNCHANGED vars
  BY <1>10 DEF vars, IInv, TypeOK, Prepared, ServedOnceExactly, NoOrphanWork, TableDistinct, CallsExist, HeldByPlace
<1> QED
  BY <1>1, <1>2, <1>3, <1>4, <1>5, <1>6, <1>7, <1>8, <1>9, <1>10 DEF Next

-----------------------------------------------------------------------------

\* The adapter's state keeps its types; only calls in the table grow stale, and
\* only running ones are being cancelled.
THEOREM TypeCorrect == Spec => []TypeOK
<1>1. IInv => TypeOK
  BY DEF IInv
<1> QED
  BY <1>1, InitIInv, NextIInv, PTL DEF Spec

\* A prepared call is used by one client at most, under the contract it was
\* prepared for, and nobody else can drop it meanwhile (consume()).
THEOREM PreparedCallsServeOnce == Spec => []ServedOnceExactly
<1>1. IInv => ServedOnceExactly
  BY DEF IInv
<1> QED
  BY <1>1, InitIInv, NextIInv, PTL DEF Spec

\* No prepared call runs on unknown to the adapter, whoever was cancelled and
\* when (consume(), close() and the purge of stale calls).
THEOREM NoWorkIsOrphaned == Spec => []NoOrphanWork
<1>1. IInv => NoOrphanWork
  BY DEF IInv
<1> QED
  BY <1>1, InitIInv, NextIInv, PTL DEF Spec
=============================================================================
