---------------------- MODULE ContinuationWindowProofs ----------------------
(***************************************************************************)
(* For every set of tasks, every capacity and every ordering: the window   *)
(* counts its credits correctly, leaks none, leaves none idle while a live *)
(* request waits, and implements the pool of credits.                      *)
(***************************************************************************)
EXTENDS ContinuationWindow, FirstFew

-----------------------------------------------------------------------------
(* The inductive invariant.                                                *)

\* ahd orders the members of S by arrival.
OrderedBy(S, ahd) ==
  /\ \A t \in S : t \notin ahd[t]
  /\ \A t, u \in S : t # u => t \in ahd[u] \/ u \in ahd[t]
  /\ \A t, u, v \in S : t \in ahd[u] /\ u \in ahd[v] => t \in ahd[v]

ArrivalOrder ==
  /\ OrderedBy(pending, ahead)
  /\ \A t \in pending : ahead[t] \subseteq pending

\* What a ticket's flags say at each place a task can be.
Tickets ==
  \A t \in Task :
    /\ t \in pending => /\ pc[t] = "waiting" /\ ~acquired[t]
                        /\ ready[t] \in {"waiting", "cancelled"}
    /\ acquired[t] <=> ready[t] = "set"
    /\ acquired[t] => pc[t] # "idle"
    /\ pc[t] = "body" => acquired[t]
    /\ released[t] <=> pc[t] = "idle"
    /\ t \in cancelling => pc[t] = "waiting" /\ ready[t] # "waiting"
    /\ t \notin pending => ready[t] # "waiting"

Counted == active = Cardinality({t \in Task : acquired[t]})

\* The queue, cancelled tickets included, is empty unless all credits are out.
FullWhileQueued == pending # {} => active = Capacity

IInv == TypeOK /\ ArrivalOrder /\ Tickets /\ Counted /\ FullWhileQueued

-----------------------------------------------------------------------------
(* What _dispatch does.                                                    *)

\* The priorities of _dispatch rank the queue, whatever the ordering, the
\* overdue tickets and the progress of the workflows.
LEMMA PrioritiesRank ==
  ASSUME ConstantsAssumption, NEW queue \in SUBSET Task, NEW ahd,
         OrderedBy(queue, ahd), completed' \in [Flow -> 0..MaxProgress]
  PROVE  IsRanking(queue, [t \in queue |-> {u \in queue : Precedes(u, t, ahd)}])
<1> DEFINE m(t) == completed'[FlowOf[t]]
           overdue(t) == ordering = "fifo" \/ t \in aged
<1>1. \A t \in queue : m(t) \in Int
  BY DEF ConstantsAssumption, MaxProgress
<1>2. \A t, u \in queue : Precedes(t, u, ahd) <=>
        \/ overdue(t) /\ (overdue(u) => t \in ahd[u])
        \/ ~overdue(t) /\ ~overdue(u) /\ (m(t) > m(u) \/ (m(t) = m(u) /\ t \in ahd[u]))
  BY DEF Precedes
<1> HIDE DEF m, overdue
<1>3. \A t \in queue : ~Precedes(t, t, ahd)
  BY <1>1, <1>2 DEF OrderedBy
<1>4. \A t, u \in queue : t # u => Precedes(t, u, ahd) \/ Precedes(u, t, ahd)
  BY <1>1, <1>2 DEF OrderedBy
<1>5. \A t, u, v \in queue :
        Precedes(t, u, ahd) /\ Precedes(u, v, ahd) => Precedes(t, v, ahd)
  BY <1>1, <1>2 DEF OrderedBy
<1> QED
  BY <1>3, <1>4, <1>5 DEF IsRanking

Live(pend, fut) == {t \in pend : fut[t] # "cancelled"}

\* A dispatch that starts from act credits in use and gives credits to go.
HandsOut(go, pend, act, fut, acq) ==
  /\ go \in SUBSET Live(pend, fut)
  /\ pending' = Live(pend, fut) \ go
  /\ ready' = [t \in Task |-> IF t \in go THEN "set" ELSE fut[t]]
  /\ acquired' = [t \in Task |-> t \in go \/ acq[t]]
  /\ ahead' \in [Task -> SUBSET Task]
  /\ ArrivalOrder'
  /\ aged' \subseteq pending'
  /\ active' \in act..Capacity
  /\ Counted'
  /\ FullWhileQueued'
  /\ go # {} => act < Capacity

\* _dispatch hands out credits up to the capacity, to the tickets that leave
\* the queue, and leaves a ticket waiting only when no credit is left.
LEMMA DispatchEffect ==
  ASSUME ConstantsAssumption, completed' \in [Flow -> 0..MaxProgress],
         NEW pend \in SUBSET Task, NEW act \in 0..Capacity, NEW ahd \in [Task -> SUBSET Task],
         NEW fut \in [Task -> {"none", "waiting", "set", "cancelled"}],
         NEW acq \in [Task -> BOOLEAN], OrderedBy(pend, ahd), aged \subseteq Task,
         act = Cardinality({t \in Task : acq[t]}), \A t \in pend : ~acq[t],
         Dispatch(pend, act, fut, acq, ahd)
  PROVE  \E go : HandsOut(go, pend, act, fut, acq)
<1> DEFINE queue  == {t \in pend : fut[t] # "cancelled"}
           before == [t \in queue |-> {u \in queue : Precedes(u, t, ahd)}]
           go     == Granted(queue, act, ahd)
           k      == Capacity - act
           old    == {t \in Task : acq[t]}
<1>1. /\ IsFiniteSet(Task) /\ IsFiniteSet(queue) /\ IsFiniteSet(old)
      /\ Capacity \in Nat /\ k \in Nat /\ act \in Nat
  BY FS_Subset DEF ConstantsAssumption
<1>2. OrderedBy(queue, ahd)
  BY DEF OrderedBy
<1>3. IsRanking(queue, before)
  <2>1. queue \in SUBSET Task
    OBVIOUS
  <2> HIDE DEF queue
  <2> QED
    BY <1>2, <2>1, PrioritiesRank
<1>4. go = FirstFew(queue, before, k)
  BY DEF Granted, FirstFew
<1>5. go \in SUBSET queue /\ IsFiniteSet(go)
      /\ Cardinality(go) \in Nat /\ Cardinality(go) <= k
      /\ (go # queue => Cardinality(go) >= k)
  <2> HIDE DEF before, queue, go, k
  <2>1. go \in SUBSET queue
    BY <1>4 DEF FirstFew
  <2>2. IsFiniteSet(go) /\ Cardinality(go) <= k
    BY <1>1, <1>3, <1>4, FirstFewAtMost
  <2>3. go # queue => Cardinality(go) >= k
    BY <1>1, <1>3, <1>4, FirstFewAtLeast
  <2> QED
    BY <2>1, <2>2, <2>3, FS_CardinalityType
<1>6. /\ pending' = queue \ go
      /\ active' = act + Cardinality(go)
      /\ ready' = [t \in Task |-> IF t \in go THEN "set" ELSE fut[t]]
      /\ acquired' = [t \in Task |-> t \in go \/ acq[t]]
      /\ ahead' = [t \in Task |-> IF t \in queue \ go
                                  THEN ahd[t] \cap (queue \ go) ELSE {}]
      /\ aged' = aged \cap (queue \ go)
  BY DEF Dispatch
<1> HIDE DEF go, queue
<1>7. queue \in SUBSET Task /\ queue \in SUBSET pend
  BY DEF queue
<1>8. ArrivalOrder'
  BY <1>2, <1>5, <1>6, <1>7 DEF ArrivalOrder, OrderedBy
<1>9. Counted'
  <2> DEFINE new == {t \in Task : acquired'[t]}
  <2>1. new = old \cup go /\ old \cap go = {} /\ Cardinality(old) = act
    BY <1>5, <1>6, <1>7
  <2> HIDE DEF new, old
  <2>2. Cardinality(old \cup go)
          = Cardinality(old) + Cardinality(go) - Cardinality(old \cap go)
    BY <1>1, <1>5, FS_Union
  <2>3. Cardinality(old \cap go) = 0
    BY <2>1, FS_EmptySet
  <2>4. Cardinality(new) = act + Cardinality(go)
    BY <1>1, <1>5, <2>1, <2>2, <2>3
  <2> QED
    BY <1>6, <2>4 DEF Counted, new
<1>10. active' \in act..Capacity /\ FullWhileQueued'
  BY <1>1, <1>5, <1>6 DEF FullWhileQueued
<1>11. go # {} => act < Capacity
  BY <1>1, <1>5, FS_EmptySet
<1>12. ahead' \in [Task -> SUBSET Task]
  BY <1>6, <1>7
<1>13. queue = Live(pend, fut)
  BY DEF queue, Live
<1> QED
  BY <1>5, <1>6, <1>8, <1>9, <1>10, <1>11, <1>12, <1>13 DEF HandsOut

\* _release returns the credit of the ticket, if it holds one, and hands it out.
LEMMA ReleaseEffect ==
  ASSUME ConstantsAssumption, IInv, NEW t \in Task, NEW success \in BOOLEAN,
         Release(t, success)
  PROVE  /\ released' = [released EXCEPT ![t] = TRUE]
         /\ completed' \in [Flow -> 0..MaxProgress]
         /\ \E go : HandsOut(go, pending \ {t},
                            IF acquired[t] THEN active - 1 ELSE active,
                            [ready EXCEPT ![t] = "none"], [acquired EXCEPT ![t] = FALSE])
<1> DEFINE pend == pending \ {t}
           act  == IF acquired[t] THEN active - 1 ELSE active
           fut  == [ready EXCEPT ![t] = "none"]
           acq  == [acquired EXCEPT ![t] = FALSE]
           old  == {u \in Task : acquired[u]}
           kept == {u \in Task : acq[u]}
<1>1. released' = [released EXCEPT ![t] = TRUE] /\ Dispatch(pend, act, fut, acq, ahead)
  BY DEF Release
<1>2. completed' \in [Flow -> 0..MaxProgress]
  BY DEF Release, IInv, TypeOK, MaxProgress
<1>3. /\ pend \in SUBSET Task /\ ahead \in [Task -> SUBSET Task] /\ aged \subseteq Task
      /\ fut \in [Task -> {"none", "waiting", "set", "cancelled"}]
      /\ acq \in [Task -> BOOLEAN]
      /\ \A u \in pend : ~acq[u]
  BY DEF IInv, TypeOK, Tickets
<1>4. OrderedBy(pend, ahead)
  BY DEF IInv, ArrivalOrder, OrderedBy
<1>5. act = Cardinality(kept) /\ act \in 0..Capacity
  <2>1. IsFiniteSet(old) /\ active = Cardinality(old) /\ active \in 0..Capacity
    BY FS_Subset DEF ConstantsAssumption, IInv, Counted, TypeOK
  <2>2. kept = old \ {t} /\ (acquired[t] <=> t \in old)
    BY DEF IInv, TypeOK
  <2> HIDE DEF kept, old
  <2>3. /\ IsFiniteSet(old \ {t})
        /\ Cardinality(old \ {t}) = IF t \in old THEN Cardinality(old) - 1
                                    ELSE Cardinality(old)
    BY <2>1, FS_RemoveElement
  <2>4. Cardinality(old \ {t}) \in Nat /\ Capacity \in Nat
    BY <2>3, FS_CardinalityType DEF ConstantsAssumption
  <2> QED
    BY <2>1, <2>2, <2>3, <2>4
<1> HIDE DEF pend, act, fut, acq
<1>6. \E go : HandsOut(go, pend, act, fut, acq)
  BY <1>1, <1>2, <1>3, <1>4, <1>5, DispatchEffect
<1> QED
  BY <1>1, <1>2, <1>6 DEF pend, act, fut, acq

\* Entering appends the ticket to the queue and dispatches.
LEMMA EnterEffect ==
  ASSUME ConstantsAssumption, IInv, NEW t \in Task, Enter(t)
  PROVE  \E go : HandsOut(go, pending \cup {t}, active,
                         [ready EXCEPT ![t] = "waiting"], acquired)
<1> DEFINE pend == pending \cup {t}
           fut  == [ready EXCEPT ![t] = "waiting"]
           ahd  == [ahead EXCEPT ![t] = pending]
<1>1. Dispatch(pend, active, fut, acquired, ahd)
      /\ completed' \in [Flow -> 0..MaxProgress]
  BY DEF Enter, IInv, TypeOK
<1>2. t \notin pending /\ ~acquired[t]
  BY DEF Enter, IInv, Tickets
<1>3. /\ pend \in SUBSET Task /\ ahd \in [Task -> SUBSET Task] /\ aged \subseteq Task
      /\ fut \in [Task -> {"none", "waiting", "set", "cancelled"}]
      /\ acquired \in [Task -> BOOLEAN] /\ active \in 0..Capacity
      /\ active = Cardinality({u \in Task : acquired[u]})
      /\ \A u \in pend : ~acquired[u]
  BY <1>2 DEF IInv, TypeOK, Tickets, Counted
<1>4. OrderedBy(pend, ahd)
  <2>1. ahd[t] = pending /\ \A u \in pending : ahd[u] = ahead[u] /\ ahead[u] \subseteq pending
    BY <1>2 DEF IInv, TypeOK, ArrivalOrder
  <2>2. OrderedBy(pending, ahead)
    BY DEF IInv, ArrivalOrder
  <2> QED
    BY <1>2, <2>1, <2>2 DEF OrderedBy
<1> HIDE DEF pend, fut, ahd
<1>5. \E go : HandsOut(go, pend, active, fut, acquired)
  BY <1>1, <1>3, <1>4, DispatchEffect
<1> QED
  BY <1>5 DEF pend, fut

-----------------------------------------------------------------------------
(* Invariance.                                                             *)

\* An empty window satisfies the invariant.
LEMMA InitIInv == ConstantsAssumption /\ Init => IInv
<1> SUFFICES ASSUME ConstantsAssumption, Init
             PROVE  IInv
  OBVIOUS
<1>1. {t \in Task : acquired[t]} = {}
  BY DEF Init
<1>2. Counted
  BY <1>1, FS_EmptySet DEF Counted, Init
<1> QED
  BY <1>2 DEF ConstantsAssumption, Init, IInv, TypeOK, ArrivalOrder, OrderedBy, Tickets,
              FullWhileQueued, MaxProgress

\* What a handler that dispatches leaves, apart from the flags of tickets.
LEMMA HandsOutInv ==
  ASSUME ConstantsAssumption, IInv, NEW go, NEW pend \in SUBSET Task, NEW act \in 0..Capacity,
         NEW fut \in [Task -> {"none", "waiting", "set", "cancelled"}],
         NEW acq \in [Task -> BOOLEAN], HandsOut(go, pend, act, fut, acq),
         ordering' = ordering, cancelling' \subseteq Task,
         pc' \in [Task -> {"idle", "waiting", "body"}],
         released' \in [Task -> BOOLEAN], completed' \in [Flow -> 0..MaxProgress],
         Tickets'
  PROVE  IInv'
<1>1. go \in SUBSET Task /\ pending' \in SUBSET Task
  BY DEF HandsOut, Live
<1>2. TypeOK'
  <2>1. active' \in 0..Capacity
    BY DEF HandsOut, ConstantsAssumption
  <2>2. ready' \in [Task -> {"none", "waiting", "set", "cancelled"}]
        /\ acquired' \in [Task -> BOOLEAN]
    BY <1>1 DEF HandsOut
  <2> QED
    BY <1>1, <2>1, <2>2 DEF HandsOut, IInv, TypeOK
<1> QED
  BY <1>2 DEF HandsOut, IInv

\* Each handler preserves the invariant.
LEMMA NextIInv == ConstantsAssumption /\ IInv /\ [Next]_vars => IInv'
<1> SUFFICES ASSUME ConstantsAssumption, IInv, [Next]_vars
             PROVE  IInv'
  OBVIOUS
<1>1. ASSUME NEW t \in Task, Enter(t)
      PROVE  IInv'
  <2> DEFINE pend == pending \cup {t}
             fut  == [ready EXCEPT ![t] = "waiting"]
  <2>1. PICK go : HandsOut(go, pend, active, fut, acquired)
    BY <1>1, EnterEffect
  <2>2. /\ pend \in SUBSET Task /\ active \in 0..Capacity
        /\ fut \in [Task -> {"none", "waiting", "set", "cancelled"}]
        /\ acquired \in [Task -> BOOLEAN]
    BY DEF IInv, TypeOK
  <2>3. /\ ordering' = ordering /\ cancelling' \subseteq Task
        /\ pc' \in [Task -> {"idle", "waiting", "body"}]
        /\ released' \in [Task -> BOOLEAN] /\ completed' \in [Flow -> 0..MaxProgress]
    BY <1>1 DEF Enter, IInv, TypeOK
  <2>4. Tickets'
    BY <1>1, <2>1 DEF Enter, HandsOut, Live, IInv, TypeOK, Tickets
  <2> HIDE DEF pend, fut
  <2> QED
    BY <2>1, <2>2, <2>3, <2>4, HandsOutInv
<1>2. ASSUME NEW t \in Task, NEW success \in BOOLEAN, Release(t, success),
             pc[t] # "idle", pc' = [pc EXCEPT ![t] = "idle"],
             ordering' = ordering, cancelling' = cancelling \ {t}
      PROVE  IInv'
  <2> DEFINE pend == pending \ {t}
             act  == IF acquired[t] THEN active - 1 ELSE active
             fut  == [ready EXCEPT ![t] = "none"]
             acq  == [acquired EXCEPT ![t] = FALSE]
  <2>1. /\ released' = [released EXCEPT ![t] = TRUE]
        /\ completed' \in [Flow -> 0..MaxProgress]
    BY <1>2, ReleaseEffect
  <2>2. PICK go : HandsOut(go, pend, act, fut, acq)
    BY <1>2, ReleaseEffect
  <2>3. act \in 0..Capacity
    <3>1. CASE ~acquired[t]
      BY <3>1 DEF IInv, TypeOK
    <3>2. CASE acquired[t]
      <4>1. {u \in Task : acquired[u]} # {} /\ IsFiniteSet({u \in Task : acquired[u]})
        BY <3>2, FS_Subset DEF ConstantsAssumption
      <4>2. active # 0
        BY <4>1, FS_EmptySet DEF IInv, Counted
      <4> QED
        BY <3>2, <4>2 DEF IInv, TypeOK, ConstantsAssumption
    <3> QED
      BY <3>1, <3>2
  <2>4. /\ pend \in SUBSET Task
        /\ fut \in [Task -> {"none", "waiting", "set", "cancelled"}]
        /\ acq \in [Task -> BOOLEAN]
    BY DEF IInv, TypeOK
  <2>5. /\ pc' \in [Task -> {"idle", "waiting", "body"}]
        /\ released' \in [Task -> BOOLEAN] /\ cancelling' \subseteq Task
    BY <1>2, <2>1 DEF IInv, TypeOK
  <2>6. Tickets'
    BY <1>2, <2>1, <2>2 DEF HandsOut, Live, IInv, TypeOK, Tickets
  <2> HIDE DEF pend, act, fut, acq
  <2> QED
    BY <1>2, <2>1, <2>2, <2>3, <2>4, <2>5, <2>6, HandsOutInv
<1>3. ASSUME NEW t \in Task, EnterCancelled(t)
      PROVE  IInv'
  BY <1>2, <1>3 DEF EnterCancelled, IInv, TypeOK
<1>4. ASSUME NEW t \in Task, NEW success \in BOOLEAN, Leave(t, success)
      PROVE  IInv'
  <2>1. cancelling' = cancelling \ {t}
    BY <1>4 DEF Leave, IInv, Tickets
  <2> QED
    BY <1>2, <1>4, <2>1 DEF Leave, IInv, TypeOK
<1>5. ASSUME NEW t \in Task, Resume(t)
      PROVE  IInv'
  BY <1>5 DEF Resume, IInv, TypeOK, ArrivalOrder, OrderedBy, Tickets, Counted, FullWhileQueued
<1>6. ASSUME NEW t \in Task, Cancel(t)
      PROVE  IInv'
  BY <1>6 DEF Cancel, IInv, TypeOK, ArrivalOrder, OrderedBy, Tickets, Counted, FullWhileQueued
<1>7. ASSUME NEW f \in Flow, NewFlow(f)
      PROVE  IInv'
  BY <1>7 DEF NewFlow, IInv, TypeOK, ArrivalOrder, OrderedBy, Tickets, Counted,
              FullWhileQueued, MaxProgress
<1>8. ASSUME NEW t \in Task, Age(t)
      PROVE  IInv'
  BY <1>8 DEF Age, IInv, TypeOK, ArrivalOrder, OrderedBy, Tickets, Counted, FullWhileQueued
<1>9. CASE UNCHANGED vars
  BY <1>9 DEF vars, IInv, TypeOK, ArrivalOrder, OrderedBy, Tickets, Counted, FullWhileQueued
<1> QED
  BY <1>1, <1>3, <1>4, <1>5, <1>6, <1>7, <1>8, <1>9 DEF Next

\* The invariant holds in every reachable state.
THEOREM Invariance == Spec => []IInv
<1>1. Init => IInv
  BY ConstantsAssumption, InitIInv
<1>2. IInv /\ [Next]_vars => IInv'
  BY ConstantsAssumption, NextIInv
<1> QED
  BY <1>1, <1>2, PTL DEF Spec

\* The state is well typed: in particular the counter of continuation.py's
\* window is never negative and never exceeds its capacity.
THEOREM TypeCorrect == Spec => []TypeOK
<1>1. IInv => TypeOK
  BY DEF IInv
<1> QED
  BY <1>1, Invariance, PTL

\* self.active counts exactly the calls that were granted a credit and have not
\* given it back, whatever is cancelled between grant and first step.
THEOREM CreditsAreCounted == Spec => []CreditsCounted
<1>1. IInv => CreditsCounted
  <2> SUFFICES ASSUME IInv
               PROVE  CreditsCounted
    OBVIOUS
  <2>1. Holders = {t \in Task : acquired[t]}
    BY DEF Holders, IInv, TypeOK, Tickets
  <2>2. active <= Capacity
    BY ConstantsAssumption DEF ConstantsAssumption, IInv, TypeOK
  <2> QED
    BY <2>1, <2>2 DEF CreditsCounted, IInv, Counted
<1> QED
  BY <1>1, Invariance, PTL

\* No credit and no queued ticket outlives its call.
THEOREM NoCreditLeaks == Spec => []NoCreditLeak
<1>1. IInv => NoCreditLeak
  <2> SUFFICES ASSUME IInv
               PROVE  NoCreditLeak
    OBVIOUS
  <2>1. \A t \in Holders \cup pending : pc[t] # "idle"
    BY DEF Holders, IInv, TypeOK, Tickets
  <2>2. ASSUME \A t \in Task : pc[t] = "idle"
        PROVE  active = 0 /\ pending = {}
    <3>1. pending = {} /\ {t \in Task : acquired[t]} = {}
      BY <2>2 DEF IInv, TypeOK, Tickets
    <3> QED
      BY <3>1, FS_EmptySet DEF IInv, Counted
  <2> QED
    BY <2>1, <2>2 DEF NoCreditLeak
<1> QED
  BY <1>1, Invariance, PTL

\* A live request waits only while every credit is out: the dispatches that the
\* handlers of slot() make are enough.
THEOREM IsWorkConserving == Spec => []WorkConserving
<1>1. IInv => WorkConserving
  BY DEF IInv, FullWhileQueued, WorkConserving, Waiting
<1> QED
  BY <1>1, Invariance, PTL

-----------------------------------------------------------------------------
(* The order of grants.                                                    *)

\* Only a window that orders by progress has overdue tickets.
AgedByProgress == aged # {} => ordering = "continuation"

\* A dispatch grants nobody before a ticket that it leaves, and makes no ticket
\* overdue.
GrantsInOrder(acq, ahd) ==
  /\ \A t \in Task, u \in pending' : acquired'[t] /\ ~acq[t] => Precedes(t, u, ahd)
  /\ aged' \subseteq aged

LEMMA DispatchInOrder ==
  ASSUME ConstantsAssumption, completed' \in [Flow -> 0..MaxProgress],
         NEW pend \in SUBSET Task, NEW act \in 0..Capacity, NEW ahd, NEW fut,
         NEW acq, OrderedBy(pend, ahd), Dispatch(pend, act, fut, acq, ahd)
  PROVE  GrantsInOrder(acq, ahd)
<1> DEFINE queue   == {t \in pend : fut[t] # "cancelled"}
           ranks   == [t \in queue |-> {u \in queue : Precedes(u, t, ahd)}]
           sooner(x) == {w \in queue : Precedes(w, x, ahd)}
           go      == Granted(queue, act, ahd)
<1>1. IsFiniteSet(queue) /\ OrderedBy(queue, ahd) /\ queue \in SUBSET Task /\ Capacity - act \in Int
  BY FS_Subset DEF ConstantsAssumption, OrderedBy
<1>2. /\ pending' = queue \ go /\ acquired' = [t \in Task |-> t \in go \/ acq[t]]
      /\ aged' = aged \cap (queue \ go)
  BY DEF Dispatch
<1> HIDE DEF queue
<1>3. IsRanking(queue, ranks)
  BY <1>1, PrioritiesRank
<1>4. ASSUME NEW t \in queue, NEW u \in queue, t # u, ~Precedes(t, u, ahd)
      PROVE  sooner(u) \subseteq sooner(t)
  BY <1>3, <1>4 DEF IsRanking
<1>5. ASSUME NEW t \in Task, NEW u \in pending', acquired'[t], ~acq[t]
      PROVE  Precedes(t, u, ahd)
  <2> SUFFICES ASSUME ~Precedes(t, u, ahd) PROVE FALSE
    OBVIOUS
  <2>1. t \in go /\ u \in queue \ go
    BY <1>2, <1>5
  <2>2. /\ t \in queue /\ t # u /\ Cardinality(sooner(t)) < Capacity - act
        /\ ~(Cardinality(sooner(u)) < Capacity - act)
    BY <2>1 DEF Granted
  <2>3. sooner(u) \subseteq sooner(t)
    BY <1>4, <2>1, <2>2
  <2>4. IsFiniteSet(sooner(t)) /\ IsFiniteSet(sooner(u)) /\ sooner(t) \subseteq queue
    BY <1>1, FS_Subset
  <2> HIDE DEF sooner
  <2>5. Cardinality(sooner(u)) <= Cardinality(sooner(t))
    BY <2>3, <2>4, FS_Subset
  <2>6. Cardinality(sooner(u)) \in Nat /\ Cardinality(sooner(t)) \in Nat
    BY <2>4, FS_CardinalityType
  <2> QED
    BY <1>1, <2>2, <2>5, <2>6
<1> QED
  BY <1>2, <1>5 DEF GrantsInOrder

\* A handler that ends with a dispatch from the arrival order overtakes nobody.
LEMMA GrantsOvertakeNoOverdue ==
  ASSUME IInv, AgedByProgress, NEW acq, NEW ahd, GrantsInOrder(acq, ahd), ordering' = ordering,
         \A t \in Task : acq[t] => acquired[t], \A t \in pending : ahd[t] = ahead[t]
  PROVE  OvertakesNoOverdue /\ AgedByProgress'
<1>1. aged \subseteq pending
  BY DEF IInv, TypeOK
<1>2. ASSUME NEW t \in Task, NEW u \in aged \cap pending', acquired'[t], ~acquired[t]
      PROVE  t \in aged /\ t \in ahead[u]
  <2>1. Precedes(t, u, ahd) /\ ordering = "continuation" /\ ahd[u] = ahead[u]
    BY <1>1, <1>2 DEF GrantsInOrder, AgedByProgress
  <2> QED
    BY <2>1 DEF Precedes
<1>3. AgedByProgress'
  BY DEF GrantsInOrder, AgedByProgress
<1> QED
  BY <1>2, <1>3 DEF OvertakesNoOverdue

LEMMA NextOvertakesNoOverdue ==
  ASSUME ConstantsAssumption, IInv, AgedByProgress, [Next]_vars
  PROVE  [OvertakesNoOverdue]_vars /\ AgedByProgress'
<1>1. ASSUME NEW t \in Task, Enter(t)
      PROVE  OvertakesNoOverdue /\ AgedByProgress'
  <2> DEFINE pend == pending \cup {t}
             fut  == [ready EXCEPT ![t] = "waiting"]
             ahd  == [ahead EXCEPT ![t] = pending]
  <2>1. /\ Dispatch(pend, active, fut, acquired, ahd) /\ ordering' = ordering
        /\ completed' \in [Flow -> 0..MaxProgress] /\ active \in 0..Capacity /\ pend \in SUBSET Task
    BY <1>1 DEF Enter, IInv, TypeOK
  <2>2. t \notin pending
    BY <1>1 DEF Enter, IInv, Tickets
  <2>3. ahd[t] = pending /\ \A u \in pending : ahd[u] = ahead[u] /\ ahead[u] \subseteq pending
    BY <2>2 DEF IInv, TypeOK, ArrivalOrder
  <2>4. OrderedBy(pending, ahead)
    BY DEF IInv, ArrivalOrder
  <2>5. OrderedBy(pend, ahd)
    BY <2>2, <2>3, <2>4 DEF OrderedBy
  <2> HIDE DEF pend, fut, ahd
  <2>6. GrantsInOrder(acquired, ahd)
    BY <2>1, <2>5, DispatchInOrder
  <2> QED
    BY <2>1, <2>3, <2>6, GrantsOvertakeNoOverdue
<1>2. ASSUME NEW t \in Task, NEW success \in BOOLEAN, Release(t, success), ordering' = ordering
      PROVE  OvertakesNoOverdue /\ AgedByProgress'
  <2> DEFINE pend == pending \ {t}
             act  == IF acquired[t] THEN active - 1 ELSE active
             fut  == [ready EXCEPT ![t] = "none"]
             acq  == [acquired EXCEPT ![t] = FALSE]
  <2>1. Dispatch(pend, act, fut, acq, ahead)
    BY <1>2 DEF Release
  <2>2. completed' \in [Flow -> 0..MaxProgress]
    BY <1>2, ReleaseEffect
  <2>3. pend \in SUBSET Task /\ OrderedBy(pend, ahead)
    BY DEF IInv, TypeOK, ArrivalOrder, OrderedBy
  <2>4. act \in 0..Capacity
    <3>1. CASE ~acquired[t]
      BY <3>1 DEF IInv, TypeOK
    <3>2. CASE acquired[t]
      <4>1. {u \in Task : acquired[u]} # {} /\ IsFiniteSet({u \in Task : acquired[u]})
        BY <3>2, FS_Subset DEF ConstantsAssumption
      <4>2. active # 0
        BY <4>1, FS_EmptySet DEF IInv, Counted
      <4> QED
        BY <3>2, <4>2 DEF IInv, TypeOK, ConstantsAssumption
    <3> QED
      BY <3>1, <3>2
  <2>5. \A u \in Task : acq[u] => acquired[u]
    BY DEF IInv, TypeOK
  <2> HIDE DEF pend, act, fut, acq
  <2>6. GrantsInOrder(acq, ahead)
    BY <2>1, <2>2, <2>3, <2>4, DispatchInOrder
  <2> QED
    BY <1>2, <2>5, <2>6, GrantsOvertakeNoOverdue
<1>3. ASSUME NEW t \in Task, EnterCancelled(t) \/ \E success \in BOOLEAN : Leave(t, success)
      PROVE  OvertakesNoOverdue /\ AgedByProgress'
  BY <1>2, <1>3 DEF EnterCancelled, Leave
<1>4. ASSUME NEW t \in Task, Age(t)
      PROVE  OvertakesNoOverdue /\ AgedByProgress'
  BY <1>4 DEF Age, OvertakesNoOverdue, AgedByProgress
<1>5. CASE (\E t \in Task : Resume(t) \/ Cancel(t)) \/ (\E f \in Flow : NewFlow(f)) \/ UNCHANGED vars
  <2>1. acquired' = acquired /\ aged' = aged /\ ordering' = ordering
    BY <1>5 DEF Resume, Cancel, NewFlow, vars
  <2> QED
    BY <2>1 DEF OvertakesNoOverdue, AgedByProgress
<1> QED
  BY <1>1, <1>3, <1>4, <1>5 DEF Next

\* No call is granted a credit while an overdue call stays in the queue, unless
\* it is overdue and older itself: no loop of a workflow with much progress
\* keeps fresh ones waiting once they have aged.
THEOREM OverdueCallsStartFirst == Spec => OverdueFirst
<1>1. Init => AgedByProgress
  BY DEF Init, AgedByProgress
<1>2. IInv /\ AgedByProgress /\ [Next]_vars => [OvertakesNoOverdue]_vars /\ AgedByProgress'
  BY ConstantsAssumption, NextOvertakesNoOverdue
<1> QED
  BY <1>1, <1>2, Invariance, PTL DEF Spec, OverdueFirst

-----------------------------------------------------------------------------
(* Refinement of the pool of credits.                                      *)

LEMMA PoolCounts == \A S : Pool!Cardinality(S) = Cardinality(S)
BY DEF Pool!Cardinality, Cardinality

\* After a dispatch, the live requests are those it did not grant.
LEMMA AskingAfter ==
  ASSUME IInv', NEW go, NEW pend \in SUBSET Task, NEW act, NEW fut, NEW acq,
         HandsOut(go, pend, act, fut, acq)
  PROVE  Asking' = Live(pend, fut) \ go
<1>1. \A t \in Task : t \in pending' => ready'[t] \in {"waiting", "cancelled"}
  BY DEF IInv, Tickets
<1>2. \A t \in Task : t \in pending' => ready'[t] # "cancelled"
  BY DEF HandsOut, Live
<1>3. Asking' = pending'
  BY <1>1, <1>2 DEF Asking, Waiting, IInv, TypeOK
<1> QED
  BY <1>3 DEF HandsOut

Owners(acq) == {t \in Task : acq[t]}
Open(S, use) == \A t \in S : use[t] = {"window"}

\* A dispatch is a pass of the pool, from the live requests and the credits in
\* use that the handler has left.
LEMMA HandsOutServes ==
  ASSUME ConstantsAssumption, IInv', NEW go, NEW pend \in SUBSET Task, NEW act,
         NEW fut, NEW acq, HandsOut(go, pend, act, fut, acq),
         NEW use, Open(Live(pend, fut), use),
         NEW hold, hold["window"] = Owners(acq)
  PROVE  Pool!Serve(Live(pend, fut), use, hold)
<1> DEFINE ask   == Live(pend, fut)
           grant == [t \in ask \ Asking' |-> "window"]
<1>1. Asking' = ask \ go /\ go \subseteq ask
  BY AskingAfter DEF HandsOut
<1>2. Holders' = {t \in Task : acquired'[t]}
  BY DEF Holders, IInv, TypeOK, Tickets
<1>3. Holders' = Owners(acq) \cup go
  BY <1>2 DEF HandsOut, Live, Owners
<1>4. Cardinality(Holders') = active' /\ active' <= Capacity
  BY <1>2 DEF IInv, TypeOK, Counted, ConstantsAssumption
<1>5. Asking' # {} => active' = Capacity
  BY DEF Asking, Waiting, IInv, FullWhileQueued
<1>6. Holding'["window"] = Holders' /\ Credits'["window"] = Capacity
  BY DEF Holding, Credits
<1> USE DEF Open
<1> HIDE DEF ask
<1>7. ask \ Asking' = go
  BY <1>1
<1>8. Holding' = [p \in {"window"} |-> hold[p] \cup {t \in ask \ Asking' : grant[t] = p}]
  BY <1>3, <1>7 DEF Holding
<1>9. Usable' = [t \in Task |-> IF t \in Asking' THEN use[t] ELSE {}]
  BY <1>1 DEF ask, Usable
<1>10. \A t \in ask \ Asking' :
         grant[t] \in use[t] /\ Pool!Cardinality(Holders') <= Capacity /\ grant[t] = "window"
  BY <1>4, PoolCounts DEF ask
<1>11. \A t \in Asking' : "window" \in use[t] /\ Pool!Cardinality(Holders') >= Capacity
  BY <1>1, <1>4, <1>5, PoolCounts, ConstantsAssumption DEF ask, ConstantsAssumption
<1>12. grant \in [ask \ Asking' -> {"window"}]
  OBVIOUS
<1> HIDE DEF grant
<1>13. \E g \in [ask \ Asking' -> {"window"}] :
         /\ \A t \in ask \ Asking' :
              g[t] \in use[t] /\ Pool!Cardinality(Holding'[g[t]]) <= Credits'[g[t]]
         /\ Holding' = [p \in {"window"} |-> hold[p] \cup {t \in ask \ Asking' : g[t] = p}]
  BY <1>6, <1>8, <1>10, <1>12
<1>14. \A t \in Asking' : \E p \in use[t] : Pool!Cardinality(Holding'[p]) >= Credits'[p]
  BY <1>6, <1>11
<1>15. Pool!Serve(ask, use, hold)
  BY <1>1, <1>9, <1>13, <1>14 DEF Pool!Serve
<1> QED
  BY <1>15 DEF ask

\* A step that changes neither the live requests nor the holders.
LEMMA PoolStutter ==
  ASSUME Asking' = Asking, Holders' = Holders
  PROVE  UNCHANGED Pool!pool
BY DEF Pool!pool, Usable, Holding, Credits

\* Entering asks the pool for a credit.
LEMMA EnterAsks ==
  ASSUME ConstantsAssumption, IInv, IInv', NEW t \in Task, Enter(t)
  PROVE  Pool!Ask(t, {"window"})
<1> DEFINE pend == pending \cup {t}
           fut  == [ready EXCEPT ![t] = "waiting"]
           use  == [Usable EXCEPT ![t] = {"window"}]
<1>1. PICK go : HandsOut(go, pend, active, fut, acquired)
  BY EnterEffect
<1>2. Live(pend, fut) = Asking \cup {t} /\ pend \in SUBSET Task
  BY DEF Live, Asking, Waiting, Enter, IInv, TypeOK, Tickets
<1>3. Holders = {u \in Task : acquired[u]} /\ t \notin Asking \cup Holders
  BY DEF Holders, Asking, Waiting, Enter, IInv, TypeOK, Tickets
<1>4. \A u \in Asking \cup {t} : use[u] = {"window"}
  BY DEF Asking, Usable
<1>5. Holding["window"] = Owners(acquired)
  BY <1>3 DEF Owners, Holding
<1>6. Pool!Serve(Asking \cup {t}, use, Holding)
  <2> HIDE DEF pend, fut, use
  <2>1. Open(Live(pend, fut), use)
    BY <1>2, <1>4 DEF Open
  <2>2. Pool!Serve(Live(pend, fut), use, Holding)
    BY <1>1, <1>2, <1>5, <2>1, HandsOutServes
  <2> QED
    BY <1>2, <2>2
<1> QED
  BY <1>3, <1>6 DEF Pool!Ask, Holding, Credits

\* Releasing a credit gives it back; releasing a cancelled request hands out
\* nothing, for a queue that is not empty means that no credit is free.
LEMMA ReleaseGivesBack ==
  ASSUME ConstantsAssumption, IInv, IInv', NEW t \in Task, NEW success \in BOOLEAN,
         Release(t, success), ~Waiting(t)
  PROVE  Pool!GiveBack(t, "window") \/ UNCHANGED Pool!pool
<1> DEFINE pend == pending \ {t}
           act  == IF acquired[t] THEN active - 1 ELSE active
           fut  == [ready EXCEPT ![t] = "none"]
           acq  == [acquired EXCEPT ![t] = FALSE]
           hold == [Holding EXCEPT !["window"] = @ \ {t}]
<1>1. PICK go : HandsOut(go, pend, act, fut, acq)
  BY ReleaseEffect
<1>2. Live(pend, fut) = Asking /\ pend \in SUBSET Task
  BY DEF Live, Asking, Waiting, IInv, TypeOK, Tickets
<1>3. Holders = {u \in Task : acquired[u]}
  BY DEF Holders, IInv, TypeOK, Tickets
<1>4. {u \in Task : acq[u]} = Holders \ {t}
  BY <1>3 DEF IInv, TypeOK
<1>5. CASE acquired[t]
  <2>1. \A u \in Asking : Usable[u] = {"window"}
    BY DEF Asking, Usable
  <2>2. hold["window"] = Owners(acq)
    BY <1>4 DEF Owners, Holding
  <2>3. Pool!Serve(Asking, Usable, hold)
    <3> HIDE DEF pend, act, fut, acq, hold
    <3>1. Open(Live(pend, fut), Usable)
      BY <1>2, <2>1 DEF Open
    <3>2. Pool!Serve(Live(pend, fut), Usable, hold)
      BY <1>1, <1>2, <2>2, <3>1, HandsOutServes
    <3> QED
      BY <1>2, <3>2
  <2> QED
    BY <1>3, <1>5, <2>3 DEF Pool!GiveBack, Holding, Credits
<1>6. CASE ~acquired[t]
  <2>1. go = {}
    <3>1. go # {} => pending # {}
      BY <1>1 DEF HandsOut, Live
    <3>2. go # {} => active < Capacity
      BY <1>1, <1>6 DEF HandsOut
    <3> QED
      BY <3>1, <3>2, ConstantsAssumption
         DEF IInv, TypeOK, FullWhileQueued, ConstantsAssumption
  <2>2. Holders' = {u \in Task : acquired'[u]}
    BY DEF Holders, IInv, TypeOK, Tickets
  <2>3. Holders' = Holders
    BY <1>1, <1>3, <1>6, <2>1, <2>2 DEF HandsOut, IInv, TypeOK
  <2>4. Asking' = Asking
    <3>1. Asking' = Live(pend, fut)
      <4> HIDE DEF pend, act, fut, acq
      <4> QED
        BY <1>1, <1>2, <2>1, AskingAfter
    <3> QED
      BY <1>2, <3>1
  <2> QED
    BY <2>3, <2>4, PoolStutter
<1> QED
  BY <1>5, <1>6

\* Cancelling a live request withdraws it.
LEMMA CancelWithdraws ==
  ASSUME ConstantsAssumption, IInv, IInv', NEW t \in Task, Cancel(t)
  PROVE  Pool!Withdraw(t) \/ UNCHANGED Pool!pool
<1>1. Holders' = Holders
  BY DEF Cancel, Holders
<1>2. CASE Waiting(t)
  <2>1. Asking' = Asking \ {t} /\ t \in Asking /\ Asking \subseteq Task
    BY <1>2 DEF Cancel, Asking, Waiting, IInv, TypeOK
  <2>2. Holders' = {u \in Task : acquired'[u]}
    BY DEF Holders, IInv, TypeOK, Tickets
  <2>3. Asking' # {} => Cardinality(Holders') >= Capacity
    <3>1. Cardinality(Holders') = active'
      BY <2>2 DEF IInv, Counted
    <3>2. Asking' # {} => active' = Capacity
      BY DEF Asking, Waiting, IInv, FullWhileQueued
    <3> QED
      BY <3>1, <3>2, ConstantsAssumption DEF ConstantsAssumption
  <2>4. Usable' = [u \in Task |-> IF u \in Asking' THEN Usable[u] ELSE {}]
    BY <2>1 DEF Usable
  <2>5. \E grant \in [{} -> {"window"}] :
          Holding' = [p \in {"window"} |-> Holding[p] \cup {u \in {} : grant[u] = p}]
    <3>1. [u \in {} |-> "window"] \in [{} -> {"window"}]
      OBVIOUS
    <3>2. Holding' = [p \in {"window"} |-> Holding[p]]
      BY <1>1 DEF Holding
    <3> QED
      BY <3>1, <3>2
  <2>6. (Asking \ {t}) \ Asking' = {}
    BY <2>1
  <2>7. ASSUME NEW u \in Asking'
        PROVE  \E p \in Usable[u] : Pool!Cardinality(Holding'[p]) >= Credits'[p]
    <3>1. "window" \in Usable[u]
      BY <2>1 DEF Usable
    <3>2. Pool!Cardinality(Holding'["window"]) >= Credits'["window"]
      BY <2>3, PoolCounts DEF Holding, Credits
    <3> QED
      BY <3>1, <3>2
  <2>8. Pool!Serve(Asking \ {t}, Usable, Holding)
    BY <2>1, <2>4, <2>5, <2>6, <2>7 DEF Pool!Serve
  <2> QED
    BY <2>1, <2>8 DEF Pool!Withdraw, Credits
<1>3. CASE ~Waiting(t)
  <2>1. Asking' = Asking
    BY <1>3 DEF Cancel, Asking, Waiting, IInv, TypeOK
  <2> QED
    BY <1>1, <2>1, PoolStutter
<1> QED
  BY <1>2, <1>3

\* Every handler of the window is a step of the pool or invisible to it.
LEMMA NextIsPoolNext ==
  ASSUME ConstantsAssumption, IInv, IInv', [Next]_vars
  PROVE  [Pool!Next]_(Pool!pool)
<1>1. ASSUME NEW t \in Task, Enter(t)
      PROVE  Pool!Next
  BY <1>1, EnterAsks DEF Pool!Next
<1>2. ASSUME NEW t \in Task, EnterCancelled(t)
      PROVE  [Pool!Next]_(Pool!pool)
  <2>1. Release(t, FALSE) /\ ~Waiting(t)
    BY <1>2 DEF EnterCancelled, Waiting, IInv, Tickets
  <2> QED
    BY <2>1, ReleaseGivesBack DEF Pool!Next
<1>3. ASSUME NEW t \in Task, NEW success \in BOOLEAN, Leave(t, success)
      PROVE  [Pool!Next]_(Pool!pool)
  <2>1. Release(t, success) /\ ~Waiting(t)
    BY <1>3 DEF Leave, Waiting, IInv, Tickets
  <2> QED
    BY <2>1, ReleaseGivesBack DEF Pool!Next
<1>4. ASSUME NEW t \in Task, Cancel(t)
      PROVE  [Pool!Next]_(Pool!pool)
  BY <1>4, CancelWithdraws DEF Pool!Next
<1>5. CASE \/ \E t \in Task : Resume(t) \/ Age(t)
           \/ \E f \in Flow : NewFlow(f)
           \/ UNCHANGED vars
  <2>1. Asking' = Asking /\ Holders' = Holders
    BY <1>5 DEF Resume, Age, NewFlow, vars, Asking, Waiting, Holders
  <2> QED
    BY <2>1, PoolStutter
<1> QED
  BY <1>1, <1>2, <1>3, <1>4, <1>5 DEF Next

\* The window implements the pool of credits: never more than its capacity, a
\* credit only for a caller that asks, none idle while somebody asks.
THEOREM WindowImplementsPool == Spec => ImplementsPool
<1>1. Init => Pool!Init
  <2> SUFFICES ASSUME Init
               PROVE  Pool!Init
    OBVIOUS
  <2>1. Asking = {} /\ Holders = {}
    BY DEF Init, Asking, Waiting, Holders
  <2>2. Capacity \in Nat
    BY ConstantsAssumption DEF ConstantsAssumption
  <2> QED
    BY <2>1, <2>2 DEF Pool!Init, Usable, Holding, Credits
<1>2. IInv /\ IInv' /\ [Next]_vars => [Pool!Next]_(Pool!pool)
  BY ConstantsAssumption, NextIsPoolNext
<1> QED
  BY <1>1, <1>2, Invariance, PTL DEF Spec, ImplementsPool, Pool!Spec
=============================================================================
