----------------------- MODULE CompletionRouterProofs -----------------------
(***************************************************************************)
(* For every set of calls, replicas, receivers, contracts, capacities and  *)
(* orderings: the router respects the capacity of every receiver, accounts *)
(* for every ticket once, leaks no credit, leaves no lane idle that a      *)
(* waiting call could use, and starts calls only where they may run.       *)
(***************************************************************************)
EXTENDS CompletionRouter, FirstFew

-----------------------------------------------------------------------------
(* One dispatch pass.                                                      *)

Live(pend, fut) == {t \in pend : fut[t] # "cancelled"}

\* The calls of act that occupy a lane of receiver v.
On(v, act) == {t \in act : ReceiverOf[assigned[t]] = v}

\* The calls of receiver v once the calls go are on the replicas they picked.
Taken(v, act, go, pick) ==
  {t \in act \cup go : ReceiverOf[IF t \in go THEN pick[t] ELSE assigned[t]] = v}

\* The lanes of v when a pass has admitted go of the tickets ready: none is
\* given twice, and a ticket that is left waiting has met a full receiver.
LanesUsed(v, act, ready, go, pick) ==
  /\ Cardinality(Taken(v, act, go, pick)) <= Capacity[v]
  /\ \A t \in ready \ go :
       ReceiverOf[pick[t]] = v => Cardinality(Taken(v, act, go, pick)) = Capacity[v]

\* A pass that starts from the calls act and admits the tickets go.
Admits(go, pend, act, fut, rel) ==
  /\ go \in SUBSET Live(pend, fut)
  /\ pending' = Live(pend, fut) \ go
  /\ active' = act \cup go
  /\ future' = [t \in Task |-> IF t \in go THEN "set" ELSE fut[t]]
  /\ released' = [t \in Task |-> IF t \in pend \ Live(pend, fut) THEN TRUE ELSE rel[t]]
  /\ assigned' \in [Task -> Replica \cup {NoReplica}]
  /\ \A t \in act : assigned'[t] = assigned[t]
  /\ \A t \in go : assigned'[t] \in EligibleFor(request'[t]) \cap enabled'
  /\ \A t \in Task \ (act \cup go) : assigned'[t] = NoReplica

\* The reservations the pass makes are enough to use the lanes well.
LEMMA LanesAfterPass ==
  ASSUME ConstantsAssumption, NEW act \in SUBSET Task, NEW ready \in SUBSET Task,
         act \cap ready = {},
         NEW pick \in [ready -> Replica], NEW pos \in [ready -> Int],
         \A t, u \in ready : t # u => pos[t] # pos[u],
         NEW v \in Receiver, Cardinality(On(v, act)) <= Capacity[v]
  PROVE  LanesUsed(v, act, ready, Admitted(ready, act, pick, pos), pick)
<1> DEFINE go     == Admitted(ready, act, pick, pos)
           now    == Taken(v, act, go, pick)
           S      == {t \in ready : ReceiverOf[pick[t]] = v}
           before == [t \in S |-> {u \in S : pos[u] < pos[t]}]
           k      == Idle(v, act)
           F      == FirstFew(S, before, k)
<1>1. /\ IsFiniteSet(Task) /\ IsFiniteSet(S) /\ IsFiniteSet(On(v, act))
      /\ Cardinality(On(v, act)) \in Nat /\ Capacity[v] \in Nat
  <2>1. IsFiniteSet(Task) /\ Capacity[v] \in Nat
    BY DEF ConstantsAssumption
  <2>2. S \in SUBSET Task /\ On(v, act) \in SUBSET Task
    BY DEF On
  <2> HIDE DEF S
  <2> QED
    BY <2>1, <2>2, FS_Subset, FS_CardinalityType
<1>2. k = Capacity[v] - Cardinality(On(v, act)) /\ k \in Nat
  BY <1>1 DEF Idle, On
<1>3. IsRanking(S, before)
  <2>1. \A t \in S : pos[t] \in Int
    OBVIOUS
  <2>2. before \in [S -> SUBSET S]
    OBVIOUS
  <2>3. \A t, u \in S : u \in before[t] <=> pos[u] < pos[t]
    OBVIOUS
  <2>4. \A t, u \in S : t # u => pos[t] # pos[u]
    OBVIOUS
  <2> HIDE DEF S, before
  <2> QED
    BY <2>1, <2>2, <2>3, <2>4 DEF IsRanking
<1>4. F = {t \in go : ReceiverOf[pick[t]] = v}
  <2>1. ASSUME NEW t \in S
        PROVE  MeetsIdleLane(t, ready, act, pick, pos) <=> Cardinality(before[t]) < k
    <3>1. before[t] = {u \in ready : pos[u] < pos[t] /\ ReceiverOf[pick[u]] = v}
      OBVIOUS
    <3> QED
      BY <3>1 DEF MeetsIdleLane
  <2> QED
    BY <2>1 DEF FirstFew, Admitted
<1>5. IsFiniteSet(F) /\ Cardinality(F) \in Nat /\ Cardinality(F) <= k
  <2> HIDE DEF S, before, k
  <2> QED
    BY <1>1, <1>2, <1>3, FirstFewAtMost, FS_CardinalityType
<1>6. now = On(v, act) \cup F /\ On(v, act) \cap F = {}
  BY <1>4 DEF On, Admitted, Taken
<1>7. Cardinality(now) = Cardinality(On(v, act)) + Cardinality(F)
  <2> HIDE DEF F
  <2>1. Cardinality(On(v, act) \cap F) = 0
    BY <1>6, FS_EmptySet
  <2>2. Cardinality(On(v, act) \cup F) =
          Cardinality(On(v, act)) + Cardinality(F) - Cardinality(On(v, act) \cap F)
    BY <1>1, <1>5, FS_Union
  <2>3. Cardinality(now) = Cardinality(On(v, act) \cup F)
    BY <1>6
  <2>4. Cardinality(On(v, act)) \in Nat /\ Cardinality(F) \in Nat
    BY <1>1, <1>5
  <2> QED
    BY <2>1, <2>2, <2>3, <2>4
<1>8. Cardinality(now) <= Capacity[v]
  <2> HIDE DEF F, k
  <2> QED
    BY <1>1, <1>2, <1>5, <1>7
<1>9. ASSUME NEW t \in ready \ go, ReceiverOf[pick[t]] = v
      PROVE  Cardinality(now) = Capacity[v]
  <2>1. t \in S /\ t \notin F
    BY <1>4, <1>9
  <2>2. Cardinality(F) >= k
    <3> HIDE DEF S, before, k
    <3> QED
      BY <1>1, <1>2, <1>3, <2>1, FirstFewAtLeast
  <2> HIDE DEF F, k
  <2> QED
    BY <1>1, <1>2, <1>5, <1>7, <2>2
<1> QED
  BY <1>8, <1>9 DEF LanesUsed

\* The turns of the questions are ranks, before and after the pass.
LEMMA TurnsAreRanks ==
  ASSUME ConstantsAssumption, NEW go, NEW pos, NEW queue, NEW act,
         lastDispatch \in [Root -> 0..Cardinality(Root)]
  PROVE  /\ Pruned(queue, act) \in [Root -> 0..Cardinality(Root)]
         /\ NextTurns(go, pos, Pruned(queue, act)) \in [Root -> 0..Cardinality(Root)]
<1>1. IsFiniteSet(Root) /\ Cardinality(Root) \in Nat
  BY FS_CardinalityType DEF ConstantsAssumption
<1>2. Pruned(queue, act) \in [Root -> 0..Cardinality(Root)]
  BY <1>1 DEF Pruned
<1>3. ASSUME NEW T \in SUBSET Root
      PROVE  Cardinality(T) \in 0..Cardinality(Root)
  <2>1. IsFiniteSet(T) /\ Cardinality(T) <= Cardinality(Root)
    BY <1>1, FS_Subset
  <2> QED
    BY <1>1, <2>1, FS_CardinalityType
<1> DEFINE turn == Pruned(queue, act)
           raw  == [x \in Root |->
                      LET mine == {t \in go : RootOf[t] = x}
                      IN  IF mine = {} THEN turn[x]
                          ELSE Cardinality(Root)
                               + (CHOOSE n \in {pos[t] : t \in mine} :
                                    \A t \in mine : pos[t] <= n)]
<1>4. NextTurns(go, pos, turn) =
        [x \in Root |-> IF raw[x] = 0 THEN 0
                        ELSE Cardinality({y \in Root : raw[y] > 0 /\ raw[y] <= raw[x]})]
  BY DEF NextTurns
<1> HIDE DEF raw
<1>5. \A x \in Root : Cardinality({y \in Root : raw[y] > 0 /\ raw[y] <= raw[x]})
                        \in 0..Cardinality(Root)
  BY <1>3
<1>6. 0 \in 0..Cardinality(Root)
  BY <1>1
<1> QED
  BY <1>2, <1>4, <1>5, <1>6

\* What a dispatch pass does to the state.
LEMMA DispatchEffect ==
  ASSUME ConstantsAssumption, NEW pend \in SUBSET Task, NEW act \in SUBSET Task,
         pend \cap act = {}, NEW fut \in [Task -> {"none", "waiting", "set", "cancelled"}],
         NEW rel \in [Task -> BOOLEAN], NEW ahd \in [Task -> SUBSET Task],
         aged \subseteq Task, \A t \in act : assigned[t] \in Replica,
         lastDispatch \in [Root -> 0..Cardinality(Root)],
         \A v \in Receiver : Cardinality(On(v, act)) <= Capacity[v],
         Dispatch(pend, act, fut, rel, ahd)
  PROVE  /\ \E go : Admits(go, pend, act, fut, rel)
         /\ ahead' \in [Task -> SUBSET Task] /\ aged' \subseteq pending'
         /\ lastDispatch' \in [Root -> 0..Cardinality(Root)] /\ recheck' \in BOOLEAN
         /\ CapacityRespected' /\ NoIdleStall'
<1> DEFINE swept == {t \in pend : fut[t] = "cancelled"}
           queue == pend \ swept
           turn  == Pruned(queue, act)
           Try   == {t \in queue : Choices(t)' # {}}
           Result(pick, pos, go) ==
             /\ pending' = queue \ go
             /\ active' = act \cup go
             /\ future' = [t \in Task |-> IF t \in go THEN "set" ELSE fut[t]]
             /\ released' = [t \in Task |-> IF t \in swept THEN TRUE ELSE rel[t]]
             /\ assigned' = [t \in Task |-> IF t \in go THEN pick[t]
                                            ELSE IF t \in act THEN assigned[t]
                                            ELSE NoReplica]
             /\ ahead' = [t \in Task |-> IF t \in queue \ go
                                         THEN ahd[t] \cap (queue \ go) ELSE {}]
             /\ aged' = aged \cap (queue \ go)
             /\ lastDispatch' = IF ordering = "fair"
                                THEN NextTurns(go, pos, turn) ELSE turn
             /\ recheck' = (queue \ go # {} /\ act \cup go # {})
<1>a. \E pick \in Picks(Try), pos \in Orders(queue, ahd, turn) :
        Result(pick, pos, Admitted(Try, act, pick, pos))
  BY DEF Dispatch
<1>b. PICK ready : /\ ready = Try
                   /\ \E pick \in Picks(ready), pos \in Orders(queue, ahd, turn) :
                        Result(pick, pos, Admitted(ready, act, pick, pos))
  <2> HIDE DEF Try, Result, queue, turn
  <2> QED
    BY <1>a
<1>0. ready = {t \in queue : Choices(t)' # {}}
  BY <1>b
<1>c. PICK pick \in Picks(ready), pos \in Orders(queue, ahd, turn) :
        Result(pick, pos, Admitted(ready, act, pick, pos))
  BY <1>b
<1> DEFINE go == Admitted(ready, act, pick, pos)
<1>1. Result(pick, pos, go)
  BY <1>c
<1> HIDE DEF Try
<1>2. queue = Live(pend, fut) /\ swept = pend \ Live(pend, fut)
  BY DEF Live
<1>3. go \in SUBSET ready /\ ready \in SUBSET queue /\ queue \in SUBSET Task
      /\ act \cap ready = {}
  BY <1>0 DEF Admitted
<1>4. /\ pick \in [ready -> Replica]
      /\ \A t \in ready : pick[t] \in Choices(t)'
  BY DEF Picks
<1>5. /\ pos \in [queue -> 1..Cardinality(queue)] /\ \A t \in queue : pos[t] \in Int
      /\ \A t, u \in queue : t # u => pos[t] # pos[u]
  <2>1. pos \in [queue -> 1..Cardinality(queue)]
    BY DEF Orders
  <2>2. \A n \in 1..Cardinality(queue) : n \in Int
    OBVIOUS
  <2>3. \A t, u \in queue : t # u => pos[t] # pos[u]
    BY DEF Orders
  <2> HIDE DEF swept, queue, turn
  <2> QED
    BY <2>1, <2>2, <2>3
<1>6. Cardinality(queue) \in Nat
  BY <1>3, FS_Subset, FS_CardinalityType DEF ConstantsAssumption
<1>7. \A t \in ready : Choices(t)' = EligibleFor(request'[t]) \cap enabled'
  BY DEF Choices, EligibleFor
<1> DEFINE now(v) == {t \in active' : ReceiverOf[assigned'[t]] = v}
<1>8. /\ pending' = queue \ go /\ active' = act \cup go
      /\ assigned' = [t \in Task |-> IF t \in go THEN pick[t]
                                     ELSE IF t \in act THEN assigned[t] ELSE NoReplica]
  BY <1>1
<1>9. ASSUME NEW v \in Receiver
      PROVE  /\ Cardinality(now(v)) <= Capacity[v]
             /\ \A t \in ready \ go :
                  ReceiverOf[pick[t]] = v => Cardinality(now(v)) = Capacity[v]
  <2>0. PICK place : place = [u \in ready |-> pos[u]]
    OBVIOUS
  <2>1. /\ place \in [ready -> Int]
        /\ \A t, u \in ready : t # u => place[t] # place[u]
    BY <1>3, <1>5, <2>0
  <2>2. \A t \in ready : MeetsIdleLane(t, ready, act, pick, pos)
                          <=> MeetsIdleLane(t, ready, act, pick, place)
    BY <2>0 DEF MeetsIdleLane
  <2>3. go = Admitted(ready, act, pick, place)
    BY <2>2 DEF Admitted
  <2>4. now(v) = Taken(v, act, go, pick)
    BY <1>3, <1>8 DEF Taken
  <2>5. act \in SUBSET Task /\ ready \in SUBSET Task /\ act \cap ready = {} /\ pick \in [ready -> Replica]
    BY <1>3, <1>4
  <2>6. Cardinality(On(v, act)) <= Capacity[v]
    OBVIOUS
  <2> HIDE DEF swept, queue, turn, go, now
  <2> QED
    <3>1. LanesUsed(v, act, ready, Admitted(ready, act, pick, place), pick)
      BY <2>1, <2>5, <2>6, LanesAfterPass
    <3> QED
      BY <2>3, <2>4, <3>1 DEF LanesUsed
<1>10. Admits(go, pend, act, fut, rel)
  <2>1. /\ go \in SUBSET Live(pend, fut) /\ pending' = Live(pend, fut) \ go
        /\ active' = act \cup go
    BY <1>2, <1>3, <1>8
  <2>2. future' = [t \in Task |-> IF t \in go THEN "set" ELSE fut[t]]
    BY <1>1
  <2>3. released' = [t \in Task |-> IF t \in pend \ Live(pend, fut) THEN TRUE ELSE rel[t]]
    BY <1>1, <1>2
  <2>4. /\ assigned' \in [Task -> Replica \cup {NoReplica}]
        /\ \A t \in act : assigned'[t] = assigned[t]
        /\ \A t \in go : assigned'[t] = pick[t]
        /\ \A t \in Task \ (act \cup go) : assigned'[t] = NoReplica
    BY <1>3, <1>4, <1>8
  <2>5. \A t \in go : assigned'[t] \in EligibleFor(request'[t]) \cap enabled'
    BY <1>3, <1>4, <1>7, <2>4
  <2> QED
    BY <2>1, <2>2, <2>3, <2>4, <2>5 DEF Admits
<1>11. ahead' \in [Task -> SUBSET Task] /\ aged' \subseteq pending'
  BY <1>1
<1>12. lastDispatch' \in [Root -> 0..Cardinality(Root)] /\ recheck' \in BOOLEAN
  <2>1. lastDispatch' = IF ordering = "fair" THEN NextTurns(go, pos, turn) ELSE turn
    BY <1>1
  <2>2. recheck' \in BOOLEAN
    BY <1>1
  <2> QED
    BY <2>1, <2>2, TurnsAreRanks
<1>13. CapacityRespected'
  BY <1>9 DEF CapacityRespected
<1>14. NoIdleStall'
  <2> SUFFICES ASSUME NEW t \in Task, Waiting(t)', Choices(t)' # {}
               PROVE  \E r \in Choices(t)' :
                        Capacity[ReceiverOf[r]] - Cardinality(now(ReceiverOf[r])) <= 0
    BY DEF NoIdleStall, Idle
  <2>1. t \in ready \ go
    BY <1>0, <1>1, <1>2 DEF Waiting
  <2>2. PICK v : v = ReceiverOf[pick[t]] /\ v \in Receiver
    BY <1>3, <1>4, <2>1 DEF ConstantsAssumption
  <2>3. Cardinality(now(v)) = Capacity[v]
    BY <1>9, <2>1, <2>2
  <2>4. Capacity[v] - Cardinality(now(v)) <= 0
    BY <2>2, <2>3 DEF ConstantsAssumption
  <2> HIDE DEF now
  <2> QED
    BY <1>4, <2>1, <2>2, <2>4
<1> QED
  BY <1>10, <1>11, <1>12, <1>13, <1>14

-----------------------------------------------------------------------------
(* The inductive invariant.                                                *)

\* What the properties do not say of the tasks: a credit belongs to a call in
\* progress, and an error is thrown only at an await.
Tasks ==
  \A t \in Task :
    /\ t \in active => pc[t] # "idle"
    /\ t \in cancelling => pc[t] = "waiting"

IInv == TypeOK /\ Bookkeeping /\ Tasks /\ CapacityRespected /\ NoIdleStall

\* What a handler must leave for its dispatch pass: the calls act still active,
\* and every ticket's flags in agreement with the queue pend.
Consistent(pend, act, fut, rel) ==
  /\ pend \in SUBSET Task /\ act \in SUBSET active /\ pend \cap active = {}
  /\ fut \in [Task -> {"none", "waiting", "set", "cancelled"}]
  /\ rel \in [Task -> BOOLEAN]
  /\ \A t \in Task :
       /\ rel[t] <=> t \notin pend \cup act
       /\ t \in act => fut[t] = "set" /\ pc'[t] # "idle"
       /\ t \in pend => /\ fut[t] \in {"waiting", "cancelled"}
                        /\ pc'[t] = "waiting" \/ (pc'[t] = "body" /\ future'[t] = "set")
       /\ fut[t] = "cancelled" => t \in cancelling'
       /\ pc'[t] = "waiting" /\ t \notin pend \cup act => fut[t] = "cancelled"
       /\ t \in cancelling' => pc'[t] = "waiting"

\* The variables no dispatch pass changes keep their types.
OthersOK ==
  /\ ordering' \in Orderings
  /\ pc' \in [Task -> {"idle", "waiting", "body"}]
  /\ request' \in [Task -> Request \cup {NoRequest}]
  /\ cancelling' \subseteq Task /\ enabled' \subseteq Replica

\* What the pass of such a handler admits and leaves.
LEMMA PassAdmits ==
  ASSUME ConstantsAssumption, IInv, NEW pend, NEW act, NEW fut, NEW rel,
         NEW ahd \in [Task -> SUBSET Task], Consistent(pend, act, fut, rel),
         Dispatch(pend, act, fut, rel, ahd)
  PROVE  /\ \E go : Admits(go, pend, act, fut, rel)
         /\ ahead' \in [Task -> SUBSET Task] /\ aged' \subseteq pending'
         /\ lastDispatch' \in [Root -> 0..Cardinality(Root)] /\ recheck' \in BOOLEAN
         /\ CapacityRespected' /\ NoIdleStall'
<1>1. /\ pend \in SUBSET Task /\ act \in SUBSET Task /\ pend \cap act = {}
      /\ fut \in [Task -> {"none", "waiting", "set", "cancelled"}]
      /\ rel \in [Task -> BOOLEAN]
  BY DEF Consistent, IInv, TypeOK
<1>2. \A t \in act : assigned[t] \in Replica
  BY DEF Consistent, IInv, TypeOK, Bookkeeping
<1>3. ASSUME NEW v \in Receiver
      PROVE  Cardinality(On(v, act)) <= Capacity[v]
  <2>1. On(v, act) \in SUBSET On(v, active)
    BY DEF On, Consistent
  <2>2. IsFiniteSet(On(v, active))
    BY FS_Subset DEF On, IInv, TypeOK, ConstantsAssumption
  <2>3. Cardinality(On(v, act)) <= Cardinality(On(v, active))
    BY <2>1, <2>2, FS_Subset
  <2>4. Cardinality(On(v, active)) <= Capacity[v]
    BY DEF On, IInv, CapacityRespected
  <2>5. /\ Cardinality(On(v, act)) \in Nat /\ Cardinality(On(v, active)) \in Nat
        /\ Capacity[v] \in Nat
    BY <2>1, <2>2, FS_Subset, FS_CardinalityType DEF ConstantsAssumption
  <2> QED
    BY <2>3, <2>4, <2>5
<1>4. aged \subseteq Task /\ lastDispatch \in [Root -> 0..Cardinality(Root)]
  BY DEF IInv, TypeOK
<1> QED
  BY <1>1, <1>2, <1>3, <1>4, DispatchEffect

\* A handler that leaves a consistent state for its dispatch pass preserves
\* the invariant, and its pass starts calls only where they may run.
LEMMA PassKeeps ==
  ASSUME ConstantsAssumption, IInv, NEW pend, NEW act, NEW fut, NEW rel,
         NEW ahd \in [Task -> SUBSET Task], Consistent(pend, act, fut, rel), OthersOK,
         Dispatch(pend, act, fut, rel, ahd)
  PROVE  IInv' /\ PlacesWhereAllowed
<1>1. /\ pend \in SUBSET Task /\ act \in SUBSET Task /\ pend \cap act = {}
      /\ fut \in [Task -> {"none", "waiting", "set", "cancelled"}]
      /\ rel \in [Task -> BOOLEAN]
  BY DEF Consistent, IInv, TypeOK
<1>2. \A t \in act : assigned[t] \in Replica
  BY DEF Consistent, IInv, TypeOK, Bookkeeping
<1>5. /\ \E go : Admits(go, pend, act, fut, rel)
      /\ ahead' \in [Task -> SUBSET Task] /\ aged' \subseteq pending'
      /\ lastDispatch' \in [Root -> 0..Cardinality(Root)] /\ recheck' \in BOOLEAN
      /\ CapacityRespected' /\ NoIdleStall'
  BY PassAdmits
<1>6. PICK go : Admits(go, pend, act, fut, rel)
  BY <1>5
<1>7. TypeOK'
  <2>1. pending' \subseteq Task /\ active' \subseteq Task
    BY <1>1, <1>6 DEF Admits, Live
  <2>2. /\ future' \in [Task -> {"none", "waiting", "set", "cancelled"}]
        /\ released' \in [Task -> BOOLEAN]
        /\ assigned' \in [Task -> Replica \cup {NoReplica}]
    BY <1>1, <1>6 DEF Admits
  <2> QED
    BY <1>5, <2>1, <2>2 DEF TypeOK, OthersOK
<1>8. Bookkeeping'
  <2>1. /\ go \in SUBSET pend /\ pending' = Live(pend, fut) \ go
        /\ active' = act \cup go /\ pend \cap act = {}
    BY <1>1, <1>6 DEF Admits, Live
  <2>2. \A t \in Task : /\ t \in go => fut[t] # "cancelled"
                        /\ t \in pending' <=> t \in pend \ go /\ fut[t] # "cancelled"
    BY <1>6 DEF Admits, Live
  <2>3. \A t \in Task : future'[t] = IF t \in go THEN "set" ELSE fut[t]
    BY <1>1, <1>6 DEF Admits
  <2>4. \A t \in Task : released'[t] <=> (rel[t] \/ (t \in pend /\ fut[t] = "cancelled"))
    <3>1. \A t \in Task : released'[t] = IF t \in pend \ Live(pend, fut) THEN TRUE ELSE rel[t]
      BY <1>6 DEF Admits
    <3>2. \A t \in Task : t \in pend \ Live(pend, fut) <=> t \in pend /\ fut[t] = "cancelled"
      BY DEF Live
    <3>3. \A t \in Task : released'[t] \in BOOLEAN /\ rel[t] \in BOOLEAN
      BY <1>1, <3>1
    <3> HIDE DEF Live
    <3> QED
      BY <3>1, <3>2, <3>3, Zenon
  <2>5. \A t \in Task : t \in active' <=> assigned'[t] # NoReplica
    <3>1. \A t \in act \cup go : assigned'[t] \in Replica
      <4>1. \A t \in act : assigned'[t] \in Replica
        BY <1>2, <1>6 DEF Admits
      <4>2. \A t \in go : assigned'[t] \in enabled' /\ enabled' \subseteq Replica
        BY <1>6 DEF Admits, OthersOK
      <4> QED
        BY <4>1, <4>2
    <3>2. \A t \in Task \ (act \cup go) : assigned'[t] = NoReplica
      BY <1>6 DEF Admits
    <3> QED
      BY <2>1, <3>1, <3>2 DEF ConstantsAssumption
  <2>6. pending' \cap active' = {}
    BY <2>1 DEF Live
  <2>7. ASSUME NEW t \in Task
        PROVE  /\ released'[t] <=> t \notin pending' \cup active'
               /\ t \in active' => future'[t] = "set"
               /\ t \in pending' => pc'[t] = "waiting" /\ future'[t] \in {"waiting", "cancelled"}
               /\ future'[t] = "cancelled" => t \in cancelling'
               /\ pc'[t] = "waiting" /\ t \notin pending' \cup active' => future'[t] = "cancelled"
    <3>1. /\ t \in active' <=> t \in act \/ t \in go
          /\ t \in pending' <=> t \in pend /\ t \notin go /\ fut[t] # "cancelled"
          /\ t \in go => t \in pend /\ t \notin act /\ fut[t] # "cancelled"
      BY <2>1, <2>2
    <3>2. /\ rel[t] <=> t \notin pend \cup act
          /\ t \in act => fut[t] = "set"
          /\ t \in pend => /\ fut[t] \in {"waiting", "cancelled"}
                           /\ pc'[t] = "waiting" \/ (pc'[t] = "body" /\ future'[t] = "set")
          /\ fut[t] = "cancelled" => t \in cancelling'
          /\ pc'[t] = "waiting" /\ t \notin pend \cup act => fut[t] = "cancelled"
      BY DEF Consistent
    <3>3. t \in pend => t \notin act
      BY <2>1
    <3>4. released'[t] <=> t \notin pending' \cup active'
      BY <2>4, <3>1, <3>2, <3>3
    <3>5. /\ t \in active' => future'[t] = "set"
          /\ future'[t] = "cancelled" => t \in cancelling'
          /\ pc'[t] = "waiting" /\ t \notin pending' \cup active' => future'[t] = "cancelled"
      BY <2>3, <3>1, <3>2, <3>3
    <3>6. ASSUME t \in pending'
          PROVE  pc'[t] = "waiting" /\ future'[t] \in {"waiting", "cancelled"}
      <4>1. t \in pend /\ future'[t] = fut[t]
        BY <2>3, <3>1, <3>6
      <4> QED
        BY <3>2, <4>1
    <3> QED
      BY <3>4, <3>5, <3>6
  <2> QED
    BY <2>5, <2>6, <2>7 DEF Bookkeeping
<1>9. Tasks'
  BY <1>1, <1>6 DEF Tasks, Consistent, Admits, Live
<1>10. PlacesWhereAllowed
  BY <1>6 DEF PlacesWhereAllowed, Consistent, Admits, Live
<1> QED
  BY <1>5, <1>7, <1>8, <1>9, <1>10 DEF IInv

-----------------------------------------------------------------------------
(* Every handler preserves the invariant.                                  *)

LEMMA InitIInv == ASSUME ConstantsAssumption, Init PROVE IInv
<1>1. TypeOK
  <2>1. 0 \in 0..Cardinality(Root)
    BY FS_CardinalityType DEF ConstantsAssumption
  <2> QED
    BY <2>1 DEF Init, TypeOK
<1>2. Bookkeeping /\ Tasks
  BY DEF Init, Bookkeeping, Tasks
<1>3. CapacityRespected
  <2> SUFFICES ASSUME NEW v \in Receiver
               PROVE  Cardinality({t \in active : ReceiverOf[assigned[t]] = v}) <= Capacity[v]
    BY DEF CapacityRespected
  <2>1. {t \in active : ReceiverOf[assigned[t]] = v} = {}
    BY DEF Init
  <2>2. Cardinality({t \in active : ReceiverOf[assigned[t]] = v}) = 0
    BY <2>1, FS_EmptySet
  <2>3. Capacity[v] \in Nat
    BY DEF ConstantsAssumption
  <2> QED
    BY <2>2, <2>3
<1>4. NoIdleStall
  BY DEF Init, NoIdleStall, Waiting
<1> QED
  BY <1>1, <1>2, <1>3, <1>4 DEF IInv

\* The end of a call and the early release, up to what happens to the task.
LEMMA ReleaseKeeps ==
  ASSUME ConstantsAssumption, IInv, NEW t \in Task, Release(t), OthersOK,
         \/ pc' = [pc EXCEPT ![t] = "idle"] /\ cancelling' = cancelling \ {t}
         \/ pc' = pc /\ cancelling' = cancelling /\ pc[t] = "body"
  PROVE  IInv' /\ PlacesWhereAllowed
<1> DEFINE act == active \ {t}
           fut == [future EXCEPT ![t] = "none"]
           rel == [released EXCEPT ![t] = TRUE]
<1>1. Consistent(pending, act, fut, rel)
  BY DEF Release, Consistent, IInv, TypeOK, Bookkeeping, Tasks
<1>2. Dispatch(pending, act, fut, rel, ahead)
  BY DEF Release
<1>3. ahead \in [Task -> SUBSET Task]
  BY DEF IInv, TypeOK
<1> HIDE DEF act, fut, rel
<1> QED
  BY <1>1, <1>2, <1>3, PassKeeps

\* A task that ends without a release leaves no trace.
LEMMA NoReleaseKeeps ==
  ASSUME ConstantsAssumption, IInv, NEW t \in Task, Leave(t), NoRelease(t),
         t \notin pending, t \notin active
  PROVE  IInv' /\ PlacesWhereAllowed
<1>1. TypeOK'
  BY DEF Leave, NoRelease, IInv, TypeOK
<1>2. Bookkeeping' /\ Tasks' /\ PlacesWhereAllowed
  BY DEF Leave, NoRelease, IInv, TypeOK, Bookkeeping, Tasks, PlacesWhereAllowed
<1>3. CapacityRespected'
  BY DEF Leave, NoRelease, IInv, CapacityRespected
<1>4. NoIdleStall'
  <2>1. ASSUME NEW u \in Task, Waiting(u)'
        PROVE  Waiting(u) /\ Choices(u)' = Choices(u)
    BY <2>1 DEF Leave, NoRelease, IInv, TypeOK, Waiting, Choices, EligibleFor
  <2>2. \A v : Idle(v, active)' = Idle(v, active)
    BY DEF NoRelease, Idle
  <2> QED
    BY <2>1, <2>2 DEF NoIdleStall, IInv
<1> QED
  BY <1>1, <1>2, <1>3, <1>4 DEF IInv

\* A step that touches neither lanes, requests nor health, and lets a call at
\* most stop waiting, leaves no lane idle that it found busy.
LEMMA NoIdleStallKeeps ==
  ASSUME NoIdleStall, active' = active, assigned' = assigned, request' = request,
         enabled' = enabled, \A u \in Task : Waiting(u)' => Waiting(u)
  PROVE  NoIdleStall' /\ (CapacityRespected => CapacityRespected')
<1>1. \A u \in Task : Choices(u)' = Choices(u)
  BY DEF Choices, EligibleFor
<1>2. \A v : Idle(v, active)' = Idle(v, active)
  BY DEF Idle
<1> QED
  BY <1>1, <1>2 DEF NoIdleStall, CapacityRespected

LEMMA NextIInv ==
  ASSUME ConstantsAssumption, IInv, [Next]_vars
  PROVE  IInv' /\ [PlacesWhereAllowed]_vars
<1> USE DEF IInv, TypeOK
<1>1. ASSUME NEW t \in Task, NEW q \in Request, Acquire(t, q)
      PROVE  IInv' /\ PlacesWhereAllowed
  <2> DEFINE pend == pending \cup {t}
             fut  == [future EXCEPT ![t] = "waiting"]
             rel  == [released EXCEPT ![t] = FALSE]
             ahd  == [ahead EXCEPT ![t] = pending]
  <2>1. OthersOK
    BY <1>1 DEF Acquire, OthersOK
  <2>2. Consistent(pend, active, fut, rel)
    BY <1>1 DEF Acquire, Consistent, Bookkeeping, Tasks
  <2>3. Dispatch(pend, active, fut, rel, ahd) /\ ahd \in [Task -> SUBSET Task]
    BY <1>1 DEF Acquire
  <2> HIDE DEF pend, fut, rel, ahd, IInv
  <2> QED
    BY <2>1, <2>2, <2>3, PassKeeps
<1>2. ASSUME NEW t \in Task, Resume(t)
      PROVE  IInv' /\ PlacesWhereAllowed
  <2>1. TypeOK' /\ Bookkeeping' /\ Tasks' /\ PlacesWhereAllowed
    BY <1>2 DEF Resume, Bookkeeping, Tasks, PlacesWhereAllowed
  <2>2. NoIdleStall' /\ CapacityRespected'
    BY <1>2, NoIdleStallKeeps DEF Resume, Waiting
  <2> QED
    BY <2>1, <2>2
<1>3. ASSUME NEW t \in Task, Cancel(t)
      PROVE  IInv' /\ PlacesWhereAllowed
  <2>1. TypeOK' /\ Bookkeeping' /\ Tasks' /\ PlacesWhereAllowed
    BY <1>3 DEF Cancel, Bookkeeping, Tasks, PlacesWhereAllowed
  <2>2. \A u \in Task : Waiting(u)' => Waiting(u)
    BY <1>3 DEF Cancel, Waiting
  <2>3. NoIdleStall' /\ CapacityRespected'
    BY <1>3, <2>2, NoIdleStallKeeps DEF Cancel
  <2> QED
    BY <2>1, <2>3
<1>4. ASSUME NEW t \in Task, AcquireCancelled(t)
      PROVE  IInv' /\ PlacesWhereAllowed
  <2>1. OthersOK /\ Leave(t)
    BY <1>4 DEF AcquireCancelled, Leave, OthersOK
  <2>2. CASE t \in pending
    <3> DEFINE pend == pending \ {t}
               fut  == [future EXCEPT ![t] = "none"]
               rel  == [released EXCEPT ![t] = TRUE]
    <3>1. Dispatch(pend, active, fut, rel, ahead) /\ ahead \in [Task -> SUBSET Task]
      BY <1>4, <2>2 DEF AcquireCancelled, Release, Bookkeeping
    <3>2. Consistent(pend, active, fut, rel)
      BY <2>1, <2>2 DEF Leave, Consistent, Bookkeeping, Tasks
    <3> HIDE DEF pend, fut, rel, IInv
    <3> QED
      BY <2>1, <3>1, <3>2, PassKeeps
  <2>3. CASE t \notin pending /\ Release(t)
    <3> HIDE DEF IInv
    <3> QED
      BY <2>1, <2>3, ReleaseKeeps DEF Leave
  <2>4. CASE t \notin pending /\ t \notin active /\ NoRelease(t)
    <3> HIDE DEF IInv
    <3> QED
      BY <2>1, <2>4, NoReleaseKeeps
  <2> QED
    BY <1>4, <2>2, <2>3, <2>4 DEF AcquireCancelled
<1>5. ASSUME NEW t \in Task, ReleaseEarly(t)
      PROVE  IInv' /\ PlacesWhereAllowed
  <2>1. OthersOK
    BY <1>5 DEF ReleaseEarly, OthersOK
  <2> HIDE DEF IInv
  <2> QED
    BY <1>5, <2>1, ReleaseKeeps DEF ReleaseEarly
<1>6. ASSUME NEW t \in Task, Finish(t)
      PROVE  IInv' /\ PlacesWhereAllowed
  <2>1. OthersOK /\ Leave(t)
    BY <1>6 DEF Finish, Leave, OthersOK
  <2>2. released[t] => t \notin pending \cup active
    BY DEF Bookkeeping
  <2> HIDE DEF IInv
  <2>3. CASE Release(t)
    BY <2>1, <2>3, ReleaseKeeps DEF Leave
  <2>4. CASE released[t] /\ NoRelease(t)
    BY <2>1, <2>2, <2>4, NoReleaseKeeps
  <2> QED
    BY <1>6, <2>3, <2>4 DEF Finish
<1>7. ASSUME NEW t \in Task, Age(t)
      PROVE  IInv' /\ PlacesWhereAllowed
  <2>1. TypeOK' /\ Bookkeeping' /\ Tasks' /\ PlacesWhereAllowed
    BY <1>7 DEF Age, Bookkeeping, Tasks, PlacesWhereAllowed
  <2>2. NoIdleStall' /\ CapacityRespected'
    BY <1>7, NoIdleStallKeeps DEF Age, Waiting
  <2> QED
    BY <2>1, <2>2
<1>8. ASSUME UNCHANGED <<ordering, pc, request, cancelling>>, enabled' \subseteq Replica,
             Dispatch(pending, active, future, released, ahead)
      PROVE  IInv' /\ PlacesWhereAllowed
  <2>1. OthersOK
    BY <1>8 DEF OthersOK
  <2>2. Consistent(pending, active, future, released)
    BY <1>8 DEF Consistent, Bookkeeping, Tasks
  <2>3. ahead \in [Task -> SUBSET Task]
    OBVIOUS
  <2> HIDE DEF IInv
  <2> QED
    BY <1>8, <2>1, <2>2, <2>3, PassKeeps
<1>9. ASSUME NEW r \in Toggled, NEW on \in BOOLEAN, SetEnabled(r, on)
      PROVE  IInv' /\ PlacesWhereAllowed
  <2>1. enabled' \subseteq Replica
    BY <1>9 DEF SetEnabled, ConstantsAssumption
  <2> QED
    BY <1>8, <1>9, <2>1 DEF SetEnabled
<1>10. ASSUME Recheck
       PROVE  IInv' /\ PlacesWhereAllowed
  BY <1>8, <1>10 DEF Recheck
<1>11. ASSUME UNCHANGED vars
       PROVE  IInv'
  <2>1. TypeOK' /\ Bookkeeping' /\ Tasks'
    BY <1>11 DEF vars, Bookkeeping, Tasks
  <2>2. NoIdleStall' /\ CapacityRespected'
    BY <1>11, NoIdleStallKeeps DEF vars, Waiting
  <2> QED
    BY <2>1, <2>2
<1> HIDE DEF IInv
<1> QED
  BY <1>1, <1>2, <1>3, <1>4, <1>5, <1>6, <1>7, <1>9, <1>10, <1>11 DEF Next

-----------------------------------------------------------------------------
(* The order in which calls start.                                         *)

\* The tickets of a queue are in arrival order, the overdue ones first.
Arrived(pend, ahd) ==
  \A t \in pend :
    /\ t \notin ahd[t]
    /\ \A u \in pend \cap ahd[t] : ahd[u] \cap pend \subseteq ahd[t]
    /\ t \in aged => ahd[t] \cap pend \subseteq aged

\* The queue is in arrival order, and only coflow ordering has overdue tickets.
QueueInv ==
  /\ Arrived(pending, ahead)
  /\ \A t \in Task : ahead[t] \subseteq pending /\ (t \notin pending => ahead[t] = {})
  /\ aged # {} => ordering = "coflow"

\* Of two tickets that try the same receiver, a pass never takes the second one
\* and leaves the first.
LEMMA TakesEarlierFirst ==
  ASSUME NEW ready, IsFiniteSet(ready), NEW act, NEW pick, NEW pos, \A w \in ready : pos[w] \in Int,
         NEW t \in Admitted(ready, act, pick, pos), NEW u \in ready \ Admitted(ready, act, pick, pos),
         ReceiverOf[pick[t]] = ReceiverOf[pick[u]], Idle(ReceiverOf[pick[u]], act) \in Int
  PROVE  pos[t] <= pos[u]
<1> DEFINE v == ReceiverOf[pick[u]]
           sooner(x) == {w \in ready : pos[w] < pos[x] /\ ReceiverOf[pick[w]] = v}
<1>1. SUFFICES ASSUME pos[u] < pos[t] PROVE FALSE
  BY DEF Admitted
<1>2. t \in ready /\ Cardinality(sooner(t)) < Idle(v, act) /\ ~(Cardinality(sooner(u)) < Idle(v, act))
  BY DEF Admitted, MeetsIdleLane
<1>3. sooner(u) \subseteq sooner(t) /\ sooner(t) \subseteq ready
  BY <1>1, <1>2
<1> HIDE DEF sooner, v
<1>4. IsFiniteSet(sooner(t)) /\ IsFiniteSet(sooner(u)) /\ Cardinality(sooner(u)) <= Cardinality(sooner(t))
  BY <1>3, FS_Subset
<1>5. Cardinality(sooner(t)) \in Nat /\ Cardinality(sooner(u)) \in Nat
  BY <1>4, FS_CardinalityType
<1>6. Idle(v, act) \in Int
  BY DEF v
<1> QED
  BY <1>2, <1>4, <1>5, <1>6

\* In every ordering a ticket precedes none of its question that came earlier.
LEMMA EldersPrecede ==
  ASSUME NEW queue \in SUBSET Task, IsFiniteSet(queue), NEW ahd, NEW turn, Arrived(queue, ahd),
         ordering \in {"fifo", "coflow", "fair"},
         NEW t \in queue, NEW u \in queue, RootOf[t] = RootOf[u], u \in ahd[t]
  PROVE  ~Before(t, u, queue, ahd, turn)
<1>1. /\ t \notin ahd[t] /\ u \notin ahd[u] /\ ahd[u] \cap queue \subseteq ahd[t]
      /\ t \in aged => u \in aged
  BY DEF Arrived
<1>2. t \notin ahd[u]
  BY <1>1
<1>3. ~CoflowBefore(t, u, ahd)
  BY <1>1, <1>2 DEF CoflowBefore
<1>4. ~FairBefore(t, u, queue, ahd, turn)
  <2> DEFINE elders(x) == {w \in queue \cap ahd[x] : RootOf[w] = RootOf[x]}
  <2>1. elders(u) \subseteq elders(t) /\ elders(u) # elders(t) /\ elders(t) \subseteq queue
    BY <1>1
  <2>2. RoundOf(t, queue, ahd) = Cardinality(elders(t)) /\ RoundOf(u, queue, ahd) = Cardinality(elders(u))
    BY DEF RoundOf
  <2> HIDE DEF elders
  <2>3. IsFiniteSet(elders(t)) /\ IsFiniteSet(elders(u))
    BY <2>1, FS_Subset
  <2>4. Cardinality(elders(t)) \in Nat /\ Cardinality(elders(u)) \in Nat
    BY <2>3, FS_CardinalityType
  <2>5. /\ Cardinality(elders(u)) <= Cardinality(elders(t))
        /\ Cardinality(elders(u)) # Cardinality(elders(t))
    BY <2>1, <2>3, FS_Subset
  <2> QED
    BY <2>2, <2>4, <2>5 DEF FairBefore
<1> QED
  BY <1>2, <1>3, <1>4 DEF Before

\* A call that a pass starts on the only receiver another call could use comes
\* before that call in the order of the pass.
StartsBefore(act, queue, ahd) ==
  \A t \in active' \ act, u \in pending' :
    Waiting(u)' /\ ReceiversFor(u)' = {ReceiverOf[assigned'[t]]} =>
      t \in queue /\ Before(t, u, queue, ahd, Pruned(queue, act))

\* A pass starts calls in order, and what it leaves keeps the arrival order.
PassInOrder(pend, act, fut, ahd) ==
  /\ StartsBefore(act, Live(pend, fut), ahd)
  /\ pending' \subseteq Live(pend, fut) /\ aged' = aged \cap pending'
  /\ ahead' = [t \in Task |-> IF t \in pending' THEN ahd[t] \cap pending' ELSE {}]

LEMMA OrderOfPass ==
  ASSUME ConstantsAssumption, NEW pend \in SUBSET Task, NEW act \in SUBSET Task,
         pend \cap act = {}, NEW fut, NEW rel, NEW ahd, \A v \in Receiver : Idle(v, act) \in Int,
         Arrived(pend, ahd), Dispatch(pend, act, fut, rel, ahd)
  PROVE  PassInOrder(pend, act, fut, ahd)
<1> DEFINE swept == {t \in pend : fut[t] = "cancelled"}
           queue == pend \ swept
           turn  == Pruned(queue, act)
           Try   == {t \in queue : Choices(t)' # {}}
           Result(pick, pos, go) ==
             /\ pending' = queue \ go
             /\ active' = act \cup go
             /\ future' = [t \in Task |-> IF t \in go THEN "set" ELSE fut[t]]
             /\ released' = [t \in Task |-> IF t \in swept THEN TRUE ELSE rel[t]]
             /\ assigned' = [t \in Task |-> IF t \in go THEN pick[t]
                                            ELSE IF t \in act THEN assigned[t]
                                            ELSE NoReplica]
             /\ ahead' = [t \in Task |-> IF t \in queue \ go
                                         THEN ahd[t] \cap (queue \ go) ELSE {}]
             /\ aged' = aged \cap (queue \ go)
             /\ lastDispatch' = IF ordering = "fair"
                                THEN NextTurns(go, pos, turn) ELSE turn
             /\ recheck' = (queue \ go # {} /\ act \cup go # {})
<1>1. queue = Live(pend, fut)
  BY DEF Live
<1>2. \E pick \in Picks(Try), pos \in Orders(queue, ahd, turn) :
        Result(pick, pos, Admitted(Try, act, pick, pos))
  BY DEF Dispatch
<1>3. PICK ready : /\ ready = Try
                   /\ \E pick \in Picks(ready), pos \in Orders(queue, ahd, turn) :
                        Result(pick, pos, Admitted(ready, act, pick, pos))
  <2> HIDE DEF Try, Result, queue, turn
  <2> QED
    BY <1>2
<1>4. PICK pick \in Picks(ready), pos \in Orders(queue, ahd, turn) :
        Result(pick, pos, Admitted(ready, act, pick, pos))
  BY <1>3
<1> DEFINE go == Admitted(ready, act, pick, pos)
<1>5. Result(pick, pos, go)
  BY <1>4
<1>6. ready = {t \in queue : Choices(t)' # {}}
  BY <1>3
<1> HIDE DEF Try, turn
<1>7. go \in SUBSET ready /\ ready \in SUBSET queue /\ queue \in SUBSET Task
  BY <1>6 DEF Admitted
<1>8. IsFiniteSet(ready)
  BY <1>7, FS_Subset DEF ConstantsAssumption
<1>9. /\ pos \in [queue -> 1..Cardinality(queue)]
      /\ \A t, u \in queue : t # u =>
           pos[t] # pos[u] /\ (pos[t] < pos[u] => Before(t, u, queue, ahd, turn))
  BY DEF Orders
<1>10. \A t \in queue : pos[t] \in Int
  <2> HIDE DEF queue
  <2> QED
    BY <1>9
<1>11. \A t \in ready : pick[t] \in Choices(t)' /\ pick[t] \in Replica
  BY DEF Picks
<1>12. ASSUME NEW t \in active' \ act, NEW u \in pending', Waiting(u)',
              ReceiversFor(u)' = {ReceiverOf[assigned'[t]]}
       PROVE  t \in queue /\ Before(t, u, queue, ahd, turn)
  <2>1. t \in go /\ assigned'[t] = pick[t] /\ u \in queue \ go
    <3>1. /\ pending' = queue \ go /\ active' = act \cup go
          /\ assigned' = [x \in Task |-> IF x \in go THEN pick[x]
                                         ELSE IF x \in act THEN assigned[x] ELSE NoReplica]
      BY <1>5
    <3>2. go \in SUBSET Task
      BY <1>7
    <3> HIDE DEF go, queue
    <3> QED
      BY <3>1, <3>2
  <2>2. Choices(u)' # {}
    BY <1>12 DEF ReceiversFor
  <2>3. u \in ready \ go /\ t \in ready /\ t # u
    BY <1>6, <1>7, <2>1, <2>2
  <2>4. ReceiverOf[pick[u]] = ReceiverOf[pick[t]]
    <3>1. ReceiverOf[pick[u]] \in ReceiversFor(u)'
      BY <1>11, <2>3 DEF ReceiversFor
    <3> QED
      BY <1>12, <2>1, <3>1
  <2>5. Idle(ReceiverOf[pick[u]], act) \in Int
    BY <1>11, <2>3 DEF ConstantsAssumption
  <2>6. pos[t] <= pos[u]
    <3>1. \A w \in ready : pos[w] \in Int
      BY <1>7, <1>10
    <3> QED
      BY <1>8, <2>1, <2>3, <2>4, <2>5, <3>1, TakesEarlierFirst
  <2>7. t \in queue /\ u \in queue
    BY <1>7, <2>3
  <2> HIDE DEF queue, go
  <2>8. pos[t] < pos[u]
    <3>1. pos[t] # pos[u]
      BY <1>9, <2>3, <2>7
    <3>2. pos[t] \in Int /\ pos[u] \in Int
      BY <1>10, <2>7
    <3> QED
      BY <2>6, <3>1, <3>2
  <2> QED
    BY <1>9, <2>3, <2>7, <2>8
<1>13. StartsBefore(act, Live(pend, fut), ahd)
  <2> HIDE DEF queue
  <2>1. StartsBefore(act, queue, ahd)
    BY <1>12 DEF StartsBefore, turn
  <2> QED
    BY <1>1, <2>1
<1>14. pending' \subseteq Live(pend, fut) /\ aged' = aged \cap pending'
       /\ ahead' = [t \in Task |-> IF t \in pending' THEN ahd[t] \cap pending' ELSE {}]
  BY <1>1, <1>5
<1> QED
  BY <1>13, <1>14 DEF PassInOrder

\* A handler that leaves a consistent queue in arrival order for its pass: the
\* pass keeps the order, and starts calls in it.
LEMMA PassStartsInOrder ==
  ASSUME ConstantsAssumption, IInv, QueueInv, NEW pend, NEW act, NEW fut, NEW rel, NEW ahd,
         Consistent(pend, act, fut, rel), Dispatch(pend, act, fut, rel, ahd), ordering' = ordering,
         Arrived(pend, ahd), \A t \in pending : ahd[t] = ahead[t]
  PROVE  QueueInv' /\ OvertakesNoOverdue /\ OvertakesNoElder
<1> DEFINE queue == Live(pend, fut)
           turn  == Pruned(queue, act)
<1>1. /\ pend \in SUBSET Task /\ act \in SUBSET active /\ act \in SUBSET Task /\ pend \cap act = {}
      /\ aged \subseteq pending /\ ordering \in {"fifo", "coflow", "fair"}
  BY DEF Consistent, IInv, TypeOK, ConstantsAssumption
<1>2. \A v \in Receiver : Idle(v, act) \in Int
  <2> SUFFICES ASSUME NEW v \in Receiver PROVE Idle(v, act) \in Int
    OBVIOUS
  <2>1. IsFiniteSet({t \in act : ReceiverOf[assigned[t]] = v})
    BY <1>1, FS_Subset DEF ConstantsAssumption
  <2> QED
    BY <2>1, FS_CardinalityType DEF Idle, ConstantsAssumption
<1>3. /\ StartsBefore(act, queue, ahd)
      /\ pending' \subseteq queue /\ aged' = aged \cap pending'
      /\ ahead' = [t \in Task |-> IF t \in pending' THEN ahd[t] \cap pending' ELSE {}]
  <2>1. PassInOrder(pend, act, fut, ahd)
    BY <1>1, <1>2, OrderOfPass
  <2> QED
    BY <2>1 DEF PassInOrder
<1>4. queue \in SUBSET pend /\ IsFiniteSet(queue)
  BY <1>1, FS_Subset DEF Live, ConstantsAssumption
<1>5. Arrived(queue, ahd)
  BY <1>4 DEF Arrived
<1> HIDE DEF queue
<1>6. QueueInv'
  <2>1. \A t \in pending' : ahead'[t] = ahd[t] \cap pending'
    BY <1>1, <1>3, <1>4
  <2>2. \A t \in Task : ahead'[t] \subseteq pending' /\ (t \notin pending' => ahead'[t] = {})
    BY <1>3
  <2>3. Arrived(pending, ahead)'
    BY <1>3, <1>5, <2>1 DEF Arrived
  <2>4. aged' # {} => ordering' = "coflow"
    BY <1>3 DEF QueueInv
  <2> QED
    BY <2>2, <2>3, <2>4 DEF QueueInv
<1>7. ASSUME NEW t \in active' \ active, NEW u \in pending', Waiting(u)',
             ReceiversFor(u)' = {ReceiverOf[assigned'[t]]}
      PROVE  t \in queue /\ u \in queue /\ Before(t, u, queue, ahd, turn)
  BY <1>1, <1>3, <1>7 DEF StartsBefore
<1>8. OvertakesNoOverdue
  <2> SUFFICES ASSUME NEW t \in active' \ active, NEW u \in aged \cap pending', Waiting(u)',
                      ReceiversFor(u)' = {ReceiverOf[assigned'[t]]}
               PROVE  t \in aged /\ t \in ahead[u]
    BY DEF OvertakesNoOverdue
  <2>1. ordering = "coflow" /\ ahd[u] = ahead[u]
    BY <1>1 DEF QueueInv
  <2>2. CoflowBefore(t, u, ahd)
    BY <1>7, <2>1 DEF Before
  <2> QED
    BY <2>1, <2>2 DEF CoflowBefore
<1>9. OvertakesNoElder
  <2> SUFFICES ASSUME NEW t \in active' \ active, NEW u \in pending', Waiting(u)',
                      ReceiversFor(u)' = {ReceiverOf[assigned'[t]]},
                      RootOf[t] = RootOf[u], u \in ahead[t]
               PROVE  FALSE
    BY DEF OvertakesNoElder
  <2>1. t \in queue /\ u \in queue /\ Before(t, u, queue, ahd, turn)
    BY <1>7
  <2>2. t \in Task
    BY <1>1, <1>4, <2>1
  <2>3. t \in pending
    BY <2>2 DEF QueueInv
  <2>4. u \in ahd[t]
    BY <2>3
  <2>5. queue \in SUBSET Task
    BY <1>1, <1>4
  <2> HIDE DEF turn
  <2> QED
    BY <1>1, <1>4, <1>5, <2>1, <2>4, <2>5, EldersPrecede
<1> QED
  BY <1>6, <1>8, <1>9

\* A step that starts no call overtakes nobody.
LEMMA StartsNone ==
  ASSUME active' \subseteq active
  PROVE  OvertakesNoOverdue /\ OvertakesNoElder
BY DEF OvertakesNoOverdue, OvertakesNoElder

LEMMA ReleaseStartsInOrder ==
  ASSUME ConstantsAssumption, IInv, QueueInv, NEW t \in Task, Release(t), ordering' = ordering,
         \/ pc' = [pc EXCEPT ![t] = "idle"] /\ cancelling' = cancelling \ {t}
         \/ pc' = pc /\ cancelling' = cancelling /\ pc[t] = "body"
  PROVE  QueueInv' /\ OvertakesNoOverdue /\ OvertakesNoElder
<1> DEFINE act == active \ {t}
           fut == [future EXCEPT ![t] = "none"]
           rel == [released EXCEPT ![t] = TRUE]
<1>1. Consistent(pending, act, fut, rel)
  BY DEF Release, Consistent, IInv, TypeOK, Bookkeeping, Tasks
<1>2. Dispatch(pending, act, fut, rel, ahead)
  BY DEF Release
<1>3. Arrived(pending, ahead)
  BY DEF QueueInv
<1> HIDE DEF act, fut, rel
<1> QED
  BY <1>1, <1>2, <1>3, PassStartsInOrder

\* A step that leaves the queue alone and starts nobody.
LEMMA QueueUntouched ==
  ASSUME QueueInv, active' = active, pending' = pending, ahead' = ahead, aged' = aged,
         ordering' = ordering
  PROVE  QueueInv' /\ OvertakesNoOverdue /\ OvertakesNoElder
<1>1. QueueInv'
  BY DEF QueueInv, Arrived
<1> QED
  BY <1>1, StartsNone

LEMMA NextInOrder ==
  ASSUME ConstantsAssumption, IInv, QueueInv, [Next]_vars
  PROVE  QueueInv' /\ [OvertakesNoOverdue]_vars /\ [OvertakesNoElder]_vars
<1>0. /\ TypeOK /\ Bookkeeping /\ Tasks
      /\ Arrived(pending, ahead)
      /\ \A t \in Task : ahead[t] \subseteq pending /\ (t \notin pending => ahead[t] = {})
  BY DEF IInv, QueueInv
<1>1. ASSUME NEW t \in Task, NEW q \in Request, Acquire(t, q)
      PROVE  QueueInv' /\ OvertakesNoOverdue /\ OvertakesNoElder
  <2> DEFINE pend == pending \cup {t}
             fut  == [future EXCEPT ![t] = "waiting"]
             rel  == [released EXCEPT ![t] = FALSE]
             ahd  == [ahead EXCEPT ![t] = pending]
  <2>1. t \notin pending /\ t \notin aged /\ ordering' = ordering
    BY <1>0, <1>1 DEF Acquire, Bookkeeping, TypeOK
  <2>2. Consistent(pend, active, fut, rel)
    BY <1>0, <1>1 DEF Acquire, Consistent, Bookkeeping, Tasks, TypeOK
  <2>3. Dispatch(pend, active, fut, rel, ahd)
    BY <1>1 DEF Acquire
  <2>4. Arrived(pend, ahd) /\ \A u \in pending : ahd[u] = ahead[u]
    <3>1. ahd[t] = pending /\ \A u \in pending : ahd[u] = ahead[u] /\ ahead[u] \subseteq pending
      BY <1>0, <2>1 DEF TypeOK
    <3> HIDE DEF ahd
    <3> QED
      BY <1>0, <2>1, <3>1 DEF Arrived
  <2> HIDE DEF pend, fut, rel, ahd
  <2> QED
    BY <2>1, <2>2, <2>3, <2>4, PassStartsInOrder
<1>2. ASSUME NEW t \in Task, Resume(t) \/ Cancel(t)
      PROVE  QueueInv' /\ OvertakesNoOverdue /\ OvertakesNoElder
  <2>1. active' = active /\ pending' = pending /\ ahead' = ahead /\ aged' = aged /\ ordering' = ordering
    BY <1>2 DEF Resume, Cancel
  <2> QED
    BY <2>1, QueueUntouched
<1>3. ASSUME NEW t \in Task, Leave(t), NoRelease(t)
      PROVE  QueueInv' /\ OvertakesNoOverdue /\ OvertakesNoElder
  <2>1. active' = active /\ pending' = pending /\ ahead' = ahead /\ aged' = aged /\ ordering' = ordering
    BY <1>3 DEF Leave, NoRelease
  <2> QED
    BY <2>1, QueueUntouched
<1>4. ASSUME NEW t \in Task, AcquireCancelled(t)
      PROVE  QueueInv' /\ OvertakesNoOverdue /\ OvertakesNoElder
  <2>1. /\ Leave(t) /\ ordering' = ordering
        /\ pc' = [pc EXCEPT ![t] = "idle"] /\ cancelling' = cancelling \ {t}
    BY <1>4 DEF AcquireCancelled, Leave
  <2>2. CASE t \in pending
    <3> DEFINE pend == pending \ {t}
               fut  == [future EXCEPT ![t] = "none"]
               rel  == [released EXCEPT ![t] = TRUE]
    <3>1. Dispatch(pend, active, fut, rel, ahead)
      BY <1>0, <1>4, <2>2 DEF AcquireCancelled, Release, Bookkeeping
    <3>2. Consistent(pend, active, fut, rel)
      BY <1>0, <2>1, <2>2 DEF Leave, Consistent, Bookkeeping, Tasks, TypeOK
    <3>3. Arrived(pend, ahead)
      BY <1>0 DEF Arrived
    <3> HIDE DEF pend, fut, rel
    <3> QED
      BY <2>1, <3>1, <3>2, <3>3, PassStartsInOrder
  <2>3. CASE Release(t)
    BY <2>1, <2>3, ReleaseStartsInOrder
  <2>4. CASE NoRelease(t)
    BY <1>3, <2>1, <2>4
  <2> QED
    BY <1>4, <2>2, <2>3, <2>4 DEF AcquireCancelled
<1>5. ASSUME NEW t \in Task, ReleaseEarly(t)
      PROVE  QueueInv' /\ OvertakesNoOverdue /\ OvertakesNoElder
  BY <1>5, ReleaseStartsInOrder DEF ReleaseEarly
<1>6. ASSUME NEW t \in Task, Finish(t)
      PROVE  QueueInv' /\ OvertakesNoOverdue /\ OvertakesNoElder
  <2>1. /\ Leave(t) /\ ordering' = ordering
        /\ pc' = [pc EXCEPT ![t] = "idle"] /\ cancelling' = cancelling \ {t}
    BY <1>6 DEF Finish, Leave
  <2>2. CASE Release(t)
    BY <2>1, <2>2, ReleaseStartsInOrder
  <2>3. CASE NoRelease(t)
    BY <1>3, <2>1, <2>3
  <2> QED
    BY <1>6, <2>2, <2>3 DEF Finish
<1>7. ASSUME NEW t \in Task, Age(t)
      PROVE  QueueInv' /\ OvertakesNoOverdue /\ OvertakesNoElder
  <2>1. /\ ordering = "coflow" /\ t \in pending /\ ahead[t] \subseteq aged /\ aged' = aged \cup {t}
        /\ UNCHANGED <<ordering, pending, ahead, active>>
    BY <1>7 DEF Age
  <2>2. Arrived(pending, ahead)'
    BY <1>0, <2>1 DEF Arrived
  <2>3. QueueInv'
    BY <1>0, <2>1, <2>2 DEF QueueInv
  <2> QED
    BY <2>1, <2>3, StartsNone
<1>8. ASSUME UNCHANGED <<ordering, pc, request, cancelling>>,
             Dispatch(pending, active, future, released, ahead)
      PROVE  QueueInv' /\ OvertakesNoOverdue /\ OvertakesNoElder
  <2>1. Consistent(pending, active, future, released)
    BY <1>0, <1>8 DEF Consistent, Bookkeeping, Tasks, TypeOK
  <2> QED
    BY <1>0, <1>8, <2>1, PassStartsInOrder
<1>9. ASSUME NEW r \in Toggled, NEW on \in BOOLEAN, SetEnabled(r, on)
      PROVE  QueueInv' /\ OvertakesNoOverdue /\ OvertakesNoElder
  BY <1>8, <1>9 DEF SetEnabled
<1>10. ASSUME Recheck
       PROVE  QueueInv' /\ OvertakesNoOverdue /\ OvertakesNoElder
  BY <1>8, <1>10 DEF Recheck
<1>11. ASSUME UNCHANGED vars
       PROVE  QueueInv'
  BY <1>11, QueueUntouched DEF vars
<1> QED
  BY <1>1, <1>2, <1>4, <1>5, <1>6, <1>7, <1>9, <1>10, <1>11 DEF Next

-----------------------------------------------------------------------------
(* Refinement of the pool of credits.                                      *)

LEMMA PoolCounts == \A S : Pool!Cardinality(S) = Cardinality(S)
BY DEF Pool!Cardinality, Cardinality

\* The requests ask may be served as use says, and hold are the lanes of act.
Requests(ask, use) == \A t \in ask : use[t] = ReceiversFor(t)'
LanesOf(act, hold) == \A v \in Receiver : hold[v] = On(v, act)

\* A ticket that waits for a receiver meets a full one.
LEMMA FullWhenWaiting ==
  ASSUME ConstantsAssumption, IInv'
  PROVE  \A t \in Task : Waiting(t)' /\ ReceiversFor(t)' # {} =>
           \E v \in ReceiversFor(t)' : Cardinality(Holding'[v]) >= Capacity[v]
<1> SUFFICES ASSUME NEW t \in Task, Waiting(t)', ReceiversFor(t)' # {}
             PROVE  \E v \in ReceiversFor(t)' : Cardinality(Holding'[v]) >= Capacity[v]
  OBVIOUS
<1>1. Choices(t)' # {}
  BY DEF ReceiversFor
<1>2. PICK r \in Choices(t)' : Idle(ReceiverOf[r], active)' <= 0
  BY <1>1 DEF IInv, NoIdleStall
<1>3. ReceiverOf[r] \in ReceiversFor(t)' /\ ReceiverOf[r] \in Receiver
  BY <1>2, ConstantsAssumption DEF ReceiversFor, Choices, IInv, TypeOK, ConstantsAssumption
<1>4. Capacity[ReceiverOf[r]] - Cardinality(Holding'[ReceiverOf[r]]) <= 0
  BY <1>2, <1>3 DEF Idle, Holding
<1>5. Capacity[ReceiverOf[r]] \in Nat /\ Cardinality(Holding'[ReceiverOf[r]]) \in Nat
  <2>1. Holding'[ReceiverOf[r]] \in SUBSET Task
    BY <1>3 DEF Holding, IInv, TypeOK
  <2> QED
    BY <1>3, <2>1, FS_Subset, FS_CardinalityType DEF ConstantsAssumption
<1> QED
  BY <1>3, <1>4, <1>5

\* The pass of a handler is a pass of the pool, from the live tickets and the
\* lanes in use that the handler has left.
LEMMA PassServes ==
  ASSUME ConstantsAssumption, IInv, IInv', NEW pend, NEW act, NEW fut, NEW rel,
         NEW ahd \in [Task -> SUBSET Task], Consistent(pend, act, fut, rel),
         Dispatch(pend, act, fut, rel, ahd),
         NEW use, Requests(Live(pend, fut), use), NEW hold, LanesOf(act, hold)
  PROVE  Pool!Serve(Live(pend, fut), use, hold)
<1> DEFINE ask   == Live(pend, fut)
           grant == [t \in ask \ Asking' |-> ReceiverOf[assigned'[t]]]
<1>1. PICK go : Admits(go, pend, act, fut, rel)
  BY PassAdmits
<1>2. /\ go \subseteq ask /\ pending' = ask \ go /\ active' = act \cup go
      /\ ask \in SUBSET Task /\ act \in SUBSET Task /\ act \cap ask = {}
  BY <1>1 DEF Admits, Consistent, Live, IInv, TypeOK
<1>3. Asking' = ask \ go
  <2>1. \A t \in ask \ go : future'[t] = "waiting"
    BY <1>1, <1>2 DEF Admits, Consistent, Live
  <2> QED
    BY <1>2, <2>1 DEF Asking, Waiting
<1>4. \A t \in go : assigned'[t] \in Choices(t)' /\ assigned'[t] \in Replica
  BY <1>1 DEF Admits, Choices, IInv, TypeOK
<1>5. \A t \in go : ReceiverOf[assigned'[t]] \in use[t] /\ ReceiverOf[assigned'[t]] \in Receiver
  BY <1>2, <1>4, ConstantsAssumption DEF Requests, ReceiversFor, ConstantsAssumption
<1>6. \A t \in act : assigned'[t] = assigned[t]
  BY <1>1 DEF Admits
<1> HIDE DEF ask
<1>7. ask \ Asking' = go
  BY <1>2, <1>3
<1>8. Holding' = [v \in Receiver |-> hold[v] \cup {t \in ask \ Asking' : grant[t] = v}]
  <2>1. \A v \in Receiver : {t \in active' : ReceiverOf[assigned'[t]] = v} =
                            hold[v] \cup {t \in ask \ Asking' : grant[t] = v}
    BY <1>2, <1>6, <1>7 DEF LanesOf, On
  <2> QED
    BY <2>1 DEF Holding
<1>9. Usable' = [t \in Task |-> IF t \in Asking' THEN use[t] ELSE {}]
  <2>1. \A t \in Asking' : use[t] = ReceiversFor(t)'
    BY <1>3 DEF Requests, ask
  <2> QED
    BY <2>1 DEF Usable
<1>10. \A v \in Receiver : Cardinality(Holding'[v]) <= Capacity[v]
  BY DEF Holding, IInv, CapacityRespected
<1>11. \A t \in Asking' : use[t] # {} =>
         \E v \in use[t] : Cardinality(Holding'[v]) >= Capacity[v]
  <2>1. \A t \in Asking' : use[t] = ReceiversFor(t)' /\ Waiting(t)' /\ t \in Task
    BY <1>3 DEF Requests, ask, Asking
  <2> QED
    BY <2>1, FullWhenWaiting
<1>12. grant \in [ask \ Asking' -> Receiver]
  BY <1>5, <1>7
<1> HIDE DEF grant
<1>13. \E g \in [ask \ Asking' -> Receiver] :
         /\ \A t \in ask \ Asking' :
              g[t] \in use[t] /\ Pool!Cardinality(Holding'[g[t]]) <= Capacity[g[t]]
         /\ Holding' = [v \in Receiver |-> hold[v] \cup {t \in ask \ Asking' : g[t] = v}]
  <2>1. \A t \in ask \ Asking' :
          grant[t] \in use[t] /\ Pool!Cardinality(Holding'[grant[t]]) <= Capacity[grant[t]]
    BY <1>5, <1>7, <1>10, PoolCounts DEF grant
  <2> QED
    BY <1>8, <1>12, <2>1
<1>14. \A t \in Asking' : use[t] # {} =>
         \E v \in use[t] : Pool!Cardinality(Holding'[v]) >= Capacity[v]
  BY <1>11, PoolCounts
<1>15. Pool!Serve(ask, use, hold)
  BY <1>3, <1>9, <1>13, <1>14 DEF Pool!Serve
<1> QED
  BY <1>15 DEF ask

\* A step that neither asks, withdraws, grants nor returns anything.
LEMMA PoolStutter ==
  ASSUME Asking' = Asking, UNCHANGED <<request, enabled, assigned, active>>
  PROVE  UNCHANGED Pool!pool
<1>1. \A t \in Task : ReceiversFor(t)' = ReceiversFor(t)
  BY DEF ReceiversFor, Choices, EligibleFor
<1> QED
  BY <1>1 DEF Pool!pool, Usable, Holding

\* The receivers a ticket may use change only with its call and with the health.
LEMMA SameReceivers ==
  ASSUME IInv, NEW t \in Task, NEW q, enabled' = enabled,
         request' = request \/ request' = [request EXCEPT ![t] = q]
  PROVE  \A u \in Task \ {t} : ReceiversFor(u)' = ReceiversFor(u)
BY DEF ReceiversFor, Choices, EligibleFor, IInv, TypeOK

LEMMA HoldingLanes == LanesOf(active, Holding)
BY DEF LanesOf, Holding, On

\* A ticket that is not in the router any more leaves the pool as it is.
LEMMA LeavesPool ==
  ASSUME IInv, NEW t \in Task, t \notin pending, t \notin active, NoRelease(t),
         enabled' = enabled, request' = [request EXCEPT ![t] = NoRequest]
  PROVE  UNCHANGED Pool!pool
<1>1. Asking' = Asking /\ t \notin Asking
  BY DEF NoRelease, Asking, Waiting, IInv, TypeOK
<1>2. \A u \in Asking : ReceiversFor(u)' = ReceiversFor(u)
  BY <1>1, SameReceivers DEF Asking
<1>3. Usable' = Usable
  BY <1>1, <1>2 DEF Usable
<1>4. Holding' = Holding
  BY DEF NoRelease, Holding
<1> QED
  BY <1>1, <1>3, <1>4 DEF Pool!pool

\* Acquiring asks the pool for a lane of the replicas that may serve the call.
LEMMA AcquireAsks ==
  ASSUME ConstantsAssumption, IInv, IInv', NEW t \in Task, NEW q \in Request, Acquire(t, q)
  PROVE  \E places \in SUBSET Receiver : Pool!Ask(t, places)
<1>0. PICK places : places = ReceiversFor(t)'
  OBVIOUS
<1> DEFINE pend == pending \cup {t}
           fut  == [future EXCEPT ![t] = "waiting"]
           rel  == [released EXCEPT ![t] = FALSE]
           ahd  == [ahead EXCEPT ![t] = pending]
           use  == [Usable EXCEPT ![t] = places]
<1>1. /\ pc[t] = "idle" /\ request' = [request EXCEPT ![t] = q] /\ enabled' = enabled
      /\ Dispatch(pend, active, fut, rel, ahd) /\ ahd \in [Task -> SUBSET Task]
  BY DEF Acquire, IInv, TypeOK
<1>2. Consistent(pend, active, fut, rel)
  BY DEF Acquire, Consistent, IInv, TypeOK, Bookkeeping, Tasks
<1>3. t \notin pending /\ t \notin active
  BY <1>1 DEF IInv, Bookkeeping, Tasks
<1>4. Live(pend, fut) = Asking \cup {t}
  BY <1>3 DEF Live, Asking, Waiting, IInv, TypeOK, Bookkeeping
<1>5. \A u \in Task \ {t} : ReceiversFor(u)' = ReceiversFor(u)
  BY <1>1, SameReceivers
<1>6. Requests(Asking \cup {t}, use)
  <2>1. t \notin Asking /\ Asking \subseteq Task
    BY <1>3 DEF Asking, Waiting
  <2> QED
    BY <1>0, <1>5, <2>1 DEF Requests, Usable
<1>7. Pool!Serve(Asking \cup {t}, use, Holding)
  <2> HIDE DEF pend, fut, rel, ahd, use
  <2>1. Requests(Live(pend, fut), use)
    BY <1>4, <1>6
  <2>2. Pool!Serve(Live(pend, fut), use, Holding)
    BY <1>1, <1>2, <2>1, HoldingLanes, PassServes
  <2> QED
    BY <1>4, <2>2
<1>8. places \in SUBSET Receiver
  BY <1>0, ConstantsAssumption
     DEF ReceiversFor, Choices, IInv, TypeOK, ConstantsAssumption
<1>9. t \notin Asking /\ \A v \in Receiver : t \notin Holding[v]
  BY <1>3 DEF Asking, Waiting, Holding
<1> QED
  BY <1>7, <1>8, <1>9 DEF Pool!Ask

\* A release gives the lane of the ticket back.
LEMMA ReleaseGivesBack ==
  ASSUME ConstantsAssumption, IInv, IInv', NEW t \in Task, Release(t), OthersOK,
         \/ pc' = [pc EXCEPT ![t] = "idle"] /\ cancelling' = cancelling \ {t}
         \/ pc' = pc /\ cancelling' = cancelling /\ pc[t] = "body",
         request' = request \/ request' = [request EXCEPT ![t] = NoRequest],
         enabled' = enabled
  PROVE  \E v \in Receiver : Pool!GiveBack(t, v)
<1> DEFINE act  == active \ {t}
           fut  == [future EXCEPT ![t] = "none"]
           rel  == [released EXCEPT ![t] = TRUE]
           v    == ReceiverOf[assigned[t]]
           hold == [Holding EXCEPT ![v] = @ \ {t}]
<1>1. Consistent(pending, act, fut, rel)
  BY DEF Release, Consistent, IInv, TypeOK, Bookkeeping, Tasks
<1>2. Dispatch(pending, act, fut, rel, ahead) /\ ahead \in [Task -> SUBSET Task]
  BY DEF Release, IInv, TypeOK
<1>3. t \in active /\ t \notin pending /\ v \in Receiver
  BY ConstantsAssumption DEF Release, IInv, TypeOK, Bookkeeping, ConstantsAssumption
<1>4. Live(pending, fut) = Asking
  BY <1>3 DEF Live, Asking, Waiting, IInv, TypeOK, Bookkeeping
<1>5. Requests(Asking, Usable)
  <2>1. t \notin Asking /\ Asking \subseteq Task
    BY <1>3 DEF Asking, Waiting
  <2>2. \A u \in Task \ {t} : ReceiversFor(u)' = ReceiversFor(u)
    BY SameReceivers
  <2> QED
    BY <2>1, <2>2 DEF Requests, Usable
<1>6. LanesOf(act, hold)
  BY <1>3 DEF LanesOf, Holding, On
<1>7. Pool!Serve(Asking, Usable, hold)
  <2> HIDE DEF act, fut, rel, hold
  <2>1. Requests(Live(pending, fut), Usable)
    BY <1>4, <1>5
  <2>2. Pool!Serve(Live(pending, fut), Usable, hold)
    BY <1>1, <1>2, <1>6, <2>1, PassServes
  <2> QED
    BY <1>4, <2>2
<1>8. t \in Holding[v]
  BY <1>3 DEF Holding
<1> QED
  BY <1>3, <1>7, <1>8 DEF Pool!GiveBack

\* Cancelling a caller that waits withdraws its request.
LEMMA CancelWithdraws ==
  ASSUME ConstantsAssumption, IInv, IInv', NEW t \in Task, Cancel(t)
  PROVE  Pool!Withdraw(t) \/ UNCHANGED Pool!pool
<1>1. /\ UNCHANGED <<request, enabled, assigned, active, pending>>
      /\ future' = [future EXCEPT ![t] = IF @ = "waiting" THEN "cancelled" ELSE @]
  BY DEF Cancel
<1>2. CASE Waiting(t)
  <2>1. Asking' = Asking \ {t} /\ t \in Asking /\ Asking \subseteq Task
    BY <1>1, <1>2 DEF Asking, Waiting, IInv, TypeOK
  <2>2. \A u \in Task : ReceiversFor(u)' = ReceiversFor(u)
    BY <1>1 DEF ReceiversFor, Choices, EligibleFor
  <2>3. Usable' = [u \in Task |-> IF u \in Asking' THEN Usable[u] ELSE {}]
    BY <2>1, <2>2 DEF Usable
  <2>4. Holding' = Holding
    BY <1>1 DEF Holding
  <2>5. \E grant \in [{} -> Receiver] :
          Holding' = [v \in Receiver |-> Holding[v] \cup {u \in {} : grant[u] = v}]
    <3>1. [u \in {} |-> {}] \in [{} -> Receiver]
      OBVIOUS
    <3>2. PICK grant \in [{} -> Receiver] : TRUE
      BY <3>1
    <3>3. \A v \in Receiver : Holding'[v] = Holding[v] \cup {u \in {} : grant[u] = v}
      BY <2>4 DEF Holding
    <3>4. Holding' = [v \in Receiver |-> Holding[v] \cup {u \in {} : grant[u] = v}]
      BY <3>3 DEF Holding
    <3> QED
      BY <3>2, <3>4
  <2>6. (Asking \ {t}) \ Asking' = {}
    BY <2>1
  <2>7. \A u \in Asking' : Usable[u] # {} =>
          \E v \in Usable[u] : Pool!Cardinality(Holding'[v]) >= Capacity[v]
    <3>1. \A u \in Asking' : Usable[u] = ReceiversFor(u)' /\ Waiting(u)' /\ u \in Task
      BY <2>1, <2>2 DEF Usable, Asking
    <3>2. \A u \in Asking' : Usable[u] # {} =>
            \E v \in Usable[u] : Cardinality(Holding'[v]) >= Capacity[v]
      BY <3>1, FullWhenWaiting
    <3> QED
      BY <3>2, PoolCounts
  <2>8. Pool!Serve(Asking \ {t}, Usable, Holding)
    BY <2>1, <2>3, <2>5, <2>6, <2>7 DEF Pool!Serve
  <2> QED
    BY <2>1, <2>8 DEF Pool!Withdraw
<1>3. CASE ~Waiting(t)
  <2>1. Asking' = Asking
    BY <1>1, <1>3 DEF Asking, Waiting, IInv, TypeOK
  <2> QED
    BY <1>1, <2>1, PoolStutter
<1> QED
  BY <1>2, <1>3

\* A pass that serves the tickets as they are rearranges the pool: of the health
\* checker, of the timer, or for a ticket whose future was cancelled before.
LEMMA PassRearranges ==
  ASSUME ConstantsAssumption, IInv, IInv', NEW pend, NEW fut, NEW rel,
         Consistent(pend, active, fut, rel), Dispatch(pend, active, fut, rel, ahead),
         Live(pend, fut) = Asking
  PROVE  \E use \in [Task -> SUBSET Receiver] : Pool!Rearrange(use)
<1>1. PICK use \in [Task -> SUBSET Receiver] : \A t \in Task : use[t] = ReceiversFor(t)'
  <2>1. \A t \in Task : ReceiversFor(t)' \in SUBSET Receiver
    BY ConstantsAssumption
       DEF ReceiversFor, Choices, IInv, TypeOK, ConstantsAssumption
  <2>2. PICK places : places = [t \in Task |-> ReceiversFor(t)']
    OBVIOUS
  <2> QED
    BY <2>1, <2>2
<1>2. Requests(Live(pend, fut), use)
  BY <1>1 DEF Requests, Asking
<1>3. Pool!Serve(Live(pend, fut), use, Holding)
  BY <1>2, HoldingLanes, PassServes DEF IInv, TypeOK
<1>4. Capacity \in [Receiver -> Nat]
  BY ConstantsAssumption DEF ConstantsAssumption
<1> QED
  BY <1>3, <1>4 DEF Pool!Rearrange

\* A caller that finds itself cancelled withdraws, gives its lane back, or
\* leaves the pool as it is.
LEMMA CancelledLeavesPool ==
  ASSUME ConstantsAssumption, IInv, IInv', NEW t \in Task, AcquireCancelled(t)
  PROVE  [Pool!Next]_(Pool!pool)
<1> DEFINE pend == pending \ {t}
           fut  == [future EXCEPT ![t] = "none"]
           rel  == [released EXCEPT ![t] = TRUE]
<1>1. /\ Leave(t) /\ OthersOK /\ enabled' = enabled
      /\ request' = [request EXCEPT ![t] = NoRequest]
      /\ pc' = [pc EXCEPT ![t] = "idle"] /\ cancelling' = cancelling \ {t}
  BY DEF AcquireCancelled, Leave, OthersOK, IInv, TypeOK
<1>2. CASE t \in pending
  <2>1. Dispatch(pend, active, fut, rel, ahead)
    BY <1>2 DEF AcquireCancelled, Release, IInv, Bookkeeping
  <2>2. Consistent(pend, active, fut, rel)
    BY <1>1, <1>2 DEF Leave, Consistent, IInv, TypeOK, Bookkeeping, Tasks
  <2>3. Live(pend, fut) = Asking \ {t}
    BY <1>2 DEF Live, Asking, Waiting, IInv, TypeOK, Bookkeeping
  <2>4. CASE Waiting(t)
    <3>1. Requests(Asking \ {t}, Usable)
      <4>1. \A u \in Task \ {t} : ReceiversFor(u)' = ReceiversFor(u)
        BY <1>1, SameReceivers
      <4> QED
        BY <4>1 DEF Requests, Usable, Asking
    <3>2. Pool!Serve(Asking \ {t}, Usable, Holding)
      <4> HIDE DEF pend, fut, rel
      <4>1. Requests(Live(pend, fut), Usable)
        BY <2>3, <3>1
      <4>2. Pool!Serve(Live(pend, fut), Usable, Holding)
        BY <2>1, <2>2, <4>1, HoldingLanes, PassServes DEF IInv, TypeOK
      <4> QED
        BY <2>3, <4>2
    <3>3. Pool!Withdraw(t)
      BY <2>4, <3>2 DEF Pool!Withdraw, Asking
    <3> QED
      BY <3>3 DEF Pool!Next
  <2>5. CASE ~Waiting(t)
    <3>1. Live(pend, fut) = Asking
      BY <2>3, <2>5 DEF Asking
    <3> HIDE DEF pend, fut, rel
    <3>2. \E use \in [Task -> SUBSET Receiver] : Pool!Rearrange(use)
      BY <2>1, <2>2, <3>1, PassRearranges
    <3> QED
      BY <3>2 DEF Pool!Next
  <2> QED
    BY <2>4, <2>5
<1>3. CASE Release(t)
  <2>1. \E v \in Receiver : Pool!GiveBack(t, v)
    BY <1>1, <1>3, ReleaseGivesBack
  <2> QED
    BY <2>1 DEF Pool!Next
<1>4. CASE t \notin pending /\ t \notin active /\ NoRelease(t)
  <2>1. Pool!pool' = Pool!pool
    BY <1>1, <1>4, LeavesPool
  <2> QED
    BY <2>1
<1> QED
  BY <1>2, <1>3, <1>4 DEF AcquireCancelled

\* Every handler of the router is a step of the pool or invisible to it.
LEMMA NextIsPoolNext ==
  ASSUME ConstantsAssumption, IInv, IInv', [Next]_vars
  PROVE  [Pool!Next]_(Pool!pool)
<1>1. ASSUME NEW t \in Task, NEW q \in Request, Acquire(t, q)
      PROVE  Pool!Next
  BY <1>1, AcquireAsks DEF Pool!Next
<1>2. ASSUME NEW t \in Task, Cancel(t)
      PROVE  [Pool!Next]_(Pool!pool)
  BY <1>2, CancelWithdraws DEF Pool!Next
<1>3. ASSUME NEW t \in Task, AcquireCancelled(t)
      PROVE  [Pool!Next]_(Pool!pool)
  BY <1>3, CancelledLeavesPool
<1>4. ASSUME NEW t \in Task, ReleaseEarly(t)
      PROVE  Pool!Next
  <2>1. OthersOK
    BY <1>4 DEF ReleaseEarly, OthersOK, IInv, TypeOK
  <2>2. \E v \in Receiver : Pool!GiveBack(t, v)
    BY <1>4, <2>1, ReleaseGivesBack DEF ReleaseEarly
  <2> QED
    BY <2>2 DEF Pool!Next
<1>5. ASSUME NEW t \in Task, Finish(t)
      PROVE  [Pool!Next]_(Pool!pool)
  <2>1. /\ OthersOK /\ enabled' = enabled
        /\ request' = [request EXCEPT ![t] = NoRequest]
        /\ pc' = [pc EXCEPT ![t] = "idle"] /\ cancelling' = cancelling \ {t}
    BY <1>5 DEF Finish, Leave, OthersOK, IInv, TypeOK
  <2>2. CASE Release(t)
    <3>1. \E v \in Receiver : Pool!GiveBack(t, v)
      BY <2>1, <2>2, ReleaseGivesBack
    <3> QED
      BY <3>1 DEF Pool!Next
  <2>3. CASE released[t] /\ NoRelease(t)
    <3>1. t \notin pending /\ t \notin active
      BY <2>3 DEF IInv, Bookkeeping
    <3>2. Pool!pool' = Pool!pool
      BY <2>1, <2>3, <3>1, LeavesPool
    <3> QED
      BY <3>2
  <2> QED
    BY <1>5, <2>2, <2>3 DEF Finish
<1>6. ASSUME UNCHANGED <<ordering, pc, request, cancelling>>,
             Dispatch(pending, active, future, released, ahead)
      PROVE  Pool!Next
  <2>1. Consistent(pending, active, future, released)
    BY <1>6 DEF Consistent, IInv, TypeOK, Bookkeeping, Tasks
  <2>2. Live(pending, future) = Asking
    BY DEF Live, Asking, Waiting, IInv, TypeOK, Bookkeeping
  <2>3. \E use \in [Task -> SUBSET Receiver] : Pool!Rearrange(use)
    BY <1>6, <2>1, <2>2, PassRearranges
  <2> QED
    BY <2>3 DEF Pool!Next
<1>7. ASSUME NEW r \in Toggled, NEW on \in BOOLEAN, SetEnabled(r, on)
      PROVE  Pool!Next
  BY <1>6, <1>7 DEF SetEnabled
<1>8. ASSUME Recheck
      PROVE  Pool!Next
  BY <1>6, <1>8 DEF Recheck
<1>9. CASE (\E t \in Task : Resume(t) \/ Age(t)) \/ UNCHANGED vars
  <2>1. Asking' = Asking /\ UNCHANGED <<request, enabled, assigned, active>>
    BY <1>9 DEF Resume, Age, vars, Asking, Waiting
  <2> QED
    BY <2>1, PoolStutter
<1> QED
  BY <1>1, <1>2, <1>3, <1>4, <1>5, <1>7, <1>8, <1>9 DEF Next

-----------------------------------------------------------------------------
(* The theorems.                                                           *)

\* The invariant holds in every reachable state.
THEOREM Invariance == Spec => []IInv
<1>1. Init => IInv
  BY ConstantsAssumption, InitIInv
<1>2. IInv /\ [Next]_vars => IInv'
  BY ConstantsAssumption, NextIInv
<1> QED
  BY <1>1, <1>2, PTL DEF Spec

\* The state of the router of completion.py is well typed.
THEOREM TypeCorrect == Spec => []TypeOK
<1>1. IInv => TypeOK
  BY DEF IInv
<1> QED
  BY <1>1, Invariance, PTL

\* No receiver ever holds more calls than it has lanes: the reservations that
\* one pass of _dispatch makes are enough, for every capacity and every order.
THEOREM CapacityIsRespected == Spec => []CapacityRespected
<1>1. IInv => CapacityRespected
  BY DEF IInv
<1> QED
  BY <1>1, Invariance, PTL

\* A ticket is queued, active or released, and only one of these, whatever
\* cancellation, release and dispatch interleave.
THEOREM TicketsAreAccounted == Spec => []Bookkeeping
<1>1. IInv => Bookkeeping
  BY DEF IInv
<1> QED
  BY <1>1, Invariance, PTL

\* No credit outlives its call.
THEOREM NoCreditLeaks == Spec => []NoCreditLeak
<1>1. IInv => NoCreditLeak
  BY DEF IInv, TypeOK, Bookkeeping, Tasks, NoCreditLeak
<1> QED
  BY <1>1, Invariance, PTL

\* A call that an enabled replica could serve waits only for a full receiver.
THEOREM NoLaneIdles == Spec => []NoIdleStall
<1>1. IInv => NoIdleStall
  BY DEF IInv
<1> QED
  BY <1>1, Invariance, PTL

\* A call starts on an enabled replica of its contract and its allow-list, and
\* stays there.
THEOREM CallsStartWhereAllowed == Spec => DispatchedWhereAllowed
<1>1. IInv /\ [Next]_vars => [PlacesWhereAllowed]_vars
  BY ConstantsAssumption, NextIInv
<1> QED
  BY <1>1, Invariance, PTL DEF Spec, DispatchedWhereAllowed

\* The queue stays in arrival order, its overdue tickets in front.
THEOREM QueueStaysOrdered == Spec => []QueueInv
<1>1. Init => QueueInv
  BY DEF Init, QueueInv, Arrived
<1>2. IInv /\ QueueInv /\ [Next]_vars => QueueInv'
  BY ConstantsAssumption, NextInOrder
<1> QED
  BY <1>1, <1>2, Invariance, PTL DEF Spec

\* No pass gives the only receiver an overdue call can use to a call that is
\* not overdue or that is younger, whatever its cost.
THEOREM OverdueCallsStartFirst == Spec => OverdueFirst
<1>1. IInv /\ QueueInv /\ [Next]_vars => [OvertakesNoOverdue]_vars
  BY ConstantsAssumption, NextInOrder
<1> QED
  BY <1>1, Invariance, QueueStaysOrdered, PTL DEF Spec, OverdueFirst

\* Calls of one question that compete for one receiver start in arrival order,
\* in each of the three orderings.
THEOREM QuestionsAreFifo == Spec => FifoWithinRoot
<1>1. IInv /\ QueueInv /\ [Next]_vars => [OvertakesNoElder]_vars
  BY ConstantsAssumption, NextInOrder
<1> QED
  BY <1>1, Invariance, QueueStaysOrdered, PTL DEF Spec, FifoWithinRoot

\* The router implements the pool of credits: a caller gets a lane only where
\* it may be served, a receiver gives no more than it has, and no pass leaves a
\* caller waiting for a receiver with a lane to spare.
THEOREM RouterImplementsPool == Spec => ImplementsPool
<1>1. Init => Pool!Init
  <2> SUFFICES ASSUME Init
               PROVE  Pool!Init
    OBVIOUS
  <2>1. Asking = {} /\ active = {}
    BY DEF Init, Asking, Waiting
  <2>2. Capacity \in [Receiver -> Nat]
    BY ConstantsAssumption DEF ConstantsAssumption
  <2> QED
    BY <2>1, <2>2 DEF Pool!Init, Usable, Holding
<1>2. IInv /\ IInv' /\ [Next]_vars => [Pool!Next]_(Pool!pool)
  BY ConstantsAssumption, NextIsPoolNext
<1> QED
  BY <1>1, <1>2, Invariance, PTL DEF Spec, ImplementsPool, Pool!Spec
=============================================================================
