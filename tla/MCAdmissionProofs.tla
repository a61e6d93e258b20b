------------------------- MODULE MCAdmissionProofs -------------------------
(***************************************************************************)
(* Proofs about the two admission controllers beside the router, for any   *)
(* number of callers and receivers and any bounds of limit and window.     *)
(***************************************************************************)
EXTENDS MCAdmission, FiniteSetTheorems, SequenceTheorems, TLAPS

\* Each controller takes its own steps or stays as it is.
LEMMA StepsOfControllers ==
  ASSUME [GateStep \/ CoflowStep]_vars
  PROVE  [Next]_gateVars /\ [Coflow!Next]_coflowVars
BY DEF GateStep, CoflowStep, vars, gateVars, coflowVars

LEMMA MaxOfTwo ==
  ASSUME NEW a \in Int, NEW b \in Int
  PROVE  Max({a, b}) = IF a >= b THEN a ELSE b
BY DEF Max

LEMMA MinOfTwo ==
  ASSUME NEW a \in Int, NEW b \in Int
  PROVE  Min({a, b}) = IF a <= b THEN a ELSE b
BY DEF Min

-----------------------------------------------------------------------------

\* A queue without repetitions, and who is in it.
LEMMA QueueAppend ==
  ASSUME NEW S, NEW s \in Seq(S), IsInjective(s), NEW e \in S, e \notin Range(s)
  PROVE  /\ Append(s, e) \in Seq(S) /\ IsInjective(Append(s, e)) /\ Append(s, e) # <<>>
         /\ Range(Append(s, e)) = Range(s) \cup {e}
         /\ Head(Append(s, e)) = IF s = <<>> THEN e ELSE Head(s)
<1> DEFINE t == Append(s, e)
<1>1. /\ t \in Seq(S) /\ Len(t) = Len(s) + 1 /\ Len(s) \in Nat /\ t[Len(s) + 1] = e /\ t # <<>>
      /\ \A i \in 1..Len(s) : t[i] = s[i]
      /\ DOMAIN t = 1..Len(s) + 1 /\ DOMAIN s = 1..Len(s)
  OBVIOUS
<1>2. \A i \in 1..Len(s) : s[i] # e
  BY <1>1 DEF Range
<1>3. IsInjective(t)
  BY <1>1, <1>2 DEF IsInjective
<1>4. Range(t) = Range(s) \cup {e}
  BY <1>1 DEF Range
<1>5. Head(t) = IF s = <<>> THEN e ELSE Head(s)
  OBVIOUS
<1> QED
  BY <1>1, <1>3, <1>4, <1>5

LEMMA QueueTail ==
  ASSUME NEW S, NEW s \in Seq(S), IsInjective(s), s # <<>>
  PROVE  /\ Tail(s) \in Seq(S) /\ IsInjective(Tail(s)) /\ Head(s) \in Range(s)
         /\ Range(Tail(s)) = Range(s) \ {Head(s)}
<1>1. /\ Tail(s) \in Seq(S) /\ Len(s) \in Nat \ {0} /\ Len(Tail(s)) = Len(s) - 1 /\ Head(s) = s[1]
      /\ \A i \in 1..Len(s) - 1 : Tail(s)[i] = s[i + 1]
      /\ DOMAIN Tail(s) = 1..Len(s) - 1 /\ DOMAIN s = 1..Len(s)
  OBVIOUS
<1>2. IsInjective(Tail(s))
  BY <1>1 DEF IsInjective
<1>3. Head(s) \in Range(s)
  BY <1>1 DEF Range
<1>4. ASSUME NEW x \in Range(Tail(s)) PROVE x \in Range(s) \ {Head(s)}
  BY <1>1 DEF Range, IsInjective
<1>5. ASSUME NEW x \in Range(s) \ {Head(s)} PROVE x \in Range(Tail(s))
  <2>1. PICK i \in 1..Len(s) : x = s[i]
    BY <1>1 DEF Range
  <2>2. i - 1 \in 1..Len(s) - 1 /\ Tail(s)[i - 1] = x
    BY <1>1, <1>5, <2>1
  <2> QED
    BY <1>1, <2>2 DEF Range
<1> QED
  BY <1>1, <1>2, <1>3, <1>4, <1>5

\* deque.remove() of a ticket that is in the queue.
LEMMA QueueRemove ==
  ASSUME NEW S, NEW s \in Seq(S), IsInjective(s), NEW e \in Range(s)
  PROVE  /\ RemoveFirst(s, e) \in Seq(S) /\ IsInjective(RemoveFirst(s, e))
         /\ Range(RemoveFirst(s, e)) = Range(s) \ {e}
<1>1. Len(s) \in Nat /\ DOMAIN s = 1..Len(s)
  OBVIOUS
<1>2. PICK k \in 1..Len(s) : s[k] = e
  BY <1>1 DEF Range
<1>3. {i \in 1..Len(s) : s[i] = e} = {k}
  BY <1>1, <1>2 DEF IsInjective
<1>4. SelectInSeq(s, LAMBDA v : v = e) = k
  <2>1. Min({k}) = k
    BY <1>1 DEF Min
  <2> QED
    BY <1>3, <2>1 DEF SelectInSeq
<1> DEFINE t == RemoveFirst(s, e)
<1>5. t = SubSeq(s, 1, k - 1) \o SubSeq(s, k + 1, Len(s))
  BY <1>2, <1>4 DEF RemoveFirst, RemoveAt
<1>6. /\ t \in Seq(S) /\ Len(t) = Len(s) - 1 /\ DOMAIN t = 1..Len(s) - 1
      /\ \A i \in 1..Len(s) - 1 : t[i] = IF i < k THEN s[i] ELSE s[i + 1]
  <2> DEFINE front == SubSeq(s, 1, k - 1)
             back  == SubSeq(s, k + 1, Len(s))
  <2> HIDE DEF front, back, t
  <2>1. /\ front \in Seq(S) /\ Len(front) = k - 1
        /\ \A i \in 1..k - 1 : front[i] = s[i]
    <3>1. \A i \in 1..k - 1 : s[i] \in S
      BY <1>1
    <3> QED
      BY <1>1, <3>1, SubSeqProperties DEF front
  <2>2. /\ back \in Seq(S) /\ Len(back) = Len(s) - k
        /\ \A i \in 1..Len(s) - k : back[i] = s[k + i]
    <3>1. k + 1 \in Int /\ Len(s) \in Int /\ \A i \in k + 1..Len(s) : s[i] \in S
      BY <1>1
    <3>2. /\ back \in Seq(S) /\ Len(back) = IF k + 1 <= Len(s) THEN Len(s) - (k + 1) + 1 ELSE 0
          /\ \A i \in 1..Len(s) - (k + 1) + 1 : back[i] = s[k + 1 + i - 1]
      BY <3>1, SubSeqProperties DEF back
    <3>3. k \in Int /\ k <= Len(s) /\ Len(s) \in Int
      BY <1>1
    <3>4. Len(back) = Len(s) - k
      BY <3>2, <3>3
    <3>5. ASSUME NEW i \in 1..Len(s) - k PROVE back[i] = s[k + i]
      <4>1. i \in 1..Len(s) - (k + 1) + 1 /\ k + 1 + i - 1 = k + i
        BY <1>1, <3>3
      <4> QED
        BY <3>2, <4>1
    <3> QED
      BY <3>2, <3>4, <3>5
  <2>3. t = front \o back
    BY <1>5 DEF front, back
  <2>4. t \in Seq(S) /\ Len(t) = Len(s) - 1
    <3>1. t \in Seq(S) /\ Len(t) = Len(front) + Len(back)
      BY <2>1, <2>2, <2>3, ConcatProperties
    <3>2. k \in Int /\ Len(s) \in Int
      BY <1>1
    <3> QED
      BY <2>1, <2>2, <3>1, <3>2
  <2>5. ASSUME NEW i \in 1..Len(s) - 1 PROVE t[i] = IF i < k THEN s[i] ELSE s[i + 1]
    <3>1. CASE i < k
      BY <1>1, <2>1, <2>2, <2>3, <3>1
    <3>2. CASE i >= k
      <4>1. t[i] = back[i - (k - 1)] /\ i - (k - 1) \in 1..Len(s) - k
        BY <1>1, <2>1, <2>2, <2>3, <3>2
      <4>2. k + (i - (k - 1)) = i + 1
        BY <1>1
      <4> QED
        BY <2>2, <3>2, <4>1, <4>2
    <3> QED
      BY <1>1, <3>1, <3>2
  <2> QED
    BY <2>4, <2>5
<1> HIDE DEF t
<1>7. IsInjective(t)
  BY <1>1, <1>2, <1>6 DEF IsInjective
<1>8. ASSUME NEW x \in Range(t) PROVE x \in Range(s) \ {e}
  <2>1. PICK i \in 1..Len(s) - 1 : x = t[i]
    BY <1>6 DEF Range
  <2>2. PICK j \in 1..Len(s) : x = s[j] /\ j # k
    BY <1>1, <1>6, <2>1
  <2> QED
    BY <1>1, <1>2, <2>2 DEF Range, IsInjective
<1>9. ASSUME NEW x \in Range(s) \ {e} PROVE x \in Range(t)
  <2>1. PICK i \in 1..Len(s) : x = s[i]
    BY <1>1 DEF Range
  <2>2. i # k
    BY <1>2, <1>9, <2>1
  <2>3. \E j \in 1..Len(s) - 1 : t[j] = x
    <3>1. CASE i < k
      <4>1. i \in 1..Len(s) - 1 /\ t[i] = x
        BY <1>1, <1>2, <1>6, <2>1, <3>1
      <4> QED
        BY <4>1
    <3>2. CASE i > k
      <4>1. i - 1 \in 1..Len(s) - 1 /\ t[i - 1] = x
        BY <1>1, <1>2, <1>6, <2>1, <3>2
      <4> QED
        BY <4>1
    <3> QED
      BY <1>1, <2>2, <3>1, <3>2
  <2> QED
    BY <1>6, <2>3 DEF Range
<1> QED
  BY <1>6, <1>7, <1>8, <1>9 DEF t

-----------------------------------------------------------------------------

GateInv == TypeOK /\ NoMissedWakeUp

LEMMA GateInit == Init => GateInv
<1> SUFFICES ASSUME Init PROVE GateInv
  OBVIOUS
<1>1. Waiting = {} /\ {t \in Request : gpc[t] = "in"} = {}
  BY DEF Init, Waiting
<1>2. Range(<<>>) = {} /\ IsInjective(<<>>) /\ <<>> \in Seq(Request)
  BY DEF Range, IsInjective
<1> QED
  BY <1>1, <1>2, FS_EmptySet DEF Init, GateInv, TypeOK, NoMissedWakeUp

\* One request goes from one place to another.
LEMMA RequestMoves ==
  ASSUME TypeOK, NEW t \in Request, NEW where \in {"out", "waiting", "in"},
         gpc' = [gpc EXCEPT ![t] = where]
  PROVE  /\ gpc' \in [Request -> {"out", "waiting", "in"}]
         /\ Waiting' = IF where = "waiting" THEN Waiting \cup {t} ELSE Waiting \ {t}
         /\ {u \in Request : gpc[u] = "in"}' =
              IF where = "in" THEN {u \in Request : gpc[u] = "in"} \cup {t}
              ELSE {u \in Request : gpc[u] = "in"} \ {t}
BY DEF TypeOK, Waiting

\* The head of the queue takes a credit, and everybody else is told.
LEMMA AdmitKeeps ==
  ASSUME GateInv, NEW t \in Request, gpc[t] # "in", t \notin gcancel,
         NEW line \in Seq(Request), IsInjective(line), Range(line) = Waiting \cup {t},
         line # <<>>, Head(line) = t, Admit(t, line), UNCHANGED <<limit, healthy, gcancel>>
  PROVE  GateInv'
<1> DEFINE inside == {u \in Request : gpc[u] = "in"}
<1>1. TypeOK
  BY DEF GateInv
<1>2. /\ pending' = Tail(line) /\ active' = active + 1
      /\ gpc' = [gpc EXCEPT ![t] = "in"] /\ woken' = Waiting \ {t}
  BY DEF Admit
<1>3. /\ gpc' \in [Request -> {"out", "waiting", "in"}] /\ Waiting' = Waiting \ {t}
      /\ inside' = inside \cup {t}
  BY <1>1, <1>2, RequestMoves
<1>4. pending' \in Seq(Request) /\ IsInjective(pending') /\ Range(pending') = Waiting'
  BY <1>2, <1>3, QueueTail
<1>5. active' = Cardinality(inside')
  <2>1. IsFiniteSet(inside) /\ t \notin inside /\ active = Cardinality(inside)
    BY <1>1, FS_Subset, BoundsAssumption DEF BoundsAssumption, TypeOK
  <2>2. Cardinality(inside \cup {t}) = Cardinality(inside) + 1
    BY <2>1, FS_AddElement
  <2> QED
    BY <1>2, <1>3, <2>1, <2>2
<1>6. gcancel' \subseteq Waiting' /\ woken' = Waiting'
  BY <1>1, <1>2, <1>3 DEF TypeOK
<1>7. TypeOK'
  BY <1>1, <1>3, <1>4, <1>5, <1>6 DEF TypeOK
<1>8. NoMissedWakeUp'
  BY <1>4, <1>6, QueueTail DEF NoMissedWakeUp
<1> QED
  BY <1>7, <1>8 DEF GateInv

\* Whatever else changes: everybody who waits is told.
LEMMA AllTold ==
  ASSUME TypeOK', woken' = Waiting'
  PROVE  GateInv'
<1>1. pending' # <<>> => Head(pending') \in Waiting'
  BY QueueTail DEF TypeOK
<1> QED
  BY <1>1 DEF GateInv, NoMissedWakeUp

LEMMA ObserveKeeps ==
  ASSUME GateInv, NEW sample \in {"missing", "congested", "idle", "other"}, Observe(sample)
  PROVE  GateInv'
<1> DEFINE eases == sample = "idle" /\ pending # <<>>
<1>1. /\ limit' = CASE sample = "congested"    -> Max({Minimum, limit \div 2})
                    [] eases /\ healthy = 2    -> Min({Maximum, limit + 1})
                    [] OTHER                   -> limit
      /\ healthy' = IF eases THEN (healthy + 1) % 3 ELSE 0
      /\ woken' = IF sample = "missing" THEN woken ELSE Waiting
      /\ UNCHANGED <<gpc, pending, active, gcancel>>
  BY DEF Observe
<1>2. /\ Minimum \in Nat \ {0} /\ Maximum \in Nat /\ limit \in Minimum..Maximum /\ healthy \in 0..2
      /\ limit \div 2 \in Nat /\ limit \div 2 <= limit
  BY BoundsAssumption DEF BoundsAssumption, GateInv, TypeOK
<1> HIDE DEF eases
<1>3. limit' \in Minimum..Maximum
  <2>1. CASE sample = "congested"
    <3>1. Max({Minimum, limit \div 2}) = IF Minimum >= limit \div 2 THEN Minimum ELSE limit \div 2
      BY <1>2, MaxOfTwo
    <3>2. limit' = Max({Minimum, limit \div 2})
      BY <2>1, Zenon DEF Observe
    <3> DEFINE half == limit \div 2
    <3> HIDE DEF half
    <3>3. Minimum \in Nat /\ half \in Nat /\ half <= limit /\ limit \in Minimum..Maximum
      BY <1>2 DEF half
    <3>4. limit' = IF Minimum >= half THEN Minimum ELSE half
      BY <3>1, <3>2 DEF half
    <3> QED
      BY <1>2, <3>3, <3>4
  <2>2. CASE sample # "congested" /\ eases /\ healthy = 2
    <3>1. Min({Maximum, limit + 1}) = IF Maximum <= limit + 1 THEN Maximum ELSE limit + 1
      BY <1>2, MinOfTwo
    <3> QED
      BY <1>1, <1>2, <2>2, <3>1
  <2>3. CASE sample # "congested" /\ ~(eases /\ healthy = 2)
    BY <1>1, <1>2, <2>3
  <2> QED
    BY <2>1, <2>2, <2>3
<1>4. healthy' \in 0..2
  BY <1>1, <1>2
<1>5. Waiting' = Waiting /\ {u \in Request : gpc[u] = "in"}' = {u \in Request : gpc[u] = "in"}
  BY <1>1 DEF Waiting
<1>6. TypeOK'
  BY <1>1, <1>3, <1>4, <1>5 DEF GateInv, TypeOK
<1>7. CASE sample = "missing"
  <2>1. limit' = limit /\ woken' = woken
    BY <1>1, <1>7 DEF eases
  <2> QED
    BY <1>1, <1>6, <2>1 DEF GateInv, NoMissedWakeUp
<1>8. CASE sample # "missing"
  BY <1>1, <1>5, <1>6, <1>8, AllTold
<1> QED
  BY <1>7, <1>8

LEMMA GateStepKeeps == GateInv /\ [Next]_gateVars => GateInv'
<1> SUFFICES ASSUME GateInv, [Next]_gateVars PROVE GateInv'
  OBVIOUS
<1>0. TypeOK /\ NoMissedWakeUp
  BY DEF GateInv
<1>1. ASSUME NEW t \in Request, Enter(t) PROVE GateInv'
  <2> DEFINE line == Append(pending, t)
  <2>1. gpc[t] = "out" /\ UNCHANGED <<limit, healthy, gcancel>> /\ t \notin Waiting
    BY <1>1 DEF Enter, Waiting
  <2>2. /\ line \in Seq(Request) /\ IsInjective(line) /\ line # <<>>
        /\ Range(line) = Waiting \cup {t}
        /\ Head(line) = IF pending = <<>> THEN t ELSE Head(pending)
    BY <1>0, <2>1, QueueAppend DEF TypeOK
  <2> HIDE DEF line
  <2>3. CASE MayPass(t, line) /\ Admit(t, line)
    <3>1. Head(line) = t /\ t \notin gcancel
      BY <1>0, <2>1, <2>3 DEF MayPass, TypeOK
    <3> QED
      BY <2>1, <2>2, <2>3, <3>1, AdmitKeeps
  <2>4. CASE /\ ~MayPass(t, line) /\ pending' = line /\ gpc' = [gpc EXCEPT ![t] = "waiting"]
             /\ UNCHANGED <<active, woken>>
    <3>1. /\ gpc' \in [Request -> {"out", "waiting", "in"}] /\ Waiting' = Waiting \cup {t}
          /\ {u \in Request : gpc[u] = "in"}' = {u \in Request : gpc[u] = "in"} \ {t}
      BY <1>0, <2>4, RequestMoves
    <3>2. {u \in Request : gpc[u] = "in"}' = {u \in Request : gpc[u] = "in"}
      BY <2>1, <3>1
    <3>3. TypeOK'
      BY <1>0, <2>1, <2>2, <2>4, <3>1, <3>2 DEF TypeOK
    <3>4. NoMissedWakeUp'
      BY <1>0, <2>1, <2>2, <2>4 DEF NoMissedWakeUp, MayPass
    <3> QED
      BY <3>3, <3>4 DEF GateInv
  <2> QED
    BY <1>1, <2>3, <2>4 DEF Enter, line
<1>2. ASSUME NEW t \in Request, Wake(t) PROVE GateInv'
  <2>1. t \in woken /\ t \notin gcancel /\ t \in Waiting /\ gpc[t] # "in" /\ UNCHANGED <<limit, healthy, gcancel>>
    BY <1>0, <1>2 DEF Wake, TypeOK, Waiting
  <2>2. CASE MayPass(t, pending) /\ Admit(t, pending)
    <3>1. /\ pending \in Seq(Request) /\ IsInjective(pending) /\ Range(pending) = Waiting \cup {t}
          /\ Head(pending) = t
      BY <1>0, <2>1, <2>2 DEF TypeOK, MayPass
    <3>2. pending # <<>>
      BY <3>1 DEF Range
    <3> QED
      BY <2>1, <2>2, <3>1, <3>2, AdmitKeeps
  <2>3. CASE ~MayPass(t, pending) /\ woken' = woken \ {t} /\ UNCHANGED <<gpc, pending, active>>
    <3>1. Waiting' = Waiting /\ {u \in Request : gpc[u] = "in"}' = {u \in Request : gpc[u] = "in"}
      BY <2>3 DEF Waiting
    <3>2. TypeOK'
      BY <1>0, <2>1, <2>3, <3>1 DEF TypeOK
    <3>3. NoMissedWakeUp'
      BY <1>0, <2>1, <2>3 DEF NoMissedWakeUp, MayPass
    <3> QED
      BY <3>2, <3>3 DEF GateInv
  <2> QED
    BY <1>2, <2>2, <2>3 DEF Wake
<1>3. ASSUME NEW t \in Request, Cancel(t) PROVE GateInv'
  <2>1. /\ gcancel' = gcancel \cup {t} /\ t \in Waiting
        /\ UNCHANGED <<gpc, pending, active, limit, healthy, woken>>
    BY <1>3 DEF Cancel
  <2>2. Waiting' = Waiting /\ {u \in Request : gpc[u] = "in"}' = {u \in Request : gpc[u] = "in"}
    BY <2>1 DEF Waiting
  <2> QED
    BY <1>0, <2>1, <2>2 DEF GateInv, TypeOK, NoMissedWakeUp
<1>4. ASSUME NEW t \in Request, EnterCancelled(t) PROVE GateInv'
  <2>1. /\ t \in gcancel /\ t \in Waiting /\ gpc[t] # "in"
        /\ pending' = RemoveFirst(pending, t) /\ gpc' = [gpc EXCEPT ![t] = "out"]
        /\ woken' = Waiting \ {t} /\ gcancel' = gcancel \ {t} /\ UNCHANGED <<active, limit, healthy>>
    BY <1>0, <1>4 DEF EnterCancelled, TypeOK, Waiting
  <2>2. /\ gpc' \in [Request -> {"out", "waiting", "in"}] /\ Waiting' = Waiting \ {t}
        /\ {u \in Request : gpc[u] = "in"}' = {u \in Request : gpc[u] = "in"} \ {t}
    BY <1>0, <2>1, RequestMoves
  <2>3. {u \in Request : gpc[u] = "in"}' = {u \in Request : gpc[u] = "in"}
    BY <2>1, <2>2
  <2>4. pending' \in Seq(Request) /\ IsInjective(pending') /\ Range(pending') = Waiting'
    BY <1>0, <2>1, <2>2, QueueRemove DEF TypeOK
  <2>5. TypeOK'
    BY <1>0, <2>1, <2>2, <2>3, <2>4 DEF TypeOK
  <2> QED
    BY <2>1, <2>2, <2>5, AllTold
<1>5. ASSUME NEW t \in Request, Leave(t) PROVE GateInv'
  <2> DEFINE inside == {u \in Request : gpc[u] = "in"}
  <2>1. /\ gpc[t] = "in" /\ t \notin Waiting /\ gpc' = [gpc EXCEPT ![t] = "out"] /\ active' = active - 1
        /\ woken' = Waiting /\ UNCHANGED <<pending, limit, healthy, gcancel>>
    BY <1>5 DEF Leave, Waiting
  <2>2. /\ gpc' \in [Request -> {"out", "waiting", "in"}] /\ Waiting' = Waiting \ {t}
        /\ inside' = inside \ {t}
    BY <1>0, <2>1, RequestMoves
  <2>3. active' = Cardinality(inside')
    <3>1. IsFiniteSet(inside) /\ t \in inside /\ active = Cardinality(inside)
      BY <1>0, <2>1, FS_Subset, BoundsAssumption DEF BoundsAssumption, TypeOK
    <3>2. Cardinality(inside \ {t}) = Cardinality(inside) - 1
      BY <3>1, FS_RemoveElement
    <3> QED
      BY <2>1, <2>2, <3>1, <3>2
  <2>4. TypeOK'
    BY <1>0, <2>1, <2>2, <2>3 DEF TypeOK
  <2> QED
    BY <2>1, <2>2, <2>4, AllTold
<1>6. ASSUME NEW sample \in {"missing", "congested", "idle", "other"}, Observe(sample) PROVE GateInv'
  BY <1>6, ObserveKeeps
<1>7. CASE UNCHANGED gateVars
  BY <1>0, <1>7 DEF gateVars, GateInv, TypeOK, NoMissedWakeUp, Waiting
<1> QED
  BY <1>1, <1>2, <1>3, <1>4, <1>5, <1>6, <1>7 DEF Next, Run

-----------------------------------------------------------------------------

\* The tickets of a queue are in a strict order.
InOrder(line, before) ==
  \A c, d \in line :
    IF c \in before[d] THEN d \notin before[c] /\ before[c] \cap line \subseteq before[d]
                       ELSE c = d \/ d \in before[c]

CoflowInv == Coflow!TypeOK /\ Coflow!CreditsOwned /\ Coflow!WorkConserving

\* A pass grants some of the tickets that are not cancelled, no more than the
\* window has room for, and leaves one behind only when the window is full.
PassGrants(r, line, out, w) ==
  \E G \in SUBSET (line \ ccancel) :
    /\ queued' = [queued EXCEPT ![r] = (line \ ccancel) \ G]
    /\ granted' = [granted EXCEPT ![r] = out \cup G]
    /\ window' = [window EXCEPT ![r] = w]
    /\ overdue' = overdue \ (G \cup (queued[r] \ (line \ ccancel)))
    /\ (line \ ccancel) \ G = {} \/ Cardinality(out \cup G) >= w
    /\ G = {} \/ Cardinality(out \cup G) <= w

LEMMA DispatchEffect ==
  ASSUME NEW r, NEW line \in SUBSET Caller, NEW out \in SUBSET Caller, NEW w \in MinWindow..MaxWindow,
         line \cap out = {}, Coflow!Dispatch(r, line, out, w)
  PROVE  PassGrants(r, line, out, w)
<1> DEFINE ready == line \ ccancel
           room  == w - Cardinality(out)
<1>1. PICK G \in Coflow!Grants(ready, w - Coflow!Cardinality(out)) :
        /\ queued' = [queued EXCEPT ![r] = ready \ G]
        /\ granted' = [granted EXCEPT ![r] = out \cup G]
        /\ window' = [window EXCEPT ![r] = w]
        /\ overdue' = overdue \ (G \cup (queued[r] \ ready))
  BY DEF Coflow!Dispatch
<1>2. /\ Coflow!Cardinality(out) = Cardinality(out) /\ Coflow!Cardinality(G) = Cardinality(G)
      /\ Coflow!Cardinality(ready) = Cardinality(ready)
  BY DEF Coflow!Cardinality, Cardinality
<1>3. G \in SUBSET ready /\ Cardinality(G) = Coflow!Min({Coflow!Max({room, 0}), Cardinality(ready)})
  BY <1>1, <1>2 DEF Coflow!Grants
<1>4. /\ IsFiniteSet(out) /\ IsFiniteSet(ready) /\ IsFiniteSet(G)
      /\ Cardinality(out) \in Nat /\ Cardinality(ready) \in Nat /\ Cardinality(G) \in Nat /\ w \in Nat
  BY <1>3, FS_Subset, FS_CardinalityType, WindowAssumption DEF WindowAssumption
<1>5. Coflow!Max({room, 0}) = IF room >= 0 THEN room ELSE 0
  BY <1>4, MaxOfTwo DEF Coflow!Max, Max
<1>6. /\ Cardinality(G) = Cardinality(ready) \/ Cardinality(G) >= room
      /\ Cardinality(G) = 0 \/ Cardinality(G) <= room
  <2> DEFINE a == IF room >= 0 THEN room ELSE 0
             b == Cardinality(ready)
  <2>1. a \in Int /\ b \in Int /\ a >= room /\ (a = room \/ a = 0)
    BY <1>4
  <2>2. Cardinality(G) = Coflow!Min({a, b})
    BY <1>3, <1>5
  <2> HIDE DEF a
  <2>3. Coflow!Min({a, b}) = Min({a, b})
    BY DEF Coflow!Min, Min
  <2>4. Min({a, b}) = IF a <= b THEN a ELSE b
    BY <2>1, MinOfTwo
  <2>5. Cardinality(G) = IF a <= b THEN a ELSE b
    BY <2>2, <2>3, <2>4
  <2> HIDE DEF b
  <2>6. (Cardinality(G) = b \/ Cardinality(G) = a) /\ Cardinality(G) <= a
    BY <2>1, <2>5
  <2> QED
    BY <1>4, <2>1, <2>6 DEF b
<1>7. Cardinality(out \cup G) = Cardinality(out) + Cardinality(G)
  <2>1. out \cap G = {}
    BY <1>3
  <2>2. Cardinality(out \cup G) = Cardinality(out) + Cardinality(G) - Cardinality(out \cap G)
    BY <1>4, FS_Union
  <2>3. Cardinality(out \cap G) = 0
    BY <2>1, FS_EmptySet
  <2> HIDE DEF ready
  <2> QED
    BY <1>4, <2>2, <2>3
<1>8. Cardinality(G) = Cardinality(ready) => G = ready
  BY <1>3, <1>4, FS_Subset
<1>9. ready \ G = {} \/ Cardinality(out \cup G) >= w
  BY <1>4, <1>6, <1>7, <1>8
<1>10. G = {} \/ Cardinality(out \cup G) <= w
  <2>1. Cardinality(G) = 0 => G = {}
    BY <1>4, FS_EmptySet
  <2> QED
    BY <1>4, <1>6, <1>7, <2>1
<1> QED
  BY <1>1, <1>3, <1>9, <1>10 DEF PassGrants

\* The end of a step of the caller in mover, or of nobody: line and out are the
\* queue and the credits of the receiver that the pass starts from.
MovesBeforePass(r, mover, line, out) ==
  /\ line \cap out = {}
  /\ line \ mover = queued[r] \ mover /\ out \ mover = granted[r] \ mover
  /\ \A q \in Receiver \ {r} : mover \cap (queued[q] \cup granted[q]) = {}
  /\ cpc' \in [Caller -> {"out", "waiting", "holding", "returned"}]
  /\ at' \in [Caller -> Receiver] /\ older' \in [Caller -> SUBSET Caller]
  /\ quiet' \in [Receiver -> 0..2] /\ ccancel' \subseteq Caller
  /\ \A d \in Caller \ mover :
       cpc'[d] = cpc[d] /\ at'[d] = at[d] /\ (d \in ccancel' <=> d \in ccancel)
  /\ \A d \in mover : /\ at'[d] = r /\ d \notin ccancel'
                      /\ d \in queued'[r] => cpc'[d] = "waiting"
                      /\ d \in granted'[r] <=> cpc'[d] = "holding"
  /\ InOrder(line, older') /\ \A q \in Receiver \ {r} : InOrder(queued[q], older')

\* A pass on one receiver after such a step keeps the invariant.
LEMMA PassKeeps ==
  ASSUME CoflowInv, NEW r \in Receiver, NEW mover \in SUBSET Caller,
         NEW line \in SUBSET Caller, NEW out \in SUBSET Caller, NEW w \in MinWindow..MaxWindow,
         Coflow!Dispatch(r, line, out, w), MovesBeforePass(r, mover, line, out)
  PROVE  CoflowInv'
<1>a. /\ line \cap out = {}
      /\ line \ mover = queued[r] \ mover /\ out \ mover = granted[r] \ mover
      /\ \A q \in Receiver \ {r} : mover \cap (queued[q] \cup granted[q]) = {}
  BY DEF MovesBeforePass
<1>b. /\ cpc' \in [Caller -> {"out", "waiting", "holding", "returned"}]
      /\ at' \in [Caller -> Receiver] /\ older' \in [Caller -> SUBSET Caller]
      /\ quiet' \in [Receiver -> 0..2] /\ ccancel' \subseteq Caller
  BY DEF MovesBeforePass
<1>c. \A d \in Caller \ mover :
        cpc'[d] = cpc[d] /\ at'[d] = at[d] /\ (d \in ccancel' <=> d \in ccancel)
  BY DEF MovesBeforePass
<1>m. \A d \in mover : /\ at'[d] = r /\ d \notin ccancel'
                       /\ d \in queued'[r] => cpc'[d] = "waiting"
                       /\ d \in granted'[r] <=> cpc'[d] = "holding"
  BY DEF MovesBeforePass
<1>d. InOrder(line, older') /\ \A q \in Receiver \ {r} : InOrder(queued[q], older')
  BY DEF MovesBeforePass
<1> DEFINE ready == line \ ccancel
<1>1. PICK G \in SUBSET ready :
        /\ queued' = [queued EXCEPT ![r] = ready \ G]
        /\ granted' = [granted EXCEPT ![r] = out \cup G]
        /\ window' = [window EXCEPT ![r] = w]
        /\ overdue' = overdue \ (G \cup (queued[r] \ ready))
        /\ ready \ G = {} \/ Cardinality(out \cup G) >= w
  <2>1. PassGrants(r, line, out, w)
    BY <1>a, DispatchEffect
  <2> QED
    BY <2>1 DEF PassGrants
<1>2. Coflow!TypeOK /\ Coflow!CreditsOwned /\ Coflow!WorkConserving
  BY DEF CoflowInv
<1>3. /\ queued' \in [Receiver -> SUBSET Caller] /\ granted' \in [Receiver -> SUBSET Caller]
      /\ window' \in [Receiver -> MinWindow..MaxWindow]
      /\ queued'[r] = ready \ G /\ granted'[r] = out \cup G /\ window'[r] = w
      /\ \A q \in Receiver \ {r} :
           queued'[q] = queued[q] /\ granted'[q] = granted[q] /\ window'[q] = window[q]
  BY <1>1, <1>2 DEF Coflow!TypeOK
<1> HIDE DEF ready
<1>4. ASSUME NEW q \in Receiver
      PROVE  /\ queued'[q] \cap granted'[q] = {}
             /\ \A c \in queued'[q] : at'[c] = q /\ cpc'[c] = "waiting"
             /\ InOrder(queued'[q], older')
  <2>1. CASE q = r
    <3>1. queued'[q] \cap granted'[q] = {}
      BY <1>a, <1>1, <1>3, <2>1 DEF ready
    <3>2. ASSUME NEW c \in queued'[q] PROVE at'[c] = q /\ cpc'[c] = "waiting"
      <4>1. c \in line /\ c \in Caller
        BY <1>3, <2>1 DEF ready
      <4>2. CASE c \in mover
        BY <1>m, <2>1, <4>2
      <4>3. CASE c \notin mover
        BY <1>2, <1>a, <1>c, <2>1, <4>1, <4>3 DEF Coflow!TypeOK
      <4> QED
        BY <4>2, <4>3
    <3>3. InOrder(queued'[q], older')
      <4>1. queued'[q] \in SUBSET line
        BY <1>3, <2>1 DEF ready
      <4> QED
        BY <1>d, <4>1 DEF InOrder
    <3> QED
      BY <3>1, <3>2, <3>3
  <2>2. CASE q # r
    <3>1. queued'[q] = queued[q] /\ granted'[q] = granted[q] /\ queued[q] \in SUBSET Caller
          /\ mover \cap queued[q] = {}
      BY <1>2, <1>a, <1>3, <2>2 DEF Coflow!TypeOK
    <3>2. queued[q] \cap granted[q] = {} /\ \A c \in queued[q] : at[c] = q /\ cpc[c] = "waiting"
      BY <1>2 DEF Coflow!TypeOK
    <3> QED
      BY <1>c, <1>d, <2>2, <3>1, <3>2
  <2> QED
    BY <2>1, <2>2
<1>5. overdue' \subseteq UNION {queued'[q] : q \in Receiver}
  <2> SUFFICES ASSUME NEW x \in overdue' PROVE \E q \in Receiver : x \in queued'[q]
    OBVIOUS
  <2>1. x \in overdue /\ x \notin G /\ x \notin queued[r] \ ready
    BY <1>1
  <2>2. PICK q \in Receiver : x \in queued[q]
    BY <1>2, <2>1 DEF Coflow!TypeOK
  <2>3. CASE q = r
    BY <1>3, <2>1, <2>2, <2>3
  <2>4. CASE q # r
    BY <1>3, <2>2, <2>4
  <2> QED
    BY <2>3, <2>4
<1>6. ccancel' \subseteq {c \in Caller : cpc'[c] = "waiting"}
  BY <1>2, <1>b, <1>c, <1>m DEF Coflow!TypeOK
<1>7. Coflow!TypeOK'
  BY <1>b, <1>3, <1>4, <1>5, <1>6 DEF Coflow!TypeOK, InOrder
<1>8. Coflow!CreditsOwned'
  <2> SUFFICES ASSUME NEW c \in Caller, NEW q \in Receiver
               PROVE  /\ cpc'[c] = "holding" => (c \in granted'[q] <=> at'[c] = q)
                      /\ c \in granted'[q] => at'[c] = q /\ cpc'[c] \in {"waiting", "holding"}
    BY DEF Coflow!CreditsOwned
  <2>0. /\ cpc[c] = "holding" => (c \in granted[q] <=> at[c] = q)
        /\ c \in granted[q] => at[c] = q /\ cpc[c] \in {"waiting", "holding"}
    BY <1>2 DEF Coflow!CreditsOwned
  <2>1. CASE c \in mover /\ q = r
    BY <1>m, <2>1
  <2>2. CASE c \in mover /\ q # r
    <3>1. c \notin granted'[q] /\ at'[c] # q
      BY <1>a, <1>m, <1>3, <2>2
    <3> QED
      BY <2>2, <3>1
  <2>3. CASE c \notin mover /\ q = r
    <3>1. c \in out <=> c \in granted[r]
      BY <1>a, <2>3
    <3>2. c \in G => at[c] = r /\ cpc[c] = "waiting"
      BY <1>2, <1>a, <2>3 DEF Coflow!TypeOK, ready
    <3>3. cpc'[c] = cpc[c] /\ at'[c] = at[c]
      BY <1>c, <2>3
    <3> QED
      BY <1>3, <2>0, <2>3, <3>1, <3>2, <3>3
  <2>4. CASE c \notin mover /\ q # r
    <3>1. cpc'[c] = cpc[c] /\ at'[c] = at[c] /\ granted'[q] = granted[q]
      BY <1>c, <1>3, <2>4
    <3> QED
      BY <2>0, <3>1
  <2> QED
    BY <2>1, <2>2, <2>3, <2>4
<1>9. Coflow!WorkConserving'
  <2> SUFFICES ASSUME NEW q \in Receiver
               PROVE  queued'[q] \subseteq ccancel' \/ Coflow!Cardinality(granted'[q]) >= window'[q]
    BY DEF Coflow!WorkConserving
  <2>1. Coflow!Cardinality(granted'[q]) = Cardinality(granted'[q])
        /\ Coflow!Cardinality(granted[q]) = Cardinality(granted[q])
    BY DEF Coflow!Cardinality, Cardinality
  <2>2. CASE q = r
    BY <1>1, <1>3, <2>1, <2>2
  <2>3. CASE q # r
    <3>1. queued'[q] = queued[q] /\ granted'[q] = granted[q] /\ window'[q] = window[q]
      BY <1>3, <2>3
    <3>2. queued[q] \subseteq ccancel \/ Coflow!Cardinality(granted[q]) >= window[q]
      BY <1>2 DEF Coflow!WorkConserving
    <3>3. queued[q] \subseteq Caller \ mover
      BY <1>2, <1>a, <2>3 DEF Coflow!TypeOK
    <3> QED
      BY <1>c, <2>1, <3>1, <3>2, <3>3
  <2> QED
    BY <2>2, <2>3
<1> QED
  BY <1>7, <1>8, <1>9 DEF CoflowInv

LEMMA CoflowInit == Coflow!Init => CoflowInv
<1> SUFFICES ASSUME Coflow!Init PROVE CoflowInv
  OBVIOUS
<1>1. /\ cpc = [c \in Caller |-> "out"] /\ older = [c \in Caller |-> {}]
      /\ queued = [r \in Receiver |-> {}] /\ granted = [r \in Receiver |-> {}]
      /\ quiet = [r \in Receiver |-> 0] /\ overdue = {} /\ ccancel = {}
  BY DEF Coflow!Init
<1>2. at \in [Caller -> Receiver] /\ window \in [Receiver -> MinWindow..MaxWindow]
  BY DEF Coflow!Init
<1>3. Coflow!TypeOK
  BY <1>1, <1>2 DEF Coflow!TypeOK
<1>4. Coflow!CreditsOwned
  BY <1>1 DEF Coflow!CreditsOwned
<1>5. Coflow!WorkConserving
  BY <1>1 DEF Coflow!WorkConserving
<1> QED
  BY <1>3, <1>4, <1>5 DEF CoflowInv

\* A caller gives up its ticket, wherever it is, and a pass follows.
LEMMA LeavingKeeps ==
  ASSUME CoflowInv, NEW c \in Caller, NEW next \in {"out", "returned"},
         Coflow!Dispatch(at[c], queued[at[c]] \ {c}, granted[at[c]] \ {c}, window[at[c]]),
         cpc' = [cpc EXCEPT ![c] = next], ccancel' = ccancel \ {c}, UNCHANGED <<at, older, quiet>>
  PROVE  CoflowInv'
<1> DEFINE r    == at[c]
           line == queued[r] \ {c}
           out  == granted[r] \ {c}
<1>0. Coflow!TypeOK /\ Coflow!CreditsOwned
  BY DEF CoflowInv
<1>1. /\ cpc \in [Caller -> {"out", "waiting", "holding", "returned"}]
      /\ at \in [Caller -> Receiver] /\ older \in [Caller -> SUBSET Caller]
      /\ queued \in [Receiver -> SUBSET Caller] /\ granted \in [Receiver -> SUBSET Caller]
      /\ window \in [Receiver -> MinWindow..MaxWindow] /\ quiet \in [Receiver -> 0..2]
      /\ ccancel \subseteq Caller /\ r \in Receiver
  BY <1>0 DEF Coflow!TypeOK
<1>2. \A q \in Receiver :
        /\ queued[q] \cap granted[q] = {} /\ InOrder(queued[q], older)
        /\ \A d \in queued[q] \cup granted[q] : at[d] = q
  BY <1>0 DEF Coflow!TypeOK, Coflow!CreditsOwned, InOrder
<1> HIDE DEF r
<1>3. line \in SUBSET Caller /\ out \in SUBSET Caller /\ window[r] \in MinWindow..MaxWindow
      /\ line \cap out = {}
  BY <1>1, <1>2
<1>4. Coflow!Dispatch(r, line, out, window[r])
  BY DEF r
<1>5. c \notin queued'[r] /\ c \notin granted'[r]
  <2>1. PassGrants(r, line, out, window[r])
    BY <1>3, <1>4, DispatchEffect
  <2> QED
    BY <1>1, <2>1 DEF PassGrants
<1>6. /\ line \ {c} = queued[r] \ {c} /\ out \ {c} = granted[r] \ {c}
      /\ \A q \in Receiver \ {r} : {c} \cap (queued[q] \cup granted[q]) = {}
  BY <1>2 DEF r
<1>7. /\ cpc' \in [Caller -> {"out", "waiting", "holding", "returned"}] /\ at' = at
      /\ older' = older /\ quiet' = quiet /\ ccancel' \subseteq Caller
      /\ cpc'[c] = next /\ \A d \in Caller \ {c} : cpc'[d] = cpc[d]
  BY <1>1
<1>8. InOrder(line, older') /\ \A q \in Receiver \ {r} : InOrder(queued[q], older')
  BY <1>1, <1>2, <1>7 DEF InOrder
<1>9. \A d \in {c} : /\ at'[d] = r /\ d \notin ccancel'
                     /\ d \in queued'[r] => cpc'[d] = "waiting"
                     /\ d \in granted'[r] <=> cpc'[d] = "holding"
  BY <1>5, <1>7 DEF r
<1>10. \A d \in Caller \ {c} :
         cpc'[d] = cpc[d] /\ at'[d] = at[d] /\ (d \in ccancel' <=> d \in ccancel)
  BY <1>7
<1> HIDE DEF line, out
<1>11. MovesBeforePass(r, {c}, line, out)
  BY <1>1, <1>3, <1>6, <1>7, <1>8, <1>9, <1>10 DEF MovesBeforePass
<1>12. {c} \in SUBSET Caller /\ r \in Receiver
  BY <1>1
<1> QED
  BY <1>3, <1>4, <1>11, <1>12, PassKeeps

LEMMA CoflowStepKeeps == CoflowInv /\ [Coflow!Next]_coflowVars => CoflowInv'
<1> SUFFICES ASSUME CoflowInv, [Coflow!Next]_coflowVars PROVE CoflowInv'
  OBVIOUS
<1>0. Coflow!TypeOK /\ Coflow!CreditsOwned /\ Coflow!WorkConserving
  BY DEF CoflowInv
<1>t. /\ cpc \in [Caller -> {"out", "waiting", "holding", "returned"}]
      /\ at \in [Caller -> Receiver] /\ older \in [Caller -> SUBSET Caller]
      /\ queued \in [Receiver -> SUBSET Caller] /\ granted \in [Receiver -> SUBSET Caller]
      /\ window \in [Receiver -> MinWindow..MaxWindow] /\ quiet \in [Receiver -> 0..2]
      /\ ccancel \subseteq {c \in Caller : cpc[c] = "waiting"}
  BY <1>0 DEF Coflow!TypeOK
<1>q. \A r \in Receiver :
        /\ queued[r] \cap granted[r] = {} /\ InOrder(queued[r], older)
        /\ \A c \in queued[r] : at[c] = r /\ cpc[c] = "waiting"
  BY <1>0 DEF Coflow!TypeOK, InOrder
<1>g. \A r \in Receiver, c \in Caller : c \in granted[r] => at[c] = r /\ cpc[c] \in {"waiting", "holding"}
  BY <1>0 DEF Coflow!CreditsOwned
<1>1. ASSUME NEW c \in Caller, NEW r \in Receiver, Coflow!Acquire(c, r) PROVE CoflowInv'
  <2>1. /\ cpc[c] = "out" /\ at' = [at EXCEPT ![c] = r]
        /\ older' = [d \in Caller |-> IF d = c THEN queued[r] ELSE older[d] \ {c}]
        /\ Coflow!Dispatch(r, queued[r] \cup {c}, granted[r], window[r])
        /\ cpc' = [cpc EXCEPT ![c] = IF c \in granted'[r] THEN "holding" ELSE "waiting"]
        /\ quiet' = quiet /\ ccancel' = ccancel
    BY <1>1 DEF Coflow!Acquire
  <2>2. \A q \in Receiver : c \notin queued[q] /\ c \notin granted[q]
    BY <1>q, <1>g, <2>1
  <2>3. c \notin ccancel
    BY <1>t, <2>1
  <2> DEFINE line == queued[r] \cup {c}
             out  == granted[r]
  <2>4. line \in SUBSET Caller /\ out \in SUBSET Caller /\ window[r] \in MinWindow..MaxWindow
        /\ line \cap out = {}
    BY <1>t, <1>q, <2>2
  <2>5. line \ {c} = queued[r] \ {c} /\ out \ {c} = granted[r] \ {c}
        /\ \A q \in Receiver \ {r} : {c} \cap (queued[q] \cup granted[q]) = {}
    BY <2>2
  <2>6. /\ cpc' \in [Caller -> {"out", "waiting", "holding", "returned"}]
        /\ at' \in [Caller -> Receiver] /\ quiet' \in [Receiver -> 0..2] /\ ccancel' \subseteq Caller
        /\ cpc'[c] = (IF c \in granted'[r] THEN "holding" ELSE "waiting") /\ at'[c] = r
        /\ \A d \in Caller \ {c} : cpc'[d] = cpc[d] /\ at'[d] = at[d]
    BY <1>t, <2>1
  <2>7. /\ older' \in [Caller -> SUBSET Caller] /\ older'[c] = queued[r]
        /\ \A d \in Caller \ {c} : older'[d] = older[d] \ {c}
    BY <1>t, <2>1
  <2>8. InOrder(line, older')
    BY <1>t, <1>q, <2>2, <2>7 DEF InOrder
  <2>9. ASSUME NEW q \in Receiver \ {r} PROVE InOrder(queued[q], older')
    BY <1>t, <1>q, <2>2, <2>7 DEF InOrder
  <2>10. Coflow!Dispatch(r, line, out, window[r])
    BY <2>1
  <2>11. c \in queued'[r] => c \notin granted'[r]
    <3>1. PassGrants(r, line, out, window[r])
      BY <2>4, <2>10, DispatchEffect
    <3> QED
      BY <1>t, <2>2, <3>1 DEF PassGrants
  <2> HIDE DEF line, out
  <2>12. \A d \in {c} : /\ at'[d] = r /\ d \notin ccancel'
                        /\ d \in queued'[r] => cpc'[d] = "waiting"
                        /\ d \in granted'[r] <=> cpc'[d] = "holding"
    BY <2>1, <2>3, <2>6, <2>11
  <2>13. \A d \in Caller \ {c} :
           cpc'[d] = cpc[d] /\ at'[d] = at[d] /\ (d \in ccancel' <=> d \in ccancel)
    BY <2>1, <2>6
  <2>14. MovesBeforePass(r, {c}, line, out)
    BY <2>4, <2>5, <2>6, <2>7, <2>8, <2>9, <2>12, <2>13 DEF MovesBeforePass
  <2>15. {c} \in SUBSET Caller
    OBVIOUS
  <2> QED
    BY <2>4, <2>10, <2>14, <2>15, PassKeeps
<1>2. ASSUME NEW c \in Caller, Coflow!AcquireCancelled(c) PROVE CoflowInv'
  BY <1>2, LeavingKeeps DEF Coflow!AcquireCancelled
<1>3. ASSUME NEW c \in Caller, NEW next \in {"out", "returned"}, Coflow!Release(c, next)
      PROVE  CoflowInv'
  <2>1. /\ cpc[c] = "holding" /\ UNCHANGED <<at, older, quiet, ccancel>>
        /\ Coflow!Dispatch(at[c], queued[at[c]], granted[at[c]] \ {c}, window[at[c]])
        /\ cpc' = [cpc EXCEPT ![c] = next]
    BY <1>3 DEF Coflow!Release
  <2>2. queued[at[c]] \ {c} = queued[at[c]] /\ ccancel \ {c} = ccancel
    BY <1>t, <1>q, <2>1
  <2> QED
    BY <2>1, <2>2, LeavingKeeps
<1>4. ASSUME NEW r \in Receiver, NEW waiting \in BOOLEAN, Coflow!Feedback(r, waiting)
      PROVE  CoflowInv'
  <2> DEFINE widens == ~waiting /\ quiet[r] >= 1 /\ queued[r] # {}
             half   == window[r] \div 2
  <2>1. /\ UNCHANGED <<cpc, at, older, ccancel>>
        /\ quiet' = [quiet EXCEPT ![r] = IF waiting \/ widens THEN 0 ELSE Coflow!Min({2, @ + 1})]
    BY <1>4 DEF Coflow!Feedback
  <2>2. PICK w \in CASE waiting -> Coflow!Max({MinWindow, window[r] \div 2})..window[r]
                      [] widens  -> {Coflow!Min({MaxWindow, window[r] + 1})}
                      [] OTHER   -> {window[r]} :
          Coflow!Dispatch(r, queued[r], granted[r], w)
    BY <1>4 DEF Coflow!Feedback
  <2>3. /\ MinWindow \in Nat \ {0} /\ MaxWindow \in Nat /\ window[r] \in MinWindow..MaxWindow
        /\ quiet[r] \in 0..2 /\ half \in Nat /\ half <= window[r]
    BY <1>t, WindowAssumption DEF WindowAssumption
  <2>4. w \in MinWindow..MaxWindow
    <3>1. CASE waiting
      <4>1. w \in Coflow!Max({MinWindow, half})..window[r]
        BY <2>2, <3>1
      <4> HIDE DEF half
      <4>2. Coflow!Max({MinWindow, half}) = Max({MinWindow, half})
        BY DEF Coflow!Max, Max
      <4>3. Max({MinWindow, half}) = IF MinWindow >= half THEN MinWindow ELSE half
        BY <2>3, MaxOfTwo
      <4> QED
        BY <2>3, <4>1, <4>2, <4>3
    <3>2. CASE ~waiting /\ widens
      <4>1. w = Coflow!Min({MaxWindow, window[r] + 1})
        BY <2>2, <3>2
      <4>2. Coflow!Min({MaxWindow, window[r] + 1}) = Min({MaxWindow, window[r] + 1})
        BY DEF Coflow!Min, Min
      <4>3. Min({MaxWindow, window[r] + 1}) =
              IF MaxWindow <= window[r] + 1 THEN MaxWindow ELSE window[r] + 1
        BY <2>3, MinOfTwo
      <4> QED
        BY <2>3, <4>1, <4>2, <4>3
    <3>3. CASE ~waiting /\ ~widens
      BY <2>2, <2>3, <3>3
    <3> QED
      BY <3>1, <3>2, <3>3
  <2>5. quiet' \in [Receiver -> 0..2]
    <3>1. Coflow!Min({2, quiet[r] + 1}) = Min({2, quiet[r] + 1})
      BY DEF Coflow!Min, Min
    <3>2. Min({2, quiet[r] + 1}) = IF 2 <= quiet[r] + 1 THEN 2 ELSE quiet[r] + 1
      BY <2>3, MinOfTwo
    <3> QED
      BY <1>t, <2>1, <2>3, <3>1, <3>2
  <2>6. MovesBeforePass(r, {}, queued[r], granted[r])
    BY <1>t, <1>q, <2>1, <2>5 DEF MovesBeforePass
  <2>7. queued[r] \in SUBSET Caller /\ granted[r] \in SUBSET Caller /\ {} \in SUBSET Caller
    BY <1>t
  <2> QED
    BY <2>2, <2>4, <2>6, <2>7, PassKeeps
<1>5. ASSUME NEW c \in Caller, Coflow!Resume(c) PROVE CoflowInv'
  <2>1. /\ cpc[c] = "waiting" /\ c \in granted[at[c]] /\ c \notin ccancel
        /\ cpc' = [cpc EXCEPT ![c] = "holding"]
        /\ UNCHANGED <<at, queued, older, granted, window, quiet, overdue, ccancel>>
    BY <1>5 DEF Coflow!Resume
  <2>2. \A r \in Receiver : c \notin queued[r]
    BY <1>t, <1>q, <2>1
  <2>3. Coflow!TypeOK'
    BY <1>0, <1>t, <2>1, <2>2 DEF Coflow!TypeOK
  <2>4. Coflow!CreditsOwned'
    BY <1>0, <1>t, <1>g, <2>1 DEF Coflow!CreditsOwned
  <2>5. Coflow!WorkConserving'
    BY <1>0, <2>1 DEF Coflow!WorkConserving
  <2> QED
    BY <2>3, <2>4, <2>5 DEF CoflowInv
<1>6. ASSUME NEW c \in Caller, Coflow!Cancel(c) PROVE CoflowInv'
  <2>1. /\ cpc[c] = "waiting" /\ ccancel' = ccancel \cup {c}
        /\ UNCHANGED <<cpc, at, queued, older, granted, window, quiet, overdue>>
    BY <1>6 DEF Coflow!Cancel
  <2>2. Coflow!TypeOK'
    BY <1>0, <1>t, <2>1 DEF Coflow!TypeOK
  <2>3. Coflow!CreditsOwned'
    BY <1>0, <2>1 DEF Coflow!CreditsOwned
  <2>4. Coflow!WorkConserving'
    BY <1>0, <2>1 DEF Coflow!WorkConserving
  <2> QED
    BY <2>2, <2>3, <2>4 DEF CoflowInv
<1>7. ASSUME NEW c \in Caller, Coflow!ReleaseAgain(c) PROVE CoflowInv'
  <2>1. /\ cpc[c] = "returned" /\ cpc' = [cpc EXCEPT ![c] = "out"]
        /\ UNCHANGED <<at, queued, older, granted, window, quiet, overdue, ccancel>>
    BY <1>7 DEF Coflow!ReleaseAgain
  <2>2. c \notin ccancel /\ \A r \in Receiver : c \notin queued[r] /\ c \notin granted[r]
    BY <1>t, <1>q, <1>g, <2>1
  <2>3. Coflow!TypeOK'
    BY <1>0, <1>t, <2>1, <2>2 DEF Coflow!TypeOK
  <2>4. Coflow!CreditsOwned'
    BY <1>0, <1>t, <1>g, <2>1, <2>2 DEF Coflow!CreditsOwned
  <2>5. Coflow!WorkConserving'
    BY <1>0, <2>1 DEF Coflow!WorkConserving
  <2> QED
    BY <2>3, <2>4, <2>5 DEF CoflowInv
<1>8. ASSUME NEW r \in Receiver, Coflow!Age(r) PROVE CoflowInv'
  <2>1. /\ \E c \in queued[r] : overdue' = overdue \cup {c}
        /\ UNCHANGED <<cpc, at, queued, older, granted, window, quiet, ccancel>>
    BY <1>8 DEF Coflow!Age
  <2>2. Coflow!TypeOK'
    BY <1>0, <1>t, <2>1 DEF Coflow!TypeOK
  <2>3. Coflow!CreditsOwned' /\ Coflow!WorkConserving'
    BY <1>0, <2>1 DEF Coflow!CreditsOwned, Coflow!WorkConserving
  <2> QED
    BY <2>2, <2>3 DEF CoflowInv
<1>9. CASE UNCHANGED coflowVars
  <2>1. UNCHANGED <<cpc, at, queued, older, granted, window, quiet, overdue, ccancel>>
    BY <1>9 DEF coflowVars
  <2>2. Coflow!TypeOK'
    BY <1>0, <2>1 DEF Coflow!TypeOK
  <2>3. Coflow!CreditsOwned' /\ Coflow!WorkConserving'
    BY <1>0, <2>1 DEF Coflow!CreditsOwned, Coflow!WorkConserving
  <2> QED
    BY <2>2, <2>3 DEF CoflowInv
<1> QED
  BY <1>1, <1>2, <1>3, <1>4, <1>5, <1>6, <1>7, <1>8, <1>9 DEF Coflow!Next, Coflow!Run

-----------------------------------------------------------------------------
(* Refinement of the pool of credits by the coflow admission.              *)

LEMMA PoolCounts == \A S : Coflow!Pool!Cardinality(S) = Cardinality(S)
BY DEF Coflow!Pool!Cardinality, Cardinality

\* The live requests when a step has left the queue line to receiver r.
Live(r, line) ==
  (line \ ccancel) \cup UNION {queued[q] \ ccancel : q \in Receiver \ {r}}

\* Where the callers in ask may be served once the step is over.
ServedAt(ask, use) == \A c \in ask : use[c] = {at'[c]}

\* The credits in use when a step has left the credits out to receiver r.
Leaves(r, out, hold) ==
  hold[r] = out /\ \A q \in Receiver \ {r} : hold[q] = granted[q]

\* A caller that asks after a step meets a full window.
LEMMA FullWhenAsking ==
  ASSUME CoflowInv'
  PROVE  \A c \in Coflow!Asking' :
           Coflow!Pool!Cardinality(granted'[at'[c]]) >= window'[at'[c]]
<1> SUFFICES ASSUME NEW c \in Coflow!Asking'
             PROVE  Coflow!Pool!Cardinality(granted'[at'[c]]) >= window'[at'[c]]
  OBVIOUS
<1>1. PICK q \in Receiver : c \in queued'[q] /\ c \notin ccancel'
  BY DEF Coflow!Asking
<1>2. at'[c] = q
  BY <1>1 DEF CoflowInv, Coflow!TypeOK
<1>3. Coflow!Cardinality(granted'[q]) >= window'[q]
  BY <1>1 DEF CoflowInv, Coflow!WorkConserving
<1>4. Coflow!Cardinality(granted'[q]) = Coflow!Pool!Cardinality(granted'[q])
  BY DEF Coflow!Cardinality, Coflow!Pool!Cardinality
<1> QED
  BY <1>2, <1>3, <1>4

\* A pass on one receiver is a pass of the pool.
LEMMA PassServes ==
  ASSUME CoflowInv, CoflowInv', NEW r \in Receiver,
         NEW line \in SUBSET Caller, NEW out \in SUBSET Caller,
         NEW w \in MinWindow..MaxWindow, line \cap out = {},
         Coflow!Dispatch(r, line, out, w),
         \A c \in line : at'[c] = r,
         \A c \in Caller, q \in Receiver : c \in queued'[q] => (c \in ccancel' <=> c \in ccancel),
         NEW ask \in SUBSET Caller, ask = Live(r, line),
         NEW use, ServedAt(ask, use), NEW hold, Leaves(r, out, hold)
  PROVE  Coflow!Pool!Serve(ask, use, hold)
<1> DEFINE ready == line \ ccancel
<1>1. PICK G \in SUBSET ready :
        /\ queued' = [queued EXCEPT ![r] = ready \ G]
        /\ granted' = [granted EXCEPT ![r] = out \cup G]
        /\ window' = [window EXCEPT ![r] = w]
        /\ G = {} \/ Cardinality(out \cup G) <= w
  <2>1. PassGrants(r, line, out, w)
    BY DispatchEffect
  <2> QED
    BY <2>1 DEF PassGrants
<1>2. /\ queued \in [Receiver -> SUBSET Caller] /\ granted \in [Receiver -> SUBSET Caller]
      /\ window \in [Receiver -> MinWindow..MaxWindow]
      /\ \A q \in Receiver : \A c \in queued'[q] : at'[c] = q
  BY DEF CoflowInv, Coflow!TypeOK
<1>3. /\ queued'[r] = ready \ G /\ granted'[r] = out \cup G /\ window'[r] = w
      /\ \A q \in Receiver \ {r} : queued'[q] = queued[q] /\ granted'[q] = granted[q]
  BY <1>1, <1>2
<1>4. G \subseteq ask /\ \A c \in G : at'[c] = r
  BY DEF Live
<1> HIDE DEF ready
<1>5. Coflow!Asking' = ask \ G
  <2>1. ASSUME NEW c, c \in Coflow!Asking'
        PROVE  c \in ask /\ c \notin G
    <3>1. PICK q \in Receiver : c \in queued'[q] /\ c \notin ccancel'
      BY <2>1 DEF Coflow!Asking
    <3>2. c \in Caller /\ c \notin ccancel /\ at'[c] = q
      BY <1>2, <3>1 DEF CoflowInv, Coflow!TypeOK
    <3>3. CASE q = r
      BY <1>3, <3>1, <3>2, <3>3 DEF Live, ready
    <3>4. CASE q # r
      BY <1>3, <1>4, <3>1, <3>2, <3>4 DEF Live
    <3> QED
      BY <3>3, <3>4
  <2>2. ASSUME NEW c, c \in ask, c \notin G
        PROVE  c \in Coflow!Asking'
    <3>1. c \in Caller /\ c \notin ccancel
      BY <2>2 DEF Live
    <3>2. \E q \in Receiver : c \in queued'[q]
      BY <1>3, <2>2 DEF Live, ready
    <3> QED
      BY <3>1, <3>2 DEF Coflow!Asking
  <2> QED
    BY <2>1, <2>2
<1>6. ask \ Coflow!Asking' = G
  BY <1>4, <1>5
<1>7. \E grant \in [ask \ Coflow!Asking' -> Receiver] :
        /\ \A c \in ask \ Coflow!Asking' :
             /\ grant[c] \in use[c]
             /\ Coflow!Pool!Cardinality(granted'[grant[c]]) <= window'[grant[c]]
        /\ granted' = [q \in Receiver |->
                         hold[q] \cup {c \in ask \ Coflow!Asking' : grant[c] = q}]
  <2>1. PICK grant \in [G -> Receiver] : \A c \in G : grant[c] = r
    <3>1. [c \in G |-> r] \in [G -> Receiver]
      OBVIOUS
    <3> QED
      BY <3>1
  <2>2. \A c \in G : grant[c] \in use[c]
    BY <1>4, <2>1 DEF ServedAt
  <2>3. \A c \in G : Coflow!Pool!Cardinality(granted'[grant[c]]) <= window'[grant[c]]
    BY <1>1, <1>3, <2>1, PoolCounts
  <2>4. \A q \in Receiver : granted'[q] = hold[q] \cup {c \in G : grant[c] = q}
    BY <1>3, <2>1 DEF Leaves
  <2>5. granted' = [q \in Receiver |-> hold[q] \cup {c \in G : grant[c] = q}]
    BY <1>1, <1>2, <2>4
  <2> QED
    BY <1>6, <2>1, <2>2, <2>3, <2>5
<1>8. Coflow!Usable' = [c \in Caller |-> IF c \in Coflow!Asking' THEN use[c] ELSE {}]
  <2>1. \A c \in Coflow!Asking' : use[c] = {at'[c]}
    BY <1>5 DEF ServedAt
  <2> QED
    BY <2>1 DEF Coflow!Usable
<1>9. ASSUME NEW c \in Coflow!Asking'
      PROVE  \E q \in use[c] : Coflow!Pool!Cardinality(granted'[q]) >= window'[q]
  <2>1. use[c] = {at'[c]}
    BY <1>5, <1>9 DEF ServedAt
  <2> QED
    BY <1>9, <2>1, FullWhenAsking
<1> QED
  BY <1>5, <1>7, <1>8, <1>9 DEF Coflow!Pool!Serve

\* A step that neither asks, withdraws, grants nor returns anything.
LEMMA PoolStutter ==
  ASSUME UNCHANGED <<at, queued, granted, window, ccancel>>
  PROVE  UNCHANGED Coflow!Pool!pool
BY DEF Coflow!Pool!pool, Coflow!Asking, Coflow!Usable

\* A ticket is queued at the receiver it was made for, and nowhere twice.
LEMMA LiveIsAsking ==
  ASSUME CoflowInv, NEW r \in Receiver
  PROVE  /\ Live(r, queued[r]) = Coflow!Asking
         /\ \A c \in Caller \ ccancel : Live(r, queued[r] \cup {c}) = Coflow!Asking \cup {c}
         /\ \A c \in ccancel : Live(r, queued[r] \ {c}) = Coflow!Asking
         /\ Coflow!Asking \in SUBSET Caller
BY DEF Live, Coflow!Asking, CoflowInv, Coflow!TypeOK

\* What the steps of the admission read of the state.
LEMMA StateOfCoflow ==
  ASSUME CoflowInv
  PROVE  /\ cpc \in [Caller -> {"out", "waiting", "holding", "returned"}]
         /\ at \in [Caller -> Receiver]
         /\ queued \in [Receiver -> SUBSET Caller] /\ granted \in [Receiver -> SUBSET Caller]
         /\ window \in [Receiver -> MinWindow..MaxWindow] /\ window \in [Receiver -> Nat]
         /\ ccancel \subseteq {c \in Caller : cpc[c] = "waiting"}
         /\ \A r \in Receiver :
              /\ queued[r] \cap granted[r] = {}
              /\ \A c \in queued[r] : at[c] = r /\ cpc[c] = "waiting"
         /\ \A r \in Receiver, c \in Caller :
              c \in granted[r] => at[c] = r /\ cpc[c] \in {"waiting", "holding"}
         /\ \A c \in Caller : cpc[c] = "holding" => c \in granted[at[c]]
         /\ \A c \in Coflow!Asking : Coflow!Usable[c] = {at[c]}
         /\ Coflow!Usable \in [Caller -> SUBSET Receiver]
<1>1. Coflow!TypeOK /\ Coflow!CreditsOwned
  BY DEF CoflowInv
<1>2. at \in [Caller -> Receiver] /\ queued \in [Receiver -> SUBSET Caller]
  BY <1>1 DEF Coflow!TypeOK
<1>3. Coflow!Asking \subseteq Caller
  BY <1>2 DEF Coflow!Asking
<1>4. /\ \A c \in Coflow!Asking : Coflow!Usable[c] = {at[c]}
      /\ Coflow!Usable \in [Caller -> SUBSET Receiver]
  BY <1>2, <1>3 DEF Coflow!Usable
<1>5. MinWindow..MaxWindow \subseteq Nat
  BY WindowAssumption DEF WindowAssumption
<1>6. window \in [Receiver -> MinWindow..MaxWindow] /\ window \in [Receiver -> Nat]
  BY <1>1, <1>5 DEF Coflow!TypeOK
<1>7. \A c \in Caller : cpc[c] = "holding" => c \in granted[at[c]]
  BY <1>1, <1>2 DEF Coflow!CreditsOwned
<1> QED
  BY <1>1, <1>4, <1>6, <1>7 DEF Coflow!TypeOK, Coflow!CreditsOwned

\* A pass with the window as it is keeps the credits of every place.
LEMMA WindowStays ==
  ASSUME CoflowInv, NEW r \in Receiver, NEW line, NEW out,
         Coflow!Dispatch(r, line, out, window[r])
  PROVE  window' = window
BY DEF Coflow!Dispatch, CoflowInv, Coflow!TypeOK

\* Acquiring asks the pool for a credit of one receiver.
LEMMA AcquireAsks ==
  ASSUME CoflowInv, CoflowInv', NEW c \in Caller, NEW r \in Receiver, Coflow!Acquire(c, r)
  PROVE  Coflow!Pool!Ask(c, {r})
<1> DEFINE use == [Coflow!Usable EXCEPT ![c] = {r}]
<1>1. /\ cpc[c] = "out" /\ at' = [at EXCEPT ![c] = r] /\ ccancel' = ccancel
      /\ Coflow!Dispatch(r, queued[r] \cup {c}, granted[r], window[r])
  BY DEF Coflow!Acquire
<1>2. \A q \in Receiver : c \notin queued[q] /\ c \notin granted[q]
  BY <1>1, StateOfCoflow
<1>3. c \notin ccancel /\ c \notin Coflow!Asking
  BY <1>1, <1>2, StateOfCoflow DEF Coflow!Asking
<1>4. window' = window
  BY <1>1, WindowStays
<1>5. Live(r, queued[r] \cup {c}) = Coflow!Asking \cup {c} /\ Coflow!Asking \in SUBSET Caller
  BY <1>3, LiveIsAsking
<1>6. ServedAt(Coflow!Asking \cup {c}, use)
  BY <1>1, <1>3, <1>5, StateOfCoflow DEF ServedAt
<1>7. Leaves(r, granted[r], granted)
  BY DEF Leaves
<1>8. /\ queued[r] \cup {c} \in SUBSET Caller /\ granted[r] \in SUBSET Caller
      /\ window[r] \in MinWindow..MaxWindow /\ (queued[r] \cup {c}) \cap granted[r] = {}
      /\ \A d \in queued[r] \cup {c} : at'[d] = r
  BY <1>1, <1>2, StateOfCoflow
<1> HIDE DEF use
<1>9. Coflow!Pool!Serve(Coflow!Asking \cup {c}, use, granted)
  BY <1>1, <1>5, <1>6, <1>7, <1>8, PassServes
<1> QED
  BY <1>2, <1>3, <1>4, <1>9 DEF Coflow!Pool!Ask, use

\* A caller that gives up a ticket gives its credit back, or withdrew it when
\* its future was cancelled.
LEMMA LeavingGivesBack ==
  ASSUME CoflowInv, CoflowInv', NEW c \in Caller,
         c \in granted[at[c]] \/ c \in ccancel,
         Coflow!Dispatch(at[c], queued[at[c]] \ {c}, granted[at[c]] \ {c}, window[at[c]]),
         cpc'[c] # "waiting", ccancel' = ccancel \ {c}, at' = at
  PROVE  \/ Coflow!Pool!GiveBack(c, at[c])
         \/ Coflow!Pool!Rearrange(Coflow!Usable)
<1>1. PICK r \in Receiver : r = at[c]
  BY StateOfCoflow
<1>2. Coflow!Dispatch(r, queued[r] \ {c}, granted[r] \ {c}, window[r]) /\ window' = window
  BY <1>1, WindowStays
<1>3. /\ queued[r] \ {c} \in SUBSET Caller /\ granted[r] \ {c} \in SUBSET Caller
      /\ window[r] \in MinWindow..MaxWindow /\ (queued[r] \ {c}) \cap (granted[r] \ {c}) = {}
      /\ \A d \in queued[r] \ {c} : at'[d] = r
  BY StateOfCoflow
<1>4. \A d \in Caller, q \in Receiver : d \in queued'[q] => (d \in ccancel' <=> d \in ccancel)
  BY DEF CoflowInv, Coflow!TypeOK
<1>5. Live(r, queued[r] \ {c}) = Coflow!Asking /\ Coflow!Asking \in SUBSET Caller
  <2>1. CASE c \in ccancel
    BY <2>1, LiveIsAsking
  <2>2. CASE c \in granted[at[c]]
    <3>1. queued[r] \ {c} = queued[r]
      BY <1>1, <2>2, StateOfCoflow
    <3> QED
      BY <3>1, LiveIsAsking
  <2> QED
    BY <2>1, <2>2
<1>6. ServedAt(Coflow!Asking, Coflow!Usable)
  BY StateOfCoflow DEF ServedAt
<1>7. CASE c \in granted[r]
  <2> DEFINE hold == [granted EXCEPT ![r] = @ \ {c}]
  <2>1. Leaves(r, granted[r] \ {c}, hold)
    BY StateOfCoflow DEF Leaves
  <2> HIDE DEF hold
  <2>2. Coflow!Pool!Serve(Coflow!Asking, Coflow!Usable, hold)
    BY <1>2, <1>3, <1>4, <1>5, <1>6, <2>1, PassServes
  <2>3. Coflow!Pool!GiveBack(c, r)
    BY <1>2, <1>7, <2>2 DEF Coflow!Pool!GiveBack, hold
  <2> QED
    BY <1>1, <2>3
<1>8. CASE c \notin granted[r]
  <2>1. Leaves(r, granted[r] \ {c}, granted)
    BY <1>8 DEF Leaves
  <2>2. Coflow!Pool!Serve(Coflow!Asking, Coflow!Usable, granted)
    BY <1>2, <1>3, <1>4, <1>5, <1>6, <2>1, PassServes
  <2>3. window' \in [Receiver -> Nat]
    BY <1>2, StateOfCoflow
  <2> QED
    BY <2>2, <2>3 DEF Coflow!Pool!Rearrange
<1> QED
  BY <1>7, <1>8

\* Cancelling a caller that asks withdraws its request.
LEMMA CancelWithdraws ==
  ASSUME CoflowInv, CoflowInv', NEW c \in Caller, Coflow!Cancel(c)
  PROVE  Coflow!Pool!Withdraw(c) \/ UNCHANGED Coflow!Pool!pool
<1>1. ccancel' = ccancel \cup {c} /\ UNCHANGED <<at, queued, granted, window>>
  BY DEF Coflow!Cancel
<1>2. Coflow!Asking' = Coflow!Asking \ {c}
  BY <1>1 DEF Coflow!Asking
<1>3. CASE c \in Coflow!Asking
  <2>1. Coflow!Usable' =
          [d \in Caller |-> IF d \in Coflow!Asking' THEN Coflow!Usable[d] ELSE {}]
    BY <1>1, <1>2, LiveIsAsking, StateOfCoflow DEF Coflow!Usable
  <2>2. \E grant \in [{} -> Receiver] :
          granted' = [q \in Receiver |-> granted[q] \cup {d \in {} : grant[d] = q}]
    <3>1. [d \in {} |-> {}] \in [{} -> Receiver]
      OBVIOUS
    <3>2. PICK grant \in [{} -> Receiver] : TRUE
      BY <3>1
    <3>3. \A q \in Receiver : granted'[q] = granted[q] \cup {d \in {} : grant[d] = q}
      BY <1>1
    <3>4. granted' = [q \in Receiver |-> granted[q] \cup {d \in {} : grant[d] = q}]
      BY <1>1, <3>3, StateOfCoflow
    <3> QED
      BY <3>2, <3>4
  <2>3. (Coflow!Asking \ {c}) \ Coflow!Asking' = {}
    BY <1>2
  <2>4. ASSUME NEW d \in Coflow!Asking'
        PROVE  \E q \in Coflow!Usable[d] : Coflow!Pool!Cardinality(granted'[q]) >= window'[q]
    <3>1. Coflow!Usable[d] = {at'[d]}
      BY <1>1, <1>2, StateOfCoflow
    <3> QED
      BY <3>1, FullWhenAsking
  <2>5. Coflow!Pool!Serve(Coflow!Asking \ {c}, Coflow!Usable, granted)
    BY <1>2, <2>1, <2>2, <2>3, <2>4 DEF Coflow!Pool!Serve
  <2> QED
    BY <1>1, <1>3, <2>5 DEF Coflow!Pool!Withdraw
<1>4. CASE c \notin Coflow!Asking
  <2>1. Coflow!Asking' = Coflow!Asking
    BY <1>2, <1>4
  <2> QED
    BY <1>1, <2>1 DEF Coflow!Pool!pool, Coflow!Usable
<1> QED
  BY <1>3, <1>4

\* Every step of the admission is a step of the pool or invisible to it.
LEMMA NextIsPoolNext ==
  ASSUME CoflowInv, CoflowInv', [Coflow!Next]_coflowVars
  PROVE  [Coflow!Pool!Next]_(Coflow!Pool!pool)
<1>1. ASSUME NEW c \in Caller, NEW r \in Receiver, Coflow!Acquire(c, r)
      PROVE  Coflow!Pool!Next
  <2>1. Coflow!Pool!Ask(c, {r}) /\ {r} \in SUBSET Receiver
    BY <1>1, AcquireAsks
  <2> QED
    BY <2>1 DEF Coflow!Pool!Next
<1>2. ASSUME NEW c \in Caller, at[c] \in Receiver,
             Coflow!Pool!GiveBack(c, at[c]) \/ Coflow!Pool!Rearrange(Coflow!Usable)
      PROVE  Coflow!Pool!Next
  BY <1>2, StateOfCoflow DEF Coflow!Pool!Next
<1>3. ASSUME NEW c \in Caller, Coflow!AcquireCancelled(c)
      PROVE  Coflow!Pool!Next
  <2>1. /\ c \in ccancel /\ ccancel' = ccancel \ {c} /\ at' = at /\ cpc'[c] # "waiting"
        /\ Coflow!Dispatch(at[c], queued[at[c]] \ {c}, granted[at[c]] \ {c}, window[at[c]])
    BY <1>3, StateOfCoflow DEF Coflow!AcquireCancelled
  <2>2. at[c] \in Receiver
    BY StateOfCoflow
  <2> QED
    BY <1>2, <2>1, <2>2, LeavingGivesBack
<1>4. ASSUME NEW c \in Caller, NEW next \in {"out", "returned"}, Coflow!Release(c, next)
      PROVE  Coflow!Pool!Next
  <2>1. /\ cpc[c] = "holding" /\ ccancel' = ccancel /\ at' = at /\ cpc'[c] # "waiting"
        /\ Coflow!Dispatch(at[c], queued[at[c]], granted[at[c]] \ {c}, window[at[c]])
    BY <1>4, StateOfCoflow DEF Coflow!Release
  <2>2. at[c] \in Receiver /\ c \in granted[at[c]]
    BY <2>1, StateOfCoflow
  <2>3. queued[at[c]] \ {c} = queued[at[c]] /\ ccancel \ {c} = ccancel
    BY <2>1, <2>2, StateOfCoflow
  <2> QED
    BY <1>2, <2>1, <2>2, <2>3, LeavingGivesBack
<1>5. ASSUME NEW c \in Caller, Coflow!Cancel(c)
      PROVE  [Coflow!Pool!Next]_(Coflow!Pool!pool)
  BY <1>5, CancelWithdraws DEF Coflow!Pool!Next
<1>6. ASSUME NEW r \in Receiver, NEW waiting \in BOOLEAN, Coflow!Feedback(r, waiting)
      PROVE  Coflow!Pool!Next
  <2>1. PICK w : Coflow!Dispatch(r, queued[r], granted[r], w)
    BY <1>6 DEF Coflow!Feedback
  <2>2. at' = at /\ ccancel' = ccancel
    BY <1>6 DEF Coflow!Feedback
  <2>3. window' \in [Receiver -> Nat] /\ window' \in [Receiver -> MinWindow..MaxWindow]
    BY WindowAssumption DEF CoflowInv, Coflow!TypeOK, WindowAssumption
  <2>4. w \in MinWindow..MaxWindow
    <3>1. window'[r] = w
      BY <2>1, StateOfCoflow DEF Coflow!Dispatch
    <3> QED
      BY <2>3, <3>1
  <2>5. Live(r, queued[r]) = Coflow!Asking /\ Coflow!Asking \in SUBSET Caller
    BY LiveIsAsking
  <2>6. ServedAt(Coflow!Asking, Coflow!Usable)
    BY <2>2, StateOfCoflow DEF ServedAt
  <2>7. Leaves(r, granted[r], granted)
    BY DEF Leaves
  <2>8. /\ queued[r] \in SUBSET Caller /\ granted[r] \in SUBSET Caller
        /\ queued[r] \cap granted[r] = {} /\ \A d \in queued[r] : at'[d] = r
    BY <2>2, StateOfCoflow
  <2>9. Coflow!Pool!Serve(Coflow!Asking, Coflow!Usable, granted)
    BY <2>1, <2>2, <2>4, <2>5, <2>6, <2>7, <2>8, PassServes
  <2>10. Coflow!Pool!Rearrange(Coflow!Usable)
    BY <2>3, <2>9 DEF Coflow!Pool!Rearrange
  <2> QED
    BY <2>10, StateOfCoflow DEF Coflow!Pool!Next
<1>7. CASE \/ \E c \in Caller : Coflow!Resume(c) \/ Coflow!ReleaseAgain(c)
           \/ \E r \in Receiver : Coflow!Age(r)
           \/ UNCHANGED coflowVars
  <2>1. UNCHANGED <<at, queued, granted, window, ccancel>>
    BY <1>7 DEF Coflow!Resume, Coflow!ReleaseAgain, Coflow!Age, coflowVars
  <2> QED
    BY <2>1, PoolStutter
<1> QED
  BY <1>1, <1>3, <1>4, <1>5, <1>6, <1>7 DEF Coflow!Next, Coflow!Run

-----------------------------------------------------------------------------

LEMMA InvariantOfBoth == MCSpec => [](GateInv /\ CoflowInv)
<1>1. MCInit => GateInv /\ CoflowInv
  BY GateInit, CoflowInit DEF MCInit
<1>2. GateInv /\ CoflowInv /\ [GateStep \/ CoflowStep]_vars => (GateInv /\ CoflowInv)'
  BY StepsOfControllers, GateStepKeeps, CoflowStepKeeps
<1> QED
  BY <1>1, <1>2, PTL DEF MCSpec

\* Types of both controllers: the gate counts its callers, limit and windows stay
\* within their bounds, and the tickets of a queue are in a strict order.
THEOREM TypeCorrect == MCSpec => []TypesOK
<1>1. GateInv /\ CoflowInv => TypesOK
  BY DEF GateInv, CoflowInv, TypesOK
<1> QED
  BY <1>1, InvariantOfBoth, PTL

\* CoflowAdmission: no credit is leaked by a cancellation that comes after the
\* grant, and none is returned twice.
THEOREM CreditsAreOwned == MCSpec => []CreditsOwned
<1>1. CoflowInv => CreditsOwned
  BY DEF CoflowInv, CreditsOwned
<1> QED
  BY <1>1, InvariantOfBoth, PTL

\* PressureGate and CoflowAdmission: no credit is idle while somebody who has not
\* been told waits for it.
THEOREM CreditsAreUsed == MCSpec => []NoIdleCredit
<1>1. GateInv /\ CoflowInv => NoIdleCredit
  BY DEF GateInv, CoflowInv, NoIdleCredit
<1> QED
  BY <1>1, InvariantOfBoth, PTL

\* CoflowAdmission implements the pool of credits, each receiver a place: a grant
\* never exceeds the window it is made in, feedback that narrows a window takes
\* nobody's credit, and no pass leaves a caller asking beside an idle one.
THEOREM CoflowImplementsPool == MCSpec => ImplementsPool
<1>1. MCInit => Coflow!Pool!Init
  <2> SUFFICES ASSUME MCInit
               PROVE  Coflow!Pool!Init
    OBVIOUS
  <2>1. CoflowInv /\ Coflow!Init
    BY CoflowInit DEF MCInit
  <2>2. Coflow!Asking = {} /\ granted = [r \in Receiver |-> {}]
    BY <2>1 DEF Coflow!Init, Coflow!Asking
  <2>3. window \in [Receiver -> Nat]
    BY <2>1, StateOfCoflow
  <2> QED
    BY <2>2, <2>3 DEF Coflow!Pool!Init, Coflow!Usable
<1>2. CoflowInv /\ CoflowInv' /\ [GateStep \/ CoflowStep]_vars
        => [Coflow!Pool!Next]_(Coflow!Pool!pool)
  BY StepsOfControllers, NextIsPoolNext
<1> QED
  BY <1>1, <1>2, InvariantOfBoth, PTL
     DEF MCSpec, ImplementsPool, Coflow!ImplementsPool, Coflow!Pool!Spec
=============================================================================
