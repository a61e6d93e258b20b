------------------------- MODULE MCDecisionsProofs -------------------------
(***************************************************************************)
(* Proofs about the components that decide, for every mesh of links, every *)
(* prompt, every pair of traces and every set of measurements.             *)
(***************************************************************************)
EXTENDS MCDecisions, FiniteSetTheorems, WellFoundedInduction, TLAPS

\* Each component takes its own steps or stays as it is.
LEMMA StepsOfComponents ==
  ASSUME [MCNext]_allVars
  PROVE  [Mesh!Next]_linkVars /\ [Ngram!Next]_ngramVars /\ [Prompt!Next]_refVars
         /\ [Traces!Next]_traceVars /\ [Budgets!Next]_budgetVars
BY DEF MCNext, allVars

-----------------------------------------------------------------------------

\* A set of naturals that has 0 and each successor has them all.
LEMMA AllNaturals ==
  ASSUME NEW T \in SUBSET Nat, 0 \in T, \A n \in T : n + 1 \in T
  PROVE  T = Nat
<1>1. SUFFICES ASSUME Nat \ T # {} PROVE FALSE
  OBVIOUS
<1>2. PICK n \in Nat \ T : \A m \in Nat \ T : <<m, n>> \notin OpToRel(<, Nat)
  <2>1. Nat \ T \subseteq Nat
    OBVIOUS
  <2> HIDE DEF OpToRel
  <2> QED
    BY <1>1, <2>1, NatLessThanWellFounded, WFMin, Zenon
<1>3. \A m \in Nat \ T : ~(m < n)
  BY <1>2 DEF OpToRel
<1>4. n - 1 \in Nat /\ n - 1 \in T
  BY <1>3
<1> QED
  BY <1>4

\* g holds the states of a loop in its first n passes, of which the m-th is F[m].
Walk(F, start, n, g) == g[0] = start /\ \A m \in 1..n : g[m] = F[m][g[m - 1]]

LEMMA WalksExist ==
  ASSUME NEW S, NEW start \in S, NEW F \in [Nat -> [S -> S]], NEW n \in Nat
  PROVE  \E g \in [0..n -> S] : Walk(F, start, n, g)
<1> DEFINE T == {k \in Nat : \E g \in [0..k -> S] : Walk(F, start, k, g)}
<1>1. 0 \in T
  <2>1. [m \in 0..0 |-> start] \in [0..0 -> S] /\ Walk(F, start, 0, [m \in 0..0 |-> start])
    BY DEF Walk
  <2> QED
    BY <2>1
<1>2. ASSUME NEW k \in T PROVE k + 1 \in T
  <2>1. PICK g \in [0..k -> S] : Walk(F, start, k, g)
    OBVIOUS
  <2> DEFINE h == [m \in 0..(k + 1) |-> IF m = k + 1 THEN F[k + 1][g[k]] ELSE g[m]]
  <2>2. k \in Nat /\ k + 1 \in Nat /\ g[k] \in S
    OBVIOUS
  <2>3. F[k + 1][g[k]] \in S
    BY <2>2
  <2>4. h \in [0..(k + 1) -> S]
    BY <2>2, <2>3
  <2>5. h[0] = start
    BY <2>1 DEF Walk
  <2>6. ASSUME NEW m \in 1..(k + 1) PROVE h[m] = F[m][h[m - 1]]
    <3>1. CASE m = k + 1
      BY <3>1
    <3>2. CASE m # k + 1
      BY <2>1, <3>2 DEF Walk
    <3> QED
      BY <3>1, <3>2
  <2>7. Walk(F, start, k + 1, h)
    BY <2>5, <2>6 DEF Walk
  <2> QED
    BY <2>2, <2>4, <2>7
<1>3. T = Nat
  <2> HIDE DEF T
  <2>1. T \in SUBSET Nat
    BY DEF T
  <2> QED
    BY <1>1, <1>2, <2>1, AllNaturals
<1> QED
  BY <1>3

LEMMA WalksAgree ==
  ASSUME NEW F, NEW start, NEW n \in Nat, NEW k \in Nat, k <= n, NEW g, NEW h,
         Walk(F, start, n, g), Walk(F, start, k, h)
  PROVE  g[k] = h[k]
<1> DEFINE T == {m \in Nat : m <= k => g[m] = h[m]}
<1>1. 0 \in T
  BY DEF Walk
<1>2. ASSUME NEW m \in T PROVE m + 1 \in T
  <2> SUFFICES ASSUME m + 1 <= k PROVE g[m + 1] = h[m + 1]
    OBVIOUS
  <2>1. g[m + 1] = F[m + 1][g[m]] /\ h[m + 1] = F[m + 1][h[m]]
    BY DEF Walk
  <2> QED
    BY <2>1
<1>3. T = Nat
  <2> HIDE DEF T
  <2>1. T \in SUBSET Nat
    BY DEF T
  <2> QED
    BY <1>1, <1>2, <2>1, AllNaturals
<1> QED
  BY <1>3

\* Passes that keep a set of states can be iterated for ever.
IsRun(f, S, start, F) ==
  f \in [Nat -> S] /\ f[0] = start /\ \A n \in Nat : f[n + 1] = F[n + 1][f[n]]

LEMMA RunExists ==
  ASSUME NEW S, NEW start \in S, NEW F \in [Nat -> [S -> S]]
  PROVE  \E f : IsRun(f, S, start, F)
<1> DEFINE walk(n) == CHOOSE g \in [0..n -> S] : Walk(F, start, n, g)
           f == [n \in Nat |-> walk(n)[n]]
<1>1. \A n \in Nat : walk(n) \in [0..n -> S] /\ Walk(F, start, n, walk(n))
  BY WalksExist
<1> HIDE DEF walk
<1>2. f \in [Nat -> S]
  <2>1. \A n \in Nat : n \in 0..n
    OBVIOUS
  <2> QED
    BY <1>1, <2>1
<1>3. f[0] = start
  BY <1>1 DEF Walk
<1>4. ASSUME NEW n \in Nat PROVE f[n + 1] = F[n + 1][f[n]]
  <2>1. Walk(F, start, n + 1, walk(n + 1)) /\ Walk(F, start, n, walk(n))
    BY <1>1
  <2>2. walk(n + 1)[n + 1] = F[n + 1][walk(n + 1)[n]]
    BY <2>1 DEF Walk
  <2>3. walk(n + 1)[n] = walk(n)[n]
    BY <2>1, WalksAgree
  <2> QED
    BY <2>2, <2>3
<1> HIDE DEF f
<1>5. IsRun(f, S, start, F)
  BY <1>2, <1>3, <1>4 DEF IsRun
<1> QED
  BY <1>5

-----------------------------------------------------------------------------

\* The users of the mesh that are under way on a link.
UsersOf(l) == {u \in Router : route[u].step = "begun" /\ l \in Mesh!Range(route[u].links)}

\* Every user has a route, whatever links the search has put into it.
Routed == \E Chains : route \in [Router -> [step : {"none", "chosen", "begun"}, links : Chains]]

MeshInv == Mesh!TypeOK /\ Mesh!LoadReturned /\ Routed

LEMMA UsersAreCounted ==
  ASSUME NEW S \in SUBSET Router
  PROVE  IsFiniteSet(S) /\ Cardinality(S) \in Nat
<1>1. IsFiniteSet(S)
  BY FS_Subset, LinksAssumption
<1> QED
  BY <1>1, FS_CardinalityType

LEMMA LoadIsUsers ==
  Mesh!LoadReturned <=> \A l \in DOMAIN Links : inflight[l] = Cardinality(UsersOf(l))
BY DEF Mesh!LoadReturned, Mesh!Link, Mesh!Cardinality, Cardinality, UsersOf

LEMMA MeshInit == Mesh!Init => MeshInv
<1> SUFFICES ASSUME Mesh!Init PROVE MeshInv
  OBVIOUS
<1> USE DEF Mesh!Init, Mesh!Link, Mesh!NoRoute
<1>1. Mesh!TypeOK
  BY LinksAssumption, BoundsAssumption DEF Mesh!TypeOK, Mesh!Samples
<1>2. Routed
  <2>1. route \in [Router -> [step : {"none", "chosen", "begun"}, links : {<<>>}]]
    OBVIOUS
  <2> QED
    BY <2>1 DEF Routed
<1>3. ASSUME NEW l \in DOMAIN Links PROVE inflight[l] = Cardinality(UsersOf(l))
  <2>1. UsersOf(l) = {}
    BY DEF UsersOf
  <2> QED
    BY <2>1, FS_EmptySet
<1> QED
  BY <1>1, <1>2, <1>3, LoadIsUsers DEF MeshInv

\* A link keeps its users over a step that begins and ends none.
LEMMA MeshStepKeeps ==
  ASSUME MeshInv, [Mesh!Next]_linkVars
  PROVE  MeshInv'
<1> USE DEF Mesh!Link
<1>0. Mesh!TypeOK /\ Routed
  BY DEF MeshInv
<1>1. PICK Chains : route \in [Router -> [step : {"none", "chosen", "begun"}, links : Chains]]
  BY <1>0 DEF Routed
<1>2. \A l \in DOMAIN Links : /\ inflight[l] = Cardinality(UsersOf(l))
                              /\ IsFiniteSet(UsersOf(l)) /\ Cardinality(UsersOf(l)) \in Nat
  <2>1. \A l \in DOMAIN Links : UsersOf(l) \in SUBSET Router
    BY DEF UsersOf
  <2> QED
    BY <2>1, LoadIsUsers, UsersAreCounted DEF MeshInv
<1>3. ASSUME \A l \in DOMAIN Links : inflight'[l] = Cardinality(UsersOf(l)'),
             Mesh!TypeOK', Routed'
      PROVE  MeshInv'
  BY <1>3 DEF MeshInv, Mesh!LoadReturned, Mesh!Cardinality, Cardinality, UsersOf
<1>4. ASSUME NEW u \in Router, NEW contracts \in Offers, Mesh!Choose(u, contracts) PROVE MeshInv'
  <2>1. PICK chain : route' = [route EXCEPT ![u] = [step |-> "chosen", links |-> chain]]
    BY <1>4 DEF Mesh!Choose
  <2>2. /\ route[u].step = "none"
        /\ UNCHANGED <<delay, successes, failures, inflight, circuit, finished>>
    BY <1>4 DEF Mesh!Choose
  <2>3. Routed'
    <3>1. route' \in [Router -> [step : {"none", "chosen", "begun"}, links : Chains \cup {chain}]]
      BY <1>1, <2>1
    <3> QED
      BY <3>1 DEF Routed
  <2>4. ASSUME NEW l \in DOMAIN Links PROVE UsersOf(l)' = UsersOf(l)
    BY <1>1, <2>1, <2>2 DEF UsersOf
  <2>5. Mesh!TypeOK'
    BY <1>0, <1>1, <2>1, <2>2 DEF Mesh!TypeOK, Mesh!Samples
  <2> QED
    BY <1>2, <1>3, <2>2, <2>3, <2>4, <2>5
<1>5. ASSUME NEW u \in Router, Mesh!Begin(u) PROVE MeshInv'
  <2>1. /\ route[u].step = "chosen"
        /\ route' = [route EXCEPT ![u].step = "begun"]
        /\ inflight' = [l \in DOMAIN Links |->
                          inflight[l] + (IF l \in Mesh!Range(route[u].links) THEN 1 ELSE 0)]
        /\ UNCHANGED <<delay, successes, failures, circuit, finished>>
    BY <1>5 DEF Mesh!Begin
  <2>2. /\ route' \in [Router -> [step : {"none", "chosen", "begun"}, links : Chains]]
        /\ \A v \in Router : route'[v] = IF v = u THEN [step |-> "begun", links |-> route[u].links]
                                         ELSE route[v]
    BY <1>1, <2>1
  <2>3. ASSUME NEW l \in DOMAIN Links PROVE inflight'[l] = Cardinality(UsersOf(l)')
    <3>1. u \notin UsersOf(l)
      BY <2>1 DEF UsersOf
    <3>2. CASE l \in Mesh!Range(route[u].links)
      <4>1. UsersOf(l)' = UsersOf(l) \cup {u}
        BY <2>2, <3>2 DEF UsersOf
      <4>2. Cardinality(UsersOf(l) \cup {u}) = Cardinality(UsersOf(l)) + 1
        BY <1>2, <3>1, FS_AddElement
      <4> QED
        BY <1>2, <2>1, <3>2, <4>1, <4>2
    <3>3. CASE l \notin Mesh!Range(route[u].links)
      <4>1. UsersOf(l)' = UsersOf(l)
        BY <2>1, <2>2, <3>3 DEF UsersOf
      <4> QED
        BY <1>2, <2>1, <3>3, <4>1
    <3> QED
      BY <3>2, <3>3
  <2>4. Mesh!TypeOK'
    BY <1>0, <2>1, <2>2 DEF Mesh!TypeOK, Mesh!Samples
  <2> QED
    BY <1>3, <2>2, <2>3, <2>4 DEF Routed
<1>6. ASSUME NEW u \in Router, NEW success \in BOOLEAN, NEW failed, Mesh!Finish(u, success, failed)
      PROVE  MeshInv'
  <2> DEFINE measured == IF success \/ failed \notin DOMAIN Links THEN Mesh!Range(route[u].links)
                         ELSE Mesh!Range(route[u].links) \cap {failed}
  <2>1. /\ route[u].step = "begun" /\ finished < MaxFinished
        /\ inflight' = Mesh!Returned(u, measured)
        /\ \E d \in Delay : delay' = [l \in DOMAIN Links |-> IF l \in measured THEN d ELSE delay[l]]
        /\ successes' = [l \in DOMAIN Links |->
                           successes[l] + (IF success /\ l \in measured THEN 1 ELSE 0)]
        /\ failures' = [l \in DOMAIN Links |->
                          failures[l] + (IF ~success /\ l \in measured THEN 1 ELSE 0)]
        /\ circuit' = {l \in DOMAIN Links : l \in circuit \/ (~success /\ l \in measured)}
        /\ route' = [route EXCEPT ![u] = Mesh!NoRoute]
        /\ finished' = finished + 1
    BY <1>6 DEF Mesh!Finish
  <2> HIDE DEF measured
  <2>2. /\ route' \in [Router -> [step : {"none", "chosen", "begun"}, links : Chains \cup {<<>>}]]
        /\ \A v \in Router : route'[v] = IF v = u THEN Mesh!NoRoute ELSE route[v]
    BY <1>1, <2>1 DEF Mesh!NoRoute
  <2>3. ASSUME NEW l \in DOMAIN Links PROVE inflight'[l] = Cardinality(UsersOf(l)')
    <3>1. CASE l \in Mesh!Range(route[u].links)
      <4>1. u \in UsersOf(l)
        BY <2>1, <3>1 DEF UsersOf
      <4>2. UsersOf(l)' = UsersOf(l) \ {u}
        BY <2>2 DEF UsersOf, Mesh!NoRoute
      <4>3. Cardinality(UsersOf(l) \ {u}) = Cardinality(UsersOf(l)) - 1
        BY <1>2, <4>1, FS_RemoveElement
      <4>4. Cardinality(UsersOf(l)) # 0
        BY <1>2, <4>1, FS_EmptySet
      <4>5. inflight'[l] = Mesh!Max({0, inflight[l] - 1})
        BY <2>1, <3>1 DEF Mesh!Returned
      <4>6. inflight[l] - 1 \in Nat
        BY <1>2, <4>4
      <4>7. Mesh!Max({0, inflight[l] - 1}) = inflight[l] - 1
        BY <4>6 DEF Mesh!Max
      <4> QED
        BY <1>2, <4>2, <4>3, <4>5, <4>7
    <3>2. CASE l \notin Mesh!Range(route[u].links)
      <4>1. u \notin UsersOf(l)
        BY <3>2 DEF UsersOf
      <4>2. UsersOf(l)' = UsersOf(l)
        BY <2>2, <4>1 DEF UsersOf, Mesh!NoRoute
      <4>3. inflight'[l] = inflight[l]
        BY <2>1, <3>2 DEF Mesh!Returned
      <4> QED
        BY <1>2, <4>2, <4>3
    <3> QED
      BY <3>1, <3>2
  <2>4. Mesh!TypeOK'
    <3>1. ASSUME NEW l \in DOMAIN Links PROVE inflight'[l] \in Nat
      <4>1. UsersOf(l)' \in SUBSET Router
        BY DEF UsersOf
      <4> QED
        BY <2>3, <4>1, UsersAreCounted
    <3>2. inflight' \in [DOMAIN Links -> Nat]
      BY <2>1, <3>1 DEF Mesh!Returned
    <3>3. delay' \in [DOMAIN Links -> Nat]
      BY <1>0, <2>1, LinksAssumption DEF Mesh!TypeOK
    <3>4. /\ successes' \in [DOMAIN Links -> Nat] /\ failures' \in [DOMAIN Links -> Nat]
          /\ finished' \in 0..MaxFinished
          /\ \A l \in DOMAIN Links : successes'[l] + failures'[l] <= finished'
      BY <1>0, <2>1, BoundsAssumption DEF Mesh!TypeOK, Mesh!Samples
    <3>5. circuit' \subseteq DOMAIN Links
      BY <1>0, <2>1 DEF Mesh!TypeOK
    <3> QED
      BY <2>2, <3>2, <3>3, <3>4, <3>5 DEF Mesh!TypeOK, Mesh!Samples
  <2> QED
    BY <1>3, <2>2, <2>3, <2>4 DEF Routed
<1>7. ASSUME NEW l \in DOMAIN Links, Mesh!CoolDown(l) PROVE MeshInv'
  <2>1. circuit' = circuit \ {l} /\ UNCHANGED <<delay, successes, failures, inflight, route, finished>>
    BY <1>7 DEF Mesh!CoolDown
  <2>2. Mesh!TypeOK'
    BY <1>0, <2>1 DEF Mesh!TypeOK, Mesh!Samples
  <2>3. \A k \in DOMAIN Links : inflight'[k] = Cardinality(UsersOf(k)')
    BY <1>2, <2>1 DEF UsersOf
  <2> QED
    BY <1>0, <1>3, <2>1, <2>2, <2>3 DEF Routed
<1>8. CASE UNCHANGED linkVars
  BY <1>8 DEF MeshInv, Mesh!TypeOK, Mesh!Samples, Mesh!LoadReturned, Routed, linkVars
<1> QED
  BY <1>4, <1>5, <1>6, <1>7, <1>8 DEF Mesh!Next

-----------------------------------------------------------------------------

\* What an answer may call an object, given whether it was asked for handles.
Called(i, encoded) ==
  IF encoded THEN {Handle[i]} \cup {x \in {ids[i]} : cited[x] # "nowhere"} ELSE {ids[i]}

\* The answer names the objects it means.
Named ==
  /\ DOMAIN output = DOMAIN meant
  /\ output = [k \in DOMAIN meant |-> output[k]]
  /\ \A k \in DOMAIN meant : output[k] \in Called(meant[k], bpc = "checking" /\ enabled)

\* What is sent encoded may be sent.
Sent ==
  enabled => \A x \in Prompt!Range(ids) :
               cited[x] # "behind" /\ (boundary = "reference" => cited[x] = "nowhere")

\* What is sent twice: a read that was sent encoded.
Resends == boundary = "reference" /\ readOnly /\ enabled

PromptInv ==
  /\ Prompt!TypeOK /\ Prompt!ReferencesRestored
  /\ bpc \in {"checking", "checking again"} /\ meant # <<>> => Named
  /\ Sent /\ (bpc = "start" => ~enabled)
  /\ boundary = "reference" /\ enabled => readOnly
  /\ bpc \in {"start", "asking"} => calls = 0
  /\ bpc = "checking" => calls = 1
  /\ bpc = "asking again" => calls = 1 /\ Resends
  /\ bpc = "checking again" => Resends

\* The parts of an invariant that only concern what is never written.
LEMMA FlagsKept ==
  ASSUME Prompt!TypeOK, UNCHANGED <<boundary, readOnly, calibrated, ids, cited, enabled>>,
         bpc' \in {"asking", "checking", "asking again", "checking again", "returned", "raised"},
         calls' \in 0..2, meant' \in Prompt!Lists(DOMAIN ids)
  PROVE  Prompt!TypeOK' /\ Resends' = Resends /\ Sent' = Sent
<1>1. /\ readOnly' \in BOOLEAN /\ calibrated' \in BOOLEAN /\ enabled' \in BOOLEAN
      /\ boundary' \in {"reference", "selection"}
      /\ cited' \in [Prompt!Range(ids') -> Prompt!Places]
      /\ ids' \in Prompt!Lists(Id) /\ meant' \in Prompt!Lists(DOMAIN ids')
  BY Zenon DEF Prompt!TypeOK
<1>2. Prompt!TypeOK'
  BY <1>1 DEF Prompt!TypeOK
<1>3. Resends' = Resends
  BY DEF Resends
<1>4. Sent' = Sent
  BY Zenon DEF Sent
<1> QED
  BY <1>2, <1>3, <1>4

\* A list of at most so many elements.
LEMMA Listed ==
  ASSUME NEW S, NEW s \in Prompt!Lists(S)
  PROVE  \E n \in 0..MaxObjects : s \in [1..n -> S] /\ DOMAIN s = 1..n
BY BoundsAssumption DEF Prompt!Lists, Prompt!SeqOf

LEMMA NothingListed ==
  ASSUME NEW S
  PROVE  <<>> \in Prompt!Lists(S)
<1>1. <<>> \in [1..0 -> S] /\ 0 \in 0..MaxObjects
  BY BoundsAssumption
<1> QED
  BY <1>1 DEF Prompt!Lists, Prompt!SeqOf

\* A prompt that no call has been made for.
LEMMA FreshPrompt ==
  ASSUME boundary \in {"reference", "selection"}, readOnly \in BOOLEAN, calibrated \in BOOLEAN,
         ids \in Prompt!Lists(Id), cited \in [Prompt!Range(ids) -> Prompt!Places],
         bpc = "start", enabled = FALSE, meant = <<>>, output = <<>>, calls = 0
  PROVE  PromptInv
<1>1. Prompt!TypeOK
  <2>1. meant \in Prompt!Lists(DOMAIN ids)
    BY NothingListed, Zenon
  <2>2. readOnly \in BOOLEAN /\ calibrated \in BOOLEAN /\ enabled \in BOOLEAN
    BY Zenon
  <2> QED
    BY <2>1, <2>2 DEF Prompt!TypeOK
<1>2. Prompt!ReferencesRestored
  BY DEF Prompt!ReferencesRestored
<1> QED
  BY <1>1, <1>2 DEF PromptInv, Sent

LEMMA PromptInit ==
  ASSUME MCInit
  PROVE  PromptInv
<1>1. CASE used = "prompt"
  <2>1. Prompt!Init
    BY <1>1 DEF MCInit
  <2> QED
    BY <2>1, FreshPrompt DEF Prompt!Init
<1>2. CASE used # "prompt"
  <2>1. /\ boundary = "reference" /\ readOnly = TRUE /\ calibrated = TRUE /\ ids = <<>>
        /\ cited = [x \in Prompt!Range(ids) |-> "nowhere"]
        /\ bpc = "start" /\ enabled = FALSE /\ meant = <<>> /\ output = <<>> /\ calls = 0
    BY <1>2 DEF MCInit
  <2>2. ids \in Prompt!Lists(Id) /\ cited \in [Prompt!Range(ids) -> Prompt!Places]
    BY <2>1, NothingListed DEF Prompt!Places
  <2> QED
    BY <2>1, <2>2, FreshPrompt
<1> QED
  BY <1>1, <1>2

LEMMA EncodeKeeps ==
  ASSUME PromptInv, Prompt!Encode
  PROVE  PromptInv'
<1>1. /\ bpc = "start" /\ bpc' = "asking" /\ calls = 0
      /\ UNCHANGED <<boundary, readOnly, calibrated, ids, cited, meant, output, calls>>
  BY DEF Prompt!Encode, PromptInv
<1>2. /\ enabled' \in BOOLEAN
      /\ enabled' => \A x \in Prompt!Range(ids) :
                        cited[x] # "behind" /\ (boundary = "reference" => cited[x] = "nowhere")
      /\ enabled' /\ boundary = "reference" => readOnly
  BY DEF Prompt!Encode, Prompt!Compiles, Prompt!EncodesSelection, PromptInv, Prompt!TypeOK
<1>3. Prompt!TypeOK'
  BY <1>1, <1>2 DEF PromptInv, Prompt!TypeOK
<1>4. Prompt!ReferencesRestored'
  BY <1>1, <1>2 DEF Prompt!ReferencesRestored
<1>5. Sent'
  BY <1>1, <1>2 DEF Sent
<1> QED
  BY <1>1, <1>2, <1>3, <1>4, <1>5 DEF PromptInv

LEMMA AnswerKeeps ==
  ASSUME PromptInv, Prompt!Answer
  PROVE  PromptInv'
<1>0. Prompt!TypeOK /\ Prompt!ReferencesRestored /\ meant \in Prompt!Lists(DOMAIN ids)
  BY DEF PromptInv, Prompt!TypeOK
<1>1. /\ bpc \in {"asking", "asking again"} /\ calls' = calls + 1
      /\ UNCHANGED <<boundary, readOnly, calibrated, ids, cited, enabled>>
  BY DEF Prompt!Answer
<1>2. \/ bpc = "asking" /\ calls' = 1
      \/ bpc = "asking again" /\ calls' = 2 /\ Resends
  <2>1. /\ bpc = "asking" => calls = 0
        /\ bpc = "asking again" => calls = 1 /\ Resends
    BY Zenon DEF PromptInv
  <2>2. calls' = calls + 1
    BY <1>1, Zenon
  <2>3. (calls = 0 => calls' = 1) /\ (calls = 1 => calls' = 2)
    BY <2>2
  <2> QED
    BY <1>1, <2>1, <2>2, <2>3, Zenon
<1> DEFINE next == IF bpc = "asking" THEN "checking" ELSE "checking again"
<1>3. ASSUME bpc' \in {next, "raised"}, meant' \in Prompt!Lists(DOMAIN ids),
             bpc' = next /\ meant' # <<>> => Named'
      PROVE  PromptInv'
  <2>1. Prompt!TypeOK' /\ Resends' = Resends /\ Sent' = Sent
    <3>1. bpc' \in {"asking", "checking", "asking again", "checking again", "returned", "raised"}
      BY <1>3, Zenon
    <3>2. calls' \in {1, 2}
      BY <1>2, Zenon
    <3>3. calls' \in 0..2
      BY <3>2
    <3> QED
      BY <1>0, <1>1, <1>3, <3>1, <3>3, FlagsKept, Zenon
  <2>2. bpc' # "returned" /\ (calls' = 2 => Resends')
    <3>1. bpc' # "returned"
      BY <1>3
    <3>2. CASE bpc = "asking"
      BY <1>2, <3>1, <3>2
    <3>3. CASE bpc = "asking again"
      BY <1>2, <2>1, <3>1, <3>3
    <3> QED
      BY <1>1, <3>2, <3>3
  <2>3. calls' = 2 => boundary' = "reference" /\ readOnly' /\ enabled'
    BY <2>2, Zenon DEF Resends
  <2>4. Sent'
    BY <2>1, Zenon DEF PromptInv
  <2>5. Prompt!ReferencesRestored'
    BY <2>2, <2>3, Zenon DEF Prompt!ReferencesRestored
  <2>6. boundary' = "reference" /\ enabled' => readOnly'
    BY <1>1, Zenon DEF PromptInv
  <2>7. /\ bpc' \in {"checking", "checking again"} /\ meant' # <<>> => Named'
        /\ bpc' \notin {"start", "asking", "asking again"}
        /\ bpc' = "checking" => calls' = 1
        /\ bpc' = "checking again" => Resends'
    BY <1>2, <1>3, <2>1
  <2> QED
    BY <2>1, <2>4, <2>5, <2>6, <2>7 DEF PromptInv
<1>4. ASSUME NEW objects \in Prompt!Lists(DOMAIN ids),
             NEW S, output' \in [DOMAIN objects -> S],
             \A k \in DOMAIN objects : output'[k] \in Prompt!Names(objects[k]),
             meant' = objects, bpc' = next
      PROVE  PromptInv'
  <2>1. bpc' = "checking" <=> bpc = "asking"
    BY <1>1, <1>4
  <2>2. \A i : Prompt!Names(i) = Called(i, bpc = "checking" /\ enabled)'
    BY <1>1, <2>1, Zenon DEF Prompt!Names, Called
  <2>3. DOMAIN output' = DOMAIN meant' /\ output' = [k \in DOMAIN meant' |-> output'[k]]
    BY <1>4
  <2>4. Named'
    BY <1>4, <2>2, <2>3 DEF Named
  <2> QED
    BY <1>3, <1>4, <2>4
<1>5. ASSUME meant' = <<>>, bpc' = next PROVE PromptInv'
  BY <1>3, <1>5, NothingListed
<1>6. ASSUME bpc' = "raised", UNCHANGED <<output, meant>> PROVE PromptInv'
  BY <1>0, <1>3, <1>6
<1>7. \/ \E objects \in Prompt!Lists(DOMAIN ids) : \E S :
           /\ meant' = objects /\ bpc' = next /\ output' \in [DOMAIN objects -> S]
           /\ \A k \in DOMAIN objects : output'[k] \in Prompt!Names(objects[k])
      \/ meant' = <<>> /\ bpc' = next
      \/ bpc' = "raised" /\ UNCHANGED <<output, meant>>
  BY DEF Prompt!Answer
<1> HIDE DEF next
<1> QED
  BY <1>4, <1>5, <1>6, <1>7

LEMMA CheckKeeps ==
  ASSUME PromptInv, Prompt!Check
  PROVE  PromptInv'
<1>0. Prompt!TypeOK /\ Prompt!ReferencesRestored
      /\ meant \in Prompt!Lists(DOMAIN ids) /\ ids \in Prompt!Lists(Id)
      /\ boundary \in {"reference", "selection"} /\ calls \in 0..2
  BY DEF PromptInv, Prompt!TypeOK
<1> DEFINE restores == bpc = "checking" /\ enabled
           restored == IF restores /\ Prompt!Known(output) THEN Prompt!Restored(output) ELSE output
<1>1. /\ bpc \in {"checking", "checking again"}
      /\ UNCHANGED <<boundary, readOnly, calibrated, ids, cited, enabled, meant, calls>>
      /\ \/ /\ restores => Prompt!Known(output)
            /\ boundary = "reference" => Prompt!Range(restored) \subseteq Prompt!Range(ids)
            /\ bpc' = "returned" /\ output' = restored
         \/ bpc' = IF Prompt!Retries THEN "asking again" ELSE "raised"
  BY DEF Prompt!Check
<1>2. bpc' \in {"returned", "asking again", "raised"}
  BY <1>1
<1>3. Prompt!TypeOK' /\ Resends' = Resends /\ Sent' = Sent
  BY <1>0, <1>1, <1>2, FlagsKept
<1>4. /\ calls' = 2 => boundary' = "reference" /\ readOnly' /\ enabled'
      /\ boundary' = "reference" /\ enabled' => readOnly'
  BY <1>0, <1>1, Zenon DEF Prompt!ReferencesRestored, PromptInv
<1>5. bpc' = "asking again" => calls' = 1 /\ Resends'
  <2> SUFFICES ASSUME bpc' = "asking again" PROVE calls' = 1 /\ Resends'
    OBVIOUS
  <2>1. Prompt!Retries
    BY <1>1
  <2>2. bpc = "checking" /\ Resends
    BY <2>1, Zenon DEF Prompt!Retries, Resends, PromptInv
  <2> QED
    BY <1>1, <1>3, <2>2 DEF PromptInv
<1>6. ASSUME bpc' = "returned"
      PROVE  /\ boundary' = "reference" \/ enabled' => Prompt!Range(output') \subseteq Prompt!Range(ids')
             /\ meant' # <<>> /\ ~Prompt!Confusable' => output' = [i \in DOMAIN meant' |-> ids'[meant'[i]]]
  <2>1. /\ restores => Prompt!Known(output)
        /\ boundary = "reference" => Prompt!Range(restored) \subseteq Prompt!Range(ids)
        /\ output' = restored
    BY <1>1, <1>6
  <2>2. /\ \A i \in DOMAIN meant : meant[i] \in DOMAIN ids
        /\ \A i \in DOMAIN ids : i \in 1..MaxObjects
    <3>1. PICK n \in 0..MaxObjects : ids \in [1..n -> Id] /\ DOMAIN ids = 1..n
      BY <1>0, Listed
    <3>2. PICK m \in 0..MaxObjects : meant \in [1..m -> DOMAIN ids] /\ DOMAIN meant = 1..m
      BY <1>0, Listed
    <3>3. \A i \in 1..n : i \in 1..MaxObjects
      BY BoundsAssumption
    <3> QED
      BY <3>1, <3>2, <3>3
  <2>3. CASE restores
    <3>1. /\ output' = Prompt!Restored(output) /\ Prompt!Known(output)
      BY <2>1, <2>3
    <3>2. ASSUME NEW i \in DOMAIN output
          PROVE  \E j \in DOMAIN ids : Handle[j] = output[i]
      BY <3>1 DEF Prompt!Known, Prompt!Range
    <3> DEFINE place(i) == CHOOSE j \in DOMAIN ids : Handle[j] = output[i]
    <3>3. \A i \in DOMAIN output : place(i) \in DOMAIN ids /\ Handle[place(i)] = output[i]
      BY <3>2
    <3>4. output' = [i \in DOMAIN output |-> ids[place(i)]]
      BY <3>1 DEF Prompt!Restored
    <3> HIDE DEF place
    <3>5. Prompt!Range(output') \subseteq Prompt!Range(ids')
      BY <1>1, <3>3, <3>4 DEF Prompt!Range
    <3>6. ASSUME meant # <<>>, ~Prompt!Confusable
          PROVE  output' = [i \in DOMAIN meant |-> ids[meant[i]]]
      <4>1. /\ DOMAIN output = DOMAIN meant
            /\ \A k \in DOMAIN meant : output[k] \in Called(meant[k], TRUE)
        BY <1>1, <2>3, <3>6 DEF PromptInv, Named
      <4>2. ASSUME NEW k \in DOMAIN meant PROVE place(k) = meant[k]
        <5>1. meant[k] \in DOMAIN ids /\ place(k) \in DOMAIN ids /\ Handle[place(k)] = output[k]
          BY <2>2, <3>3, <4>1
        <5>2. CASE output[k] = Handle[meant[k]]
          BY <2>2, <5>1, <5>2, HandlesAssumption
        <5>3. CASE output[k] = ids[meant[k]] /\ cited[ids[meant[k]]] # "nowhere"
          <6>1. ids[meant[k]] \in Prompt!Range(ids)
            BY <5>1 DEF Prompt!Range
          <6>2. cited[ids[meant[k]]] # "behind" /\ boundary = "selection"
            BY <1>0, <2>3, <5>3, <6>1 DEF PromptInv, Sent
          <6>3. cited[ids[meant[k]]] = "elsewhere"
            BY <1>0, <5>3, <6>1, <6>2 DEF Prompt!TypeOK, Prompt!Places
          <6>4. ids[meant[k]] \in {Handle[j] : j \in DOMAIN ids}
            BY <5>1, <5>3
          <6> QED
            BY <3>6, <6>1, <6>2, <6>3, <6>4 DEF Prompt!Confusable
        <5> QED
          BY <4>1, <5>2, <5>3 DEF Called
      <4> QED
        BY <3>4, <4>1, <4>2
    <3> QED
      BY <1>1, <3>5, <3>6 DEF Prompt!Confusable
  <2>4. CASE ~restores
    <3>1. output' = output
      BY <2>1, <2>4
    <3>2. boundary = "reference" \/ enabled => boundary = "reference"
      <4>1. CASE bpc = "checking"
        BY <2>4, <4>1
      <4>2. CASE bpc = "checking again"
        BY <4>2 DEF PromptInv, Resends
      <4> QED
        BY <1>1, <4>1, <4>2
    <3>3. ASSUME meant # <<>> PROVE output' = [i \in DOMAIN meant |-> ids[meant[i]]]
      <4>1. /\ output = [k \in DOMAIN meant |-> output[k]]
            /\ \A k \in DOMAIN meant : output[k] \in Called(meant[k], FALSE)
        BY <1>1, <2>4, <3>3 DEF PromptInv, Named
      <4>2. \A k \in DOMAIN meant : output[k] = ids[meant[k]]
        BY <4>1 DEF Called
      <4> QED
        BY <3>1, <4>1, <4>2
    <3> QED
      BY <1>1, <2>1, <3>2, <3>3
  <2> QED
    BY <2>3, <2>4
<1>7. Prompt!ReferencesRestored'
  BY <1>4, <1>6, Zenon DEF Prompt!ReferencesRestored
<1>8. Sent'
  BY <1>3 DEF PromptInv
<1> QED
  BY <1>2, <1>3, <1>4, <1>5, <1>7, <1>8 DEF PromptInv

LEMMA PromptStepKeeps ==
  ASSUME PromptInv, [Prompt!Next]_refVars
  PROVE  PromptInv'
<1>1. CASE UNCHANGED refVars
  <2>1. UNCHANGED <<boundary, readOnly, calibrated, ids, cited, bpc, enabled, meant, output, calls>>
    BY <1>1 DEF refVars
  <2> QED
    BY <2>1, Zenon DEF PromptInv, Prompt!TypeOK, Prompt!ReferencesRestored, Prompt!Confusable, Named,
                         Called, Sent, Resends
<1> QED
  BY <1>1, EncodeKeeps, AnswerKeeps, CheckKeeps DEF Prompt!Next

-----------------------------------------------------------------------------

LEMMA TracesInit ==
  ASSUME MCInit
  PROVE  Traces!TypeOK
<1>1. /\ 0 \in 0..MaxFaults
      /\ [r \in Traces!Run |-> [b \in Branch |-> [e \in Traces!Event |-> 1]]]
           \in [Traces!Run -> [Branch -> [Traces!Event -> 0..2]]]
  BY BoundsAssumption
<1>2. CASE used = "traces"
  BY <1>1, <1>2, Zenon DEF MCInit, Traces!Init, Traces!TypeOK
<1>3. CASE used # "traces"
  <2>1. /\ did = [r \in Traces!Run |-> [b \in Branch |->
                    [input |-> CHOOSE i \in Input : TRUE, output |-> CHOOSE o \in Output : TRUE,
                     clean |-> TRUE]]]
        /\ events = [r \in Traces!Run |-> [b \in Branch |-> [e \in Traces!Event |-> 1]]]
        /\ faults = 0
    BY <1>3, Zenon DEF MCInit
  <2>2. (CHOOSE i \in Input : TRUE) \in Input /\ (CHOOSE o \in Output : TRUE) \in Output
    BY DeedsAssumption
  <2>3. did \in [Traces!Run -> [Branch -> Traces!Deed]]
    BY <2>1, <2>2 DEF Traces!Deed
  <2> QED
    BY <1>1, <2>1, <2>3 DEF Traces!TypeOK
<1> QED
  BY <1>2, <1>3

LEMMA TracesStepKeeps ==
  ASSUME Traces!TypeOK, [Traces!Next]_traceVars
  PROVE  Traces!TypeOK'
<1>1. ASSUME NEW r \in Traces!Run, NEW b \in Branch, NEW e \in Traces!Event, NEW n \in {0, 2},
             Traces!Fault(r, b, e, n)
      PROVE  Traces!TypeOK'
  <2>1. /\ faults < MaxFaults /\ faults' = faults + 1 /\ did' = did
        /\ events' = [events EXCEPT ![r][b][e] = n]
    BY <1>1 DEF Traces!Fault
  <2>2. events' \in [Traces!Run -> [Branch -> [Traces!Event -> 0..2]]]
    BY <2>1 DEF Traces!TypeOK
  <2>3. faults' \in 0..MaxFaults
    BY <2>1, BoundsAssumption DEF Traces!TypeOK
  <2> QED
    BY <2>1, <2>2, <2>3 DEF Traces!TypeOK
<1>2. CASE UNCHANGED traceVars
  BY <1>2 DEF traceVars, Traces!TypeOK
<1> QED
  BY <1>1, <1>2 DEF Traces!Next

\* compare_branch_sets() is right about two traces that show every branch.
LEMMA VerdictOfCompleteTraces ==
  ASSUME Traces!TypeOK
  PROVE  Traces!VerdictIsTrue
<1> SUFFICES ASSUME \A r \in Traces!Run : Traces!Seen(r) = Branch
             PROVE  /\ Traces!Verdict = "equal" => Traces!Same
                    /\ Traces!Verdict = "different" => ~Traces!Same
  BY DEF Traces!VerdictIsTrue
<1> DEFINE Deeds(r) == {did[r][b] : b \in Branch}
<1>1. "left" \in Traces!Run /\ "right" \in Traces!Run
  BY DEF Traces!Run
<1>2. \A r \in Traces!Run, b \in Branch :
        did[r][b] = [input |-> did[r][b].input, output |-> did[r][b].output, clean |-> did[r][b].clean]
  BY DEF Traces!TypeOK, Traces!Deed
<1>3. \A r \in Traces!Run :
        /\ Traces!Inputs(r) = {did[r][b].input : b \in Branch}
        /\ Traces!Outputs(r) = {<<did[r][b].input, did[r][b].output>> : b \in Branch}
  BY DEF Traces!Inputs, Traces!Outputs
<1>4. Deeds("left") = Deeds("right") =>
        Traces!Inputs("left") = Traces!Inputs("right") /\ Traces!Outputs("left") = Traces!Outputs("right")
  <2>1. \A r \in Traces!Run : Traces!Inputs(r) = {d.input : d \in Deeds(r)}
    BY <1>3
  <2>2. \A r \in Traces!Run : Traces!Outputs(r) = {<<d.input, d.output>> : d \in Deeds(r)}
    BY <1>3
  <2> HIDE DEF Deeds
  <2> QED
    BY <1>1, <2>1, <2>2
<1> DEFINE flawed == \E r \in Traces!Run :
                       Traces!Seen(r) = {} \/ \E b \in Traces!Seen(r) : ~Traces!Valid(r, b)
           crowded == \E r \in Traces!Run :
                        Traces!Cardinality(Traces!Inputs(r)) < Traces!Cardinality(Traces!Seen(r))
           alike == Traces!Inputs("left") = Traces!Inputs("right")
                    /\ Traces!Outputs("left") = Traces!Outputs("right")
<1>v. Traces!Verdict = IF flawed THEN "unverifiable" ELSE IF crowded THEN "ambiguous"
                       ELSE IF alike THEN "equal" ELSE "different"
  BY Zenon DEF Traces!Verdict
<1> HIDE DEF flawed, crowded, alike
<1>5. ASSUME Traces!Verdict = "equal" PROVE Traces!Same
  <2>1. /\ \A r \in Traces!Run : \A b \in Traces!Seen(r) : Traces!Valid(r, b)
        /\ Traces!Outputs("left") = Traces!Outputs("right")
    <3>1. ~flawed /\ alike
      BY <1>5, <1>v
    <3> QED
      BY <3>1 DEF flawed, alike
  <2>2. \A r \in Traces!Run, b \in Branch : did[r][b].clean = TRUE
    BY <2>1 DEF Traces!Valid, Traces!TypeOK, Traces!Deed
  <2>3. ASSUME NEW r \in Traces!Run, NEW q \in Traces!Run, Traces!Outputs(r) = Traces!Outputs(q),
               NEW b \in Branch
        PROVE  did[r][b] \in Deeds(q)
    <3>1. <<did[r][b].input, did[r][b].output>> \in Traces!Outputs(q)
      BY <1>3, <2>3
    <3>2. PICK d \in Branch : <<did[r][b].input, did[r][b].output>> = <<did[q][d].input, did[q][d].output>>
      BY <1>3, <3>1
    <3>3. did[r][b] = did[q][d]
      <4>1. did[r][b].input = did[q][d].input /\ did[r][b].output = did[q][d].output
        BY <3>2
      <4>c. did[r][b].clean = TRUE /\ did[q][d].clean = TRUE
        BY <2>2
      <4>2. did[r][b] = [input |-> did[r][b].input, output |-> did[r][b].output, clean |-> TRUE]
        BY <1>2, <4>c, Zenon
      <4>3. did[q][d] = [input |-> did[q][d].input, output |-> did[q][d].output, clean |-> TRUE]
        BY <1>2, <4>c, Zenon
      <4> QED
        BY <4>1, <4>2, <4>3, Zenon
    <3> QED
      BY <3>3
  <2>4. Deeds("left") = Deeds("right")
    BY <1>1, <2>1, <2>3
  <2>5. \A deed \in Deeds("left") : deed.clean
    BY <1>1, <2>2
  <2> QED
    BY <2>4, <2>5 DEF Traces!Same
<1>6. ASSUME Traces!Verdict = "different" PROVE ~Traces!Same
  <2>1. ~(Traces!Inputs("left") = Traces!Inputs("right") /\ Traces!Outputs("left") = Traces!Outputs("right"))
    BY <1>6, <1>v DEF alike
  <2> QED
    BY <1>4, <2>1 DEF Traces!Same
<1> QED
  BY <1>5, <1>6

-----------------------------------------------------------------------------

\* A set of natural numbers has a least element.
LEMMA LeastOf ==
  ASSUME NEW S, S \subseteq Nat, S # {}
  PROVE  \E m \in S : \A n \in S : m <= n
<1> DEFINE below == OpToRel(<, Nat)
<1>1. IsWellFoundedOn(below, Nat)
  BY NatLessThanWellFounded
<1>2. \A x, y \in Nat : <<x, y>> \in below <=> x < y
  BY DEF OpToRel
<1> HIDE DEF below
<1>3. PICK m \in S : \A n \in S : ~(<<n, m>> \in below)
  BY <1>1, WFMin, Zenon
<1>4. ASSUME NEW n \in S PROVE m <= n
  <2>1. m \in Nat /\ n \in Nat
    OBVIOUS
  <2>2. ~(<<n, m>> \in below)
    BY <1>3
  <2>3. ~(n < m)
    BY <1>2, <2>1, <2>2, Zenon
  <2> QED
    BY <2>1, <2>3
<1> QED
  BY <1>4

\* Of finitely many candidates one has the highest rank: the one with the fewest
\* above it.
LEMMA HighestOf ==
  ASSUME NEW S, IsFiniteSet(S), S # {}, NEW rank \in [S -> Nat]
  PROVE  \E m \in S : \A k \in S : rank[k] <= rank[m]
<1> DEFINE above(k) == {j \in S : rank[j] > rank[k]}
           sizes == {Cardinality(above(k)) : k \in S}
<1>1. ASSUME NEW k \in S PROVE IsFiniteSet(above(k)) /\ Cardinality(above(k)) \in Nat
  <2>1. above(k) \in SUBSET S
    OBVIOUS
  <2> HIDE DEF above
  <2>2. IsFiniteSet(above(k))
    BY <2>1, FS_Subset
  <2> QED
    BY <2>2, FS_CardinalityType
<1>2. sizes \subseteq Nat /\ sizes # {}
  BY <1>1
<1>3. PICK m \in S : \A k \in S : Cardinality(above(m)) <= Cardinality(above(k))
  <2> HIDE DEF above
  <2>1. PICK s \in sizes : \A n \in sizes : s <= n
    <3> HIDE DEF sizes
    <3> QED
      BY <1>2, LeastOf
  <2> QED
    BY <2>1
<1>4. ASSUME NEW k \in S, ~(rank[k] <= rank[m]) PROVE FALSE
  <2>1. rank[k] \in Nat /\ rank[m] \in Nat
    OBVIOUS
  <2>2. k \in above(m) /\ k \notin above(k)
    BY <1>4, <2>1
  <2>3. above(k) \in SUBSET above(m)
    <3>1. ASSUME NEW j \in S, rank[j] > rank[k] PROVE rank[j] > rank[m]
      BY <1>4, <2>1, <3>1
    <3> QED
      BY <3>1
  <2> HIDE DEF above
  <2>4. /\ Cardinality(above(k)) <= Cardinality(above(m))
        /\ Cardinality(above(m)) = Cardinality(above(k)) => above(m) = above(k)
    BY <1>1, <2>3, FS_Subset
  <2>5. Cardinality(above(m)) = Cardinality(above(k))
    BY <1>1, <1>3, <2>4
  <2> QED
    BY <2>2, <2>4, <2>5
<1> QED
  BY <1>4

\* A budget that calibrate() grants is one that was measured in the context.
LEMMA BestIsMeasured ==
  ASSUME NEW c, NEW gain \in [Budget -> Gain]
  PROVE  LET k == Budgets!Best(c, gain) IN k = 0 \/ (k \in Budget /\ Budgets!Arm(c, k) # {})
<1> DEFINE passing == {k \in Budget : Budgets!Arm(c, k) # {} /\ gain[k] > 0}
           best == {k \in passing : \A j \in passing : gain[j] <= gain[k]}
<1>1. Budgets!Best(c, gain) = IF passing = {} THEN 0 ELSE Budgets!Min(best)
  BY DEF Budgets!Best
<1>2. best \subseteq passing
  OBVIOUS
<1>3. passing \in SUBSET Budget /\ Budget \subseteq Nat
  BY BudgetsAssumption
<1>4. ASSUME passing # {} PROVE best # {}
  <2> DEFINE rank == [k \in passing |-> gain[k]]
  <2>1. rank \in [passing -> Nat]
    BY <1>3, BudgetsAssumption
  <2>2. IsFiniteSet(passing)
    <3> HIDE DEF passing
    <3> QED
      BY <1>3, FS_Subset, BudgetsAssumption
  <2>3. PICK m \in passing : \A k \in passing : rank[k] <= rank[m]
    <3> HIDE DEF passing, rank
    <3> QED
      BY <1>4, <2>1, <2>2, HighestOf
  <2>4. m \in best
    BY <2>3
  <2> QED
    BY <2>4
<1>5. ASSUME passing # {} PROVE Budgets!Min(best) \in passing
  <2> HIDE DEF passing, best
  <2>1. best \subseteq Nat /\ best # {}
    BY <1>2, <1>3, <1>4, <1>5
  <2>2. \E m \in best : \A n \in best : m <= n
    BY <2>1, LeastOf
  <2>3. Budgets!Min(best) \in best
    BY <2>2 DEF Budgets!Min
  <2> QED
    BY <1>2, <2>3
<1> QED
  BY <1>1, <1>5

\* There is a largest arm.
LEMMA MaxOfArms == Budgets!Max(Budgets!Arms) \in Nat
<1> DEFINE arms == {0} \cup Budget
           rank == [k \in arms |-> k]
<1>1. IsFiniteSet(arms) /\ arms \subseteq Nat
  <2>1. arms = Budget \cup {0}
    OBVIOUS
  <2> QED
    BY <2>1, FS_AddElement, BudgetsAssumption
<1>2. rank \in [arms -> Nat] /\ arms # {}
  BY <1>1
<1>3. PICK m \in arms : \A k \in arms : rank[k] <= rank[m]
  <2> HIDE DEF arms, rank
  <2> QED
    BY <1>1, <1>2, HighestOf
<1>4. \E x \in arms : \A y \in arms : x >= y
  BY <1>1, <1>3
<1>5. Budgets!Max(arms) \in arms
  <2> HIDE DEF arms
  <2> QED
    BY <1>4 DEF Budgets!Max
<1> QED
  BY <1>1, <1>5 DEF Budgets!Arms

\* A budget of a context stands for trials in which its arms were measured, and a
\* step drafts within it.
ChoiceMeasured(c) ==
  choices[c] > 0 => choices[c] \in Budget /\ Budgets!Paired(c) /\ Budgets!Arm(c, choices[c]) # {}

StepChosen ==
  step.drafted > 0 =>
    choices # <<>> /\ choices[step.context] \in step.supported /\ step.drafted <= choices[step.context]

BudgetInv ==
  /\ Budgets!TypeOK
  /\ choices # <<>> => \A c \in Context : ChoiceMeasured(c)
  /\ StepChosen

LEMMA BudgetsInit ==
  ASSUME Budgets!Init
  PROVE  BudgetInv
<1>1. rows = {} /\ choices = <<>> /\ step = Budgets!NoStep
  BY DEF Budgets!Init
<1>2. (CHOOSE c \in Context : TRUE) \in Context
  BY BudgetsAssumption
<1>3. step \in [context : Context, supported : SUBSET Budgets!Arms, drafted : 0..Budgets!Max(Budgets!Arms)]
  <2>1. 0 \in 0..Budgets!Max(Budgets!Arms) /\ 0 \in Budgets!Arms
    BY MaxOfArms DEF Budgets!Arms
  <2> QED
    BY <1>1, <1>2, <2>1 DEF Budgets!NoStep
<1>4. step.drafted = 0
  BY <1>1 DEF Budgets!NoStep
<1> QED
  BY <1>1, <1>3, <1>4 DEF BudgetInv, Budgets!TypeOK, StepChosen

LEMMA BudgetsStepKeeps ==
  ASSUME BudgetInv, [Budgets!Next]_budgetVars
  PROVE  BudgetInv'
<1>0. /\ rows \subseteq Measured \X Budgets!Arms \X Trial
      /\ choices # <<>> => choices \in [Context -> Budgets!Arms \cup {Budgets!Unmeasured}]
      /\ step \in [context : Context, supported : SUBSET Budgets!Arms,
                   drafted : 0..Budgets!Max(Budgets!Arms)]
      /\ choices # <<>> => \A c \in Context : ChoiceMeasured(c)
      /\ StepChosen
  BY DEF BudgetInv, Budgets!TypeOK
<1>1. ASSUME NEW c \in Measured, NEW t \in Trial, Budgets!Measure(c, t) PROVE BudgetInv'
  <2>1. /\ choices = <<>> /\ UNCHANGED <<choices, step>>
        /\ \E ks \in SUBSET Budgets!Arms \ {{}} : rows' = rows \cup {<<c, k, t>> : k \in ks}
    BY <1>1 DEF Budgets!Measure
  <2>2. rows' \subseteq Measured \X Budgets!Arms \X Trial
    BY <1>0, <2>1
  <2>3. StepChosen'
    BY <1>0, <2>1 DEF StepChosen
  <2> QED
    BY <1>0, <2>1, <2>2, <2>3 DEF BudgetInv, Budgets!TypeOK
<1>2. CASE Budgets!Calibrate
  <2>1. choices = <<>> /\ UNCHANGED <<rows, step>>
    BY <1>2 DEF Budgets!Calibrate
  <2>2. PICK gain \in [Measured -> [Budget -> Gain]] :
          choices' = [c \in Context |->
            IF c \notin Measured \/ \A k \in Budgets!Arms : Budgets!Arm(c, k) = {}
            THEN Budgets!Unmeasured
            ELSE IF Budgets!Paired(c) THEN Budgets!Best(c, gain[c]) ELSE 0]
    BY <1>2 DEF Budgets!Calibrate
  <2>3. ASSUME NEW c \in Context
        PROVE  /\ choices'[c] \in Budgets!Arms \cup {Budgets!Unmeasured}
               /\ choices'[c] > 0 => /\ choices'[c] \in Budget /\ Budgets!Paired(c)
                                     /\ Budgets!Arm(c, choices'[c]) # {}
    <3>1. CASE choices'[c] \in {Budgets!Unmeasured, 0}
      BY <3>1 DEF Budgets!Arms, Budgets!Unmeasured
    <3>2. CASE choices'[c] \notin {Budgets!Unmeasured, 0}
      <4>1. c \in Measured /\ Budgets!Paired(c) /\ choices'[c] = Budgets!Best(c, gain[c])
        BY <2>2, <3>2
      <4>2. choices'[c] \in Budget /\ Budgets!Arm(c, choices'[c]) # {}
        BY <3>2, <4>1, BestIsMeasured
      <4> QED
        BY <4>1, <4>2 DEF Budgets!Arms
    <3> QED
      BY <3>1, <3>2
  <2>4. choices' \in [Context -> Budgets!Arms \cup {Budgets!Unmeasured}]
    BY <2>2, <2>3
  <2>5. \A c \in Context : ChoiceMeasured(c)'
    BY <2>1, <2>3 DEF ChoiceMeasured, Budgets!Paired, Budgets!Arm
  <2>6. StepChosen'
    BY <1>0, <2>1 DEF StepChosen
  <2> QED
    BY <1>0, <2>1, <2>4, <2>5, <2>6 DEF BudgetInv, Budgets!TypeOK
<1>3. ASSUME NEW c \in Context, NEW supported \in SUBSET Budgets!Arms,
             NEW size \in 0..Budgets!Max(Budgets!Arms), Budgets!Propose(c, supported, size)
      PROVE  BudgetInv'
  <2>1. /\ choices # <<>> /\ size <= Budgets!Select(c, supported)
        /\ step' = [context |-> c, supported |-> supported, drafted |-> size]
        /\ UNCHANGED <<rows, choices>>
    BY <1>3 DEF Budgets!Propose
  <2>2. StepChosen'
    <3>1. ASSUME size > 0 PROVE choices[c] \in supported /\ size <= choices[c]
      BY <2>1, <3>1, MaxOfArms DEF Budgets!Select
    <3> QED
      BY <2>1, <3>1 DEF StepChosen
  <2>3. \A d \in Context : ChoiceMeasured(d)'
    BY <1>0, <2>1 DEF ChoiceMeasured, Budgets!Paired, Budgets!Arm
  <2> QED
    BY <1>0, <2>1, <2>2, <2>3 DEF BudgetInv, Budgets!TypeOK
<1>4. CASE UNCHANGED budgetVars
  BY <1>0, <1>4
     DEF BudgetInv, Budgets!TypeOK, StepChosen, ChoiceMeasured, Budgets!Paired, Budgets!Arm, budgetVars
<1> QED
  BY <1>1, <1>2, <1>3, <1>4 DEF Budgets!Next

LEMMA StepsAreMeasured ==
  ASSUME BudgetInv
  PROVE  Budgets!DraftsAreMeasured
<1> SUFFICES ASSUME step.drafted > 0 PROVE Budgets!DraftsAreMeasured
  BY DEF Budgets!DraftsAreMeasured
<1> DEFINE c == step.context
           k == choices[step.context]
           Trials(j) == Budgets!Arm(c, j)
           measured == {j \in Budgets!Arms : Trials(j) # {}}
<1>1. /\ c \in Context /\ choices # <<>> /\ k \in step.supported /\ step.drafted <= k
      /\ step.supported \subseteq Budgets!Arms
  BY DEF BudgetInv, StepChosen, Budgets!TypeOK
<1>2. k \in Nat /\ k > 0
  <2>1. step.drafted \in Nat
    BY MaxOfArms DEF BudgetInv, Budgets!TypeOK
  <2>2. k \in Nat
    <3>1. k \in Budgets!Arms
      BY <1>1
    <3>2. Budgets!Arms \subseteq Nat
      BY BudgetsAssumption DEF Budgets!Arms
    <3> QED
      BY <3>1, <3>2
  <2> QED
    BY <1>1, <2>1, <2>2
<1>3. Budgets!Paired(c) /\ Budgets!Arm(c, k) # {}
  BY <1>1, <1>2 DEF BudgetInv, ChoiceMeasured
<1>4. Budgets!Cardinality(Trials(0)) >= MinPairs
      /\ \A j \in Budget : Trials(j) \in {{}, Trials(0)}
  BY <1>3 DEF Budgets!Paired
<1>5. \A j \in measured : Trials(j) = Trials(0)
  BY <1>4 DEF Budgets!Arms
<1>6. k \in measured \cap step.supported
  BY <1>1, <1>3
<1> HIDE DEF c, k
<1> QED
  BY <1>1, <1>4, <1>5, <1>6 DEF Budgets!DraftsAreMeasured, c

-----------------------------------------------------------------------------

\* The first b tokens of t are the b tokens up to the e-th.
Fits(t, b, e) == \A j \in 1..b : t[j] = t[e - b + j]

LEMMA FitsWithin ==
  ASSUME NEW t, NEW a \in Nat, NEW b \in Nat, NEW e \in Nat, a <= b, b <= e,
         Fits(t, a, e), Fits(t, b, e)
  PROVE  Fits(t, a, b)
<1> SUFFICES ASSUME NEW j \in 1..a PROVE t[j] = t[b - a + j]
  BY DEF Fits
<1>1. t[j] = t[e - a + j]
  BY DEF Fits
<1>2. b - a + j \in 1..b /\ e - b + (b - a + j) = e - a + j
  OBVIOUS
<1>3. t[b - a + j] = t[e - b + (b - a + j)]
  BY <1>2 DEF Fits
<1> QED
  BY <1>1, <1>2, <1>3

LEMMA FitsOver ==
  ASSUME NEW t, NEW a \in Nat, NEW b \in Nat, NEW e \in Nat, a <= b, b <= e,
         Fits(t, a, b), Fits(t, b, e)
  PROVE  Fits(t, a, e)
<1> SUFFICES ASSUME NEW j \in 1..a PROVE t[j] = t[e - a + j]
  BY DEF Fits
<1>1. t[j] = t[b - a + j]
  BY DEF Fits
<1>2. b - a + j \in 1..b /\ e - b + (b - a + j) = e - a + j
  OBVIOUS
<1>3. t[b - a + j] = t[e - b + (b - a + j)]
  BY <1>2 DEF Fits
<1> QED
  BY <1>1, <1>2, <1>3

LEMMA FitsOneMore ==
  ASSUME NEW t, NEW b \in Nat, NEW e \in Nat, b <= e
  PROVE  Fits(t, b + 1, e + 1) <=> Fits(t, b, e) /\ t[b + 1] = t[e + 1]
<1>1. ASSUME Fits(t, b + 1, e + 1) PROVE Fits(t, b, e) /\ t[b + 1] = t[e + 1]
  <2>1. ASSUME NEW j \in 1..(b + 1) PROVE t[j] = t[e - b + j]
    <3>1. (e + 1) - (b + 1) + j = e - b + j
      OBVIOUS
    <3> QED
      BY <1>1, <3>1 DEF Fits
  <2>2. Fits(t, b, e)
    BY <2>1 DEF Fits
  <2>3. b + 1 \in 1..(b + 1) /\ e - b + (b + 1) = e + 1
    OBVIOUS
  <2>4. t[b + 1] = t[e - b + (b + 1)]
    BY <2>1, <2>3
  <2> QED
    BY <2>2, <2>3, <2>4
<1>2. ASSUME Fits(t, b, e), t[b + 1] = t[e + 1] PROVE Fits(t, b + 1, e + 1)
  <2> SUFFICES ASSUME NEW j \in 1..(b + 1) PROVE t[j] = t[(e + 1) - (b + 1) + j]
    BY DEF Fits
  <2>1. (e + 1) - (b + 1) + j = e - b + j
    OBVIOUS
  <2>2. CASE j = b + 1
    <3>1. e - b + j = e + 1
      BY <2>2
    <3> QED
      BY <1>2, <2>1, <2>2, <3>1
  <2>3. CASE j # b + 1
    <3>1. j \in 1..b
      BY <2>3
    <3> QED
      BY <1>2, <2>1, <3>1 DEF Fits
  <2> QED
    BY <2>2, <2>3
<1> QED
  BY <1>1, <1>2

-----------------------------------------------------------------------------

LoopState == [i : Nat \ {0}, prev : Nat, lps : [0..(MaxN - 1) -> Nat], longest : Nat, position : Nat]

\* prev is a prefix that repeats up to the i-th token, and each longer one is
\* not continued by the next token.
PrefixHeld(t, s) ==
  /\ s.prev < s.i /\ s.prev < MaxN /\ Fits(t, s.prev, s.i)
  /\ s.i < Len(t) => \A b \in (s.prev + 1)..(s.i - 1) : b < MaxN /\ Fits(t, b, s.i) => t[b + 1] # t[s.i + 1]

\* n is the longest prefix that repeats up to the e-th token.
IsBorder(t, n, e) ==
  n \in 0..(e - 1) /\ Fits(t, n, e) /\ \A b \in 0..(e - 1) : Fits(t, b, e) => b <= n

\* The failure table, as far as it has been filled.
TableFilled(t, s) ==
  \A j \in 0..(MaxN - 1) : IF j < s.i THEN IsBorder(t, s.lps[j], j + 1) ELSE s.lps[j] = 0

\* The longest repeat up to the i-th token, and where it ends first.
LongestHeld(t, s) ==
  /\ s.longest <= MaxN
  /\ \A e \in 1..s.i, b \in 0..MaxN : b < e /\ Fits(t, b, e) => b <= s.longest
  /\ s.longest > 0 =>
       /\ s.longest <= s.position /\ s.position < s.i /\ Fits(t, s.longest, s.position + 1)
       /\ \A e \in 1..s.position : s.longest < e => ~Fits(t, s.longest, e)

LoopInv(t, s) == s \in LoopState /\ PrefixHeld(t, s) /\ TableFilled(t, s) /\ LongestHeld(t, s)

LEMMA EntryHolds ==
  ASSUME NEW t
  PROVE  LoopInv(t, Ngram!Entry)
<1> DEFINE s == Ngram!Entry
<1>1. /\ s.i = 1 /\ s.prev = 0 /\ s.longest = 0 /\ s.position = 0
      /\ s.lps = [j \in 0..(MaxN - 1) |-> 0]
  BY DEF Ngram!Entry
<1>2. s \in LoopState
  BY GramsAssumption DEF Ngram!Entry, LoopState
<1> HIDE DEF s
<1>3. \A e \in Nat : Fits(t, 0, e)
  BY DEF Fits
<1>4. PrefixHeld(t, s)
  BY <1>1, <1>3, GramsAssumption DEF PrefixHeld
<1>5. TableFilled(t, s)
  BY <1>1, <1>3, GramsAssumption DEF TableFilled, IsBorder
<1>6. LongestHeld(t, s)
  BY <1>1, <1>3, GramsAssumption DEF LongestHeld
<1> QED
  BY <1>2, <1>4, <1>5, <1>6 DEF LoopInv, s

\* The prefix falls back to the longest one that may be continued instead.
LEMMA FallBack ==
  ASSUME NEW t, Len(t) \in Nat, NEW s, LoopInv(t, s), s.i < Len(t), t[s.prev + 1] # t[s.i + 1], s.prev # 0
  PROVE  LoopInv(t, Ngram!Pass(t, s)) /\ Ngram!Pass(t, s).prev < s.prev /\ Ngram!Pass(t, s).i = s.i
<1> DEFINE p == s.lps[s.prev - 1]
           r == [s EXCEPT !.prev = p]
<1>1. Ngram!Pass(t, s) = r
  BY DEF Ngram!Pass, LoopInv, LoopState
<1>2. /\ s \in LoopState /\ s.i \in Nat /\ s.prev \in Nat /\ s.prev < s.i /\ s.prev < MaxN
      /\ s.prev - 1 \in 0..(MaxN - 1) /\ s.prev - 1 < s.i /\ (s.prev - 1) + 1 = s.prev /\ p \in Nat
  <2>1. /\ s \in LoopState /\ s.i \in Nat /\ s.prev \in Nat /\ s.prev < s.i /\ s.prev < MaxN
        /\ s.lps \in [0..(MaxN - 1) -> Nat]
    BY DEF LoopInv, LoopState, PrefixHeld
  <2>2. s.prev - 1 \in 0..(MaxN - 1) /\ s.prev - 1 < s.i /\ (s.prev - 1) + 1 = s.prev
    BY <2>1, GramsAssumption
  <2> QED
    BY <2>1, <2>2
<1>3. /\ r \in LoopState
      /\ r.i = s.i /\ r.prev = p /\ r.lps = s.lps /\ r.longest = s.longest /\ r.position = s.position
  BY <1>2 DEF LoopState
<1>4. IsBorder(t, p, s.prev)
  <2>1. IsBorder(t, s.lps[s.prev - 1], (s.prev - 1) + 1)
    BY <1>2 DEF LoopInv, TableFilled
  <2> QED
    BY <1>2, <2>1
<1>5. p < s.prev /\ Fits(t, p, s.prev)
  BY <1>2, <1>4 DEF IsBorder
<1> HIDE DEF p, r
<1>6. PrefixHeld(t, r)
  <2>1. Fits(t, p, s.i)
    BY <1>2, <1>5, FitsOver DEF LoopInv, PrefixHeld
  <2>2. ASSUME NEW b \in (p + 1)..(s.i - 1), b < MaxN, Fits(t, b, s.i), t[b + 1] = t[s.i + 1] PROVE FALSE
    <3>1. b \in Nat
      BY <1>2
    <3>2. CASE b > s.prev
      BY <1>2, <2>2, <3>2 DEF LoopInv, PrefixHeld
    <3>3. CASE b = s.prev
      BY <2>2, <3>3
    <3>4. CASE b < s.prev
      <4>1. Fits(t, b, s.prev)
        BY <1>2, <2>2, <3>1, <3>4, FitsWithin DEF LoopInv, PrefixHeld
      <4> QED
        BY <1>2, <1>4, <3>1, <3>4, <4>1 DEF IsBorder
    <3> QED
      BY <1>2, <3>1, <3>2, <3>3, <3>4
  <2>3. \A b \in (p + 1)..(s.i - 1) : b < MaxN /\ Fits(t, b, s.i) => t[b + 1] # t[s.i + 1]
    BY <2>2
  <2>4. p < s.i /\ p < MaxN
    BY <1>2, <1>5, GramsAssumption
  <2> QED
    BY <1>3, <2>1, <2>3, <2>4 DEF PrefixHeld
<1>7. TableFilled(t, r) /\ LongestHeld(t, r)
  BY <1>3 DEF LoopInv, TableFilled, LongestHeld
<1> QED
  BY <1>1, <1>3, <1>5, <1>6, <1>7 DEF LoopInv

\* No prefix is continued by the next token.
LEMMA StartAgain ==
  ASSUME NEW t, Len(t) \in Nat, NEW s, LoopInv(t, s), s.i < Len(t), t[s.prev + 1] # t[s.i + 1], s.prev = 0
  PROVE  LoopInv(t, Ngram!Pass(t, s)) /\ Ngram!Pass(t, s).i = s.i + 1 /\ Ngram!Pass(t, s).prev = 0
<1> DEFINE r == [s EXCEPT !.i = @ + 1]
<1>1. Ngram!Pass(t, s) = r
  BY DEF Ngram!Pass, LoopInv, LoopState
<1>2. s \in LoopState /\ s.i \in Nat \ {0}
  BY DEF LoopInv, LoopState
<1>3. /\ r \in LoopState
      /\ r.i = s.i + 1 /\ r.prev = 0 /\ r.lps = s.lps /\ r.longest = s.longest /\ r.position = s.position
  BY <1>2 DEF LoopState
<1> HIDE DEF r
<1>4. \A e \in Nat : Fits(t, 0, e)
  BY DEF Fits
<1>5. ASSUME NEW b \in 1..s.i, b <= MaxN, Fits(t, b, s.i + 1) PROVE FALSE
  <2>1. PICK c \in Nat : b = c + 1 /\ c <= s.i - 1 /\ c < MaxN
    <3>1. b - 1 \in Nat /\ b = (b - 1) + 1 /\ b - 1 <= s.i - 1 /\ b - 1 < MaxN
      BY <1>2, <1>5, GramsAssumption
    <3> QED
      BY <3>1
  <2>2. Fits(t, c, s.i) /\ t[c + 1] = t[s.i + 1]
    <3>1. Fits(t, c + 1, s.i + 1) /\ s.i \in Nat /\ c <= s.i
      BY <1>2, <1>5, <2>1
    <3> QED
      BY <3>1, FitsOneMore
  <2>3. c # 0
    BY <2>2
  <2>4. c \in (s.prev + 1)..(s.i - 1)
    BY <1>2, <2>1, <2>3
  <2> QED
    BY <2>1, <2>2, <2>4 DEF LoopInv, PrefixHeld
<1>6. PrefixHeld(t, r)
  <2>1. \A b \in 1..s.i : b < MaxN => ~Fits(t, b, s.i + 1)
    BY <1>2, <1>5, GramsAssumption
  <2> QED
    BY <1>2, <1>3, <1>4, <2>1, GramsAssumption DEF PrefixHeld
<1>7. TableFilled(t, r)
  <2> SUFFICES ASSUME NEW j \in 0..(MaxN - 1)
               PROVE  IF j < s.i + 1 THEN IsBorder(t, s.lps[j], j + 1) ELSE s.lps[j] = 0
    BY <1>3 DEF TableFilled
  <2>1. CASE j = s.i
    <3>1. s.lps[j] = 0
      BY <1>2, <2>1 DEF LoopInv, TableFilled
    <3>2. ASSUME NEW b \in 0..((j + 1) - 1), Fits(t, b, j + 1) PROVE b <= 0
      BY <1>2, <1>5, <2>1, <3>2, GramsAssumption
    <3> QED
      BY <1>2, <1>4, <2>1, <3>1, <3>2 DEF IsBorder
  <2>2. CASE j # s.i
    BY <1>2, <2>2 DEF LoopInv, TableFilled
  <2> QED
    BY <2>1, <2>2
<1>8. LongestHeld(t, r)
  <2>1. ASSUME NEW e \in 1..(s.i + 1), NEW b \in 0..MaxN, b < e, Fits(t, b, e) PROVE b <= s.longest
    <3>1. CASE e = s.i + 1
      <4>1. b = 0
        BY <1>2, <1>5, <2>1, <3>1, GramsAssumption
      <4> QED
        BY <1>2, <4>1 DEF LoopState
    <3>2. CASE e # s.i + 1
      BY <1>2, <2>1, <3>2 DEF LoopInv, LongestHeld
    <3> QED
      BY <3>1, <3>2
  <2> QED
    BY <1>2, <1>3, <2>1 DEF LoopInv, LongestHeld, LoopState
<1> QED
  BY <1>1, <1>3, <1>6, <1>7, <1>8 DEF LoopInv

\* The prefix grows by the next token; one of MaxN tokens falls back at once.
LEMMA GoOn ==
  ASSUME NEW t, Len(t) \in Nat, NEW s, LoopInv(t, s), s.i < Len(t), t[s.prev + 1] = t[s.i + 1]
  PROVE  LoopInv(t, Ngram!Pass(t, s)) /\ Ngram!Pass(t, s).i = s.i + 1
         /\ Ngram!Pass(t, s).prev <= s.prev + 1
<1> DEFINE p == s.prev + 1
           table == IF s.i < MaxN THEN [s.lps EXCEPT ![s.i] = p] ELSE s.lps
           r == Ngram!Pass(t, s)
<1>1. /\ r.i = s.i + 1 /\ r.lps = table
      /\ r.prev = IF p = MaxN THEN table[MaxN - 1] ELSE p
      /\ r.longest = IF p > s.longest THEN p ELSE s.longest
      /\ r.position = IF p > s.longest THEN s.i ELSE s.position
      /\ r = [i |-> r.i, lps |-> r.lps, prev |-> r.prev, longest |-> r.longest, position |-> r.position]
  <2>1. ~(s.i >= Len(t))
    BY DEF LoopInv, LoopState
  <2> QED
    BY <2>1 DEF Ngram!Pass
<1>2. /\ s.i \in Nat \ {0} /\ s.prev \in Nat /\ s.prev < s.i /\ s.prev < MaxN
      /\ s.lps \in [0..(MaxN - 1) -> Nat] /\ s.longest \in Nat /\ s.position \in Nat
  BY DEF LoopInv, LoopState, PrefixHeld
<1>3. p \in Nat \ {0} /\ p <= MaxN /\ p <= s.i
  BY <1>2, GramsAssumption
<1>4. Fits(t, p, s.i + 1)
  <2>1. Fits(t, s.prev, s.i) /\ s.i \in Nat /\ s.prev <= s.i
    BY <1>2 DEF LoopInv, PrefixHeld
  <2> QED
    BY <1>2, <2>1, FitsOneMore
<1>5. ASSUME NEW b \in Nat, b <= s.i, b <= MaxN, Fits(t, b, s.i + 1) PROVE b <= p
  <2> SUFFICES ASSUME b > p PROVE FALSE
    BY <1>3
  <2>1. PICK c \in Nat : b = c + 1 /\ c <= s.i - 1 /\ c < MaxN
    <3>1. b - 1 \in Nat /\ b = (b - 1) + 1 /\ b - 1 <= s.i - 1 /\ b - 1 < MaxN
      BY <1>2, <1>3, <1>5, GramsAssumption
    <3> QED
      BY <3>1
  <2>2. Fits(t, c, s.i) /\ t[c + 1] = t[s.i + 1]
    <3>1. Fits(t, c + 1, s.i + 1) /\ s.i \in Nat /\ c <= s.i
      BY <1>2, <1>5, <2>1
    <3> QED
      BY <3>1, FitsOneMore
  <2>3. c \in (s.prev + 1)..(s.i - 1)
    BY <1>2, <2>1
  <2> QED
    BY <2>1, <2>2, <2>3 DEF LoopInv, PrefixHeld
<1>6. table \in [0..(MaxN - 1) -> Nat]
  BY <1>2, <1>3
<1>7. \A j \in 0..(MaxN - 1) : IF j < s.i + 1 THEN IsBorder(t, table[j], j + 1) ELSE table[j] = 0
  <2> SUFFICES ASSUME NEW j \in 0..(MaxN - 1)
               PROVE  IF j < s.i + 1 THEN IsBorder(t, table[j], j + 1) ELSE table[j] = 0
    OBVIOUS
  <2>1. CASE j = s.i
    <3>1. table[j] = p
      BY <1>2, <2>1, GramsAssumption
    <3> HIDE DEF table
    <3>2. ASSUME NEW b \in 0..((j + 1) - 1), Fits(t, b, j + 1) PROVE b <= p
      <4>1. b \in Nat /\ b <= s.i /\ b <= MaxN /\ Fits(t, b, s.i + 1)
        BY <1>2, <2>1, <3>2, GramsAssumption
      <4> QED
        BY <1>5, <4>1
    <3>3. p \in 0..((j + 1) - 1) /\ Fits(t, p, j + 1)
      BY <1>2, <1>3, <1>4, <2>1
    <3> HIDE DEF p
    <3>4. IsBorder(t, table[j], j + 1)
      BY <3>1, <3>2, <3>3 DEF IsBorder
    <3> QED
      BY <1>2, <2>1, <3>4
  <2>2. CASE j # s.i
    <3>1. table[j] = s.lps[j]
      BY <1>2, <2>2
    <3> QED
      BY <1>2, <2>2, <3>1 DEF LoopInv, TableFilled
  <2> QED
    BY <2>1, <2>2
<1>8. TableFilled(t, r)
  BY <1>1, <1>7 DEF TableFilled
<1>9. p = MaxN => IsBorder(t, table[MaxN - 1], MaxN)
  <2>1. MaxN - 1 \in 0..(MaxN - 1) /\ (MaxN - 1) + 1 = MaxN
    BY GramsAssumption
  <2>2. p = MaxN => MaxN - 1 < s.i + 1
    BY <1>2, <1>3, GramsAssumption
  <2> HIDE DEF p, table
  <2> QED
    BY <1>7, <2>1, <2>2
<1> HIDE DEF table, r, p
<1>10. r.prev \in Nat /\ r.prev <= p /\ r.prev < MaxN /\ Fits(t, r.prev, s.i + 1)
  <2>1. CASE p = MaxN
    <3>1. r.prev \in Nat /\ r.prev < MaxN /\ Fits(t, r.prev, MaxN)
      BY <1>1, <1>9, <2>1, GramsAssumption DEF IsBorder
    <3>2. Fits(t, r.prev, s.i + 1)
      BY <1>2, <1>3, <1>4, <2>1, <3>1, FitsOver
    <3> QED
      BY <1>3, <2>1, <3>1, <3>2, GramsAssumption
  <2>2. CASE p # MaxN
    BY <1>1, <1>3, <1>4, <2>2, GramsAssumption
  <2> QED
    BY <2>1, <2>2
<1>11. ASSUME NEW b \in Nat, b <= s.i, b < MaxN, Fits(t, b, s.i + 1) PROVE b <= r.prev
  <2>1. b <= p
    BY <1>5, <1>11, GramsAssumption
  <2>2. CASE p = MaxN
    <3>1. Fits(t, b, MaxN)
      BY <1>2, <1>3, <1>4, <1>11, <2>2, FitsWithin, GramsAssumption
    <3>2. b \in 0..(MaxN - 1)
      BY <1>11, GramsAssumption
    <3> QED
      BY <1>1, <1>9, <2>2, <3>1, <3>2 DEF IsBorder
  <2>3. CASE p # MaxN
    BY <1>1, <2>1, <2>3
  <2> QED
    BY <2>2, <2>3
<1>12. PrefixHeld(t, r)
  <2>1. r.prev < r.i
    BY <1>1, <1>2, <1>3, <1>10
  <2>2. ASSUME NEW b \in (r.prev + 1)..(r.i - 1), b < MaxN, Fits(t, b, r.i) PROVE FALSE
    <3>1. b \in Nat /\ b <= s.i /\ b > r.prev
      BY <1>1, <1>2, <1>10
    <3> QED
      BY <1>1, <1>10, <1>11, <2>2, <3>1
  <2> QED
    BY <1>1, <1>10, <2>1, <2>2 DEF PrefixHeld
<1>13. r.longest \in Nat /\ r.position \in Nat /\ r.longest >= s.longest /\ r.longest >= p /\ r.longest <= MaxN
  BY <1>1, <1>2, <1>3, GramsAssumption DEF LoopInv, LongestHeld
<1>14. \A e \in 1..r.i, b \in 0..MaxN : b < e /\ Fits(t, b, e) => b <= r.longest
  <2> SUFFICES ASSUME NEW e \in 1..(s.i + 1), NEW b \in 0..MaxN, b < e, Fits(t, b, e)
               PROVE  b <= r.longest
    BY <1>1
  <2>1. CASE e = s.i + 1
    <3>1. b \in Nat /\ b <= s.i /\ b <= MaxN
      BY <1>2, <2>1, GramsAssumption
    <3>2. b <= p
      BY <1>5, <2>1, <3>1
    <3> QED
      BY <1>3, <1>13, <3>1, <3>2
  <2>2. CASE e # s.i + 1
    <3>1. e \in 1..s.i
      BY <1>2, <2>2
    <3>2. b <= s.longest
      BY <3>1 DEF LoopInv, LongestHeld
    <3> QED
      BY <1>2, <1>13, <3>2, GramsAssumption
  <2> QED
    BY <2>1, <2>2
<1>15. LongestHeld(t, r)
  <2>1. CASE p > s.longest
    <3>1. r.longest = p /\ r.position = s.i
      BY <1>1, <2>1
    <3>2. ASSUME NEW e \in 1..s.i, p < e, Fits(t, p, e) PROVE FALSE
      BY <1>2, <1>3, <2>1, <3>2, GramsAssumption DEF LoopInv, LongestHeld
    <3> QED
      BY <1>1, <1>2, <1>3, <1>4, <1>13, <1>14, <3>1, <3>2 DEF LongestHeld
  <2>2. CASE ~(p > s.longest)
    <3>1. r.longest = s.longest /\ r.position = s.position
      BY <1>1, <2>2
    <3>2. s.longest > 0 => s.position < r.i
      BY <1>1, <1>2 DEF LoopInv, LongestHeld
    <3>3. s.longest > 0 =>
            /\ s.longest <= s.position /\ Fits(t, s.longest, s.position + 1)
            /\ \A e \in 1..s.position : s.longest < e => ~Fits(t, s.longest, e)
      BY DEF LoopInv, LongestHeld
    <3> QED
      BY <1>13, <1>14, <3>1, <3>2, <3>3 DEF LongestHeld
  <2> QED
    BY <2>1, <2>2
<1>16. r \in LoopState
  BY <1>1, <1>2, <1>6, <1>10, <1>13 DEF LoopState
<1> QED
  BY <1>1, <1>8, <1>10, <1>12, <1>15, <1>16 DEF LoopInv, r, p

\* Each pass takes i on, or prev back.
LEMMA PassHolds ==
  ASSUME NEW t, Len(t) \in Nat, NEW s, LoopInv(t, s), s.i < Len(t)
  PROVE  /\ LoopInv(t, Ngram!Pass(t, s)) /\ Ngram!Pass(t, s).i <= Len(t)
         /\ 2 * Ngram!Pass(t, s).i - Ngram!Pass(t, s).prev > 2 * s.i - s.prev
<1>1. /\ s.i \in Nat /\ s.prev \in Nat
  BY DEF LoopInv, LoopState
<1> DEFINE r == Ngram!Pass(t, s)
<1> SUFFICES /\ LoopInv(t, r) /\ r.i <= Len(t)
             /\ 2 * r.i - r.prev > 2 * s.i - s.prev
  OBVIOUS
<1>2. LoopInv(t, r) => r.i \in Nat /\ r.prev \in Nat
  BY DEF LoopInv, LoopState
<1>3. CASE t[s.prev + 1] = t[s.i + 1]
  <2>1. LoopInv(t, r) /\ r.i = s.i + 1 /\ r.prev <= s.prev + 1
    BY <1>3, GoOn
  <2> HIDE DEF r
  <2> QED
    BY <1>1, <1>2, <2>1
<1>4. CASE t[s.prev + 1] # t[s.i + 1] /\ s.prev # 0
  <2>1. LoopInv(t, r) /\ r.i = s.i /\ r.prev < s.prev
    BY <1>4, FallBack
  <2> HIDE DEF r
  <2> QED
    BY <1>1, <1>2, <2>1
<1>5. CASE t[s.prev + 1] # t[s.i + 1] /\ s.prev = 0
  <2>1. LoopInv(t, r) /\ r.i = s.i + 1 /\ r.prev = 0
    BY <1>5, StartAgain
  <2> HIDE DEF r
  <2> QED
    BY <1>1, <1>2, <1>5, <2>1
<1> QED
  BY <1>3, <1>4, <1>5

\* The recursive function of the model is the loop.
LEMMA ScanIsLoop ==
  ASSUME NEW t, Len(t) \in Nat
  PROVE  /\ Ngram!Scan(t)[0] = Ngram!Entry
         /\ \A n \in Nat : Ngram!Scan(t)[n + 1] = Ngram!Pass(t, Ngram!Scan(t)[n])
<1> DEFINE S == {s \in LoopState : LoopInv(t, s)}
           F == [n \in Nat |-> [s \in S |-> Ngram!Pass(t, s)]]
           Def(f) == [n \in Nat |-> IF n = 0 THEN Ngram!Entry ELSE Ngram!Pass(t, f[n - 1])]
<1>1. Ngram!Entry \in S
  BY EntryHolds DEF LoopInv
<1>2. ASSUME NEW s \in S PROVE Ngram!Pass(t, s) \in S
  <2>1. CASE s.i < Len(t)
    BY <2>1, PassHolds DEF LoopInv
  <2>2. CASE ~(s.i < Len(t))
    <3>1. s.i >= Len(t)
      BY <2>2 DEF LoopState
    <3> QED
      BY <3>1 DEF Ngram!Pass
  <2> QED
    BY <2>1, <2>2
<1>3. F \in [Nat -> [S -> S]]
  BY <1>2
<1>4. PICK f : IsRun(f, S, Ngram!Entry, F)
  <2> HIDE DEF S, F, Def
  <2> QED
    BY <1>1, <1>3, RunExists
<1>5. ASSUME NEW n \in Nat PROVE f[n] = Def(f)[n]
  <2>1. CASE n = 0
    BY <1>4, <2>1 DEF IsRun
  <2>2. CASE n # 0
    <3>1. n - 1 \in Nat /\ (n - 1) + 1 = n
      BY <2>2
    <3>2. f[n] = F[n][f[n - 1]] /\ f[n - 1] \in S
      <4> HIDE DEF S, F
      <4> QED
        BY <1>4, <3>1 DEF IsRun
    <3> QED
      BY <2>2, <3>2
  <2> QED
    BY <2>1, <2>2
<1>6. f = Def(f)
  <2>1. f \in [Nat -> S]
    BY <1>4 DEF IsRun
  <2> HIDE DEF S
  <2> QED
    BY <1>5, <2>1
<1>7. Ngram!Scan(t) = Def(Ngram!Scan(t))
  <2>1. Ngram!Scan(t) = CHOOSE g : g = Def(g)
    BY DEF Ngram!Scan
  <2> HIDE DEF Def
  <2> QED
    BY <1>6, <2>1
<1>8. Ngram!Scan(t)[0] = Ngram!Entry
  BY <1>7
<1>9. ASSUME NEW n \in Nat PROVE Ngram!Scan(t)[n + 1] = Ngram!Pass(t, Ngram!Scan(t)[n])
  <2>1. n + 1 \in Nat /\ n + 1 # 0 /\ (n + 1) - 1 = n
    OBVIOUS
  <2> QED
    BY <1>7, <2>1
<1> QED
  BY <1>8, <1>9

\* The loop ends within two passes per token.
LEMMA ScanEnds ==
  ASSUME NEW t, Len(t) \in Nat \ {0}
  PROVE  LET s == Ngram!Scan(t)[2 * Len(t)] IN LoopInv(t, s) /\ s.i = Len(t)
<1> DEFINE S == Ngram!Scan(t)
           T == {n \in Nat : /\ LoopInv(t, S[n]) /\ S[n].i <= Len(t)
                             /\ S[n].i < Len(t) => 2 * S[n].i - S[n].prev >= n + 2}
<1>1. S[0] = Ngram!Entry /\ \A n \in Nat : S[n + 1] = Ngram!Pass(t, S[n])
  BY ScanIsLoop
<1> HIDE DEF S
<1>2. 0 \in T
  <2>1. S[0].i = 1 /\ S[0].prev = 0
    BY <1>1 DEF Ngram!Entry
  <2> QED
    BY <1>1, <2>1, EntryHolds
<1>3. ASSUME NEW n \in T PROVE n + 1 \in T
  <2>1. /\ LoopInv(t, S[n]) /\ S[n].i \in Nat /\ S[n].prev \in Nat /\ S[n].i <= Len(t) /\ n \in Nat
        /\ S[n].i < Len(t) => 2 * S[n].i - S[n].prev >= n + 2
    BY DEF LoopInv, LoopState
  <2>2. S[n + 1] = Ngram!Pass(t, S[n])
    BY <1>1, <2>1
  <2>3. CASE S[n].i < Len(t)
    <3>1. /\ LoopInv(t, S[n + 1]) /\ S[n + 1].i <= Len(t)
          /\ 2 * S[n + 1].i - S[n + 1].prev > 2 * S[n].i - S[n].prev
      BY <2>1, <2>2, <2>3, PassHolds
    <3>2. S[n + 1].i \in Nat /\ S[n + 1].prev \in Nat
      BY <3>1 DEF LoopInv, LoopState
    <3>3. PICK a \in Nat, b \in Nat, c \in Nat, d \in Nat :
            a = S[n].i /\ b = S[n].prev /\ c = S[n + 1].i /\ d = S[n + 1].prev
      BY <2>1, <3>2
    <3>4. 2 * c - d > 2 * a - b /\ 2 * a - b >= n + 2
      <4>1. 2 * S[n].i - S[n].prev >= n + 2
        BY <2>1, <2>3
      <4> QED
        BY <3>1, <3>3, <4>1, Zenon
    <3>5. n + 1 \in Nat /\ 2 * c - d >= (n + 1) + 2
      BY <2>1, <3>4
    <3>6. 2 * S[n + 1].i - S[n + 1].prev >= (n + 1) + 2
      BY <3>3, <3>5, Zenon
    <3> QED
      BY <3>1, <3>5, <3>6
  <2>4. CASE ~(S[n].i < Len(t))
    <3>1. S[n + 1] = S[n]
      BY <2>1, <2>2, <2>4 DEF Ngram!Pass
    <3> QED
      BY <2>1, <2>4, <3>1
  <2> QED
    BY <2>3, <2>4
<1>4. T = Nat
  <2> HIDE DEF T
  <2>1. T \in SUBSET Nat
    BY DEF T
  <2> QED
    BY <1>2, <1>3, <2>1, AllNaturals
<1>5. 2 * Len(t) \in T
  BY <1>4
<1>6. LoopInv(t, S[2 * Len(t)]) /\ S[2 * Len(t)].i = Len(t)
  <2>1. LoopInv(t, S[2 * Len(t)]) => S[2 * Len(t)].i \in Nat /\ S[2 * Len(t)].prev \in Nat
    BY DEF LoopInv, LoopState
  <2> QED
    BY <1>5, <2>1
<1> QED
  BY <1>6 DEF S

LEMMA LargestIs ==
  ASSUME NEW S, S \subseteq Int, NEW m \in S, \A x \in S : x <= m
  PROVE  Ngram!Max(S) = m
<1>1. \A y \in S : m >= y
  OBVIOUS
<1>2. Ngram!Max(S) \in S /\ \A y \in S : Ngram!Max(S) >= y
  BY <1>1 DEF Ngram!Max
<1>3. Ngram!Max(S) \in Int /\ Ngram!Max(S) >= m /\ Ngram!Max(S) <= m
  BY <1>2
<1> QED
  BY <1>3

LEMMA SmallerOfTwo ==
  ASSUME NEW a \in Int, NEW b \in Int
  PROVE  Ngram!Min({a, b}) = IF a <= b THEN a ELSE b
<1>1. CASE a <= b
  <2>1. \A y \in {a, b} : a <= y
    BY <1>1
  <2>2. Ngram!Min({a, b}) \in {a, b} /\ \A y \in {a, b} : Ngram!Min({a, b}) <= y
    BY <2>1 DEF Ngram!Min
  <2> QED
    BY <1>1, <2>2
<1>2. CASE ~(a <= b)
  <2>1. \A y \in {a, b} : b <= y
    BY <1>2
  <2>2. Ngram!Min({a, b}) \in {a, b} /\ \A y \in {a, b} : Ngram!Min({a, b}) <= y
    BY <2>1 DEF Ngram!Min
  <2> QED
    BY <1>2, <2>2
<1> QED
  BY <1>1, <1>2

LEMMA LargerOfTwo ==
  ASSUME NEW a \in Int, NEW b \in Int
  PROVE  Ngram!Max({a, b}) = IF a <= b THEN b ELSE a
<1>1. CASE a <= b
  BY <1>1, LargestIs
<1>2. CASE ~(a <= b)
  BY <1>2, LargestIs
<1> QED
  BY <1>1, <1>2

\* The reversed request begins with its last tokens: a gram that is repeated at
\* place p fits where p is from the end.
LEMMA PlaceIsFit ==
  ASSUME NEW r \in Seq(Token), NEW n \in 1..(Len(r) - 1)
  PROVE  /\ Ngram!Places(Ngram!LastGram(r, n), SubSeq(r, 1, Len(r) - 1)) \subseteq 1..(Len(r) - n)
         /\ \A p \in 1..(Len(r) - n) :
              p \in Ngram!Places(Ngram!LastGram(r, n), SubSeq(r, 1, Len(r) - 1))
                <=> Fits(Ngram!Reverse(r), n, Len(r) - p + 1)
<1> DEFINE t == Ngram!Reverse(r)
           L == Len(r)
           gram == Ngram!LastGram(r, n)
           front == SubSeq(r, 1, L - 1)
<1>1. L \in Nat /\ n \in Nat /\ 0 < n /\ n < L
  OBVIOUS
<1>2. /\ \A j \in 1..L : t[j] = r[L - j + 1]
  BY <1>1 DEF Ngram!Reverse
<1>3. gram \in Seq(Token) /\ Len(gram) = n /\ \A j \in 1..n : gram[j] = r[L - n + j]
  BY <1>1 DEF Ngram!LastGram
<1>4. front \in Seq(Token) /\ Len(front) = L - 1 /\ \A j \in 1..(L - 1) : front[j] = r[j]
  BY <1>1
<1>5. Ngram!Places(gram, front) = {p \in 1..(L - n) : SubSeq(front, p, p + n - 1) = gram}
  <2>1. (L - 1) - n + 1 = L - n
    BY <1>1
  <2> HIDE DEF gram, front
  <2> QED
    BY <1>3, <1>4, <2>1 DEF Ngram!Places
<1> HIDE DEF gram, front, t
<1>6. ASSUME NEW p \in 1..(L - n)
      PROVE  SubSeq(front, p, p + n - 1) = gram <=> Fits(t, n, L - p + 1)
  <2> DEFINE sub == SubSeq(front, p, p + n - 1)
  <2>1. /\ sub \in Seq(Token) /\ Len(sub) = n
        /\ \A j \in 1..n : sub[j] = front[p + j - 1] /\ p + j - 1 \in 1..(L - 1)
    BY <1>1, <1>4
  <2> HIDE DEF sub
  <2>2. \A j \in 1..n : sub[j] = r[p + j - 1]
    BY <1>4, <2>1
  <2>3. sub = gram <=> \A j \in 1..n : r[p + j - 1] = r[L - n + j]
    <3>1. sub = gram <=> \A j \in 1..n : sub[j] = gram[j]
      BY <1>3, <2>1
    <3> QED
      BY <1>3, <2>2, <3>1
  <2>4. ASSUME NEW j \in 1..n PROVE t[j] = r[L - j + 1] /\ t[(L - p + 1) - n + j] = r[p + n - j]
    <3>1. j \in 1..L /\ (L - p + 1) - n + j \in 1..L /\ L - ((L - p + 1) - n + j) + 1 = p + n - j
      BY <1>1
    <3> QED
      BY <1>2, <3>1
  <2>5. Fits(t, n, L - p + 1) <=> \A j \in 1..n : r[L - j + 1] = r[p + n - j]
    BY <2>4 DEF Fits
  <2>6. (\A j \in 1..n : r[p + j - 1] = r[L - n + j]) <=> (\A j \in 1..n : r[L - j + 1] = r[p + n - j])
    <3>1. ASSUME NEW j \in 1..n
          PROVE  /\ n - j + 1 \in 1..n /\ p + (n - j + 1) - 1 = p + n - j /\ L - n + (n - j + 1) = L - j + 1
                 /\ L - (n - j + 1) + 1 = L - n + j /\ p + n - (n - j + 1) = p + j - 1
      BY <1>1
    <3>2. ASSUME \A j \in 1..n : r[p + j - 1] = r[L - n + j], NEW j \in 1..n
          PROVE  r[L - j + 1] = r[p + n - j]
      <4>1. r[p + (n - j + 1) - 1] = r[L - n + (n - j + 1)]
        BY <3>1, <3>2
      <4> QED
        BY <3>1, <4>1
    <3>3. ASSUME \A j \in 1..n : r[L - j + 1] = r[p + n - j], NEW j \in 1..n
          PROVE  r[p + j - 1] = r[L - n + j]
      <4>1. r[L - (n - j + 1) + 1] = r[p + n - (n - j + 1)]
        BY <3>1, <3>3
      <4> QED
        BY <3>1, <4>1
    <3> QED
      BY <3>2, <3>3
  <2> QED
    BY <2>3, <2>5, <2>6 DEF sub
<1> QED
  BY <1>5, <1>6 DEF t, gram, front

\* What the scan of a request has found: numbers, the longest repeat and where it
\* ends first in the reversed request.
LEMMA ScanFinds ==
  ASSUME NEW r \in Seq(Token)
  PROVE  LET s == Ngram!ScanOf(r)
             t == Ngram!Reverse(r) IN
           /\ s.longest \in Nat /\ s.position \in Nat /\ s.longest <= MaxN
           /\ \A e \in 1..Len(r), b \in 0..MaxN : b < e /\ Fits(t, b, e) => b <= s.longest
           /\ s.longest > 0 =>
                /\ s.longest <= s.position /\ s.position < Len(r) /\ Fits(t, s.longest, s.position + 1)
                /\ \A e \in 1..s.position : s.longest < e => ~Fits(t, s.longest, e)
<1> DEFINE s == Ngram!ScanOf(r)
           t == Ngram!Reverse(r)
<1>1. Len(t) = Len(r) /\ Len(r) \in Nat
  BY DEF Ngram!Reverse
<1>2. s = Ngram!Scan(t)[2 * Len(r)]
  BY DEF Ngram!ScanOf
<1> HIDE DEF s, t
<1>3. CASE Len(r) = 0
  <2>1. s = Ngram!Entry
    BY <1>2, <1>3, ScanIsLoop
  <2>2. s.longest = 0 /\ s.position = 0
    BY <2>1 DEF Ngram!Entry
  <2> QED
    BY <1>3, <2>2, GramsAssumption DEF s, t
<1>4. CASE Len(r) # 0
  <2>1. LoopInv(t, s) /\ s.i = Len(r)
    BY <1>1, <1>2, <1>4, ScanEnds
  <2> QED
    BY <2>1 DEF LoopInv, LoopState, LongestHeld, s, t
<1> QED
  BY <1>3, <1>4

\* The grams that end the request and occur before, in terms of the scan.
LEMMA RepeatsAreFits ==
  ASSUME row \in Seq(Token), NEW n \in Nat
  PROVE  n \in Ngram!Repeats <=>
           /\ MinN <= n /\ n <= MaxN /\ n < Len(row)
           /\ \E e \in 1..Len(row) : n < e /\ Fits(Ngram!Reverse(row), n, e)
<1> DEFINE places == Ngram!Places(Ngram!LastGram(row, n), SubSeq(row, 1, Len(row) - 1))
           fits(e) == Fits(Ngram!Reverse(row), n, e)
<1>1. Len(row) \in Nat
  OBVIOUS
<1>2. n \in Ngram!Repeats <=> n \in MinN..(IF MaxN <= Len(row) - 1 THEN MaxN ELSE Len(row) - 1) /\ places # {}
  <2>1. Ngram!Min({MaxN, Len(row) - 1}) = IF MaxN <= Len(row) - 1 THEN MaxN ELSE Len(row) - 1
    BY <1>1, SmallerOfTwo, GramsAssumption
  <2> QED
    BY <2>1 DEF Ngram!Repeats
<1>3. n \in MinN..(IF MaxN <= Len(row) - 1 THEN MaxN ELSE Len(row) - 1)
        <=> MinN <= n /\ n <= MaxN /\ n < Len(row)
  BY <1>1, GramsAssumption
<1>4. ASSUME MinN <= n, n < Len(row)
      PROVE  places # {} <=> \E e \in 1..Len(row) : n < e /\ fits(e)
  <2>1. n \in 1..(Len(row) - 1)
    BY <1>1, <1>4, GramsAssumption
  <2>2. places \subseteq 1..(Len(row) - n) /\ \A p \in 1..(Len(row) - n) : p \in places <=> fits(Len(row) - p + 1)
    BY <2>1, PlaceIsFit
  <2> HIDE DEF places, fits
  <2>3. ASSUME NEW p \in places PROVE \E e \in 1..Len(row) : n < e /\ fits(e)
    <3>1. Len(row) - p + 1 \in 1..Len(row) /\ n < Len(row) - p + 1 /\ p \in 1..(Len(row) - n)
      BY <1>1, <2>1, <2>2
    <3> QED
      BY <2>2, <3>1
  <2>4. ASSUME NEW e \in 1..Len(row), n < e, fits(e) PROVE places # {}
    <3>1. PICK p \in 1..(Len(row) - n) : e = Len(row) - p + 1
      <4>1. Len(row) - e + 1 \in 1..(Len(row) - n) /\ e = Len(row) - (Len(row) - e + 1) + 1
        BY <1>1, <2>1, <2>4
      <4> QED
        BY <4>1
    <3> QED
      BY <2>2, <2>4, <3>1
  <2> QED
    BY <2>3, <2>4
<1> HIDE DEF places
<1> QED
  BY <1>2, <1>3, <1>4

\* The scan finds the longest repeat and its latest place, if it has MinN tokens.
LEMMA ScanFindsLongest ==
  ASSUME row \in Seq(Token)
  PROVE  LET s == Ngram!ScanOf(row) IN
           IF s.longest < MinN THEN Ngram!Repeats = {}
           ELSE /\ Ngram!Repeats # {} /\ Ngram!Max(Ngram!Repeats) = s.longest
                /\ s.longest <= s.position /\ s.position < Len(row)
                /\ Ngram!Max(Ngram!Places(Ngram!LastGram(row, s.longest), SubSeq(row, 1, Len(row) - 1)))
                     = Len(row) - s.position
<1> DEFINE s == Ngram!ScanOf(row)
           t == Ngram!Reverse(row)
           L == Len(row)
<1>1. /\ s.longest \in Nat /\ s.position \in Nat /\ s.longest <= MaxN
      /\ \A e \in 1..L, b \in 0..MaxN : b < e /\ Fits(t, b, e) => b <= s.longest
      /\ s.longest > 0 =>
           /\ s.longest <= s.position /\ s.position < L /\ Fits(t, s.longest, s.position + 1)
           /\ \A e \in 1..s.position : s.longest < e => ~Fits(t, s.longest, e)
  BY ScanFinds
<1>2. L \in Nat
  OBVIOUS
<1>3. \A n \in Nat : n \in Ngram!Repeats <=> /\ MinN <= n /\ n <= MaxN /\ n < L
                                             /\ \E e \in 1..L : n < e /\ Fits(t, n, e)
  BY RepeatsAreFits
<1>4. Ngram!Repeats \subseteq Nat
  <2>1. Ngram!Min({MaxN, L - 1}) \in Int
    BY <1>2, SmallerOfTwo, GramsAssumption
  <2> QED
    BY <2>1, GramsAssumption DEF Ngram!Repeats
<1> HIDE DEF s, t, L
<1>5. ASSUME NEW n \in Ngram!Repeats PROVE n <= s.longest /\ MinN <= n
  <2>1. n \in Nat /\ MinN <= n /\ n <= MaxN /\ n \in 0..MaxN
    BY <1>3, <1>4, GramsAssumption
  <2>2. PICK e \in 1..L : n < e /\ Fits(t, n, e)
    BY <1>3, <2>1
  <2> QED
    BY <1>1, <2>1, <2>2
<1>6. CASE s.longest < MinN
  <2>1. Ngram!Repeats = {}
    BY <1>1, <1>4, <1>5, <1>6, GramsAssumption
  <2> QED
    BY <1>6, <2>1 DEF s
<1>7. CASE ~(s.longest < MinN)
  <2>1. s.longest > 0 /\ MinN <= s.longest
    BY <1>1, <1>7, GramsAssumption
  <2>2. /\ s.longest <= s.position /\ s.position < L /\ Fits(t, s.longest, s.position + 1)
        /\ \A e \in 1..s.position : s.longest < e => ~Fits(t, s.longest, e)
    BY <1>1, <2>1
  <2>3. s.position + 1 \in 1..L /\ s.longest < s.position + 1 /\ s.longest < L
    BY <1>1, <1>2, <2>2
  <2>4. s.longest \in Ngram!Repeats
    BY <1>1, <1>3, <2>1, <2>2, <2>3
  <2>5. Ngram!Max(Ngram!Repeats) = s.longest
    <3>1. Ngram!Repeats \subseteq Int /\ \A n \in Ngram!Repeats : n <= s.longest
      BY <1>4, <1>5
    <3> QED
      BY <2>4, <3>1, LargestIs
  <2> DEFINE places == Ngram!Places(Ngram!LastGram(row, s.longest), SubSeq(row, 1, L - 1))
  <2>6. /\ places \subseteq 1..(L - s.longest)
        /\ \A p \in 1..(L - s.longest) : p \in places <=> Fits(t, s.longest, L - p + 1)
    <3>1. s.longest \in 1..(L - 1)
      BY <1>1, <1>2, <2>1, <2>3
    <3> QED
      BY <3>1, PlaceIsFit DEF t, L
  <2> HIDE DEF places
  <2>7. L - s.position \in 1..(L - s.longest) /\ L - (L - s.position) + 1 = s.position + 1
    BY <1>1, <1>2, <2>2
  <2>8. L - s.position \in places
    BY <2>2, <2>6, <2>7
  <2>9. ASSUME NEW p \in places PROVE p <= L - s.position
    <3> SUFFICES ASSUME p > L - s.position PROVE FALSE
      BY <1>1, <1>2, <2>6
    <3>1. L - p + 1 \in 1..s.position /\ s.longest < L - p + 1 /\ p \in 1..(L - s.longest)
      BY <1>1, <1>2, <2>6
    <3> QED
      BY <2>2, <2>6, <3>1
  <2>10. Ngram!Max(places) = L - s.position
    <3>1. places \subseteq Int
      BY <1>1, <1>2, <2>6
    <3> QED
      BY <2>8, <2>9, <3>1, LargestIs
  <2> QED
    BY <1>7, <2>2, <2>4, <2>5, <2>10 DEF s, L, places
<1> QED
  BY <1>6, <1>7

\* A part of a sequence, which may be empty.
LEMMA PartOf ==
  ASSUME NEW S, NEW r \in Seq(S), NEW a \in Nat \ {0}, NEW b \in Int, b <= Len(r)
  PROVE  SubSeq(r, a, b) \in Seq(S) /\ Len(SubSeq(r, a, b)) = IF a <= b THEN b - a + 1 ELSE 0
<1>1. CASE a <= b
  BY <1>1
<1>2. CASE ~(a <= b)
  <2>1. SubSeq(r, a, b) = << >>
    BY <1>2
  <2> QED
    BY <1>2, <2>1
<1> QED
  BY <1>1, <1>2

\* The draft of the prompt: what follows the latest place of the longest repeat,
\* as far as it fits.
LEMMA LatestIsContinuation ==
  ASSUME Ngram!TypeOK
  PROVE  /\ Ngram!LongestCtxMatch(row) = IF Ngram!Repeats = {} THEN 0 ELSE Ngram!Max(Ngram!Repeats)
         /\ Ngram!Latest(row) = IF Ngram!Repeats = {} \/ Len(row) = MaxModelLen THEN <<>>
                                ELSE Ngram!Continuation
         /\ Ngram!Latest(row) \in Seq(Token) /\ Len(Ngram!Latest(row)) <= K
         /\ Len(row) + Len(Ngram!Latest(row)) <= MaxModelLen
         /\ Ngram!Repeats # {} /\ K > 0 /\ Len(row) < MaxModelLen => Ngram!Latest(row) # <<>>
         /\ Ngram!Repeats # {} => Ngram!Max(Ngram!Repeats) \in Nat
<1> DEFINE s == Ngram!ScanOf(row)
           L == Len(row)
           k == IF K <= MaxModelLen - L THEN K ELSE MaxModelLen - L
           start == L - 1 - s.position + s.longest
           end == IF start + k <= L THEN start + k ELSE L
<1>1. row \in Seq(Token) /\ L \in Nat /\ L <= MaxModelLen /\ MaxModelLen \in Nat /\ K \in Nat
  BY BoundsAssumption, GramsAssumption DEF Ngram!TypeOK
<1>2. /\ s.longest \in Nat /\ s.position \in Nat
  BY <1>1, ScanFinds
<1>3. IF s.longest < MinN THEN Ngram!Repeats = {}
      ELSE /\ Ngram!Repeats # {} /\ Ngram!Max(Ngram!Repeats) = s.longest
           /\ s.longest <= s.position /\ s.position < L
           /\ Ngram!Max(Ngram!Places(Ngram!LastGram(row, s.longest), SubSeq(row, 1, L - 1)))
                = L - s.position
  BY <1>1, ScanFindsLongest
<1>4. Ngram!Min({K, MaxModelLen - L}) = k /\ k \in Nat /\ k <= K /\ L + k <= MaxModelLen
  BY <1>1, SmallerOfTwo
<1>5. Ngram!LongestCtxMatch(row) = IF L < MinN \/ s.longest < MinN THEN 0 ELSE s.longest
  BY DEF Ngram!LongestCtxMatch
<1>6. Ngram!Latest(row) = IF L < MinN \/ k <= 0 \/ s.longest < MinN THEN <<>>
                          ELSE SubSeq(row, start + 1, Ngram!Min({start + k, L}))
  BY <1>4 DEF Ngram!Latest
<1> HIDE DEF s, k
<1>7. CASE s.longest < MinN
  <2>1. Ngram!Repeats = {} /\ Ngram!LongestCtxMatch(row) = 0 /\ Ngram!Latest(row) = <<>>
    BY <1>3, <1>5, <1>6, <1>7
  <2> QED
    BY <1>1, <2>1
<1>8. CASE ~(s.longest < MinN)
  <2>1. /\ Ngram!Repeats # {} /\ Ngram!Max(Ngram!Repeats) = s.longest
        /\ s.longest <= s.position /\ s.position < L /\ MinN <= s.longest /\ MinN <= L
    BY <1>1, <1>2, <1>3, <1>8, GramsAssumption
  <2>2. Ngram!Max(Ngram!Places(Ngram!LastGram(row, s.longest), SubSeq(row, 1, L - 1))) = L - s.position
    BY <1>3, <1>8
  <2>3. Ngram!LongestCtxMatch(row) = s.longest
    BY <1>1, <1>2, <1>5, <2>1, GramsAssumption
  <2>4. start + 1 \in Nat \ {0} /\ start \in Nat /\ start + 1 <= L /\ L - s.position + s.longest = start + 1
    BY <1>1, <1>2, <2>1
  <2> HIDE DEF start
  <2>5. Ngram!Min({start + k, L}) = end /\ end \in Nat /\ end <= L
    BY <1>1, <1>4, <2>4, SmallerOfTwo
  <2>6. Ngram!Latest(row) = IF k <= 0 THEN <<>> ELSE SubSeq(row, start + 1, end)
    BY <1>1, <1>2, <1>6, <2>1, <2>5, GramsAssumption
  <2>7. Ngram!Continuation = SubSeq(row, start + 1, end)
    <3>1. start + 1 + k - 1 = start + k
      BY <1>4, <2>4
    <3> HIDE DEF end
    <3>2. Ngram!Continuation =
            SubSeq(row, (L - s.position) + s.longest, Ngram!Min({((L - s.position) + s.longest) + k - 1, L}))
      BY <1>4, <2>1, <2>2 DEF Ngram!Continuation
    <3> QED
      BY <2>4, <2>5, <3>1, <3>2
  <2>8. /\ SubSeq(row, start + 1, end) \in Seq(Token)
        /\ Len(SubSeq(row, start + 1, end)) = IF start + 1 <= end THEN end - (start + 1) + 1 ELSE 0
    BY <1>1, <2>4, <2>5, PartOf
  <2>9. k <= 0 => k = 0 /\ end = start
    BY <1>4, <2>4
  <2>10. Len(SubSeq(row, start + 1, end)) <= k /\ (k > 0 => Len(SubSeq(row, start + 1, end)) > 0)
    BY <1>1, <1>4, <2>4, <2>8
  <2>11. k <= 0 => SubSeq(row, start + 1, end) = <<>>
    BY <2>4, <2>8, <2>9
  <2>12. Ngram!Latest(row) = SubSeq(row, start + 1, end)
    BY <2>6, <2>11
  <2>13. L = MaxModelLen => k <= 0
    BY <1>1 DEF k
  <2>14. K > 0 /\ L < MaxModelLen => k > 0
    BY <1>1 DEF k
  <2> HIDE DEF end
  <2>15. Ngram!Latest(row) \in Seq(Token) /\ Len(Ngram!Latest(row)) \in Nat /\ Len(Ngram!Latest(row)) <= k
    BY <2>8, <2>10, <2>12
  <2>16. Len(Ngram!Latest(row)) <= K /\ L + Len(Ngram!Latest(row)) <= MaxModelLen
    BY <1>1, <1>4, <2>15
  <2>17. ASSUME K > 0, L < MaxModelLen PROVE Ngram!Latest(row) # <<>>
    <3>1. Len(Ngram!Latest(row)) > 0
      BY <2>10, <2>12, <2>14, <2>17
    <3> QED
      BY <3>1
  <2>18. Ngram!Latest(row) = IF Ngram!Repeats = {} \/ L = MaxModelLen THEN <<>> ELSE Ngram!Continuation
    <3>1. L = MaxModelLen => Ngram!Latest(row) = <<>>
      BY <2>11, <2>12, <2>13
    <3> HIDE DEF L
    <3> QED
      BY <2>1, <2>7, <2>12, <3>1
  <2> QED
    BY <1>2, <2>1, <2>3, <2>15, <2>16, <2>17, <2>18
<1> QED
  BY <1>7, <1>8

\* A least element is chosen.
LEMMA SmallestIsIn ==
  ASSUME NEW S, S \subseteq Nat, S # {}
  PROVE  Ngram!Min(S) \in S
<1>1. PICK m \in S : \A n \in S : m <= n
  BY LeastOf
<1> QED
  BY <1>1 DEF Ngram!Min

\* What the datastore drafts for a gram that it has: at most k tokens.
LEMMA FollowsFits ==
  ASSUME NEW i \in DOMAIN Stages, NEW gram \in Seq(Token), NEW k \in Nat, Ngram!Indexed(Stages[i], gram)
  PROVE  LET draft == Ngram!Follows(Stages[i], gram, k) IN
           draft \in Seq(Token) /\ Len(draft) \in Nat /\ Len(draft) <= k
<1> DEFINE seqs == Stages[i].seqs
           having == {j \in DOMAIN seqs : Ngram!Places(gram, seqs[j]) # {}}
           src == Ngram!Min(having)
           places == Ngram!Places(gram, seqs[src])
           next == Ngram!Min(places) + Len(gram)
           end == IF next + k - 1 <= Len(seqs[src]) THEN next + k - 1 ELSE Len(seqs[src])
<1>1. seqs \in Seq(Seq(Token)) /\ Len(gram) \in Nat
  BY GramsAssumption
<1>2. having \subseteq Nat /\ having # {} /\ having \subseteq DOMAIN seqs
  <2>1. PICK j \in DOMAIN seqs : Ngram!Places(gram, seqs[j]) # {}
    BY DEF Ngram!Indexed
  <2>2. DOMAIN seqs \subseteq Nat
    <3>1. DOMAIN seqs = 1..Len(seqs)
      BY <1>1
    <3> QED
      BY <3>1
  <2> HIDE DEF seqs
  <2> QED
    BY <2>1, <2>2
<1>3. src \in having
  <2> HIDE DEF having
  <2> QED
    BY <1>2, SmallestIsIn
<1>4. seqs[src] \in Seq(Token) /\ places # {}
  <2>1. src \in DOMAIN seqs /\ Ngram!Places(gram, seqs[src]) # {}
    <3> HIDE DEF seqs, src
    <3> QED
      BY <1>3
  <2> HIDE DEF seqs, src
  <2>2. seqs[src] \in Seq(Token)
    BY <1>1, <2>1
  <2> QED
    BY <2>1, <2>2
<1>5. Ngram!Follows(Stages[i], gram, k) = SubSeq(seqs[src], next, Ngram!Min({next + k - 1, Len(seqs[src])}))
  BY DEF Ngram!Follows
<1> HIDE DEF seqs, having, src
<1>6. places \subseteq Nat \ {0}
  BY <1>1, <1>4 DEF Ngram!Places
<1>7. Ngram!Min(places) \in Nat \ {0}
  <2> HIDE DEF places
  <2>1. places \subseteq Nat
    BY <1>6
  <2>2. Ngram!Min(places) \in places
    BY <1>4, <2>1, SmallestIsIn
  <2> QED
    BY <1>6, <2>2
<1> HIDE DEF places
<1>8. next \in Nat \ {0}
  BY <1>1, <1>7
<1> HIDE DEF next
<1>9. Ngram!Min({next + k - 1, Len(seqs[src])}) = end /\ end \in Int /\ end <= Len(seqs[src])
      /\ end <= next + k - 1
  BY <1>4, <1>8, SmallerOfTwo
<1> HIDE DEF end
<1>10. /\ SubSeq(seqs[src], next, end) \in Seq(Token)
       /\ Len(SubSeq(seqs[src], next, end)) = IF next <= end THEN end - next + 1 ELSE 0
  BY <1>4, <1>8, <1>9, PartOf
<1>11. Len(SubSeq(seqs[src], next, end)) \in Nat /\ Len(SubSeq(seqs[src], next, end)) <= k
  BY <1>8, <1>9, <1>10
<1> QED
  BY <1>5, <1>9, <1>10, <1>11

\* The last draft is the one of the request as it is.
NgramInv ==
  /\ Ngram!TypeOK
  /\ IF row = <<>> THEN proposed = <<>> ELSE proposed = Ngram!Propose(row, spec)

LEMMA NgramStarts == Ngram!Init => NgramInv
BY BoundsAssumption DEF Ngram!Init, Ngram!TypeOK, NgramInv

LEMMA NgramGoesOn ==
  ASSUME NgramInv, [Ngram!Next]_ngramVars
  PROVE  NgramInv'
<1>1. ASSUME NEW token \in Token, Ngram!Decode(token) PROVE NgramInv'
  <2>1. Len(row) < MaxModelLen /\ row' = Append(row, token) /\ spec' = spec
        /\ proposed' = Ngram!Propose(row', spec)
    BY <1>1 DEF Ngram!Decode
  <2>2. row \in Seq(Token)
    BY DEF NgramInv, Ngram!TypeOK
  <2>3. Ngram!TypeOK'
    BY <2>1, BoundsAssumption DEF NgramInv, Ngram!TypeOK
  <2>4. row' # <<>>
    BY <2>1, <2>2
  <2> QED
    BY <2>1, <2>3, <2>4 DEF NgramInv
<1>2. CASE UNCHANGED ngramVars
  BY <1>2 DEF NgramInv, Ngram!TypeOK, ngramVars
<1> QED
  BY <1>1, <1>2 DEF Ngram!Next

\* A draft that is not the prompt's is the datastore's, for a longer gram.
LEMMA DraftIsRight ==
  ASSUME NgramInv, row # <<>>
  PROVE  /\ Ngram!Repeats # {} /\ proposed # Ngram!Latest(row) =>
              /\ spec = "longest_any"
              /\ \E n \in (Ngram!Max(Ngram!Repeats) + 1)..MaxN :
                   n <= Len(row) /\ Ngram!Indexed(Stages[Ngram!FindStage(row)], Ngram!LastGram(row, n))
         /\ proposed \in Seq(Token) /\ Len(proposed) <= K /\ Len(row) + Len(proposed) <= MaxModelLen
<1> DEFINE ctx == Ngram!Latest(row)
           L == Len(row)
           k == IF K <= MaxModelLen - L THEN K ELSE MaxModelLen - L
           stage == Ngram!FindStage(row)
           match == Ngram!LongestCtxMatch(row)
           floor == IF ctx = <<>> THEN MinN - 1 ELSE Ngram!Max({MinN - 1, match})
           sizes == IF stage = 0 THEN {} ELSE
                      {n \in (floor + 1)..Ngram!Min({MaxN, L}) :
                         Ngram!Indexed(Stages[stage], Ngram!LastGram(row, n))}
           found == IF sizes = {} THEN <<>>
                    ELSE Ngram!Follows(Stages[stage], Ngram!LastGram(row, Ngram!Max(sizes)), k)
<1>1. /\ row \in Seq(Token) /\ L \in Nat /\ L <= MaxModelLen /\ MaxModelLen \in Nat /\ K \in Nat
      /\ MinN \in Nat \ {0} /\ MaxN \in Nat /\ spec \in {"ctx_then_ds", "longest_any"}
  BY BoundsAssumption, GramsAssumption DEF Ngram!TypeOK, NgramInv
<1>2. /\ match = IF Ngram!Repeats = {} THEN 0 ELSE Ngram!Max(Ngram!Repeats)
      /\ ctx \in Seq(Token) /\ Len(ctx) <= K /\ L + Len(ctx) <= MaxModelLen
      /\ Ngram!Repeats # {} /\ K > 0 /\ L < MaxModelLen => ctx # <<>>
      /\ Ngram!Repeats # {} => Ngram!Max(Ngram!Repeats) \in Nat
  BY LatestIsContinuation DEF NgramInv
<1>3. Ngram!Min({K, MaxModelLen - L}) = k /\ k \in Nat /\ k <= K /\ L + k <= MaxModelLen
  BY <1>1, SmallerOfTwo
<1>4. proposed = IF (ctx # <<>> /\ spec = "ctx_then_ds") \/ k <= 0 \/ found = <<>> THEN ctx ELSE found
  <2>1. proposed = Ngram!Propose(row, spec)
    BY DEF NgramInv
  <2> HIDE DEF k
  <2> QED
    BY <1>3, <2>1 DEF Ngram!Propose
<1>5. match \in Nat /\ Ngram!Max({MinN - 1, match}) = IF MinN - 1 <= match THEN match ELSE MinN - 1
  <2>1. match \in Nat
    BY <1>2
  <2> HIDE DEF match
  <2> QED
    BY <1>1, <2>1, LargerOfTwo
<1>6. Ngram!Min({MaxN, L}) = IF MaxN <= L THEN MaxN ELSE L
  BY <1>1, SmallerOfTwo
<1>7. floor \in Nat /\ MinN - 1 <= floor /\ (ctx # <<>> => match <= floor)
  <2> HIDE DEF ctx, match
  <2> QED
    BY <1>1, <1>5
<1> HIDE DEF ctx, match, floor, k, stage
<1>8. \A n \in sizes : /\ n \in Nat \ {0} /\ floor < n /\ n <= MaxN /\ n <= L /\ stage # 0
                       /\ Ngram!Indexed(Stages[stage], Ngram!LastGram(row, n))
  BY <1>1, <1>6, <1>7
<1>9. stage # 0 => stage \in DOMAIN Stages
  <2> DEFINE hits == {i \in DOMAIN Stages : Ngram!Places(Stages[i].fingerprint,
                        SubSeq(row, 1, Ngram!Min({Len(row), FpWindow}))) # {}}
  <2>1. stage = IF hits = {} THEN 0 ELSE Ngram!Min(hits)
    BY DEF Ngram!FindStage, stage
  <2>2. hits \subseteq Nat /\ hits \subseteq DOMAIN Stages
    BY GramsAssumption
  <2> HIDE DEF hits
  <2> QED
    BY <2>1, <2>2, SmallestIsIn
<1> HIDE DEF sizes
<1>10. ASSUME sizes # {} PROVE Ngram!Max(sizes) \in sizes
  <2> DEFINE rank == [n \in sizes |-> n]
  <2>1. IsFiniteSet(sizes)
    <3>1. sizes \in SUBSET (1..L)
      BY <1>1, <1>8
    <3>2. IsFiniteSet(1..L)
      BY <1>1, FS_Interval
    <3> QED
      BY <3>1, <3>2, FS_Subset
  <2>2. rank \in [sizes -> Nat]
    BY <1>8
  <2>3. PICK m \in sizes : \A n \in sizes : rank[n] <= rank[m]
    <3> HIDE DEF rank
    <3> QED
      BY <1>10, <2>1, <2>2, HighestOf
  <2>4. sizes \subseteq Int /\ \A n \in sizes : n <= m
    BY <1>8, <2>3
  <2> QED
    BY <2>4, LargestIs
<1>11. found \in Seq(Token) /\ Len(found) \in Nat /\ Len(found) <= k
  <2>1. CASE sizes = {}
    BY <1>3, <2>1
  <2>2. CASE sizes # {}
    <3> DEFINE n == Ngram!Max(sizes)
    <3>1. n \in Nat \ {0} /\ n <= L /\ stage \in DOMAIN Stages
          /\ Ngram!Indexed(Stages[stage], Ngram!LastGram(row, n))
      BY <1>8, <1>9, <1>10, <2>2
    <3> HIDE DEF n
    <3>2. Ngram!LastGram(row, n) \in Seq(Token)
      BY <1>1, <3>1 DEF Ngram!LastGram
    <3>3. found = Ngram!Follows(Stages[stage], Ngram!LastGram(row, n), k)
      BY <2>2 DEF n
    <3> HIDE DEF found
    <3> QED
      BY <1>3, <3>1, <3>2, <3>3, FollowsFits
  <2> QED
    BY <2>1, <2>2
<1>12. found # <<>> => sizes # {}
  OBVIOUS
<1> HIDE DEF found
<1>13. proposed \in Seq(Token) /\ Len(proposed) <= K /\ L + Len(proposed) <= MaxModelLen
  <2>1. CASE proposed = ctx
    BY <1>2, <2>1
  <2>2. CASE proposed = found
    BY <1>1, <1>3, <1>11, <2>2
  <2> QED
    BY <1>4, <2>1, <2>2
<1>14. ASSUME Ngram!Repeats # {}, proposed # ctx
       PROVE  /\ spec = "longest_any"
              /\ \E n \in (Ngram!Max(Ngram!Repeats) + 1)..MaxN :
                   n <= L /\ Ngram!Indexed(Stages[stage], Ngram!LastGram(row, n))
  <2>1. ~(ctx # <<>> /\ spec = "ctx_then_ds") /\ ~(k <= 0) /\ found # <<>>
    BY <1>4, <1>14
  <2>2. K > 0 /\ L < MaxModelLen
    BY <1>1, <1>3, <2>1 DEF k
  <2>3. ctx # <<>> /\ match = Ngram!Max(Ngram!Repeats) /\ match <= floor
    BY <1>2, <1>7, <1>14, <2>2
  <2>4. spec = "longest_any"
    BY <1>1, <2>1, <2>3
  <2>5. PICK n \in sizes : TRUE
    BY <1>12, <2>1
  <2>6. n \in (match + 1)..MaxN /\ n <= L /\ Ngram!Indexed(Stages[stage], Ngram!LastGram(row, n))
    BY <1>1, <1>5, <1>7, <1>8, <2>3, <2>5
  <2> QED
    BY <2>3, <2>4, <2>6
<1> QED
  BY <1>13, <1>14 DEF ctx, stage

LEMMA DraftsFollowLongest == NgramInv => Ngram!DraftFollowsLongest
<1> SUFFICES ASSUME NgramInv PROVE Ngram!DraftFollowsLongest
  OBVIOUS
<1>1. /\ Ngram!LongestCtxMatch(row) = IF Ngram!Repeats = {} THEN 0 ELSE Ngram!Max(Ngram!Repeats)
      /\ Ngram!Latest(row) = IF Ngram!Repeats = {} \/ Len(row) = MaxModelLen THEN <<>>
                             ELSE Ngram!Continuation
  BY LatestIsContinuation DEF NgramInv
<1>2. CASE row = <<>>
  <2>1. proposed = <<>> /\ Len(row) = 0 /\ Len(proposed) = 0
    BY <1>2 DEF NgramInv
  <2>2. Ngram!Repeats = {}
    <3>1. Ngram!Min({MaxN, 0 - 1}) = 0 - 1
      BY SmallerOfTwo, GramsAssumption
    <3> QED
      BY <2>1, <3>1, GramsAssumption DEF Ngram!Repeats
  <2>3. proposed \in Seq(Token) /\ Len(proposed) <= K /\ Len(row) + Len(proposed) <= MaxModelLen
    BY <2>1, BoundsAssumption, GramsAssumption
  <2> QED
    BY <1>1, <2>2, <2>3 DEF Ngram!DraftFollowsLongest
<1>3. CASE row # <<>>
  BY <1>1, <1>3, DraftIsRight DEF Ngram!DraftFollowsLongest
<1> QED
  BY <1>2, <1>3

-----------------------------------------------------------------------------

LinkCount == Len(Links)

LEMMA LinksAreNumbered ==
  /\ Mesh!Link = 1..LinkCount /\ LinkCount \in Nat
  /\ \A l \in Mesh!Link : Links[l].source \in Mesh!Place /\ Links[l].target \in Mesh!Place
  /\ Source \in Mesh!Place /\ Target \in Mesh!Place
BY LinksAssumption DEF Mesh!Link, LinkCount, Mesh!Place

LEMMA PlacesAreFinite == IsFiniteSet(Mesh!Place) /\ IsFiniteSet(Mesh!Link) /\ Cardinality(Mesh!Link) = LinkCount
<1> DEFINE sources == {Links[l].source : l \in Mesh!Link}
           targets == {Links[l].target : l \in Mesh!Link}
<1>1. IsFiniteSet(Mesh!Link) /\ Cardinality(Mesh!Link) = LinkCount
  <2>1. IsFiniteSet(1..LinkCount) /\ Cardinality(1..LinkCount) = LinkCount
    BY LinksAreNumbered, FS_Interval
  <2> QED
    BY <2>1, LinksAreNumbered
<1>2. IsFiniteSet(sources) /\ IsFiniteSet(targets)
  <2>1. [l \in Mesh!Link |-> Links[l].source] \in Surjection(Mesh!Link, sources)
    BY DEF Surjection
  <2>2. [l \in Mesh!Link |-> Links[l].target] \in Surjection(Mesh!Link, targets)
    BY DEF Surjection
  <2> HIDE DEF sources, targets
  <2> QED
    BY <1>1, <2>1, <2>2, FS_Surjection
<1>3. IsFiniteSet({Source, Target})
  <2>1. {Source, Target} = ({} \cup {Source}) \cup {Target}
    OBVIOUS
  <2>2. IsFiniteSet({} \cup {Source})
    BY FS_EmptySet, FS_AddElement
  <2> QED
    BY <2>1, <2>2, FS_AddElement
<1>4. Mesh!Place = ({Source, Target} \cup sources) \cup targets
  BY DEF Mesh!Place
<1> HIDE DEF sources, targets
<1>5. IsFiniteSet({Source, Target} \cup sources)
  BY <1>2, <1>3, FS_Union
<1> QED
  BY <1>1, <1>2, <1>4, <1>5, FS_Union

LEMMA QuotientIsNat ==
  ASSUME NEW a \in Nat, NEW b \in Nat \ {0}
  PROVE  a \div b \in Nat
OBVIOUS

LEMMA ProductIsNat ==
  ASSUME NEW a \in Nat, NEW b \in Nat
  PROVE  a * b \in Nat
OBVIOUS

\* No link has a negative cost.
LEMMA CostsAreNat ==
  ASSUME Mesh!TypeOK
  PROVE  Mesh!Beyond \in Nat /\ \A l \in Mesh!Link : Mesh!Cost(l) \in Nat
<1>1. Scale \in Nat /\ Penalty \in Nat
  BY LinksAssumption
<1>2. Mesh!Beyond \in Nat
  BY <1>1 DEF Mesh!Beyond
<1>3. ASSUME NEW l \in Mesh!Link PROVE Mesh!Cost(l) \in Nat
  <2>1. /\ delay[l] \in Nat /\ inflight[l] \in Nat /\ successes[l] \in Nat /\ failures[l] \in Nat
        /\ Links[l].capacity \in Nat \ {0}
    BY LinksAssumption DEF Mesh!TypeOK, Mesh!Link
  <2>2. Links[l].capacity + inflight[l] \in Nat /\ Mesh!Samples(l) + 2 \in Nat \ {0}
    BY <2>1 DEF Mesh!Samples
  <2>3. Scale * delay[l] \in Nat /\ Scale * Penalty \in Nat
    BY <1>1, <2>1, ProductIsNat
  <2>4. /\ Scale * delay[l] * (Links[l].capacity + inflight[l]) \in Nat
        /\ Scale * Penalty * failures[l] \in Nat
    BY <2>1, <2>2, <2>3, ProductIsNat
  <2>5. /\ (Scale * delay[l] * (Links[l].capacity + inflight[l])) \div Links[l].capacity \in Nat
        /\ (Scale * Penalty * failures[l]) \div (Mesh!Samples(l) + 2) \in Nat
    BY <2>1, <2>2, <2>4, QuotientIsNat
  <2>6. \A a, b \in Nat : a + b \in Nat
    OBVIOUS
  <2> QED
    BY <2>5, <2>6 DEF Mesh!Cost
<1> QED
  BY <1>2, <1>3

\* What a path costs, link by link.
LEMMA CostsAddUp ==
  ASSUME Mesh!TypeOK, NEW p \in Seq(Mesh!Link)
  PROVE  /\ Mesh!CostOf(p) \in [0..Len(p) -> Nat] /\ Mesh!CostOf(p)[0] = 0
         /\ \A i \in 1..Len(p) : Mesh!CostOf(p)[i] = Mesh!CostOf(p)[i - 1] + Mesh!Cost(p[i])
<1> DEFINE F == [i \in Nat |-> [w \in Nat |-> IF i \in 1..Len(p) THEN w + Mesh!Cost(p[i]) ELSE w]]
           Def(f) == [i \in 0..Len(p) |-> IF i = 0 THEN 0 ELSE f[i - 1] + Mesh!Cost(p[i])]
<1>1. \A i \in 1..Len(p) : p[i] \in Mesh!Link /\ Mesh!Cost(p[i]) \in Nat
  BY CostsAreNat
<1>2. F \in [Nat -> [Nat -> Nat]]
  BY <1>1
<1>3. PICK f : IsRun(f, Nat, 0, F)
  <2> HIDE DEF F, Def
  <2>1. 0 \in Nat
    OBVIOUS
  <2> QED
    BY <1>2, <2>1, RunExists
<1>4. f \in [Nat -> Nat] /\ f[0] = 0 /\ \A n \in Nat : f[n + 1] = F[n + 1][f[n]]
  BY <1>3 DEF IsRun
<1>5. ASSUME NEW i \in 1..Len(p) PROVE f[i] = f[i - 1] + Mesh!Cost(p[i])
  <2>1. i - 1 \in Nat /\ (i - 1) + 1 = i /\ f[i - 1] \in Nat
    BY <1>4
  <2>2. f[i] = F[i][f[i - 1]]
    <3> HIDE DEF F
    <3> QED
      BY <1>4, <2>1
  <2> QED
    BY <2>1, <2>2
<1> DEFINE g == [i \in 0..Len(p) |-> f[i]]
<1>6. g \in [0..Len(p) -> Nat]
  BY <1>4
<1>7. g = Def(g)
  <2>1. ASSUME NEW i \in 0..Len(p) PROVE g[i] = Def(g)[i]
    <3>1. CASE i = 0
      BY <1>4, <3>1
    <3>2. CASE i # 0
      <4>1. i \in 1..Len(p) /\ i - 1 \in 0..Len(p)
        BY <3>2
      <4> QED
        BY <1>5, <3>2, <4>1
    <3> QED
      BY <3>1, <3>2
  <2> QED
    BY <2>1
<1> HIDE DEF g
<1>8. Mesh!CostOf(p) = Def(Mesh!CostOf(p))
  <2>1. Mesh!CostOf(p) = CHOOSE h : h = Def(h)
    BY DEF Mesh!CostOf
  <2> HIDE DEF Def
  <2> QED
    BY <1>7, <2>1
<1> HIDE DEF F
<1>9. ASSUME NEW i \in 0..Len(p) PROVE Mesh!CostOf(p)[i] = g[i]
  <2> DEFINE T == {m \in Nat : m <= Len(p) => Mesh!CostOf(p)[m] = g[m]}
  <2>1. 0 \in T
    BY <1>7, <1>8
  <2>2. ASSUME NEW m \in T PROVE m + 1 \in T
    <3> SUFFICES ASSUME m + 1 <= Len(p) PROVE Mesh!CostOf(p)[m + 1] = g[m + 1]
      OBVIOUS
    <3>1. m + 1 \in 0..Len(p) /\ m + 1 # 0 /\ (m + 1) - 1 = m /\ m <= Len(p)
      OBVIOUS
    <3>2. Mesh!CostOf(p)[m + 1] = Mesh!CostOf(p)[m] + Mesh!Cost(p[m + 1])
      BY <1>8, <3>1
    <3>3. g[m + 1] = g[m] + Mesh!Cost(p[m + 1])
      BY <1>7, <3>1
    <3> QED
      BY <3>1, <3>2, <3>3
  <2>3. T = Nat
    <3> HIDE DEF T
    <3>1. T \in SUBSET Nat
      BY DEF T
    <3> QED
      BY <2>1, <2>2, <3>1, AllNaturals
  <2> QED
    BY <2>3
<1>10. Mesh!CostOf(p) = [i \in 0..Len(p) |-> Mesh!CostOf(p)[i]]
  BY <1>8
<1>11. Mesh!CostOf(p) \in [0..Len(p) -> Nat]
  BY <1>6, <1>9, <1>10
<1>12. Mesh!CostOf(p)[0] = 0
  BY <1>8
<1>13. ASSUME NEW i \in 1..Len(p) PROVE Mesh!CostOf(p)[i] = Mesh!CostOf(p)[i - 1] + Mesh!Cost(p[i])
  <2>1. i \in 0..Len(p) /\ i # 0
    OBVIOUS
  <2> QED
    BY <1>8, <2>1
<1> QED
  BY <1>11, <1>12, <1>13

\* p is a path of eligible links from the source to n, of cost w.
Leads(c, p, n, w) ==
  /\ p \in Seq(Mesh!Link)
  /\ \A i \in 1..Len(p) : Mesh!Eligible(p[i], c) /\ Links[p[i]].source = Mesh!Via(p, i - 1)
  /\ Mesh!Via(p, Len(p)) = n /\ Mesh!CostOf(p)[Len(p)] = w

LEMMA LeadsNowhere ==
  ASSUME Mesh!TypeOK, NEW c
  PROVE  Leads(c, <<>>, Source, 0)
<1>1. << >> \in Seq(Mesh!Link) /\ Len(<< >>) = 0
  OBVIOUS
<1>2. Mesh!CostOf(<< >>)[0] = 0
  BY <1>1, CostsAddUp
<1> QED
  BY <1>1, <1>2 DEF Leads, Mesh!Via

\* One more link of the place where a path ends.
LEMMA LeadsOn ==
  ASSUME Mesh!TypeOK, NEW c, NEW p, NEW n, NEW w, Leads(c, p, n, w),
         NEW l \in Mesh!Link, Links[l].source = n, Mesh!Eligible(l, c)
  PROVE  Leads(c, Append(p, l), Links[l].target, w + Mesh!Cost(l))
<1> DEFINE q == Append(p, l)
<1>1. /\ p \in Seq(Mesh!Link) /\ Mesh!Via(p, Len(p)) = n /\ Mesh!CostOf(p)[Len(p)] = w
      /\ \A i \in 1..Len(p) : Mesh!Eligible(p[i], c) /\ Links[p[i]].source = Mesh!Via(p, i - 1)
  BY DEF Leads
<1>2. /\ q \in Seq(Mesh!Link) /\ Len(q) = Len(p) + 1 /\ q[Len(p) + 1] = l /\ Len(p) \in Nat
      /\ \A i \in 1..Len(p) : q[i] = p[i]
  BY <1>1
<1> HIDE DEF q
<1>3. \A i \in 0..Len(p) : Mesh!Via(q, i) = Mesh!Via(p, i)
  BY <1>2 DEF Mesh!Via
<1>4. Mesh!Via(q, Len(q)) = Links[l].target
  BY <1>2 DEF Mesh!Via
<1>5. ASSUME NEW i \in 1..Len(q) PROVE Mesh!Eligible(q[i], c) /\ Links[q[i]].source = Mesh!Via(q, i - 1)
  <2>1. CASE i = Len(p) + 1
    <3>1. i - 1 = Len(p) /\ i - 1 \in 0..Len(p) /\ q[i] = l
      BY <1>2, <2>1
    <3>2. Mesh!Via(q, i - 1) = Mesh!Via(p, Len(p))
      BY <1>3, <3>1
    <3> QED
      BY <1>1, <3>1, <3>2
  <2>2. CASE i # Len(p) + 1
    <3>1. i \in 1..Len(p) /\ i - 1 \in 0..Len(p)
      BY <1>2, <2>2
    <3> QED
      BY <1>1, <1>2, <1>3, <3>1
  <2> QED
    BY <2>1, <2>2
<1>6. \A i \in 0..Len(p) : Mesh!CostOf(q)[i] = Mesh!CostOf(p)[i]
  <2> DEFINE T == {i \in Nat : i <= Len(p) => Mesh!CostOf(q)[i] = Mesh!CostOf(p)[i]}
  <2>1. 0 \in T
    BY <1>1, <1>2, CostsAddUp
  <2>2. ASSUME NEW i \in T PROVE i + 1 \in T
    <3> SUFFICES ASSUME i + 1 <= Len(p) PROVE Mesh!CostOf(q)[i + 1] = Mesh!CostOf(p)[i + 1]
      OBVIOUS
    <3>1. /\ i + 1 \in 1..Len(p) /\ i + 1 \in 1..Len(q) /\ (i + 1) - 1 = i /\ q[i + 1] = p[i + 1]
          /\ Mesh!CostOf(q)[i] = Mesh!CostOf(p)[i]
      BY <1>2
    <3>2. Mesh!CostOf(q)[i + 1] = Mesh!CostOf(q)[i] + Mesh!Cost(q[i + 1])
      BY <1>2, <3>1, CostsAddUp
    <3>3. Mesh!CostOf(p)[i + 1] = Mesh!CostOf(p)[i] + Mesh!Cost(p[i + 1])
      BY <1>1, <3>1, CostsAddUp
    <3> QED
      BY <3>1, <3>2, <3>3
  <2>3. T = Nat
    <3> HIDE DEF T
    <3>1. T \in SUBSET Nat
      BY DEF T
    <3> QED
      BY <2>1, <2>2, <3>1, AllNaturals
  <2> QED
    BY <1>2, <2>3
<1>7. Mesh!CostOf(q)[Len(q)] = w + Mesh!Cost(l)
  <2>1. Len(q) \in 1..Len(q) /\ Len(q) - 1 = Len(p) /\ q[Len(q)] = l /\ Len(p) \in 0..Len(p)
    BY <1>2
  <2>2. Mesh!CostOf(q)[Len(q)] = Mesh!CostOf(q)[Len(q) - 1] + Mesh!Cost(q[Len(q)])
    BY <1>2, <2>1, CostsAddUp
  <2> QED
    BY <1>1, <1>6, <2>1, <2>2
<1>8. Leads(c, q, Links[l].target, w + Mesh!Cost(l))
  BY <1>2, <1>4, <1>5, <1>7 DEF Leads
<1> QED
  BY <1>8 DEF q

\* No path to the target costs less than r.
Cheapest(c, r) == \A p, w : Leads(c, p, Target, w) => r <= w

\* If the links of the places in D are relaxed, and no other place is closer than r,
\* a path that leaves D costs r already.
LEMMA NoneIsCheaper ==
  ASSUME Mesh!TypeOK, NEW c, NEW D \in SUBSET Mesh!Place, Target \notin D,
         NEW best \in [Mesh!Place -> Nat], best[Source] = 0,
         NEW r \in Nat, \A n \in Mesh!Place \ D : r <= best[n],
         \A l \in Mesh!Link : Links[l].source \in D /\ Mesh!Eligible(l, c)
            => best[Links[l].target] <= best[Links[l].source] + Mesh!Cost(l)
  PROVE  Cheapest(c, r)
<1> SUFFICES ASSUME NEW p, NEW w, Leads(c, p, Target, w) PROVE r <= w
  BY DEF Cheapest
<1>1. /\ p \in Seq(Mesh!Link) /\ Mesh!Via(p, Len(p)) = Target /\ Mesh!CostOf(p)[Len(p)] = w
      /\ \A i \in 1..Len(p) : Mesh!Eligible(p[i], c) /\ Links[p[i]].source = Mesh!Via(p, i - 1)
  BY DEF Leads
<1>2. /\ Mesh!CostOf(p) \in [0..Len(p) -> Nat] /\ Mesh!CostOf(p)[0] = 0
      /\ \A i \in 1..Len(p) : Mesh!CostOf(p)[i] = Mesh!CostOf(p)[i - 1] + Mesh!Cost(p[i])
  BY <1>1, CostsAddUp
<1> DEFINE reached(i) == r <= Mesh!CostOf(p)[i]
                         \/ (Mesh!Via(p, i) \in D /\ best[Mesh!Via(p, i)] <= Mesh!CostOf(p)[i])
           T == {i \in Nat : i <= Len(p) => reached(i)}
<1>3. 0 \in T
  <2>1. Mesh!Via(p, 0) = Source /\ Source \in Mesh!Place
    BY LinksAreNumbered DEF Mesh!Via
  <2>2. reached(0)
    BY <1>2, <2>1
  <2> QED
    BY <2>2
<1>4. ASSUME NEW i \in T PROVE i + 1 \in T
  <2> SUFFICES ASSUME i + 1 <= Len(p) PROVE reached(i + 1)
    OBVIOUS
  <2>1. /\ i \in Nat /\ i \in 0..Len(p) /\ i + 1 \in 1..Len(p) /\ i + 1 \in 0..Len(p)
        /\ (i + 1) - 1 = i /\ i + 1 # 0 /\ reached(i)
    BY <1>1
  <2>2. PICK l \in Mesh!Link : l = p[i + 1]
    BY <1>1, <2>1
  <2>3. /\ Mesh!CostOf(p)[i + 1] = Mesh!CostOf(p)[i] + Mesh!Cost(l)
        /\ Mesh!CostOf(p)[i] \in Nat /\ Mesh!CostOf(p)[i + 1] \in Nat /\ Mesh!Cost(l) \in Nat
    BY <1>2, <2>1, <2>2, CostsAreNat
  <2>4. Mesh!Via(p, i + 1) = Links[l].target /\ Links[l].source = Mesh!Via(p, i) /\ Mesh!Eligible(l, c)
    BY <1>1, <2>1, <2>2 DEF Mesh!Via
  <2>5. CASE r <= Mesh!CostOf(p)[i]
    BY <2>3, <2>5
  <2>6. CASE Links[l].source \in D /\ best[Links[l].source] <= Mesh!CostOf(p)[i]
    <3>1. best[Links[l].target] <= best[Links[l].source] + Mesh!Cost(l)
      BY <2>4, <2>6
    <3>2. Links[l].target \in Mesh!Place /\ best[Links[l].target] \in Nat /\ best[Links[l].source] \in Nat
      BY <2>6, LinksAreNumbered
    <3>3. best[Links[l].target] <= Mesh!CostOf(p)[i + 1]
      BY <2>3, <2>6, <3>1, <3>2
    <3>4. CASE Links[l].target \in D
      BY <2>4, <3>3, <3>4
    <3>5. CASE Links[l].target \notin D
      <4>1. r <= best[Links[l].target]
        BY <3>2, <3>5
      <4>2. r <= Mesh!CostOf(p)[i + 1]
        BY <2>3, <3>2, <3>3, <4>1
      <4> QED
        BY <4>2
    <3> QED
      BY <3>4, <3>5
  <2> QED
    BY <2>1, <2>4, <2>5, <2>6
<1>5. T = Nat
  <2> HIDE DEF T
  <2>1. T \in SUBSET Nat
    BY DEF T
  <2> QED
    BY <1>3, <1>4, <2>1, AllNaturals
<1>6. reached(Len(p))
  BY <1>1, <1>5
<1> QED
  BY <1>1, <1>6

\* A path that was pushed.
Pushed == [cost : Nat, serial : Nat, node : Mesh!Place, links : Seq(Mesh!Link)]

\* What the queue Q and the costs so far know when the places of D are expanded.
Frontier(c, Q, best, D) ==
  /\ D \subseteq Mesh!Place /\ Target \notin D
  /\ best \in [Mesh!Place -> Nat] /\ best[Source] = 0
  /\ \A n \in Mesh!Place : best[n] <= Mesh!Beyond
  /\ Q \subseteq Pushed /\ IsFiniteSet(Q)
  /\ \A p \in Q : Leads(c, p.links, p.node, p.cost) /\ Len(p.links) <= Cardinality(D)
  /\ \A p \in Q : best[p.node] <= p.cost /\ (p.node \in D => best[p.node] < p.cost)
  /\ \A p, q \in Q : p.node = q.node /\ p.cost = q.cost => p = q
  /\ \A n \in Mesh!Place \ D : best[n] = Mesh!Beyond \/ \E p \in Q : p.node = n /\ p.cost = best[n]
  /\ \A d \in D, p \in Q : best[d] <= p.cost

LEMMA PlacesAreCounted ==
  ASSUME NEW D \in SUBSET Mesh!Place
  PROVE  IsFiniteSet(D) /\ Cardinality(D) \in Nat
<1>1. IsFiniteSet(D)
  BY PlacesAreFinite, FS_Subset
<1> QED
  BY <1>1, FS_CardinalityType

\* A path that a cheaper one has overtaken is dropped.
LEMMA StaleIsDropped ==
  ASSUME NEW c, NEW Q, NEW best, NEW D, Frontier(c, Q, best, D),
         NEW p \in Q, p.cost > best[p.node]
  PROVE  Frontier(c, Q \ {p}, best, D)
<1>1. IsFiniteSet(Q \ {p})
  BY FS_RemoveElement DEF Frontier
<1>2. ASSUME NEW n \in Mesh!Place \ D
      PROVE  best[n] = Mesh!Beyond \/ \E q \in Q \ {p} : q.node = n /\ q.cost = best[n]
  <2> SUFFICES ASSUME best[n] # Mesh!Beyond PROVE \E q \in Q \ {p} : q.node = n /\ q.cost = best[n]
    OBVIOUS
  <2>1. PICK q \in Q : q.node = n /\ q.cost = best[n]
    BY DEF Frontier
  <2>2. best[p.node] \in Nat /\ p.cost \in Nat
    BY DEF Frontier, Pushed
  <2>3. q # p
    BY <2>1, <2>2
  <2> QED
    BY <2>1, <2>3
<1> QED
  BY <1>1, <1>2 DEF Frontier

\* The least path of the queue that none has overtaken leads to a place that is not expanded.
LEMMA LeastIsNew ==
  ASSUME NEW c, NEW Q, NEW best, NEW D, Frontier(c, Q, best, D),
         NEW p \in Q, ~(p.cost > best[p.node])
  PROVE  p.node \in Mesh!Place \ D /\ p.cost = best[p.node]
<1>1. p.node \in Mesh!Place /\ p.cost \in Nat /\ best[p.node] \in Nat
  BY DEF Frontier, Pushed
<1>2. best[p.node] <= p.cost /\ (p.node \in D => best[p.node] < p.cost)
  BY DEF Frontier
<1> QED
  BY <1>1, <1>2

LEMMA LeastIsExpanded ==
  ASSUME NEW c, NEW Q, NEW best, NEW D, Frontier(c, Q, best, D),
         NEW p \in Q, \A q \in Q : p.cost <= q.cost, ~(p.cost > best[p.node]), p.node # Target
  PROVE  /\ Frontier(c, Q \ {p}, best, D \cup {p.node})
         /\ Cardinality(D \cup {p.node}) = Cardinality(D) + 1
         /\ \A d \in D \cup {p.node} : best[d] <= p.cost
<1> DEFINE E == D \cup {p.node}
<1>1. p.node \in Mesh!Place \ D /\ p.cost = best[p.node] /\ p.cost \in Nat
  BY LeastIsNew DEF Frontier, Pushed
<1>2. D \in SUBSET Mesh!Place /\ E \in SUBSET Mesh!Place /\ Target \notin E
  BY <1>1 DEF Frontier
<1>3. Cardinality(E) = Cardinality(D) + 1 /\ Cardinality(D) \in Nat
  <2>1. IsFiniteSet(D) /\ Cardinality(D) \in Nat
    BY <1>2, PlacesAreCounted
  <2> QED
    BY <1>1, <2>1, FS_AddElement
<1>4. IsFiniteSet(Q \ {p})
  BY FS_RemoveElement DEF Frontier
<1>5. ASSUME NEW n \in Mesh!Place \ E
      PROVE  best[n] = Mesh!Beyond \/ \E q \in Q \ {p} : q.node = n /\ q.cost = best[n]
  <2>1. n \in Mesh!Place \ D /\ n # p.node
    OBVIOUS
  <2> QED
    BY <2>1 DEF Frontier
<1>6. ASSUME NEW q \in Q \ {p}
      PROVE  /\ Leads(c, q.links, q.node, q.cost) /\ Len(q.links) <= Cardinality(E)
             /\ best[q.node] <= q.cost /\ (q.node \in E => best[q.node] < q.cost)
  <2>1. q \in Pushed /\ Len(q.links) \in Nat /\ q.node \in Mesh!Place /\ q.cost \in Nat /\ best[q.node] \in Nat
    BY DEF Frontier, Pushed
  <2>2. /\ Leads(c, q.links, q.node, q.cost) /\ Len(q.links) <= Cardinality(D)
        /\ best[q.node] <= q.cost /\ (q.node \in D => best[q.node] < q.cost)
    BY DEF Frontier
  <2>3. q.node = p.node => q.cost # p.cost
    BY DEF Frontier
  <2>4. Len(q.links) <= Cardinality(E)
    BY <1>3, <2>1, <2>2
  <2>5. q.node = p.node => best[q.node] < q.cost
    BY <1>1, <2>1, <2>2, <2>3
  <2> QED
    BY <2>2, <2>4, <2>5
<1>7. \A d \in E, q \in Q : best[d] <= q.cost
  BY <1>1 DEF Frontier
<1> HIDE DEF E
<1>8. /\ best \in [Mesh!Place -> Nat] /\ best[Source] = 0
      /\ \A n \in Mesh!Place : best[n] <= Mesh!Beyond
      /\ Q \ {p} \subseteq Pushed
      /\ \A q, r \in Q \ {p} : q.node = r.node /\ q.cost = r.cost => q = r
  BY DEF Frontier
<1>9. Frontier(c, Q \ {p}, best, E)
  BY <1>2, <1>4, <1>5, <1>6, <1>7, <1>8 DEF Frontier
<1> QED
  BY <1>3, <1>7, <1>9 DEF E

\* A cheaper path to a place that is not expanded is pushed.
LEMMA CheaperIsPushed ==
  ASSUME NEW c, NEW Q, NEW best, NEW D, Frontier(c, Q, best, D), Mesh!Beyond \in Nat,
         NEW p \in Pushed, p.cost < best[p.node], p.node \notin D,
         Leads(c, p.links, p.node, p.cost), Len(p.links) <= Cardinality(D),
         \A d \in D : best[d] <= p.cost
  PROVE  Frontier(c, Q \cup {p}, [best EXCEPT ![p.node] = p.cost], D)
<1> DEFINE next == [best EXCEPT ![p.node] = p.cost]
<1>1. /\ p.node \in Mesh!Place /\ p.cost \in Nat
      /\ best \in [Mesh!Place -> Nat] /\ best[Source] = 0 /\ Source \in Mesh!Place
      /\ D \subseteq Mesh!Place /\ \A n \in Mesh!Place : best[n] <= Mesh!Beyond
  BY LinksAreNumbered DEF Frontier, Pushed
<1>2. /\ next \in [Mesh!Place -> Nat] /\ next[p.node] = p.cost
      /\ \A n \in Mesh!Place : n # p.node => next[n] = best[n]
  BY <1>1
<1> HIDE DEF next
<1>3. \A n \in Mesh!Place : next[n] <= best[n] /\ next[n] <= Mesh!Beyond
  <2> SUFFICES ASSUME NEW n \in Mesh!Place PROVE next[n] <= best[n] /\ next[n] <= Mesh!Beyond
    OBVIOUS
  <2>1. next[n] \in Nat /\ best[n] \in Nat /\ best[n] <= Mesh!Beyond
    BY <1>1, <1>2
  <2>2. next[n] <= best[n]
    <3>1. CASE n = p.node
      BY <1>1, <1>2, <3>1
    <3>2. CASE n # p.node
      BY <1>2, <2>1, <3>2
    <3> QED
      BY <3>1, <3>2
  <2> QED
    BY <2>1, <2>2
<1>4. next[Source] = 0
  <2>1. p.node # Source
    BY <1>1
  <2> QED
    BY <1>1, <1>2, <2>1
<1>5. IsFiniteSet(Q \cup {p}) /\ Q \cup {p} \subseteq Pushed
  BY FS_AddElement DEF Frontier
<1>6. \A q \in Q : q.node \in Mesh!Place /\ q.cost \in Nat /\ best[q.node] <= q.cost
                   /\ best[q.node] \in Nat /\ next[q.node] \in Nat
  BY <1>1, <1>2 DEF Frontier, Pushed
<1>7. ASSUME NEW q \in Q \cup {p}
      PROVE  next[q.node] <= q.cost /\ (q.node \in D => next[q.node] < q.cost)
  <2>1. CASE q \in Q
    <3>1. next[q.node] <= q.cost
      BY <1>3, <1>6, <2>1
    <3>2. q.node \in D => next[q.node] = best[q.node] /\ best[q.node] < q.cost
      BY <1>2, <1>6, <2>1 DEF Frontier
    <3> QED
      BY <3>1, <3>2
  <2>2. CASE q = p
    BY <1>1, <1>2, <2>2
  <2> QED
    BY <2>1, <2>2
<1>8. ASSUME NEW q \in Q \cup {p}, NEW r \in Q \cup {p}, q.node = r.node, q.cost = r.cost
      PROVE  q = r
  <2>1. \A a \in Q : a.node = p.node => a.cost # p.cost
    BY <1>1, <1>6
  <2>2. \A a, b \in Q : a.node = b.node /\ a.cost = b.cost => a = b
    BY DEF Frontier
  <2> QED
    BY <1>8, <2>1, <2>2
<1>9. ASSUME NEW n \in Mesh!Place \ D
      PROVE  next[n] = Mesh!Beyond \/ \E q \in Q \cup {p} : q.node = n /\ q.cost = next[n]
  <2>1. CASE n = p.node
    BY <1>2, <2>1
  <2>2. CASE n # p.node
    BY <1>2, <2>2 DEF Frontier
  <2> QED
    BY <2>1, <2>2
<1>10. \A d \in D : next[d] = best[d]
  BY <1>1, <1>2
<1>11. \A d \in D, q \in Q \cup {p} : next[d] <= q.cost
  BY <1>10 DEF Frontier
<1>12. /\ \A q \in Q \cup {p} : Leads(c, q.links, q.node, q.cost) /\ Len(q.links) <= Cardinality(D)
       /\ Target \notin D
  BY DEF Frontier
<1>13. Frontier(c, Q \cup {p}, next, D)
  BY <1>1, <1>2, <1>3, <1>4, <1>5, <1>7, <1>8, <1>9, <1>11, <1>12 DEF Frontier
<1> QED
  BY <1>13 DEF next

\* The places that are not expanded are no closer than the least path of the queue.
LEMMA OthersAreFarther ==
  ASSUME NEW c, NEW Q, NEW best, NEW D, Frontier(c, Q, best, D), NEW r \in Nat,
         r <= Mesh!Beyond, \A q \in Q : r <= q.cost
  PROVE  \A n \in Mesh!Place \ D : r <= best[n]
BY DEF Frontier

SearchState ==
  [queue : SUBSET Pushed, serial : Nat, best : [Mesh!Place -> Nat], top : Pushed,
   link : 1..(LinkCount + 1), found : BOOLEAN]

\* The links that are still to be relaxed.
Unrelaxed(s, D) ==
  {l \in Mesh!Link : \/ Links[l].source \notin D
                     \/ s.link \in Mesh!Link /\ Links[l].source = s.top.node /\ l >= s.link}

\* Of the place whose links are being relaxed.
Expanding(c, s, D) ==
  /\ s.top.node \in D /\ s.top.cost = s.best[s.top.node]
  /\ \A d \in D : s.best[d] <= s.top.cost
  /\ \A q \in s.queue : s.top.cost <= q.cost
  /\ Leads(c, s.top.links, s.top.node, s.top.cost)
  /\ Len(s.top.links) + 1 <= Cardinality(D)

SearchInv(c, s, D) ==
  /\ ~s.found
  /\ Frontier(c, s.queue, s.best, D)
  /\ \A l \in Mesh!Link \ Unrelaxed(s, D) :
       Mesh!Eligible(l, c) => s.best[Links[l].target] <= s.best[Links[l].source] + Mesh!Cost(l)
  /\ s.link \in Mesh!Link => Expanding(c, s, D)

FoundInv(c, s) ==
  /\ s.found /\ s.link \notin Mesh!Link
  /\ Leads(c, s.top.links, Target, s.top.cost) /\ Len(s.top.links) <= Cardinality(Mesh!Place) - 1
  /\ s.top.cost <= Mesh!Beyond /\ Cheapest(c, s.top.cost)

\* What is left to do; each pass has less.
Weight(s, D) ==
  (LinkCount + 1) * (Cardinality(s.queue) + Cardinality(Unrelaxed(s, D))) + (LinkCount + 1 - s.link)

Searching(c, s, w) ==
  /\ s \in SearchState
  /\ FoundInv(c, s) \/ \E E \in SUBSET Mesh!Place : SearchInv(c, s, E) /\ Weight(s, E) < w

LEMMA WeightFalls ==
  ASSUME NEW k \in Nat \ {0}, NEW a \in Nat, NEW b \in Nat, NEW x \in 0..(k - 1), NEW y \in 0..(k - 1),
         b < a \/ (b = a /\ y < x)
  PROVE  k * b + y < k * a + x
<1>1. CASE b = a /\ y < x
  <2>1. k * a \in Nat
    OBVIOUS
  <2> QED
    BY <1>1, <2>1
<1>2. CASE b < a
  <2>1. PICK d \in Nat : a = b + 1 + d
    <3>1. a - b - 1 \in Nat /\ a = b + 1 + (a - b - 1)
      BY <1>2
    <3> QED
      BY <3>1
  <2>2. k * a = k * b + k + k * d
    BY <2>1
  <2>3. k * b \in Nat /\ k * d \in Nat
    BY <2>1
  <2>4. \A u, v \in Nat : u + y < u + k + v + x
    OBVIOUS
  <2> QED
    BY <2>2, <2>3, <2>4
<1> QED
  BY <1>1, <1>2

LEMMA FirstIsLeast ==
  ASSUME NEW Q \in SUBSET Pushed, Q # {}
  PROVE  Mesh!First(Q) \in Q /\ \A q \in Q : Mesh!First(Q).cost <= q.cost
<1>1. PICK m \in {q.cost : q \in Q} : \A n \in {q.cost : q \in Q} : m <= n
  <2>1. {q.cost : q \in Q} \subseteq Nat /\ {q.cost : q \in Q} # {}
    BY DEF Pushed
  <2> QED
    BY <2>1, LeastOf
<1> DEFINE R == {q \in Q : q.cost = m}
<1>2. PICK k \in {q.serial : q \in R} : \A n \in {q.serial : q \in R} : k <= n
  <2>1. {q.serial : q \in R} \subseteq Nat /\ {q.serial : q \in R} # {}
    BY <1>1 DEF Pushed
  <2> QED
    BY <2>1, LeastOf
<1>3. PICK p \in R : p.serial = k
  BY <1>2
<1>4. ASSUME NEW q \in Q
      PROVE  p.cost < q.cost \/ (p.cost = q.cost /\ p.serial <= q.serial)
  <2>1. q.cost \in Nat /\ m \in Nat /\ m <= q.cost /\ p.cost = m
    BY <1>1, <1>3 DEF Pushed
  <2>2. q.cost = m => p.serial <= q.serial
    BY <1>2, <1>3
  <2> QED
    BY <2>1, <2>2
<1>5. /\ Mesh!First(Q) \in Q
      /\ \A q \in Q : \/ Mesh!First(Q).cost < q.cost
                      \/ Mesh!First(Q).cost = q.cost /\ Mesh!First(Q).serial <= q.serial
  <2>1. p \in Q
    OBVIOUS
  <2> QED
    BY <1>4, <2>1 DEF Mesh!First
<1>6. \A q \in Q : q.cost \in Nat
  BY DEF Pushed
<1> QED
  BY <1>5, <1>6

LEMMA WaitingAreCounted ==
  ASSUME NEW s \in SearchState, NEW D
  PROVE  IsFiniteSet(Unrelaxed(s, D)) /\ Cardinality(Unrelaxed(s, D)) \in Nat
<1>1. Unrelaxed(s, D) \subseteq Mesh!Link
  BY DEF Unrelaxed
<1>2. IsFiniteSet(Unrelaxed(s, D))
  BY <1>1, PlacesAreFinite, FS_Subset
<1> QED
  BY <1>2, FS_CardinalityType

\* The search starts with every link to be relaxed, and a pass for each unit of weight.
LEMMA StartHolds ==
  ASSUME Mesh!TypeOK, NEW c
  PROVE  /\ Mesh!Start \in SearchState /\ SearchInv(c, Mesh!Start, {})
         /\ Weight(Mesh!Start, {}) = Mesh!Passes
<1> DEFINE s == Mesh!Start
           p == [cost |-> 0, serial |-> 0, node |-> Source, links |-> <<>>]
<1>1. /\ s.queue = {p} /\ s.serial = 1 /\ s.top = p /\ s.link = LinkCount + 1 /\ s.found = FALSE
      /\ s.best = [n \in Mesh!Place |-> IF n = Source THEN 0 ELSE Mesh!Beyond]
  BY DEF Mesh!Start, LinkCount
<1>2. p \in Pushed
  BY LinksAreNumbered DEF Pushed
<1>3. Mesh!Beyond \in Nat /\ LinkCount \in Nat /\ Mesh!Link = 1..LinkCount /\ Source \in Mesh!Place
  BY CostsAreNat, LinksAreNumbered
<1>4. s \in SearchState
  <2>1. s.best \in [Mesh!Place -> Nat]
    BY <1>1, <1>3
  <2> QED
    BY <1>2, <1>3, <2>1 DEF Mesh!Start, SearchState, LinkCount
<1>5. IsFiniteSet({p}) /\ Cardinality({p}) = 1 /\ IsFiniteSet({}) /\ Cardinality({}) = 0
  BY FS_Singleton, FS_EmptySet
<1>6. Leads(c, p.links, p.node, p.cost) /\ Len(p.links) = 0
  BY LeadsNowhere
<1>7. Frontier(c, {p}, s.best, {})
  BY <1>1, <1>2, <1>3, <1>5, <1>6 DEF Frontier
<1>8. s.link \notin Mesh!Link /\ Unrelaxed(s, {}) = Mesh!Link
  BY <1>1, <1>3 DEF Unrelaxed
<1>9. SearchInv(c, s, {})
  BY <1>1, <1>7, <1>8 DEF SearchInv
<1>10. Weight(s, {}) = Mesh!Passes
  <2>1. Weight(s, {}) = (LinkCount + 1) * (1 + LinkCount) + (LinkCount + 1 - (LinkCount + 1))
    BY <1>1, <1>5, <1>8, PlacesAreFinite DEF Weight
  <2> QED
    BY <1>3, <2>1 DEF Mesh!Passes, LinkCount
<1> QED
  BY <1>4, <1>9, <1>10

LEMMA PopKeeps ==
  ASSUME Mesh!TypeOK, NEW c, NEW s \in SearchState, NEW D \in SUBSET Mesh!Place,
         SearchInv(c, s, D), s.link \notin Mesh!Link, s.queue # {}
  PROVE  Searching(c, Mesh!Pop(s), Weight(s, D))
<1> DEFINE p == Mesh!First(s.queue)
           rest == [s EXCEPT !.queue = @ \ {p}]
<1>1. /\ s.queue \in SUBSET Pushed /\ s.serial \in Nat /\ s.best \in [Mesh!Place -> Nat]
      /\ s.top \in Pushed /\ s.link = LinkCount + 1 /\ s.found = FALSE /\ LinkCount \in Nat
      /\ Mesh!Link = 1..LinkCount /\ 1 \in 1..(LinkCount + 1)
  BY LinksAreNumbered DEF SearchState, SearchInv
<1>2. p \in s.queue /\ \A q \in s.queue : p.cost <= q.cost
  BY <1>1, FirstIsLeast
<1>3. /\ p \in Pushed /\ p.cost \in Nat /\ p.node \in Mesh!Place /\ Len(p.links) \in Nat
      /\ Frontier(c, s.queue, s.best, D)
  <2>1. p \in Pushed
    BY <1>1, <1>2
  <2> HIDE DEF p
  <2>2. p.cost \in Nat /\ p.node \in Mesh!Place /\ p.links \in Seq(Mesh!Link)
    BY <2>1 DEF Pushed
  <2> QED
    BY <2>1, <2>2 DEF SearchInv
<1>4. /\ Cardinality(s.queue \ {p}) = Cardinality(s.queue) - 1
      /\ Cardinality(s.queue) \in Nat /\ Cardinality(s.queue \ {p}) \in Nat
  <2>1. IsFiniteSet(s.queue) /\ IsFiniteSet(s.queue \ {p})
    BY <1>3, FS_RemoveElement DEF Frontier
  <2>2. Cardinality(s.queue \ {p}) = Cardinality(s.queue) - 1
    BY <1>2, <2>1, FS_RemoveElement
  <2> QED
    BY <2>1, <2>2, FS_CardinalityType
<1>5. Unrelaxed(s, D) = {l \in Mesh!Link : Links[l].source \notin D}
  BY DEF Unrelaxed
<1>6. \A l \in Mesh!Link : Links[l].source \in D /\ Mesh!Eligible(l, c)
        => s.best[Links[l].target] <= s.best[Links[l].source] + Mesh!Cost(l)
  BY <1>5 DEF SearchInv
<1>7. /\ IsFiniteSet(Unrelaxed(s, D)) /\ Cardinality(Unrelaxed(s, D)) \in Nat
  BY WaitingAreCounted
<1>8. rest = [queue |-> s.queue \ {p}, serial |-> s.serial, best |-> s.best, top |-> s.top,
              link |-> s.link, found |-> s.found]
  BY DEF SearchState
<1>9. CASE p.cost > s.best[p.node]
  <2> DEFINE t == [queue |-> s.queue \ {p}, serial |-> s.serial, best |-> s.best, top |-> s.top,
                   link |-> s.link, found |-> s.found]
  <2>1. Mesh!Pop(s) = t
    BY <1>8, <1>9 DEF Mesh!Pop
  <2>2. t \in SearchState
    BY <1>1 DEF SearchState
  <2>3. Frontier(c, s.queue \ {p}, s.best, D)
    BY <1>2, <1>3, <1>9, StaleIsDropped
  <2>4. Unrelaxed(t, D) = Unrelaxed(s, D)
    BY DEF Unrelaxed
  <2>5. SearchInv(c, t, D)
    BY <1>1, <2>3, <2>4 DEF SearchInv
  <2>6. Weight(t, D) < Weight(s, D)
    <3>1. /\ Cardinality(s.queue \ {p}) + Cardinality(Unrelaxed(s, D)) \in Nat
          /\ Cardinality(s.queue) + Cardinality(Unrelaxed(s, D)) \in Nat
          /\ Cardinality(s.queue \ {p}) + Cardinality(Unrelaxed(s, D))
               < Cardinality(s.queue) + Cardinality(Unrelaxed(s, D))
      BY <1>4, <1>7
    <3>2. LinkCount + 1 \in Nat \ {0} /\ LinkCount + 1 - s.link \in 0..((LinkCount + 1) - 1)
      BY <1>1
    <3> QED
      BY <2>4, <3>1, <3>2, WeightFalls DEF Weight
  <2> QED
    BY <2>1, <2>2, <2>5, <2>6 DEF Searching
<1>10. CASE ~(p.cost > s.best[p.node]) /\ p.node = Target
  <2> DEFINE t == [queue |-> s.queue \ {p}, serial |-> s.serial, best |-> s.best, top |-> p,
                   link |-> s.link, found |-> TRUE]
  <2>1. Mesh!Pop(s) = t
    BY <1>8, <1>10 DEF Mesh!Pop
  <2>2. t \in SearchState
    BY <1>1, <1>3 DEF SearchState
  <2>3. p.cost = s.best[p.node] /\ p.cost <= Mesh!Beyond
    BY <1>2, <1>3, <1>10, LeastIsNew DEF Frontier
  <2>4. \A n \in Mesh!Place \ D : p.cost <= s.best[n]
    BY <1>2, <1>3, <2>3, OthersAreFarther
  <2>5. Cheapest(c, p.cost)
    <3>1. Target \notin D /\ s.best[Source] = 0
      BY <1>3 DEF Frontier
    <3> QED
      BY <1>1, <1>3, <1>6, <2>4, <3>1, NoneIsCheaper
  <2>6. Leads(c, p.links, Target, p.cost) /\ Len(p.links) <= Cardinality(D)
    BY <1>2, <1>3, <1>10 DEF Frontier
  <2>7. Cardinality(D) <= Cardinality(Mesh!Place) - 1 /\ Cardinality(D) \in Nat
        /\ Cardinality(Mesh!Place) \in Nat
    <3>1. Target \in Mesh!Place /\ D \subseteq Mesh!Place \ {Target}
      BY <1>3, LinksAreNumbered DEF Frontier
    <3>2. IsFiniteSet(Mesh!Place \ {Target})
          /\ Cardinality(Mesh!Place \ {Target}) = Cardinality(Mesh!Place) - 1
      BY <3>1, PlacesAreFinite, FS_RemoveElement
    <3>3. Cardinality(D) <= Cardinality(Mesh!Place \ {Target})
      BY <3>1, <3>2, FS_Subset
    <3> QED
      BY <3>2, <3>3, PlacesAreCounted
  <2>8. Len(p.links) <= Cardinality(Mesh!Place) - 1
    BY <1>3, <2>6, <2>7
  <2>9. FoundInv(c, t)
    BY <1>1, <2>3, <2>5, <2>6, <2>8 DEF FoundInv
  <2> QED
    BY <2>1, <2>2, <2>9 DEF Searching
<1>11. CASE ~(p.cost > s.best[p.node]) /\ p.node # Target
  <2> DEFINE t == [queue |-> s.queue \ {p}, serial |-> s.serial, best |-> s.best, top |-> p,
                   link |-> 1, found |-> s.found]
             E == D \cup {p.node}
  <2>1. Mesh!Pop(s) = t
    BY <1>8, <1>11 DEF Mesh!Pop
  <2>2. t \in SearchState
    BY <1>1, <1>3 DEF SearchState
  <2>3. /\ Frontier(c, s.queue \ {p}, s.best, E) /\ Cardinality(E) = Cardinality(D) + 1
        /\ \A d \in E : s.best[d] <= p.cost
    <3>1. p.node # Target /\ ~(p.cost > s.best[p.node])
      BY <1>11
    <3>2. /\ Frontier(c, s.queue \ {p}, s.best, D \cup {p.node})
          /\ Cardinality(D \cup {p.node}) = Cardinality(D) + 1
          /\ \A d \in D \cup {p.node} : s.best[d] <= p.cost
      <4> HIDE DEF p
      <4>1. p \in s.queue /\ (\A q \in s.queue : p.cost <= q.cost) /\ Frontier(c, s.queue, s.best, D)
        BY <1>2, <1>3
      <4> QED
        BY <3>1, <4>1, LeastIsExpanded
    <3> QED
      BY <3>2
  <2>4. p.node \in Mesh!Place \ D /\ p.cost = s.best[p.node] /\ E \in SUBSET Mesh!Place
    BY <1>2, <1>3, <1>11, LeastIsNew
  <2>5. Unrelaxed(t, E) = Unrelaxed(s, D)
    <3>1. ASSUME NEW l \in Mesh!Link PROVE l \in Unrelaxed(t, E) <=> Links[l].source \notin D
      <4>1. l >= 1 /\ 1 \in Mesh!Link
        BY <1>1
      <4> QED
        BY <2>4, <4>1 DEF Unrelaxed
    <3> QED
      BY <1>5, <3>1 DEF Unrelaxed
  <2>6. Expanding(c, t, E)
    <3>1. Leads(c, p.links, p.node, p.cost) /\ Len(p.links) <= Cardinality(D) /\ Cardinality(D) \in Nat
      BY <1>2, <1>3, PlacesAreCounted DEF Frontier
    <3>2. Len(p.links) + 1 <= Cardinality(E)
      BY <1>3, <2>3, <3>1
    <3> QED
      BY <1>2, <2>3, <2>4, <3>1, <3>2 DEF Expanding
  <2>7. SearchInv(c, t, E)
    <3>1. \A l \in Mesh!Link \ Unrelaxed(t, E) :
            Mesh!Eligible(l, c) => s.best[Links[l].target] <= s.best[Links[l].source] + Mesh!Cost(l)
      BY <1>5, <1>6, <2>5
    <3> HIDE DEF E
    <3> QED
      BY <1>1, <2>3, <2>6, <3>1 DEF SearchInv
  <2>8. Weight(t, E) < Weight(s, D)
    <3>1. /\ Cardinality(s.queue \ {p}) + Cardinality(Unrelaxed(s, D)) \in Nat
          /\ Cardinality(s.queue) + Cardinality(Unrelaxed(s, D)) \in Nat
          /\ Cardinality(s.queue \ {p}) + Cardinality(Unrelaxed(s, D))
               < Cardinality(s.queue) + Cardinality(Unrelaxed(s, D))
      BY <1>4, <1>7
    <3>2. /\ LinkCount + 1 \in Nat \ {0} /\ LinkCount + 1 - s.link \in 0..((LinkCount + 1) - 1)
          /\ LinkCount + 1 - 1 \in 0..((LinkCount + 1) - 1)
      BY <1>1
    <3> QED
      BY <2>5, <3>1, <3>2, WeightFalls DEF Weight
  <2> QED
    BY <2>1, <2>2, <2>4, <2>7, <2>8 DEF Searching
<1> QED
  BY <1>9, <1>10, <1>11

LEMMA RelaxKeeps ==
  ASSUME Mesh!TypeOK, NEW c, NEW s \in SearchState, NEW D \in SUBSET Mesh!Place,
         SearchInv(c, s, D), s.link \in Mesh!Link
  PROVE  Searching(c, Mesh!Relax(s, c), Weight(s, D))
<1> DEFINE l == s.link
           p == s.top
           to == Links[l].target
           cost == p.cost + Mesh!Cost(l)
           next == [s EXCEPT !.link = l + 1]
<1>1. /\ s.queue \in SUBSET Pushed /\ s.serial \in Nat /\ s.best \in [Mesh!Place -> Nat]
      /\ p \in Pushed /\ l \in 1..LinkCount /\ s.found = FALSE /\ LinkCount \in Nat
      /\ Mesh!Link = 1..LinkCount /\ l + 1 \in 1..(LinkCount + 1)
  BY LinksAreNumbered DEF SearchState, SearchInv
<1>2. Frontier(c, s.queue, s.best, D) /\ Expanding(c, s, D)
  BY DEF SearchInv
<1>3. /\ p.cost \in Nat /\ p.node \in Mesh!Place /\ Len(p.links) \in Nat /\ to \in Mesh!Place
      /\ Mesh!Cost(l) \in Nat /\ cost \in Nat /\ Mesh!Beyond \in Nat /\ p.links \in Seq(Mesh!Link)
      /\ s.best[to] \in Nat /\ Cardinality(D) \in Nat
  <2>1. p.cost \in Nat /\ p.node \in Mesh!Place /\ p.links \in Seq(Mesh!Link)
    BY <1>1 DEF Pushed
  <2>2. to \in Mesh!Place /\ Mesh!Cost(l) \in Nat /\ Mesh!Beyond \in Nat
    BY <1>1, LinksAreNumbered, CostsAreNat
  <2>3. Cardinality(D) \in Nat
    BY PlacesAreCounted
  <2>4. cost \in Nat
    BY <2>1, <2>2
  <2>5. Len(p.links) \in Nat
    BY <2>1
  <2>6. s.best[to] \in Nat
    BY <1>1, <2>2
  <2> HIDE DEF l, p, to, cost, next
  <2> QED
    BY <2>1, <2>2, <2>3, <2>4, <2>5, <2>6
<1>4. /\ p.node \in D /\ p.cost = s.best[p.node] /\ \A d \in D : s.best[d] <= p.cost
      /\ \A q \in s.queue : p.cost <= q.cost
      /\ Leads(c, p.links, p.node, p.cost) /\ Len(p.links) + 1 <= Cardinality(D)
  BY <1>2 DEF Expanding
<1>5. next = [queue |-> s.queue, serial |-> s.serial, best |-> s.best, top |-> p,
              link |-> l + 1, found |-> s.found]
  BY DEF SearchState
<1>7. \A t \in SearchState : t.link = l + 1 /\ t.top = p =>
        Unrelaxed(t, D) = {k \in Unrelaxed(s, D) : Links[k].source = p.node => k # l}
  <2> SUFFICES ASSUME NEW t \in SearchState, t.link = l + 1, t.top = p, NEW k \in Mesh!Link
               PROVE  k \in Unrelaxed(t, D) <=> k \in Unrelaxed(s, D) /\ (Links[k].source = p.node => k # l)
    BY DEF Unrelaxed
  <2>1. k \in Unrelaxed(s, D) <=> Links[k].source \notin D \/ (Links[k].source = p.node /\ k >= l)
    BY DEF Unrelaxed
  <2>2. k \in Unrelaxed(t, D) <=>
          \/ Links[k].source \notin D
          \/ t.link \in Mesh!Link /\ Links[k].source = t.top.node /\ k >= t.link
    BY DEF Unrelaxed
  <2>3. k >= t.link <=> k >= l /\ k # l
    BY <1>1
  <2>4. k >= t.link => t.link \in Mesh!Link
    BY <1>1
  <2>5. CASE Links[k].source = p.node
    <3>1. ~(Links[k].source \notin D) /\ Links[k].source = t.top.node
      BY <1>4, <2>5
    <3> HIDE DEF p, l
    <3> QED
      BY <2>1, <2>2, <2>3, <2>4, <2>5, <3>1, Zenon
  <2>6. CASE Links[k].source # p.node
    <3>1. Links[k].source # t.top.node
      BY <2>6
    <3> HIDE DEF p, l
    <3> QED
      BY <2>1, <2>2, <2>6, <3>1, Zenon
  <2> QED
    BY <2>5, <2>6
<1>8. IsFiniteSet(Unrelaxed(s, D)) /\ Cardinality(Unrelaxed(s, D)) \in Nat
      /\ IsFiniteSet(s.queue) /\ Cardinality(s.queue) \in Nat
  BY <1>2, WaitingAreCounted, FS_CardinalityType DEF Frontier
<1>9. CASE Links[l].source # p.node \/ ~Mesh!Eligible(l, c) \/ cost >= s.best[to]
  <2> DEFINE t == [queue |-> s.queue, serial |-> s.serial, best |-> s.best, top |-> p,
                   link |-> l + 1, found |-> s.found]
  <2>1. Mesh!Relax(s, c) = t
    BY <1>5, <1>9 DEF Mesh!Relax
  <2>2. t \in SearchState
    BY <1>1 DEF SearchState
  <2>3. Unrelaxed(t, D) = {k \in Unrelaxed(s, D) : Links[k].source = p.node => k # l}
    BY <1>7, <2>2
  <2>4. ASSUME NEW k \in Mesh!Link \ Unrelaxed(t, D), Mesh!Eligible(k, c)
        PROVE  s.best[Links[k].target] <= s.best[Links[k].source] + Mesh!Cost(k)
    <3>1. CASE k \in Mesh!Link \ Unrelaxed(s, D)
      BY <2>4, <3>1 DEF SearchInv
    <3>2. CASE k \in Unrelaxed(s, D)
      <4>1. k = l /\ Links[l].source = p.node
        BY <2>3, <3>2
      <4>2. cost >= s.best[to]
        BY <1>9, <2>4, <4>1
      <4> QED
        BY <1>3, <1>4, <4>1, <4>2
    <3> QED
      BY <3>1, <3>2
  <2>5. Expanding(c, t, D)
    BY <1>4 DEF Expanding
  <2>6. SearchInv(c, t, D)
    BY <1>1, <1>2, <2>4, <2>5 DEF SearchInv
  <2>7. Weight(t, D) < Weight(s, D)
    <3>1. Cardinality(Unrelaxed(t, D)) \in Nat /\ Cardinality(Unrelaxed(t, D)) <= Cardinality(Unrelaxed(s, D))
      <4>1. Unrelaxed(t, D) \subseteq Unrelaxed(s, D)
        BY <2>3
      <4> QED
        BY <1>8, <4>1, FS_Subset, FS_CardinalityType
    <3>2. LinkCount + 1 \in Nat \ {0} /\ LinkCount + 1 - s.link \in 0..((LinkCount + 1) - 1)
          /\ LinkCount + 1 - (l + 1) \in 0..((LinkCount + 1) - 1)
          /\ LinkCount + 1 - (l + 1) < LinkCount + 1 - s.link
      BY <1>1
    <3>3. /\ Cardinality(s.queue) + Cardinality(Unrelaxed(t, D)) \in Nat
          /\ Cardinality(s.queue) + Cardinality(Unrelaxed(s, D)) \in Nat
          /\ \/ Cardinality(s.queue) + Cardinality(Unrelaxed(t, D))
                  < Cardinality(s.queue) + Cardinality(Unrelaxed(s, D))
             \/ Cardinality(s.queue) + Cardinality(Unrelaxed(t, D))
                  = Cardinality(s.queue) + Cardinality(Unrelaxed(s, D))
      BY <1>8, <3>1
    <3> QED
      BY <3>2, <3>3, WeightFalls DEF Weight
  <2> QED
    BY <2>1, <2>2, <2>6, <2>7 DEF Searching
<1>10. CASE Links[l].source = p.node /\ Mesh!Eligible(l, c) /\ ~(cost >= s.best[to])
  <2> DEFINE new == [cost |-> cost, serial |-> s.serial, node |-> to, links |-> Append(p.links, l)]
             best == [s.best EXCEPT ![to] = cost]
             t == [queue |-> s.queue \cup {new}, serial |-> s.serial + 1, best |-> best, top |-> p,
                   link |-> l + 1, found |-> s.found]
  <2>1. Mesh!Relax(s, c) = t
    <3>1. Mesh!Relax(s, c) = [next EXCEPT !.best[to] = cost, !.serial = @ + 1, !.queue = @ \cup {new}]
      BY <1>10 DEF Mesh!Relax
    <3> HIDE DEF new, cost, to
    <3> QED
      BY <1>5, <3>1
  <2>2. new \in Pushed /\ best \in [Mesh!Place -> Nat]
    BY <1>1, <1>3 DEF Pushed
  <2>3. t \in SearchState
    <3> HIDE DEF new, best
    <3> QED
      BY <1>1, <2>2 DEF SearchState
  <2>4. /\ Leads(c, Append(p.links, l), to, cost)
        /\ Len(Append(p.links, l)) <= Cardinality(D)
    BY <1>3, <1>4, <1>10, LeadsOn
  <2>5. cost < s.best[to] /\ to \notin D /\ \A d \in D : s.best[d] <= cost
    <3>1. cost < s.best[to]
      BY <1>3, <1>10
    <3>2. \A d \in D : s.best[d] \in Nat
      BY <1>1
    <3>3. \A d \in D : s.best[d] <= cost
      BY <1>3, <1>4, <3>2
    <3> QED
      BY <1>3, <3>1, <3>3
  <2>6. Frontier(c, s.queue \cup {new}, best, D)
    <3>1. new.node = to /\ new.cost = cost /\ new.links = Append(p.links, l)
      OBVIOUS
    <3> HIDE DEF new, cost, to
    <3> QED
      BY <1>2, <1>3, <2>2, <2>4, <2>5, <3>1, CheaperIsPushed
  <2>7. Unrelaxed(t, D) = {k \in Unrelaxed(s, D) : Links[k].source = p.node => k # l}
    BY <1>7, <2>3
  <2>8. /\ \A n \in Mesh!Place : best[n] <= s.best[n] /\ best[n] \in Nat /\ s.best[n] \in Nat
        /\ \A d \in D : best[d] = s.best[d]
        /\ best[to] = cost
    <3>1. PICK old \in [Mesh!Place -> Nat] : old = s.best
      BY <1>1
    <3>2. PICK m \in Nat : m = cost
      BY <1>3
    <3>3. best = [old EXCEPT ![to] = m] /\ m < old[to] /\ old[to] \in Nat
      BY <1>3, <2>5, <3>1, <3>2
    <3>4. D \subseteq Mesh!Place /\ to \in Mesh!Place /\ to \notin D
      BY <1>3, <2>5
    <3> HIDE DEF best, cost, to
    <3>5. \A n \in Mesh!Place : best[n] = IF n = to THEN m ELSE old[n]
      BY <3>1, <3>3, <3>4
    <3>6. \A n \in Mesh!Place : best[n] <= old[n] /\ best[n] \in Nat /\ old[n] \in Nat
      BY <3>1, <3>3, <3>5
    <3>7. \A d \in D : best[d] = old[d]
      BY <3>4, <3>5
    <3> QED
      BY <3>1, <3>2, <3>4, <3>5, <3>6, <3>7
  <2>9. ASSUME NEW k \in Mesh!Link \ Unrelaxed(t, D), Mesh!Eligible(k, c)
        PROVE  best[Links[k].target] <= best[Links[k].source] + Mesh!Cost(k)
    <3>1. CASE k \in Mesh!Link \ Unrelaxed(s, D)
      <4>1. Links[k].source \in D
        BY <3>1 DEF Unrelaxed
      <4>2. s.best[Links[k].target] <= s.best[Links[k].source] + Mesh!Cost(k)
        BY <2>9, <3>1 DEF SearchInv
      <4>3. /\ best[Links[k].target] <= s.best[Links[k].target]
            /\ best[Links[k].target] \in Nat /\ s.best[Links[k].target] \in Nat
            /\ s.best[Links[k].source] \in Nat /\ best[Links[k].source] = s.best[Links[k].source]
            /\ Mesh!Cost(k) \in Nat
        BY <2>8, <4>1, LinksAreNumbered, CostsAreNat
      <4> HIDE DEF best
      <4> QED
        BY <4>2, <4>3
    <3>2. CASE k \in Unrelaxed(s, D)
      <4>1. k = l /\ Links[k].source = p.node /\ Links[k].target = to
        BY <1>10, <2>7, <3>2
      <4>2. best[Links[k].source] = p.cost
        <5>1. best[p.node] = s.best[p.node]
          BY <1>4, <2>8
        <5> HIDE DEF best, p
        <5> QED
          BY <1>4, <4>1, <5>1
      <4>3. best[Links[k].target] = p.cost + Mesh!Cost(k)
        <5>1. best[to] = p.cost + Mesh!Cost(l)
          BY <2>8
        <5> HIDE DEF best, p, l, to
        <5> QED
          BY <4>1, <5>1
      <4>4. \A x \in Nat : x <= x
        OBVIOUS
      <4>5. p.cost + Mesh!Cost(k) \in Nat
        BY <1>3, <4>1
      <4> HIDE DEF best, p, l, to
      <4> QED
        BY <4>2, <4>3, <4>4, <4>5
    <3> QED
      BY <3>1, <3>2
  <2>10. Expanding(c, t, D)
    <3>1. p.cost <= new.cost
      BY <1>3
    <3>2. \A q \in s.queue \cup {new} : p.cost <= q.cost
      BY <1>4, <3>1
    <3> HIDE DEF new, best
    <3> QED
      BY <1>4, <2>8, <3>2 DEF Expanding
  <2>11. SearchInv(c, t, D)
    <3> HIDE DEF new, best
    <3> QED
      BY <1>1, <2>6, <2>9, <2>10 DEF SearchInv
  <2>12. Weight(t, D) < Weight(s, D)
    <3>1. /\ Cardinality(Unrelaxed(t, D)) \in Nat
          /\ Cardinality(Unrelaxed(t, D)) = Cardinality(Unrelaxed(s, D)) - 1
      <4> HIDE DEF t
      <4>1. l \in Unrelaxed(s, D) /\ Unrelaxed(t, D) = Unrelaxed(s, D) \ {l}
        <5>1. l \in Unrelaxed(s, D)
          BY <1>1, <1>10 DEF Unrelaxed
        <5>2. Unrelaxed(t, D) = Unrelaxed(s, D) \ {l}
          BY <1>10, <2>7
        <5> QED
          BY <5>1, <5>2
      <4>2. IsFiniteSet(Unrelaxed(s, D) \ {l})
            /\ Cardinality(Unrelaxed(s, D) \ {l}) = Cardinality(Unrelaxed(s, D)) - 1
        <5> HIDE DEF l
        <5>1. IsFiniteSet(Unrelaxed(s, D)) /\ l \in Unrelaxed(s, D)
          BY <1>8, <4>1
        <5> QED
          BY <5>1, FS_RemoveElement
      <4> QED
        BY <4>1, <4>2, FS_CardinalityType
    <3>2. /\ Cardinality(s.queue \cup {new}) \in Nat
          /\ Cardinality(s.queue \cup {new}) <= Cardinality(s.queue) + 1
      <4> HIDE DEF new
      <4>1. IsFiniteSet(s.queue \cup {new})
            /\ \/ Cardinality(s.queue \cup {new}) = Cardinality(s.queue)
               \/ Cardinality(s.queue \cup {new}) = Cardinality(s.queue) + 1
        BY <1>8, FS_AddElement
      <4>2. Cardinality(s.queue \cup {new}) \in Nat
        BY <4>1, FS_CardinalityType
      <4> QED
        BY <1>8, <4>1, <4>2
    <3>3. LinkCount + 1 \in Nat \ {0} /\ LinkCount + 1 - s.link \in 0..((LinkCount + 1) - 1)
          /\ LinkCount + 1 - (l + 1) \in 0..((LinkCount + 1) - 1)
          /\ LinkCount + 1 - (l + 1) < LinkCount + 1 - s.link
      BY <1>1
    <3>4. /\ Cardinality(s.queue \cup {new}) + Cardinality(Unrelaxed(t, D)) \in Nat
          /\ Cardinality(s.queue) + Cardinality(Unrelaxed(s, D)) \in Nat
          /\ \/ Cardinality(s.queue \cup {new}) + Cardinality(Unrelaxed(t, D))
                  < Cardinality(s.queue) + Cardinality(Unrelaxed(s, D))
             \/ Cardinality(s.queue \cup {new}) + Cardinality(Unrelaxed(t, D))
                  = Cardinality(s.queue) + Cardinality(Unrelaxed(s, D))
      <4> HIDE DEF new
      <4> QED
        BY <1>8, <3>1, <3>2
    <3> HIDE DEF new, best
    <3> QED
      BY <3>3, <3>4, WeightFalls DEF Weight
  <2> QED
    BY <2>1, <2>3, <2>11, <2>12 DEF Searching
<1> QED
  BY <1>9, <1>10

Searched(c) ==
  {s \in SearchState : FoundInv(c, s) \/ \E D \in SUBSET Mesh!Place : SearchInv(c, s, D)}

\* The loops have ended: with a path, or with all places expanded that can be reached.
Ended(s) == s.found \/ (s.link \notin Mesh!Link /\ s.queue = {})

LEMMA PassKeeps ==
  ASSUME Mesh!TypeOK, NEW c, NEW s \in Searched(c)
  PROVE  Mesh!Pass(s, c) \in Searched(c)
<1>1. s \in SearchState
  BY DEF Searched
<1>2. CASE FoundInv(c, s)
  <2>1. Mesh!Pass(s, c) = s
    BY <1>2 DEF FoundInv, Mesh!Pass
  <2> QED
    BY <2>1
<1>3. ASSUME NEW D \in SUBSET Mesh!Place, SearchInv(c, s, D) PROVE Mesh!Pass(s, c) \in Searched(c)
  <2>1. ASSUME NEW t, NEW w, Searching(c, t, w) PROVE t \in Searched(c)
    BY <2>1 DEF Searching, Searched
  <2>2. CASE s.link \in Mesh!Link
    <3>1. Searching(c, Mesh!Relax(s, c), Weight(s, D))
      BY <1>1, <1>3, <2>2, RelaxKeeps
    <3>2. Mesh!Pass(s, c) = Mesh!Relax(s, c)
      BY <2>2 DEF Mesh!Pass
    <3> QED
      BY <2>1, <3>1, <3>2
  <2>3. CASE s.link \notin Mesh!Link /\ s.queue = {}
    <3>1. Mesh!Pass(s, c) = s
      BY <2>3 DEF Mesh!Pass
    <3> QED
      BY <3>1
  <2>4. CASE s.link \notin Mesh!Link /\ s.queue # {}
    <3>1. Searching(c, Mesh!Pop(s), Weight(s, D))
      BY <1>1, <1>3, <2>4, PopKeeps
    <3>2. Mesh!Pass(s, c) = Mesh!Pop(s)
      BY <1>3, <2>4 DEF Mesh!Pass, SearchInv
    <3> QED
      BY <2>1, <3>1, <3>2
  <2> QED
    BY <2>2, <2>3, <2>4
<1> QED
  BY <1>2, <1>3 DEF Searched

LEMMA SearchIsLoop ==
  ASSUME Mesh!TypeOK, NEW c
  PROVE  /\ Mesh!Search(c)[0] = Mesh!Start
         /\ \A n \in Nat : Mesh!Search(c)[n + 1] = Mesh!Pass(Mesh!Search(c)[n], c)
<1> DEFINE S == Searched(c)
           F == [n \in Nat |-> [s \in S |-> Mesh!Pass(s, c)]]
           Def(f) == [n \in Nat |-> IF n = 0 THEN Mesh!Start ELSE Mesh!Pass(f[n - 1], c)]
<1>1. Mesh!Start \in S
  BY StartHolds DEF Searched
<1>2. F \in [Nat -> [S -> S]]
  BY PassKeeps
<1>3. PICK f : IsRun(f, S, Mesh!Start, F)
  <2> HIDE DEF S, F, Def
  <2> QED
    BY <1>1, <1>2, RunExists
<1>4. ASSUME NEW n \in Nat PROVE f[n] = Def(f)[n]
  <2>1. CASE n = 0
    BY <1>3, <2>1 DEF IsRun
  <2>2. CASE n # 0
    <3>1. n - 1 \in Nat /\ (n - 1) + 1 = n
      BY <2>2
    <3>2. f[n] = F[n][f[n - 1]] /\ f[n - 1] \in S
      <4> HIDE DEF S, F
      <4> QED
        BY <1>3, <3>1 DEF IsRun
    <3> QED
      BY <2>2, <3>2
  <2> QED
    BY <2>1, <2>2
<1>5. f = Def(f)
  <2>1. f \in [Nat -> S]
    BY <1>3 DEF IsRun
  <2> HIDE DEF S
  <2> QED
    BY <1>4, <2>1
<1>6. Mesh!Search(c) = Def(Mesh!Search(c))
  <2>1. Mesh!Search(c) = CHOOSE g : g = Def(g)
    BY DEF Mesh!Search
  <2> HIDE DEF Def
  <2> QED
    BY <1>5, <2>1
<1>7. Mesh!Search(c)[0] = Mesh!Start
  BY <1>6
<1>8. ASSUME NEW n \in Nat PROVE Mesh!Search(c)[n + 1] = Mesh!Pass(Mesh!Search(c)[n], c)
  <2>1. n + 1 \in Nat /\ n + 1 # 0 /\ (n + 1) - 1 = n
    OBVIOUS
  <2> QED
    BY <1>6, <2>1
<1> QED
  BY <1>7, <1>8

LEMMA WeightIsNat ==
  ASSUME NEW s \in SearchState, NEW c, NEW D, SearchInv(c, s, D)
  PROVE  Weight(s, D) \in Nat
<1>1. Cardinality(s.queue) \in Nat /\ Cardinality(Unrelaxed(s, D)) \in Nat
  BY WaitingAreCounted, FS_CardinalityType DEF SearchInv, Frontier
<1>2. LinkCount + 1 \in Nat /\ LinkCount + 1 - s.link \in Nat
  BY LinksAreNumbered DEF SearchState
<1>3. (LinkCount + 1) * (Cardinality(s.queue) + Cardinality(Unrelaxed(s, D))) \in Nat
  <2>1. Cardinality(s.queue) + Cardinality(Unrelaxed(s, D)) \in Nat
    BY <1>1
  <2> QED
    BY <1>2, <2>1, ProductIsNat
<1> QED
  BY <1>2, <1>3 DEF Weight

LEMMA SomethingIsLeft ==
  ASSUME NEW s \in SearchState, NEW c, NEW D, SearchInv(c, s, D), ~Ended(s)
  PROVE  Weight(s, D) # 0
<1>1. /\ Cardinality(s.queue) \in Nat /\ Cardinality(Unrelaxed(s, D)) \in Nat /\ IsFiniteSet(s.queue)
  BY WaitingAreCounted, FS_CardinalityType DEF SearchInv, Frontier
<1>2. LinkCount \in Nat /\ s.link \in 1..(LinkCount + 1) /\ Mesh!Link = 1..LinkCount
  BY LinksAreNumbered DEF SearchState
<1>3. PICK k \in Nat \ {0} : k = LinkCount + 1
  BY <1>2
<1>4. PICK a \in Nat : a = Cardinality(s.queue) + Cardinality(Unrelaxed(s, D))
  BY <1>1
<1>5. PICK x \in Nat : x = LinkCount + 1 - s.link
  BY <1>2
<1>6. Weight(s, D) = k * a + x
  <2>1. Weight(s, D) =
          (LinkCount + 1) * (Cardinality(s.queue) + Cardinality(Unrelaxed(s, D))) + (LinkCount + 1 - s.link)
    BY DEF Weight
  <2> QED
    BY <1>3, <1>4, <1>5, <2>1, Zenon
<1>7. k * a \in Nat
  OBVIOUS
<1>8. CASE s.link \in Mesh!Link
  <2>1. x # 0
    BY <1>2, <1>5, <1>8
  <2> QED
    BY <1>6, <1>7, <2>1
<1>9. CASE s.link \notin Mesh!Link
  <2>1. s.queue # {}
    BY <1>9 DEF Ended
  <2>2. a # 0
    BY <1>1, <1>4, <2>1, FS_EmptySet
  <2>3. k * a # 0
    BY <2>2
  <2> QED
    BY <1>6, <1>7, <2>3
<1> QED
  BY <1>8, <1>9

\* The search ends within Passes, as each pass has less left to do.
LEMMA SearchEnds ==
  ASSUME Mesh!TypeOK, NEW c
  PROVE  LET s == Mesh!Search(c)[Mesh!Passes] IN s \in Searched(c) /\ Ended(s)
<1> DEFINE run(n) == Mesh!Search(c)[n]
           has(n) == \/ FoundInv(c, run(n))
                     \/ \E D \in SUBSET Mesh!Place :
                          /\ SearchInv(c, run(n), D)
                          /\ Ended(run(n)) \/ Weight(run(n), D) + n <= Mesh!Passes
           T == {n \in Nat : run(n) \in SearchState /\ has(n)}
<1>1. run(0) = Mesh!Start /\ \A n \in Nat : run(n + 1) = Mesh!Pass(run(n), c)
  BY SearchIsLoop
<1>2. Mesh!Passes \in Nat
  <2>1. LinkCount + 1 \in Nat
    BY LinksAreNumbered
  <2> QED
    BY <2>1, ProductIsNat DEF Mesh!Passes, LinkCount
<1> HIDE DEF run
<1>3. 0 \in T
  <2>1. Weight(Mesh!Start, {}) + 0 <= Mesh!Passes
    BY <1>2, StartHolds
  <2> QED
    BY <1>1, <2>1, StartHolds
<1>4. ASSUME NEW n \in T PROVE n + 1 \in T
  <2>1. n \in Nat /\ run(n) \in SearchState /\ has(n) /\ run(n + 1) = Mesh!Pass(run(n), c)
    BY <1>1
  <2>2. CASE FoundInv(c, run(n))
    <3>1. run(n + 1) = run(n)
      BY <2>1, <2>2 DEF FoundInv, Mesh!Pass
    <3> QED
      BY <2>1, <2>2, <3>1
  <2>3. ASSUME NEW D \in SUBSET Mesh!Place, SearchInv(c, run(n), D), Ended(run(n))
        PROVE  n + 1 \in T
    <3>1. run(n + 1) = run(n)
      BY <2>1, <2>3 DEF SearchInv, Ended, Mesh!Pass
    <3> QED
      BY <2>1, <2>3, <3>1
  <2>4. ASSUME NEW D \in SUBSET Mesh!Place, SearchInv(c, run(n), D), ~Ended(run(n)),
               Weight(run(n), D) + n <= Mesh!Passes
        PROVE  n + 1 \in T
    <3>1. Searching(c, run(n + 1), Weight(run(n), D))
      <4>1. CASE run(n).link \in Mesh!Link
        <5>1. Searching(c, Mesh!Relax(run(n), c), Weight(run(n), D))
          BY <2>1, <2>4, <4>1, RelaxKeeps
        <5> QED
          BY <2>1, <4>1, <5>1 DEF Mesh!Pass
      <4>2. CASE run(n).link \notin Mesh!Link
        <5>1. run(n).queue # {} /\ ~run(n).found
          BY <2>4, <4>2 DEF Ended
        <5>2. Searching(c, Mesh!Pop(run(n)), Weight(run(n), D))
          BY <2>1, <2>4, <4>2, <5>1, PopKeeps
        <5> QED
          BY <2>1, <4>2, <5>1, <5>2 DEF Mesh!Pass
      <4> QED
        BY <4>1, <4>2
    <3>2. run(n + 1) \in SearchState
      BY <3>1 DEF Searching
    <3>3. CASE FoundInv(c, run(n + 1))
      BY <2>1, <3>2, <3>3
    <3>4. ASSUME NEW E \in SUBSET Mesh!Place, SearchInv(c, run(n + 1), E),
                 Weight(run(n + 1), E) < Weight(run(n), D)
          PROVE  n + 1 \in T
      <4>1. Weight(run(n + 1), E) \in Nat /\ Weight(run(n), D) \in Nat
        BY <2>1, <2>4, <3>2, <3>4, WeightIsNat
      <4>2. Weight(run(n + 1), E) + (n + 1) <= Mesh!Passes
        BY <1>2, <2>1, <2>4, <3>4, <4>1
      <4> QED
        BY <2>1, <3>2, <3>4, <4>2
    <3> QED
      BY <3>1, <3>3, <3>4 DEF Searching
  <2> QED
    BY <2>1, <2>2, <2>3, <2>4
<1>5. T = Nat
  <2> HIDE DEF T
  <2>1. T \in SUBSET Nat
    BY DEF T
  <2> QED
    BY <1>3, <1>4, <2>1, AllNaturals
<1> DEFINE s == run(Mesh!Passes)
<1>6. s \in SearchState /\ has(Mesh!Passes)
  BY <1>2, <1>5
<1>7. CASE FoundInv(c, s)
  BY <1>6, <1>7 DEF Searched, Ended, FoundInv, run
<1>8. ASSUME NEW D \in SUBSET Mesh!Place, SearchInv(c, s, D), Ended(s) \/ Weight(s, D) + Mesh!Passes <= Mesh!Passes
      PROVE  s \in Searched(c) /\ Ended(s)
  <2>1. s \in Searched(c)
    BY <1>6, <1>8 DEF Searched
  <2>2. CASE ~Ended(s)
    <3>1. Weight(s, D) = 0
      <4>1. Weight(s, D) \in Nat
        BY <1>6, <1>8, WeightIsNat
      <4> QED
        BY <1>2, <1>8, <2>2, <4>1
    <3> QED
      BY <1>6, <1>8, <2>2, <3>1, SomethingIsLeft
  <2> QED
    BY <2>1, <2>2
<1> QED
  BY <1>6, <1>7, <1>8 DEF run

LEMMA MinIs ==
  ASSUME NEW S \in SUBSET Nat, NEW m \in S, \A n \in S : m <= n
  PROVE  Mesh!Min(S) = m
<1>1. Mesh!Min(S) \in S /\ \A n \in S : Mesh!Min(S) <= n
  BY DEF Mesh!Min
<1>2. Mesh!Min(S) <= m /\ m <= Mesh!Min(S) /\ Mesh!Min(S) \in Nat /\ m \in Nat
  BY <1>1
<1> QED
  BY <1>2

\* The paths of the property are the short ones of those that lead to the target.
LEMMA PathsLead ==
  ASSUME NEW c
  PROVE  /\ \A p \in Mesh!Paths(c) : Leads(c, p, Target, Mesh!CostOf(p)[Len(p)])
         /\ \A p, w : Leads(c, p, Target, w) /\ Len(p) <= Cardinality(Mesh!Place) - 1 => p \in Mesh!Paths(c)
<1>1. Cardinality(Mesh!Place) \in Nat /\ Mesh!Cardinality(Mesh!Place) = Cardinality(Mesh!Place)
  BY PlacesAreFinite, FS_CardinalityType DEF Mesh!Cardinality, Cardinality
<1>2. ASSUME NEW p \in Mesh!Paths(c) PROVE Leads(c, p, Target, Mesh!CostOf(p)[Len(p)])
  <2>1. PICK m \in Nat : p \in [1..m -> Mesh!Link]
    BY <1>1 DEF Mesh!Paths, Mesh!SeqOf
  <2>2. p \in Seq(Mesh!Link)
    BY <2>1
  <2> QED
    BY <2>2 DEF Mesh!Paths, Leads
<1>3. ASSUME NEW p, NEW w, Leads(c, p, Target, w), Len(p) <= Cardinality(Mesh!Place) - 1
      PROVE  p \in Mesh!Paths(c)
  <2>1. p \in Seq(Mesh!Link)
    BY <1>3 DEF Leads
  <2>2. p \in [1..Len(p) -> Mesh!Link] /\ Len(p) \in 0..(Cardinality(Mesh!Place) - 1)
    BY <1>1, <1>3, <2>1
  <2>3. p \in Mesh!SeqOf(Mesh!Link, Cardinality(Mesh!Place) - 1)
    BY <2>2 DEF Mesh!SeqOf
  <2> QED
    BY <1>1, <1>3, <2>3 DEF Mesh!Paths, Leads
<1> QED
  BY <1>2, <1>3

LEMMA ChosenIsCheapest ==
  Mesh!TypeOK => Mesh!CheapestPath
<1> SUFFICES ASSUME Mesh!TypeOK, NEW c \in Offers
             PROVE  LET chosen == Mesh!ChoosePath(c)
                        costs == {Mesh!CostOf(p)[Len(p)] : p \in Mesh!Paths(c)} IN
                      /\ chosen.cost = Mesh!Min(costs \cup {Mesh!Beyond})
                      /\ \/ chosen.cost = Mesh!Beyond
                         \/ /\ chosen.links \in Mesh!Paths(c)
                            /\ Mesh!CostOf(chosen.links)[Len(chosen.links)] = chosen.cost
  BY DEF Mesh!CheapestPath
<1> DEFINE costs == {Mesh!CostOf(p)[Len(p)] : p \in Mesh!Paths(c)}
           chosen == Mesh!ChoosePath(c)
           s == Mesh!Search(c)[Mesh!Passes]
<1>1. s \in Searched(c) /\ Ended(s)
  BY SearchEnds
<1>2. chosen = IF s.found THEN [links |-> s.top.links, cost |-> s.top.cost]
               ELSE [links |-> <<>>, cost |-> Mesh!Beyond]
  BY DEF Mesh!ChoosePath
<1> HIDE DEF chosen
<1> HIDE DEF s
<1>3. Mesh!Beyond \in Nat
  BY CostsAreNat
<1>4. costs \subseteq Nat
  <2> SUFFICES ASSUME NEW p \in Mesh!Paths(c) PROVE Mesh!CostOf(p)[Len(p)] \in Nat
    OBVIOUS
  <2>1. p \in Seq(Mesh!Link)
    BY PathsLead DEF Leads
  <2>2. Len(p) \in 0..Len(p)
    BY <2>1
  <2> QED
    BY <2>1, <2>2, CostsAddUp
<1>5. ASSUME NEW r, Cheapest(c, r) PROVE \A w \in costs : r <= w
  <2>1. ASSUME NEW p \in Mesh!Paths(c) PROVE r <= Mesh!CostOf(p)[Len(p)]
    BY <1>5, PathsLead DEF Cheapest
  <2> QED
    BY <2>1
<1>6. CASE FoundInv(c, s)
  <2>1. s.top.links \in Mesh!Paths(c)
    BY <1>6, PathsLead DEF FoundInv
  <2>2. s.top.cost = Mesh!CostOf(s.top.links)[Len(s.top.links)]
    BY <1>6 DEF FoundInv, Leads
  <2>3. s.top.cost \in costs
    BY <2>1, <2>2
  <2>4. \A w \in costs \cup {Mesh!Beyond} : s.top.cost <= w
    BY <1>5, <1>6 DEF FoundInv
  <2> HIDE DEF costs
  <2>5. Mesh!Min(costs \cup {Mesh!Beyond}) = s.top.cost
    BY <1>3, <1>4, <2>3, <2>4, MinIs
  <2>6. chosen.links = s.top.links /\ chosen.cost = s.top.cost
    BY <1>2, <1>6 DEF FoundInv
  <2> QED
    BY <2>1, <2>2, <2>5, <2>6 DEF costs, chosen
<1>7. ASSUME NEW D \in SUBSET Mesh!Place, SearchInv(c, s, D)
      PROVE  chosen.cost = Mesh!Min(costs \cup {Mesh!Beyond}) /\ chosen.cost = Mesh!Beyond
  <2>1. s.link \notin Mesh!Link /\ s.queue = {} /\ ~s.found
    BY <1>1, <1>7 DEF Ended, SearchInv
  <2>2. Frontier(c, s.queue, s.best, D)
    BY <1>7 DEF SearchInv
  <2>3. \A n \in Mesh!Place \ D : Mesh!Beyond <= s.best[n]
    BY <1>3, <2>1, <2>2, OthersAreFarther
  <2>4. \A l \in Mesh!Link : Links[l].source \in D /\ Mesh!Eligible(l, c)
          => s.best[Links[l].target] <= s.best[Links[l].source] + Mesh!Cost(l)
    <3>1. \A l \in Mesh!Link : Links[l].source \in D => l \in Mesh!Link \ Unrelaxed(s, D)
      BY <2>1 DEF Unrelaxed
    <3> QED
      BY <1>7, <3>1 DEF SearchInv
  <2>5. Cheapest(c, Mesh!Beyond)
    <3>1. Target \notin D /\ s.best[Source] = 0 /\ s.best \in [Mesh!Place -> Nat]
      BY <2>2 DEF Frontier
    <3> QED
      BY <1>3, <2>3, <2>4, <3>1, NoneIsCheaper
  <2>6. \A w \in costs \cup {Mesh!Beyond} : Mesh!Beyond <= w
    BY <1>3, <1>5, <2>5
  <2> HIDE DEF costs
  <2>7. Mesh!Min(costs \cup {Mesh!Beyond}) = Mesh!Beyond
    BY <1>3, <1>4, <2>6, MinIs
  <2> QED
    BY <1>2, <2>1, <2>7
<1> QED
  BY <1>1, <1>6, <1>7 DEF Searched, chosen

-----------------------------------------------------------------------------

DecisionsInv == MeshInv /\ NgramInv /\ PromptInv /\ Traces!TypeOK /\ BudgetInv

LEMMA DecisionsInvariant == MCSpec => []DecisionsInv
<1>1. MCInit => DecisionsInv
  <2>1. MCInit => Mesh!Init /\ Ngram!Init /\ Budgets!Init
    BY DEF MCInit
  <2> QED
    BY <2>1, MeshInit, NgramStarts, PromptInit, TracesInit, BudgetsInit DEF DecisionsInv
<1>2. DecisionsInv /\ [MCNext]_allVars => DecisionsInv'
  BY StepsOfComponents, MeshStepKeeps, NgramGoesOn, PromptStepKeeps, TracesStepKeeps,
     BudgetsStepKeeps
     DEF DecisionsInv
<1> QED
  BY <1>1, <1>2, PTL DEF MCSpec, MCSafetySpec

\* Types of the states of the components that decide: no load of a link is
\* negative, no call is made a third time, no event is counted three times.
THEOREM TypeCorrect == MCSpec => []TypesOK
<1>1. DecisionsInv => TypesOK
  BY DEF DecisionsInv, MeshInv, NgramInv, PromptInv, BudgetInv, TypesOK
<1> QED
  BY <1>1, DecisionsInvariant, PTL

\* ContractLinkStateRouter: what is begun, failed and finished in any order by any
\* users, over whatever paths, leaves no load on a link.
THEOREM LoadIsReturned == MCSpec => []LoadReturned
<1>1. DecisionsInv => LoadReturned
  BY DEF DecisionsInv, MeshInv, LoadReturned
<1> QED
  BY <1>1, DecisionsInvariant, PTL

\* "Choose the lowest-cost contract-safe path": whatever the users have made of
\* delays, loads, failures and circuits, Dijkstra's algorithm finds a path of
\* eligible links if there is one, and no path is cheaper than the one it finds.
THEOREM PathsAreCheapest == MCSpec => []CheapestPath
<1>1. DecisionsInv => CheapestPath
  BY ChosenIsCheapest DEF DecisionsInv, MeshInv, CheapestPath
<1> QED
  BY <1>1, DecisionsInvariant, PTL

\* _latest(), _longest_ctx_match() and batch_propose(): for every request, and all
\* lengths of grams and drafts, the scan with its cut failure table finds the
\* longest repeat and its latest place, only a longer gram of the datastore
\* overrides it, and the draft fits behind the request.
THEOREM DraftsAreContinuations == MCSpec => []DraftFollowsLongest
<1>1. DecisionsInv => DraftFollowsLongest
  BY DraftsFollowLongest DEF DecisionsInv, DraftFollowsLongest
<1> QED
  BY <1>1, DecisionsInvariant, PTL

\* ReferenceHarness.run() and decode_selection_ids(): the application sees its own
\* identifiers, those of the objects that the model meant, and only a read that
\* was sent encoded is sent again.
THEOREM ReferencesAreRestored == MCSpec => []ReferencesRestored
<1>1. DecisionsInv => ReferencesRestored
  BY DEF DecisionsInv, PromptInv, ReferencesRestored
<1> QED
  BY <1>1, DecisionsInvariant, PTL

\* compare_branch_sets(): traces that show every branch are judged as the runs were.
THEOREM VerdictsAreTrue == MCSpec => []VerdictIsTrue
<1>1. DecisionsInv => VerdictIsTrue
  BY VerdictOfCompleteTraces DEF DecisionsInv, VerdictIsTrue
<1> QED
  BY <1>1, DecisionsInvariant, PTL

\* calibrate(), select() and propose(): tokens are drafted only within a budget
\* that was measured, in the same trials as all arms of its context.
THEOREM OnlyMeasuredDrafts == MCSpec => []DraftsAreMeasured
<1>1. DecisionsInv => DraftsAreMeasured
  BY StepsAreMeasured DEF DecisionsInv, DraftsAreMeasured
<1> QED
  BY <1>1, DecisionsInvariant, PTL
=============================================================================
