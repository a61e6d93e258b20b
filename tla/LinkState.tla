----------------------------- MODULE LinkState -----------------------------
(***************************************************************************)
(* ContractLinkStateRouter of src/.../link_state.py: a path is chosen by   *)
(* Dijkstra's algorithm under the lock, begun under another hold of it and *)
(* finished under a third, while other users do the same.                  *)
(*                                                                         *)
(* A moving average of delays is any delay in Delay, and a cost is an      *)
(* integer, Scale times the one of the code.                               *)
(***************************************************************************)
EXTENDS Integers, Sequences, FiniteSets, SequencesExt, FiniteSetsExt

CONSTANTS
  Router,                \* users of the links
  Links,                 \* add_link() of each, in order: records of LinkSpec
  Source, Target, Offers,  \* where users go, and the contracts they may offer
  Delay, Penalty, Scale,
  Floor, MinSamples,     \* of reliability, in percent
  MaxFinished            \* bound: routes that are finished

VARIABLES delay, successes, failures, inflight, circuit, route, finished

linkVars == <<delay, successes, failures, inflight, circuit, route, finished>>

Link == DOMAIN Links
Place == {Source, Target} \cup {Links[l].source : l \in Link} \cup {Links[l].target : l \in Link}
NoRoute == [step |-> "none", links |-> <<>>]

Init ==
  /\ delay = [l \in Link |-> Links[l].delay]
  /\ successes = [l \in Link |-> 0] /\ failures = [l \in Link |-> 0]
  /\ inflight = [l \in Link |-> 0]
  /\ circuit = {}                       \* links whose circuit is open
  /\ route = [u \in Router |-> NoRoute]
  /\ finished = 0

Samples(l) == successes[l] + failures[l]

\* _eligible().
Eligible(l, contracts) ==
  /\ Links[l].contracts \subseteq contracts
  /\ l \notin circuit
  /\ ~(Samples(l) >= MinSamples /\ 100 * (successes[l] + 2) < Floor * (Samples(l) + 2))

\* _cost(): the delay under the load, and a penalty for what has failed.
Cost(l) ==
  ((Scale * delay[l] * (Links[l].capacity + inflight[l])) \div Links[l].capacity)
  + ((Scale * Penalty * failures[l]) \div (Samples(l) + 2))

Beyond == Scale * 1000000   \* math.inf

\* The variables of the loops: the queue of pushed paths and the next serial, the
\* costs of the places, the path that was popped and the link of it that is next.
Start ==
  [queue |-> {[cost |-> 0, serial |-> 0, node |-> Source, links |-> <<>>]}, serial |-> 1,
   best |-> [n \in Place |-> IF n = Source THEN 0 ELSE Beyond],
   top |-> [cost |-> 0, serial |-> 0, node |-> Source, links |-> <<>>],
   link |-> Len(Links) + 1, found |-> FALSE]

\* heappop().
First(queue) ==
  CHOOSE p \in queue : \A q \in queue : p.cost < q.cost \/ (p.cost = q.cost /\ p.serial <= q.serial)

\* A pass of the while loop up to its for loop.
Pop(s) ==
  LET top == First(s.queue)
      rest == [s EXCEPT !.queue = @ \ {top}] IN
    IF top.cost > s.best[top.node] THEN rest
    ELSE IF top.node = Target THEN [rest EXCEPT !.top = top, !.found = TRUE]
    ELSE [rest EXCEPT !.top = top, !.link = 1]

\* A pass of the for loop; links of other places are not in the adjacency.
Relax(s, contracts) ==
  LET l == s.link
      to == Links[l].target
      cost == s.top.cost + Cost(l)
      next == [s EXCEPT !.link = l + 1] IN
    IF Links[l].source # s.top.node \/ ~Eligible(l, contracts) \/ cost >= s.best[to] THEN next
    ELSE [next EXCEPT !.best[to] = cost, !.serial = @ + 1,
            !.queue = @ \cup {[cost |-> cost, serial |-> s.serial, node |-> to,
                               links |-> Append(s.top.links, l)]}]

Pass(s, contracts) ==
  IF s.link \in Link THEN Relax(s, contracts)
  ELSE IF s.found \/ s.queue = {} THEN s
  ELSE Pop(s)

\* The variables after n passes.  A place is expanded once, so each link is pushed
\* at most once, and after Passes of them the loops have ended.
Search(contracts) ==
  LET search[n \in Nat] == IF n = 0 THEN Start ELSE Pass(search[n - 1], contracts) IN search
Passes == (Len(Links) + 1) * (Len(Links) + 1)

\* Mutant of ChoosePath: the first path that reaches the target is taken.
FewestLinks(contracts) ==
  LET direct == {l \in Link : /\ Eligible(l, contracts) /\ Links[l].source = Source
                              /\ Links[l].target = Target} IN
    IF direct = {} THEN [links |-> <<>>, cost |-> Beyond]
    ELSE LET l == Min(direct) IN [links |-> <<l>>, cost |-> Cost(l)]

\* choose_path().
ChoosePath(contracts) ==
  LET s == Search(contracts)[Passes] IN
    IF s.found THEN [links |-> s.top.links, cost |-> s.top.cost]
    ELSE [links |-> <<>>, cost |-> Beyond]

Choose(u, contracts) ==
  /\ route[u].step = "none"
  /\ LET path == ChoosePath(contracts) IN
       /\ path.links # <<>>
       /\ route' = [route EXCEPT ![u] = [step |-> "chosen", links |-> path.links]]
  /\ UNCHANGED <<delay, successes, failures, inflight, circuit, finished>>

\* begin(), of a decision that other users may have outdated.
Begin(u) ==
  /\ route[u].step = "chosen"
  /\ route' = [route EXCEPT ![u].step = "begun"]
  /\ inflight' = [l \in Link |-> inflight[l] + (IF l \in Range(route[u].links) THEN 1 ELSE 0)]
  /\ UNCHANGED <<delay, successes, failures, circuit, finished>>

\* Mutant of Returned: the links that did not fail keep their load.
ReturnedByFailed(u, measured) ==
  [l \in Link |-> IF l \in measured THEN inflight[l] - 1 ELSE inflight[l]]

\* Every link of the path gives its load back, measured or not.
Returned(u, measured) ==
  [l \in Link |-> IF l \in Range(route[u].links) THEN Max({0, inflight[l] - 1}) ELSE inflight[l]]

\* finish(): a failure that names its link counts for that link alone.
Finish(u, success, failed) ==
  /\ route[u].step = "begun" /\ finished < MaxFinished
  /\ LET path == Range(route[u].links)
         measured == IF success \/ failed \notin Link THEN path ELSE path \cap {failed} IN
       /\ inflight' = Returned(u, measured)
       /\ \E d \in Delay : delay' = [l \in Link |-> IF l \in measured THEN d ELSE delay[l]]
       /\ successes' = [l \in Link |-> successes[l] + (IF success /\ l \in measured THEN 1 ELSE 0)]
       /\ failures' = [l \in Link |-> failures[l] + (IF ~success /\ l \in measured THEN 1 ELSE 0)]
       /\ circuit' = {l \in Link : l \in circuit \/ (~success /\ l \in measured)}
  /\ route' = [route EXCEPT ![u] = NoRoute]
  /\ finished' = finished + 1

CoolDown(l) ==
  /\ l \in circuit /\ circuit' = circuit \ {l}
  /\ UNCHANGED <<delay, successes, failures, inflight, route, finished>>

Next ==
  \/ \E u \in Router :
       \/ \E contracts \in Offers : Choose(u, contracts)
       \/ Begin(u)
       \/ \E success \in BOOLEAN, failed \in Link \cup {0} : Finish(u, success, failed)
  \/ \E l \in Link : CoolDown(l)

-----------------------------------------------------------------------------

TypeOK ==
  /\ delay \in [Link -> Nat] /\ inflight \in [Link -> Nat] /\ circuit \subseteq Link
  /\ successes \in [Link -> Nat] /\ failures \in [Link -> Nat]
  /\ finished \in 0..MaxFinished /\ \A l \in Link : Samples(l) <= finished
  /\ \A u \in Router : route[u].step \in {"none", "chosen", "begun"}

\* The load of a link is the number of the routes that are under way on it, so
\* that what is begun, failed and measured in any order leaves no load behind.
LoadReturned ==
  \A l \in Link : inflight[l] =
    Cardinality({u \in Router : route[u].step = "begun" /\ l \in Range(route[u].links)})

\* The place after the first i links of a path, and what these cost.
Via(p, i) == IF i = 0 THEN Source ELSE Links[p[i]].target
CostOf(p) ==
  LET sum[i \in 0..Len(p)] == IF i = 0 THEN 0 ELSE sum[i - 1] + Cost(p[i]) IN sum

\* The paths of eligible links from the source to the target.  A cheapest one
\* visits no place twice.
Paths(contracts) ==
  {p \in SeqOf(Link, Cardinality(Place) - 1) :
     /\ \A i \in 1..Len(p) : Eligible(p[i], contracts) /\ Links[p[i]].source = Via(p, i - 1)
     /\ Via(p, Len(p)) = Target}

\* "Choose the lowest-cost contract-safe path": whatever the users have made of
\* delays, loads, failures and circuits, no path of eligible links is cheaper
\* than the chosen one, which is one of them, and one is chosen whenever there is any.
CheapestPath ==
  \A contracts \in Offers :
    LET chosen == ChoosePath(contracts)
        costs == {CostOf(p)[Len(p)] : p \in Paths(contracts)} IN
      /\ chosen.cost = Min(costs \cup {Beyond})
      /\ \/ chosen.cost = Beyond
         \/ /\ chosen.links \in Paths(contracts)
            /\ CostOf(chosen.links)[Len(chosen.links)] = chosen.cost
=============================================================================
