---------------------------- MODULE MCDecisions ----------------------------
(***************************************************************************)
(* The components that decide: which workflow's call goes first, where a   *)
(* call goes, which tokens are drafted next and how many, what a prompt is *)
(* rewritten to, whether two runs were the same.                           *)
(* They share a run and no state: the initial state says which one is used *)
(* and the others stay in an initial state of theirs.                      *)
(***************************************************************************)
EXTENDS ContinuationWindow, Sequences, TLC

CONSTANTS
  t1, t2, t3, f1, f2,                               \* calls and workflows of the window
  Router, Links, Source, Target, Offers,
  Delay, Penalty, Scale, Floor, MinSamples, MaxFinished,
  Token, MinN, MaxN, K, MaxModelLen, Stages, FpWindow,
  Id, Width, Handle, MinSaving, MinCandidates, MaxObjects,
  Branch, Input, Output, MaxOdd, MaxFaults,
  Context, Measured, Budget, Trial, MinPairs, Gain

ASSUME BoundsAssumption ==
  {MaxModelLen, MaxFinished, MaxObjects, MaxFaults} \subseteq Nat

\* The checks of add_link(); delays are in whole milliseconds, and the users of
\* the links can be counted.
ASSUME LinksAssumption ==
  /\ IsFiniteSet(Router) /\ Delay \subseteq Nat /\ {Penalty, Scale} \subseteq Nat
  /\ Len(Links) \in Nat /\ DOMAIN Links = 1..Len(Links)
  /\ \A l \in DOMAIN Links : Links[l].delay \in Nat /\ Links[l].capacity \in Nat \ {0}

\* Grams have tokens, and the datastore has sequences of them.
ASSUME GramsAssumption ==
  /\ MinN \in Nat \ {0} /\ MaxN \in Nat \ {0} /\ MinN <= MaxN /\ K \in Nat
  /\ DOMAIN Stages \subseteq Nat /\ \A i \in DOMAIN Stages : Stages[i].seqs \in Seq(Seq(Token))

\* Handles of different objects differ.
ASSUME HandlesAssumption ==
  \A i, j \in 1..MaxObjects : Handle[i] = Handle[j] => i = j

\* Branches have inputs and outputs.
ASSUME DeedsAssumption == Input # {} /\ Output # {}

\* The checks of calibrate() on its budgets and contexts.
ASSUME BudgetsAssumption ==
  /\ IsFiniteSet(Budget) /\ Budget \subseteq Nat \ {0} /\ Gain \subseteq Nat
  /\ Context # {} /\ Measured \subseteq Context

VARIABLES
  used,
  delay, successes, failures, inflight, circuit, route, finished,   \* LinkState
  spec, row, proposed,                                              \* NgramDraft
  boundary, readOnly, calibrated, ids, cited, bpc, enabled, meant, output, calls, \* ReferenceBoundary
  did, events, faults,                                              \* BranchTraces
  rows, choices, step                                               \* DraftBudget

Mesh == INSTANCE LinkState
Ngram == INSTANCE NgramDraft
Prompt == INSTANCE ReferenceBoundary
Traces == INSTANCE BranchTraces
Budgets == INSTANCE DraftBudget

windowVars == vars
linkVars  == <<delay, successes, failures, inflight, circuit, route, finished>>
ngramVars == <<spec, row, proposed>>
refVars   == <<boundary, readOnly, calibrated, ids, cited, bpc, enabled, meant, output, calls>>
traceVars == <<did, events, faults>>
budgetVars == <<rows, choices, step>>
allVars   == <<used, windowVars, linkVars, ngramVars, refVars, traceVars, budgetVars>>

\* Three calls of two workflows.
TwoFlows == t1 :> f1 @@ t2 :> f1 @@ t3 :> f2

\* Two ways over "b", the cheaper one for those who offer a contract, one over
\* "c", and a direct link that the load of the others makes worth taking.
link(from, to, ms, size, needs) ==
  [source |-> from, target |-> to, delay |-> ms, capacity |-> size, contracts |-> needs]
MeshLinks == <<link("a", "d", 8, 1, {}), link("a", "b", 2, 1, {}), link("b", "d", 4, 2, {"k"}),
               link("b", "c", 1, 1, {}), link("c", "d", 4, 1, {})>>
MeshOffers == {{}, {"k"}}

\* Two stages of the datastore, the first with two sequences.
Histories ==
  <<[fingerprint |-> <<1, 2>>, seqs |-> <<<<1, 2, 1, 1, 2>>, <<2, 2, 1, 2>>>>],
    [fingerprint |-> <<2>>, seqs |-> <<<<1, 1, 1, 2>>>>]>>

\* Handles are str(index); the first of them are identifiers themselves.
Indexes == [i \in 1..MaxObjects |-> ToString(i - 1)]
IdWidths == [x \in Id |-> IF x \in {"0", "1"} THEN 1 ELSE 3]

MCInit ==
  /\ used \in {"window", "links", "ngram", "prompt", "traces", "budgets"}
  /\ Init /\ Mesh!Init /\ Ngram!Init /\ Budgets!Init
  /\ used # "window" => ordering = "fifo"
  /\ used # "ngram" => spec = "longest_any"
  /\ IF used = "prompt" THEN Prompt!Init
     ELSE /\ boundary = "reference" /\ readOnly = TRUE /\ calibrated = TRUE /\ ids = <<>>
          /\ cited = [x \in Prompt!Range(ids) |-> "nowhere"]
          /\ bpc = "start" /\ enabled = FALSE /\ meant = <<>> /\ output = <<>> /\ calls = 0
  /\ IF used = "traces" THEN Traces!Init
     ELSE /\ did = [r \in Traces!Run |-> [b \in Branch |->
                      [input |-> CHOOSE i \in Input : TRUE, output |-> CHOOSE o \in Output : TRUE,
                       clean |-> TRUE]]]
          /\ events = [r \in Traces!Run |-> [b \in Branch |-> [e \in Traces!Event |-> 1]]]
          /\ faults = 0

MCNext ==
  \/ /\ used = "window" /\ Next
     /\ UNCHANGED <<used, linkVars, ngramVars, refVars, traceVars, budgetVars>>
  \/ /\ used = "links" /\ Mesh!Next
     /\ UNCHANGED <<used, windowVars, ngramVars, refVars, traceVars, budgetVars>>
  \/ /\ used = "ngram" /\ Ngram!Next
     /\ UNCHANGED <<used, windowVars, linkVars, refVars, traceVars, budgetVars>>
  \/ /\ used = "prompt" /\ Prompt!Next
     /\ UNCHANGED <<used, windowVars, linkVars, ngramVars, traceVars, budgetVars>>
  \/ /\ used = "traces" /\ Traces!Next
     /\ UNCHANGED <<used, windowVars, linkVars, ngramVars, refVars, budgetVars>>
  \/ /\ used = "budgets" /\ Budgets!Next
     /\ UNCHANGED <<used, windowVars, linkVars, ngramVars, refVars, traceVars>>

\* The loop runs every task of the window that is ready, bodies end and time
\* passes; nothing makes a task enter the window or cancels one that waits, and
\* nothing makes another component go on.
WindowFairness ==
  \A t \in Task : WF_vars(used = "window" /\ Proceed(t)) /\ WF_vars(used = "window" /\ Age(t))

MCSafetySpec == MCInit /\ [][MCNext]_allVars

MCSpec == MCSafetySpec /\ WindowFairness

-----------------------------------------------------------------------------

\* Types of the components' states, without the window's.
TypesOK == Mesh!TypeOK /\ Ngram!TypeOK /\ Prompt!TypeOK /\ Traces!TypeOK /\ Budgets!TypeOK

LoadReturned == Mesh!LoadReturned
CheapestPath == used = "links" => Mesh!CheapestPath
DraftFollowsLongest == Ngram!DraftFollowsLongest
ReferencesRestored == Prompt!ReferencesRestored
VerdictIsTrue == Traces!VerdictIsTrue
DraftsAreMeasured == Budgets!DraftsAreMeasured
=============================================================================
