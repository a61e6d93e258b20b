---------------------------- MODULE DraftBudget ----------------------------
(***************************************************************************)
(* src/.../speculation_budget.py: how many tokens a drafter may propose is *)
(* calibrated from paired trials of one exact context, frozen, and looked  *)
(* up for each step of the engine.                                         *)
(*                                                                         *)
(* A trial measures its window with every budget, and the measurement of   *)
(* some budgets may be lost.  The estimate of a gain and its bootstrap are *)
(* a rank: 0 for an arm that does not pass the gate, higher for more gain. *)
(***************************************************************************)
EXTENDS Integers, FiniteSets, FiniteSetsExt

CONSTANTS
  Context, Measured,   \* contexts of the engine, and those that are measured
  Budget,              \* the budgets tried beside 0, the ordinary decoding
  Trial, MinPairs,
  Gain                 \* ranks of the gains of arms

VARIABLES
  rows,      \* the measurements: <<context, budget, trial>>
  choices,   \* DraftBudgetPolicy._choices: a budget or Unmeasured; <<>> before
  step       \* the latest step of the engine: context, supported budgets, tokens drafted

budgetVars == <<rows, choices, step>>

Arms == {0} \cup Budget
Unmeasured == -1
NoStep == [context |-> CHOOSE c \in Context : TRUE, supported |-> {0}, drafted |-> 0]

Init == rows = {} /\ choices = <<>> /\ step = NoStep

\* The trials an arm of a context was measured in.
Arm(c, k) == {t \in Trial : <<c, k, t>> \in rows}

\* A window is replayed with each budget; some arms are not measured.
Measure(c, t) ==
  /\ choices = <<>> /\ \A k \in Arms : t \notin Arm(c, k)
  /\ \E ks \in SUBSET Arms \ {{}} : rows' = rows \cup {<<c, k, t>> : k \in ks}
  /\ UNCHANGED <<choices, step>>

\* Mutant of Paired: arms are compared by the number of their trials.
PairedBySize(c) ==
  /\ Cardinality(Arm(c, 0)) >= MinPairs
  /\ \A k \in Budget : Cardinality(Arm(c, k)) \in {0, Cardinality(Arm(c, 0))}

\* The context has enough baseline trials, and every arm has the same ones.  An
\* arm that lost all its trials is none.
Paired(c) ==
  /\ Cardinality(Arm(c, 0)) >= MinPairs
  /\ \A k \in Budget : Arm(c, k) \in {{}, Arm(c, 0)}

\* The best of the arms that pass, the smallest budget on a tie.
Best(c, gain) ==
  LET passing == {k \in Budget : Arm(c, k) # {} /\ gain[k] > 0} IN
    IF passing = {} THEN 0
    ELSE Min({k \in passing : \A j \in passing : gain[j] <= gain[k]})

\* calibrate(), with a policy made of what it returns.
Calibrate ==
  /\ choices = <<>>
  /\ \E gain \in [Measured -> [Budget -> Gain]] :
       choices' = [c \in Context |->
         IF c \notin Measured \/ \A k \in Arms : Arm(c, k) = {} THEN Unmeasured
         ELSE IF Paired(c) THEN Best(c, gain[c]) ELSE 0]
  /\ UNCHANGED <<rows, step>>

\* select().
Select(c, supported) == IF choices[c] \in supported THEN choices[c] ELSE 0

\* propose(): no drafter runs for a budget of 0, and a draft that is too long
\* raises.
Propose(c, supported, size) ==
  /\ choices # <<>> /\ 0 \in supported
  /\ LET k == Select(c, supported) IN
       /\ size <= k
       /\ step' = [context |-> c, supported |-> supported, drafted |-> size]
  /\ UNCHANGED <<rows, choices>>

Next ==
  \/ \E c \in Measured, t \in Trial : Measure(c, t)
  \/ Calibrate
  \/ \E c \in Context, supported \in SUBSET Arms, size \in 0..Max(Arms) : Propose(c, supported, size)

-----------------------------------------------------------------------------

TypeOK ==
  /\ rows \subseteq Measured \X Arms \X Trial
  /\ choices # <<>> => choices \in [Context -> Arms \cup {Unmeasured}]
  /\ step \in [context : Context, supported : SUBSET Arms, drafted : 0..Max(Arms)]

\* "An incomplete arm invalidates the context instead of dropping slow trials":
\* tokens are drafted only in a context whose arms were all measured in the same
\* trials, enough of them, and never more than a budget that was measured there
\* and that the backend supports now.
DraftsAreMeasured ==
  step.drafted > 0 =>
    LET Trials(k) == Arm(step.context, k)
        measured == {k \in Arms : Trials(k) # {}} IN
      /\ \A j, k \in measured : Trials(j) = Trials(k)
      /\ Cardinality(Trials(0)) >= MinPairs
      /\ \E k \in measured \cap step.supported : step.drafted <= k
=============================================================================
