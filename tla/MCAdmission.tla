---------------------------- MODULE MCAdmission ----------------------------
(***************************************************************************)
(* The two admission controllers beside the router, which share a run but  *)
(* no state: the initial state says which of them is used.                 *)
(***************************************************************************)
EXTENDS PressureGate, TLC

CONSTANTS
  Caller, Receiver, c1, c2, c3, q1, q2, MinWindow, MaxWindow

\* The bounds that CoflowPolicy accepts.
ASSUME WindowAssumption ==
  /\ IsFiniteSet(Caller)
  /\ MinWindow \in Nat \ {0} /\ MaxWindow \in Nat /\ MinWindow <= MaxWindow

VARIABLES order, cpc, at, queued, older, granted, window, quiet, overdue, ccancel, used

Coflow == INSTANCE CoflowAdmission WITH
  Root <- {q1, q2}, RootOf <- c1 :> q1 @@ c2 :> q1 @@ c3 :> q2

coflowVars == <<order, cpc, at, queued, older, granted, window, quiet, overdue, ccancel>>

vars == <<gateVars, coflowVars, used>>

MCInit == Init /\ Coflow!Init /\ used \in {"gate", "coflow"}
          /\ (used = "gate" => window = [r \in Receiver |-> MaxWindow] /\ order = "fifo")
          /\ (used = "coflow" => limit = Maximum)

GateStep == used = "gate" /\ Next /\ UNCHANGED <<coflowVars, used>>
CoflowStep == used = "coflow" /\ Coflow!Next /\ UNCHANGED <<gateVars, used>>

\* A task that can run does, the body of a slot ends, and time passes.
Fairness ==
  /\ \A t \in Request : WF_vars(used = "gate" /\ Run(t) /\ UNCHANGED <<coflowVars, used>>)
  /\ \A c \in Caller :
       WF_vars(used = "coflow" /\ Coflow!Run(c) /\ UNCHANGED <<gateVars, used>>)
  /\ \A r \in Receiver :
       WF_vars(used = "coflow" /\ Coflow!Age(r) /\ UNCHANGED <<gateVars, used>>)

MCSpec == MCInit /\ [][GateStep \/ CoflowStep]_vars /\ Fairness

-----------------------------------------------------------------------------

\* Types of both states: the gate counts its callers and keeps its limit within
\* the bounds, the admission its windows, and no ticket is queued and granted.
TypesOK == TypeOK /\ Coflow!TypeOK

CreditsOwned == Coflow!CreditsOwned

\* Neither controller leaves a credit idle while somebody waits for one.
NoIdleCredit == NoMissedWakeUp /\ Coflow!WorkConserving

\* The coflow admission is a pool of credits, of which the windows say how many.
ImplementsPool == Coflow!ImplementsPool

\* Whoever asks either of them is admitted or withdraws.
EveryoneAdmitted == GateAdmits /\ Coflow!CoflowAdmits
=============================================================================
