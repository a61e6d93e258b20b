---------------------------- MODULE BranchTraces ----------------------------
(***************************************************************************)
(* src/.../trace_equivalence.py: two runs of a question are compared from  *)
(* the events that the branches of each have left in its trace.  The trace *)
(* may have lost or repeated events of what really happened.               *)
(***************************************************************************)
EXTENDS Integers, FiniteSets

CONSTANTS
  Branch, Input, Output,
  MaxOdd,     \* bound: branches that did not execute cleanly what was prepared
  MaxFaults   \* bound: events that were lost or repeated

VARIABLES
  did,     \* what each branch of each run did: [input, output, clean]
  events,  \* how many events of each kind the trace of a run has for a branch
  faults

traceVars == <<did, events, faults>>

Run == {"left", "right"}
Event == {"prepared", "handler", "boundary"}

\* clean: the handler ran once, without an error, with the prepared arguments.
Deed == [input : Input, output : Output, clean : BOOLEAN]

Init ==
  /\ did \in [Run -> [Branch -> Deed]]
  /\ Cardinality({d \in Run \X Branch : ~did[d[1]][d[2]].clean}) <= MaxOdd
  /\ events = [r \in Run |-> [b \in Branch |-> [e \in Event |-> 1]]]
  /\ faults = 0

\* The observer of an event raises, or its line is written twice.
Fault(r, b, e, n) ==
  /\ faults < MaxFaults /\ faults' = faults + 1
  /\ events[r][b][e] = 1
  /\ events' = [events EXCEPT ![r][b][e] = n]
  /\ UNCHANGED did

\* Mutant of Valid: repeated events are accepted and only the prepared one is
\* looked for.
ValidLoosely(r, b) == events[r][b]["prepared"] > 0

\* A record of join_branch_events without issues.
Valid(r, b) == (\A e \in Event : events[r][b][e] = 1) /\ did[r][b].clean

Seen(r) == {b \in Branch : \E e \in Event : events[r][b][e] > 0}
Inputs(r) == {did[r][b].input : b \in Seen(r)}
Outputs(r) == {<<did[r][b].input, did[r][b].output>> : b \in Seen(r)}

\* compare_branch_sets().
Verdict ==
  IF \E r \in Run : Seen(r) = {} \/ \E b \in Seen(r) : ~Valid(r, b) THEN "unverifiable"
  ELSE IF \E r \in Run : Cardinality(Inputs(r)) < Cardinality(Seen(r)) THEN "ambiguous"
  ELSE IF Inputs("left") = Inputs("right") /\ Outputs("left") = Outputs("right") THEN "equal"
  ELSE "different"

Next == \E r \in Run, b \in Branch, e \in Event, n \in {0, 2} : Fault(r, b, e, n)

-----------------------------------------------------------------------------

TypeOK ==
  /\ did \in [Run -> [Branch -> Deed]] /\ faults \in 0..MaxFaults
  /\ events \in [Run -> [Branch -> [Event -> 0..2]]]

\* The runs really did the same: cleanly, and the same for each input.
Same ==
  LET Deeds(r) == {did[r][b] : b \in Branch} IN
    Deeds("left") = Deeds("right") /\ \A deed \in Deeds("left") : deed.clean

\* "Fail closed on ambiguous fan-out": while no branch has lost all its events,
\* a verdict of "equal" or "different" is true of what the runs did.
VerdictIsTrue ==
  (\A r \in Run : Seen(r) = Branch) =>
    /\ Verdict = "equal" => Same
    /\ Verdict = "different" => ~Same
=============================================================================
