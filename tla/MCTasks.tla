------------------------------ MODULE MCTasks ------------------------------
(***************************************************************************)
(* The components that start tasks for one call and clean up after them.   *)
(* They share a run and no state: the initial state says which one is used *)
(* and the others stay in an initial state of theirs.                      *)
(***************************************************************************)
EXTENDS ManagedStream, FiniteSets, TLC

CONSTANTS
  Caller, Key, Flight, NoFlight, NoKey,            \* SingleFlight
  User, MaxConcurrent,                             \* HedgedStream
  MaxAge, Ceiling,                                 \* DraftedCall
  MaxCalls,                                        \* ToolRound
  Node, External,                                  \* ProgramHarness
  MaxReasoning, MaxLate                            \* StreamMonitor

ASSUME BoundsAssumption ==
  /\ Flight \subseteq Nat /\ NoFlight \notin Flight /\ NoKey \notin Key
  /\ IsFiniteSet(User) /\ MaxConcurrent \in Nat \ {0}
  /\ Node \subseteq Nat /\ External \notin Node
  /\ {MaxCalls, MaxReasoning, MaxLate} \subseteq Nat

VARIABLES
  used,
  tasks, keyOf, flying, joined, cancelling,                        \* SingleFlight
  hpc, request, winner, inTry, permits,                            \* HedgedStream
  flavour, dpc, draft, matches, pressure, answer, stopped,         \* DraftedCall
  mode, rpc, reads, ended, call, results,                          \* ToolRound
  startWhenReady, wpc, joining, node, predecessor, release, flagged, \* ProgramHarness
  policy, mpc, guarded, late, expired, progress, lateChunks, verdict   \* StreamMonitor

Flights == INSTANCE SingleFlight
Hedged  == INSTANCE HedgedStream
Drafted == INSTANCE DraftedCall
Round   == INSTANCE ToolRound
Program == INSTANCE ProgramHarness
Monitor == INSTANCE StreamMonitor WITH outcome <- verdict

flightVars  == <<tasks, keyOf, flying, joined, cancelling>>
hedgeVars   == <<hpc, request, winner, inTry, permits>>
draftVars   == <<flavour, dpc, draft, matches, pressure, answer, stopped>>
roundVars   == <<mode, rpc, reads, ended, call, results>>
programVars == <<startWhenReady, wpc, joining, node, predecessor, release, flagged>>
monitorVars == <<policy, mpc, guarded, late, expired, progress, lateChunks, verdict>>
allVars == <<used, managedVars, flightVars, hedgeVars, draftVars, roundVars, programVars, monitorVars>>

MCInit ==
  /\ used \in {"relay", "flights", "hedged", "drafted", "round", "program", "monitor"}
  /\ ManagedInit /\ Flights!Init /\ Hedged!Init /\ Drafted!Init /\ Round!Init /\ Program!Init
  /\ Monitor!Init
  /\ used # "relay" => ticket = "none"
  /\ used # "drafted" => /\ flavour = "read" /\ draft = "none" /\ ~matches
                         /\ pressure = [age |-> 0, usage |-> 0, waiting |-> 0]
  /\ used # "round" => mode = "serial"
  /\ used # "program" => startWhenReady
  /\ used # "monitor" => ~policy

\* Bounds: tasks and nodes take their names, which mean nothing, in a fixed order.
FirstFree == \A f \in flying' \ flying, g \in Flight : Flights!Free(g) => f <= g
NamedInOrder == \A m, n \in Node : m < n /\ node'[n] # "none" => node'[m] # "none"

MCNext ==
  \/ /\ used = "relay" /\ ManagedNext
     /\ UNCHANGED <<used, flightVars, hedgeVars, draftVars, roundVars, programVars, monitorVars>>
  \/ /\ used = "flights" /\ Flights!Next /\ FirstFree
     /\ UNCHANGED <<used, managedVars, hedgeVars, draftVars, roundVars, programVars, monitorVars>>
  \/ /\ used = "hedged" /\ Hedged!Next
     /\ UNCHANGED <<used, managedVars, flightVars, draftVars, roundVars, programVars, monitorVars>>
  \/ /\ used = "drafted" /\ Drafted!Next
     /\ UNCHANGED <<used, managedVars, flightVars, hedgeVars, roundVars, programVars, monitorVars>>
  \/ /\ used = "round" /\ Round!Next
     /\ UNCHANGED <<used, managedVars, flightVars, hedgeVars, draftVars, programVars, monitorVars>>
  \/ /\ used = "program" /\ Program!Next /\ NamedInOrder
     /\ UNCHANGED <<used, managedVars, flightVars, hedgeVars, draftVars, roundVars, monitorVars>>
  \/ /\ used = "monitor" /\ Monitor!Next
     /\ UNCHANGED <<used, managedVars, flightVars, hedgeVars, draftVars, roundVars, programVars>>

\* The loop runs the tasks of a relay, a source that is read answers, its cleanup
\* ends, and the router answers a call that waits (see EventuallyServed of
\* CompletionRouter).  Nothing makes the caller read on, leave or be cancelled.
RelayFairness ==
  /\ WF_managedVars(used = "relay" /\ (Admitted \/ Rejected))
  /\ WF_managedVars(used = "relay" /\ (Streams \/ Finished))
  /\ WF_managedVars(used = "relay" /\ (Request \/ ProducerStops
                       \/ \E fails, cancels \in BOOLEAN : Abandoned(fails, cancels)))
  /\ WF_managedVars(used = "relay" /\ Get /\ UNCHANGED ticket)
  /\ WF_managedVars(used = "relay" /\ Join /\ UNCHANGED ticket)

\* The loop runs a node that can run; predecessors and operations end.
ProgramFairness ==
  /\ \A n \in Node : WF_programVars(used = "program" /\ Program!Run(n))
  /\ WF_programVars(used = "program" /\ Program!CloseWorkflow)

\* Work that is cancelled unwinds, and the loop runs a caller that is on its way
\* out.  Nothing makes work end that is not cancelled.
LeavingFairness ==
  /\ \A u \in User :
       /\ WF_hedgeVars(used = "hedged" /\ (Hedged!CloseLoser(u) \/ Hedged!Finish(u)))
       /\ \A k \in Hedged!Kind :
            WF_hedgeVars(used = "hedged" /\ request[u][k] = "cancelling" /\ Hedged!Answer(u, k))
  /\ WF_draftVars(used = "drafted" /\ draft = "cancelling" /\ Drafted!EndDraft)
  /\ WF_draftVars(used = "drafted" /\ (Drafted!CallNow \/ Drafted!LeaveCall))
  /\ \A i \in 1..MaxCalls :
       WF_roundVars(used = "round" /\ call[i] = "cancelling" /\ Round!CallEnds(i))
  /\ WF_roundVars(used = "round" /\ Round!CloseSource)

MCSafetySpec == MCInit /\ [][MCNext]_allVars

MCSpec == MCSafetySpec /\ RelayFairness /\ ProgramFairness /\ LeavingFairness

-----------------------------------------------------------------------------

\* Types of the components' states, without the relay's.
TypesOK == /\ Flights!TypeOK /\ Hedged!TypeOK /\ Drafted!TypeOK /\ Round!TypeOK /\ Program!TypeOK
           /\ Monitor!TypeOK

\* A call on its way out waits only for work that it has cancelled, so it leaves
\* although nothing it started would end by itself: a hedged stream that has a
\* winner or unwinds, a call that drops its draft, and a round that drains its
\* tools, wherever a second cancel meets them.
LeavingEnds ==
  /\ \A u \in User : hpc[u] \in {"settle", "finally"} ~> hpc[u] \in {"stream", "gone"}
  /\ dpc \in {"dropping", "leaving"} ~> dpc \notin {"dropping", "leaving"}
  /\ rpc = "draining" ~> rpc \in {"closed", "left"}

OneFlightPerKey == Flights!OneFlightPerKey
DuplicatesBounded == Hedged!DuplicatesBounded
DraftNeverMisread == Drafted!DraftNeverMisread
CancellationNeverFallsBack == Drafted!CancellationNeverFallsBack
BarrierRespected == Round!BarrierRespected
JoinReturns == Program!JoinReturns
DeadlineIsTotal == Monitor!DeadlineIsTotal
=============================================================================
