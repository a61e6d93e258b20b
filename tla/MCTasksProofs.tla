--------------------------- MODULE MCTasksProofs ---------------------------
(***************************************************************************)
(* Proofs about the components that start tasks for one call, for any      *)
(* number of callers, calls of a round and nodes of a workflow.            *)
(***************************************************************************)
EXTENDS MCTasks, FiniteSetTheorems, TLAPS

\* Each component takes its own steps or stays as it is.
LEMMA StepsOfComponents ==
  ASSUME [MCNext]_allVars
  PROVE  /\ [Flights!Next]_flightVars
         /\ [Hedged!Next]_hedgeVars /\ [Drafted!Next]_draftVars /\ [Round!Next]_roundVars
         /\ [Program!Next]_programVars /\ [Monitor!Next]_monitorVars
BY DEF MCNext, allVars, flightVars, hedgeVars, draftVars, roundVars, programVars, monitorVars

-----------------------------------------------------------------------------

\* The table holds a task under the key it was started for.
EntriesUnderTheirKey == \A k \in Key : tasks[k] # NoFlight => keyOf[tasks[k]] = k

FlightInv == Flights!TypeOK /\ Flights!OneFlightPerKey /\ EntriesUnderTheirKey

LEMMA FlightInit == Flights!Init => FlightInv
BY DEF Flights!Init, FlightInv, Flights!TypeOK, Flights!OneFlightPerKey, EntriesUnderTheirKey

\* Dropping the entry of a task that is done leaves every task in flight in the
\* table, also when the key has a new one.
LEMMA ForgetKeeps ==
  ASSUME FlightInv, NEW f, Flights!Done(f), Flights!Forget(f), UNCHANGED <<keyOf, flying>>
  PROVE  /\ tasks' \in [Key -> Flight \cup {NoFlight}]
         /\ Flights!OneFlightPerKey'
         /\ EntriesUnderTheirKey'
<1>1. tasks \in [Key -> Flight \cup {NoFlight}]
  BY DEF FlightInv, Flights!TypeOK
<1>2. \A k \in Key : tasks'[k] = IF k = keyOf[f] /\ tasks[k] = f THEN NoFlight ELSE tasks[k]
  BY <1>1 DEF Flights!Forget
<1>3. tasks' \in [Key -> Flight \cup {NoFlight}]
  BY <1>1 DEF Flights!Forget
<1>4. Flights!OneFlightPerKey'
  <2> SUFFICES ASSUME NEW g \in flying
               PROVE  tasks'[keyOf[g]] = g
    BY DEF Flights!OneFlightPerKey
  <2>1. tasks[keyOf[g]] = g /\ g # f
    BY DEF FlightInv, Flights!OneFlightPerKey, Flights!Done
  <2>2. CASE keyOf[g] \in Key
    BY <2>1, <2>2, <1>2
  <2>3. CASE keyOf[g] \notin Key
    BY <2>1, <2>3, <1>1 DEF Flights!Forget
  <2> QED
    BY <2>2, <2>3
<1>5. EntriesUnderTheirKey'
  BY <1>2 DEF FlightInv, EntriesUnderTheirKey
<1> QED
  BY <1>3, <1>4, <1>5

LEMMA FlightStep == FlightInv /\ [Flights!Next]_flightVars => FlightInv'
<1> SUFFICES ASSUME FlightInv, [Flights!Next]_flightVars
             PROVE  FlightInv'
  OBVIOUS
<1> USE DEF FlightInv
<1>1. ASSUME NEW c \in Caller, NEW k \in Key, Flights!Lead(c, k)
      PROVE  FlightInv'
  <2>1. PICK f \in Flight :
          /\ Flights!Free(f)
          /\ tasks' = [tasks EXCEPT ![k] = f]
          /\ keyOf' = [keyOf EXCEPT ![f] = k]
          /\ flying' = flying \cup {f}
          /\ joined' = [joined EXCEPT ![c] = f]
    BY <1>1 DEF Flights!Lead
  <2>2. /\ tasks[k] = NoFlight /\ joined[c] = NoFlight
        /\ f \notin flying /\ \A j \in Key : tasks[j] # f
    BY <2>1, <1>1 DEF Flights!Lead, Flights!Free, Flights!Done
  <2>3. f # NoFlight
    BY BoundsAssumption DEF BoundsAssumption
  <2>4. Flights!TypeOK'
    BY <1>1, <2>1, <2>2, <2>3 DEF Flights!Lead, Flights!TypeOK
  <2>5. Flights!OneFlightPerKey'
    <3> SUFFICES ASSUME NEW g \in flying'
                 PROVE  tasks'[keyOf'[g]] = g
      BY DEF Flights!OneFlightPerKey
    <3>1. CASE g = f
      BY <3>1, <2>1 DEF Flights!TypeOK
    <3>2. CASE g # f
      <4>1. g \in flying /\ g \in Flight /\ tasks[keyOf[g]] = g /\ keyOf'[g] = keyOf[g]
        BY <3>2, <2>1 DEF Flights!TypeOK, Flights!OneFlightPerKey
      <4>2. g # NoFlight
        BY <4>1, BoundsAssumption DEF BoundsAssumption
      <4> QED
        BY <4>1, <4>2, <2>1, <2>2 DEF Flights!TypeOK
    <3> QED
      BY <3>1, <3>2
  <2>6. EntriesUnderTheirKey'
    BY <2>1, <2>2 DEF EntriesUnderTheirKey, Flights!TypeOK
  <2> QED
    BY <2>4, <2>5, <2>6
<1>2. ASSUME NEW c \in Caller, NEW k \in Key, Flights!Join(c, k)
      PROVE  FlightInv'
  BY <1>2 DEF Flights!Join, Flights!TypeOK, Flights!OneFlightPerKey, EntriesUnderTheirKey
<1>3. ASSUME NEW c \in Caller, NEW k \in Key, Flights!JoinDone(c, k)
      PROVE  FlightInv'
  BY <1>3, ForgetKeeps DEF Flights!JoinDone, Flights!TypeOK
<1>4. ASSUME NEW f \in Flight, Flights!Land(f)
      PROVE  FlightInv'
  BY <1>4 DEF Flights!Land, Flights!TypeOK, Flights!OneFlightPerKey, EntriesUnderTheirKey
<1>5. ASSUME NEW c \in Caller, Flights!Answer(c)
      PROVE  FlightInv'
  BY <1>5, ForgetKeeps DEF Flights!Answer, Flights!TypeOK
<1>6. ASSUME NEW c \in Caller, Flights!Cancel(c)
      PROVE  FlightInv'
  BY <1>6 DEF Flights!Cancel, Flights!TypeOK, Flights!OneFlightPerKey, EntriesUnderTheirKey
<1>7. ASSUME NEW c \in Caller, Flights!CallCancelled(c)
      PROVE  FlightInv'
  <2>1. CASE Flights!Done(joined[c])
    BY <1>7, <2>1, ForgetKeeps DEF Flights!CallCancelled, Flights!TypeOK
  <2>2. CASE ~Flights!Done(joined[c])
    BY <1>7, <2>2 DEF Flights!CallCancelled, Flights!TypeOK, Flights!OneFlightPerKey, EntriesUnderTheirKey
  <2> QED
    BY <2>1, <2>2
<1>8. CASE UNCHANGED flightVars
  BY <1>8 DEF flightVars, Flights!TypeOK, Flights!OneFlightPerKey, EntriesUnderTheirKey
<1> QED
  BY <1>1, <1>2, <1>3, <1>4, <1>5, <1>6, <1>7, <1>8 DEF Flights!Next

\* Every task in flight is the one the table holds for its key, so a call never
\* starts a second one beside it: do() of AsyncSingleFlight.
THEOREM SharesOneFlight == MCSpec => []OneFlightPerKey
<1>1. MCInit => FlightInv
  BY FlightInit DEF MCInit
<1>2. FlightInv /\ [MCNext]_allVars => FlightInv'
  BY StepsOfComponents, FlightStep
<1>3. FlightInv => OneFlightPerKey
  BY DEF FlightInv, OneFlightPerKey
<1> QED
  BY <1>1, <1>2, <1>3, PTL DEF MCSpec, MCSafetySpec

-----------------------------------------------------------------------------

\* An answer of the draft was verified; a caller that was cancelled while it
\* awaited its draft waits for a draft that is cancelled or answers, and goes on
\* only past one that answered with an error or for another input.
DraftedInv ==
  /\ flavour \in {"selection", "overlap", "read"} /\ matches \in BOOLEAN
  /\ answer = "draft" => dpc \in {"leaving", "done"} /\ matches /\ draft = "value"
  /\ answer = "call" => dpc \in {"leaving", "done"}
  /\ dpc \in {"calling", "done"} \/ answer = "call" => Drafted!Ended
  /\ stopped => dpc # "deciding"
  /\ stopped /\ dpc = "awaiting" => draft \in {"cancelling", "cancelled", "value", "error"}
  /\ stopped /\ (dpc \in {"dropping", "calling"} \/ answer = "call") =>
       draft = "error" \/ (draft = "value" /\ ~matches)

LEMMA DraftedInit == Drafted!Init => DraftedInv
BY DEF Drafted!Init, DraftedInv

LEMMA DraftedStep == DraftedInv /\ [Drafted!Next]_draftVars => DraftedInv'
<1> SUFFICES ASSUME DraftedInv, [Drafted!Next]_draftVars PROVE DraftedInv'
  OBVIOUS
<1> USE DEF DraftedInv, Drafted!Ended
<1>1. CASE Drafted!StartDraft
  BY <1>1 DEF Drafted!StartDraft
<1>2. CASE Drafted!EndDraft
  BY <1>2 DEF Drafted!EndDraft
<1>3. CASE Drafted!LoadChanges
  BY <1>3 DEF Drafted!LoadChanges
<1>4. CASE Drafted!Decide
  BY <1>4 DEF Drafted!Decide, Drafted!Raises, Drafted!Cancelled
<1>5. CASE Drafted!TakeDraft
  BY <1>5 DEF Drafted!TakeDraft, Drafted!Raises, Drafted!Cancelled
<1>6. CASE Drafted!CallNow
  BY <1>6 DEF Drafted!CallNow
<1>7. CASE Drafted!Called
  BY <1>7 DEF Drafted!Called, Drafted!Raises, Drafted!Cancelled
<1>8. CASE Drafted!CancelCall
  BY <1>8 DEF Drafted!CancelCall, Drafted!Raises, Drafted!Cancelled
<1>9. CASE Drafted!LeaveCall
  BY <1>9 DEF Drafted!LeaveCall
<1>10. CASE UNCHANGED draftVars
  BY <1>10 DEF draftVars
<1> QED
  BY <1>1, <1>2, <1>3, <1>4, <1>5, <1>6, <1>7, <1>8, <1>9, <1>10 DEF Drafted!Next

\* A draft is the answer only for the input it was made for, and a caller that is
\* cancelled over it makes its own call only if the draft answered the cancel
\* (verified.py, adaptive.py, inference_overlap.py).
THEOREM DraftIsNeverMisread == MCSpec => []DraftNeverMisread
<1>1. MCInit => DraftedInv
  BY DraftedInit DEF MCInit
<1>2. DraftedInv /\ [MCNext]_allVars => DraftedInv'
  BY StepsOfComponents, DraftedStep
<1>3. DraftedInv => DraftNeverMisread
  BY DEF DraftedInv, DraftNeverMisread, Drafted!DraftNeverMisread
<1> QED
  BY <1>1, <1>2, <1>3, PTL DEF MCSpec, MCSafetySpec

-----------------------------------------------------------------------------

\* The reasoning that was forwarded, the chunk after the deadline, and how the
\* end came.
MonitorInv ==
  /\ policy \in BOOLEAN /\ guarded \in BOOLEAN /\ late \in BOOLEAN /\ lateChunks \in Nat
  /\ expired => late
  /\ progress \in [useful : BOOLEAN, reasoning : Nat, finished : BOOLEAN, truncated : BOOLEAN]
  /\ mpc # "ended" => verdict = "none"
  /\ mpc = "waiting" /\ guarded => policy /\ ~progress.useful
  /\ mpc = "forwarding" /\ policy /\ ~progress.useful => progress.reasoning <= MaxReasoning
  /\ lateChunks <= 1
  /\ lateChunks = 1 => policy /\ late /\ (mpc # "waiting" \/ progress.useful)
  /\ verdict = "complete" /\ policy => progress.useful /\ progress.finished /\ ~progress.truncated
  /\ verdict = "stalled" =>
       policy /\ ~progress.useful /\ (late \/ progress.reasoning > MaxReasoning)

LEMMA MonitorInit == Monitor!Init => MonitorInv
<1> SUFFICES ASSUME Monitor!Init PROVE MonitorInv
  OBVIOUS
<1>1. /\ policy \in BOOLEAN /\ guarded = FALSE /\ late = FALSE /\ expired = FALSE /\ lateChunks = 0
      /\ mpc = "asking" /\ verdict = "none"
      /\ progress = [useful |-> FALSE, reasoning |-> 0, finished |-> FALSE, truncated |-> FALSE]
  BY DEF Monitor!Init
<1>2. progress \in [useful : BOOLEAN, reasoning : Nat, finished : BOOLEAN, truncated : BOOLEAN]
  BY <1>1
<1>3. guarded \in BOOLEAN /\ late \in BOOLEAN
  BY <1>1, Zenon
<1> QED
  BY <1>1, <1>2, <1>3 DEF MonitorInv

LEMMA MonitorStep == MonitorInv /\ [Monitor!Next]_monitorVars => MonitorInv'
<1> SUFFICES ASSUME MonitorInv, [Monitor!Next]_monitorVars PROVE MonitorInv'
  OBVIOUS
<1> USE DEF MonitorInv
<1>1. CASE Monitor!Ask
  BY <1>1 DEF Monitor!Ask, Monitor!End
<1>2. CASE Monitor!PassDeadline
  BY <1>2 DEF Monitor!PassDeadline
<1>3. CASE Monitor!Expire
  BY <1>3 DEF Monitor!Expire
<1>4. CASE Monitor!Forwarded
  BY <1>4 DEF Monitor!Forwarded, Monitor!End
<1>5. CASE Monitor!SourceEnds
  BY <1>5 DEF Monitor!SourceEnds, Monitor!End
<1>6. CASE Monitor!CancelWait
  BY <1>6 DEF Monitor!CancelWait, Monitor!End
<1>7. ASSUME NEW chunk \in Monitor!Chunk, Monitor!Receive(chunk) PROVE MonitorInv'
  <2>1. /\ chunk.answer \in BOOLEAN /\ chunk.reasoning \in {0, 1}
        /\ chunk.finish \in {"none", "stop", "length"}
    BY <1>7 DEF Monitor!Chunk
  <2>2. /\ mpc = "waiting" /\ UNCHANGED <<policy, late>>
        /\ progress' = Monitor!Observe(progress, chunk)
    BY <1>7 DEF Monitor!Receive
  <2>3. /\ progress' \in [useful : BOOLEAN, reasoning : Nat, finished : BOOLEAN, truncated : BOOLEAN]
        /\ progress.useful => progress'.useful
    BY <2>1, <2>2 DEF Monitor!Observe
  <2>4. CASE policy /\ ~progress'.useful /\ progress'.reasoning > MaxReasoning
    <3>1. mpc' = "ended" /\ verdict' = "stalled" /\ UNCHANGED <<guarded, expired, lateChunks>>
      BY <1>7, <2>2, <2>4 DEF Monitor!Receive, Monitor!End
    <3> QED
      BY <2>2, <2>3, <2>4, <3>1
  <2>5. CASE ~(policy /\ ~progress'.useful /\ progress'.reasoning > MaxReasoning)
    <3>1. /\ mpc' = "forwarding" /\ UNCHANGED <<guarded, expired, verdict>>
          /\ lateChunks' = IF (policy /\ ~progress'.useful) /\ late THEN lateChunks + 1 ELSE lateChunks
      BY <1>7, <2>5 DEF Monitor!Receive, Monitor!End
    <3>2. policy /\ ~progress'.useful /\ late => lateChunks = 0
      BY <2>2, <2>3
    <3> QED
      BY <2>2, <2>3, <2>5, <3>1, <3>2, BoundsAssumption DEF BoundsAssumption
  <2> QED
    BY <2>4, <2>5
<1>8. ASSUME NEW error \in {"timeout", "other"}, Monitor!SourceFails(error) PROVE MonitorInv'
  BY <1>8 DEF Monitor!SourceFails, Monitor!End
<1>9. CASE UNCHANGED monitorVars
  BY <1>9 DEF monitorVars
<1> QED
  BY <1>1, <1>2, <1>3, <1>4, <1>5, <1>6, <1>7, <1>8, <1>9 DEF Monitor!Next

\* The deadline for the first output is total, and how a stream ended is what
\* was seen of it (monitor_stream of reasoning.py).
THEOREM DeadlineHolds == MCSpec => []DeadlineIsTotal
<1>1. MCInit => MonitorInv
  BY MonitorInit DEF MCInit
<1>2. MonitorInv /\ [MCNext]_allVars => MonitorInv'
  BY StepsOfComponents, MonitorStep
<1>3. MonitorInv => DeadlineIsTotal
  BY DEF MonitorInv, DeadlineIsTotal, Monitor!DeadlineIsTotal
<1> QED
  BY <1>1, <1>2, <1>3, PTL DEF MCSpec, MCSafetySpec

-----------------------------------------------------------------------------

\* The calls of a round: what runs ahead is eligible, results are collected in
\* order, and a barrier waits for all before it.
RoundInv ==
  /\ reads \in Seq(BOOLEAN) /\ Len(reads) \in 0..MaxCalls /\ ended \in BOOLEAN
  /\ call \in [1..MaxCalls -> {"waiting", "running", "cancelling", "ok", "failed"}]
  /\ results \in 0..Len(reads)
  /\ rpc = "running" => ended /\ \A j \in 1..results : call[j] = "ok"
  /\ rpc = "reading" => results = 0
  /\ rpc = "reading" => \A i \in Round!Calls : call[i] # "waiting" => Round!Eligible(i, reads)
  /\ \A i \in 1..MaxCalls : call[i] # "waiting" => i \in Round!Calls
  /\ Round!BarrierRespected

LEMMA RoundInit == Round!Init => RoundInv
<1> SUFFICES ASSUME Round!Init PROVE RoundInv
  OBVIOUS
<1>1. /\ reads = <<>> /\ ended = FALSE /\ results = 0 /\ rpc = "reading"
      /\ call = [i \in 1..MaxCalls |-> "waiting"]
  BY DEF Round!Init
<1>2. Round!Calls = {} /\ Len(reads) = 0 /\ reads \in Seq(BOOLEAN)
  BY <1>1 DEF Round!Calls
<1>3. ended \in BOOLEAN
  BY <1>1, Zenon
<1> QED
  BY <1>1, <1>2, <1>3, BoundsAssumption DEF RoundInv, BoundsAssumption, Round!BarrierRespected

\* A new call changes nothing for the ones before it.
LEMMA AppendRead ==
  ASSUME reads \in Seq(BOOLEAN), NEW safe \in BOOLEAN, reads' = Append(reads, safe)
  PROVE  /\ reads' \in Seq(BOOLEAN) /\ Len(reads') = Len(reads) + 1 /\ Len(reads) \in Nat
         /\ \A i \in 1..Len(reads) : Round!Eligible(i, reads') <=> Round!Eligible(i, reads)
<1>1. reads' \in Seq(BOOLEAN) /\ Len(reads') = Len(reads) + 1 /\ Len(reads) \in Nat
  OBVIOUS
<1>2. \A j \in 1..Len(reads) : reads'[j] = reads[j]
  OBVIOUS
<1>3. ASSUME NEW i \in 1..Len(reads)
      PROVE  Round!Eligible(i, reads') <=> Round!Eligible(i, reads)
  <2>1. \A j \in 1..i : reads'[j] = reads[j]
    BY <1>1, <1>2
  <2> QED
    BY <2>1 DEF Round!Eligible
<1> QED
  BY <1>1, <1>3

LEMMA RoundStep == RoundInv /\ [Round!Next]_roundVars => RoundInv'
<1> SUFFICES ASSUME RoundInv, [Round!Next]_roundVars PROVE RoundInv'
  OBVIOUS
<1>0. MaxCalls \in Nat /\ Len(reads) \in 0..MaxCalls /\ results \in 0..Len(reads)
  BY BoundsAssumption DEF BoundsAssumption, RoundInv
<1> USE <1>0 DEF RoundInv
\* Steps after the source was read keep the calls of the round.
<1>a. ASSUME Round!Drain, UNCHANGED <<reads, ended, results>> PROVE RoundInv'
  <2>1. \A i \in 1..MaxCalls : /\ call'[i] = "waiting" <=> call[i] = "waiting"
                               /\ call[i] = "ok" => call'[i] = "ok"
    BY <1>a DEF Round!Drain
  <2>2. call' \in [1..MaxCalls -> {"waiting", "running", "cancelling", "ok", "failed"}]
    BY <1>a DEF Round!Drain
  <2>3. rpc' = "draining"
    BY <1>a DEF Round!Drain
  <2>4. Round!BarrierRespected'
    BY <1>a, <2>1 DEF Round!BarrierRespected, Round!Calls, Round!Eligible
  <2> QED
    BY <1>a, <2>1, <2>2, <2>3, <2>4 DEF Round!Calls
<1>1. ASSUME NEW safe \in BOOLEAN, Round!ReadCall(safe) PROVE RoundInv'
  <2> DEFINE n == Len(reads) + 1
  <2>1. /\ rpc = "reading" /\ rpc' = "reading" /\ ~ended /\ Len(reads) < MaxCalls
        /\ reads' = Append(reads, safe) /\ UNCHANGED <<ended, results>>
    BY <1>1 DEF Round!ReadCall
  <2>2. /\ reads' \in Seq(BOOLEAN) /\ Len(reads') = n
        /\ \A i \in 1..Len(reads) : Round!Eligible(i, reads') <=> Round!Eligible(i, reads)
    BY <2>1, AppendRead
  <2>3. /\ n \in 1..MaxCalls /\ call[n] = "waiting"
    BY <2>1 DEF Round!Calls
  <2>4. call' = [call EXCEPT ![n] = IF mode = "stream" /\ Round!Eligible(n, reads') THEN "running" ELSE @]
    BY <1>1, <2>2 DEF Round!ReadCall
  <2>5. /\ call' \in [1..MaxCalls -> {"waiting", "running", "cancelling", "ok", "failed"}]
        /\ \A i \in 1..MaxCalls : i # n => call'[i] = call[i]
        /\ call'[n] # "waiting" => Round!Eligible(n, reads')
    BY <2>3, <2>4
  <2>6. \A i \in Round!Calls' : call'[i] # "waiting" => Round!Eligible(i, reads')
    BY <2>1, <2>2, <2>3, <2>5 DEF Round!Calls
  <2>7. Round!BarrierRespected'
    BY <2>6 DEF Round!BarrierRespected
  <2>8. \A i \in 1..MaxCalls : call'[i] # "waiting" => i \in Round!Calls'
    BY <2>1, <2>2, <2>3, <2>5 DEF Round!Calls
  <2>9. Len(reads') \in 0..MaxCalls /\ results' \in 0..Len(reads')
    BY <2>1, <2>2
  <2> QED
    BY <2>1, <2>2, <2>5, <2>6, <2>7, <2>8, <2>9
<1>2. CASE Round!ReadEnd
  <2>1. rpc = "reading" /\ rpc' = "reading" /\ ended' = TRUE /\ UNCHANGED <<reads, call, results>>
    BY <1>2 DEF Round!ReadEnd
  <2>2. Round!BarrierRespected'
    BY <2>1 DEF Round!BarrierRespected, Round!Calls
  <2>3. ended' \in BOOLEAN
    BY <2>1, Zenon
  <2> QED
    BY <2>1, <2>2, <2>3 DEF Round!Calls
<1>3. CASE Round!ReadFails
  BY <1>3, <1>a DEF Round!ReadFails
<1>4. CASE Round!StartRunning
  <2>1. rpc = "reading" /\ rpc' = "running" /\ ended /\ UNCHANGED <<reads, ended, results>>
    BY <1>4 DEF Round!StartRunning
  <2>2. /\ call' \in [1..MaxCalls -> {"waiting", "running", "cancelling", "ok", "failed"}]
        /\ \A i \in 1..MaxCalls : call'[i] # "waiting" =>
             i \in Round!Calls /\ Round!Eligible(i, reads)
    BY <1>4, <2>1 DEF Round!StartRunning
  <2>3. Round!BarrierRespected'
    BY <2>1, <2>2 DEF Round!BarrierRespected, Round!Calls
  <2>4. results = 0
    BY <2>1
  <2> QED
    BY <2>1, <2>2, <2>3, <2>4 DEF Round!Calls
<1>5. CASE Round!RunInline
  <2>1. /\ rpc = "running" /\ rpc' = "running" /\ results < Len(reads)
        /\ call' = [call EXCEPT ![results + 1] = "running"] /\ UNCHANGED <<reads, ended, results>>
    BY <1>5 DEF Round!RunInline
  <2>2. results + 1 \in 1..MaxCalls /\ results + 1 \in Round!Calls
    BY <2>1 DEF Round!Calls
  <2>3. /\ call' \in [1..MaxCalls -> {"waiting", "running", "cancelling", "ok", "failed"}]
        /\ \A i \in 1..MaxCalls : i # results + 1 => call'[i] = call[i]
        /\ \A j \in 1..results : call'[j] = "ok"
    BY <2>1, <2>2
  <2>4. Round!BarrierRespected'
    <3> SUFFICES ASSUME NEW i \in 1..Len(reads), ~Round!Eligible(i, reads), call'[i] # "waiting",
                        NEW j \in 1..(i - 1)
                 PROVE  ended /\ call'[j] = "ok"
      BY <2>1 DEF Round!BarrierRespected, Round!Calls, Round!Eligible
    <3>1. CASE i = results + 1
      BY <2>1, <2>3, <3>1
    <3>2. CASE i # results + 1
      <4>1. call[i] # "waiting" /\ i \in Round!Calls
        BY <2>3, <3>2 DEF Round!Calls
      <4>2. call[j] = "ok" /\ j \in 1..MaxCalls
        BY <4>1 DEF Round!BarrierRespected
      <4>3. j # results + 1
        BY <1>5, <4>2 DEF Round!RunInline
      <4> QED
        BY <2>1, <2>3, <4>2, <4>3
    <3> QED
      BY <3>1, <3>2
  <2> QED
    BY <2>1, <2>2, <2>3, <2>4 DEF Round!Calls
<1>6. CASE Round!Collect
  <2>1. CASE call[results + 1] = "ok" /\ results' = results + 1 /\ UNCHANGED <<rpc, call>>
    <3>1. rpc = "running" /\ results < Len(reads) /\ UNCHANGED <<reads, ended>>
      BY <1>6 DEF Round!Collect
    <3>2. \A j \in 1..results' : call'[j] = "ok"
      BY <2>1, <3>1
    <3>3. Round!BarrierRespected'
      BY <2>1, <3>1 DEF Round!BarrierRespected, Round!Calls, Round!Eligible
    <3> QED
      BY <2>1, <3>1, <3>2, <3>3 DEF Round!Calls
  <2>2. CASE Round!Drain /\ UNCHANGED results
    BY <1>6, <2>2, <1>a DEF Round!Collect
  <2> QED
    BY <1>6, <2>1, <2>2 DEF Round!Collect
<1>7. CASE Round!CancelRound
  <2>0. UNCHANGED <<reads, ended, results>>
    BY <1>7 DEF Round!CancelRound
  <2>1. CASE /\ rpc = "running" /\ results < Len(reads) /\ call[results + 1] = "running"
             /\ call' = [call EXCEPT ![results + 1] = "cancelling"] /\ UNCHANGED rpc
    <3>1. /\ call' \in [1..MaxCalls -> {"waiting", "running", "cancelling", "ok", "failed"}]
          /\ \A i \in 1..MaxCalls : /\ call'[i] = "waiting" <=> call[i] = "waiting"
                                    /\ call[i] = "ok" => call'[i] = "ok"
      BY <2>1
    <3>2. Round!BarrierRespected'
      BY <2>0, <2>1, <3>1 DEF Round!BarrierRespected, Round!Calls, Round!Eligible
    <3> QED
      BY <2>0, <2>1, <3>1, <3>2 DEF Round!Calls
  <2>2. CASE Round!Drain
    BY <1>a, <2>0, <2>2
  <2>3. CASE rpc' = "left" /\ UNCHANGED call
    <3>1. Round!BarrierRespected'
      BY <2>0, <2>3 DEF Round!BarrierRespected, Round!Calls, Round!Eligible
    <3> QED
      BY <2>0, <2>3, <3>1 DEF Round!Calls
  <2> QED
    BY <1>7, <2>1, <2>2, <2>3 DEF Round!CancelRound
<1>8. CASE Round!Complete
  BY <1>8, <1>a DEF Round!Complete
<1>9. CASE Round!CloseSource
  <2>1. rpc' = "closed" /\ UNCHANGED <<reads, ended, call, results>>
    BY <1>9 DEF Round!CloseSource
  <2>2. Round!BarrierRespected'
    BY <2>1 DEF Round!BarrierRespected, Round!Calls, Round!Eligible
  <2> QED
    BY <2>1, <2>2 DEF Round!Calls
<1>10. ASSUME NEW i \in 1..MaxCalls, Round!CallEnds(i) PROVE RoundInv'
  <2>1. PICK end \in {"ok", "failed"} : call' = [call EXCEPT ![i] = end]
    BY <1>10 DEF Round!CallEnds
  <2>2. call[i] \in {"running", "cancelling"} /\ UNCHANGED <<rpc, reads, ended, results>>
    BY <1>10 DEF Round!CallEnds, Round!Live
  <2>3. /\ call' \in [1..MaxCalls -> {"waiting", "running", "cancelling", "ok", "failed"}]
        /\ \A j \in 1..MaxCalls : /\ call'[j] = "waiting" <=> call[j] = "waiting"
                                  /\ call[j] = "ok" => call'[j] = "ok"
    BY <2>1, <2>2
  <2>4. Round!BarrierRespected'
    BY <2>2, <2>3 DEF Round!BarrierRespected, Round!Calls, Round!Eligible
  <2> QED
    BY <2>2, <2>3, <2>4 DEF Round!Calls, Round!Eligible
<1>11. CASE UNCHANGED roundVars
  BY <1>11 DEF roundVars, Round!BarrierRespected, Round!Calls, Round!Eligible
<1> QED
  BY <1>1, <1>2, <1>3, <1>4, <1>5, <1>6, <1>7, <1>8, <1>9, <1>10, <1>11 DEF Round!Next

\* A tool with side effects waits for the end of the round and for every call
\* before it (execute_tool_stream of stream_tools.py).
THEOREM BarrierHolds == MCSpec => []BarrierRespected
<1>1. MCInit => RoundInv
  BY RoundInit DEF MCInit
<1>2. RoundInv /\ [MCNext]_allVars => RoundInv'
  BY StepsOfComponents, RoundStep
<1>3. RoundInv => BarrierRespected
  BY DEF RoundInv, BarrierRespected
<1> QED
  BY <1>1, <1>2, <1>3, PTL DEF MCSpec, MCSafetySpec

-----------------------------------------------------------------------------

LEMMA OtherKind ==
  /\ Hedged!Kind = {"primary", "hedge"}
  /\ Hedged!Other("primary") = "hedge" /\ Hedged!Other("hedge") = "primary"
BY DEF Hedged!Kind, Hedged!Other

Status == {"none", "asked", "cancelling", "ready", "ended"}

\* A caller before its race has one request; one in its race and its teardown
\* has a permit, and so has one with two open requests; the request that is
\* forwarded has answered, and the other one is closed.
CallerInv(u) ==
  /\ hpc[u] \in {"idle", "first", "limit", "alone"} =>
       winner[u] = "primary" /\ request[u]["hedge"] = "none" /\ u \notin inTry
  /\ hpc[u] \in {"race", "settle", "finally"} => u \in inTry
  /\ hpc[u] \in {"settle", "stream"} => request[u][winner[u]] \in {"ready", "ended"}
  /\ hpc[u] = "stream" => request[u][Hedged!Other(winner[u])] \in {"none", "ended"}
  /\ (\A k \in Hedged!Kind : Hedged!Open(u, k)) => u \in inTry

HedgedInv ==
  /\ hpc \in [User -> {"idle", "first", "limit", "alone", "race", "settle", "stream", "finally", "gone"}]
  /\ request \in [User -> [Hedged!Kind -> Status]]
  /\ winner \in [User -> Hedged!Kind] /\ inTry \subseteq User
  /\ permits \in Nat /\ permits + Cardinality(inTry) <= MaxConcurrent
  /\ \A u \in User : CallerInv(u)

LEMMA HedgedInit == Hedged!Init => HedgedInv
<1> SUFFICES ASSUME Hedged!Init PROVE HedgedInv
  OBVIOUS
<1> USE OtherKind DEF Hedged!Init
<1>1. Cardinality({}) = 0
  BY FS_EmptySet
<1>2. permits \in Nat /\ permits + Cardinality(inTry) <= MaxConcurrent
  BY <1>1, BoundsAssumption DEF BoundsAssumption
<1>3. \A u \in User : CallerInv(u)
  BY DEF CallerInv, Hedged!Open
<1> QED
  BY <1>2, <1>3 DEF HedgedInv, Status

\* A step of one caller leaves the others as they are.
LEMMA OneCallerMoves ==
  ASSUME HedgedInv, NEW u \in User,
         \A v \in User \ {u} : /\ hpc'[v] = hpc[v] /\ request'[v] = request[v]
                              /\ winner'[v] = winner[v] /\ (v \in inTry' <=> v \in inTry)
  PROVE  \A v \in User \ {u} : CallerInv(v)'
BY DEF HedgedInv, CallerInv, Hedged!Open

\* A caller goes to where, its requests become mine, and first is its winner.
MovesTo(u, where, mine, first) ==
  /\ hpc' = [hpc EXCEPT ![u] = where] /\ request' = [request EXCEPT ![u] = mine]
  /\ winner' = [winner EXCEPT ![u] = first]

\* The permits are still accounted for.
PermitsKept(u) ==
  /\ inTry' \in {inTry, inTry \cup {u}, inTry \ {u}}
  /\ permits' \in Nat /\ permits' + Cardinality(inTry') <= MaxConcurrent

\* Such a caller is as CallerInv says.
Fits(u, where, mine, first) ==
  /\ where \in {"idle", "first", "limit", "alone", "race", "settle", "stream", "finally", "gone"}
  /\ mine \in [Hedged!Kind -> Status] /\ first \in Hedged!Kind
  /\ where \in {"idle", "first", "limit", "alone"} =>
       first = "primary" /\ mine["hedge"] = "none" /\ u \notin inTry'
  /\ where \in {"race", "settle", "finally"} => u \in inTry'
  /\ where \in {"settle", "stream"} => mine[first] \in {"ready", "ended"}
  /\ where = "stream" => mine[Hedged!Other(first)] \in {"none", "ended"}
  /\ (\A k \in Hedged!Kind : mine[k] \notin {"none", "ended"}) => u \in inTry'

\* What the steps of a caller have in common.
LEMMA CallerStepKeeps ==
  ASSUME HedgedInv, NEW u \in User, NEW where, NEW mine, NEW first,
         MovesTo(u, where, mine, first), Fits(u, where, mine, first), PermitsKept(u)
  PROVE  HedgedInv'
<1>1. /\ hpc'[u] = where /\ request'[u] = mine /\ winner'[u] = first
      /\ \A v \in User \ {u} : /\ hpc'[v] = hpc[v] /\ request'[v] = request[v]
                              /\ winner'[v] = winner[v] /\ (v \in inTry' <=> v \in inTry)
  BY DEF HedgedInv, MovesTo, PermitsKept
<1>2. \A v \in User \ {u} : CallerInv(v)'
  BY <1>1, OneCallerMoves
<1>3. CallerInv(u)'
  BY <1>1 DEF CallerInv, Hedged!Open, Fits
<1>4. /\ hpc' \in [User -> {"idle", "first", "limit", "alone", "race", "settle", "stream", "finally", "gone"}]
      /\ request' \in [User -> [Hedged!Kind -> Status]]
      /\ winner' \in [User -> Hedged!Kind] /\ inTry' \subseteq User
  BY DEF HedgedInv, MovesTo, Fits, PermitsKept
<1> QED
  BY <1>2, <1>3, <1>4 DEF HedgedInv, PermitsKept

LEMMA HedgedStep == HedgedInv /\ [Hedged!Next]_hedgeVars => HedgedInv'
<1> SUFFICES ASSUME HedgedInv, [Hedged!Next]_hedgeVars PROVE HedgedInv'
  OBVIOUS
<1>0. ASSUME NEW u \in User
      PROVE  /\ CallerInv(u) /\ winner[u] \in Hedged!Kind
             /\ request[u] \in [Hedged!Kind -> Status]
             /\ winner = [winner EXCEPT ![u] = winner[u]]
             /\ request = [request EXCEPT ![u] = request[u]]
             /\ hpc = [hpc EXCEPT ![u] = hpc[u]]
             /\ permits \in Nat /\ permits + Cardinality(inTry) <= MaxConcurrent
  BY DEF HedgedInv
<1> USE OtherKind
<1>1. ASSUME NEW u \in User, Hedged!Begin(u) PROVE HedgedInv'
  <2> DEFINE mine == [request[u] EXCEPT !["primary"] = "asked"]
  <2>1. /\ hpc[u] = "idle" /\ hpc' = [hpc EXCEPT ![u] = "first"]
        /\ request' = [request EXCEPT ![u]["primary"] = "asked"] /\ UNCHANGED <<winner, inTry, permits>>
    BY <1>1 DEF Hedged!Begin, Hedged!Goes, Hedged!Becomes
  <2>2. mine \in [Hedged!Kind -> Status] /\ mine["hedge"] = "none" /\ u \notin inTry /\ winner[u] = "primary"
    BY <1>0, <2>1 DEF CallerInv, Status
  <2>3. request' = [request EXCEPT ![u] = mine]
    BY <2>1 DEF HedgedInv
  <2> HIDE DEF mine
  <2>m. MovesTo(u, "first", mine, winner[u])
    BY <1>0, <2>1, <2>3 DEF MovesTo
  <2>f. Fits(u, "first", mine, winner[u])
    BY <1>0, <2>1, <2>2 DEF Fits
  <2>p. PermitsKept(u)
    BY <1>0, <2>1 DEF PermitsKept
  <2> QED
    BY <2>m, <2>f, <2>p, CallerStepKeeps
<1>2. ASSUME NEW u \in User, NEW k \in Hedged!Kind, Hedged!Answer(u, k) PROVE HedgedInv'
  <2>1. PICK s \in {"ready", "ended"} :
          /\ request[u][k] = "asked" \/ (request[u][k] = "cancelling" /\ s = "ended")
          /\ request' = [request EXCEPT ![u][k] = s]
    BY <1>2 DEF Hedged!Answer, Hedged!Becomes
  <2> DEFINE mine == [request[u] EXCEPT ![k] = s]
  <2>2. UNCHANGED <<hpc, winner, inTry, permits>>
    BY <1>2 DEF Hedged!Answer
  <2>3. /\ mine \in [Hedged!Kind -> Status] /\ mine[k] = s
        /\ \A o \in Hedged!Kind : o # k => mine[o] = request[u][o]
    BY <1>0 DEF Status
  <2>4. request' = [request EXCEPT ![u] = mine]
    BY <2>1 DEF HedgedInv
  <2> HIDE DEF mine
  <2>5. /\ hpc[u] \in {"idle", "first", "limit", "alone"} =>
             winner[u] = "primary" /\ mine["hedge"] = "none" /\ u \notin inTry
        /\ hpc[u] \in {"settle", "stream"} => mine[winner[u]] \in {"ready", "ended"}
        /\ hpc[u] = "stream" => mine[Hedged!Other(winner[u])] \in {"none", "ended"}
    BY <1>0, <2>1, <2>3 DEF CallerInv
  <2>6. /\ hpc[u] \in {"race", "settle", "finally"} => u \in inTry
        /\ (\A o \in Hedged!Kind : mine[o] \notin {"none", "ended"}) => u \in inTry
    BY <1>0, <2>1, <2>3 DEF CallerInv, Hedged!Open
  <2>7. hpc[u] \in {"idle", "first", "limit", "alone", "race", "settle", "stream", "finally", "gone"}
    BY DEF HedgedInv
  <2>m. MovesTo(u, hpc[u], mine, winner[u])
    BY <1>0, <2>2, <2>4 DEF MovesTo
  <2>f. Fits(u, hpc[u], mine, winner[u])
    BY <1>0, <2>2, <2>3, <2>5, <2>6, <2>7 DEF Fits
  <2>p. PermitsKept(u)
    BY <1>0, <2>2 DEF PermitsKept
  <2> QED
    BY <2>m, <2>f, <2>p, CallerStepKeeps
<1>3. ASSUME NEW u \in User, Hedged!Alone(u) PROVE HedgedInv'
  <2>1. /\ hpc[u] \in {"first", "alone"} /\ UNCHANGED <<request, winner, inTry, permits>>
        /\ \/ request[u]["primary"] = "ready" /\ hpc' = [hpc EXCEPT ![u] = "stream"]
           \/ hpc' = [hpc EXCEPT ![u] = "gone"]
    BY <1>3 DEF Hedged!Alone, Hedged!Goes
  <2>2. winner[u] = "primary" /\ request[u]["hedge"] = "none"
    BY <1>0, <2>1 DEF CallerInv
  <2>3. PICK where \in {"stream", "gone"} :
          hpc' = [hpc EXCEPT ![u] = where] /\ (where = "stream" => request[u]["primary"] = "ready")
    BY <2>1
  <2>m. MovesTo(u, where, request[u], winner[u])
    BY <1>0, <2>1, <2>3 DEF MovesTo
  <2>f. Fits(u, where, request[u], winner[u])
    BY <1>0, <2>1, <2>2, <2>3 DEF Fits
  <2>p. PermitsKept(u)
    BY <1>0, <2>1 DEF PermitsKept
  <2> QED
    BY <2>m, <2>f, <2>p, CallerStepKeeps
<1>4. ASSUME NEW u \in User, Hedged!Duplicate(u) PROVE HedgedInv'
  <2>1. /\ permits > 0 /\ hpc[u] \in {"limit", "first"} /\ permits' = permits - 1 /\ winner' = winner
    BY <1>4 DEF Hedged!Duplicate
  <2>2. winner[u] = "primary" /\ request[u]["hedge"] = "none" /\ u \notin inTry
    BY <1>0, <2>1 DEF CallerInv
  <2>3. IsFiniteSet(inTry) /\ Cardinality(inTry \cup {u}) = Cardinality(inTry) + 1 /\ Cardinality(inTry) \in Nat
    BY <2>2, FS_Subset, FS_AddElement, FS_CardinalityType, BoundsAssumption
       DEF HedgedInv, BoundsAssumption
  <2>4. CASE hpc' = [hpc EXCEPT ![u] = "race"] /\ request' = [request EXCEPT ![u]["hedge"] = "asked"]
             /\ inTry' = inTry \cup {u}
    <3> DEFINE mine == [request[u] EXCEPT !["hedge"] = "asked"]
    <3>1. mine \in [Hedged!Kind -> Status] /\ request' = [request EXCEPT ![u] = mine]
      BY <1>0, <2>4 DEF HedgedInv, Status
    <3>2. permits' \in Nat /\ permits' + Cardinality(inTry') <= MaxConcurrent
      BY <1>0, <2>1, <2>3, <2>4, BoundsAssumption DEF BoundsAssumption
    <3> HIDE DEF mine
    <3>m. MovesTo(u, "race", mine, winner[u])
      BY <1>0, <2>1, <2>4, <3>1 DEF MovesTo
    <3>f. Fits(u, "race", mine, winner[u])
      BY <1>0, <2>2, <2>4, <3>1 DEF Fits
    <3>p. PermitsKept(u)
      BY <2>4, <3>2 DEF PermitsKept
    <3> QED
      BY <3>m, <3>f, <3>p, CallerStepKeeps
  <2>5. CASE hpc' = [hpc EXCEPT ![u] = "gone"] /\ UNCHANGED <<request, inTry>>
    <3>1. permits' \in Nat /\ permits' + Cardinality(inTry') <= MaxConcurrent
      BY <1>0, <2>1, <2>3, <2>5, BoundsAssumption DEF BoundsAssumption
    <3>m. MovesTo(u, "gone", request[u], winner[u])
      BY <1>0, <2>1, <2>5 DEF MovesTo
    <3>f. Fits(u, "gone", request[u], winner[u])
      BY <1>0, <2>2, <2>5 DEF Fits
    <3>p. PermitsKept(u)
      BY <2>5, <3>1 DEF PermitsKept
    <3> QED
      BY <3>m, <3>f, <3>p, CallerStepKeeps
  <2> QED
    BY <1>4, <2>4, <2>5 DEF Hedged!Duplicate, Hedged!Goes, Hedged!Becomes
<1>5. ASSUME NEW u \in User, Hedged!Limited(u) PROVE HedgedInv'
  <2>1. /\ hpc[u] \in {"first", "limit"} /\ UNCHANGED <<request, winner, inTry, permits>>
        /\ hpc' = [hpc EXCEPT ![u] = "limit"] \/ hpc' = [hpc EXCEPT ![u] = "alone"]
    BY <1>5 DEF Hedged!Limited, Hedged!Goes
  <2>2. winner[u] = "primary" /\ request[u]["hedge"] = "none" /\ u \notin inTry
    BY <1>0, <2>1 DEF CallerInv
  <2>3. PICK where \in {"limit", "alone"} :
          hpc' = [hpc EXCEPT ![u] = where]
    BY <2>1
  <2>m. MovesTo(u, where, request[u], winner[u])
    BY <1>0, <2>1, <2>3 DEF MovesTo
  <2>f. Fits(u, where, request[u], winner[u])
    BY <1>0, <2>1, <2>2, <2>3 DEF Fits
  <2>p. PermitsKept(u)
    BY <1>0, <2>1 DEF PermitsKept
  <2> QED
    BY <2>m, <2>f, <2>p, CallerStepKeeps
\* The finally block is entered with the permit.
<1>a. ASSUME NEW u \in User, NEW first \in Hedged!Kind, Hedged!Unwind(u), u \in inTry,
             winner' = [winner EXCEPT ![u] = first], UNCHANGED <<inTry, permits>>
      PROVE  HedgedInv'
  <2> DEFINE mine == [k \in Hedged!Kind |-> Hedged!Cancelled(request[u][k])]
  <2>1. \A k \in Hedged!Kind : Hedged!Cancelled(request[u][k]) \in Status
    BY <1>0 DEF Hedged!Cancelled, Status
  <2>2. mine \in [Hedged!Kind -> Status]
    BY <2>1
  <2>3. hpc' = [hpc EXCEPT ![u] = "finally"] /\ request' = [request EXCEPT ![u] = mine]
    BY <1>a DEF Hedged!Unwind, Hedged!Goes
  <2> HIDE DEF mine
  <2>m. MovesTo(u, "finally", mine, first)
    BY <1>a, <2>3 DEF MovesTo
  <2>f. Fits(u, "finally", mine, first)
    BY <1>a, <2>2 DEF Fits
  <2>p. PermitsKept(u)
    BY <1>0, <1>a DEF PermitsKept
  <2> QED
    BY <2>m, <2>f, <2>p, CallerStepKeeps
<1>6. ASSUME NEW u \in User, Hedged!Settle(u) PROVE HedgedInv'
  <2>1. hpc[u] = "race" /\ u \in inTry /\ UNCHANGED <<inTry, permits>>
    BY <1>0, <1>6 DEF Hedged!Settle, CallerInv
  <2>2. PICK k \in Hedged!Kind :
          /\ winner' = [winner EXCEPT ![u] = k]
          /\ \/ /\ request[u][k] = "ready" /\ hpc' = [hpc EXCEPT ![u] = "settle"]
                /\ request' = [request EXCEPT ![u][Hedged!Other(k)] = Hedged!Cancelled(request[u][Hedged!Other(k)])]
             \/ Hedged!Unwind(u)
    BY <1>6 DEF Hedged!Settle, Hedged!Goes, Hedged!Becomes
  <2>3. CASE Hedged!Unwind(u)
    BY <1>a, <2>1, <2>2, <2>3
  <2>4. CASE /\ request[u][k] = "ready" /\ hpc' = [hpc EXCEPT ![u] = "settle"]
             /\ request' = [request EXCEPT ![u][Hedged!Other(k)] = Hedged!Cancelled(request[u][Hedged!Other(k)])]
    <3> DEFINE mine == [request[u] EXCEPT ![Hedged!Other(k)] = Hedged!Cancelled(request[u][Hedged!Other(k)])]
    <3>1. Hedged!Cancelled(request[u][Hedged!Other(k)]) \in Status /\ Hedged!Other(k) # k
          /\ Hedged!Other(k) \in Hedged!Kind
      BY <1>0 DEF Hedged!Cancelled, Status
    <3>2. mine \in [Hedged!Kind -> Status] /\ mine[k] = "ready" /\ request' = [request EXCEPT ![u] = mine]
      BY <1>0, <2>4, <3>1 DEF HedgedInv
    <3> HIDE DEF mine
    <3>m. MovesTo(u, "settle", mine, k)
      BY <2>2, <2>4, <3>2 DEF MovesTo
    <3>f. Fits(u, "settle", mine, k)
      BY <2>1, <3>2 DEF Fits
    <3>p. PermitsKept(u)
      BY <1>0, <2>1 DEF PermitsKept
    <3> QED
      BY <3>m, <3>f, <3>p, CallerStepKeeps
  <2> QED
    BY <2>2, <2>3, <2>4
<1>7. ASSUME NEW u \in User, Hedged!CloseLoser(u) PROVE HedgedInv'
  <2> DEFINE mine == [request[u] EXCEPT ![Hedged!Other(winner[u])] = "ended"]
  <2>1. /\ hpc[u] = "settle" /\ hpc' = [hpc EXCEPT ![u] = "stream"] /\ UNCHANGED <<winner, inTry, permits>>
        /\ request' = [request EXCEPT ![u][Hedged!Other(winner[u])] = "ended"]
    BY <1>7 DEF Hedged!CloseLoser, Hedged!Goes, Hedged!Becomes
  <2>2. Hedged!Other(winner[u]) # winner[u] /\ Hedged!Other(winner[u]) \in Hedged!Kind
    BY <1>0
  <2>3. /\ mine \in [Hedged!Kind -> Status] /\ request' = [request EXCEPT ![u] = mine]
        /\ mine[Hedged!Other(winner[u])] = "ended" /\ mine[winner[u]] = request[u][winner[u]]
    BY <1>0, <2>1, <2>2 DEF HedgedInv, Status
  <2>4. request[u][winner[u]] \in {"ready", "ended"}
    BY <1>0, <2>1 DEF CallerInv
  <2> HIDE DEF mine
  <2>m. MovesTo(u, "stream", mine, winner[u])
    BY <1>0, <2>1, <2>3 DEF MovesTo
  <2>f. Fits(u, "stream", mine, winner[u])
    BY <1>0, <2>1, <2>2, <2>3, <2>4 DEF Fits
  <2>p. PermitsKept(u)
    BY <1>0, <2>1 DEF PermitsKept
  <2> QED
    BY <2>m, <2>f, <2>p, CallerStepKeeps
\* The stream is over; its winner is open or closed.
<1>b. ASSUME NEW u \in User, hpc[u] = "stream", UNCHANGED <<winner, inTry, permits>>,
             hpc' = [hpc EXCEPT ![u] = IF u \in inTry THEN "finally" ELSE "gone"],
             request' \in {request, [request EXCEPT ![u][winner[u]] = "ended"]}
      PROVE  HedgedInv'
  <2>1. PICK mine \in {request[u], [request[u] EXCEPT ![winner[u]] = "ended"]} :
          request' = [request EXCEPT ![u] = mine]
    BY <1>0, <1>b DEF HedgedInv
  <2>2. /\ mine \in [Hedged!Kind -> Status]
        /\ mine[winner[u]] \in {"ready", "ended"}
        /\ mine[Hedged!Other(winner[u])] \in {"none", "ended"}
    BY <1>0, <1>b DEF CallerInv, Status
  <2>4. ~(\A k \in Hedged!Kind : mine[k] \notin {"none", "ended"})
    BY <1>0, <2>2
  <2>5. PICK where \in {"finally", "gone"} :
          hpc' = [hpc EXCEPT ![u] = where] /\ (where = "finally" <=> u \in inTry)
    BY <1>b
  <2>m. MovesTo(u, where, mine, winner[u])
    BY <1>0, <1>b, <2>1, <2>5 DEF MovesTo
  <2>f. Fits(u, where, mine, winner[u])
    BY <1>0, <1>b, <2>2, <2>4, <2>5 DEF Fits
  <2>p. PermitsKept(u)
    BY <1>0, <1>b DEF PermitsKept
  <2> QED
    BY <2>m, <2>f, <2>p, CallerStepKeeps
<1>8. ASSUME NEW u \in User, Hedged!EndStream(u) PROVE HedgedInv'
  BY <1>8, <1>b DEF Hedged!EndStream, Hedged!Goes
<1>9. ASSUME NEW u \in User, Hedged!Finish(u) PROVE HedgedInv'
  <2> DEFINE mine == [request[u] EXCEPT ![Hedged!Other(winner[u])] = "ended"]
  <2>1. /\ hpc[u] = "finally" /\ hpc' = [hpc EXCEPT ![u] = "gone"] /\ winner' = winner
        /\ request' = [request EXCEPT ![u][Hedged!Other(winner[u])] = "ended"]
        /\ permits' = permits + 1 /\ inTry' = inTry \ {u}
        /\ \A k \in Hedged!Kind : request[u][k] \in {"none", "ready", "ended"}
    BY <1>9 DEF Hedged!Finish, Hedged!Goes, Hedged!Becomes, Hedged!Done
  <2>2. Hedged!Other(winner[u]) \in Hedged!Kind
    BY <1>0
  <2>3. /\ mine \in [Hedged!Kind -> Status] /\ request' = [request EXCEPT ![u] = mine]
        /\ mine[Hedged!Other(winner[u])] = "ended"
    BY <1>0, <2>1, <2>2 DEF HedgedInv, Status
  <2>4. u \in inTry
    BY <1>0, <2>1 DEF CallerInv
  <2>5. IsFiniteSet(inTry) /\ Cardinality(inTry \ {u}) = Cardinality(inTry) - 1 /\ Cardinality(inTry) \in Nat
    BY <2>4, FS_Subset, FS_RemoveElement, FS_CardinalityType, BoundsAssumption
       DEF HedgedInv, BoundsAssumption
  <2>6. permits' \in Nat /\ permits' + Cardinality(inTry') <= MaxConcurrent
    BY <1>0, <2>1, <2>5, BoundsAssumption DEF BoundsAssumption
  <2> HIDE DEF mine
  <2>m. MovesTo(u, "gone", mine, winner[u])
    BY <1>0, <2>1, <2>3 DEF MovesTo
  <2>f. Fits(u, "gone", mine, winner[u])
    BY <1>0, <2>1, <2>2, <2>3 DEF Fits
  <2>p. PermitsKept(u)
    BY <2>1, <2>6 DEF PermitsKept
  <2> QED
    BY <2>m, <2>f, <2>p, CallerStepKeeps
<1>10. ASSUME NEW u \in User, Hedged!Cancel(u) PROVE HedgedInv'
  <2>1. UNCHANGED <<winner, inTry, permits>>
    BY <1>10 DEF Hedged!Cancel
  <2>2. CASE /\ hpc[u] \in {"first", "limit", "alone"}
             /\ hpc' = [hpc EXCEPT ![u] = "gone"] /\ UNCHANGED request
    <3>m. MovesTo(u, "gone", request[u], winner[u])
      BY <1>0, <2>1, <2>2 DEF MovesTo
    <3>f. Fits(u, "gone", request[u], winner[u])
      BY <1>0, <2>1, <2>2 DEF Fits, CallerInv
    <3>p. PermitsKept(u)
      BY <1>0, <2>1 DEF PermitsKept
    <3> QED
      BY <3>m, <3>f, <3>p, CallerStepKeeps
  <2>3. CASE /\ hpc[u] = "alone" /\ UNCHANGED hpc
             /\ request' = [request EXCEPT ![u]["primary"] = "cancelling"]
    <3> DEFINE mine == [request[u] EXCEPT !["primary"] = "cancelling"]
    <3>1. mine \in [Hedged!Kind -> Status] /\ mine["hedge"] = "none" /\ u \notin inTry /\ winner[u] = "primary"
          /\ request' = [request EXCEPT ![u] = mine]
      BY <1>0, <2>3 DEF CallerInv, Status, HedgedInv
    <3> HIDE DEF mine
    <3>m. MovesTo(u, "alone", mine, winner[u])
      BY <1>0, <2>1, <2>3, <3>1 DEF MovesTo
    <3>f. Fits(u, "alone", mine, winner[u])
      BY <1>0, <2>1, <2>3, <3>1 DEF Fits
    <3>p. PermitsKept(u)
      BY <1>0, <2>1 DEF PermitsKept
    <3> QED
      BY <3>m, <3>f, <3>p, CallerStepKeeps
  <2>4. CASE hpc[u] \in {"race", "settle"} /\ Hedged!Unwind(u)
    BY <1>0, <1>a, <2>1, <2>4 DEF CallerInv
  <2>5. CASE /\ hpc[u] = "stream" /\ request' = [request EXCEPT ![u][winner[u]] = "ended"]
             /\ hpc' = [hpc EXCEPT ![u] = IF u \in inTry THEN "finally" ELSE "gone"]
    BY <1>b, <2>1, <2>5
  <2>6. CASE /\ hpc[u] = "finally" /\ (\A k \in Hedged!Kind : Hedged!Done(u, k))
             /\ hpc' = [hpc EXCEPT ![u] = "gone"] /\ UNCHANGED request
    <3>1. u \in inTry
      BY <1>0, <2>6 DEF CallerInv
    <3>m. MovesTo(u, "gone", request[u], winner[u])
      BY <1>0, <2>1, <2>6 DEF MovesTo
    <3>f. Fits(u, "gone", request[u], winner[u])
      BY <1>0, <2>1, <2>6, <3>1 DEF Fits
    <3>p. PermitsKept(u)
      BY <1>0, <2>1 DEF PermitsKept
    <3> QED
      BY <3>m, <3>f, <3>p, CallerStepKeeps
  <2> QED
    BY <1>10, <2>2, <2>3, <2>4, <2>5, <2>6 DEF Hedged!Cancel, Hedged!Goes, Hedged!Becomes
<1>11. CASE UNCHANGED hedgeVars
  BY <1>11 DEF hedgeVars, HedgedInv, CallerInv, Hedged!Open
<1> QED
  BY <1>1, <1>2, <1>3, <1>4, <1>5, <1>6, <1>7, <1>8, <1>9, <1>10, <1>11 DEF Hedged!Next

\* Never more duplicates in flight than permits, also after permits were lost,
\* and no token is forwarded while the loser is open (stream_with_tail_hedge).
THEOREM DuplicatesStayBounded == MCSpec => []DuplicatesBounded
<1>1. MCInit => HedgedInv
  BY HedgedInit DEF MCInit
<1>2. HedgedInv /\ [MCNext]_allVars => HedgedInv'
  BY StepsOfComponents, HedgedStep
<1>3. HedgedInv => DuplicatesBounded
  <2> SUFFICES ASSUME HedgedInv PROVE DuplicatesBounded
    OBVIOUS
  <2> DEFINE both == {u \in User : \A k \in Hedged!Kind : Hedged!Open(u, k)}
  <2>1. both \subseteq inTry /\ inTry \subseteq User
    BY DEF HedgedInv, CallerInv
  <2>2. IsFiniteSet(inTry) /\ Cardinality(both) <= Cardinality(inTry) /\ Cardinality(inTry) \in Nat
        /\ Cardinality(both) \in Nat
    BY <2>1, FS_Subset, FS_CardinalityType, BoundsAssumption DEF BoundsAssumption
  <2>3. Cardinality(both) <= MaxConcurrent
    BY <2>2, BoundsAssumption DEF HedgedInv, BoundsAssumption
  <2>4. \A u \in User : hpc[u] = "stream" => ~Hedged!Open(u, Hedged!Other(winner[u]))
    BY DEF HedgedInv, CallerInv, Hedged!Open
  <2>5. Hedged!Cardinality(both) = Cardinality(both)
    BY DEF Hedged!Cardinality, Cardinality
  <2>6. Hedged!DuplicatesBounded
    BY <2>3, <2>4, <2>5 DEF Hedged!DuplicatesBounded
  <2> QED
    BY <2>6 DEF DuplicatesBounded
<1> QED
  BY <1>1, <1>2, <1>3, PTL DEF MCSpec, MCSafetySpec

-----------------------------------------------------------------------------

\* The types of a drafted call.
LEMMA DraftedTypes ==
  /\ Drafted!Init => Drafted!TypeOK
  /\ Drafted!TypeOK /\ [Drafted!Next]_draftVars => Drafted!TypeOK'
<1> USE DEF Drafted!TypeOK
<1>1. Drafted!Init => Drafted!TypeOK
  BY Zenon DEF Drafted!Init, Drafted!Launches
<1> SUFFICES ASSUME Drafted!TypeOK, [Drafted!Next]_draftVars PROVE Drafted!TypeOK'
  BY <1>1
<1>2. Drafted!Cancelled \in {"none", "value", "sentinel", "error", "cancelled", "cancelling"}
  BY DEF Drafted!Cancelled
<1>3. CASE Drafted!StartDraft
  BY <1>3 DEF Drafted!StartDraft
<1>4. CASE Drafted!EndDraft
  BY <1>4 DEF Drafted!EndDraft
<1>5. CASE Drafted!LoadChanges
  BY <1>5 DEF Drafted!LoadChanges
<1>6. CASE Drafted!Decide
  BY <1>2, <1>6 DEF Drafted!Decide, Drafted!Raises
<1>7. CASE Drafted!TakeDraft
  BY <1>2, <1>7 DEF Drafted!TakeDraft, Drafted!Raises
<1>8. CASE Drafted!CallNow
  BY <1>8 DEF Drafted!CallNow
<1>9. CASE Drafted!Called
  BY <1>2, <1>9 DEF Drafted!Called, Drafted!Raises
<1>10. CASE Drafted!CancelCall
  BY <1>2, <1>10 DEF Drafted!CancelCall, Drafted!Raises
<1>11. CASE Drafted!LeaveCall
  BY <1>11 DEF Drafted!LeaveCall
<1>12. CASE UNCHANGED draftVars
  BY <1>12 DEF draftVars
<1> QED
  BY <1>3, <1>4, <1>5, <1>6, <1>7, <1>8, <1>9, <1>10, <1>11, <1>12 DEF Drafted!Next

\* The modes and places of a round; RoundInv has the rest.
RoundPlaces ==
  mode \in {"serial", "parallel", "stream"} /\ rpc \in {"reading", "running", "draining", "closed", "left"}

LEMMA RoundTypes ==
  /\ Round!Init => RoundPlaces
  /\ RoundPlaces /\ [Round!Next]_roundVars => RoundPlaces'
  /\ RoundInv /\ RoundPlaces => Round!TypeOK
<1>1. Round!Init => RoundPlaces
  BY DEF Round!Init, RoundPlaces
<1>2. RoundPlaces /\ [Round!Next]_roundVars => RoundPlaces'
  BY DEF RoundPlaces, Round!Next, roundVars, Round!ReadCall, Round!ReadEnd, Round!ReadFails, Round!Drain,
         Round!StartRunning, Round!RunInline, Round!Collect, Round!CancelRound, Round!Complete,
         Round!CloseSource, Round!CallEnds
<1>3. RoundInv /\ RoundPlaces => Round!TypeOK
  BY DEF RoundInv, RoundPlaces, Round!TypeOK
<1> QED
  BY <1>1, <1>2, <1>3

\* A cancel is thrown at nodes that have not ended, since the chain of a node
\* that has not ended consists of such nodes.
LEMMA TargetIsLive ==
  ASSUME predecessor \in [Node -> Node \cup {External}], NEW n \in Node, ~Program!Ended(n)
  PROVE  Program!Target(n) \subseteq {m \in Node : ~Program!Ended(m)}
<1> DEFINE live == {m \in Node : ~Program!Ended(m)}
<1>1. ASSUME NEW m \in live, Program!Passes(m) PROVE predecessor[m] \in live
  BY <1>1 DEF Program!Passes
<1>2. live \in SUBSET Node /\ n \in live
  OBVIOUS
<1> HIDE DEF live
<1>3. Program!Target(n) \subseteq live
  BY <1>1, <1>2 DEF Program!Target
<1> QED
  BY <1>3 DEF live

\* The states of a node.
Places == {"none", "created", "waiting", "ready", "running", "ok", "error", "cancelled"}

\* The types of a workflow.
LEMMA ProgramTypes ==
  /\ Program!Init => Program!TypeOK
  /\ Program!TypeOK /\ [Program!Next]_programVars => Program!TypeOK'
<1>0. Program!Init => Program!TypeOK
  <2> SUFFICES ASSUME Program!Init PROVE Program!TypeOK
    OBVIOUS
  <2>1. startWhenReady \in BOOLEAN
    BY Zenon DEF Program!Init
  <2> QED
    BY <2>1 DEF Program!Init, Program!TypeOK
<1> SUFFICES ASSUME Program!TypeOK, [Program!Next]_programVars PROVE Program!TypeOK'
  BY <1>0
<1> USE DEF Program!TypeOK, Places
<1> DEFINE live == {m \in Node : ~Program!Ended(m)}
\* A node that goes on without ending keeps its cancel.
<1>a. ASSUME NEW n \in Node, NEW end \in Places,
             node' = [node EXCEPT ![n] = end],
             n \notin flagged' \/ end \in {"created", "waiting", "ready", "running"},
             flagged' \subseteq flagged
      PROVE  flagged' \subseteq live' /\ node' \in [Node -> Places]
  BY <1>a DEF Program!Ended, Places
<1>b. Program!HasValue \in {"running", "ready"}
  BY DEF Program!HasValue
<1>c. Program!Targets \subseteq live
  <2>1. \A n \in live : Program!Target(n) \subseteq live
    BY TargetIsLive
  <2>2. Program!Targets = UNION {Program!Target(n) : n \in live}
    BY DEF Program!Targets
  <2> HIDE DEF live
  <2> QED
    BY <2>1, <2>2
<1>1. ASSUME NEW n \in Node, Program!Begin(n) PROVE Program!TypeOK'
  <2>1. /\ node' = [node EXCEPT ![n] = "waiting"]
        /\ UNCHANGED <<startWhenReady, wpc, joining, predecessor, release, flagged>>
    BY <1>1 DEF Program!Begin
  <2> QED
    BY <1>a, <2>1 DEF Places
<1>2. ASSUME NEW n \in Node, Program!Ready(n) PROVE Program!TypeOK'
  <2>1. /\ n \notin flagged /\ UNCHANGED <<startWhenReady, wpc, joining, predecessor, release, flagged>>
        /\ \E end \in Places : node' = [node EXCEPT ![n] = end]
    <3>1. CASE predecessor[n] = External
      BY <1>2, <1>b, <3>1 DEF Program!Ready, Places
    <3>2. CASE predecessor[n] # External
      <4>1. node[predecessor[n]] \in {"none", "ok", "error", "cancelled"}
        BY <1>2, <3>2 DEF Program!Ready, Program!Ended
      <4> QED
        BY <1>2, <1>b, <3>2, <4>1 DEF Program!Ready, Places
    <3> QED
      BY <3>1, <3>2
  <2> QED
    BY <1>a, <2>1
<1>3. ASSUME NEW n \in Node, Program!Released(n) \/ Program!Operated(n) PROVE Program!TypeOK'
  <2>1. /\ n \notin flagged /\ UNCHANGED <<startWhenReady, wpc, joining, predecessor, release, flagged>>
        /\ \E end \in Places : node' = [node EXCEPT ![n] = end]
    BY <1>3 DEF Program!Released, Program!Operated, Places
  <2> QED
    BY <1>a, <2>1
<1>4. ASSUME NEW n \in Node, Program!NodeCancelled(n) PROVE Program!TypeOK'
  <2>1. Program!Answers(n) \subseteq Places
    BY <1>b DEF Program!Answers, Places
  <2>2. /\ \E end \in Places : node' = [node EXCEPT ![n] = end]
        /\ flagged' = flagged \ {n}
        /\ UNCHANGED <<startWhenReady, wpc, joining, predecessor, release>>
    BY <1>4, <2>1 DEF Program!NodeCancelled
  <2> QED
    BY <1>a, <2>2
<1>5. ASSUME NEW n \in Node, Program!Join(n) \/ Program!Joined(n) PROVE Program!TypeOK'
  BY <1>5 DEF Program!Join, Program!Joined, Program!Ended
<1>6. ASSUME NEW n \in Node, Program!CancelJoin(n) PROVE Program!TypeOK'
  <2>1. /\ ~Program!Ended(n) /\ flagged' = flagged \cup Program!Target(n)
        /\ UNCHANGED <<startWhenReady, wpc, joining, node, predecessor, release>>
    BY <1>6 DEF Program!CancelJoin
  <2>2. Program!Target(n) \subseteq live
    BY <2>1, TargetIsLive
  <2> QED
    BY <2>1, <2>2 DEF Program!Ended
<1>7. ASSUME NEW n \in Node, NEW p \in Node \cup {External}, Program!After(n, p) PROVE Program!TypeOK'
  <2>1. /\ node[n] = "none" /\ node' = [node EXCEPT ![n] = "created"]
        /\ predecessor' = [predecessor EXCEPT ![n] = p]
        /\ UNCHANGED <<startWhenReady, wpc, joining, release, flagged>>
    BY <1>7 DEF Program!After
  <2> QED
    BY <1>a, <2>1 DEF Places
<1>8. CASE Program!EndBody \/ Program!CancelClose
  <2>1. /\ wpc' \in {"body", "closing", "closed"} /\ flagged' = flagged \cup Program!Targets
        /\ UNCHANGED <<startWhenReady, joining, node, predecessor, release>>
    BY <1>8 DEF Program!EndBody, Program!CancelClose
  <2> QED
    BY <1>c, <2>1 DEF Program!Ended
<1>9. CASE Program!CloseWorkflow
  BY <1>9 DEF Program!CloseWorkflow, Program!Ended
<1>10. CASE UNCHANGED programVars
  BY <1>10 DEF programVars, Program!Ended
<1> QED
  BY <1>1, <1>2, <1>3, <1>4, <1>5, <1>6, <1>7, <1>8, <1>9, <1>10 DEF Program!Next, Program!Run

\* The types of a monitored stream.
LEMMA MonitorTypes ==
  /\ Monitor!Init => Monitor!TypeOK
  /\ Monitor!TypeOK /\ [Monitor!Next]_monitorVars => Monitor!TypeOK'
<1> USE BoundsAssumption DEF BoundsAssumption, Monitor!TypeOK
<1>1. Monitor!Init => Monitor!TypeOK
  <2> SUFFICES ASSUME Monitor!Init PROVE Monitor!TypeOK
    OBVIOUS
  <2>1. {policy, guarded, late, expired} \subseteq BOOLEAN
    BY Zenon DEF Monitor!Init
  <2> QED
    BY <2>1 DEF Monitor!Init
<1> SUFFICES ASSUME Monitor!TypeOK, [Monitor!Next]_monitorVars PROVE Monitor!TypeOK'
  BY <1>1
<1>2. CASE Monitor!Ask
  BY <1>2 DEF Monitor!Ask, Monitor!End
<1>3. CASE Monitor!PassDeadline
  BY <1>3 DEF Monitor!PassDeadline
<1>4. CASE Monitor!Expire
  BY <1>4 DEF Monitor!Expire
<1>5. CASE Monitor!Forwarded
  BY <1>5 DEF Monitor!Forwarded, Monitor!End
<1>6. CASE Monitor!SourceEnds
  BY <1>6 DEF Monitor!SourceEnds, Monitor!End
<1>7. CASE Monitor!CancelWait
  BY <1>7 DEF Monitor!CancelWait, Monitor!End
<1>8. ASSUME NEW chunk \in Monitor!Chunk, Monitor!Receive(chunk) PROVE Monitor!TypeOK'
  <2>1. chunk.answer \in BOOLEAN /\ chunk.reasoning \in {0, 1}
    BY DEF Monitor!Chunk
  <2>2. /\ lateChunks < MaxLate /\ UNCHANGED <<policy, late>>
        /\ progress' = Monitor!Observe(progress, chunk)
        /\ UNCHANGED <<guarded, expired>> /\ mpc' \in {"forwarding", "ended"}
        /\ verdict' \in {verdict, "stalled"} /\ lateChunks' \in {lateChunks, lateChunks + 1}
    BY <1>8 DEF Monitor!Receive, Monitor!End
  <2>3. progress' \in [useful : BOOLEAN, reasoning : 0..MaxReasoning + 1, finished : BOOLEAN,
                       truncated : BOOLEAN]
    BY <2>1, <2>2 DEF Monitor!Observe
  <2>4. lateChunks' \in 0..MaxLate
    BY <2>2
  <2> QED
    BY <2>2, <2>3, <2>4
<1>9. ASSUME NEW error \in {"timeout", "other"}, Monitor!SourceFails(error) PROVE Monitor!TypeOK'
  BY <1>9 DEF Monitor!SourceFails, Monitor!End
<1>10. CASE UNCHANGED monitorVars
  BY <1>10 DEF monitorVars
<1> QED
  BY <1>2, <1>3, <1>4, <1>5, <1>6, <1>7, <1>8, <1>9, <1>10 DEF Monitor!Next

\* The permits are counted between none and all.
LEMMA HedgedTypes == HedgedInv => Hedged!TypeOK
<1> SUFFICES ASSUME HedgedInv PROVE Hedged!TypeOK
  OBVIOUS
<1>1. inTry \subseteq User /\ permits \in Nat /\ permits + Cardinality(inTry) <= MaxConcurrent
  BY DEF HedgedInv
<1>2. Cardinality(inTry) \in Nat
  BY <1>1, FS_Subset, FS_CardinalityType, BoundsAssumption DEF BoundsAssumption
<1>3. permits \in 0..MaxConcurrent
  BY <1>1, <1>2, BoundsAssumption DEF BoundsAssumption
<1> QED
  BY <1>3 DEF HedgedInv, Hedged!TypeOK, Status

\* The components keep their types: a cancel waits only for a node that has not
\* ended, a permit is never given out twice, and a caller that was cancelled in a
\* flight has joined one.
THEOREM TypeCorrect == MCSpec => []TypesOK
<1> DEFINE Inv == /\ FlightInv /\ HedgedInv /\ Drafted!TypeOK /\ RoundInv /\ RoundPlaces
                  /\ Program!TypeOK /\ Monitor!TypeOK
<1>1. MCInit => Inv
  BY FlightInit, HedgedInit, DraftedTypes, RoundInit, RoundTypes, ProgramTypes, MonitorTypes DEF MCInit
<1>2. Inv /\ [MCNext]_allVars => Inv'
  BY StepsOfComponents, FlightStep, HedgedStep, DraftedTypes, RoundStep, RoundTypes, ProgramTypes,
     MonitorTypes
<1>3. Inv => TypesOK
  BY HedgedTypes, RoundTypes DEF FlightInv, TypesOK
<1> QED
  BY <1>1, <1>2, <1>3, PTL DEF MCSpec, MCSafetySpec

=============================================================================
