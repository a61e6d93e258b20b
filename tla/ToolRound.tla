----------------------------- MODULE ToolRound -----------------------------
(***************************************************************************)
(* execute_tool_stream of src/.../stream_tools.py: the tool calls of one   *)
(* round, which may start while the model still streams.                   *)
(***************************************************************************)
EXTENDS Integers, Sequences, FiniteSets

CONSTANT MaxCalls   \* bound: the calls of a round

VARIABLES
  mode,      \* "serial", "parallel" or "stream"
  rpc,       \* "reading" the source, "running" the calls in order, "draining",
             \* "closed", or "left" with the source not closed
  reads,     \* for each call that arrived: its tool is an independent snapshot read
  ended,     \* the round end was read
  call,      \* what each call that was started is doing
  results    \* how many results have been collected

roundVars == <<mode, rpc, reads, ended, call, results>>

Calls == 1..Len(reads)
\* calls[i].eligible: no barrier up to this call, so it may run ahead.
Eligible(i, arrived) == \A j \in 1..i : arrived[j]

Live(i) == call[i] \in {"running", "cancelling"}
\* A call that was started ahead of its turn has a task.
HasTask(i) == mode # "serial" /\ Eligible(i, reads) /\ call[i] # "waiting"

Init ==
  /\ mode \in {"serial", "parallel", "stream"}
  /\ rpc = "reading" /\ reads = <<>> /\ ended = FALSE
  /\ call = [i \in 1..MaxCalls |-> "waiting"]
  /\ results = 0

\* Mutant of Drain: the tasks are not cancelled.
DrainAsIs == rpc' = "draining" /\ UNCHANGED call

\* The finally block: every task that is not done is cancelled.  A call that the
\* round runs without a task is where an error comes from, so it has ended.
Drain ==
  /\ rpc' = "draining"
  /\ call' = [i \in DOMAIN call |-> IF call[i] = "running" THEN "cancelling" ELSE call[i]]

\* Mutant of ReadCall: the barrier does not outlast the call that raised it.
ReadCallForgetfully(safe) ==
  /\ rpc = "reading" /\ ~ended /\ Len(reads) < MaxCalls
  /\ reads' = Append(reads, safe)
  /\ call' = [call EXCEPT ![Len(reads')] = IF mode = "stream" /\ safe THEN "running" ELSE @]
  /\ UNCHANGED <<mode, rpc, ended, results>>

\* A call arrives.  One that is no independent read is a barrier for good.
ReadCall(safe) ==
  /\ rpc = "reading" /\ ~ended /\ Len(reads) < MaxCalls
  /\ reads' = Append(reads, safe)
  /\ call' = [call EXCEPT ![Len(reads')] =
                IF mode = "stream" /\ Eligible(Len(reads'), reads') THEN "running" ELSE @]
  /\ UNCHANGED <<mode, rpc, ended, results>>

\* RoundEnd with the right count.
ReadEnd ==
  /\ rpc = "reading" /\ ~ended /\ ended' = TRUE
  /\ UNCHANGED <<mode, rpc, reads, call, results>>

\* A protocol error, a source that fails or stops short, or a cancel.
ReadFails ==
  /\ rpc = "reading" /\ Drain
  /\ UNCHANGED <<mode, reads, ended, results>>

\* The source is exhausted after the round end.
StartRunning ==
  /\ rpc = "reading" /\ ended
  /\ rpc' = "running"
  /\ call' = [i \in DOMAIN call |->
                IF mode = "parallel" /\ i \in Calls /\ Eligible(i, reads) THEN "running" ELSE call[i]]
  /\ UNCHANGED <<mode, reads, ended, results>>

\* The next call in order has no task: the round runs it itself.
RunInline ==
  /\ rpc = "running" /\ results < Len(reads)
  /\ call[results + 1] = "waiting"
  /\ call' = [call EXCEPT ![results + 1] = "running"]
  /\ UNCHANGED <<mode, rpc, reads, ended, results>>

\* The handler returns or raises; a cancelled one unwinds.
CallEnds(i) ==
  /\ Live(i)
  /\ \E end \in {"ok", "failed"} : call' = [call EXCEPT ![i] = end]
  /\ UNCHANGED <<mode, rpc, reads, ended, results>>

\* The next result in order; an error of the call ends the round.
Collect ==
  /\ rpc = "running" /\ results < Len(reads)
  /\ \/ call[results + 1] = "ok" /\ results' = results + 1 /\ UNCHANGED <<rpc, call>>
     \/ call[results + 1] = "failed" /\ Drain /\ UNCHANGED results
  /\ UNCHANGED <<mode, reads, ended>>

\* A cancel while the next call is awaited cancels that call first; one that finds
\* its task done ends the round.  The gather() of the finally block raises it when
\* the tasks have ended, and then the source is not closed.
CancelRound ==
  /\ \/ /\ rpc = "running" /\ results < Len(reads) /\ call[results + 1] = "running"
        /\ call' = [call EXCEPT ![results + 1] = "cancelling"] /\ UNCHANGED rpc
     \/ /\ rpc = "running" /\ results < Len(reads) /\ HasTask(results + 1)
        /\ ~Live(results + 1) /\ Drain
     \/ /\ rpc = "draining" /\ (\E i \in Calls : HasTask(i)) /\ \A i \in Calls : ~Live(i)
        /\ rpc' = "left" /\ UNCHANGED call
  /\ UNCHANGED <<mode, reads, ended, results>>

Complete ==
  /\ rpc = "running" /\ results = Len(reads) /\ Drain
  /\ UNCHANGED <<mode, reads, ended, results>>

\* The tasks have ended, the source is closed and the round returns or raises.
CloseSource ==
  /\ rpc = "draining" /\ \A i \in Calls : ~Live(i)
  /\ rpc' = "closed"
  /\ UNCHANGED <<mode, reads, ended, call, results>>

Next ==
  \/ \E safe \in BOOLEAN : ReadCall(safe)
  \/ ReadEnd \/ ReadFails \/ StartRunning \/ RunInline \/ Collect \/ CancelRound \/ Complete
  \/ CloseSource
  \/ \E i \in 1..MaxCalls : CallEnds(i)

-----------------------------------------------------------------------------

TypeOK ==
  /\ mode \in {"serial", "parallel", "stream"}
  /\ rpc \in {"reading", "running", "draining", "closed", "left"}
  /\ reads \in Seq(BOOLEAN) /\ ended \in BOOLEAN
  /\ call \in [1..MaxCalls -> {"waiting", "running", "cancelling", "ok", "failed"}]
  /\ results \in 0..Len(reads)

\* "Unknown/side-effecting tools form an ordering barrier": a call at or after
\* one has started only if the round end was read and every call before it, the
\* ones that ran ahead too, is done and did not fail.
BarrierRespected ==
  \A i \in Calls :
    ~Eligible(i, reads) /\ call[i] # "waiting" => ended /\ \A j \in 1..(i - 1) : call[j] = "ok"
=============================================================================
