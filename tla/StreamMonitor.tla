--------------------------- MODULE StreamMonitor ---------------------------
(***************************************************************************)
(* monitor_stream and StreamProgress of src/.../reasoning.py: a stream is  *)
(* forwarded chunk by chunk, and a policy bounds how long and how far it   *)
(* may reason before it produces an answer or a tool call.                 *)
(***************************************************************************)
EXTENDS Integers

CONSTANTS
  MaxReasoning,  \* policy.max_reasoning_characters, in chunks of reasoning
  MaxLate        \* bound: chunks counted after the deadline

VARIABLES
  policy,     \* a policy is given
  mpc,        \* "asking", "waiting" for a chunk, "forwarding" it or "ended"
  guarded,    \* the chunk is awaited under deadline_scope
  late,       \* the deadline has passed
  expired,    \* deadline_scope has cancelled the wait
  progress,   \* StreamProgress: useful, reasoning, finished, truncated
  lateChunks, \* chunks forwarded after the deadline before any answer
  outcome     \* how it ended

monitorVars == <<policy, mpc, guarded, late, expired, progress, lateChunks, outcome>>

\* A chunk: it holds some answer, some reasoning, and a reason to finish.
Chunk == [answer : BOOLEAN, reasoning : {0, 1}, finish : {"none", "stop", "length"}]

Init ==
  /\ policy \in BOOLEAN
  /\ mpc = "asking" /\ guarded = FALSE /\ late = FALSE /\ expired = FALSE
  /\ progress = [useful |-> FALSE, reasoning |-> 0, finished |-> FALSE, truncated |-> FALSE]
  /\ lateChunks = 0 /\ outcome = "none"

\* The finally block closes the source.
End(how) == mpc' = "ended" /\ outcome' = how /\ UNCHANGED <<guarded, expired>>

\* Mutant of Ask: the time that is left is not looked at between two chunks.
AskAnyway ==
  /\ mpc = "asking"
  /\ mpc' = "waiting" /\ guarded' = FALSE /\ expired' = FALSE /\ UNCHANGED outcome
  /\ UNCHANGED <<policy, late, progress, lateChunks>>

\* The top of the loop.
Ask ==
  /\ mpc = "asking"
  /\ LET watched == policy /\ ~progress.useful IN
       \/ watched /\ late /\ End("stalled")
       \/ /\ ~(watched /\ late)
          /\ mpc' = "waiting" /\ guarded' = watched /\ expired' = FALSE
          /\ UNCHANGED outcome
  /\ UNCHANGED <<policy, late, progress, lateChunks>>

PassDeadline ==
  /\ mpc # "ended" /\ policy /\ ~late /\ late' = TRUE
  /\ UNCHANGED <<policy, mpc, guarded, expired, progress, lateChunks, outcome>>

\* The timer of the scope runs, which may be after a chunk came in time.
Expire ==
  /\ mpc = "waiting" /\ guarded /\ late /\ ~expired
  /\ expired' = TRUE
  /\ UNCHANGED <<policy, mpc, guarded, late, progress, lateChunks, outcome>>

\* StreamProgress.observe: nothing that was seen is ever unseen.
Observe(p, chunk) ==
  [useful    |-> p.useful \/ chunk.answer,
   reasoning |-> IF p.reasoning > MaxReasoning THEN p.reasoning ELSE p.reasoning + chunk.reasoning,
   finished  |-> p.finished \/ chunk.finish = "stop",
   truncated |-> p.truncated \/ chunk.finish = "length"]

\* A chunk arrives, even from a source that caught the cancel of the scope.
Receive(chunk) ==
  /\ mpc = "waiting" /\ lateChunks < MaxLate
  /\ progress' = Observe(progress, chunk)
  /\ LET waits == policy /\ ~progress'.useful IN
       \/ waits /\ progress'.reasoning > MaxReasoning /\ End("stalled") /\ UNCHANGED lateChunks
       \/ /\ ~(waits /\ progress'.reasoning > MaxReasoning)
          /\ mpc' = "forwarding"
          /\ lateChunks' = IF waits /\ late THEN lateChunks + 1 ELSE lateChunks
          /\ UNCHANGED <<guarded, expired, outcome>>
  /\ UNCHANGED <<policy, late>>

\* The consumer asks for more, or leaves, or is cancelled.
Forwarded ==
  /\ mpc = "forwarding"
  /\ \/ mpc' = "asking" /\ UNCHANGED <<guarded, expired, outcome>>
     \/ End("left")
  /\ UNCHANGED <<policy, late, progress, lateChunks>>

\* The source is exhausted.
SourceEnds ==
  /\ mpc = "waiting"
  /\ LET p == progress IN
       End(IF policy /\ (~p.useful \/ ~p.finished \/ p.truncated)
           THEN "incomplete" ELSE "complete")
  /\ UNCHANGED <<policy, late, progress, lateChunks>>

\* The source raises: a TimeoutError, by itself or because the scope cancelled it,
\* is a stall only if the scope has expired; any other error passes.
SourceFails(error) ==
  /\ mpc = "waiting"
  /\ End(IF error = "timeout" /\ guarded /\ expired THEN "stalled" ELSE "error")
  /\ UNCHANGED <<policy, late, progress, lateChunks>>

\* The consumer is cancelled while the chunk is awaited.
CancelWait ==
  /\ mpc = "waiting" /\ End("left")
  /\ UNCHANGED <<policy, late, progress, lateChunks>>

Next ==
  \/ Ask \/ PassDeadline \/ Expire \/ Forwarded \/ SourceEnds \/ CancelWait
  \/ \E chunk \in Chunk : Receive(chunk)
  \/ \E error \in {"timeout", "other"} : SourceFails(error)

-----------------------------------------------------------------------------

TypeOK ==
  /\ {policy, guarded, late, expired} \subseteq BOOLEAN
  /\ mpc \in {"asking", "waiting", "forwarding", "ended"}
  /\ progress \in [useful : BOOLEAN, reasoning : 0..MaxReasoning + 1, finished : BOOLEAN,
                   truncated : BOOLEAN]
  /\ lateChunks \in 0..MaxLate
  /\ outcome \in {"none", "complete", "incomplete", "stalled", "error", "left"}

\* "A total first-output deadline, not a timeout renewed by reasoning tokens":
\* once it has passed at most the chunk that was under way is forwarded before an
\* answer, the allowance of reasoning is never overrun by what is forwarded, a
\* truncated or empty stream is never "complete", and "stalled" is one that has
\* no answer and is late or over its allowance, whatever its source raised.
DeadlineIsTotal ==
  /\ lateChunks <= 1
  /\ mpc = "forwarding" /\ policy /\ ~progress.useful => progress.reasoning <= MaxReasoning
  /\ outcome = "complete" /\ policy => progress.useful /\ progress.finished /\ ~progress.truncated
  /\ outcome = "stalled" =>
       policy /\ ~progress.useful /\ (late \/ progress.reasoning > MaxReasoning)
=============================================================================
