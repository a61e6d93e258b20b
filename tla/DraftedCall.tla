---------------------------- MODULE DraftedCall ----------------------------
(***************************************************************************)
(* A call whose input is still being decided, run ahead on a predicted     *)
(* input as a draft that is used only if the prediction is right:          *)
(*   "selection"  run_verified_speculation of src/.../verified.py,         *)
(*   "overlap"    WorkflowAdapter.verified_overlap of src/.../adaptive.py, *)
(*   "read"       prepare_read and _PreparedRead.consume of                *)
(*                src/.../inference_overlap.py.                            *)
(* Inputs are compared by value; here the prediction just matches or not.  *)
(***************************************************************************)
EXTENDS Integers

CONSTANTS MaxAge, Ceiling   \* bounds of a healthy sample of the server's load

VARIABLES
  flavour,   \* which of the three
  dpc,       \* "deciding", "awaiting" the draft, "dropping" it, "calling",
             \* "leaving" the finally block, "done"
  draft,     \* "none", "started" (not run yet), "running", "cancelling", or its end
  matches,   \* the decided input equals the predicted one
  pressure,  \* the sample of the server's load
  answer,    \* where the result comes from
  stopped    \* history: the caller was cancelled while it waited for the draft

draftVars == <<flavour, dpc, draft, matches, pressure, answer, stopped>>

Ended == draft \notin {"started", "running", "cancelling"}

Sample == [age : -1..MaxAge + 1, usage : {0, Ceiling}, waiting : {0, 1}]

Healthy(p) == p.age \in 0..MaxAge /\ p.usage < Ceiling /\ p.waiting = 0

\* ReadContract.eligible is a fact of the caller's contract, so either holds.
Launches(kind) ==
  CASE kind = "selection" -> {"started"}
    [] kind = "overlap"   -> IF Healthy(pressure) THEN {"none", "started"} ELSE {"none"}
    [] kind = "read"      -> {"none", "started"}

Init ==
  /\ flavour \in {"selection", "overlap", "read"}
  /\ pressure \in Sample
  /\ draft \in Launches(flavour)
  /\ dpc = "deciding" /\ matches \in BOOLEAN /\ answer = "none" /\ stopped = FALSE

\* task.cancel() of a task that is not done; before its first step it ends it.
Cancelled == CASE draft = "started" -> "cancelled"
               [] draft = "running" -> "cancelling"
               [] OTHER -> draft

\* Only the draft of verified_overlap looks at the load again when it runs.
StartDraft ==
  /\ draft = "started"
  /\ draft' = IF flavour = "overlap" /\ ~Healthy(pressure) THEN "sentinel" ELSE "running"
  /\ UNCHANGED <<flavour, dpc, matches, pressure, answer, stopped>>

\* A task that is cancelled may still return, or fail: the call it makes may
\* catch it.  One that is not may raise a CancelledError of its own.
EndDraft ==
  /\ draft \in {"running", "cancelling"}
  /\ draft' \in {"value", "error", "cancelled"}
  /\ UNCHANGED <<flavour, dpc, matches, pressure, answer, stopped>>

LoadChanges ==
  /\ pressure' \in Sample
  /\ UNCHANGED <<flavour, dpc, draft, matches, answer, stopped>>

\* The call ends with an error or a cancel, through the finally block if any.
Raises == dpc' = "leaving" /\ draft' = Cancelled /\ answer' = "error"

\* The input is known.  A prediction that failed cancels the draft, except that
\* run_verified_speculation awaits it in any case.
Decide ==
  /\ dpc = "deciding"
  /\ \/ Raises
     \/ /\ flavour = "selection" \/ (matches /\ draft # "none")
        /\ dpc' = "awaiting" /\ UNCHANGED <<draft, answer>>
     \/ /\ flavour # "selection" /\ (~matches \/ draft = "none")
        /\ dpc' = "dropping" /\ draft' = Cancelled /\ UNCHANGED answer
  /\ UNCHANGED <<flavour, matches, pressure, stopped>>

\* Mutant of TakeDraft: the handler of failures takes cancellation for one.
TakeDraftCatchingAll ==
  /\ dpc = "awaiting" /\ Ended
  /\ \/ /\ draft = "value" /\ matches
        /\ dpc' = "leaving" /\ answer' = "draft"
     \/ ~(draft = "value" /\ matches) /\ dpc' = "dropping" /\ UNCHANGED answer
  /\ UNCHANGED <<flavour, draft, matches, pressure, stopped>>

\* What the awaited draft came to.  Its failure never shows; its cancellation,
\* which cannot be told from the caller's, always does.
TakeDraft ==
  /\ dpc = "awaiting" /\ Ended
  /\ \/ draft = "cancelled" /\ Raises
     \/ /\ draft = "value" /\ matches
        /\ dpc' = "leaving" /\ answer' = "draft" /\ UNCHANGED draft
     \/ /\ draft # "cancelled" /\ ~(draft = "value" /\ matches)
        /\ dpc' = "dropping" /\ UNCHANGED <<draft, answer>>
  /\ UNCHANGED <<flavour, matches, pressure, stopped>>

\* The draft is out of the way and the call is made with the decided input.
CallNow ==
  /\ dpc = "dropping" /\ Ended
  /\ dpc' = "calling"
  /\ UNCHANGED <<flavour, draft, matches, pressure, answer, stopped>>

Called ==
  /\ dpc = "calling"
  /\ \/ dpc' = "leaving" /\ answer' = "call" /\ UNCHANGED draft
     \/ Raises
  /\ UNCHANGED <<flavour, matches, pressure, stopped>>

\* A cancel of the caller.  A draft that is awaited directly is cancelled in its
\* place and says how the await ends; one that has ended says nothing any more,
\* and a gather() raises when the draft has ended, also in the finally block.
CancelCall ==
  /\ stopped' = TRUE
  /\ \/ /\ dpc = "awaiting" /\ ~Ended
        /\ draft' = Cancelled /\ UNCHANGED <<dpc, answer>>
     \/ dpc \in {"awaiting", "dropping"} /\ Ended /\ Raises
     \/ /\ dpc = "leaving" /\ flavour = "overlap" /\ draft # "none" /\ Ended
        /\ dpc' = "done" /\ answer' = "error" /\ UNCHANGED draft
  /\ UNCHANGED <<flavour, matches, pressure>>

\* The finally block waits for the draft that it cancelled.
LeaveCall ==
  /\ dpc = "leaving" /\ Ended
  /\ dpc' = "done"
  /\ UNCHANGED <<flavour, draft, matches, pressure, answer, stopped>>

Next == StartDraft \/ EndDraft \/ LoadChanges \/ Decide \/ TakeDraft \/ CallNow \/ Called
        \/ CancelCall \/ LeaveCall

-----------------------------------------------------------------------------

TypeOK ==
  /\ flavour \in {"selection", "overlap", "read"}
  /\ dpc \in {"deciding", "awaiting", "dropping", "calling", "leaving", "done"}
  /\ draft \in {"none", "started", "running", "cancelling", "value", "sentinel", "error", "cancelled"}
  /\ matches \in BOOLEAN /\ pressure \in Sample /\ answer \in {"none", "draft", "call", "error"}
  /\ stopped \in BOOLEAN

\* "Draft failures also fall back" and a cancelled caller does not: what an
\* awaited draft came to is never misread.  An answer of the draft is a value for
\* the decided input; and a call that was cancelled over its draft goes on with a
\* call of its own only if the draft answered the cancel in its place, with an
\* error or with a value for another input.
DraftNeverMisread ==
  /\ answer = "draft" => matches /\ draft = "value"
  /\ stopped /\ (dpc = "calling" \/ answer = "call") =>
       draft = "error" \/ (draft = "value" /\ ~matches)

\* "Caller cancellation is never converted to a fallback request" (the comment in
\* consume).  It fails when the read answers the cancel of the await with an
\* error: it looks like a failure of the read, and the fallback is called.
CancellationNeverFallsBack ==
  flavour = "read" /\ stopped => dpc # "calling" /\ answer # "call"
=============================================================================
