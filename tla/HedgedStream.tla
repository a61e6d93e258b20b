---------------------------- MODULE HedgedStream ----------------------------
(***************************************************************************)
(* stream_with_tail_hedge of src/.../hedged_stream.py: when the first      *)
(* token is late, a duplicate request races the first one, under a limit   *)
(* on the duplicates that the callers share.                               *)
(*                                                                         *)
(* A request is the stream together with the task that asks it for its     *)
(* first token: "asked", "cancelling", "ready" (it yielded and is open) or *)
(* "ended" (exhausted, failed or closed).                                  *)
(***************************************************************************)
EXTENDS Integers, FiniteSets

CONSTANTS User, MaxConcurrent

VARIABLES
  hpc,      \* where each caller is
  request,  \* its "primary" and "hedge" requests
  winner,   \* the request whose items it forwards
  inTry,    \* callers inside the try block, which gives the permit back
  permits   \* HedgeLimiter._semaphore

hedgeVars == <<hpc, request, winner, inTry, permits>>

Kind == {"primary", "hedge"}
Other(k) == CHOOSE o \in Kind : o # k
Done(u, k) == request[u][k] \in {"none", "ready", "ended"}
Open(u, k) == request[u][k] \notin {"none", "ended"}

Init ==
  /\ hpc = [u \in User |-> "idle"]
  /\ request = [u \in User |-> [k \in Kind |-> "none"]]
  /\ winner = [u \in User |-> "primary"]
  /\ inTry = {} /\ permits = MaxConcurrent

Goes(u, where) == hpc' = [hpc EXCEPT ![u] = where]
Becomes(u, k, s) == request' = [request EXCEPT ![u][k] = s]
Cancelled(s) == IF s = "asked" THEN "cancelling" ELSE s

Begin(u) ==
  /\ hpc[u] = "idle" /\ Goes(u, "first") /\ Becomes(u, "primary", "asked")
  /\ UNCHANGED <<winner, inTry, permits>>

\* The server answers, or its stream ends or fails, or the task unwinds.
Answer(u, k) ==
  /\ \/ request[u][k] = "asked" /\ \E s \in {"ready", "ended"} : Becomes(u, k, s)
     \/ request[u][k] = "cancelling" /\ Becomes(u, k, "ended")
  /\ UNCHANGED <<hpc, winner, inTry, permits>>

\* The first token of the only request: in time, or with no permit for another.
Alone(u) ==
  /\ hpc[u] \in {"first", "alone"} /\ Done(u, "primary")
  /\ Goes(u, IF request[u].primary = "ready" THEN "stream" ELSE "gone")
  /\ UNCHANGED <<request, winner, inTry, permits>>

\* The first token is late and there is a permit: the request is sent again.
\* If the factory raises, the permit is lost and the first request is left.
Duplicate(u) ==
  /\ permits > 0
  /\ \/ hpc[u] = "limit"
     \/ hpc[u] = "first" /\ ~Done(u, "primary")
  /\ permits' = permits - 1
  /\ \/ Goes(u, "race") /\ Becomes(u, "hedge", "asked") /\ inTry' = inTry \cup {u}
     \/ Goes(u, "gone") /\ UNCHANGED <<request, inTry>>
  /\ UNCHANGED winner

\* No permit is free; it is waited for during a millisecond.
Limited(u) ==
  /\ \/ hpc[u] = "first" /\ ~Done(u, "primary") /\ permits = 0 /\ Goes(u, "limit")
     \/ hpc[u] = "limit" /\ Goes(u, "alone")
  /\ UNCHANGED <<request, winner, inTry, permits>>

\* The finally block is entered: what is not done is cancelled.
Unwind(u) ==
  /\ Goes(u, "finally")
  /\ request' = [request EXCEPT ![u] = [k \in Kind |-> Cancelled(@[k])]]

\* One of the two tasks is done; a winner that failed ends the call.
Settle(u) ==
  /\ hpc[u] = "race"
  /\ \E k \in Kind :
       /\ Done(u, k)
       /\ winner' = [winner EXCEPT ![u] = k]
       /\ \/ /\ request[u][k] = "ready" /\ Goes(u, "settle")
             /\ Becomes(u, Other(k), Cancelled(request[u][Other(k)]))
          \/ request[u][k] = "ended" /\ Unwind(u)
  /\ UNCHANGED <<inTry, permits>>

\* The loser has unwound; it is closed and the first item is forwarded.
CloseLoser(u) ==
  /\ hpc[u] = "settle" /\ Done(u, Other(winner[u]))
  /\ Becomes(u, Other(winner[u]), "ended") /\ Goes(u, "stream")
  /\ UNCHANGED <<winner, inTry, permits>>

\* The stream ends, or its consumer leaves it, which does not close the winner.
EndStream(u) ==
  /\ hpc[u] = "stream"
  /\ Goes(u, IF u \in inTry THEN "finally" ELSE "gone")
  /\ request' \in {request, [request EXCEPT ![u][winner[u]] = "ended"]}
  /\ UNCHANGED <<winner, inTry, permits>>

\* Mutant of Finish: the permit goes back before the tasks have ended.
FinishEarly(u) ==
  /\ hpc[u] = "finally"
  /\ permits' = permits + 1 /\ inTry' = inTry \ {u} /\ Goes(u, "gone")
  /\ UNCHANGED <<request, winner>>

\* The end of the finally block.
Finish(u) ==
  /\ hpc[u] = "finally" /\ \A k \in Kind : Done(u, k)
  /\ Becomes(u, Other(winner[u]), "ended")
  /\ permits' = permits + 1 /\ inTry' = inTry \ {u} /\ Goes(u, "gone")
  /\ UNCHANGED winner

\* A CancelledError reaches the caller.  Before the try block nothing is undone
\* and the primary runs on.  A gather() raises it when its tasks have ended; the
\* one of the finally block then skips the rest, and the permit is not returned.
Cancel(u) ==
  /\ \/ /\ hpc[u] \in {"first", "limit"} \/ (hpc[u] = "alone" /\ Done(u, "primary"))
        /\ Goes(u, "gone") /\ UNCHANGED request
     \/ /\ hpc[u] = "alone" /\ ~Done(u, "primary")
        /\ Becomes(u, "primary", "cancelling") /\ UNCHANGED hpc
     \/ hpc[u] = "race" /\ Unwind(u)
     \/ hpc[u] = "settle" /\ Done(u, Other(winner[u])) /\ Unwind(u)
     \/ /\ hpc[u] = "stream" /\ Becomes(u, winner[u], "ended")
        /\ Goes(u, IF u \in inTry THEN "finally" ELSE "gone")
     \/ /\ hpc[u] = "finally" /\ \A k \in Kind : Done(u, k)
        /\ Goes(u, "gone") /\ UNCHANGED request
  /\ UNCHANGED <<winner, inTry, permits>>

Next ==
  \E u \in User :
    \/ Begin(u) \/ Alone(u) \/ Duplicate(u) \/ Limited(u) \/ Settle(u) \/ CloseLoser(u)
    \/ EndStream(u) \/ Finish(u) \/ Cancel(u)
    \/ \E k \in Kind : Answer(u, k)

-----------------------------------------------------------------------------

TypeOK ==
  /\ hpc \in [User -> {"idle", "first", "limit", "alone", "race", "settle", "stream",
                       "finally", "gone"}]
  /\ request \in [User -> [Kind -> {"none", "asked", "cancelling", "ready", "ended"}]]
  /\ winner \in [User -> Kind] /\ inTry \subseteq User /\ permits \in 0..MaxConcurrent

\* "Process-local limit preventing duplicate-request amplification": a permit
\* stands for two open requests of one caller, through races, cancels and the
\* permits that are lost; and no item is forwarded while the loser is open.
DuplicatesBounded ==
  /\ Cardinality({u \in User : \A k \in Kind : Open(u, k)}) <= MaxConcurrent
  /\ \A u \in User : hpc[u] = "stream" => ~Open(u, Other(winner[u]))
=============================================================================
