----------------------------- MODULE CreditPool -----------------------------
(***************************************************************************)
(* What an admission component promises its callers, whatever its policy.  *)
(* A place gives at most so many credits.  A caller gets one credit, only  *)
(* while it asks and only at a place it may use, and keeps it there until  *)
(* it gives it back.  No pass leaves a caller asking unless a place it may *)
(* use is full.  Which callers are served, and where, is left open; when   *)
(* the credits of a place become fewer, nobody loses the one it has.       *)
(***************************************************************************)
EXTENDS Integers, FiniteSets

CONSTANTS Caller, Place

VARIABLES asking,   \* callers with a live request
          usable,   \* the places where each of them may be served
          holding,  \* the callers with a credit of each place
          credits   \* how many credits each place gives

pool == <<asking, usable, holding, credits>>

Init ==
  /\ asking = {}
  /\ usable = [c \in Caller |-> {}]
  /\ holding = [p \in Place |-> {}]
  /\ credits \in [Place -> Nat]

\* A pass of the component, from the requests and the credits in use that its
\* handler has left: grant says where each caller that is served gets its credit.
Serve(ask, use, hold) ==
  /\ asking' \subseteq ask
  /\ usable' = [c \in Caller |-> IF c \in asking' THEN use[c] ELSE {}]
  /\ \E grant \in [ask \ asking' -> Place] :
       /\ \A c \in ask \ asking' :
            /\ grant[c] \in use[c]
            /\ Cardinality(holding'[grant[c]]) <= credits'[grant[c]]
       /\ holding' = [p \in Place |-> hold[p] \cup {c \in ask \ asking' : grant[c] = p}]
  /\ \A c \in asking' :
       use[c] # {} => \E p \in use[c] : Cardinality(holding'[p]) >= credits'[p]

Ask(c, places) ==
  /\ c \notin asking /\ \A p \in Place : c \notin holding[p]
  /\ Serve(asking \cup {c}, [usable EXCEPT ![c] = places], holding)
  /\ credits' = credits

Withdraw(c) ==
  /\ c \in asking
  /\ Serve(asking \ {c}, usable, holding)
  /\ credits' = credits

GiveBack(c, p) ==
  /\ c \in holding[p]
  /\ Serve(asking, usable, [holding EXCEPT ![p] = @ \ {c}])
  /\ credits' = credits

\* Places open or close to callers that ask, or give more or fewer credits; or
\* nothing changes and the component makes another pass.
Rearrange(use) ==
  /\ Serve(asking, use, holding)
  /\ credits' \in [Place -> Nat]

Next ==
  \/ \E c \in Caller :
       \/ \E places \in SUBSET Place : Ask(c, places)
       \/ Withdraw(c)
       \/ \E p \in Place : GiveBack(c, p)
  \/ \E use \in [Caller -> SUBSET Place] : Rearrange(use)

Spec == Init /\ [][Next]_pool
=============================================================================
