--------------------------- MODULE CoflowAdmission ---------------------------
(***************************************************************************)
(* CoflowAdmission of src/.../coflow.py: credits of receivers, with a      *)
(* window that follows the queue feedback of the receiver.                 *)
(*                                                                         *)
(* An action is the run of a task between two awaits, with the dispatch    *)
(* pass that ends it.  Costs of questions are estimates over time, so the  *)
(* order of tickets of different questions that are not overdue is left    *)
(* open; tickets of one question share a cost, and the older one has aged  *)
(* more.  The window is kept as the whole number of credits it gives.      *)
(***************************************************************************)
EXTENDS Integers, FiniteSets, FiniteSetsExt

CONSTANTS
  Caller, Root, RootOf,    \* the callers and their questions
  Receiver,
  MinWindow, MaxWindow

VARIABLES
  order,     \* self.policy.order
  cpc,       \* a caller is "out", "waiting" for its ticket, "holding" it, or
             \* still in the slot of a ticket it has "returned"
  at,        \* the receiver of each caller's latest ticket
  queued,    \* state.pending of each receiver
  older,     \* the callers whose tickets, waiting when a caller's latest ticket
             \* came, have a smaller sequence number
  granted,   \* state.active of each receiver
  window,    \* self._limit of each receiver
  quiet,     \* state.quiet_samples, up to 2
  overdue,   \* queued tickets older than max_wait_seconds
  ccancel    \* waiting callers whose task was cancelled

Init ==
  /\ order \in {"fifo", "coflow"}
  /\ cpc = [c \in Caller |-> "out"]
  /\ at \in {[c \in Caller |-> r] : r \in Receiver}
  /\ queued = [r \in Receiver |-> {}]
  /\ older = [c \in Caller |-> {}]
  /\ granted = [r \in Receiver |-> {}]
  /\ \E w \in MinWindow..MaxWindow : window = [r \in Receiver |-> w]
  /\ quiet = [r \in Receiver |-> 0]
  /\ overdue = {} /\ ccancel = {}

\* _next() takes c rather than d, whatever the costs are.  The sequence numbers
\* include the one of a ticket that comes in this step.
Precedes(c, d) ==
  \/ c \in overdue /\ d \notin overdue
  \/ /\ order = "fifo" \/ {c, d} \subseteq overdue \/ RootOf[c] = RootOf[d]
     /\ c \in older'[d]

\* Mutant of Grants: one ticket more than the window has room for.
GrantsOneMore(queue, room) ==
  {G \in SUBSET queue :
     /\ Cardinality(G) = Min({Max({room + 1, 0}), Cardinality(queue)})
     /\ \A c \in queue, d \in G : Precedes(c, d) => c \in G}

\* The sets of tickets a pass may grant when it has this much room.
Grants(queue, room) ==
  {G \in SUBSET queue :
     /\ Cardinality(G) = Min({Max({room, 0}), Cardinality(queue)})
     /\ \A c \in queue, d \in G : Precedes(c, d) => c \in G}

\* _dispatch() on a receiver with this queue, these credits out and this
\* window: tickets with a cancelled future are dropped, then the best go.
Dispatch(r, queue, out, w) ==
  LET ready == queue \ ccancel IN
  \E G \in Grants(ready, w - Cardinality(out)) :
    /\ queued' = [queued EXCEPT ![r] = ready \ G]
    /\ granted' = [granted EXCEPT ![r] = out \cup G]
    /\ window' = [window EXCEPT ![r] = w]
    /\ overdue' = overdue \ (G \cup (queued[r] \ ready))

\* acquire(): a ticket that is granted at once does not suspend its caller.
Acquire(c, r) ==
  /\ cpc[c] = "out"
  /\ at' = [at EXCEPT ![c] = r]
  /\ older' = [d \in Caller |-> IF d = c THEN queued[r] ELSE older[d] \ {c}]
  /\ Dispatch(r, queued[r] \cup {c}, granted[r], window[r])
  /\ cpc' = [cpc EXCEPT ![c] = IF c \in granted'[r] THEN "holding" ELSE "waiting"]
  /\ UNCHANGED <<order, quiet, ccancel>>

\* The future of the ticket is set.
Resume(c) ==
  /\ cpc[c] = "waiting" /\ c \in granted[at[c]] \ ccancel
  /\ cpc' = [cpc EXCEPT ![c] = "holding"]
  /\ UNCHANGED <<order, at, queued, older, granted, window, quiet, overdue, ccancel>>

Cancel(c) ==
  /\ cpc[c] = "waiting" /\ c \notin ccancel
  /\ ccancel' = ccancel \cup {c}
  /\ UNCHANGED <<order, cpc, at, queued, older, granted, window, quiet, overdue>>

\* Mutant of AcquireCancelled: a ticket that was granted already is kept.
KeepGranted(c) ==
  /\ c \in ccancel
  /\ UNCHANGED <<order, at, older, quiet>>
  /\ Dispatch(at[c], queued[at[c]] \ {c}, granted[at[c]], window[at[c]])
  /\ cpc' = [cpc EXCEPT ![c] = "out"]
  /\ ccancel' = ccancel \ {c}

\* CancelledError at the await: the ticket is taken out of the queue, or out of
\* the credits when it was granted in the meantime.
AcquireCancelled(c) ==
  /\ c \in ccancel
  /\ UNCHANGED <<order, at, older, quiet>>
  /\ Dispatch(at[c], queued[at[c]] \ {c}, granted[at[c]] \ {c}, window[at[c]])
  /\ cpc' = [cpc EXCEPT ![c] = "out"]
  /\ ccancel' = ccancel \ {c}

\* release(), by the caller inside its slot or at the end of it.
Release(c, next) ==
  /\ cpc[c] = "holding"
  /\ UNCHANGED <<order, at, older, quiet, ccancel>>
  /\ Dispatch(at[c], queued[at[c]], granted[at[c]] \ {c}, window[at[c]])
  /\ cpc' = [cpc EXCEPT ![c] = next]

\* release() of a ticket that was released before.
ReleaseAgain(c) ==
  /\ cpc[c] = "returned"
  /\ cpc' = [cpc EXCEPT ![c] = "out"]
  /\ UNCHANGED <<order, at, queued, older, granted, window, quiet, overdue, ccancel>>

\* feedback() of an adaptive policy: a receiver with a queue of its own shrinks
\* the window by its smoothed congestion, at most to a half; two quiet samples
\* while tickets wait widen it.
Feedback(r, waiting) ==
  LET widens == ~waiting /\ quiet[r] >= 1 /\ queued[r] # {} IN
  /\ UNCHANGED <<order, cpc, at, older, ccancel>>
  /\ quiet' = [quiet EXCEPT ![r] = IF waiting \/ widens THEN 0 ELSE Min({2, @ + 1})]
  /\ \E w \in CASE waiting -> Max({MinWindow, window[r] \div 2})..window[r]
                [] widens  -> {Min({MaxWindow, window[r] + 1})}
                [] OTHER   -> {window[r]} :
       Dispatch(r, queued[r], granted[r], w)

\* Time: the oldest ticket that is not overdue becomes so.
Age(r) ==
  /\ \E c \in queued[r] \ overdue :
       /\ older[c] \cap queued[r] \subseteq overdue
       /\ overdue' = overdue \cup {c}
  /\ UNCHANGED <<order, cpc, at, queued, older, granted, window, quiet, ccancel>>

Run(c) == Resume(c) \/ AcquireCancelled(c) \/ Release(c, "out") \/ ReleaseAgain(c)

Next ==
  \/ \E c \in Caller :
       \/ \E r \in Receiver : Acquire(c, r)
       \/ Cancel(c) \/ Release(c, "returned") \/ Run(c)
  \/ \E r \in Receiver : Age(r) \/ \E waiting \in BOOLEAN : Feedback(r, waiting)

-----------------------------------------------------------------------------

TypeOK ==
  /\ cpc \in [Caller -> {"out", "waiting", "holding", "returned"}]
  /\ at \in [Caller -> Receiver]
  /\ older \in [Caller -> SUBSET Caller]
  /\ queued \in [Receiver -> SUBSET Caller] /\ granted \in [Receiver -> SUBSET Caller]
  /\ window \in [Receiver -> MinWindow..MaxWindow] /\ quiet \in [Receiver -> 0..2]
  /\ \A r \in Receiver :
       /\ queued[r] \cap granted[r] = {}
       /\ \A c \in queued[r] : at[c] = r /\ cpc[c] = "waiting"
       /\ \A c, d \in queued[r] :
            IF c \in older[d] THEN d \notin older[c] /\ older[c] \cap queued[r] \subseteq older[d]
                             ELSE c = d \/ d \in older[c]
  /\ overdue \subseteq UNION {queued[r] : r \in Receiver}
  /\ ccancel \subseteq {c \in Caller : cpc[c] = "waiting"}

\* A receiver's credits are out exactly to callers that hold its ticket, or
\* that were granted one and have yet to run: none is leaked by a cancellation
\* that comes after the grant, and none returned twice.
CreditsOwned ==
  \A c \in Caller, r \in Receiver :
    /\ cpc[c] = "holding" => (c \in granted[r] <=> at[c] = r)
    /\ c \in granted[r] => at[c] = r /\ cpc[c] \in {"waiting", "holding"}

\* No credit is idle while a ticket that is not cancelled waits for it, after a
\* withdrawal, a return or a wider window.
WorkConserving ==
  \A r \in Receiver :
    queued[r] \subseteq ccancel \/ Cardinality(granted[r]) >= window[r]

Asking == (UNION {queued[r] : r \in Receiver}) \ ccancel
Usable == [c \in Caller |-> IF c \in Asking THEN {at[c]} ELSE {}]

\* Every receiver is a place of a pool, which gives as many credits as its window
\* has at the moment: feedback that narrows the window takes no credit back, and
\* feedback that widens it leaves none idle.
Pool == INSTANCE CreditPool WITH
  Place <- Receiver,
  asking <- Asking, usable <- Usable, holding <- granted, credits <- window

ImplementsPool == Pool!Spec

\* Whoever asks for a credit gets it or withdraws.
CoflowAdmits == \A c \in Caller : cpc[c] = "waiting" ~> cpc[c] # "waiting"
=============================================================================
