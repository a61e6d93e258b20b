--------------------------- MODULE ProgramHarness ---------------------------
(***************************************************************************)
(* ProgramHarness of src/.../program_harness.py: a function under wrap()   *)
(* declares operations on the results of others with after() and takes     *)
(* their results with join(); whatever is left is cancelled when it ends.  *)
(* Awaiting a task and cancelling the one that awaits it cancels the task: *)
(* a cancel goes down the chain of predecessors to the one that runs.      *)
(***************************************************************************)
EXTENDS FiniteSets

CONSTANTS Node, External   \* External: a predecessor that is no node

VARIABLES
  startWhenReady, \* self.start_when_ready
  wpc,            \* the function is in its "body", "closing" or "closed"
  joining,        \* the nodes it is at a join() of
  node,           \* "none", "created", "waiting", "ready", "running", "ok", "error",
                  \* "cancelled"
  predecessor,
  release,        \* nodes whose release event is set
  flagged         \* nodes with a CancelledError to be thrown

programVars == <<startWhenReady, wpc, joining, node, predecessor, release, flagged>>

Ended(n) == node[n] \in {"none", "ok", "error", "cancelled"}

Init ==
  /\ startWhenReady \in BOOLEAN
  /\ wpc = "body" /\ joining = {}
  /\ node = [n \in Node |-> "none"]
  /\ predecessor = [n \in Node |-> External]
  /\ release = {} /\ flagged = {}

\* A node that awaits its predecessor passes a cancel on to it.
Passes(n) == node[n] = "waiting" /\ predecessor[n] # External /\ ~Ended(predecessor[n])

\* Where a cancel of a node is thrown: at the end of the chain it waits on.
Target(n) ==
  LET chains == {S \in SUBSET Node : n \in S /\ \A m \in S : Passes(m) => predecessor[m] \in S}
  IN {m \in Node : ~Passes(m) /\ \A S \in chains : m \in S}

\* Where the cancels of all nodes that are not done are thrown.
Targets == UNION {Target(n) : n \in {m \in Node : ~Ended(m)}}

\* after(): its name is new and its predecessor, if it is a node, exists.
After(n, p) ==
  /\ wpc = "body" /\ node[n] = "none"
  /\ p # External => node[p] # "none"
  /\ node' = [node EXCEPT ![n] = "created"]
  /\ predecessor' = [predecessor EXCEPT ![n] = p]
  /\ UNCHANGED <<startWhenReady, wpc, joining, release, flagged>>

\* The task takes its first step, after those that were created before it.
Begin(n) ==
  /\ node[n] = "created" /\ n \notin flagged
  /\ predecessor[n] # External => node[predecessor[n]] # "created"
  /\ node' = [node EXCEPT ![n] = "waiting"]
  /\ UNCHANGED <<startWhenReady, wpc, joining, predecessor, release, flagged>>

\* Where a node is once it has the value of its predecessor.
HasValue == IF startWhenReady THEN "running" ELSE "ready"

\* The predecessor has its value, or has failed or was cancelled.
Ready(n) ==
  /\ node[n] = "waiting" /\ n \notin flagged
  /\ IF predecessor[n] = External
     THEN \E end \in {HasValue, "error", "cancelled"} : node' = [node EXCEPT ![n] = end]
     ELSE /\ Ended(predecessor[n])
          /\ node' = [node EXCEPT ![n] =
                        IF node[predecessor[n]] = "ok" THEN HasValue ELSE node[predecessor[n]]]
  /\ UNCHANGED <<startWhenReady, wpc, joining, predecessor, release, flagged>>

\* release.wait() returns.
Released(n) ==
  /\ node[n] = "ready" /\ n \in release \ flagged
  /\ node' = [node EXCEPT ![n] = "running"]
  /\ UNCHANGED <<startWhenReady, wpc, joining, predecessor, release, flagged>>

Operated(n) ==
  /\ node[n] = "running" /\ n \notin flagged
  /\ \E end \in {"ok", "error", "cancelled"} : node' = [node EXCEPT ![n] = end]
  /\ UNCHANGED <<startWhenReady, wpc, joining, predecessor, release, flagged>>

\* How an await answers a CancelledError: what the caller of after() awaits and
\* runs may catch it, and return or fail; nothing else does.
Answers(n) ==
  CASE node[n] = "waiting" /\ predecessor[n] = External -> {HasValue, "error", "cancelled"}
    [] node[n] = "running" -> {"ok", "error", "cancelled"}
    [] OTHER -> {"cancelled"}

\* The CancelledError is thrown in run(), or before its first step.
NodeCancelled(n) ==
  /\ n \in flagged
  /\ \E end \in Answers(n) : node' = [node EXCEPT ![n] = end]
  /\ flagged' = flagged \ {n}
  /\ UNCHANGED <<startWhenReady, wpc, joining, predecessor, release>>

\* Mutant of Join: the node is not released.
JoinUnreleased(n) ==
  /\ wpc = "body" /\ node[n] # "none"
  /\ joining' = joining \cup {n}
  /\ UNCHANGED <<startWhenReady, wpc, node, predecessor, release, flagged>>

\* join(): it releases the node and awaits its task.
Join(n) ==
  /\ wpc = "body" /\ node[n] # "none"
  /\ joining' = joining \cup {n} /\ release' = release \cup {n}
  /\ UNCHANGED <<startWhenReady, wpc, node, predecessor, flagged>>

\* The result, error or cancellation of the task; the body goes on or ends.
Joined(n) ==
  /\ n \in joining /\ Ended(n)
  /\ joining' = joining \ {n}
  /\ UNCHANGED <<startWhenReady, wpc, node, predecessor, release, flagged>>

\* A cancel of the function while it joins.
CancelJoin(n) ==
  /\ n \in joining /\ ~Ended(n)
  /\ flagged' = flagged \cup Target(n)
  /\ UNCHANGED <<startWhenReady, wpc, joining, node, predecessor, release>>

\* The function, with no join left, returns or raises: what is not done is
\* cancelled.
EndBody ==
  /\ wpc = "body" /\ joining = {}
  /\ wpc' = "closing"
  /\ flagged' = flagged \cup Targets
  /\ UNCHANGED <<startWhenReady, joining, node, predecessor, release>>

\* A cancel of the function while it gathers: the tasks are cancelled again.
CancelClose ==
  /\ wpc = "closing" /\ \E n \in Node : ~Ended(n)
  /\ flagged' = flagged \cup Targets
  /\ UNCHANGED <<startWhenReady, wpc, joining, node, predecessor, release>>

\* The gather() of all tasks.
CloseWorkflow ==
  /\ wpc = "closing" /\ \A n \in Node : Ended(n)
  /\ wpc' = "closed"
  /\ UNCHANGED <<startWhenReady, joining, node, predecessor, release, flagged>>

Run(n) == Begin(n) \/ Ready(n) \/ Released(n) \/ Operated(n) \/ NodeCancelled(n) \/ Joined(n)

Next ==
  \/ \E n \in Node : Run(n) \/ Join(n) \/ CancelJoin(n) \/ \E p \in Node \cup {External} : After(n, p)
  \/ EndBody \/ CancelClose \/ CloseWorkflow

-----------------------------------------------------------------------------

TypeOK ==
  /\ startWhenReady \in BOOLEAN /\ wpc \in {"body", "closing", "closed"}
  /\ joining \subseteq Node /\ predecessor \in [Node -> Node \cup {External}]
  /\ node \in [Node -> {"none", "created", "waiting", "ready", "running", "ok", "error", "cancelled"}]
  /\ release \subseteq Node /\ flagged \subseteq {n \in Node : ~Ended(n)}

\* The nodes whose results a node is built from.
Ancestors[n \in Node] ==
  IF predecessor[n] = External THEN {} ELSE {predecessor[n]} \cup Ancestors[predecessor[n]]

\* A node under the control schedule has its input and waits for a join, with no
\* cancel on its way.
BlockedAtBarrier == \E n \in Node : node[n] = "ready" /\ n \notin release \cup flagged

\* A join returns and an ended workflow closes, whatever was cancelled and however
\* the cancels were answered.  Both except what the code does under the control
\* schedule: a join of a node hangs for good if one it depends on is not joined,
\* and closing hangs if the input of a node that was not joined answers its
\* cancel with a value, for then the node waits for its release.
JoinReturns ==
  /\ \A n \in Node :
       n \in joining /\ (startWhenReady \/ Ancestors[n] \subseteq release) ~> n \notin joining
  /\ wpc = "closing" ~> wpc = "closed" \/ BlockedAtBarrier
=============================================================================
