# Verification of the multi-agent RAG optimization adapters

TLA+ modules, TLC model checks and TLAPS proofs for the package under
`src/src/cnu_rag_optimization`. The package is a set of asyncio adapters placed between a multi-agent
application and its model servers: they decide when a call starts, where it runs, who shares it, and
what happens to it when something is cancelled or fails.

- [The system](#the-system)
- [What is modelled](#what-is-modelled)
- [What the runs check](#what-the-runs-check)
- [Disagreements found](#disagreements-found)
- [What is proved](#what-is-proved)
- [What is not modelled](#what-is-not-modelled)
- [Plan](#plan)

Run a check with `tlc -config <run>.cfg <module>.tla` and a proof with `tlapm <module>Proofs.tla`.
`PROJECT.json` lists the runs, the source lines of every definition, the mutants that show that each
property can fail, the hazards of the code and the theorems.

## The system

Everything runs in one asyncio event loop, except the link-state router and the compiled harness,
which use locks of `threading`; their critical sections are atomic as well. The loop makes every stretch
of code between two awaits atomic; what is hard is what may happen *at* an await: other tasks run, the task may be cancelled while it waits or
after its future was set and before it resumes, and what was read before may be stale.

| Component | State | Operations | What makes it correct |
|---|---|---|---|
| `completion.py` CompletionRouter | pending and active tickets, enabled replicas, turns, estimates, recheck timer | `acquire`, `release`, `set_enabled`, `slot`/`call`/`stream`, `_dispatch` | receivers are never oversubscribed, no credit is lost or returned twice, no lane idles while a call could use it, the ordering is the declared one, nobody starves |
| `continuation.py` ContinuationWindow | credit counter, pending tickets, progress of workflows | `slot`, `flow`, `_dispatch`, `_release` | the same for one resource; overdue calls first |
| `network_harness.py` NetworkHarness | queue, producer task, closing flag | `relay` (`produce`, `consume`, teardown) | chunks once and in order, bounded prefetch, source closed on exit, the caller woken and let out |
| `singleflight.py` AsyncSingleFlight | task of each key | `do` | one task per key in flight, no finished one kept |
| `call_overlap.py` CallOverlapAdapter | prepared call of each key | `prepare`, `consume`, `close`, stale purge | a prepared call is used once, under its exact contract, and never left running |
| `admission.py` PressureGate | limit, active count, queue on a condition variable | `slot`, `observe` | no credit idle for want of a notification, limit within bounds, whoever waits is admitted |
| `coflow.py` CoflowAdmission | per receiver: window, active and pending tickets | `acquire`, `release`, `feedback`, `slot` | credits owned by the calls that hold them, none idle while a ticket waits, nobody starves |
| `link_state.py` ContractLinkStateRouter | per link: in-flight count, delay, outcomes, circuit | `choose_path`, `begin`, `finish` | cheapest eligible path, load returned whatever failed |
| `hedged_stream.py` | two requests of a call, permits of the limiter | race of two streams | duplicates bounded, the loser closed before anything is forwarded |
| `verified.py`, `adaptive.py`, `inference_overlap.py` | a draft running ahead of its call | draft and verify, overlap under low load, prepared read | a draft is used only as verified, is never misread for the answer or the failure of the call |
| `stream_tools.py` | tasks of a round of tool calls | `execute_tool_stream` | side effects are a barrier, what was started is unwound |
| `program_harness.py` ProgramHarness | tasks of a workflow, release events | `wrap`, `after`, `join` | joins return, an ended workflow closes |
| `reasoning.py` | deadline and progress of a stream | `monitor_stream` | the deadline is total, truncation is not success, an error of the source is not a stall |
| `application_adapter.py` | records of calls | `call`, `stream`, `completion` | a managed stream holds a router credit only while its source is open |
| `reference_harness.py`, `structured_harness.py` | mapping of one request | compile or encode, restore, one retry | identifiers survive the round trip, also where the prompt cites them |
| `speculation_budget.py` | choices of calibrated contexts | `calibrate`, `select`, `propose` | only completely measured budgets are used |
| `trace_equivalence.py` | none | join events, compare runs | a verdict on traces that show every branch is true |
| `integrations/.../search_spec_plugin.py` | index of past sequences | suffix scan, draft choice | the longest repeat is found, at its latest place |
| `typed_dispatch.py`, `routing.py`, `selector.py`, `compiled_harness.py` | a manifest loaded once | pure decisions | the order of the rules |
| budgets, gates, settings, telemetry, scripts | none between calls | text, statistics, glue | |

Interactions: the application adapter acquires a router ticket inside the source of a relay, so the
relay's teardown is what returns the credit (`application_adapter.py:98-113`); the network harness hands
out the router's slots (`network_harness.py:45`); the overlap adapters start model calls that themselves
go through the router. Components otherwise share nothing but the loop.

The hazards list in `PROJECT.json` names, line by line, what is hard to test here: cancellation racing
with dispatch, credits that outlive their call, head-of-line blocking and starvation in the orderings,
full queues at teardown, entries that outlive their task, contracts compared late.

## What is modelled

A task is the unit of interleaving. One action is what a task does between two awaits, with the whole
`_dispatch()` pass or cleanup that ends it. `Cancel` is `task.cancel()`: it cancels a future that is
not done at once, and otherwise leaves a CancelledError to be thrown when the task resumes; the window
between the two is where the races are. Time is a choice: a ticket becomes overdue (`Age`) oldest first.
Sequence numbers are kept as the set of tickets that are ahead, so the state space is finite without
bounding the number of calls.

**`CompletionRouter`** models `completion.py`. `pending`, `active`, `enabled` and `lastDispatch` are the
router's fields; `future`, `released`, `assigned` and `request` are a ticket's, named by its task. The
loop of `_dispatch` with its virtual lanes is written as one formula: given the replica each ready ticket
tries and the order of the queue, a ticket is admitted when fewer earlier tickets tried its receiver
than it has idle lanes (`MeetsIdleLane`). That is the loop's `queue == 0`: a planned ticket adds a
positive service time to a lane, and the remaining time of an active call is positive too
(`residual_floor`). Scores become choices: with "completion" and "recent" routing a ticket may try any
of its enabled replicas, with "fastest" the best one; for "coflow" two tickets of different questions,
neither overdue, may come in either order, since costs depend on history and time. Two tickets of one
question share their cost, so the older one goes first. Turns of "fair" ordering are kept as ranks.

**`ContinuationWindow`** models `continuation.py` in the same style; `Precedes` is `priority`, `Granted`
the loop of `_dispatch`. Progress is counted to 3, where the code cuts it.

**`CreditPool`** is what the admission components promise, whatever their policy: a place gives no credit
beyond those it has, a caller gets one only while it asks and only at a place it may use, keeps it there until
it gives it back, and no pass leaves a caller asking unless a place it may use is full. Who is served is left
open, and `Rearrange` lets places open and close to callers and give more or fewer credits. Three components
implement it, each with a mapping at the end of its module:

| Component | places | `asking` | `usable` | `holding` | `credits` |
|---|---|---|---|---|---|
| `ContinuationWindow` | the window | live requests | the window | tickets acquired and not released | `Capacity` |
| `CompletionRouter` | receivers | pending tickets whose future is not cancelled | receivers of their enabled replicas | active tickets by the receiver of their replica | `Capacity` |
| `CoflowAdmission` | receivers | queued tickets that are not cancelled | the receiver of the ticket | `granted` | `window`, which feedback moves |

**`NetworkRelay`** models `relay`. `ppc` and `cpc` are where the producer and the caller's task stand,
`pcancel` a cancellation of the producer that has not been thrown yet, `held` the item of a blocked put.
The source is external and may yield, end, fail, or cancel the task it runs in; its cleanup may fail. It may
await after it has cancelled its task, or it may yield, end or raise at once (`cancels` of `ReadChunk`,
`SourceStops` and `CleanupEnds`): then the CancelledError meets the put of what it yielded, if the queue is full,
and `lost` remembers which item that took.

**`SingleFlight`** models `do`. No section under the lock awaits, so the lock is never waited for.
**`CallOverlap`** models the adapter's table and the loops of `_purge_stale` and `close`, which drop one
key after the other with an await in between. A prepared call is external: it returns, raises or ends
cancelled, whether or not it was asked to stop.

**`PressureGate`** and **`CoflowAdmission`** model the two other admission controllers. In the gate no
section under the condition's lock awaits anything but the condition, so `woken`, the waiters that were
notified and have not looked again, is all there is between a notification and its effect. A sample of
the server's load is one of four classes, which is what `observe` tells apart. In the coflow admission
`Dispatch` is the pass of one receiver: the tickets it grants are any set that the order allows
(`Grants`). The queue is a set; sequence numbers are kept as the callers that are `older` than each ticket. A moving average of congestion becomes a choice of the new window within what one sample
can do.

**`HedgedStream`** models `stream_with_tail_hedge`, one action for each place where it stops, and `Cancel`
with the outcome at each: before the `try` nothing is undone, a `gather` raises when its tasks have ended,
and a cancel in the `finally` block skips the rest of it, so a permit may be lost. **`DraftedCall`** models
the three ways to run a call ahead of its input with one state machine, as the three differ in when they
launch (`Launches`), what they do with a wrong prediction (`Decide`) and whether the load is looked at
again (`StartDraft`). A cancelled draft may still return or fail, and answers the cancel of the call that
awaits it in its place (`CancelCall`). **`ToolRound`** models `execute_tool_stream`; a call is eligible if no
call up to it is a barrier. A cancel in its `finally` block leaves the source open (`"left"`). Results are
a count: the code appends them call by call in order.
**`ProgramHarness`** models `wrap`, `after` and `join`, of which several may wait at a time; awaiting a task
passes a cancel on to it, so `Target` is the end of the chain of predecessors, as the set of that node. What a
node awaits or runs may answer a cancel with a value or an error (`Answers`). **`StreamMonitor`** models `monitor_stream`; the
timer of the deadline is a separate step (`Expire`), so it races the chunk, the error and the consumer.
**`ManagedStream`** extends `NetworkRelay` with the source that the application adapter gives it: opening
it asks the router for a ticket, and each way it can stop returns that ticket. A stream of a model that is
not one of the router's aliases has none ("unmanaged"), and is the bare relay.

**`LinkState`** models the search as the loops of the code, on a priority queue with serial numbers
(`Search`), while users begin and finish routes they chose earlier. **`NgramDraft`** models the scan as
the loop with its cut failure table (`Scan`), the index of a stage by what it finds, and the choice between
the two drafts, as with `SPEC_NGRAM_ORDER=latest`; with the default, `earliest`, the draft of the request is
vLLM's own and not in the repository. Both loops are a record of their variables, a `Pass` over it and the
function that iterates `Pass`; where it is read, at `Passes` and at two passes per token, the loop has ended.
**`ReferenceBoundary`** models both boundaries that replace identifiers by handles.
Identifiers may look like handles ("0", "1") and may be cited behind the data or elsewhere in the prompt, and
the model call may answer faithfully, by either name, or with anything.
The handles are a constant: the code numbers the objects, and all that matters is that handles differ.
**`BranchTraces`** compares what two runs really did with the verdict on traces that lost or repeated
events. **`DraftBudget`** calibrates from trials of which some measurements are lost.

Modules `MC*` give the constants their values. `MCAdmission`, `MCTasks` and `MCDecisions` each check
several components which share no state: the initial state chooses one (`used`) and only that one moves. The relay
is one of those of `MCTasks`, the window one of those of `MCDecisions`.
`FirstFew` holds lemmas for the proofs.

## What the runs check

| Run | Instance | Shows |
|---|---|---|
| `router_safety` | 3 calls of 2 questions; 3 replicas of 2 contracts on 2 receivers with 1 lane, one receiver shared; all orderings; one replica toggled | capacity, bookkeeping, no idle lane; calls start where they may, overdue first, FIFO within a question; the router implements `CreditPool` |
| `router_live` | 3 calls, 1 lane, with fairness | every call is served in fifo and coflow; in fair, while the other questions stay |
| `router_fair_starves` | 4 calls of 3 questions, 1 lane | fair ordering starves a question (violation) |
| `relay_hang` | the relay alone, queue of 2, up to 6 chunks | leaving hangs when the cleanup of the source raises (violation) |
| `relay_lost` | the same | a source that cancels its own task and ends leaves the caller waiting when the queue is full (violation) |
| `flight_stale` | 3 callers, 2 keys, 4 tasks | a finished answer stays when all callers were cancelled (violation) |
| `overlap` | 2 clients, 2 requests, 3 contracts each, 3 calls | prepared calls serve one client, exactly, and are never orphaned |
| `overlap_cancel` | the same | a cancelled consumer runs the fallback (violation) |
| `admission` | 3 callers of the gate with limits 1 to 3; 3 callers of 2 questions at one receiver with windows 1 to 2, both orderings; with fairness | credits belong to the calls that hold them, none idles, everyone is admitted or withdraws; the coflow admission implements `CreditPool` |
| `draft_cancel` | the components of `tasks` | a cancelled consumer of a prepared read makes the fallback request (violation) |
| `tasks` | a relay with a queue of 2 and up to 6 chunks, with and without a ticket of the router; single flight with 3 tasks; 2 hedged callers with 1 permit; one drafted call of each kind; a round of 3 tools in each mode; a workflow of 3 nodes; a monitored stream; with fairness | order, bounded prefetch, closed on exit, tickets returned; one flight per key, duplicates bounded, drafts never misread, barriers, total deadline; the caller of a relay is woken and let out, whoever is on its way out leaves, joins return and workflows close, each but for the hangs below |
| `decisions` | a window with 3 calls of 2 workflows and 1 credit, both orderings, with fairness; 5 links with 2 users; requests of up to 9 tokens; prompts of 2 objects; 2 branches with an odd one and a fault; 3 trials of 2 budgets | credits counted, work conserving, overdue first, every request granted, the window implements `CreditPool`; cheapest path, load returned, longest repeat, identifiers restored, true verdicts, measured budgets |

**Bounds.** Three calls are the least with one running, one waiting and one that overtakes it; two
receivers of one lane, one of them shared by two contracts, make a ticket reserve a lane another one
needs; more lanes change only the number at which a receiver is full. Two questions of which one has two
calls show rounds and turns; starvation in fair ordering needs three questions. In the window one credit
and three calls are the least with a holder and two that compete. Six chunks through a queue of two fill
it, block the producer and drain it more than once; the relay's state depends on the difference of
the counters, not on their values. A late cleanup that meets a newer task of its key takes three callers.
With three prepared calls each client can wait for one while another is in the table. The capacity test of
`prepare` is not reached with two keys and a table of two; no property depends on it. Symmetry is used
only in `overlap` and the two violation runs of flights and calls, which check invariants only.

A receiver of the coflow admission shares with the others only estimates, which are abstracted, so one
is enough; with windows of 1 and 2, shrinking leaves more credits out than the window has. Two hedged
callers and one permit are the least that can exceed the limit. Three calls of a round put a barrier
between two reads, and three nodes make a chain of two predecessors. The mesh of links has a direct link,
a way over one place that needs a contract, and a longer one without, so load, failures and circuits
each change which is cheapest; `MaxFinished` limits the outcomes that are measured. Nine tokens of two
kinds contain every pattern of repeats of grams of up to three tokens with overlaps, and reach the end of
the model's context. Two objects suffice for an identifier that is the handle of the other one.
`MaxLate` is above the one late chunk that is allowed, and `MaxOdd` and `MaxFaults` allow one branch that
misbehaved and one lost or repeated event, which already make a trace incomplete or ambiguous. A branch of which
every event was lost leaves no sign in its trace and takes three faults, so the run does not meet one; the verdict is
then about the branches that are seen, and `VerdictIsTrue` says nothing of it.

In `tasks` flights and nodes take their names in a fixed order (`FirstFree`, `NamedInOrder`): a name means
nothing, so this only removes copies of the same behaviour. `OverdueFirst` and `FifoWithinRoot` of the router speak
of a waiter whose only usable receiver is the one that is granted: one that may use several is placed by its
score, which is a choice here.

**Fairness.** `Proceed` is weakly fair for each task: the loop runs a task that is ready, and the body
of a slot ends, since a model call has a timeout of its own. `Age` is weakly fair: time passes. In the
relay a source that is read answers, and its cleanup ends. Nothing makes a caller start a call, read the
next chunk, leave or be cancelled, and no property uses the recheck timer. A managed
stream that waits for its ticket is answered: `EventuallyServed` shows that of the router in fifo and coflow
ordering. The liveness properties say
what then follows. `EventuallyServed` allows for disabled replicas, as the code does
(`completion.py:219`). `TurnsWhileOthersStay` has the premise under which fair ordering does not starve;
`router_fair_starves` shows what happens without it. `NobodyHangs` excepts the hangs of `relay_hang` and `relay_lost`. At the
gate and in the coflow admission each request that can run does (`Run`: a wake-up, the end of a body, a
cancellation), and tickets get old; samples of load and feedback need not come. In a workflow the
loop runs the nodes and operations end; whether the function joins anything is left to it. `JoinReturns` excepts two
hangs of the barrier schedule, which nothing in the code denies: a join of a node waits for good if a node it
depends on is never joined, since that one waits for its release; and closing a workflow does if what a node
awaits answers the cancel with a value, for then the node goes on to wait for its release (a second cancel ends
it). `LeavingEnds` assumes less than the others: work that was cancelled unwinds, but no other request, draft or
tool needs to end, so whoever is on its way out must have cancelled all it waits for.

## Disagreements found

Each was met while modelling, is shown by a run, and was reproduced by a small program on the real
classes.

1. `completion.py:161` says "One turn per backlogged question". `_dispatch` forgets the turn of a
   question that has no ticket for a moment (lines 197-198), so a question that issues its calls one after
   the other returns ahead of one that keeps a call waiting (`router_fair_starves`).
2. `network_harness.py:84` says "Do not enqueue a terminal item into a full abandoned buffer". When the
   cleanup of the cancelled source raises, line 91 does, and the caller waits for ever (`relay_hang`).
3. `singleflight.py:20` says "retain no completed answer". When all callers of a key are cancelled before
   the task is done, its entry stays, and a later call gets the old answer (`flight_stale`).
4. `call_overlap.py:144` says "The consumer's own cancellation is never turned into a fallback call". When
   the prepared call answers the cancellation with another exception, it is (`overlap_cancel`).
5. `network_harness.py:87` says "An upstream may cancel its own task. Wake the consumer with that exact error
   instead of silently leaving it on queue.get()". When the source ends, raises or is closed without another await
   and the queue is full, the cancellation ends the put of the terminal item, and the consumer, once it has
   drained the queue, waits for ever (`relay_lost`).
6. `inference_overlap.py:132` says "Caller cancellation is never converted to a fallback request". When the read
   answers the cancellation with an exception, it is (`draft_cancel`); `test_inference_overlap.py:174` has a read
   that does not. `verified.py:58` and `adaptive.py:201` have the same handler and make no such promise.

The docstring of `encode_selection_ids` (`structured_harness.py:60`) says that identifiers cited by the user bypass
encoding; line 83 looks only behind the data. What follows from it is an exception of `ReferencesRestored`
(`Confusable`): an identifier that is cited before the data or in another message, and is itself a handle,
is decoded to another object when the model calls it as it is cited there. All other prompts are safe.

## What is proved

For every value of the constants that satisfies the modules' assumptions:

| Module | Proved |
|---|---|
| `CompletionRouterProofs` | invariants `TypeOK`, `CapacityRespected`, `Bookkeeping`, `NoCreditLeak`, `NoIdleStall`; of every step `DispatchedWhereAllowed`, `OverdueFirst`, `FifoWithinRoot`; the router implements `CreditPool` |
| `ContinuationWindowProofs` | invariants `TypeOK`, `CreditsCounted`, `NoCreditLeak`, `WorkConserving`; of every step `OverdueFirst`; the window implements `CreditPool` |
| `NetworkRelayProofs` | invariants `TypeOK`, `BoundedPrefetch`, `ExactlyOnceInOrder`, `ClosedOnExit`; a streamed completion implements the relay (`StreamIsRelay`) and keeps `TicketReturned` |
| `CallOverlapProofs` | invariants `TypeOK`, `ServedOnceExactly`, `NoOrphanWork` |
| `MCAdmissionProofs` | invariants `TypesOK`, `CreditsOwned`, `NoIdleCredit`, of both admission controllers; the coflow admission implements `CreditPool` |
| `MCTasksProofs` | invariants `TypesOK`, `OneFlightPerKey`, `DraftNeverMisread`, `DeadlineIsTotal`, `BarrierRespected`, `DuplicatesBounded` |
| `MCDecisionsProofs` | invariants `TypesOK`, `LoadReturned`, `CheapestPath`, `DraftFollowsLongest`, `ReferencesRestored`, `VerdictIsTrue`, `DraftsAreMeasured` |

The last three are about the benches `MCAdmission`, `MCTasks` and `MCDecisions`, whose initial states are
those of their components; a first lemma separates the steps of these again, and each has an invariant of
its own. `TypeOK` of the router, the window and the relay, `TypesOK` of the last two benches, and
`NoCreditLeak` are listed in no run: the runs check what follows from them. `FirstFew` holds lemmas about ranks in finite orders.

**Assumptions.** They are the `ASSUME`s of the modules, which TLC evaluates: finite sets of tasks, callers
and questions; positive capacities, buffers and permits; bounds of a limit or a window that are positive and
in order; finitely many users of links; links of positive capacity with delays, penalties and costs in whole units;
positive lengths of grams in order, and stages that are sequences of tokens; handles that differ; branches that
have an input and an output; budgets that are positive and finitely many. The bounds of the runs
(`MaxChunks`, `MaxFinished`, ...) are numbers of any size.

**Router.** One pass is analysed once, whatever handler ran it (`DispatchEffect`,
`PassKeeps`): `LanesAfterPass` counts the calls on a receiver after a pass. The tickets that try a
receiver are ranked by their position, those with fewer than `k` ahead of them are at most `k` of them,
and exactly `k` when somebody is left out (`FirstFewAtMost` and `FirstFewAtLeast` of `FirstFew`). The
first half is the capacity bound, the second half is work conservation: a ticket left waiting has met a
receiver that is full. The properties are not inductive as they stand. The invariant `IInv` adds what a
ticket's flags say at each place a task can be (in the window between the grant and the first step, a
ticket is active while its task still waits), that turns are ranks, and that tickets in the queue which
are already cancelled block a lane just as live ones do, so that sweeping them cannot uncover an idle
lane. Each action then only has to show what it hands to the pass (`ReleaseKeeps`, `NoReleaseKeeps`).
The orderings need `QueueInv` besides: tickets know who in the queue arrived before them, in agreement with
each other, and the overdue ones are the oldest. `EldersPrecede` turns that into a fact about any order a
pass may choose, and `TakesEarlierFirst` into one about whom it starts: of two tickets that try one receiver,
the pass never takes the later one and leaves the earlier one.

**Window.** The same shape, with the arrival order and the count of holders in the invariant
(`ArrivalOrder`, `Counted`, `FullWhileQueued`); `PrioritiesRank` shows that `priority` is a strict total
order in both orderings, from which `OverdueFirst` follows for the grants of a pass (`DispatchInOrder`).

**Pool of credits.** The three refinements share one argument. A lemma about the pass (`HandsOutServes` of
the window, `PassServes` of the others) maps any pass to `Serve`, given what the handler has left: the
requests, where each may be served, and the credits in use. Its hard part is `Serve`'s last conjunct, that a
caller still asking meets a full place, and it comes from work conservation in the state *after* the step;
that a grant stays within the credits comes from the capacity bound there, or, where the credits of a place
move, from the pass itself (`PassGrants`: a pass that grants anything does not exceed the window it was
made in, although a narrowed window may have more out than it gives). One lemma for each handler says
what it leaves (`AcquireAsks`, `ReleaseGivesBack`, `CancelWithdraws`, ...). `task.cancel()` already withdraws
a request, since it cancels the future at once; the CancelledError that follows finds a request to
withdraw, a credit to give back, or nothing, and is then `Rearrange` or invisible, like the timer, the
health checker and feedback. Resuming, aging and new workflows are invisible.

**Relay.** The order needs to know what is in flight: `Level` counts it and `InOrder` says what each item is,
the next chunks and then a terminal item. Both end when the relay is left, for then the queue is abandoned
and the producer may be cancelled at any put. `HeldByPlace`, `OpenByPlace` and `CallerByPlace` say what goes
with each place of the two tasks, `CancelledBySource` that before the relay is left only the source cancels the
producer, and `LostLast` that after a cancel took an item nothing more is read. Each put is an `Append` to what is
in flight (`PutEffect`), each get a `Tail` of it (`TakeEffect`). For a streamed completion, `StepOfRelay` maps every step to one of the
relay, and it remains to show that a terminal item in flight agrees with how the ticket was returned
(`TicketTold`).

**Prepared calls.** The invariant adds that a call is in the table once, that what somebody refers to
has a task, and that a client has a call exactly while it waits for one. Every step of a client then either
takes a call out of the table or leaves (`TakingKeeps`, `LeavingKeeps`), whichever loop it came from.

**Admission.** That no credit idles in the gate is an invariant about wake-ups (`NoMissedWakeUp`): when there
is room, whoever stands first in the queue was notified or cancelled and is about to run. Waking everybody is
what keeps it (`AllTold`), and the lemmas on queues without repetition (`QueueAppend`, `QueueTail`,
`QueueRemove`) carry it over every handler. In the coflow admission a pass leaves a ticket behind only when
the window is full (`DispatchEffect`); `PassKeeps` is then the same fact for a release, a withdrawal and a
new window, also one below the number of credits that are out.

**Tasks.** The invariant of single flight adds that the table holds a task under the key it was started for:
the cleanup of a task then touches no entry but its own. For the hedged stream the bound on duplicates is
not inductive: `HedgedInv` adds that the callers inside the `try` block and the free permits are together no
more than the limit (fewer, when a permit was lost), and that whoever has two open requests is inside
that block. For a drafted call `DraftedInv` says what a draft may be once its
caller was cancelled, at each place the caller can be. In a round, `RoundInv` adds that only eligible calls have started while the round is read, and
that afterwards every call whose turn has passed has succeeded; the barrier follows. In a workflow
`TargetIsLive` shows that a cancel that is passed on ends at a node that is not over. `MonitorInv` says
which chunks can still be late at each place of the monitor.

**Decisions.** The load of a link is the number of users under way on it (`LoadIsUsers`). With the types of
the routes (`Routed`) it is inductive, whatever path the search returns: a route that is begun takes one
load on each of its links, and `finish` returns it whatever the outcome. Restoring identifiers
needs `PromptInv`: while an answer is checked it calls the objects it means by their handles or as the prompt
cites them if it was encoded, and by their own identifiers otherwise (`Named`); what is sent encoded may be
(`Sent`); a read is sent again only if it was sent encoded (`Resends`). Handles that differ make restoring an inverse. `VerdictOfCompleteTraces` shows
that a verdict on traces that show every branch compares what was done. `BudgetInv` adds that the choice of
a context is a budget whose arms were measured in the same trials (`ChoiceMeasured`); `BestIsMeasured` derives
it from the maximum that `calibrate` takes (`HighestOf`, `LeastOf`).

**Loops.** Dijkstra's search and the scan are proved right for every mesh and every request. What a recursive
definition computes needs an induction, and the prover has no induction rule it can instantiate; so
`AllNaturals` derives one for *sets* of naturals from the least element that is missing. From it,
`RunExists` gives for passes that keep a set of states the function that iterates them, which shows that
`Scan`, `Search` and `CostOf` satisfy their recursion (`ScanIsLoop`, `SearchIsLoop`, `CostsAddUp`), and each loop is
then an invariant that `Pass` keeps and a measure that it lowers (`ScanEnds`, `SearchEnds`).

The invariant of the search (`SearchInv`) is about a set `D` of expanded places. A queued path leads where it says at
the cost it says, over no more links than places are expanded (`Leads`); a place that is not expanded has its
cost from a path of the queue; no expanded place is farther than any path of the queue, so that a
path to it is stale when it is popped (`Frontier`); and a link of an expanded place is relaxed unless its turn is still to come
(`Unrelaxed`). When the target is popped, or the queue is empty, a path that left `D` would have to cost as much already
(`NoneIsCheaper`). Links may cost nothing; what matters is that no cost is negative (`CostsAreNat`). The measure counts queued paths and links
that wait, since each link is pushed at most once (`Weight`).

The invariant of the scan (`LoopInv`) says that the prefix of `prev` tokens ends where the scan stands (`Fits`), that
no longer one that does so is continued by the next token, that the failure table has the longest such prefix
for each entry that is filled, and that `longest` and `position` are the longest repeat so far and its first
place. The table is cut at the longest gram, and a full match falls back through its last entry, which is filled
by then (`GoOn`, `FallBack`).
`ScanFindsLongest` reads this in the order of the request: a prefix of the reversed request is a
suffix of the request, and the first place of the scan is the latest one. `DraftIsRight` adds the datastore.

**Only model-checked.** Every liveness property (`EventuallyServed`, `TurnsWhileOthersStay`, `EventuallyGranted`,
`NobodyHangs`, `EveryoneAdmitted`, `LeavingEnds`, `JoinReturns`) stays with TLC: fairness and ENABLED are beyond the prover.

## What is not modelled

- Values of estimates, costs and moving averages: they only choose among orders and replicas.
- Events, records and error counters: observers are called inside `try` and change nothing.
- Binding to one event loop, argument validation: they raise before any state changes.
- Contexts of Python (`ContextVar`): a nested slot of one task is a no-op in the window; a slot
  that is left in another context than it was entered in (`_owned.reset` raises before `_release`) is not modelled.
- Typed dispatch, routing, selection and the compiled procedures: conjunctions of conditions on one input,
  which a property could only restate. Evidence, prompt budgets, confidence: text transformations. Gates and
  performance reports: statistics in floating point. Telemetry, transport, configuration. None of them
  keeps state between calls but the manifest of compiled procedures, which is loaded once under a lock.
- Parts of modelled files: traces and reports of the workflow adapter (`adaptive.py`), observers of phases
  (`inference_overlap.py`), calls that are not streamed and the records of calls (`application_adapter.py`),
  patches of JSON text and the calibration of contracts (`reference_harness.py`), the compaction of JSON
  (`structured_harness.py`), the bootstrap of a gain (`speculation_budget.py`).
- What nothing promises: the primary request of a hedged stream whose caller is cancelled goes on, and a permit
  of the limiter is lost when the second factory raises or a cancel meets the `finally` block. Both happen in the model
  as in the code; `DuplicatesBounded` is an upper bound and holds all the same. A route may be begun after
  one of its links has lost its circuit: `CheapestPath` is about the search, not about a path that was kept.
- Scripts patch an application that is not part of the repository.

## Plan

Done: every component with state that several tasks share or that outlives a call, with the runs and
proofs above.

What a next step would add:

1. The gate against a pool of credits. It does not implement `CreditPool` with its waiters as those who ask:
   between a notification and the waiter's next step a credit is idle, and a sample of the load that comes
   in between can take the room away again, so no earlier step can be named as the grant. `NoMissedWakeUp` says
   what holds instead.
2. Single flight as an abstract table of answers, up to the stale entry of `flight_stale`.
3. A managed stream with the router in place of a choice of when its ticket is granted.
