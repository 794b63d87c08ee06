# Verification project for grace-code

TLA+ models of the core of grace-code, a Python framework for autonomous coding agents, with the TLC configurations that check them on small instances and TLAPS proofs of the results that matter most. `PROJECT.json` is the machine-readable index: components, runs, mutants, the map from definitions to source lines, hazards, findings and theorems.

To check a module: `tlc -config Runs.cfg MCRunLifecycle`. To prove one: `tlapm RunLifecycleProofs.tla`.

## 1. The system

An agent is a loop that asks a language model for the next step and executes the tool calls it answers with. The server runs such loops on threads, one pipeline per prompt, beside a FastAPI event loop; several processes may share one SQLite database. The parts that carry the program's own logic, and how they meet:

| part | state | operations | meets | what makes it correct |
|---|---|---|---|---|
| Resource governor `core/resource_governor.py` | queue, leases, accounts per kind, root and run | admit, admit_wait, cancel, release + drain, limits, shutdown | every spawn, worktree and governed tool call, on their threads | accounts = leases ≤ limits; each request answered once; no lease without an owner |
| Its callers `runtime_spawn.py`, `worktree_service.py`, `tool_execution.py` | the lease a caller holds | set limit, admit, read the result, set up, release | governor | refused callers hold nothing; capacity comes back; everybody is answered |
| Streaming executor `core/streaming_executor.py`, `agent/loop/turns.py` | tracked calls of a turn, wake event, pool | add, process_queue, _execute_one, cancel siblings, collect | stream of the model, pool threads | mutual exclusion, at most one result per call, the loop always gets on |
| Outbox `infrastructure/outbox/*`, `listeners/trace_projection.py` | outbox rows, owner lease, claims, watermark of the trace | append, claim, deliver, acknowledge, heartbeat, stop | producers in units of work, relays in several processes | at least once, behind the earlier versions that are there, at most one row of the trace, one owner |
| Runs of a session `run_submission.py`, `run_coordinator.py`, `run_uow.py`, `chat_pipeline.py` | table runs, keys, messages, facts, threads | submit, start, finish, cancel, recover | clients that retry, outbox | one active run, one run per key, executed once, terminal fact once |
| Approval broker `server/services/approval_broker.py` | table of waiting calls | wait, resolve, cancel_pending, cleanup | agent threads, HTTP handlers | an allowed tool was allowed by the user; an answer or a cancel is not lost |
| Event bus of scopes `eventing/*` | channels, scope generations, subscriptions | publish, drain, shutdown, close scope | listeners | bounded, drained, closed scopes silent |
| Delegation `agent/session/delegation_scheduler.py`, `agent_batch_tool.py`, `integration_coordinator.py`, `session_store.py` | rows of delegation runs and tasks, the version of a run, generations of a task, worktrees to review | create, execute in waves, report, retry, resume, integrate, verify, cancel, reconcile, recover | threads of children, HTTP handlers, restarts | each end has its fact; completed means done; dependencies first; replaced once and whole |
| Budget, task state machine `execution_budget.py`, `task_state_machine.py` | tokens used and reserved, state of the budget and of the task | reserve, settle, check, exhaust, transition | agent loop, threads of children | reservations are given back once; one final turn; legal moves only |
| Agent loop `agent/core.py`, `agent/loop/turns.py`, `runtime_controller.py` | step, task, budget, counters of the retries | gates, model call, tool batch, completion checks | everything above; the user | success is earned, delegated work converges first, a cancel is obeyed |
| Native runtime `runtime_core/*` | conversation of a turn, step counter | model call, tool calls one after the other, children | pipeline of the server, approvals | every tool call answered; see section 7 |
| Cancellation, workspace leases, rate limits, breaker `core/*`, `application/workspaces` | handles, leases, token bucket, counters | cancel, acquire, release, trip | runs, tools, LLM clients | cancellation reaches children; no double lease; no leaked slot |
| Permission pipeline, MCP, hooks, memory, context, tools, skills, LLM clients, UI | | | | mostly sequential code, transport or text; see section 8 |

What is hard in this code: threads read results without the lock that protects them; results of tools race with cancellations and timeouts; relays die between a delivery and its acknowledgement; clients retry requests whose answer was lost; the process restarts between a commit and the thread it announces; each cleanup sits in a handler of its own, so that a failure between two handlers leaks; the status of a delegated task is written by its child, by whoever waits for it and by the user; and the agent loop has a dozen ways back to its next step, each past its own counter. The 40 hazards of `PROJECT.json` name them at their lines.

## 2. Modules

| module | models | actions correspond to |
|---|---|---|
| `LeaseAmounts` | requests and what a set of them holds | `ResourceLease` |
| `AdmissionPool` | abstract: a request is granted at most once, or refused, within the limits | |
| `ResourceGovernor` | the governor, every operation | each method runs under one lock and is one action; the drain is a loop of steps, since the result objects it writes are read without the lock |
| `GovernorClients` | the calling threads, on top of `ResourceGovernor` | the steps between two calls or unlocked reads; `pc[r]` is the place in the source |
| `StreamingExecutor` | one turn of tool calls: loop thread 0, pool threads 1..N | every block under the executor's lock; snapshots taken under it and used later are in `todo` |
| `DeliveryLedger` | abstract: a fact is kept, recorded at most once while it is above the watermark, acknowledged only when the watermark has reached it or its type is unknown | |
| `Outbox` | store, relays, lease and trace projection | every statement or transaction on the database |
| `RunLifecycle` | submission, pipeline, cancel and recovery of one session | what a coroutine does between two awaits is one step; threads and restarts interleave |
| `ApprovalBroker` | waiting threads, answers, cancels, delete | every block under the lock, and the two writes outside it |
| `Delegation` | one delegation run, its tasks and their generations, the batch, retries and resumes, integration and verification, cancels, children, restart | one transaction on the two tables; what a thread has read and not yet used is in `seen`, `goal`, `todo`, `ready` and `listed` |
| `AgentLoop` | one run of the agent: gates, model call, completion checks, tool batch, the budget it shares with its children, its task | one phase of a step of the loop (`pc`); the completion check is three steps, as it reads the children, the delegations and the guards one after the other |
| `*Proofs` | the theorems about the module named | |
| `MC*` | the constants of the instances TLC checks | |

`GovernorClients` extends `ResourceGovernor` and composes callers with it; that the composition uses the governor only as its own specification allows (`GovernorSpec`) holds by the way it is built, and is a theorem so that the invariant of the governor carries over. `ResourceGovernor` implements `AdmissionPool` and `Outbox` implements `DeliveryLedger`, both as refinement properties. `AgentLoop` takes from the other modules only what reaches the loop: a child is on its way, has reported, has converged, or is opened again by a retry over HTTP, which is what `Delegation` and the spawn of `GovernorClients` detail; the calls of a batch are in `StreamingExecutor`. The circuit breaker is one object for all sessions of a runtime, so its answers are inputs. In `AgentLoop`, `moved` and `allowed` are history: the children that changed behind the completion check, and the last step a cancelled run may still work in. So is `late` in `Outbox`: the facts that were appended when a later version of their aggregate was under way.

Definitions with a suffixed name directly before the one they resemble (`OverLimitWithoutNeed`, `SeenNever`, `CheckedUnlatched`, …) are broken variants; `PROJECT.json` pairs each with the property that must fail once the variant takes the place of the definition.

What the models leave out: clocks are reduced to the moments they decide (a deadline passed, a claim grew old); payloads, wording, metrics and logging are gone; ids that are fresh stand for the thing they name. Further reductions are stated at the head of each module.

## 3. Runs

| run | instance | shows | distinct states |
|---|---|---|---|
| `ResourceGovernor` | 3 requests, 2 roots, a renewable and a consumable kind, queue of 2 | accounts, capacity, queue and outcomes agree, no lost lease, only a blocked request is passed within its root, refinement of `AdmissionPool` | 900 032 |
| `Clients` | 2 serial spawns of one root, a worktree of another; 2 workers, 1 worktree | one serial worker at a time, exact per-run account, every caller is answered | 148 512 |
| `ClientsLeak` | 2 background spawns, 1 worker | violation: finding 4 | |
| `Executor` | 3 streamed calls, 2 of them safe, 2 Bash | exclusive status, started once, cancellations stand, a result for every call but a silent one, collect returns | 87 092 |
| `ExecutorAttribution` | 3 streamed calls, the second repeats the first | violation: finding 1 | |
| `Outbox` | 3 facts of one run of a second turn (submission with version 2, cancellation with version 1, a fact of an unknown type), a relay that may fail and one that does not, 2 attempts | order, claims, refinement of `DeliveryLedger`, every fact settled | 1 070 585 |
| `Runs` | 5 requests (a retry, a conflicting prompt, no key, a plan), 2 cancels, 1 restart | one active run, one run per key, executed once, facts tally | 1 862 346 |
| `RunsEnded` | the same | violation: finding 2 | |
| `Approvals` | 3 calls of 2 agents, 4 answers, two of them contradictory, 2 cancels, delete | reachable waiters, allowed only by the user, accepted answers count, cancels stay, decisions wake | 675 253 |
| `Delegation` | 2 tasks, one after the other, the second leaves a worktree; 1 retry each; 2 threads for retries or resumes, 2 for integration or verification; 2 requests or restarts, 1 failed write | each end has its fact, completed is earned, dependencies first, no task queued again, replacements whole | 2 977 666 |
| `DelegationReview` | the batch alone, no requests | violation: finding 3 | |
| `AgentLoop` | 3 turns (`MaxSteps` 4), 3 tokens, 2 children of 1 token, every retry limit 1 or 2, 2 reasons to block | one final turn, success earned, reservations, delegated work converges, cancels obeyed, legal moves | 5 214 814 |

Types are proved (section 5) and checked along the way while a model was written; no run lists them.

Why the bounds are enough. Governor: two requests of one root and one of another are the least for a drain that skips a blocked root, prefers another and could overtake; the limits are chosen so that each can block while the others do not. Callers: two serial spawns are the least that could hold a worker together, and the worker limit of two leaves it to the limit of the run to prevent it; the worktree is queued behind a serial spawn that does not return for it. Executor: one exclusive call between others, one Bash to fail and one to survive. Outbox: two versions of one aggregate show order, blocking and a version that comes late, which the watermark then skips; the third fact has a version equal to the first and is acknowledged without a row. A malformed fact behaves like one whose every delivery fails, which is among the behaviours of the others; that it is never acknowledged is proved. Aggregates do not meet but in a batch, so one is enough; two relays show every takeover, as a claim has one owner and one thief; two attempts are the least that tell a retry from a dead letter. Runs: two requests of one key race, a third conflicts, a fourth and fifth compete without it; two cancels meet one run. Approvals: two answers to one call meet a cancel and the timeout while another agent is in the table. Delegation: a dependency is the least graph with an order, one retry gives two generations, and of two requests the second meets the first at every step, two integrations of the same tasks among them; a third retry, a diamond of tasks and more requests are covered by the proofs only. Agent loop: three turns are the least for a final turn that follows a retry that follows a batch; a token for each child and one for the loop make every party the one that crosses the limit; two children tell the sum of reservations from a single one. Counters that the code does not bound are bounded by what is there to count: facts, requests and cancels are finite sets, `MaxRestarts` bounds restarts, `MaxRequests` the requests and restarts of a delegation, `MaxFaults` its failed writes, `attempts` is counted up to `MaxAttempts` and tokens up to `TokenLimit`. No state constraint is used.

Deadlock checking is off in every run: requests, calls and cancels are used up, leases may be held for ever, and a system in which everything is settled stops. Instead the liveness properties say what must not stop.

Symmetry is declared in `Delegation` (threads that serve retries, threads that serve integrations) and in `AgentLoop` (children, reasons to block), whose runs check safety only. The other instances are asymmetric on purpose, and the runs with liveness could not use it.

## 4. Fairness

- `Clients` (`FairClientSpec`): the thread that holds the lock proceeds (weak, the drain), waiting threads get the lock (strong, since others take it in between), and deadlines pass (weak). Nobody is obliged to release a lease: `CallersAnswered` must hold through the deadline alone. `admit_wait` polls every 50 ms with a deadline, which is what the code offers.
- `Executor` (`FairSpec`): threads are scheduled, the stream ends, a tool that was not cancelled returns. A cancelled tool may hang for ever; `CollectReturns` holds all the same. The five-second timeout of `collect` is left out, so the property rests on the wake event.
- `Outbox` (`FairSpec`): relay threads are scheduled, clocks advance (a backoff is over, a claim grows old), and a steady relay is started again until it has the lease. Producers, stops, crashes and failures are not assumed; a delivery that may fail is given up in the end, which settles the fact.
- `Approvals` (`Spec`): a handler that began and a thread that is awake go on. Users need not answer and the timeout is under no fairness: a decision wakes its thread without it.

The other specifications are safety only. In `AgentLoop` there is nothing to add: the loop runs over `range`, so that every way back raises `step`, and what it waits for (the model, tools, a foreground child) is outside. In `Delegation` a thread waits only for children, which may work for ever.

## 5. What is proved

8 460 obligations, none left out. The theorems hold for every value of the constants that satisfies the named assumptions of the modules (finite sets of requests and cancels, amounts and limits in `Nat`, functions with the right domains); nothing else is assumed.

- `ResourceGovernorProofs`: `Invariance` proves the inductive invariant *types ∧ queue and outcomes agree ∧ accounts equal the live leases ∧ accounts within the limits ∧ answers settled*. Equality with the leases is what makes the incremental check of `_would_block_locked` a check of the leases, and `AnswersSettled` is what keeps a caller's answer and its lease together across the drain. From it: `TypeCorrectness` (so the clamps at zero in release never hide anything), `Conservation`, `CapacitySafety`, `QueueCoherence`, `NoLeaseLost`. Its first section gives the arithmetic of adding and removing one lease. `FirstOfRootFirst` is about single steps: `admit` grants in enforce mode only past an empty queue, and what the drain takes, whichever root it prefers, is the first unblocked entry of its root (`DrainInOrder`); that a blocked one is passed is the code's (section 7). `GovernorImplementsPool` is the refinement of `AdmissionPool`: what the pool counts as granted and not returned is what is leased (`LiveAreLeased`), and each step grants within the limits, refuses, returns, or is a stutter of the pool, one lemma each (`PoolAdmits`, `PoolDrains`, …).
- `GovernorClientsProofs`: `ClientsKeepTheRules` shows, step by step, that a caller does to the governor only what the governor allows any client, so that its inductive invariant holds of the composition. `ClientInv` adds three facts about the callers: the limit of a serial run is set before anything of the run is granted (`LimitFirst`), the account of the run equals its live leases (`RunAccounts`, for which the limit must come first, as grants of an unlimited run are not counted), and a granted caller keeps its lease until it returns or abandons it itself (`Kept`). From it `CallersOwnTheirLeases`, `RunAccountIsExact`, `SerialMeansSerial`, and `RefusedHoldNothing`, which leaves out the serial spawns: theirs may be lost (section 7), as is that of a child that was not launched (finding 4).
- `StreamingExecutorProofs`: `ExecutorInvariance`, from which `ExclusiveAdmission`, `CollectComplete`, and, as action properties, `StartOnce` and `CancellationStands`. The invariant adds to the properties that calls are tracked as they are fed, that results are harvested once, and that a silent outcome belongs to a call that is through (`SilentOver`). `CollectIsWatched` is what of `CollectReturns` can be proved: until `collect` is through, a queued call has an executing one, whose thread will scan, or a thread that still has it before it, and a sleeping `collect` has an executing call or its event set.
- `OutboxProofs`: `OutboxInvariance` adds to the types and to `AggregateOrder` that a record in the hands of a relay which still owns its row is claimed (`HandsClaimed`), and that what is delivered, or about to be acknowledged as such, has been reached by the trace unless its type is unknown, and is not malformed (`DeliveredAnswered`). Nothing is assumed of the order in which producers append versions, nor that they differ: `OrderKept` speaks of the earlier versions that were there when the later one was claimed. Then `ClaimsKept` and the refinement `OutboxImplementsLedger`, one step lemma per action of the relay.
- `RunLifecycleProofs`: `RunInvariance` with `OneRunAtATime`, `WholeSubmissions`, `KeysKept`, `NothingTwice`, `FactsTally` and `TerminalRunsStay`. That a pipeline executes the run its request created (`ExecutesOwn`), unless its key was not read, is the strengthening `NothingTwice` needs; `EachCancelItsRun` counts the cancels answered "true" against the cancelled runs.
- `ApprovalBrokerProofs`: `ApprovalInvariance` with `WaitersStayReachable`, `OnlyUsersAllow`, `AnswersCount` and `CancelsStay`. `Sources` records where a decision came from, `EventLast` that a decision precedes its event, `OutOfReach` that a cancelled call can be found by no later answer. `DecidedAreWoken` is what of `DecisionsWake` can be proved: a decided call that waits has its event set, or the handler that decided it is one step from setting it.
- `DelegationProofs`: for any tasks and dependencies, any number of threads, requests, failed writes and restarts. `IInv` follows a task from the queue to its report: a status, an outcome, a report or a status a reviewer has listed that says "completed" goes back to a child that succeeded; what is in the hands of a thread exists and, once it has a child, has left the queue; dependencies stay as they were created. From it `TypeCorrect`, `EveryEndHasItsFact`, `NothingStartsEarly` (by way of the ready lists the threads hold, which may be old) and `LeavesTheQueueOnce` (by way of `Replaced`: only a task without a later generation is replaced). `RetriesReplaceAll` follows the generations (`Lineage`): each has the one before it, what is superseded has a successor, and the newest depend on the newest, which late children and reviews do not disturb. This theorem alone assumes that tasks are created after the tasks they depend on (`OrderFollowsDependencies`). The code creates them in the order the caller lists them, one transaction each; the instance TLC checks satisfies the assumption. Without it, a replacement made while the creation was cut short could depend on a task that does not exist. `CompletedRunsEarned` needs a second invariant (`EInv`), on what a reconciliation has read and not yet written: as long as the version it read is that of the run, what it concluded holds (`Conclusions`), since a task is opened again only by a retry, which changes the version, or by an integration, which leaves the task with its review; before the batch has created its tasks nobody else has anything to conclude from (`Beginning`); so a completed run has earned it (`Completions`). That a review is of a kept worktree (`ReviewsKept`) is an invariant of its own. `CompletedIsEarned` once said that a task left open in a completed run had been found in conflict; the proof did not go through, and with a second reviewer TLC shows why (section 7).
- `AgentLoopProofs`: for any limits and any finite set of children. `Inv` adds to the properties where the task is at each `pc` (`TaskAtPc`: completing after FINISH and nowhere else), that no counter passes its limit (`CountsBelow`), that an exhausted budget and its final turn are counted together (`FinalsCount`), what the completion check knows at each of its reads (`ReadsCover`) and how far a cancelled run may go (`AllowedSteps`). From it `OneFinalTurn`, `ResultIsEarned`, `TokensAccounted` (with a lemma on the cardinality of `held`), `CompletionWaits`, `CancelIsObeyed` and `MovesAreLegal`.

Only model-checked: the liveness properties (`CallersAnswered`, `CollectReturns`, `FactsSettled`, `DecisionsWake`), since the prover handles neither fairness nor ENABLED; of two of them the part that is safety is proved (above). The other properties of the passing runs all have a theorem. No module uses a RECURSIVE operator.

## 6. Disagreements between the code and what it says of itself

1. `ExecutorAttribution`: the executor has one result per streamed call, the turn one call per distinct name and parameters; they are paired by index.
2. `RunsEnded`: `RunCoordinator.finalize` appends the fact and leaves the row of the run queued, although it is documented as a transition and a fact in one unit of work.
3. `DelegationReview`: the child's thread writes the end of its task without `integration_status` and before the report that would set it to "pending"; the report expects an open task and writes nothing, so the run completes beside a worktree that was to be reviewed.
4. `ClientsLeak`: the handler of a background child that could not be started says that a scheduling failure must not leak the lease, and gives back everything but the lease (`runtime_spawn.py:474-482`).

## 7. Behaviours noted without a run

True of the code, modelled where a module reaches them, and worth a reader's attention:

- Governor: "FIFO is still preserved within each root" (`resource_governor.py:230`) holds only of requests that could be granted. The drain takes the first entry that is not blocked (`:725-739`), so a smaller request passes an earlier and larger one of the same root as often as it fits, and the larger may wait for its deadline; `OvertakesOnlyBlocked` says what is left. A serial spawn reads `QUEUED` without the lock, a drain grants, `cancel_request` answers False and nobody looks: the spawn is refused and its slot is never returned, although `docs/multi-agent.md:154` says it is. `admit` queues a request behind a non-empty queue even when nothing blocks it, so an unblocked root waits behind a blocked one until the next release (`resource_governor.py:342`, compare the comment at 692); if the one before it waits for a limit that is consumed for good and nothing is leased, no release ever comes and it waits for its deadline. Beside the background child of finding 4, any child keeps its lease when the store or a hook raises between its creation and its start (`:382-448`), and so does a worktree whose disk check raises after the grant (`worktree_service.py:107`); the model has all of them as "abandoned".
- Executor: `collect` gives no entry for a call without a result whose error is empty (`streaming_executor.py:411-417`), as the error is `str(exc)` (`:377`) and a bare raise or a failed assert has none; the call counts as yielded, and as results are paired with calls by index the ones after it are reported for the wrong call. `ResultsComplete` says that nothing else is lost. A cancelled sibling still runs its tool when the next exclusive call starts, since admission counts statuses and not threads. When the stream fails nobody shuts the executor down: its threads run on and start what is queued (`core.py:3785`). The batches of `partition_tool_calls` are flattened (`streaming_executor.py:252`, `turns.py:862`), so a safe call may start beside running safe ones although an exclusive call is queued before it. A call that was cancelled between its submission and its start begins all the same (`:505`). A late return may touch the entry after `collect` has taken it (`:353`).
- Outbox, versions: `aggregate_version` is "Monotonic counter within the aggregate" (`server/domain_events.py:28`), but each producer names its own: `run.submitted` the turn index (`run_coordinator.py:117-118`), `run.cancelled` 1 (`cancellation_coordinator.py:138`), the legacy paths 1 and 2 (`session_store.py:2197`, `:2240`), the finalisation of a turn 2 (`chat_pipeline.py:551`). From the second turn on, the terminal fact of a run is therefore at or below the watermark that its submission has set: the trace acknowledges it and writes no row (`trace_projection.py:57-59`). Of two facts with the same version the second goes the same way, where the docstring has "Same version, different digest → Permanent conflict" (`:9`) and a retry on a gap (`:7`). `DeliveryLedger` promises no row for what the watermark has reached, and `AggregateOrder` names what came late.
- Outbox, deliveries: for an unknown type or schema version `decode` returns an object (`schema_registry.py:242`) which the check of the deliverer, for a dict or a string, never matches (`runtime_composition.py:998`); `dispatch` finds no projection for its type and answers `Delivered` with no receipts (`projection_runner.py:110-114`), so the fact is acknowledged without a row, although the same module says "Unknown schema/version → PermanentDeliveryFailure" (`:6`). If the type is known and only the version is not, `dispatch` hands the object to the projections, which fail on it. What raises, malformed payloads such as those of `finalize_run_with_event` among them (`session_store.py:2197`), is retried with a backoff and becomes a dead letter (`relay.py:156-171`). The branch of the relay for a deliverer that returns None (`relay.py:149`) is out of reach here.
- Outbox, the rest: a dead letter blocks its aggregate for ever; a failed `DeliveryReceipt` has no `projection_name` (`delivery.py:69`), so a failed projection takes the retry path by way of an AttributeError; heartbeats are sent only between batches (`relay.py:105`).
- Runs: POST chat leaves the row queued when the pipeline cannot be started (`sessions.py:678`); a pipeline that raises finalises its run from "running", a status the server no longer writes; a cancelled run's thread goes on, so the next prompt may start a second agent in the session (`agent_service.py:1266`); recovered runs get no fact.
- Approvals: an answer may be accepted after the thread has timed out (`approval_broker.py:172`); a call that asks just after a cancel waits out the 60 seconds, as do those of a deleted session; the native gate drops the input the user edited (`runtime_composition.py:644`), and the denial counters of a session start afresh with each run (`:557`).

- Delegation: a late child overwrites the status of its cancelled or superseded task (`runtime_spawn.py:745`), which `tests/test_agent_batch_runtime.py` (`test_cancelled_task_rejects_late_worker_report`) excludes for the report alone; whoever loses the version in a reconciliation does not try again, so a run may stay "running" until a restart; two schedulers may execute one queued task twice, since the answer of the claim is not looked at; POST verify without commands completes any run, and with commands reads the version again when they are through; integrate moves a run of any status to "running", and a decision for a task without a worktree leaves it "integrating"; a contract violation writes back the status it has listed (`integration_coordinator.py:93`); two integrations may list the same task, and when one writes such a status after the run was reconciled, the other may still record a decision for it, so that a completed run keeps a running task whose review says "applied"; cancels and reconciliations that come before the batch has created its tasks end a run that then gets more of them. a decision reads the status of its task and writes it back unconditionally (`runtime.py:724-737`), one step in the model. `CompletedIsEarned` and `ReplacementsWhole` name what they except for these.
- Agent loop, completion: `_check_session_completion` reads the children (`runtime.py:811`) before the delegations (`:819`), so a child that reports and converges in between leaves its worktree undecided beside a completed task; reading in the other order would close the gap. `CompletedConverged` excepts what moved behind the reads. A guard that says "abort" is retried like a block; the guards for the diff and the stop hook are registered and never evaluated.
- Agent loop, ends: the end at a missing test target is a SUCCESS with the task still running, past hook, facts, verifier and guard; consecutive failures, failing tests, a permission stop and a cancel inside a batch leave the task running too, although `TaskStateMachine.fail` says the runtime cannot bypass it; a cancel during a stream ends as FAILED with MODEL_ERROR; the loop's own end at the last step is never reached, since the gate comes first.
- Agent loop, shared state: the breaker is one for all root sessions and is never reset (`runtime.py:264`, `:2752`), and a batch with any failed call counts as one of which all failed (`turns.py:626`); a child whose launch fails keeps the tokens reserved for it; a reservation of a background child may exhaust the budget for good; streaming runs safe calls before they are validated, even in the final turn that has no tools; a stream that ends without FINISH counts as one with it.
- Native runtime: the Agent tool is registered as safe so that several calls run in parallel (`runtime_composition.py:919`), but `_atool_calls` (`native_step_loop.py:407`) asks for read-only tools, so they run one after the other; the tools of a child have no `aexecute` (`native_child_runner.py:135`, `native_step_loop.py:471`), so every call of a child fails; an outcome carries no messages, so what `chat_pipeline.py:546` keeps of a turn for the next is empty; nobody holds the cancellation handle of a run (`run_coordinator.py:148`) or of a child (`native_agent_tool.py:226`).

## 8. Plan, and what is not modelled

Order of the work, most important first:

1. Governor and its callers — done, proved.
2. Streaming executor — done, proved.
3. Outbox — done, proved with its refinement.
4. Run lifecycle — done, proved.
5. Approval broker — done, proved.
6. Delegation — done, proved.
7. Budget, task state machine and agent loop — done, proved.
8. `NativeRuntime`: step loop, children, cancellation, what of a turn is kept; then the permission pipeline on top of `ApprovalBroker`, with its counters of denials.
9. `WorkspaceLease`, `ProviderGovernor`, `Cancellation`: small shared objects, each with its invariant and proof. A turn whose stream fails belongs to `StreamingExecutor`.
10. `ScopedBus`: in production only the synchronous publish is reached; bounded channels (whose poison item is counted done twice) and the keys of closed scopes are reached by tests only.

The relay that `agent_service.py` starts when the native components do not own the pipeline (`:212`) is not modelled: `Outbox` has the one of `runtime_composition.py`. What the later models leave out: in `AgentLoop` the turns of a child (a child may end in any way at any time), the time limit and the consumption of tools (inputs), reservations of spawns that are refused and given back at once, the warnings before a limit; in `Delegation` a run of a single task, which its child reconciles by itself, and the choice of how many tasks a wave takes (any).

Not modelled on purpose: the write-behind buffer and the conversation store (constructed by tests only), read models and websockets (they add no state the pipeline depends on), LLM clients, tools, hooks, MCP transport and git (external effects; they are nondeterministic choices here), context window, memory and prompts (text over one conversation, no concurrency), configuration, observability, command line and web frontend. `PROJECT.json` lists each with its reason.
