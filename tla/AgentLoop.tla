------------------------------ MODULE AgentLoop ------------------------------
(***************************************************************************)
(* One run of the agent: ReActAgent._run_body (src/agent/core.py) with the *)
(* policies of src/agent/loop/turns.py, its task state machine, the        *)
(* execution budget it shares with its children, and the completion check  *)
(* of SessionRuntime.                                                      *)
(*                                                                         *)
(* The loop is one thread.  Beside it run the threads of the children it   *)
(* spawned, the user, who cancels the run, decides on the worktrees of     *)
(* children and reopens their delegations, and the clock.  The circuit     *)
(* breaker belongs to the runtime and counts for every session: what it    *)
(* answers at a check is an input here.  Tokens are counted up to          *)
(* TokenLimit.                                                             *)
(***************************************************************************)
EXTENDS Naturals, FiniteSets

CONSTANTS
  Children,       \* the children this run may spawn
  MaxSteps,       \* task.max_steps
  TokenLimit,     \* task.budget_tokens
  ChildTokens,    \* the tokens reserved for a child
  StopLimit,      \* _MAX_STOP_HOOK_RETRIES
  BlockLimit,     \* COMPLETION_BLOCK_THRESHOLD
  BlockReasons,   \* why the completion guard blocks
  TestLimit,      \* TEST_FAILURE_REFLECTION_LIMIT
  Followups,      \* missing_test_target_max_followups
  RecoveryLimit   \* _MAX_OUTPUT_RECOVERY

ASSUME AgentLoopAssumption ==
  /\ IsFiniteSet(Children)
  /\ {MaxSteps, ChildTokens, BlockLimit, TestLimit} \subseteq Nat \ {0}
  /\ {TokenLimit, StopLimit, Followups, RecoveryLimit} \subseteq Nat
  /\ "none" \notin BlockReasons

VARIABLES
  pc,           \* where the loop is
  step,
  tsm,          \* TaskStateMachine.state
  reason,       \* its termination_reason
  result,       \* RunResult.status
  budget,       \* ExecutionBudget.state
  used,         \* its _token_used
  reserved,     \* its _token_reserved
  held,         \* the children whose BudgetReservation is not settled
  strip,        \* the turn has no tools
  finals,       \* the model calls begun with an exhausted budget
  terminate,    \* the permission layer asks to end the session
  cancelled,    \* CancellationToken.is_cancelled
  allowed,      \* the last step the run may work in
  stopHooks,    \* AgentTurnState.stop_hook_count
  blocks,       \* CompletionBlockTracker
  truncations,  \* escalation_applied and output_recovery_count
  compacted,    \* has_attempted_reactive_compact
  missing,      \* missing_test_target_followups and _detected_step, 0 for None
  testFails,    \* reflection_counts["test_failed"]
  kid,          \* a child, its thread and its delegation run
  tree,         \* the worktree a child has left
  clean,        \* the completion check found no worktree to decide on
  moved         \* the children that changed since that check read them

taskVars == <<tsm, reason, result>>
budgetVars == <<budget, used, reserved, held>>
turnVars == <<strip, finals>>
signalVars == <<terminate, cancelled, allowed>>
retryVars == <<stopHooks, blocks, truncations, compacted, missing, testFails>>
childVars == <<kid, tree, moved>>
vars == <<pc, step, taskVars, budgetVars, turnVars, signalVars, retryVars, childVars, clean>>

TaskStates == {"pending", "running", "completing", "completed", "failed", "cancelled"}

(* _ALLOWED_TRANSITIONS; transition raises ValueError for any other move. *)
Allowed == [s \in TaskStates |->
  CASE s = "pending"    -> {"running", "cancelled"}
    [] s = "running"    -> {"completing", "failed", "cancelled"}
    [] s = "completing" -> {"completed", "running", "failed", "cancelled"}
    [] OTHER            -> {}]

Results == {"none", "success", "gave_up", "max_steps", "failed", "blocked", "cancelled"}
Reasons == {"none", "user_cancelled", "circuit_breaker", "max_steps", "budget_exhausted",
            "guard_rejected", "model_error", "agent_gave_up", "hook_stopped",
            "environment_unavailable"}
Kids == {"none", "working", "reported", "failed", "ending", "gone", "again", "lost"}

TypeOK ==
  /\ pc \in {"prepare", "model", "stop", "runs", "verify", "tools", "done"}
  /\ step \in 1 .. MaxSteps
  /\ tsm \in TaskStates /\ reason \in Reasons /\ result \in Results
  /\ budget \in {"running", "exhausted", "completed"}
  /\ used \in 0 .. TokenLimit /\ reserved \in Nat /\ held \subseteq Children
  /\ strip \in BOOLEAN /\ finals \in Nat
  /\ terminate \in BOOLEAN /\ cancelled \in BOOLEAN /\ allowed \in 0 .. MaxSteps
  /\ stopHooks \in 0 .. StopLimit
  /\ blocks \in [reason : BlockReasons \cup {"none"}, count : Nat]
  /\ truncations \in 0 .. RecoveryLimit + 1 /\ compacted \in BOOLEAN
  /\ missing \in [followups : 0 .. Followups, since : 0 .. MaxSteps]
  /\ testFails \in 0 .. TestLimit
  /\ kid \in [Children -> Kids]
  /\ tree \in [Children -> {"none", "preserved", "resolved"}]
  /\ clean \in BOOLEAN /\ moved \subseteq Children

(* _initialize_run: the workspace is ready, and the task is running. *)
Init ==
  /\ pc = "prepare" /\ step = 1
  /\ tsm = "running" /\ reason = "none" /\ result = "none"
  /\ budget = "running" /\ used = 0 /\ reserved = 0 /\ held = {}
  /\ strip = FALSE /\ finals = 0
  /\ terminate = FALSE /\ cancelled = FALSE /\ allowed = MaxSteps
  /\ stopHooks = 0 /\ blocks = [reason |-> "none", count |-> 0]
  /\ truncations = 0 /\ compacted = FALSE
  /\ missing = [followups |-> 0, since |-> 0] /\ testFails = 0
  /\ kid = [c \in Children |-> "none"] /\ tree = [c \in Children |-> "none"]
  /\ clean = FALSE /\ moved = {}

-----------------------------------------------------------------------------
(* How a step of the loop ends.                                            *)

NextStep == pc' = "prepare" /\ step' = step + 1 /\ UNCHANGED result
EndsWith(s) == pc' = "done" /\ result' = s /\ UNCHANGED step
Fails(why, s) == tsm' = "failed" /\ reason' = why /\ EndsWith(s)

(* Consumption; the amount is what the provider or a tool says. *)
Spends == used' \in used .. TokenLimit /\ UNCHANGED <<budget, reserved, held>>

-----------------------------------------------------------------------------
(* _prepare_step: the early gate, RuntimeController.check, then the guards
   of the task state machine, which ask the breaker again.                 *)

GateOpenBlind == ~terminate
GateOpen == ~terminate /\ ~cancelled

CancelledAtGate ==
  /\ cancelled
  /\ tsm' = "cancelled" /\ reason' = "user_cancelled" /\ EndsWith("cancelled")
  /\ UNCHANGED <<budgetVars, turnVars>>

DeniedAtGate ==
  /\ ~cancelled /\ terminate
  /\ EndsWith("gave_up")
  /\ UNCHANGED <<tsm, reason, budgetVars, turnVars>>

Exhaust == budget' = "exhausted" /\ UNCHANGED <<used, reserved, held, turnVars>>

BreakerTripped == GateOpen /\ Exhaust /\ Fails("circuit_breaker", "gave_up")
OutOfSteps == GateOpen /\ step = MaxSteps /\ Exhaust /\ Fails("max_steps", "max_steps")

BudgetSpent ==
  /\ GateOpen /\ step # MaxSteps
  /\ budget = "exhausted"
  /\ Fails("budget_exhausted", "gave_up")
  /\ UNCHANGED <<budgetVars, turnVars>>

(* ExecutionBudget.check, once: what is reserved counts as spent, and the
   time limit may have passed.  Crossing a limit strips the turn's tools.  *)
Over == {o \in BOOLEAN : used + reserved >= TokenLimit => o}
CheckedUnlatched(over) == budget
Checked(over) == IF over THEN "exhausted" ELSE budget

GuardRejects ==
  /\ GateOpen /\ step # MaxSteps
  /\ budget # "exhausted"
  /\ \E over \in Over : budget' = Checked(over)
  /\ Fails("guard_rejected", "gave_up")
  /\ UNCHANGED <<used, reserved, held, turnVars>>

Proceed ==
  /\ GateOpen /\ step # MaxSteps
  /\ budget # "exhausted"
  /\ \E over \in Over :
       /\ budget' = Checked(over)
       /\ strip' = over
       /\ finals' = IF over THEN finals + 1 ELSE finals
  /\ pc' = "model"
  /\ UNCHANGED <<step, taskVars, used, reserved, held>>

Prepare ==
  /\ pc = "prepare"
  /\ CancelledAtGate \/ DeniedAtGate \/ BreakerTripped \/ OutOfSteps \/ BudgetSpent
       \/ GuardRejects \/ Proceed
  /\ UNCHANGED <<signalVars, retryVars, childVars, clean>>

-----------------------------------------------------------------------------
(* _run_provider_phase, with _accept_provider_action and the dispatch of
   the action.                                                             *)

(* A prompt that is too long is compacted once; the turn is lost. *)
CompactsAndRetries ==
  /\ ~compacted
  /\ compacted' = TRUE
  /\ Spends /\ NextStep
  /\ UNCHANGED <<tsm, reason, truncations>>

ModelFails ==
  /\ Spends /\ Fails("model_error", "failed")
  /\ compacted' \in {compacted, TRUE}
  /\ UNCHANGED truncations

Truncated ==
  /\ truncations <= RecoveryLimit
  /\ truncations' = truncations + 1
  /\ Spends /\ NextStep
  /\ UNCHANGED <<tsm, reason, compacted>>

(* Calls that are disabled or invalid, and reflections. *)
NothingDone ==
  /\ Spends /\ NextStep
  /\ UNCHANGED <<tsm, reason, truncations, compacted>>

GivesUp ==
  /\ Spends /\ Fails("agent_gave_up", "gave_up")
  /\ UNCHANGED <<truncations, compacted>>

FinishesInPlace ==
  /\ Spends /\ pc' = "stop"
  /\ UNCHANGED <<step, taskVars, truncations, compacted>>
Finishes ==
  /\ tsm' = "completing"
  /\ Spends /\ pc' = "stop"
  /\ UNCHANGED <<step, reason, result, truncations, compacted>>

CallsTools ==
  /\ ~strip
  /\ Spends /\ pc' = "tools"
  /\ UNCHANGED <<step, taskVars, truncations, compacted>>

(* The event log cannot be written: run raises, the task keeps its state. *)
LogFails ==
  /\ Spends /\ EndsWith("failed")
  /\ UNCHANGED <<tsm, reason, truncations, compacted>>

Model ==
  /\ pc = "model"
  /\ CompactsAndRetries \/ ModelFails \/ Truncated \/ NothingDone \/ GivesUp \/ Finishes
       \/ CallsTools \/ LogFails
  /\ UNCHANGED <<turnVars, signalVars, stopHooks, blocks, missing, testFails, childVars, clean>>

-----------------------------------------------------------------------------
(* _handle_terminal_action with evaluate_completion: the stop hook,
   _check_session_completion in two reads, verify_callback and the guard.  *)

Resume == tsm' = "running" /\ NextStep /\ UNCHANGED reason

HookBlocks ==
  /\ IF stopHooks = StopLimit
     THEN Fails("hook_stopped", "gave_up") /\ UNCHANGED stopHooks
     ELSE Resume /\ stopHooks' = stopHooks + 1
  /\ UNCHANGED <<clean, moved>>

HookPasses ==
  /\ clean' = \A c \in Children : tree[c] # "preserved"
  /\ moved' = {}
  /\ pc' = "runs"
  /\ UNCHANGED <<step, taskVars, stopHooks>>

Stop ==
  /\ pc = "stop"
  /\ HookBlocks \/ HookPasses
  /\ UNCHANGED <<budgetVars, turnVars, signalVars, kid, tree>>
  /\ UNCHANGED <<blocks, truncations, compacted, missing, testFails>>

RunOpen(c) == kid[c] \in {"working", "reported", "failed", "again"}
ConvergedSoFar == clean
Converged == clean /\ \A c \in Children : ~RunOpen(c)

ReadRuns ==
  /\ pc = "runs"
  /\ IF Converged
     THEN pc' = "verify" /\ UNCHANGED <<step, taskVars, stopHooks>>
     ELSE Resume /\ stopHooks' = 0
  /\ UNCHANGED <<budgetVars, turnVars, signalVars, childVars, clean>>
  /\ UNCHANGED <<blocks, truncations, compacted, missing, testFails>>

VerifierBlocks ==
  /\ Resume /\ stopHooks' = 0
  /\ UNCHANGED <<budgetVars, blocks>>

VerifierAborts ==
  /\ tsm' = "failed" /\ EndsWith("gave_up")
  /\ UNCHANGED <<reason, stopHooks, budgetVars, blocks>>

GuardBlocks ==
  /\ \E r \in BlockReasons :
       blocks' = [reason |-> r, count |-> IF r = blocks.reason THEN blocks.count + 1 ELSE 1]
  /\ IF blocks'.count >= BlockLimit
     THEN Fails("agent_gave_up", "gave_up") /\ UNCHANGED stopHooks
     ELSE Resume /\ stopHooks' = 0
  /\ UNCHANGED budgetVars

Completes ==
  /\ tsm' = "completed" /\ budget' = "completed" /\ stopHooks' = 0
  /\ EndsWith("success")
  /\ UNCHANGED <<reason, used, reserved, held, blocks>>

Verify ==
  /\ pc = "verify"
  /\ VerifierBlocks \/ VerifierAborts \/ GuardBlocks \/ Completes
  /\ UNCHANGED <<turnVars, signalVars, truncations, compacted, missing, testFails, childVars, clean>>

-----------------------------------------------------------------------------
(* _execute_tool_batch and _finish_tool_turn.                              *)

(* What the results of a batch say.  A failing or missing test is a failed
   call; a missing target is a failing test.                               *)
Batches == {b \in [test : BOOLEAN, missing : BOOLEAN, search : BOOLEAN] : b.missing => b.test}

EnvironmentBlocks == Fails("environment_unavailable", "blocked") /\ UNCHANGED <<missing, testFails>>
CancelledInBatch == cancelled /\ EndsWith("cancelled") /\ UNCHANGED <<tsm, reason, missing, testFails>>
BatchRaises == EndsWith("failed") /\ UNCHANGED <<tsm, reason, missing, testFails>>

Noted(b) ==
  IF ~b.missing THEN missing
  ELSE IF missing.since = 0 THEN [followups |-> Followups, since |-> step]
  ELSE [missing EXCEPT !.followups = 0]

(* evaluate_post_observation: what is left of the followups after a turn
   that comes after the one the target was first missed in.                *)
DueAtOnce(m) == m.since # 0
Due(m) == m.since \notin {0, step}
Left(m, b) == IF b.search /\ m.followups > 0 THEN m.followups - 1 ELSE 0

FailureLimit(b) ==
  /\ missing' = Noted(b)
  /\ EndsWith("gave_up")
  /\ UNCHANGED <<tsm, reason, testFails>>

TargetMissing(b) ==
  /\ Due(Noted(b)) /\ Left(Noted(b), b) = 0
  /\ missing' = [Noted(b) EXCEPT !.followups = 0]
  /\ EndsWith("success")
  /\ UNCHANGED <<tsm, reason, testFails>>

Continues(b) ==
  LET m == Noted(b)
      counts == b.test /\ m.since = 0
  IN  /\ ~(Due(m) /\ Left(m, b) = 0)
      /\ missing' = IF Due(m) THEN [m EXCEPT !.followups = Left(m, b)] ELSE m
      /\ testFails' = IF counts THEN testFails + 1 ELSE testFails
      /\ IF counts /\ testFails + 1 >= TestLimit THEN EndsWith("gave_up") ELSE NextStep
      /\ UNCHANGED <<tsm, reason>>

FinishTurn ==
  /\ ~cancelled
  /\ \E b \in Batches : FailureLimit(b) \/ TargetMissing(b) \/ Continues(b)

BatchEnds ==
  /\ pc = "tools"
  /\ EnvironmentBlocks \/ CancelledInBatch \/ BatchRaises \/ FinishTurn
  /\ terminate' \in {terminate, TRUE}
  /\ Spends
  /\ UNCHANGED <<cancelled, allowed, turnVars, childVars, clean>>
  /\ UNCHANGED <<stopHooks, blocks, truncations, compacted>>

(* spawn_agent within a batch.  The launch may fail when the child exists:
   the tool marks its run failed, and nobody holds the reservation.        *)
Reserve(c) ==
  /\ used + reserved + ChildTokens <= TokenLimit
  /\ reserved' = reserved + ChildTokens
  /\ held' = held \cup {c}
  /\ UNCHANGED <<budget, used>>

Spawn(c) ==
  /\ pc = "tools"
  /\ kid[c] = "none"
  /\ Reserve(c)
  /\ \E k \in {"working", "lost"} : kid' = [kid EXCEPT ![c] = k]
  /\ UNCHANGED <<pc, step, taskVars, turnVars, signalVars, retryVars, tree, moved, clean>>

-----------------------------------------------------------------------------
(* The threads of the children: _execute_child_session.                    *)

Less(n, k) == IF n >= k THEN n - k ELSE 0

(* BudgetReservation.settle, once. *)
SettleAgain(c) == reserved' = Less(reserved, ChildTokens) /\ held' = held \ {c}
Settle(c) ==
  IF c \in held
  THEN reserved' = Less(reserved, ChildTokens) /\ held' = held \ {c}
  ELSE UNCHANGED <<reserved, held>>

(* The check has read the children that change from here on. *)
Moves(c) == moved' = IF pc \in {"runs", "verify", "done"} THEN moved \cup {c} ELSE moved

ThreadOnly == UNCHANGED <<pc, step, taskVars, turnVars, signalVars, retryVars, clean>>

ChildReports(c) ==
  /\ kid[c] = "working"
  /\ kid' = [kid EXCEPT ![c] = "reported"]
  /\ \E left \in {"none", "preserved"} : tree' = [tree EXCEPT ![c] = left]
  /\ Settle(c)
  /\ used' \in used .. TokenLimit
  /\ Moves(c)
  /\ UNCHANGED budget /\ ThreadOnly

ChildRaises(c) ==
  /\ kid[c] = "working"
  /\ kid' = [kid EXCEPT ![c] = "failed"]
  /\ Moves(c)
  /\ UNCHANGED <<budgetVars, tree>> /\ ThreadOnly

ChildConverges(c) ==
  /\ kid[c] \in {"reported", "failed"}
  /\ kid' = [kid EXCEPT ![c] = "ending"]
  /\ Moves(c)
  /\ UNCHANGED <<budgetVars, tree>> /\ ThreadOnly

(* The finally block: release, a second settlement. *)
ChildLeaves(c) ==
  /\ kid[c] = "ending"
  /\ kid' = [kid EXCEPT ![c] = "gone"]
  /\ Settle(c)
  /\ UNCHANGED <<budget, used, tree, moved>> /\ ThreadOnly

-----------------------------------------------------------------------------
(* The user.                                                               *)

(* cancel_run; from here on no further step may start. *)
Cancel ==
  /\ pc # "done" /\ ~cancelled
  /\ cancelled' = TRUE
  /\ allowed' = IF pc = "prepare" THEN step - 1 ELSE step
  /\ UNCHANGED <<pc, step, taskVars, budgetVars, turnVars, terminate, retryVars, childVars, clean>>

(* A worktree is applied, discarded or retained, by the user or a tool. *)
Decide(c) ==
  /\ tree[c] = "preserved"
  /\ tree' = [tree EXCEPT ![c] = "resolved"]
  /\ UNCHANGED <<budgetVars, kid, moved>> /\ ThreadOnly

(* A retry or resume of the delegation of a child, asked over HTTP: its
   worker takes nothing from this budget, see Delegation.                  *)
Reopen(c) ==
  /\ kid[c] = "gone"
  /\ kid' = [kid EXCEPT ![c] = "again"]
  /\ Moves(c)
  /\ UNCHANGED <<budgetVars, tree>> /\ ThreadOnly

Reclose(c) ==
  /\ kid[c] = "again"
  /\ kid' = [kid EXCEPT ![c] = "gone"]
  /\ \E left \in {tree[c], "preserved"} : tree' = [tree EXCEPT ![c] = left]
  /\ Moves(c)
  /\ UNCHANGED budgetVars /\ ThreadOnly

-----------------------------------------------------------------------------
Loop == Prepare \/ Model \/ Stop \/ ReadRuns \/ Verify \/ BatchEnds
Child(c) == Spawn(c) \/ ChildReports(c) \/ ChildRaises(c) \/ ChildConverges(c) \/ ChildLeaves(c)
User == Cancel \/ \E c \in Children : Decide(c) \/ Reopen(c) \/ Reclose(c)
Next == Loop \/ User \/ \E c \in Children : Child(c)

Spec == Init /\ [][Next]_vars

-----------------------------------------------------------------------------
(* Properties.                                                             *)

(* "ExecutionBudget's contract is to allow exactly one final, tool-free
   model turn when it first crosses the hard limit" (RuntimeController):
   one call of the model at most is begun with an exhausted budget, it has
   no tools, no batch runs beside one, and a run is told its budget ended it
   only after that turn.                                                   *)
FinalTurn ==
  /\ finals <= 1
  /\ pc = "model" => strip = (budget = "exhausted")
  /\ pc = "tools" => budget = "running"
  /\ reason = "budget_exhausted" => finals = 1

(* A run reports success because it completed, or because its test target
   was still missing in a turn after the one that first missed it; it
   reports a cancellation only when there was one, and a completed task has
   no other result.                                                        *)
SuccessEarned ==
  /\ result = "success" =>
       \/ tsm = "completed"
       \/ tsm = "running" /\ 0 < missing.since /\ missing.since < step
  /\ tsm = "completed" => result = "success" /\ budget = "completed"
  /\ result = "cancelled" => cancelled

(* Every move of the task is one _ALLOWED_TRANSITIONS knows: the run never
   dies of the ValueError of an illegal one.                               *)
LegalMoves == [][tsm' # tsm => tsm' \in Allowed[tsm]]_vars

(* What is reserved is what the unsettled reservations hold, each of a child
   on its way or lost at its launch: settling twice, as a child that reports
   does, returns nothing twice, and no report is needed to give it back.   *)
ReservedForChildren ==
  /\ reserved = ChildTokens * Cardinality(held)
  /\ \A c \in held : kid[c] \in {"working", "failed", "ending", "lost"}

(* "Block success until delegated work and child worktrees converge"
   (_check_session_completion): of a completed run no delegation is open
   and no worktree undecided, but for children that changed after the check
   read them.                                                              *)
CompletedConverged ==
  tsm = "completed" =>
    \A c \in Children : RunOpen(c) \/ tree[c] = "preserved" => c \in moved

(* A cancel is obeyed at the next gate, whichever retry leads there: the
   run finishes the step it is in, at most.                                *)
CancelStops == pc \notin {"prepare", "done"} => step <= allowed
=============================================================================
