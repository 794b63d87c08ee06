----------------------------- MODULE Delegation -----------------------------
(***************************************************************************)
(* One delegation run, its tasks, and the threads that work on it: the     *)
(* batch that created it (src/agent/session/agent_batch_tool.py), the      *)
(* schedulers of retry and resume requests                                 *)
(* (src/agent/session/delegation_scheduler.py), the integration of the     *)
(* worktrees (src/agent/session/integration_coordinator.py), the event     *)
(* loop that serves the cancels (src/server/services/multi_agent_service.py*)
(* and src/server/routers/multi_agent.py), and the children                *)
(* (src/agent/session/runtime_spawn.py).  They share the two tables of     *)
(* src/agent/session/session_store.py and nothing else; every access is a  *)
(* transaction of its own, and the run is guarded by its version.          *)
(*                                                                         *)
(* A task is a name and its retry_count: a retry inserts the next          *)
(* generation.  The statuses partial and budget_exhausted are treated as   *)
(* failed is, and no_findings as completed is.                             *)
(***************************************************************************)
EXTENDS Integers, Sequences, FiniteSets

CONSTANTS
  Names,       \* the tasks of the batch
  Order,       \* the names, in the order in which the batch creates them
  Dep,         \* the names a name depends on
  Required,    \* the names whose failure makes the run partial
  Writers,     \* the names whose child leaves a worktree to be reviewed
  MaxRetries,
  Retriers,    \* threads that serve one retry or resume request each
  Reviewers,   \* threads that serve one integrate or verify request each
  Commands,    \* whether verification commands may be configured: the
               \* configuration is read at each verification
  MaxRequests, \* bound: requests of the users, and restarts
  MaxFaults,   \* bound: failed writes of the end of a child
  Outcomes     \* what a child may return

ASSUME DelegationAssumption ==
  /\ IsFiniteSet(Names)
  /\ Order \in Seq(Names) /\ Len(Order) > 1
  /\ \A n \in Names : \E i \in 1 .. Len(Order) : Order[i] = n
  /\ Dep \in [Names -> SUBSET Names]
  /\ Required \subseteq Names /\ Writers \subseteq Names
  /\ MaxRetries \in Nat /\ MaxRequests \in Nat /\ MaxFaults \in Nat
  /\ Outcomes \subseteq {"completed", "failed", "cancelled"}
  /\ Commands \subseteq BOOLEAN
  /\ "batch" \notin Retriers /\ "loop" \notin Retriers
  /\ "batch" \notin Reviewers /\ "loop" \notin Reviewers
  /\ Retriers \cap Reviewers = {}

Tasks == Names \X (0 .. MaxRetries)
Executors == {"batch"} \cup Retriers
Threads == Executors \cup Reviewers \cup {"loop"}
Jobs == Executors \X Tasks

Success == {"completed"}
Retryable == {"failed", "cancelled", "interrupted"}
Settled == Success \cup Retryable
Open == {"queued", "running"}
Statuses == {"absent", "superseded"} \cup Open \cup Settled

Ended == {"completed", "partial", "failed", "cancelled"}
RunStatuses == Ended \cup {"absent", "running"}
Phases == {"executing", "synthesizing", "awaiting_integration", "integrating",
           "integration_failed", "awaiting_verification", "verifying",
           "verification_failed", "recovery_required"} \cup Ended

VARIABLES
  run,       \* the row of delegation_runs
  status,    \* of each task; "absent" before its row exists
  deps,      \* dependencies_json: the tasks a task depends on
  review,    \* integration_status of each task
  facts,     \* the delegation.completed events of the outbox
  pc, seen, goal, todo, ready, back,  \* of each thread
  listed,    \* the statuses a reviewer has read, "absent" for a task without a child
  job,       \* how far a thread is with a task it executes
  outcome,   \* what the child of a job returned
  reports,   \* the batch's memory of what its tasks came to
  token,     \* whether the cancellation token of the parent run is set
  requests, faults,
  successes, \* history: the tasks of which a child has succeeded
  kept,      \* history: the tasks of which a child left a worktree
  early      \* history: a request came before the batch had created its tasks

taskVars == <<status, deps, review>>
memVars == <<seen, goal, todo, ready, back, listed>>
jobVars == <<job, outcome, reports>>
envVars == <<token, requests, faults>>
histVars == <<successes, kept, early>>
vars == <<run, taskVars, facts, pc, memVars, jobVars, envVars, histVars>>

Working == {"create", "loop", "final", "rescue", "replace", "list", "block", "waves",
            "wait", "read", "write", "cancelTasks", "cancelEnd",
            "integrate", "resolve", "settle", "verify", "check", "checked"}
Idle == {"start", "done"}

TypeOK ==
  /\ run \in [status : RunStatuses, phase : Phases, version : Nat,
              verified : {"none", "passed", "failed", "skipped"}]
  /\ status \in [Tasks -> Statuses]
  /\ deps \in [Tasks -> SUBSET Tasks]
  /\ review \in [Tasks -> {"none", "pending", "applied", "retained", "discarded", "conflict"}]
  /\ facts \subseteq [version : Nat, status : Ended]
  /\ pc \in [Threads -> Working \cup Idle]
  /\ seen \in [Threads -> Nat]
  /\ goal \in [Threads -> [status : RunStatuses, phase : Phases]]
  /\ todo \in [Threads -> SUBSET Tasks]
  /\ ready \in [Threads -> SUBSET Tasks]
  /\ back \in [Threads -> Working \cup Idle]
  /\ listed \in [Reviewers -> [Tasks -> Statuses]]
  /\ job \in [Jobs -> {"none", "check", "spawn", "child", "persist"}]
  /\ outcome \in [Jobs -> Outcomes \cup {"failed"}]
  /\ reports \in [Names -> {"none", "good", "bad"}]
  /\ token \in BOOLEAN /\ requests \in Nat /\ faults \in Nat
  /\ successes \subseteq Tasks /\ kept \subseteq Tasks /\ early \in BOOLEAN

NothingListed == [t \in Tasks |-> "absent"]

Init ==
  /\ run = [status |-> "absent", phase |-> "executing", version |-> 0, verified |-> "none"]
  /\ status = [t \in Tasks |-> "absent"]
  /\ deps = [t \in Tasks |-> {}]
  /\ review = [t \in Tasks |-> "none"]
  /\ facts = {}
  /\ pc = [x \in Threads |-> "start"]
  /\ seen = [x \in Threads |-> 0]
  /\ goal = [x \in Threads |-> [status |-> "running", phase |-> "executing"]]
  /\ todo = [x \in Threads |-> {}]
  /\ ready = [x \in Threads |-> {}]
  /\ back = [x \in Threads |-> "done"]
  /\ listed = [x \in Reviewers |-> NothingListed]
  /\ job = [j \in Jobs |-> "none"]
  /\ outcome = [j \in Jobs |-> "failed"]
  /\ reports = [n \in Names |-> "none"]
  /\ token = FALSE /\ requests = 0 /\ faults = 0
  /\ successes = {} /\ kept = {} /\ early = FALSE

Goto(x, l) == pc' = [pc EXCEPT ![x] = l]
Request ==
  /\ requests < MaxRequests /\ requests' = requests + 1
  /\ early' = (early \/ pc["batch"] = "create")
  /\ UNCHANGED <<successes, kept>>

(* What a thread has read is of no use any more. *)
Forget(x) ==
  /\ seen' = [seen EXCEPT ![x] = 0]
  /\ goal' = [goal EXCEPT ![x] = [status |-> "running", phase |-> "executing"]]
Effective == {t \in Tasks : status[t] \notin {"absent", "superseded"}}
WithStatus(t, s) == [status EXCEPT ![t] = s]

(* update_delegation_task with expected_statuses: a compare and set. *)
Claim(t, expected, s) ==
  status' = IF status[t] \in expected THEN WithStatus(t, s) ELSE status

-----------------------------------------------------------------------------
(* The row of the run.                                                     *)

(* transition_delegation_run. *)
Transition(s, p) ==
  /\ run' = [run EXCEPT !.status = s, !.phase = p, !.version = @ + 1]
  /\ UNCHANGED facts

(* finalize_delegation_run: one transaction, the terminal status and its fact,
   for the caller that still knows the version of a run that has not ended. *)
CanFinalize(v) == run.version = v /\ run.status \notin Ended
(* The row first and the fact in another transaction, lost in between. *)
FinalizeWithoutFact(v, s, p, verdict) ==
  /\ run' = IF CanFinalize(v)
            THEN [status |-> s, phase |-> p, version |-> v + 1, verified |-> verdict]
            ELSE run
  /\ UNCHANGED facts
Finalize(v, s, p, verdict) ==
  IF CanFinalize(v)
  THEN /\ run' = [status |-> s, phase |-> p, version |-> v + 1, verified |-> verdict]
       /\ facts' = facts \cup {[version |-> v + 1, status |-> s]}
  ELSE UNCHANGED <<run, facts>>

-----------------------------------------------------------------------------
(* reconcile_delegation_run: the run and its tasks are read, and later the
   conclusion is written if the version is still the one that was read; whoever
   loses does not try again.  The two reads are one step here: when the run
   changes between them so does its version, and nothing comes of them.    *)

First(n) == <<n, 0>>
Created == {i \in 1 .. Len(Order) : status[First(Order[i])] # "absent"}

Decision(s, p) == [status |-> s, phase |-> p]
Concluded ==
  LET failing == {t \in Effective : t[1] \in Required /\ status[t] \in Retryable}
      rejecting == {t \in Effective : t[1] \in Required /\ review[t] \in {"retained", "discarded", "conflict"}}
      applied == {t \in Effective : review[t] = "applied"}
  IN IF \A t \in Tasks : status[t] = "absent" THEN Decision("failed", "failed")
     ELSE IF \E t \in Effective : status[t] \in Open THEN Decision("running", "executing")
     ELSE IF \E t \in Effective : review[t] = "pending" THEN Decision("running", "awaiting_integration")
     ELSE IF failing \cup rejecting # {} THEN Decision("partial", "partial")
     ELSE IF applied # {} /\ run.verified = "failed" THEN Decision("partial", "verification_failed")
     ELSE IF applied # {} /\ run.verified # "passed" THEN Decision("running", "awaiting_verification")
     ELSE Decision("completed", "completed")

Conclude(v, d) ==
  IF d.status \in Ended THEN Finalize(v, d.status, d.phase, run.verified)
  ELSE IF run.version = v THEN Transition(d.status, d.phase)
  ELSE UNCHANGED <<run, facts>>

Read(x) ==
  /\ pc[x] = "read"
  /\ IF run.status = "cancelled" THEN Goto(x, back[x]) /\ UNCHANGED <<seen, goal>>
     ELSE /\ seen' = [seen EXCEPT ![x] = run.version]
          /\ goal' = [goal EXCEPT ![x] = Concluded]
          /\ Goto(x, "write")
  /\ UNCHANGED <<run, taskVars, facts, todo, ready, back, listed, jobVars, envVars, histVars>>

(* The conclusion is written whatever the version has become. *)
WriteAnyway(x) ==
  /\ pc[x] = "write"
  /\ Conclude(run.version, goal[x])
  /\ Forget(x) /\ Goto(x, back[x])
  /\ UNCHANGED <<taskVars, todo, ready, back, listed, jobVars, envVars, histVars>>
Write(x) ==
  /\ pc[x] = "write"
  /\ Conclude(seen[x], goal[x])
  /\ Forget(x) /\ Goto(x, back[x])
  /\ UNCHANGED <<taskVars, todo, ready, back, listed, jobVars, envVars, histVars>>

Reconcile(x) == Read(x) \/ Write(x)

(* The thread goes on with a reconciliation, and from there to label l. *)
CallReconcile(x, l) == Goto(x, "read") /\ back' = [back EXCEPT ![x] = l]

-----------------------------------------------------------------------------
(* A thread executes a task.  The batch looks at the row first; the row is
   claimed for the child once its session exists, and the answer of the claim
   is not looked at: the child runs in any case.                           *)

Check(x, t) ==
  /\ job[<<x, t>>] = "check"
  /\ LET gone == status[t] = "cancelled"
     IN /\ job' = [job EXCEPT ![<<x, t>>] = IF gone THEN "none" ELSE "spawn"]
        /\ reports' = IF gone THEN [reports EXCEPT ![t[1]] = "bad"] ELSE reports
  /\ UNCHANGED <<run, taskVars, facts, pc, memVars, outcome, envVars, histVars>>

SpawnRefused(x, t) ==
  /\ job[<<x, t>>] = "spawn"
  /\ job' = [job EXCEPT ![<<x, t>>] = "persist"]
  /\ outcome' = [outcome EXCEPT ![<<x, t>>] = "failed"]
  /\ UNCHANGED <<run, taskVars, facts, pc, memVars, reports, envVars, histVars>>

Spawned(x, t) ==
  /\ job[<<x, t>>] = "spawn"
  /\ job' = [job EXCEPT ![<<x, t>>] = "child"]
  /\ Claim(t, {"queued"}, "running")
  /\ UNCHANGED <<run, deps, review, facts, pc, memVars, outcome, reports, envVars, histVars>>

(* The end of _execute_child_session, in the thread of the child: the task
   gets the status of the child whatever it is by now.  If this write fails,
   the task is marked as failed, if it is still open and this write does not
   fail too.                                                               *)
ChildEnds(x, t) ==
  /\ job[<<x, t>>] = "child"
  /\ job' = [job EXCEPT ![<<x, t>>] = "persist"]
  /\ \E o \in Outcomes :
       /\ outcome' = [outcome EXCEPT ![<<x, t>>] = o]
       /\ successes' = IF o \in Success THEN successes \cup {t} ELSE successes
       /\ kept' = IF o \in Success /\ t[1] \in Writers THEN kept \cup {t} ELSE kept
       /\ \/ status' = WithStatus(t, o) /\ UNCHANGED faults
          \/ /\ faults < MaxFaults /\ faults' = faults + 1
             /\ Claim(t, Open, "failed") \/ UNCHANGED status
  /\ UNCHANGED <<run, deps, review, facts, pc, memVars, reports, token, requests, early>>

(* _persist_report of the batch, the report of a scheduler: a claim from the
   statuses an open task has, with the worktree as part of it.             *)
Reported(x, t) ==
  IF x = "batch" THEN Open
  ELSE IF outcome[<<x, t>>] = "failed" THEN Open ELSE {"running"}

Persist(x, t) ==
  /\ job[<<x, t>>] = "persist"
  /\ job' = [job EXCEPT ![<<x, t>>] = "none"]
  /\ outcome' = [outcome EXCEPT ![<<x, t>>] = "failed"]
  /\ Claim(t, Reported(x, t), outcome[<<x, t>>])
  /\ review' = IF status[t] \in Reported(x, t) /\ outcome[<<x, t>>] \in Success /\ t \in kept
               THEN [review EXCEPT ![t] = "pending"] ELSE review
  /\ reports' = IF x # "batch" THEN reports
                ELSE [reports EXCEPT ![t[1]] = IF outcome[<<x, t>>] \in Success THEN "good" ELSE "bad"]
  /\ UNCHANGED <<run, deps, facts, pc, memVars, envVars, histVars>>

Execute(x, t) ==
  Check(x, t) \/ SpawnRefused(x, t) \/ Spawned(x, t) \/ ChildEnds(x, t) \/ Persist(x, t)

Busy(x) == \E t \in Tasks : job[<<x, t>>] # "none"

(* One wave: some of the tasks that are ready, all of which are waited for. *)
StartWave(x, wave, first) ==
  job' = [j \in Jobs |-> IF j[1] = x /\ j[2] \in wave THEN first ELSE job[j]]

-----------------------------------------------------------------------------
(* AgentBatch.                                                             *)

CreateRun ==
  /\ pc["batch"] = "start" /\ run.status = "absent"
  /\ run' = [run EXCEPT !.status = "running"]
  /\ Goto("batch", "create")
  /\ UNCHANGED <<taskVars, facts, memVars, jobVars, envVars, histVars>>

CreateTask ==
  /\ pc["batch"] = "create"
  /\ \E i \in 1 .. Len(Order) :
       /\ i \notin Created /\ 1 .. (i - 1) \subseteq Created
       /\ status' = WithStatus(First(Order[i]), "queued")
       /\ deps' = [deps EXCEPT ![First(Order[i])] = {First(d) : d \in Dep[Order[i]]}]
       /\ Goto("batch", IF i = Len(Order) THEN "loop" ELSE "create")
  /\ UNCHANGED <<run, review, facts, memVars, jobVars, envVars, histVars>>

(* create_delegation_task raises: nothing on the way handles it. *)
CreateRaises ==
  /\ pc["batch"] = "create"
  /\ Goto("batch", "done")
  /\ UNCHANGED <<run, taskVars, facts, memVars, jobVars, envVars, histVars>>

Pending == {n \in Names : reports[n] = "none"}
Ready(n) == n \in Pending /\ \A d \in Dep[n] : reports[d] # "none"
Blocked(n) == Ready(n) /\ \E d \in Dep[n] : reports[d] = "bad"

(* Pending tasks are given up when the parent run is cancelled, and when a
   task they depend on did not succeed. *)
GiveUp(n, s) ==
  /\ pc["batch"] = "loop" /\ ~Busy("batch")
  /\ reports' = [reports EXCEPT ![n] = "bad"]
  /\ Claim(First(n), Open, s)
  /\ UNCHANGED <<run, deps, review, facts, pc, memVars, job, outcome, envVars, histVars>>
BatchCancelled(n) == token /\ n \in Pending /\ GiveUp(n, "cancelled")
BatchBlocked(n) == ~token /\ Blocked(n) /\ GiveUp(n, "failed")

BatchWave ==
  /\ pc["batch"] = "loop" /\ ~Busy("batch") /\ ~token
  /\ \E wave \in SUBSET {n \in Names : Ready(n) /\ ~Blocked(n)} :
       /\ wave # {}
       /\ StartWave("batch", {First(n) : n \in wave}, "check")
  /\ UNCHANGED <<run, taskVars, facts, pc, memVars, outcome, reports, envVars, histVars>>

(* What follows is decided by the status of the run and by the token; the
   version is read together with the status. *)
BatchThrough ==
  /\ pc["batch"] = "loop" /\ ~Busy("batch") /\ Pending = {}
  /\ token => run.status = "cancelled"
  /\ Goto("batch", IF run.status = "cancelled" THEN "done" ELSE "final")
  /\ UNCHANGED <<run, taskVars, facts, memVars, jobVars, envVars, histVars>>

Rescue(s) ==
  /\ pc["batch"] = "loop" /\ ~Busy("batch")
  /\ seen' = [seen EXCEPT !["batch"] = run.version]
  /\ goal' = [goal EXCEPT !["batch"] = Decision(s, s)]
  /\ Goto("batch", "rescue")
  /\ UNCHANGED <<run, taskVars, facts, todo, ready, back, listed, jobVars, envVars, histVars>>
BatchCancels == Pending = {} /\ token /\ run.status # "cancelled" /\ Rescue("cancelled")
(* The store raises in the loop: the run fails. *)
BatchRaises == Pending # {} /\ Rescue("failed")

BatchFinalizes ==
  /\ pc["batch"] = "rescue"
  /\ Finalize(seen["batch"], goal["batch"].status, goal["batch"].phase, run.verified)
  /\ Goto("batch", "done") /\ Forget("batch")
  /\ UNCHANGED <<taskVars, todo, ready, back, listed, jobVars, envVars, histVars>>

BatchSynthesizes ==
  /\ pc["batch"] = "final"
  /\ IF run.status = "running" THEN Transition("running", "synthesizing")
                               ELSE UNCHANGED <<run, facts>>
  /\ CallReconcile("batch", "done")
  /\ UNCHANGED <<taskVars, seen, goal, todo, ready, listed, jobVars, envVars, histVars>>

Batch ==
  \/ CreateRun \/ CreateTask \/ CreateRaises \/ BatchWave \/ BatchThrough \/ BatchCancels \/ BatchRaises
  \/ BatchFinalizes \/ BatchSynthesizes
  \/ \E n \in Names : BatchCancelled(n) \/ BatchBlocked(n)

-----------------------------------------------------------------------------
(* Retry and resume: the request is looked at in one transaction, and the
   tasks are replaced in another one, which does not look at their statuses
   again beyond "superseded".                                              *)

RequestRetry(x, seeds) ==
  /\ pc[x] = "start"
  /\ Request
  /\ todo' = [todo EXCEPT ![x] = seeds]
  /\ Goto(x, "replace")
  /\ UNCHANGED <<run, taskVars, facts, seen, goal, ready, back, listed, jobVars, token, faults>>

Retry(x) == \E t \in Tasks : status[t] \in Retryable /\ RequestRetry(x, {t})
Resume(x) ==
  LET seeds == {t \in Tasks : status[t] = "interrupted"}
  IN seeds # {} /\ RequestRetry(x, seeds)

(* The seeds and every task downstream of them. *)
Closed(S) == \A t \in Effective : deps[t] \cap S # {} => t \in S
Affected(seeds) == {t \in Tasks : \A S \in SUBSET Effective : seeds \subseteq S /\ Closed(S) => t \in S}
Next1(t) == <<t[1], t[2] + 1>>
Replaced(t) == t[2] < MaxRetries /\ status[Next1(t)] # "absent"

MayReplaceAgain(seeds, affected) ==
  /\ seeds \subseteq Effective
  /\ \A t \in affected : review[t] \notin {"pending", "retained"} /\ t[2] < MaxRetries
MayReplace(seeds, affected) ==
  /\ seeds \subseteq Effective
  /\ \A t \in affected :
       /\ review[t] \notin {"pending", "retained"}
       /\ t[2] < MaxRetries
       /\ ~Replaced(t)
(* _replace_delegation_subgraph. *)
Replacements(affected) == {Next1(t) : t \in affected}
Before(t) == <<t[1], t[2] - 1>>
KeepDependencies(t, affected) == deps[Before(t)]
Substitute(t, affected) ==
  {IF d \in affected THEN Next1(d) ELSE d : d \in deps[Before(t)]}
Supersede(affected) ==
  /\ status' = [t \in Tasks |-> CASE t \in affected -> "superseded"
                                  [] t \in Replacements(affected) -> "queued"
                                  [] OTHER -> status[t]]
  /\ deps' = [t \in Tasks |-> IF t \in Replacements(affected)
                              THEN Substitute(t, affected) ELSE deps[t]]
  /\ review' = [t \in Tasks |-> IF t \in Replacements(affected) THEN "none" ELSE review[t]]
  /\ run' = [status |-> "running", phase |-> "executing", version |-> run.version + 1,
             verified |-> "none"]
Replace(x) ==
  /\ pc[x] = "replace"
  /\ LET affected == Affected(todo[x])
     IN IF MayReplace(todo[x], affected)
        THEN Supersede(affected) /\ Goto(x, "list")
        ELSE Goto(x, "done") /\ UNCHANGED <<run, taskVars>>
  /\ todo' = [todo EXCEPT ![x] = {}]
  /\ UNCHANGED <<facts, seen, goal, ready, back, listed, jobVars, envVars, histVars>>

-----------------------------------------------------------------------------
(* DelegationRunScheduler.execute: the tasks are listed; what is blocked fails,
   what is ready is executed in waves, and the list is read again.  Without a
   ready or a blocked task it raises, and does not reconcile.              *)

Queued == {t \in Tasks : status[t] = "queued"}
BlockedTasks == {t \in Queued : \E d \in deps[t] : status[d] \notin Success \cup Open}
ReadyAnyhow == {t \in Queued : \A d \in deps[t] : status[d] \in Settled}
ReadyTasks == {t \in Queued : \A d \in deps[t] : status[d] \in Success}

ListTasks(x) ==
  /\ pc[x] = "list"
  /\ todo' = [todo EXCEPT ![x] = BlockedTasks]
  /\ ready' = [ready EXCEPT ![x] = ReadyTasks]
  /\ IF Queued = {} THEN CallReconcile(x, "done")
     ELSE /\ Goto(x, IF BlockedTasks \cup ReadyTasks = {} THEN "done" ELSE "block")
          /\ UNCHANGED back
  /\ UNCHANGED <<run, taskVars, facts, seen, goal, listed, jobVars, envVars, histVars>>

FailBlocked(x) ==
  /\ pc[x] = "block"
  /\ IF todo[x] = {}
     THEN Goto(x, IF ready[x] = {} THEN "list" ELSE "waves") /\ UNCHANGED <<status, todo>>
     ELSE \E t \in todo[x] : /\ Claim(t, {"queued"}, "failed")
                            /\ todo' = [todo EXCEPT ![x] = @ \ {t}]
                            /\ UNCHANGED pc
  /\ UNCHANGED <<run, deps, review, facts, seen, goal, ready, back, listed, jobVars, envVars, histVars>>

Wave(x) ==
  /\ pc[x] = "waves"
  /\ \E wave \in SUBSET ready[x] :
       /\ wave # {}
       /\ StartWave(x, wave, "spawn")
       /\ ready' = [ready EXCEPT ![x] = @ \ wave]
  /\ Goto(x, "wait")
  /\ UNCHANGED <<run, taskVars, facts, seen, goal, todo, back, listed, outcome, reports, envVars, histVars>>

WaveDone(x) ==
  /\ pc[x] = "wait" /\ ~Busy(x)
  /\ Goto(x, IF ready[x] = {} THEN "list" ELSE "waves")
  /\ UNCHANGED <<run, taskVars, facts, memVars, jobVars, envVars, histVars>>

Scheduler(x) ==
  Replace(x) \/ ListTasks(x) \/ FailBlocked(x) \/ Wave(x) \/ WaveDone(x) \/ Reconcile(x)

-----------------------------------------------------------------------------
(* DelegationIntegrationCoordinator.  There is a decision for every worktree
   that waits for one, and there may be one for another task.  Each is
   carried out in turn and followed by a reconciliation
   (_record_delegation_integration), until one cannot be.                  *)

Reviewable == {t \in Effective : review[t] \in {"pending", "retained"}}

Integrate(x) ==
  /\ pc[x] = "start" /\ run.status # "absent"
  /\ Request
  /\ seen' = [seen EXCEPT ![x] = run.version]
  /\ \E others \in {{}} \cup {{t} : t \in Effective} :
       todo' = [todo EXCEPT ![x] = Reviewable \cup others]
  /\ listed' = [listed EXCEPT ![x] =
       [t \in Tasks |-> IF t \in todo'[x] /\ (status[t] = "running" \/ t \in kept)
                       THEN status[t] ELSE "absent"]]
  /\ Goto(x, "integrate")
  /\ UNCHANGED <<run, taskVars, facts, goal, ready, back, jobVars, token, faults>>

StartIntegration(x) ==
  /\ pc[x] = "integrate"
  /\ IF run.version = seen[x]
     THEN Transition("running", "integrating") /\ Goto(x, "resolve") /\ UNCHANGED <<todo, listed>>
     ELSE /\ Goto(x, "done") /\ UNCHANGED <<run, facts>>
          /\ todo' = [todo EXCEPT ![x] = {}]
          /\ listed' = [listed EXCEPT ![x] = NothingListed]
  /\ seen' = [seen EXCEPT ![x] = 0]
  /\ UNCHANGED <<taskVars, goal, ready, back, jobVars, envVars, histVars>>

(* A worktree is there from the end of the child that is listed until it is
   applied or discarded.  Without one the request is given up, and the run
   stays as it is. *)
Available(x, t) ==
  listed[x][t] # "absent" /\ t \in kept /\ review[t] \notin {"applied", "discarded"}
ResolveRaises(x) ==
  /\ pc[x] = "resolve"
  /\ \E t \in todo[x] : ~Available(x, t)
  /\ todo' = [todo EXCEPT ![x] = {}]
  /\ listed' = [listed EXCEPT ![x] = NothingListed]
  /\ Goto(x, "done")
  /\ UNCHANGED <<run, taskVars, facts, seen, goal, ready, back, jobVars, envVars, histVars>>

(* The child has changed other files than its contract allows: the status is
   written again as it was listed. *)
ResolveViolation(x) ==
  /\ pc[x] = "resolve"
  /\ \E t \in todo[x] :
       /\ Available(x, t)
       /\ review' = [review EXCEPT ![t] = "conflict"]
       /\ status' = WithStatus(t, listed[x][t])
  /\ todo' = [todo EXCEPT ![x] = {}]
  /\ listed' = [listed EXCEPT ![x] = NothingListed]
  /\ Goto(x, "settle")
  /\ UNCHANGED <<run, deps, facts, seen, goal, ready, back, jobVars, envVars, histVars>>

(* apply, discard or retain, with what the revision and git make of it: done
   as decided, or else one of failed, stale and conflict. *)
Resolve(x) ==
  /\ pc[x] = "resolve"
  /\ \E t \in todo[x], r \in {"applied", "retained", "discarded", "conflict"} :
       /\ Available(x, t)
       /\ review' = [review EXCEPT ![t] = r]
       /\ todo' = [todo EXCEPT ![x] = IF r = "conflict" THEN {} ELSE @ \ {t}]
       /\ listed' = [listed EXCEPT ![x] = IF r = "conflict" THEN NothingListed
                                         ELSE [@ EXCEPT ![t] = "absent"]]
       /\ CallReconcile(x, IF r = "conflict" THEN "settle" ELSE "resolve")
  /\ UNCHANGED <<run, status, deps, facts, seen, goal, ready, jobVars, envVars, histVars>>

(* A decision that could not be carried out ends the run as partial, unless
   the reconciliation has ended it already.  The version is read in the same
   step. *)
Settle(x) ==
  /\ pc[x] = "settle"
  /\ Finalize(run.version, "partial", "integration_failed", "none")
  /\ Goto(x, "done")
  /\ UNCHANGED <<taskVars, memVars, jobVars, envVars, histVars>>

Resolved(x) ==
  /\ pc[x] = "resolve" /\ todo[x] = {}
  /\ CallReconcile(x, "verify")
  /\ UNCHANGED <<run, taskVars, facts, seen, goal, todo, ready, listed, jobVars, envVars, histVars>>

(* The run is verified when it waits for that.  *)
StartVerification(x) ==
  /\ pc[x] = "verify"
  /\ IF run.status = "running" /\ run.phase = "awaiting_verification"
     THEN seen' = [seen EXCEPT ![x] = run.version] /\ Goto(x, "check")
     ELSE Goto(x, "done") /\ UNCHANGED seen
  /\ UNCHANGED <<run, taskVars, facts, goal, todo, ready, back, listed, jobVars, envVars, histVars>>

(* POST verify: no condition on the run. *)
Verify(x) ==
  /\ pc[x] = "start" /\ run.status # "absent"
  /\ Request
  /\ seen' = [seen EXCEPT ![x] = run.version]
  /\ Goto(x, "check")
  /\ UNCHANGED <<run, taskVars, facts, goal, todo, ready, back, listed, jobVars, token, faults>>

(* Without commands the run is completed as it is. *)
SkipVerification(x) ==
  /\ pc[x] = "check" /\ FALSE \in Commands
  /\ Finalize(seen[x], "completed", "completed", "skipped")
  /\ Goto(x, "done") /\ Forget(x)
  /\ UNCHANGED <<taskVars, todo, ready, back, listed, jobVars, envVars, histVars>>

RunVerification(x) ==
  /\ pc[x] = "check" /\ TRUE \in Commands
  /\ IF run.version = seen[x]
     THEN Transition("running", "verifying") /\ Goto(x, "checked")
     ELSE Goto(x, "done") /\ UNCHANGED <<run, facts>>
  /\ Forget(x)
  /\ UNCHANGED <<taskVars, todo, ready, back, listed, jobVars, envVars, histVars>>

(* The version is read again when the commands are through. *)
Verified(x) ==
  /\ pc[x] = "checked"
  /\ \/ Finalize(run.version, "completed", "completed", "passed")
     \/ Finalize(run.version, "partial", "verification_failed", "failed")
  /\ Goto(x, "done")
  /\ UNCHANGED <<taskVars, memVars, jobVars, envVars, histVars>>

Review(x) ==
  \/ StartIntegration(x) \/ ResolveRaises(x) \/ ResolveViolation(x) \/ Resolve(x) \/ Settle(x) \/ Resolved(x)
  \/ StartVerification(x) \/ SkipVerification(x) \/ RunVerification(x) \/ Verified(x)
  \/ Reconcile(x)

-----------------------------------------------------------------------------
(* The event loop: it serves one cancel at a time.  The children that a cancel
   signals end as they like, so that their tokens need no state.           *)

CancelRun ==
  /\ pc["loop"] = "start"
  /\ run.status = "running"
  /\ Request
  /\ seen' = [seen EXCEPT !["loop"] = run.version]
  /\ todo' = [todo EXCEPT !["loop"] = {t \in Tasks : status[t] \in Open}]
  /\ Goto("loop", "cancelTasks")
  /\ UNCHANGED <<run, taskVars, facts, goal, ready, back, listed, jobVars, token, faults>>

CancelListed ==
  /\ pc["loop"] = "cancelTasks"
  /\ IF todo["loop"] = {}
     THEN Goto("loop", "cancelEnd") /\ UNCHANGED <<status, todo>>
     ELSE \E t \in todo["loop"] :
            /\ Claim(t, Open, "cancelled")
            /\ todo' = [todo EXCEPT !["loop"] = @ \ {t}]
            /\ UNCHANGED pc
  /\ UNCHANGED <<run, deps, review, facts, seen, goal, ready, back, listed, jobVars, envVars, histVars>>

CancelEnds ==
  /\ pc["loop"] = "cancelEnd"
  /\ Finalize(seen["loop"], "cancelled", "cancelled", run.verified)
  /\ Goto("loop", "start") /\ Forget("loop")
  /\ UNCHANGED <<taskVars, todo, ready, back, listed, jobVars, envVars, histVars>>

(* A task without a child, which is one that is still queued, is cancelled and
   the run reconciled; for another one the token of its child is set and
   nothing is written.                                                     *)
CancelTask(t) ==
  /\ pc["loop"] = "start"
  /\ status[t] = "queued"
  /\ Request
  /\ status' = WithStatus(t, "cancelled")
  /\ CallReconcile("loop", "start")
  /\ UNCHANGED <<run, deps, review, facts, seen, goal, todo, ready, listed, jobVars, token, faults>>

CancelParent ==
  /\ ~token /\ pc["batch"] \notin Idle
  /\ token' = TRUE /\ Request
  /\ UNCHANGED <<run, taskVars, facts, pc, memVars, jobVars, faults>>

EventLoop == CancelRun \/ CancelListed \/ CancelEnds \/ (\E t \in Tasks : CancelTask(t)) \/ Reconcile("loop")

-----------------------------------------------------------------------------
(* The process stops and starts again: every thread and child is gone.
   reconcile_interrupted_delegations runs before anything else does.       *)

Interrupted == {t \in Tasks : status[t] \in Open}

Restart ==
  /\ Request
  /\ pc' = [x \in Threads |-> IF x = "loop" THEN "start"
                              ELSE IF pc[x] = "start" /\ x # "batch" THEN "start" ELSE "done"]
  /\ job' = [j \in Jobs |-> "none"]
  /\ token' = FALSE
  /\ IF run.status # "running" THEN UNCHANGED <<run, status, facts>>
     ELSE IF Interrupted = {} THEN Conclude(run.version, Concluded) /\ UNCHANGED status
     ELSE /\ status' = [t \in Tasks |-> IF t \in Interrupted THEN "interrupted" ELSE status[t]]
          /\ Transition("partial", "recovery_required")
  /\ UNCHANGED <<deps, review, memVars, outcome, reports, faults>>

-----------------------------------------------------------------------------
Requests ==
  \/ \E x \in Retriers : Retry(x) \/ Resume(x)
  \/ \E x \in Reviewers : Integrate(x) \/ Verify(x)
  \/ CancelParent

Next ==
  \/ Batch \/ Reconcile("batch") \/ EventLoop \/ Requests \/ Restart
  \/ \E x \in Retriers : Scheduler(x)
  \/ \E x \in Reviewers : Review(x)
  \/ \E x \in Executors, t \in Tasks : Execute(x, t)

Spec == Init /\ [][Next]_vars

-----------------------------------------------------------------------------
(* Properties.                                                             *)

(* "A successful call is the only path that creates delegation_completed"
   (session_store.py): a run that has ended has exactly the fact of its own
   version, which says how it ended; only the recovery after a restart ends a
   run without one.  No fact is from a version the run has not reached. *)
FactsTellTheEnd ==
  /\ run.status \in Ended /\ run.phase # "recovery_required" =>
       [version |-> run.version, status |-> run.status] \in facts
  /\ \A f \in facts :
       /\ f.version <= run.version
       /\ \A g \in facts : f.version = g.version => f = g
       /\ f.version = run.version => f.status = run.status

(* A run that was reconciled as completed is: whatever the batch, two
   schedulers, cancels and restarts were doing at the time, the last
   generation of every task is settled and every required one has had a child
   that succeeded.  Verification is another matter: it completes the run
   without looking at the tasks; and a run that was cancelled, or reconciled,
   before the batch had created its tasks gets tasks that nobody expects.  The
   integration of a task that breaks its contract writes the status it has
   listed, which may be that of a running task, and another integration that
   listed it too may then decide as it likes: a task left open in this way has
   had its child all the same, and the worktree of that child was reviewed. *)
Last(n) == <<n, CHOOSE g \in 0 .. MaxRetries :
                  /\ status[<<n, g>>] # "absent"
                  /\ \A h \in 0 .. MaxRetries : h > g => status[<<n, h>>] = "absent">>
CompletedIsEarned ==
  run.status = "completed" /\ run.verified = "none" /\ ~early =>
    \A n \in Names : status[First(n)] # "absent" =>
      /\ status[Last(n)] \in Open => Last(n) \in kept /\ review[Last(n)] # "none"
      /\ n \in Required => Last(n) \in successes

(* No child starts before the tasks its task depends on have had a child that
   succeeded, whichever thread starts it. *)
DependenciesFirst ==
  \A x \in Executors, t \in Tasks :
    job[<<x, t>>] \in {"check", "spawn", "child"} => deps[t] \subseteq successes

(* A task leaves the queue once.  The late child of a superseded task makes it
   effective again, and all the same it is not replaced a second time. *)
NeverRequeued ==
  [][\A t \in Tasks : status[t] \notin {"absent", "queued"} => status'[t] # "queued"]_vars

(* A retry replaces all or nothing: what is downstream of a replaced task is
   replaced in the same step, and no replacement waits for a task that is
   superseded, so that it can become ready. *)
ReplacementsWhole ==
  [][~early => \A t \in Tasks :
       t[2] > 0 /\ status[t] = "absent" /\ status'[t] # "absent" =>
         /\ status'[Before(t)] = "superseded"
         /\ \A d \in deps'[t] : status'[d] \notin {"absent", "superseded"}
         /\ \A u \in Effective : Before(t) \in deps[u] => status'[u] = "superseded"]_vars

(* "Subagent worktrees require explicit integration review"
   (agent_batch_tool.py): a run is not reconciled as completed while a child's
   worktree waits for the review. *)
WorktreesReviewed ==
  run.status = "completed" /\ run.verified = "none" =>
    \A t \in kept \cap Effective : review[t] # "none"
=============================================================================
