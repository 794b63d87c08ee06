-------------------------- MODULE StreamingExecutor --------------------------
(***************************************************************************)
(* One turn of tool calls: execute_action (src/agent/loop/turns.py), the   *)
(* stream that feeds it (src/agent/core.py) and the executor               *)
(* (src/core/streaming_executor.py).                                       *)
(*                                                                         *)
(* A call is its position in the model's answer; tool call ids are         *)
(* distinct.  Thread 0 is the agent loop, thread i the pool thread of call *)
(* i.  Every block under the executor's lock is a step; what a thread read *)
(* under the lock and uses later is in todo.  _tracked, its snapshots and  *)
(* the results keep the order of the calls, so they are sets of calls.     *)
(* The pool has a thread for every call, and the optional process registry *)
(* is not attached, as in production.                                      *)
(***************************************************************************)
EXTENDS Integers, FiniteSets

CONSTANTS
  N,           \* number of calls of the turn
  Safe,        \* calls that are PARALLEL_SAFE
  Bash,        \* calls of the tool Bash
  KeyOf,       \* name and parameters of a call
  Streaming    \* whether the calls arrive from a stream

Calls == 1 .. N
Threads == 0 .. N

ASSUME CallsAssumption ==
  /\ N \in Nat \ {0}
  /\ Safe \subseteq Calls
  /\ Bash \subseteq Calls
  /\ Streaming \in BOOLEAN

VARIABLES
  status,      \* TrackedTool.status, "absent" before it is tracked
  report,      \* TrackedTool.result or error; "silent" when both are empty
  worker,      \* where the pool thread of a call is
  todo,        \* the queued calls a thread has yet to try
  main,        \* where the agent loop is
  fed,         \* calls seen by the agent loop
  progressed,  \* dispatch started something in this round
  wake,        \* the event _wake
  told         \* the entry collect made in the results for a call

vars == <<status, report, worker, todo, main, fed, progressed, wake, told>>

Statuses == {"absent", "queued", "executing", "completed", "cancelled", "yielded"}
Reports == {"none", "ok", "failed", "raised", "silent", "cancelled"}
Busy == {"submitted", "running", "cascade", "scan", "trying"}

(* Types, and the agreement of a call's status with its thread and outcome. *)
TypeOK ==
  /\ status \in [Calls -> Statuses]
  /\ report \in [Calls -> Reports]
  /\ worker \in [Calls -> {"none", "over"} \cup Busy]
  /\ todo \in [Threads -> SUBSET Calls]
  /\ main \in {"feed", "try", "pump", "dispatch", "dispatching", "collect",
               "asleep", "woken", "shutdown", "returned"}
  /\ fed \in 0 .. N
  /\ progressed \in BOOLEAN
  /\ wake \in BOOLEAN
  /\ told \in [Calls -> Reports]
  /\ \A i \in Calls :
       /\ status[i] \in {"absent", "queued"} <=> worker[i] = "none"
       /\ status[i] \in {"absent", "queued", "executing"} <=> report[i] = "none"

Init ==
  /\ status = [i \in Calls |-> "absent"]
  /\ report = [i \in Calls |-> "none"]
  /\ worker = [i \in Calls |-> "none"]
  /\ todo = [t \in Threads |-> {}]
  /\ main = "feed"
  /\ fed = 0
  /\ progressed = FALSE
  /\ wake = FALSE
  /\ told = [i \in Calls |-> "none"]

(* effective_calls: execute_action drops the calls that repeat the name and
   the parameters of an earlier one. *)
IsFirst(i) == \A j \in 1 .. i - 1 : KeyOf[j] # KeyOf[i]
Effective == {i \in Calls : IsFirst(i)}

Executing == {i \in Calls : status[i] = "executing"}
Pending == {i \in Calls : status[i] \in {"queued", "executing"}}
Tracked == {i \in Calls : status[i] # "absent"}
Queued == {i \in Calls : status[i] = "queued"}
Terminal == {i \in Calls : status[i] \in {"completed", "cancelled"}}

(* A list in input order is the set of its calls; the loop over it takes the
   earliest first. *)
IsEarliest(i, S) == i \in S /\ \A j \in S : i <= j
Position(S, i) == Cardinality({j \in S : j <= i})

-----------------------------------------------------------------------------
(* Admission control.                                                      *)

AdmissibleStale(i) == Executing = {} \/ (i \in Safe /\ Executing \subseteq Safe)
AdmissibleIfSafe(i) == status[i] = "queued" /\ (Executing \subseteq Safe)
Admissible(i) ==
  /\ status[i] = "queued"
  /\ Executing = {} \/ (i \in Safe /\ Executing \subseteq Safe)

(* _try_start on the next call of the thread. *)
TryStart(t) ==
  /\ \E i \in todo[t] :
       /\ IsEarliest(i, todo[t])
       /\ todo' = [todo EXCEPT ![t] = @ \ {i}]
       /\ status' = IF Admissible(i) THEN [status EXCEPT ![i] = "executing"] ELSE status
       /\ worker' = IF Admissible(i) THEN [worker EXCEPT ![i] = "submitted"] ELSE worker
       /\ progressed' = (progressed \/ (t = 0 /\ Admissible(i)))
  /\ UNCHANGED <<report, main, fed, wake, told>>

-----------------------------------------------------------------------------
(* The pool thread of a call: _execute_one.                                *)

(* The thread begins; it does not look at the status of its call. *)
Begin(i) ==
  /\ worker[i] = "submitted"
  /\ worker' = [worker EXCEPT ![i] = "running"]
  /\ UNCHANGED <<status, report, todo, main, fed, progressed, wake, told>>

(* The tool returned or raised: the compare-and-set under the lock.  The error
   kept is str(exc), which is empty for a bare raise or a failed assert: a
   silent outcome, as is a tool that returns None. *)
Outcomes == {"ok", "failed", "raised", "silent"}
KeepOutcomeBlind(i) == status[i] # "yielded"
KeepOutcome(i) == status[i] # "cancelled"
AfterOutcomeUnscanned(i, o) == IF i \in Bash /\ o = "failed" THEN "cascade" ELSE "over"
AfterOutcome(i, o) == IF i \in Bash /\ o = "failed" THEN "cascade" ELSE "scan"
Finish(i) ==
  /\ worker[i] = "running"
  /\ \E o \in Outcomes :
       /\ status' = IF KeepOutcome(i) THEN [status EXCEPT ![i] = "completed"] ELSE status
       /\ report' = IF KeepOutcome(i) THEN [report EXCEPT ![i] = o] ELSE report
       /\ worker' = [worker EXCEPT ![i] = AfterOutcome(i, o)]
  /\ wake' = TRUE
  /\ UNCHANGED <<todo, main, fed, progressed, told>>

(* _cancel_executing: a failed Bash cancels what is executing now. *)
Siblings == Executing
Cascade(i) ==
  /\ worker[i] = "cascade"
  /\ status' = [j \in Calls |-> IF j \in Siblings THEN "cancelled" ELSE status[j]]
  /\ report' = [j \in Calls |-> IF j \in Siblings THEN "cancelled" ELSE report[j]]
  /\ worker' = [worker EXCEPT ![i] = "scan"]
  /\ wake' = TRUE
  /\ UNCHANGED <<todo, main, fed, progressed, told>>

(* process_queue: the snapshot of the queue, then _try_start on each. *)
Scan(i) ==
  /\ worker[i] = "scan"
  /\ todo' = [todo EXCEPT ![i] = Queued]
  /\ worker' = [worker EXCEPT ![i] = "trying"]
  /\ UNCHANGED <<status, report, main, fed, progressed, wake, told>>

WorkerTry(i) == worker[i] = "trying" /\ TryStart(i)

WorkerEnd(i) ==
  /\ worker[i] = "trying"
  /\ todo[i] = {}
  /\ worker' = [worker EXCEPT ![i] = "over"]
  /\ UNCHANGED <<status, report, todo, main, fed, progressed, wake, told>>

-----------------------------------------------------------------------------
(* The agent loop.                                                         *)

MainOnly == UNCHANGED <<status, report, worker, fed, progressed, wake, told>>

(* enqueue: from the stream every call, from execute_action the effective
   ones; the latter finds streamed calls already tracked. *)
Feed ==
  /\ main = "feed"
  /\ fed < N
  /\ fed' = fed + 1
  /\ IF Streaming \/ IsFirst(fed + 1)
     THEN /\ status' = [status EXCEPT ![fed + 1] = "queued"]
          /\ todo' = [todo EXCEPT ![0] = {fed + 1}]
          /\ main' = "try"
     ELSE UNCHANGED <<status, todo, main>>
  /\ UNCHANGED <<report, worker, progressed, wake, told>>

MainTry == main \in {"try", "pump", "dispatching"} /\ TryStart(0)

(* The process_queue after every streamed call and every text delta. *)
Pump ==
  /\ Streaming
  /\ main = "feed" \/ (main = "try" /\ todo[0] = {})
  /\ todo' = [todo EXCEPT ![0] = Queued]
  /\ main' = "pump"
  /\ MainOnly

Fed ==
  /\ todo[0] = {}
  /\ main = "pump" \/ (main = "try" /\ ~Streaming)
  /\ main' = "feed"
  /\ UNCHANGED todo
  /\ MainOnly

(* dispatch: rounds of process_queue until one starts nothing. *)
Dispatch ==
  /\ main = "dispatch" \/ (main = "feed" /\ fed = N)
  /\ todo' = [todo EXCEPT ![0] = Queued]
  /\ progressed' = FALSE
  /\ main' = "dispatching"
  /\ UNCHANGED <<status, report, worker, fed, wake, told>>

Dispatched ==
  /\ main = "dispatching"
  /\ todo[0] = {}
  /\ main' = IF progressed THEN "dispatch" ELSE "collect"
  /\ UNCHANGED todo
  /\ MainOnly

(* collect: wait until nothing is pending, then take every result.  The
   five-second timeout of the wait is left out. *)
UnfinishedExecuting == Executing
Unfinished == Pending

Wait ==
  /\ main = "collect"
  /\ Unfinished # {}
  /\ main' = "asleep"
  /\ UNCHANGED todo
  /\ MainOnly

Woken ==
  /\ main = "asleep"
  /\ wake
  /\ main' = "woken"
  /\ UNCHANGED todo
  /\ MainOnly

ClearWake ==
  /\ main = "woken"
  /\ wake' = FALSE
  /\ main' = "collect"
  /\ UNCHANGED <<status, report, worker, todo, fed, progressed, told>>

(* A completed call with neither a result nor an error gets no entry. *)
Entry(i) == IF report[i] = "silent" THEN "none" ELSE report[i]

Harvest ==
  /\ main = "collect"
  /\ Unfinished = {}
  /\ told' = [i \in Calls |-> IF i \in Terminal THEN Entry(i) ELSE told[i]]
  /\ status' = [i \in Calls |-> IF i \in Terminal THEN "yielded" ELSE status[i]]
  /\ main' = "shutdown"
  /\ UNCHANGED <<report, worker, todo, fed, progressed, wake>>

(* shutdown(wait=True) joins the pool; nothing is left to abort. *)
Shutdown ==
  /\ main = "shutdown"
  /\ \A i \in Calls : worker[i] \notin Busy
  /\ main' = "returned"
  /\ UNCHANGED todo
  /\ MainOnly

WorkerStep(i) ==
  Begin(i) \/ Finish(i) \/ Cascade(i) \/ Scan(i) \/ WorkerTry(i) \/ WorkerEnd(i)

MainStep ==
  \/ Feed \/ MainTry \/ Pump \/ Fed \/ Dispatch \/ Dispatched
  \/ Wait \/ Woken \/ ClearWake \/ Harvest \/ Shutdown

Next == MainStep \/ \E i \in Calls : WorkerStep(i)

Spec == Init /\ [][Next]_vars

(* Threads are scheduled, the stream ends, and a tool call that was not
   cancelled returns; a cancelled one may hang for ever. *)
Fairness ==
  /\ WF_vars(MainStep)
  /\ SF_vars(Feed) /\ SF_vars(Dispatch)
  /\ \A i \in Calls :
       /\ WF_vars(WorkerStep(i) /\ worker[i] # "running")
       /\ WF_vars(Finish(i) /\ status[i] = "executing")

FairSpec == Spec /\ Fairness

-----------------------------------------------------------------------------
(* Properties.                                                             *)

(* Admission control: while a call that is not concurrency-safe is EXECUTING
   no other call is, whichever of the loop and the pool threads starts them. *)
ExclusiveStatus ==
  \A i \in Executing \ Safe : Executing = {i}

(* A call is handed to the pool at most once, although every thread tries the
   calls of a snapshot that others have started since. *)
StartedOnce ==
  [][\A i \in Calls : worker[i] \notin {"none", "submitted"} =>
       worker'[i] # "submitted" /\ (status[i] # "executing" => status'[i] # "executing")]_vars

(* collect leaves nothing queued or executing behind it, and returns a result
   for the tracked calls and for no other, cancelled ones included; but not for
   a call that raised without a message, which is marked yielded with no entry
   in the results (streaming_executor.py:411). *)
ResultsComplete ==
  main \in {"shutdown", "returned"} =>
    /\ Pending = {}
    /\ {i \in Calls : told[i] # "none"} \subseteq Tracked
    /\ \A i \in Tracked : told[i] = "none" => report[i] = "silent"

(* The compare-and-set: the late result of a call that a failed Bash cancelled
   is never what collect reports for it. *)
CancelStands ==
  [][\A i \in Calls : status[i] = "cancelled" =>
       /\ status'[i] \in {"cancelled", "yielded"}
       /\ report'[i] = "cancelled"]_vars

(* collect returns, by the wake event alone, and even when a cancelled call
   hangs. *)
CollectReturns == <>(main = "shutdown")

(* "Non-safe tool needs exclusive access (nothing else executing)": no thread
   runs a tool while another runs a tool that is not concurrency-safe. *)
Running == {i \in Calls : worker[i] = "running"}
ExclusiveExecution == \A i \in Running \ Safe : Running = {i}

(* "Deduplicate, schedule, execute, and order one tool-call action": the k-th
   result is that of the k-th effective call, the one it is reported for; here
   of the turns in which every call left a result or a message. *)
ResultsAttributed ==
  main = "returned" /\ (\A i \in Calls : report[i] # "silent") =>
    \A i \in Effective : Position({j \in Calls : told[j] # "none"}, i) = Position(Effective, i)
=============================================================================
