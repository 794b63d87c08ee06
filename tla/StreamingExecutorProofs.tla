----------------------- MODULE StreamingExecutorProofs -----------------------
(* Theorems of StreamingExecutor for every turn: any number of calls, any
   choice of the safe ones and of the Bash ones, streamed or not.          *)
EXTENDS StreamingExecutor, TLAPS

(* Calls are tracked as they are fed, and all of them before collect. *)
FedFirst ==
  /\ \A i \in Calls : status[i] # "absent" => i <= fed
  /\ main \notin {"feed", "try", "pump"} => fed = N

(* Nothing is yielded before the harvest. *)
HarvestOnce ==
  main \notin {"shutdown", "returned"} =>
    \A i \in Calls : status[i] # "yielded" /\ told[i] = "none"

(* The tool of a call that raised without a message is through: nothing will
   give the call a result any more. *)
SilentOver ==
  \A i \in Calls : report[i] = "silent" => worker[i] \notin {"submitted", "running"}

(* The inductive invariant. *)
ExecutorInv ==
  TypeOK /\ ExclusiveStatus /\ FedFirst /\ HarvestOnce /\ SilentOver /\ ResultsComplete

-----------------------------------------------------------------------------
(* The initial state, and one lemma per step that changes a status.        *)

LEMMA ExecutorInit == Init => ExecutorInv
<1> SUFFICES ASSUME Init PROVE ExecutorInv
  OBVIOUS
<1>1. TypeOK
  <2>1. 0 \in 0 .. N
    BY CallsAssumption
  <2> QED
    BY <2>1 DEF Init, TypeOK, Statuses, Reports
<1>2. ExclusiveStatus /\ FedFirst /\ HarvestOnce /\ SilentOver /\ ResultsComplete
  BY DEF Init, ExclusiveStatus, Executing, FedFirst, HarvestOnce, SilentOver, ResultsComplete
<1> QED
  BY <1>1, <1>2 DEF ExecutorInv

(* Admission: a start keeps the executing calls exclusive, and none happens
   after the harvest. *)
LEMMA TryStartKeeps ==
  ASSUME ExecutorInv, NEW t \in Threads, TryStart(t)
  PROVE  ExecutorInv'
<1>1. PICK i \in todo[t] :
        /\ todo' = [todo EXCEPT ![t] = @ \ {i}]
        /\ status' = IF Admissible(i) THEN [status EXCEPT ![i] = "executing"] ELSE status
        /\ worker' = IF Admissible(i) THEN [worker EXCEPT ![i] = "submitted"] ELSE worker
        /\ progressed' = (progressed \/ (t = 0 /\ Admissible(i)))
  BY DEF TryStart
<1>2. UNCHANGED <<report, main, fed, wake, told>>
  BY DEF TryStart
<1>3. i \in Calls
  BY DEF ExecutorInv, TypeOK
<1>4. todo' \in [Threads -> SUBSET Calls]
  BY <1>1 DEF ExecutorInv, TypeOK
<1>5. progressed' \in BOOLEAN
  BY <1>1 DEF ExecutorInv, TypeOK
<1>6. CASE ~Admissible(i)
  <2>1. UNCHANGED <<status, worker>>
    BY <1>1, <1>6
  <2> QED
    BY <1>2, <1>4, <1>5, <2>1
       DEF ExecutorInv, TypeOK, ExclusiveStatus, Executing, FedFirst, HarvestOnce, SilentOver,
           ResultsComplete, Pending, Tracked
<1>7. CASE Admissible(i)
  <2>1. /\ status' = [status EXCEPT ![i] = "executing"]
        /\ worker' = [worker EXCEPT ![i] = "submitted"]
        /\ status[i] = "queued"
        /\ Executing = {} \/ (i \in Safe /\ Executing \subseteq Safe)
    BY <1>1, <1>7 DEF Admissible
  <2>2. TypeOK'
    BY <1>2, <1>3, <1>4, <1>5, <2>1 DEF ExecutorInv, TypeOK, Statuses, Busy
  <2>3. Executing' = Executing \cup {i}
    BY <1>3, <2>1 DEF Executing, ExecutorInv, TypeOK
  <2>4. ExclusiveStatus'
    BY <2>1, <2>3 DEF ExecutorInv, ExclusiveStatus
  <2>5. FedFirst' /\ HarvestOnce'
    BY <1>2, <1>3, <2>1 DEF ExecutorInv, TypeOK, FedFirst, HarvestOnce
  <2>6. main \notin {"shutdown", "returned"}
    BY <1>3, <2>1 DEF ExecutorInv, ResultsComplete, Pending
  <2>7. SilentOver'
    BY <1>2, <1>3, <2>1 DEF ExecutorInv, TypeOK, SilentOver
  <2> QED
    BY <1>2, <2>2, <2>4, <2>5, <2>6, <2>7 DEF ExecutorInv, ResultsComplete
<1> QED
  BY <1>6, <1>7

LEMMA FinishKeeps ==
  ASSUME ExecutorInv, NEW i \in Calls, Finish(i)
  PROVE  ExecutorInv'
<1>1. PICK o \in Outcomes :
        /\ status' = IF KeepOutcome(i) THEN [status EXCEPT ![i] = "completed"] ELSE status
        /\ report' = IF KeepOutcome(i) THEN [report EXCEPT ![i] = o] ELSE report
        /\ worker' = [worker EXCEPT ![i] = AfterOutcome(i, o)]
  BY DEF Finish
<1>2. worker[i] = "running" /\ wake' = TRUE /\ UNCHANGED <<todo, main, fed, progressed, told>>
  BY DEF Finish
<1>3. AfterOutcome(i, o) \in {"cascade", "scan"}
  BY DEF AfterOutcome
<1>4. status[i] \notin {"absent", "queued"}
  BY <1>2 DEF ExecutorInv, TypeOK
<1>5. \A j \in Calls :
        /\ status'[j] \in {status[j], "completed"}
        /\ status'[j] = "absent" <=> status[j] = "absent"
        /\ status'[j] = "queued" <=> status[j] = "queued"
        /\ status'[j] = "yielded" => status[j] = "yielded"
        /\ status'[j] = "executing" => status[j] = "executing"
  BY <1>1, <1>4 DEF ExecutorInv, TypeOK
<1>6. TypeOK'
  <2>1. CASE KeepOutcome(i)
    BY <1>1, <1>2, <1>3, <1>4, <2>1 DEF ExecutorInv, TypeOK, Statuses, Reports, Outcomes, Busy, KeepOutcome
  <2>2. CASE ~KeepOutcome(i)
    BY <1>1, <1>2, <1>3, <1>4, <2>2 DEF ExecutorInv, TypeOK, Statuses, Reports, Outcomes, Busy, KeepOutcome
  <2> QED
    BY <2>1, <2>2
<1>7. Executing' \subseteq Executing
  BY <1>5 DEF Executing
<1>8. ExclusiveStatus'
  BY <1>7 DEF ExecutorInv, ExclusiveStatus
<1>9. FedFirst' /\ HarvestOnce'
  BY <1>2, <1>5 DEF ExecutorInv, FedFirst, HarvestOnce
<1>10. SilentOver'
  BY <1>1, <1>2, <1>3 DEF ExecutorInv, TypeOK, SilentOver
<1>11. \A j \in Calls : report[j] = "silent" => report'[j] = "silent"
  BY <1>1, <1>2 DEF ExecutorInv, TypeOK, SilentOver
<1>12. ResultsComplete'
  BY <1>2, <1>5, <1>11 DEF ExecutorInv, ResultsComplete, Pending, Tracked
<1> QED
  BY <1>6, <1>8, <1>9, <1>10, <1>12 DEF ExecutorInv

LEMMA CascadeKeeps ==
  ASSUME ExecutorInv, NEW i \in Calls, Cascade(i)
  PROVE  ExecutorInv'
<1>1. /\ worker[i] = "cascade"
      /\ status' = [j \in Calls |-> IF j \in Executing THEN "cancelled" ELSE status[j]]
      /\ report' = [j \in Calls |-> IF j \in Executing THEN "cancelled" ELSE report[j]]
      /\ worker' = [worker EXCEPT ![i] = "scan"]
      /\ wake' = TRUE
      /\ UNCHANGED <<todo, main, fed, progressed, told>>
  BY DEF Cascade, Siblings
<1>2. TypeOK'
  BY <1>1 DEF ExecutorInv, TypeOK, Statuses, Reports, Busy, Executing
<1>3. Executing' = {}
  BY <1>1 DEF Executing
<1>4. \A j \in Calls :
        /\ status'[j] = "absent" <=> status[j] = "absent"
        /\ status'[j] = "queued" <=> status[j] = "queued"
        /\ status'[j] = "yielded" <=> status[j] = "yielded"
        /\ status'[j] # "executing"
  BY <1>1 DEF Executing
<1>5. ExclusiveStatus' /\ FedFirst' /\ HarvestOnce'
  BY <1>1, <1>3, <1>4 DEF ExecutorInv, ExclusiveStatus, FedFirst, HarvestOnce
<1>6. SilentOver'
  BY <1>1 DEF ExecutorInv, TypeOK, SilentOver
<1>7. \A j \in Calls : report[j] = "silent" => report'[j] = "silent"
  BY <1>1 DEF ExecutorInv, TypeOK, Executing
<1>8. ResultsComplete'
  BY <1>1, <1>4, <1>7 DEF ExecutorInv, ResultsComplete, Pending, Tracked
<1> QED
  BY <1>2, <1>5, <1>6, <1>8 DEF ExecutorInv

LEMMA FeedKeeps == ASSUME ExecutorInv, Feed PROVE ExecutorInv'
<1>1. /\ main = "feed" /\ fed < N /\ fed' = fed + 1
      /\ UNCHANGED <<report, worker, progressed, wake, told>>
  BY DEF Feed
<1>2. /\ fed \in 0 .. N /\ N \in Nat /\ fed + 1 \in Calls
      /\ status \in [Calls -> Statuses] /\ todo \in [Threads -> SUBSET Calls]
      /\ \A j \in Calls : status[j] # "absent" => j <= fed
      /\ \A j \in Calls : status[j] # "yielded" /\ told[j] = "none"
  BY <1>1, CallsAssumption DEF ExecutorInv, TypeOK, FedFirst, HarvestOnce, Calls
<1>3. status[fed + 1] = "absent" /\ worker[fed + 1] = "none" /\ report[fed + 1] = "none"
  <2>1. ~(fed + 1 <= fed)
    BY <1>2
  <2>2. status[fed + 1] = "absent"
    BY <1>2, <2>1
  <2> QED
    BY <1>2, <2>2 DEF ExecutorInv, TypeOK
<1>4. CASE ~(Streaming \/ IsFirst(fed + 1))
  <2>1. UNCHANGED <<status, todo, main>>
    BY <1>4 DEF Feed
  <2>2. TypeOK'
    BY <1>1, <1>2, <2>1 DEF ExecutorInv, TypeOK
  <2>3. FedFirst'
    BY <1>1, <1>2, <2>1 DEF ExecutorInv, FedFirst, Calls
  <2> QED
    BY <1>1, <2>1, <2>2, <2>3
       DEF ExecutorInv, ExclusiveStatus, Executing, HarvestOnce, SilentOver, ResultsComplete
<1>5. CASE Streaming \/ IsFirst(fed + 1)
  <2>1. /\ status' = [status EXCEPT ![fed + 1] = "queued"]
        /\ todo' = [todo EXCEPT ![0] = {fed + 1}]
        /\ main' = "try"
    BY <1>5 DEF Feed
  <2>2. TypeOK'
    <3>1. status' \in [Calls -> Statuses] /\ todo' \in [Threads -> SUBSET Calls]
      BY <1>2, <2>1 DEF Statuses
    <3>2. fed' \in 0 .. N
      BY <1>1, <1>2
    <3>3. \A j \in Calls :
            /\ status'[j] \in {"absent", "queued"} <=> worker'[j] = "none"
            /\ status'[j] \in {"absent", "queued", "executing"} <=> report'[j] = "none"
      BY <1>1, <1>2, <1>3, <2>1 DEF ExecutorInv, TypeOK
    <3> QED
      BY <1>1, <2>1, <3>1, <3>2, <3>3 DEF ExecutorInv, TypeOK
  <2>3. FedFirst'
    BY <1>1, <1>2, <2>1 DEF FedFirst, Calls
  <2>4. Executing' = Executing
    BY <1>2, <1>3, <2>1 DEF Executing
  <2>5. HarvestOnce' /\ ResultsComplete'
    BY <1>1, <1>2, <2>1 DEF HarvestOnce, ResultsComplete
  <2> QED
    BY <1>1, <2>2, <2>3, <2>4, <2>5 DEF ExecutorInv, ExclusiveStatus, SilentOver
<1> QED
  BY <1>4, <1>5

LEMMA HarvestKeeps == ASSUME ExecutorInv, Harvest PROVE ExecutorInv'
<1>1. /\ main = "collect" /\ Pending = {} /\ main' = "shutdown"
      /\ told' = [i \in Calls |-> IF i \in Terminal THEN Entry(i) ELSE told[i]]
      /\ status' = [i \in Calls |-> IF i \in Terminal THEN "yielded" ELSE status[i]]
      /\ UNCHANGED <<report, worker, todo, fed, progressed, wake>>
  BY DEF Harvest, Unfinished
<1>2. \A i \in Calls : /\ status[i] # "yielded" /\ told[i] = "none"
                       /\ status[i] \notin {"queued", "executing"}
                       /\ status[i] \in Statuses
  BY <1>1 DEF ExecutorInv, TypeOK, HarvestOnce, Pending
<1>3. \A i \in Calls : status[i] = "absent" \/ i \in Terminal
  BY <1>2 DEF Statuses, Terminal
<1>4. \A i \in Calls : /\ i \in Terminal => report[i] # "none" /\ status[i] # "absent"
                       /\ i \notin Terminal => status'[i] = "absent" /\ told'[i] = "none"
                       /\ i \in Terminal => status'[i] = "yielded" /\ told'[i] = Entry(i)
  BY <1>1, <1>2, <1>3 DEF ExecutorInv, TypeOK, Terminal
<1>5. TypeOK'
  BY <1>1, <1>2, <1>3, <1>4 DEF ExecutorInv, TypeOK, Statuses, Entry, Reports
<1>6. ExclusiveStatus' /\ HarvestOnce' /\ ResultsComplete'
  BY <1>1, <1>4 DEF ExclusiveStatus, Executing, HarvestOnce, ResultsComplete, Pending, Tracked, Entry
<1>7. FedFirst' /\ SilentOver'
  BY <1>1, <1>4 DEF ExecutorInv, FedFirst, SilentOver
<1> QED
  BY <1>5, <1>6, <1>7 DEF ExecutorInv

(* The steps that only move a thread. *)
LEMMA QuietKeeps ==
  ASSUME ExecutorInv,
         UNCHANGED <<status, report, fed, told>>,
         TypeOK', SilentOver',
         main' \in {"shutdown", "returned"} => main \in {"shutdown", "returned"},
         main \in {"shutdown", "returned"} => main' \in {"shutdown", "returned"},
         main' \notin {"feed", "try", "pump"} => fed = N
  PROVE  ExecutorInv'
<1>1. Executing' = Executing /\ Pending' = Pending /\ Tracked' = Tracked
  BY DEF Executing, Pending, Tracked
<1>2. ExclusiveStatus' /\ FedFirst' /\ HarvestOnce' /\ ResultsComplete'
  BY <1>1 DEF ExecutorInv, ExclusiveStatus, FedFirst, HarvestOnce, ResultsComplete
<1> QED
  BY <1>2 DEF ExecutorInv

LEMMA WorkerMoves ==
  ASSUME ExecutorInv, NEW i \in Calls, Begin(i) \/ Scan(i) \/ WorkerEnd(i)
  PROVE  ExecutorInv'
<1>1. UNCHANGED <<status, report, main, fed, progressed, wake, told>>
  BY DEF Begin, Scan, WorkerEnd
<1>2. TypeOK'
  <2>1. CASE Begin(i)
    BY <2>1 DEF Begin, ExecutorInv, TypeOK, Busy
  <2>2. CASE Scan(i)
    BY <2>2 DEF Scan, ExecutorInv, TypeOK, Busy, Queued
  <2>3. CASE WorkerEnd(i)
    BY <2>3 DEF WorkerEnd, ExecutorInv, TypeOK, Busy
  <2> QED
    BY <2>1, <2>2, <2>3
<1>3. main \notin {"feed", "try", "pump"} => fed = N
  BY DEF ExecutorInv, FedFirst
<1>4. SilentOver'
  BY <1>1 DEF Begin, Scan, WorkerEnd, ExecutorInv, TypeOK, SilentOver
<1> QED
  BY <1>1, <1>2, <1>3, <1>4, QuietKeeps

LEMMA MainMoves ==
  ASSUME ExecutorInv,
         Pump \/ Fed \/ Dispatch \/ Dispatched \/ Wait \/ Woken \/ ClearWake \/ Shutdown
  PROVE  ExecutorInv'
<1>1. /\ main \notin {"feed", "try", "pump"} => fed = N
      /\ Queued \subseteq Calls
  BY DEF ExecutorInv, FedFirst, Queued
<1> SilentOver'
  BY DEF Pump, Fed, Dispatch, Dispatched, Wait, Woken, ClearWake, Shutdown, MainOnly,
         ExecutorInv, SilentOver
<1>2. CASE Pump
  <2>1. TypeOK'
    BY <1>1, <1>2 DEF Pump, MainOnly, ExecutorInv, TypeOK
  <2> QED
    BY <1>2, <2>1, QuietKeeps DEF Pump, MainOnly
<1>3. CASE Fed
  <2>1. TypeOK'
    BY <1>3 DEF Fed, MainOnly, ExecutorInv, TypeOK
  <2> QED
    BY <1>3, <2>1, QuietKeeps DEF Fed, MainOnly
<1>4. CASE Dispatch
  <2>1. TypeOK'
    BY <1>1, <1>4 DEF Dispatch, ExecutorInv, TypeOK
  <2> QED
    BY <1>1, <1>4, <2>1, QuietKeeps DEF Dispatch
<1>5. CASE Dispatched
  <2>1. TypeOK'
    BY <1>5 DEF Dispatched, MainOnly, ExecutorInv, TypeOK
  <2> QED
    BY <1>1, <1>5, <2>1, QuietKeeps DEF Dispatched, MainOnly
<1>6. CASE Wait \/ Woken \/ ClearWake
  <2>1. TypeOK'
    BY <1>6 DEF Wait, Woken, ClearWake, MainOnly, ExecutorInv, TypeOK
  <2> QED
    BY <1>1, <1>6, <2>1, QuietKeeps DEF Wait, Woken, ClearWake, MainOnly
<1>7. CASE Shutdown
  <2>1. TypeOK'
    BY <1>7 DEF Shutdown, MainOnly, ExecutorInv, TypeOK
  <2> QED
    BY <1>1, <1>7, <2>1, QuietKeeps DEF Shutdown, MainOnly
<1> QED
  BY <1>2, <1>3, <1>4, <1>5, <1>6, <1>7

LEMMA ExecutorStep == ExecutorInv /\ [Next]_vars => ExecutorInv'
<1> SUFFICES ASSUME ExecutorInv, [Next]_vars PROVE ExecutorInv'
  OBVIOUS
<1>1. CASE MainStep
  <2>1. CASE MainTry
    BY <2>1, TryStartKeeps, CallsAssumption DEF MainTry, Threads
  <2> QED
    BY <1>1, <2>1, FeedKeeps, HarvestKeeps, MainMoves DEF MainStep
<1>2. CASE \E i \in Calls : WorkerStep(i)
  <2>1. PICK i \in Calls : WorkerStep(i)
    BY <1>2
  <2>2. CASE WorkerTry(i)
    <3>1. i \in Threads
      BY CallsAssumption DEF Calls, Threads
    <3> QED
      BY <2>2, <3>1, TryStartKeeps DEF WorkerTry
  <2> QED
    BY <2>1, <2>2, FinishKeeps, CascadeKeeps, WorkerMoves DEF WorkerStep
<1>3. CASE UNCHANGED vars
  BY <1>3 DEF vars, ExecutorInv, TypeOK, ExclusiveStatus, Executing, FedFirst, HarvestOnce,
              SilentOver, ResultsComplete, Pending, Tracked
<1> QED
  BY <1>1, <1>2, <1>3 DEF Next

-----------------------------------------------------------------------------
(* The theorems.                                                           *)

(* The inductive invariant: every thread of the executor keeps it. *)
THEOREM ExecutorInvariance == Spec => []ExecutorInv
<1>1. Init => ExecutorInv
  BY ExecutorInit
<1>2. ExecutorInv /\ [Next]_vars => ExecutorInv'
  BY ExecutorStep
<1> QED
  BY <1>1, <1>2, PTL DEF Spec

(* Type correctness, with the agreement of status, thread and outcome. *)
THEOREM ExecutorTypes == Spec => []TypeOK
<1>1. ExecutorInv => TypeOK
  BY DEF ExecutorInv
<1> QED
  BY <1>1, ExecutorInvariance, PTL

(* Admission control is exclusive for any number of calls and threads. *)
THEOREM ExclusiveAdmission == Spec => []ExclusiveStatus
<1>1. ExecutorInv => ExclusiveStatus
  BY DEF ExecutorInv
<1> QED
  BY <1>1, ExecutorInvariance, PTL

(* collect leaves nothing pending; whatever has no result raised without a
   message, and whatever has one was tracked. *)
THEOREM CollectComplete == Spec => []ResultsComplete
<1>1. ExecutorInv => ResultsComplete
  BY DEF ExecutorInv
<1> QED
  BY <1>1, ExecutorInvariance, PTL

(* What one step does to a cancelled call and to a started one. *)
CancelReported == \A i \in Calls : status[i] = "cancelled" => report[i] = "cancelled"
KeepsCancelled ==
  \A i \in Calls : status[i] = "cancelled" =>
    status'[i] \in {"cancelled", "yielded"} /\ report'[i] = report[i]
StartsNothingTwice ==
  \A i \in Calls : worker[i] \notin {"none", "submitted"} =>
    worker'[i] # "submitted" /\ (status[i] # "executing" => status'[i] # "executing")

LEMMA StepKeepsFate ==
  ASSUME ExecutorInv, [Next]_vars
  PROVE  KeepsCancelled /\ StartsNothingTwice /\ (CancelReported => CancelReported')
<1> USE DEF KeepsCancelled, StartsNothingTwice, CancelReported
<1>1. ASSUME NEW t \in Threads, TryStart(t)
      PROVE  KeepsCancelled /\ StartsNothingTwice /\ (CancelReported => CancelReported')
  <2>1. PICK i \in todo[t] :
          /\ status' = IF Admissible(i) THEN [status EXCEPT ![i] = "executing"] ELSE status
          /\ worker' = IF Admissible(i) THEN [worker EXCEPT ![i] = "submitted"] ELSE worker
    BY <1>1 DEF TryStart
  <2>2. report' = report /\ i \in Calls
    BY <1>1 DEF TryStart, ExecutorInv, TypeOK
  <2>3. CASE Admissible(i)
    <3>1. status[i] = "queued" /\ worker[i] = "none"
      BY <2>2, <2>3 DEF Admissible, ExecutorInv, TypeOK
    <3> QED
      BY <2>1, <2>2, <2>3, <3>1 DEF ExecutorInv, TypeOK
  <2> QED
    BY <2>1, <2>2, <2>3
<1>2. ASSUME NEW i \in Calls, Finish(i)
      PROVE  KeepsCancelled /\ StartsNothingTwice /\ (CancelReported => CancelReported')
  <2>1. worker[i] = "running" /\ status[i] \notin {"absent", "queued"}
    BY <1>2 DEF Finish, ExecutorInv, TypeOK
  <2>2. PICK o \in Outcomes :
          /\ status' = IF status[i] # "cancelled" THEN [status EXCEPT ![i] = "completed"] ELSE status
          /\ report' = IF status[i] # "cancelled" THEN [report EXCEPT ![i] = o] ELSE report
          /\ worker' = [worker EXCEPT ![i] = AfterOutcome(i, o)]
    BY <1>2 DEF Finish, KeepOutcome
  <2>3. AfterOutcome(i, o) # "submitted"
    BY DEF AfterOutcome
  <2> QED
    BY <2>1, <2>2, <2>3 DEF ExecutorInv, TypeOK
<1>3. ASSUME NEW i \in Calls, Cascade(i)
      PROVE  KeepsCancelled /\ StartsNothingTwice /\ (CancelReported => CancelReported')
  BY <1>3 DEF Cascade, Siblings, Executing, ExecutorInv, TypeOK
<1>4. CASE Feed
  <2>1. fed + 1 \in Calls /\ status[fed + 1] = "absent"
    <3>1. fed \in 0 .. N /\ fed < N /\ N \in Nat
      BY <1>4, CallsAssumption DEF Feed, ExecutorInv, TypeOK
    <3>2. fed + 1 \in Calls /\ ~(fed + 1 <= fed)
      BY <3>1 DEF Calls
    <3> QED
      BY <3>2 DEF ExecutorInv, FedFirst
  <2>2. /\ status' = [status EXCEPT ![fed + 1] = "queued"] \/ status' = status
        /\ UNCHANGED <<report, worker>>
    BY <1>4 DEF Feed
  <2> QED
    BY <2>1, <2>2 DEF ExecutorInv, TypeOK
<1>5. CASE Harvest
  BY <1>5 DEF Harvest, Terminal, ExecutorInv, TypeOK
<1>6. CASE UNCHANGED <<status, report, worker>>
  BY <1>6
<1>7. ASSUME NEW i \in Calls, Begin(i) \/ Scan(i) \/ WorkerEnd(i)
      PROVE  KeepsCancelled /\ StartsNothingTwice /\ (CancelReported => CancelReported')
  BY <1>7 DEF Begin, Scan, WorkerEnd, ExecutorInv, TypeOK
<1>8. CASE MainStep
  <2>1. CASE Pump \/ Fed \/ Dispatch \/ Dispatched \/ Wait \/ Woken \/ ClearWake \/ Shutdown
    BY <1>6, <2>1 DEF Pump, Fed, Dispatch, Dispatched, Wait, Woken, ClearWake, Shutdown, MainOnly
  <2>2. CASE MainTry
    BY <1>1, <2>2, CallsAssumption DEF MainTry, Threads
  <2> QED
    BY <1>4, <1>5, <1>8, <2>1, <2>2 DEF MainStep
<1>9. ASSUME NEW i \in Calls, WorkerStep(i)
      PROVE  KeepsCancelled /\ StartsNothingTwice /\ (CancelReported => CancelReported')
  <2>1. i \in Threads
    BY CallsAssumption DEF Calls, Threads
  <2> QED
    BY <1>1, <1>2, <1>3, <1>7, <1>9, <2>1 DEF WorkerStep, WorkerTry
<1>10. CASE UNCHANGED vars
  BY <1>6, <1>10 DEF vars
<1> QED
  BY <1>8, <1>9, <1>10 DEF Next

(* A call is executed at most once: the snapshots the threads work from may be
   stale, the check under the lock is not. *)
THEOREM StartOnce == Spec => StartedOnce
<1>1. ExecutorInv /\ [Next]_vars => [StartsNothingTwice]_vars
  BY StepKeepsFate
<1>2. Spec => [][StartsNothingTwice]_vars
  BY <1>1, ExecutorInvariance, PTL DEF Spec
<1> QED
  BY <1>2 DEF StartedOnce, StartsNothingTwice

(* A cancelled call is never completed afterwards: the compare-and-set of
   _execute_one holds against every interleaving. *)
THEOREM CancellationStands == Spec => CancelStands
<1>1. Init => CancelReported
  BY DEF Init, CancelReported
<1>2. ExecutorInv /\ CancelReported /\ [Next]_vars => CancelReported'
  BY StepKeepsFate
<1>3. Spec => []CancelReported
  BY <1>1, <1>2, ExecutorInvariance, PTL DEF Spec
<1> DEFINE Stands == \A i \in Calls : status[i] = "cancelled" =>
                       /\ status'[i] \in {"cancelled", "yielded"}
                       /\ report'[i] = "cancelled"
<1>4. ExecutorInv /\ CancelReported /\ [Next]_vars => [Stands]_vars
  BY StepKeepsFate DEF KeepsCancelled, CancelReported
<1>5. Spec => [][Stands]_vars
  <2> HIDE DEF Stands
  <2> QED
    BY <1>3, <1>4, ExecutorInvariance, PTL DEF Spec
<1> QED
  BY <1>5 DEF CancelStands

-----------------------------------------------------------------------------
(* What keeps collect from waiting for ever.                               *)

(* Somebody will see to the queued calls: an executing call, whose thread scans
   when it is through, a thread that is about to scan, or one that has all of
   them before it. *)
QueueTended ==
  \/ Executing # {}
  \/ \E i \in Calls : worker[i] \in {"cascade", "scan"}
  \/ \E i \in Calls : worker[i] = "trying" /\ Queued \subseteq todo[i]
  \/ main = "dispatching" /\ Queued \subseteq todo[0]

NobodyForgotten ==
  /\ main \in {"dispatching", "collect", "asleep", "woken"} /\ Queued # {} => QueueTended
  /\ \A i \in Executing : worker[i] \in {"submitted", "running"}
  /\ main = "asleep" /\ ~wake => Pending # {}

LEMMA TryStartTends ==
  ASSUME ExecutorInv, NobodyForgotten, NEW t \in Threads, TryStart(t)
  PROVE  NobodyForgotten'
<1>1. PICK i \in todo[t] :
        /\ todo' = [todo EXCEPT ![t] = @ \ {i}]
        /\ status' = IF Admissible(i) THEN [status EXCEPT ![i] = "executing"] ELSE status
        /\ worker' = IF Admissible(i) THEN [worker EXCEPT ![i] = "submitted"] ELSE worker
  BY DEF TryStart
<1>2. i \in Calls /\ UNCHANGED <<main, wake>> /\ \A s \in Threads : todo[s] \subseteq Calls
  BY DEF TryStart, ExecutorInv, TypeOK
<1>3. CASE Admissible(i)
  <2>1. /\ status' = [status EXCEPT ![i] = "executing"] /\ status[i] = "queued"
        /\ worker' = [worker EXCEPT ![i] = "submitted"]
    BY <1>1, <1>3 DEF Admissible
  <2>2. i \in Executing' /\ Executing' = Executing \cup {i} /\ Pending' = Pending
    BY <1>2, <2>1 DEF Executing, Pending, ExecutorInv, TypeOK
  <2>3. \A j \in Executing' : worker'[j] \in {"submitted", "running"}
    BY <1>2, <2>1, <2>2 DEF NobodyForgotten, Executing, ExecutorInv, TypeOK
  <2> QED
    BY <1>2, <2>2, <2>3 DEF NobodyForgotten, QueueTended
<1>4. CASE ~Admissible(i)
  <2>1. UNCHANGED <<status, worker>>
    BY <1>1, <1>4
  <2>2. Executing = {} => i \notin Queued
    BY <1>4 DEF Admissible, Queued
  <2>3. \A s \in Threads : todo'[s] = IF s = t THEN todo[s] \ {i} ELSE todo[s]
    BY <1>1 DEF ExecutorInv, TypeOK
  <2>4. 0 \in Threads /\ Calls \subseteq Threads
    BY CallsAssumption DEF Calls, Threads
  <2>5. Executing' = Executing /\ Pending' = Pending /\ Queued' = Queued
    BY <2>1 DEF Executing, Pending, Queued
  <2>6. QueueTended => QueueTended'
    BY <1>2, <2>1, <2>2, <2>3, <2>4, <2>5 DEF QueueTended
  <2> QED
    BY <1>2, <2>1, <2>5, <2>6 DEF NobodyForgotten
<1> QED
  BY <1>3, <1>4

LEMMA WorkerTends ==
  ASSUME ExecutorInv, NobodyForgotten, NEW i \in Calls, WorkerStep(i)
  PROVE  NobodyForgotten'
<1>1. CASE Begin(i)
  <2>1. /\ worker[i] = "submitted" /\ worker' = [worker EXCEPT ![i] = "running"]
        /\ UNCHANGED <<status, todo, main, wake>>
    BY <1>1 DEF Begin
  <2>2. Executing' = Executing /\ Pending' = Pending /\ Queued' = Queued
    BY <2>1 DEF Executing, Pending, Queued
  <2>3. \A j \in Calls : worker'[j] = IF j = i THEN "running" ELSE worker[j]
    BY <2>1 DEF ExecutorInv, TypeOK
  <2>4. QueueTended => QueueTended'
    BY <2>1, <2>2, <2>3 DEF QueueTended
  <2> QED
    BY <2>1, <2>2, <2>3, <2>4 DEF NobodyForgotten, Executing
<1>2. CASE Finish(i)
  <2>1. PICK o : /\ worker' = [worker EXCEPT ![i] = AfterOutcome(i, o)]
                 /\ status' = IF KeepOutcome(i) THEN [status EXCEPT ![i] = "completed"] ELSE status
                 /\ wake'
    BY <1>2 DEF Finish
  <2>2. worker'[i] \in {"cascade", "scan"} /\ \A j \in Calls : j # i => worker'[j] = worker[j]
    BY <2>1 DEF AfterOutcome, ExecutorInv, TypeOK
  <2>3. \A j \in Executing' : j \in Executing /\ j # i
    BY <2>1 DEF KeepOutcome, Executing, ExecutorInv, TypeOK
  <2> QED
    BY <2>1, <2>2, <2>3 DEF NobodyForgotten, QueueTended, Executing
<1>3. CASE Cascade(i)
  <2>1. worker'[i] = "scan" /\ wake' /\ Executing' = {}
    BY <1>3 DEF Cascade, Siblings, Executing, ExecutorInv, TypeOK
  <2> QED
    BY <2>1 DEF NobodyForgotten, QueueTended
<1>4. CASE Scan(i)
  <2>1. /\ worker[i] = "scan" /\ worker' = [worker EXCEPT ![i] = "trying"]
        /\ todo' = [todo EXCEPT ![i] = Queued] /\ UNCHANGED <<status, main, wake>> /\ i \in Threads
    BY <1>4, CallsAssumption DEF Scan, Calls, Threads
  <2>2. Executing' = Executing /\ Pending' = Pending /\ Queued' = Queued
    BY <2>1 DEF Executing, Pending, Queued
  <2>3. worker'[i] = "trying" /\ todo'[i] = Queued /\ \A j \in Calls : j # i => worker'[j] = worker[j]
    BY <2>1 DEF ExecutorInv, TypeOK
  <2>4. QueueTended'
    BY <2>2, <2>3 DEF QueueTended
  <2> QED
    BY <2>1, <2>2, <2>3, <2>4 DEF NobodyForgotten, Executing
<1>5. CASE WorkerTry(i)
  BY <1>5, TryStartTends, CallsAssumption DEF WorkerTry, Calls, Threads
<1>6. CASE WorkerEnd(i)
  <2>1. /\ worker[i] = "trying" /\ todo[i] = {} /\ worker' = [worker EXCEPT ![i] = "over"]
        /\ UNCHANGED <<status, todo, main, wake>>
    BY <1>6 DEF WorkerEnd
  <2>2. Executing' = Executing /\ Pending' = Pending /\ Queued' = Queued
    BY <2>1 DEF Executing, Pending, Queued
  <2>3. \A j \in Calls : worker'[j] = IF j = i THEN "over" ELSE worker[j]
    BY <2>1 DEF ExecutorInv, TypeOK
  <2>4. Queued # {} /\ QueueTended => QueueTended'
    BY <2>1, <2>2, <2>3 DEF QueueTended
  <2> QED
    BY <2>1, <2>2, <2>3, <2>4 DEF NobodyForgotten, Executing
<1> QED
  BY <1>1, <1>2, <1>3, <1>4, <1>5, <1>6 DEF WorkerStep

LEMMA MainTends ==
  ASSUME ExecutorInv, NobodyForgotten, MainStep
  PROVE  NobodyForgotten'
<1>1. CASE MainTry
  BY <1>1, TryStartTends, CallsAssumption DEF MainTry, Threads
<1>2. CASE Feed
  <2>1. /\ main' \in {"feed", "try"} /\ worker' = worker
        /\ status' = [status EXCEPT ![fed + 1] = "queued"] \/ status' = status
    BY <1>2 DEF Feed
  <2>2. Executing' \subseteq Executing
    BY <2>1 DEF Executing, ExecutorInv, TypeOK
  <2> QED
    BY <2>1, <2>2 DEF NobodyForgotten
<1>3. CASE Harvest
  BY <1>3 DEF Harvest, NobodyForgotten, Executing, Unfinished, Pending
<1>4. ASSUME UNCHANGED <<status, worker>>
      PROVE  Executing' = Executing /\ Pending' = Pending /\ Queued' = Queued
  BY <1>4 DEF Executing, Pending, Queued
<1>5. CASE Pump \/ Fed \/ Shutdown
  BY <1>4, <1>5 DEF Pump, Fed, Shutdown, MainOnly, NobodyForgotten
<1>6. CASE Dispatch
  <2>1. main' = "dispatching" /\ todo'[0] = Queued /\ UNCHANGED <<status, worker, wake>>
    BY <1>6, CallsAssumption DEF Dispatch, ExecutorInv, TypeOK, Threads
  <2> QED
    BY <1>4, <2>1 DEF NobodyForgotten, QueueTended
<1>7. CASE Dispatched
  BY <1>4, <1>7 DEF Dispatched, MainOnly, NobodyForgotten, QueueTended
<1>8. CASE Wait
  BY <1>4, <1>8 DEF Wait, MainOnly, Unfinished, NobodyForgotten, QueueTended
<1>9. CASE Woken \/ ClearWake
  BY <1>4, <1>9 DEF Woken, ClearWake, MainOnly, NobodyForgotten, QueueTended
<1> QED
  BY <1>1, <1>2, <1>3, <1>5, <1>6, <1>7, <1>8, <1>9 DEF MainStep

(* The loop never waits for nothing: while it waits, a queued call has a thread
   that will try it, an executing call has a thread that will finish it, and
   the wake event is set when nothing is left to wait for.  This is what
   CollectReturns rests on besides the fairness of the threads. *)
THEOREM CollectIsWatched == Spec => []NobodyForgotten
<1>1. Init => NobodyForgotten
  BY DEF Init, NobodyForgotten, Executing
<1>2. ExecutorInv /\ NobodyForgotten /\ [Next]_vars => NobodyForgotten'
  <2> SUFFICES ASSUME ExecutorInv, NobodyForgotten, [Next]_vars PROVE NobodyForgotten'
    OBVIOUS
  <2>1. CASE UNCHANGED vars
    BY <2>1 DEF vars, NobodyForgotten, QueueTended, Executing, Queued, Pending
  <2> QED
    BY <2>1, WorkerTends, MainTends DEF Next
<1> QED
  BY <1>1, <1>2, ExecutorInvariance, PTL DEF Spec
=============================================================================
