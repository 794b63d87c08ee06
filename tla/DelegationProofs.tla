-------------------------- MODULE DelegationProofs --------------------------
(***************************************************************************)
(* A delegation run, for any tasks and dependencies, any number of threads *)
(* that retry, resume, integrate and verify, and any number of requests,   *)
(* failed writes and restarts.                                             *)
(*                                                                         *)
(* The invariant follows a task from the queue to its report.  A status    *)
(* "completed", an outcome, a good report and a status a reviewer has      *)
(* listed all go back to a child that succeeded; what is in the hands of a *)
(* thread exists, and has left the queue once it has a child; the          *)
(* dependencies of a task stay as they are from its creation on.           *)
(***************************************************************************)
EXTENDS Delegation, WellFoundedInduction, TLAPS

(* The batch works on its tasks once all of them are there, and ends a run
   only with a terminal status. *)
BatchInOrder ==
  /\ back["batch"] = "done"
  /\ pc["batch"] = "loop" => \A n \in Names : status[First(n)] # "absent"
  /\ pc["batch"] = "rescue" => goal["batch"].status \in Ended

(* A task in the hands of a thread exists, and the batch knows no replacements. *)
JobsExist ==
  \A x \in Executors, t \in Tasks :
    job[<<x, t>>] # "none" => status[t] # "absent" /\ (x = "batch" => t = First(t[1]))

(* Once a child is there, or its worktree, the task has left the queue. *)
Started(t) == status[t] \notin {"absent", "queued"}
QueueLeft ==
  /\ \A x \in Executors, t \in Tasks : job[<<x, t>>] = "child" => Started(t)
  /\ \A t \in kept : Started(t)
  /\ \A x \in Reviewers, t \in Tasks : listed[x][t] # "queued"

(* Whatever is said to be completed has had a child that succeeded. *)
SuccessEarned ==
  /\ \A t \in Tasks : status[t] \in Success => t \in successes
  /\ \A x \in Executors, t \in Tasks : outcome[<<x, t>>] \in Success => t \in successes
  /\ \A n \in Names : reports[n] = "good" => First(n) \in successes
  /\ \A x \in Reviewers, t \in Tasks : listed[x][t] \in Success => t \in successes

(* The dependencies of the first generation are those of the batch. *)
DependenciesKept ==
  \A n \in Names : status[First(n)] # "absent" => deps[First(n)] = {First(d) : d \in Dep[n]}

(* What a scheduler holds as ready exists and may start. *)
ReadyEarned ==
  \A x \in Threads : \A t \in ready[x] : status[t] # "absent" /\ deps[t] \subseteq successes

IInv ==
  /\ TypeOK /\ BatchInOrder /\ JobsExist /\ QueueLeft /\ SuccessEarned
  /\ DependenciesKept /\ ReadyEarned /\ DependenciesFirst /\ FactsTellTheEnd

-----------------------------------------------------------------------------
(* The operators of the model.                                             *)

LEMMA Kinds ==
  /\ "batch" \in Executors /\ "batch" \in Threads /\ "loop" \in Threads
  /\ Executors \subseteq Threads /\ Retriers \subseteq Executors /\ Reviewers \subseteq Threads
  /\ "loop" \notin Retriers /\ "loop" \notin Reviewers /\ "batch" \notin Reviewers /\ "batch" \notin Retriers
BY DelegationAssumption DEF Executors, Threads

LEMMA FirstIsTask == ASSUME NEW n \in Names PROVE First(n) \in Tasks
BY DelegationAssumption DEF First, Tasks

LEMMA NextIsTask ==
  ASSUME NEW t \in Tasks, t[2] < MaxRetries
  PROVE  Next1(t) \in Tasks /\ \A n \in Names : Next1(t) # First(n)
<1>1. PICK n \in Names, g \in 0 .. MaxRetries : t = <<n, g>>
  BY DEF Tasks
<1>2. Next1(t) = <<n, g + 1>> /\ g + 1 \in 0 .. MaxRetries /\ g + 1 # 0
  BY <1>1, DelegationAssumption DEF Next1
<1> QED
  BY <1>2 DEF Tasks, First

LEMMA ConcludedType == Concluded \in [status : RunStatuses, phase : Phases]
BY SMTT(30) DEF Concluded, Decision, RunStatuses, Phases, Ended


-----------------------------------------------------------------------------
(* TypeOK in parts.                                                        *)

RunTypes ==
  /\ run \in [status : RunStatuses, phase : Phases, version : Nat,
              verified : {"none", "passed", "failed", "skipped"}]
  /\ facts \subseteq [version : Nat, status : Ended]
TaskTypes ==
  /\ status \in [Tasks -> Statuses]
  /\ deps \in [Tasks -> SUBSET Tasks]
  /\ review \in [Tasks -> {"none", "pending", "applied", "retained", "discarded", "conflict"}]
ThreadTypes ==
  /\ pc \in [Threads -> Working \cup Idle]
  /\ seen \in [Threads -> Nat]
  /\ goal \in [Threads -> [status : RunStatuses, phase : Phases]]
  /\ todo \in [Threads -> SUBSET Tasks]
  /\ ready \in [Threads -> SUBSET Tasks]
  /\ back \in [Threads -> Working \cup Idle]
JobTypes ==
  /\ listed \in [Reviewers -> [Tasks -> Statuses]]
  /\ job \in [Jobs -> {"none", "check", "spawn", "child", "persist"}]
  /\ outcome \in [Jobs -> Outcomes \cup {"failed"}]
  /\ reports \in [Names -> {"none", "good", "bad"}]
EnvTypes ==
  /\ token \in BOOLEAN /\ requests \in Nat /\ faults \in Nat
  /\ successes \subseteq Tasks /\ kept \subseteq Tasks /\ early \in BOOLEAN

LEMMA TypeParts == TypeOK <=> RunTypes /\ TaskTypes /\ ThreadTypes /\ JobTypes /\ EnvTypes
BY DEF TypeOK, RunTypes, TaskTypes, ThreadTypes, JobTypes, EnvTypes

LEMMA ThreadStep ==
  ASSUME RunTypes, ThreadTypes, [Next]_vars
  PROVE  ThreadTypes'
<1>1. ASSUME CreateRun PROVE ThreadTypes'
  BY <1>1, Kinds DEF CreateRun, Goto, memVars, Working, Idle, ThreadTypes
<1>2. ASSUME CreateTask PROVE ThreadTypes'
  BY <1>2, Kinds DEF CreateTask, Goto, memVars, Working, Idle, ThreadTypes
<1>3. ASSUME CreateRaises PROVE ThreadTypes'
  BY <1>3, Kinds DEF CreateRaises, Goto, memVars, Working, Idle, ThreadTypes
<1>4. ASSUME BatchWave PROVE ThreadTypes'
  BY <1>4 DEF BatchWave, ThreadTypes, memVars
<1>5. ASSUME BatchThrough PROVE ThreadTypes'
  BY <1>5, Kinds DEF BatchThrough, Goto, memVars, Working, Idle, ThreadTypes
<1>6. ASSUME BatchCancels PROVE ThreadTypes'
  BY <1>6, Kinds DEF BatchCancels, Goto, memVars, Working, Idle, ThreadTypes, Rescue, Decision, RunTypes, RunStatuses, Phases, Ended
<1>7. ASSUME BatchRaises PROVE ThreadTypes'
  BY <1>7, Kinds DEF BatchRaises, Goto, memVars, Working, Idle, ThreadTypes, Rescue, Decision, RunTypes, RunStatuses, Phases, Ended
<1>8. ASSUME BatchFinalizes PROVE ThreadTypes'
  BY <1>8, Kinds DEF BatchFinalizes, Goto, memVars, Working, Idle, ThreadTypes, Forget, RunStatuses, Phases, Ended
<1>9. ASSUME BatchSynthesizes PROVE ThreadTypes'
  BY <1>9, Kinds DEF BatchSynthesizes, Goto, memVars, Working, Idle, ThreadTypes, CallReconcile
<1>10. ASSUME NEW n \in Names, BatchCancelled(n) PROVE ThreadTypes'
  BY <1>10, Kinds DEF BatchCancelled, Goto, memVars, Working, Idle, ThreadTypes, GiveUp
<1>11. ASSUME NEW n \in Names, BatchBlocked(n) PROVE ThreadTypes'
  BY <1>11, Kinds DEF BatchBlocked, Goto, memVars, Working, Idle, ThreadTypes, GiveUp
<1>12. ASSUME NEW x \in Threads, Read(x) PROVE ThreadTypes'
  <2>1. CASE run.status = "cancelled"
    BY <2>1, <1>12 DEF Read, Goto, ThreadTypes
  <2>2. CASE run.status # "cancelled"
    <3>1. run.version \in Nat
      BY DEF RunTypes
    <3>2. /\ seen' = [seen EXCEPT ![x] = run.version] /\ goal' = [goal EXCEPT ![x] = Concluded]
          /\ pc' = [pc EXCEPT ![x] = "write"] /\ UNCHANGED <<todo, ready, back>>
      BY <2>2, <1>12 DEF Read, Goto
    <3> QED
      BY <3>1, <3>2, ConcludedType DEF ThreadTypes, Working
  <2> QED
    BY <2>1, <2>2
<1>13. ASSUME NEW x \in Threads, Write(x) PROVE ThreadTypes'
  BY <1>13, Kinds DEF Write, Goto, memVars, Working, Idle, ThreadTypes, Forget, RunStatuses, Phases, Ended
<1>14. ASSUME NEW x \in Executors, NEW t \in Tasks, Check(x, t) PROVE ThreadTypes'
  BY <1>14 DEF Check, ThreadTypes, memVars
<1>15. ASSUME NEW x \in Executors, NEW t \in Tasks, SpawnRefused(x, t) PROVE ThreadTypes'
  BY <1>15 DEF SpawnRefused, ThreadTypes, memVars
<1>16. ASSUME NEW x \in Executors, NEW t \in Tasks, Spawned(x, t) PROVE ThreadTypes'
  BY <1>16 DEF Spawned, ThreadTypes, memVars
<1>17. ASSUME NEW x \in Executors, NEW t \in Tasks, ChildEnds(x, t) PROVE ThreadTypes'
  BY <1>17 DEF ChildEnds, ThreadTypes, memVars
<1>18. ASSUME NEW x \in Executors, NEW t \in Tasks, Persist(x, t) PROVE ThreadTypes'
  BY <1>18 DEF Persist, ThreadTypes, memVars
<1>19. ASSUME NEW x \in Retriers, Retry(x) PROVE ThreadTypes'
  BY <1>19, Kinds DEF Retry, Goto, memVars, Working, Idle, ThreadTypes, RequestRetry
<1>20. ASSUME NEW x \in Retriers, Resume(x) PROVE ThreadTypes'
  BY <1>20, Kinds DEF Resume, Goto, memVars, Working, Idle, ThreadTypes, RequestRetry
<1>21. ASSUME NEW x \in Retriers, Replace(x) PROVE ThreadTypes'
  BY <1>21, Kinds DEF Replace, Goto, memVars, Working, Idle, ThreadTypes
<1>22. ASSUME NEW x \in Retriers, ListTasks(x) PROVE ThreadTypes'
  BY <1>22, Kinds DEF ListTasks, Goto, memVars, Working, Idle, ThreadTypes, CallReconcile, BlockedTasks, ReadyTasks, Queued
<1>23. ASSUME NEW x \in Retriers, FailBlocked(x) PROVE ThreadTypes'
  BY <1>23, Kinds DEF FailBlocked, Goto, memVars, Working, Idle, ThreadTypes
<1>24. ASSUME NEW x \in Retriers, Wave(x) PROVE ThreadTypes'
  BY <1>24, Kinds DEF Wave, Goto, memVars, Working, Idle, ThreadTypes
<1>25. ASSUME NEW x \in Retriers, WaveDone(x) PROVE ThreadTypes'
  BY <1>25, Kinds DEF WaveDone, Goto, memVars, Working, Idle, ThreadTypes
<1>26. ASSUME NEW x \in Reviewers, Integrate(x) PROVE ThreadTypes'
  BY <1>26, Kinds DEF Integrate, Goto, memVars, Working, Idle, ThreadTypes, RunTypes, Effective, Reviewable
<1>27. ASSUME NEW x \in Reviewers, StartIntegration(x) PROVE ThreadTypes'
  BY <1>27, Kinds DEF StartIntegration, Goto, memVars, Working, Idle, ThreadTypes
<1>28. ASSUME NEW x \in Reviewers, ResolveRaises(x) PROVE ThreadTypes'
  BY <1>28, Kinds DEF ResolveRaises, Goto, memVars, Working, Idle, ThreadTypes
<1>29. ASSUME NEW x \in Reviewers, ResolveViolation(x) PROVE ThreadTypes'
  BY <1>29, Kinds DEF ResolveViolation, Goto, memVars, Working, Idle, ThreadTypes
<1>30. ASSUME NEW x \in Reviewers, Resolve(x) PROVE ThreadTypes'
  BY <1>30, Kinds DEF Resolve, Goto, memVars, Working, Idle, ThreadTypes, CallReconcile
<1>31. ASSUME NEW x \in Reviewers, Settle(x) PROVE ThreadTypes'
  BY <1>31, Kinds DEF Settle, Goto, memVars, Working, Idle, ThreadTypes
<1>32. ASSUME NEW x \in Reviewers, Resolved(x) PROVE ThreadTypes'
  BY <1>32, Kinds DEF Resolved, Goto, memVars, Working, Idle, ThreadTypes, CallReconcile
<1>33. ASSUME NEW x \in Reviewers, StartVerification(x) PROVE ThreadTypes'
  BY <1>33, Kinds DEF StartVerification, Goto, memVars, Working, Idle, ThreadTypes, RunTypes
<1>34. ASSUME NEW x \in Reviewers, Verify(x) PROVE ThreadTypes'
  BY <1>34, Kinds DEF Verify, Goto, memVars, Working, Idle, ThreadTypes, RunTypes
<1>35. ASSUME NEW x \in Reviewers, SkipVerification(x) PROVE ThreadTypes'
  BY <1>35, Kinds DEF SkipVerification, Goto, memVars, Working, Idle, ThreadTypes, Forget, RunStatuses, Phases, Ended
<1>36. ASSUME NEW x \in Reviewers, RunVerification(x) PROVE ThreadTypes'
  BY <1>36, Kinds DEF RunVerification, Goto, memVars, Working, Idle, ThreadTypes, Forget, RunStatuses, Phases, Ended
<1>37. ASSUME NEW x \in Reviewers, Verified(x) PROVE ThreadTypes'
  BY <1>37, Kinds DEF Verified, Goto, memVars, Working, Idle, ThreadTypes
<1>38. ASSUME CancelRun PROVE ThreadTypes'
  BY <1>38, Kinds DEF CancelRun, Goto, memVars, Working, Idle, ThreadTypes, RunTypes
<1>39. ASSUME CancelListed PROVE ThreadTypes'
  <2>1. UNCHANGED <<seen, goal, ready, back>>
    BY <1>39 DEF CancelListed
  <2>2. CASE todo["loop"] = {}
    BY <2>1, <2>2, <1>39 DEF CancelListed, Goto, ThreadTypes, Working
  <2>3. CASE todo["loop"] # {}
    <3>1. PICK t \in todo["loop"] : todo' = [todo EXCEPT !["loop"] = @ \ {t}] /\ UNCHANGED pc
      BY <2>3, <1>39 DEF CancelListed
    <3> QED
      BY <2>1, <3>1, Kinds DEF ThreadTypes
  <2> QED
    BY <2>2, <2>3
<1>40. ASSUME CancelEnds PROVE ThreadTypes'
  BY <1>40, Kinds DEF CancelEnds, Goto, memVars, Working, Idle, ThreadTypes, Forget, RunStatuses, Phases, Ended
<1>41. ASSUME NEW t \in Tasks, CancelTask(t) PROVE ThreadTypes'
  BY <1>41, Kinds DEF CancelTask, Goto, memVars, Working, Idle, ThreadTypes, CallReconcile
<1>42. ASSUME CancelParent PROVE ThreadTypes'
  BY <1>42 DEF CancelParent, ThreadTypes, memVars
<1>43. ASSUME Restart PROVE ThreadTypes'
  BY <1>43, Kinds DEF Restart, Goto, memVars, Working, Idle, ThreadTypes
<1>44. CASE UNCHANGED vars
  BY <1>44 DEF vars, ThreadTypes, memVars
<1> QED
  BY Kinds, <1>1, <1>2, <1>3, <1>4, <1>5, <1>6, <1>7, <1>8, <1>9, <1>10, <1>11,
     <1>12, <1>13, <1>14, <1>15, <1>16, <1>17, <1>18, <1>19, <1>20, <1>21, <1>22,
     <1>23, <1>24, <1>25, <1>26, <1>27, <1>28, <1>29, <1>30, <1>31, <1>32, <1>33,
     <1>34, <1>35, <1>36, <1>37, <1>38, <1>39, <1>40, <1>41, <1>42, <1>43, <1>44
  DEF Next, Batch, Reconcile, EventLoop, Requests, Scheduler, Review, Execute

-----------------------------------------------------------------------------
(* The row of the run and its facts.                                       *)

Facts == RunTypes /\ FactsTellTheEnd

LEMMA TransitionKeeps ==
  ASSUME Facts, NEW s \in RunStatuses, NEW p \in Phases,
         s \notin Ended \/ p = "recovery_required", Transition(s, p)
  PROVE  Facts'
<1>1. /\ run' = [run EXCEPT !.status = s, !.phase = p, !.version = @ + 1]
      /\ facts' = facts
  BY DEF Transition
<1>2. run'.version = run.version + 1 /\ run'.status = s /\ run'.phase = p /\ run'.verified = run.verified
  BY <1>1 DEF Facts, RunTypes
<1>3. RunTypes'
  <2>1. run' = [status |-> s, phase |-> p, version |-> run.version + 1, verified |-> run.verified]
    BY <1>1 DEF Facts, RunTypes
  <2>2. run.version + 1 \in Nat /\ run.verified \in {"none", "passed", "failed", "skipped"}
    BY DEF Facts, RunTypes
  <2> QED
    BY <1>1, <2>1, <2>2 DEF Facts, RunTypes
<1>4. \A f \in facts : f.version \in Nat /\ f.version # run'.version /\ f.version <= run'.version
  BY <1>2 DEF Facts, RunTypes, FactsTellTheEnd
<1> QED
  BY <1>1, <1>2, <1>3, <1>4 DEF Facts, FactsTellTheEnd

LEMMA FinalizeKeeps ==
  ASSUME Facts, NEW v, NEW s \in Ended, NEW p \in Phases,
         NEW verdict \in {"none", "passed", "failed", "skipped"}, Finalize(v, s, p, verdict)
  PROVE  Facts'
<1>1. CASE ~CanFinalize(v)
  BY <1>1 DEF Finalize, Facts, RunTypes, FactsTellTheEnd
<1>2. CASE CanFinalize(v)
  <2>1. v = run.version /\ v \in Nat
    BY <1>2 DEF CanFinalize, Facts, RunTypes
  <2>2. /\ run' = [status |-> s, phase |-> p, version |-> v + 1, verified |-> verdict]
        /\ facts' = facts \cup {[version |-> v + 1, status |-> s]}
    BY <1>2 DEF Finalize
  <2>3. RunTypes'
    BY <2>1, <2>2 DEF Facts, RunTypes, RunStatuses
  <2>4. \A f \in facts : f.version \in Nat /\ f.version <= v
    BY <2>1 DEF Facts, RunTypes, FactsTellTheEnd
  <2>5. \A f \in facts' : f.version <= v + 1 /\ (f.version = v + 1 => f = [version |-> v + 1, status |-> s])
    BY <2>1, <2>2, <2>4
  <2>6. \A f, g \in facts' : f.version = g.version => f = g
    BY <2>1, <2>2, <2>4 DEF Facts, FactsTellTheEnd
  <2> QED
    BY <2>2, <2>3, <2>5, <2>6 DEF Facts, FactsTellTheEnd
<1> QED
  BY <1>1, <1>2

LEMMA ConcludeKeeps ==
  ASSUME Facts, NEW v, NEW d \in [status : RunStatuses, phase : Phases],
         Conclude(v, d)
  PROVE  Facts'
<1>1. run.verified \in {"none", "passed", "failed", "skipped"}
  BY DEF Facts, RunTypes
<1>2. CASE d.status \in Ended
  BY <1>1, <1>2, FinalizeKeeps DEF Conclude
<1>3. CASE d.status \notin Ended /\ run.version = v
  BY <1>3, TransitionKeeps DEF Conclude
<1>4. CASE d.status \notin Ended /\ run.version # v
  BY <1>4 DEF Conclude, Facts, RunTypes, FactsTellTheEnd
<1> QED
  BY <1>2, <1>3, <1>4

LEMMA FactsStep ==
  ASSUME Facts, ThreadTypes, BatchInOrder, [Next]_vars
  PROVE  Facts'
<1>1. ASSUME CreateRun PROVE Facts'
  BY <1>1, Kinds DEF CreateRun, Facts, RunTypes, RunStatuses, FactsTellTheEnd, Ended
<1>2. ASSUME CreateTask PROVE Facts'
  BY <1>2 DEF CreateTask, Facts, RunTypes, FactsTellTheEnd
<1>3. ASSUME CreateRaises PROVE Facts'
  BY <1>3 DEF CreateRaises, Facts, RunTypes, FactsTellTheEnd
<1>4. ASSUME BatchWave PROVE Facts'
  BY <1>4 DEF BatchWave, Facts, RunTypes, FactsTellTheEnd
<1>5. ASSUME BatchThrough PROVE Facts'
  BY <1>5 DEF BatchThrough, Facts, RunTypes, FactsTellTheEnd
<1>6. ASSUME BatchCancels PROVE Facts'
  BY <1>6 DEF BatchCancels, Rescue, Facts, RunTypes, FactsTellTheEnd
<1>7. ASSUME BatchRaises PROVE Facts'
  BY <1>7 DEF BatchRaises, Rescue, Facts, RunTypes, FactsTellTheEnd
<1>8. ASSUME BatchFinalizes PROVE Facts'
  <2>1. /\ run.verified \in {"none", "passed", "failed", "skipped"}
        /\ goal["batch"].status \in Ended /\ goal["batch"].phase \in Phases
    BY <1>8, Kinds DEF Facts, RunTypes, BatchFinalizes, BatchInOrder, ThreadTypes
  <2>2. Finalize(seen["batch"], goal["batch"].status, goal["batch"].phase, run.verified)
    BY <1>8 DEF BatchFinalizes
  <2> QED
    BY <2>1, <2>2, FinalizeKeeps
<1>9. ASSUME BatchSynthesizes PROVE Facts'
  BY <1>9, Kinds, TransitionKeeps DEF BatchSynthesizes, Facts, RunTypes, RunStatuses, Phases, Ended, FactsTellTheEnd
<1>10. ASSUME NEW n \in Names, BatchCancelled(n) PROVE Facts'
  BY <1>10 DEF BatchCancelled, GiveUp, Facts, RunTypes, FactsTellTheEnd
<1>11. ASSUME NEW n \in Names, BatchBlocked(n) PROVE Facts'
  BY <1>11 DEF BatchBlocked, GiveUp, Facts, RunTypes, FactsTellTheEnd
<1>12. ASSUME NEW x \in Threads, Read(x) PROVE Facts'
  BY <1>12 DEF Read, Facts, RunTypes, FactsTellTheEnd
<1>13. ASSUME NEW x \in Threads, Write(x) PROVE Facts'
  BY <1>13, Kinds, ConcludeKeeps DEF Write, Facts, ThreadTypes
<1>14. ASSUME NEW x \in Executors, NEW t \in Tasks, Check(x, t) PROVE Facts'
  BY <1>14 DEF Check, Facts, RunTypes, FactsTellTheEnd
<1>15. ASSUME NEW x \in Executors, NEW t \in Tasks, SpawnRefused(x, t) PROVE Facts'
  BY <1>15 DEF SpawnRefused, Facts, RunTypes, FactsTellTheEnd
<1>16. ASSUME NEW x \in Executors, NEW t \in Tasks, Spawned(x, t) PROVE Facts'
  BY <1>16 DEF Spawned, Facts, RunTypes, FactsTellTheEnd
<1>17. ASSUME NEW x \in Executors, NEW t \in Tasks, ChildEnds(x, t) PROVE Facts'
  BY <1>17 DEF ChildEnds, Facts, RunTypes, FactsTellTheEnd
<1>18. ASSUME NEW x \in Executors, NEW t \in Tasks, Persist(x, t) PROVE Facts'
  BY <1>18 DEF Persist, Facts, RunTypes, FactsTellTheEnd
<1>19. ASSUME NEW x \in Retriers, Retry(x) PROVE Facts'
  BY <1>19 DEF Retry, RequestRetry, Facts, RunTypes, FactsTellTheEnd
<1>20. ASSUME NEW x \in Retriers, Resume(x) PROVE Facts'
  BY <1>20 DEF Resume, RequestRetry, Facts, RunTypes, FactsTellTheEnd
<1>21. ASSUME NEW x \in Retriers, Replace(x) PROVE Facts'
  BY <1>21, Kinds DEF Replace, Facts, Supersede, RunTypes, FactsTellTheEnd, RunStatuses, Phases, Ended
<1>22. ASSUME NEW x \in Retriers, ListTasks(x) PROVE Facts'
  BY <1>22 DEF ListTasks, Facts, RunTypes, FactsTellTheEnd
<1>23. ASSUME NEW x \in Retriers, FailBlocked(x) PROVE Facts'
  BY <1>23 DEF FailBlocked, Facts, RunTypes, FactsTellTheEnd
<1>24. ASSUME NEW x \in Retriers, Wave(x) PROVE Facts'
  BY <1>24 DEF Wave, Facts, RunTypes, FactsTellTheEnd
<1>25. ASSUME NEW x \in Retriers, WaveDone(x) PROVE Facts'
  BY <1>25 DEF WaveDone, Facts, RunTypes, FactsTellTheEnd
<1>26. ASSUME NEW x \in Reviewers, Integrate(x) PROVE Facts'
  BY <1>26 DEF Integrate, Facts, RunTypes, FactsTellTheEnd
<1>27. ASSUME NEW x \in Reviewers, StartIntegration(x) PROVE Facts'
  BY <1>27, Kinds, TransitionKeeps DEF StartIntegration, Facts, RunTypes, RunStatuses, Phases, Ended, FactsTellTheEnd
<1>28. ASSUME NEW x \in Reviewers, ResolveRaises(x) PROVE Facts'
  BY <1>28 DEF ResolveRaises, Facts, RunTypes, FactsTellTheEnd
<1>29. ASSUME NEW x \in Reviewers, ResolveViolation(x) PROVE Facts'
  BY <1>29 DEF ResolveViolation, Facts, RunTypes, FactsTellTheEnd
<1>30. ASSUME NEW x \in Reviewers, Resolve(x) PROVE Facts'
  BY <1>30 DEF Resolve, Facts, RunTypes, FactsTellTheEnd
<1>31. ASSUME NEW x \in Reviewers, Settle(x) PROVE Facts'
  <2>1. run.verified \in {"none", "passed", "failed", "skipped"}
    BY DEF Facts, RunTypes
  <2>2. Finalize(run.version, "partial", "integration_failed", "none")
    BY <1>31 DEF Settle
  <2> QED
    BY <2>1, <2>2, FinalizeKeeps DEF Ended, Phases
<1>32. ASSUME NEW x \in Reviewers, Resolved(x) PROVE Facts'
  BY <1>32 DEF Resolved, Facts, RunTypes, FactsTellTheEnd
<1>33. ASSUME NEW x \in Reviewers, StartVerification(x) PROVE Facts'
  BY <1>33 DEF StartVerification, Facts, RunTypes, FactsTellTheEnd
<1>34. ASSUME NEW x \in Reviewers, Verify(x) PROVE Facts'
  BY <1>34 DEF Verify, Facts, RunTypes, FactsTellTheEnd
<1>35. ASSUME NEW x \in Reviewers, SkipVerification(x) PROVE Facts'
  <2>1. run.verified \in {"none", "passed", "failed", "skipped"}
    BY DEF Facts, RunTypes
  <2>2. Finalize(seen[x], "completed", "completed", "skipped")
    BY <1>35 DEF SkipVerification
  <2> QED
    BY <2>1, <2>2, FinalizeKeeps DEF Ended, Phases
<1>36. ASSUME NEW x \in Reviewers, RunVerification(x) PROVE Facts'
  BY <1>36, Kinds, TransitionKeeps DEF RunVerification, Facts, RunTypes, RunStatuses, Phases, Ended, FactsTellTheEnd
<1>37. ASSUME NEW x \in Reviewers, Verified(x) PROVE Facts'
  <2>1. CASE Finalize(run.version, "completed", "completed", "passed")
    BY <2>1, FinalizeKeeps DEF Ended, Phases
  <2>2. CASE Finalize(run.version, "partial", "verification_failed", "failed")
    BY <2>2, FinalizeKeeps DEF Ended, Phases
  <2> QED
    BY <1>37, <2>1, <2>2 DEF Verified
<1>38. ASSUME CancelRun PROVE Facts'
  BY <1>38 DEF CancelRun, Facts, RunTypes, FactsTellTheEnd
<1>39. ASSUME CancelListed PROVE Facts'
  BY <1>39 DEF CancelListed, Facts, RunTypes, FactsTellTheEnd
<1>40. ASSUME CancelEnds PROVE Facts'
  <2>1. run.verified \in {"none", "passed", "failed", "skipped"}
    BY DEF Facts, RunTypes
  <2>2. Finalize(seen["loop"], "cancelled", "cancelled", run.verified)
    BY <1>40 DEF CancelEnds
  <2> QED
    BY <2>1, <2>2, FinalizeKeeps DEF Ended, Phases
<1>41. ASSUME NEW t \in Tasks, CancelTask(t) PROVE Facts'
  BY <1>41 DEF CancelTask, Facts, RunTypes, FactsTellTheEnd
<1>42. ASSUME CancelParent PROVE Facts'
  BY <1>42 DEF CancelParent, Facts, RunTypes, FactsTellTheEnd
<1>43. ASSUME Restart PROVE Facts'
  BY <1>43, Kinds, ConcludeKeeps, TransitionKeeps, ConcludedType DEF Restart, Facts, RunTypes, RunStatuses, Phases, Ended, FactsTellTheEnd
<1>44. CASE UNCHANGED vars
  BY <1>44 DEF vars, Facts, RunTypes, FactsTellTheEnd
<1> QED
  BY Kinds, <1>1, <1>2, <1>3, <1>4, <1>5, <1>6, <1>7, <1>8, <1>9, <1>10, <1>11,
     <1>12, <1>13, <1>14, <1>15, <1>16, <1>17, <1>18, <1>19, <1>20, <1>21, <1>22,
     <1>23, <1>24, <1>25, <1>26, <1>27, <1>28, <1>29, <1>30, <1>31, <1>32, <1>33,
     <1>34, <1>35, <1>36, <1>37, <1>38, <1>39, <1>40, <1>41, <1>42, <1>43, <1>44
  DEF Next, Batch, Reconcile, EventLoop, Requests, Scheduler, Review, Execute

-----------------------------------------------------------------------------
(* What a step may do to the tasks.                                        *)

Reviews == {"none", "pending", "applied", "retained", "discarded", "conflict"}
Moves ==
  /\ \A t \in Tasks : status[t] # "absent" => status'[t] # "absent" /\ deps'[t] = deps[t]
  /\ \A t \in Tasks : Started(t) => Started(t)'
  /\ \A t \in Tasks : status'[t] \in Success => t \in successes'
  /\ successes \subseteq successes'
  /\ \A n \in Names : status[First(n)] = "absent" /\ status'[First(n)] # "absent" =>
       deps'[First(n)] = {First(d) : d \in Dep[n]}
  /\ TaskTypes'

LEMMA StaysPut ==
  ASSUME TaskTypes, SuccessEarned, successes \subseteq successes',
         UNCHANGED <<status, deps>>, review' \in [Tasks -> Reviews]
  PROVE  Moves
BY FirstIsTask DEF Moves, TaskTypes, SuccessEarned, Started, Reviews

LEMMA SetStatus ==
  ASSUME TaskTypes, SuccessEarned, NEW t \in Tasks, NEW s \in Statuses \ {"absent", "queued"},
         status[t] # "absent", s \in Success => t \in successes', successes \subseteq successes',
         status' = WithStatus(t, s), UNCHANGED deps, review' \in [Tasks -> Reviews]
  PROVE  Moves
<1>1. \A u \in Tasks : status'[u] = IF u = t THEN s ELSE status[u]
  BY DEF WithStatus, TaskTypes
<1>2. status' \in [Tasks -> Statuses]
  BY DEF WithStatus, TaskTypes
<1> QED
  BY <1>1, <1>2, FirstIsTask DEF Moves, TaskTypes, SuccessEarned, Started, Reviews

LEMMA ClaimMoves ==
  ASSUME TaskTypes, SuccessEarned, NEW t \in Tasks, NEW s \in Statuses \ {"absent", "queued"},
         NEW expected \in SUBSET Open, s \in Success => t \in successes', successes \subseteq successes',
         Claim(t, expected, s), UNCHANGED deps, review' \in [Tasks -> Reviews]
  PROVE  Moves
<1>1. CASE status[t] \in expected
  BY <1>1, SetStatus DEF Claim, Open
<1>2. CASE status[t] \notin expected
  BY <1>2, StaysPut DEF Claim
<1> QED
  BY <1>1, <1>2

LEMMA StatusNames ==
  /\ Open \subseteq Statuses /\ Settled \subseteq Statuses \ {"absent", "queued"}
  /\ "running" \in Statuses /\ "failed" \in Settled /\ "cancelled" \in Settled
  /\ "failed" \notin Success /\ "cancelled" \notin Success /\ "running" \notin Success
  /\ Outcomes \cup {"failed"} \subseteq Settled
  /\ "queued" \in Open /\ "running" \in Open
BY DelegationAssumption DEF Statuses, Settled, Success, Retryable, Open

(* The tasks a retry replaces, and what takes their place. *)
LEMMA AffectedEffective ==
  ASSUME NEW seeds \in SUBSET Effective
  PROVE  Affected(seeds) \subseteq Effective
BY DEF Affected, Closed

LEMMA ReplacementDeps ==
  ASSUME TaskTypes, NEW affected \in SUBSET Tasks,
         \A t \in affected : t[2] < MaxRetries,
         NEW t \in Replacements(affected)
  PROVE  Substitute(t, affected) \in SUBSET Tasks
<1>1. PICK u \in affected : t = Next1(u)
  BY DEF Replacements
<1>2. PICK n \in Names, g \in 0 .. MaxRetries : u = <<n, g>>
  BY DEF Tasks
<1>3. Before(t) = u
  BY <1>1, <1>2, DelegationAssumption DEF Next1, Before
<1>4. \A d \in deps[u] : d \in Tasks
  BY <1>1 DEF TaskTypes
<1>5. \A d \in affected : Next1(d) \in Tasks
  BY NextIsTask
<1> QED
  BY <1>3, <1>4, <1>5 DEF Substitute

LEMMA MovesStep ==
  ASSUME IInv, [Next]_vars
  PROVE  Moves
<1> USE TypeParts DEF IInv
<1>1. ASSUME CreateRun PROVE Moves
  BY <1>1, StaysPut DEF CreateRun, taskVars, histVars, Request, TaskTypes, Reviews
<1>2. ASSUME CreateTask PROVE Moves
  <2>1. PICK i \in 1 .. Len(Order) :
          /\ i \notin Created
          /\ status' = WithStatus(First(Order[i]), "queued")
          /\ deps' = [deps EXCEPT ![First(Order[i])] = {First(d) : d \in Dep[Order[i]]}]
    BY <1>2 DEF CreateTask
  <2>2. Order[i] \in Names /\ Dep[Order[i]] \subseteq Names
    BY DelegationAssumption
  <2>3. First(Order[i]) \in Tasks /\ status[First(Order[i])] = "absent"
    BY <2>1, <2>2, FirstIsTask DEF Created
  <2>4. {First(d) : d \in Dep[Order[i]]} \in SUBSET Tasks
    BY <2>2, FirstIsTask
  <2>5. \A n \in Names : First(n) \in Tasks /\ (First(n) = First(Order[i]) => n = Order[i])
    <3>1. \A n \in Names : First(n) = First(Order[i]) => n = Order[i]
      BY DEF First
    <3> QED
      BY <3>1, FirstIsTask
  <2>6. /\ status' \in [Tasks -> Statuses] /\ deps' \in [Tasks -> SUBSET Tasks]
        /\ \A t \in Tasks : status'[t] = IF t = First(Order[i]) THEN "queued" ELSE status[t]
        /\ \A t \in Tasks : t # First(Order[i]) => deps'[t] = deps[t]
        /\ deps'[First(Order[i])] = {First(d) : d \in Dep[Order[i]]}
    BY <2>1, <2>3, <2>4, StatusNames DEF TaskTypes, WithStatus
  <2>7. TaskTypes' /\ UNCHANGED successes
    BY <1>2, <2>6 DEF CreateTask, TaskTypes, histVars
  <2> QED
    BY <2>3, <2>5, <2>6, <2>7 DEF Moves, Started, SuccessEarned, Success
<1>3. ASSUME CreateRaises PROVE Moves
  BY <1>3, StaysPut DEF CreateRaises, taskVars, histVars, Request, TaskTypes, Reviews
<1>4. ASSUME BatchWave PROVE Moves
  BY <1>4, StaysPut DEF BatchWave, taskVars, histVars, Request, TaskTypes, Reviews
<1>5. ASSUME BatchThrough PROVE Moves
  BY <1>5, StaysPut DEF BatchThrough, taskVars, histVars, Request, TaskTypes, Reviews
<1>6. ASSUME BatchCancels PROVE Moves
  BY <1>6, StaysPut DEF BatchCancels, Rescue, taskVars, histVars, Request, TaskTypes, Reviews
<1>7. ASSUME BatchRaises PROVE Moves
  BY <1>7, StaysPut DEF BatchRaises, Rescue, taskVars, histVars, Request, TaskTypes, Reviews
<1>8. ASSUME BatchFinalizes PROVE Moves
  BY <1>8, StaysPut DEF BatchFinalizes, taskVars, histVars, Request, TaskTypes, Reviews
<1>9. ASSUME BatchSynthesizes PROVE Moves
  BY <1>9, StaysPut DEF BatchSynthesizes, taskVars, histVars, Request, TaskTypes, Reviews
<1>10. ASSUME NEW n \in Names, BatchCancelled(n) PROVE Moves
  <2>1. First(n) \in Tasks
    BY FirstIsTask
  <2>7. review' \in [Tasks -> Reviews]
    BY <1>10 DEF BatchCancelled, TaskTypes, Reviews, GiveUp
  <2>8. Claim(First(n), Open, "cancelled") /\ successes \subseteq successes' /\ UNCHANGED deps
    BY <1>10 DEF BatchCancelled, histVars, GiveUp
  <2>9. "cancelled" \in Statuses \ {"absent", "queued"}
    BY StatusNames
  <2> QED
    BY <2>1, <2>7, <2>8, <2>9, StatusNames, ClaimMoves
<1>11. ASSUME NEW n \in Names, BatchBlocked(n) PROVE Moves
  <2>1. First(n) \in Tasks
    BY FirstIsTask
  <2>7. review' \in [Tasks -> Reviews]
    BY <1>11 DEF BatchBlocked, TaskTypes, Reviews, GiveUp
  <2>8. Claim(First(n), Open, "failed") /\ successes \subseteq successes' /\ UNCHANGED deps
    BY <1>11 DEF BatchBlocked, histVars, GiveUp
  <2>9. "failed" \in Statuses \ {"absent", "queued"}
    BY StatusNames
  <2> QED
    BY <2>1, <2>7, <2>8, <2>9, StatusNames, ClaimMoves
<1>12. ASSUME NEW x \in Threads, Read(x) PROVE Moves
  BY <1>12, StaysPut DEF Read, taskVars, histVars, Request, TaskTypes, Reviews
<1>13. ASSUME NEW x \in Threads, Write(x) PROVE Moves
  BY <1>13, StaysPut DEF Write, taskVars, histVars, Request, TaskTypes, Reviews
<1>14. ASSUME NEW x \in Executors, NEW t \in Tasks, Check(x, t) PROVE Moves
  BY <1>14, StaysPut DEF Check, taskVars, histVars, Request, TaskTypes, Reviews
<1>15. ASSUME NEW x \in Executors, NEW t \in Tasks, SpawnRefused(x, t) PROVE Moves
  BY <1>15, StaysPut DEF SpawnRefused, taskVars, histVars, Request, TaskTypes, Reviews
<1>16. ASSUME NEW x \in Executors, NEW t \in Tasks, Spawned(x, t) PROVE Moves
  <2>7. review' \in [Tasks -> Reviews]
    BY <1>16 DEF Spawned, TaskTypes, Reviews
  <2>8. Claim(t, {"queued"}, "running") /\ UNCHANGED <<deps, successes>>
    BY <1>16 DEF Spawned, histVars
  <2> QED
    BY <2>7, <2>8, StatusNames, ClaimMoves
<1>17. ASSUME NEW x \in Executors, NEW t \in Tasks, ChildEnds(x, t) PROVE Moves
  <2>1. PICK o \in Outcomes :
          /\ successes' = IF o \in Success THEN successes \cup {t} ELSE successes
          /\ \/ status' = WithStatus(t, o)
             \/ Claim(t, Open, "failed")
             \/ UNCHANGED status
    BY <1>17 DEF ChildEnds
  <2>2. review' \in [Tasks -> Reviews] /\ UNCHANGED deps
    BY <1>17 DEF ChildEnds, TaskTypes, Reviews
  <2>3. status[t] # "absent"
    BY <1>17 DEF ChildEnds, QueueLeft, Started
  <2>4. CASE status' = WithStatus(t, o)
    BY <2>1, <2>2, <2>3, <2>4, StatusNames, SetStatus
  <2>5. CASE Claim(t, Open, "failed")
    BY <2>1, <2>2, <2>5, StatusNames, ClaimMoves
  <2>6. CASE UNCHANGED status
    BY <2>1, <2>2, <2>6, StaysPut
  <2> QED
    BY <2>1, <2>4, <2>5, <2>6
<1>18. ASSUME NEW x \in Executors, NEW t \in Tasks, Persist(x, t) PROVE Moves
  <2>1. review' \in [Tasks -> Reviews]
    BY <1>18 DEF Persist, TaskTypes, Reviews
  <2>2. Claim(t, Reported(x, t), outcome[<<x, t>>]) /\ UNCHANGED <<deps, successes>>
    BY <1>18 DEF Persist, histVars
  <2>3. Reported(x, t) \in SUBSET Open
    BY DEF Reported, Open
  <2>4. outcome[<<x, t>>] \in Settled
    BY StatusNames DEF JobTypes, Jobs
  <2>5. outcome[<<x, t>>] \in Success => t \in successes
    BY DEF SuccessEarned
  <2> QED
    BY <2>1, <2>2, <2>3, <2>4, <2>5, StatusNames, ClaimMoves
<1>19. ASSUME NEW x \in Retriers, Retry(x) PROVE Moves
  BY <1>19, StaysPut DEF Retry, RequestRetry, taskVars, histVars, Request, TaskTypes, Reviews
<1>20. ASSUME NEW x \in Retriers, Resume(x) PROVE Moves
  BY <1>20, StaysPut DEF Resume, RequestRetry, taskVars, histVars, Request, TaskTypes, Reviews
<1>21. ASSUME NEW x \in Retriers, Replace(x) PROVE Moves
  <2>1. CASE UNCHANGED <<status, deps, review>>
    BY <2>1, <1>21, StaysPut DEF Replace, histVars, TaskTypes, Reviews
  <2>2. CASE MayReplace(todo[x], Affected(todo[x])) /\ Supersede(Affected(todo[x]))
    <3> DEFINE affected == Affected(todo[x])
    <3>1. /\ \A t \in Replacements(affected) : t \in Tasks /\ status[t] = "absent" /\ \A n \in Names : t # First(n)
          /\ affected \subseteq Tasks
      BY <2>2, NextIsTask DEF MayReplace, Replaced, Replacements, Affected
    <3>2. affected \subseteq Effective
      BY <2>2, AffectedEffective DEF MayReplace
    <3>3. /\ status' = [t \in Tasks |-> CASE t \in affected -> "superseded"
                                          [] t \in Replacements(affected) -> "queued"
                                          [] OTHER -> status[t]]
          /\ deps' = [t \in Tasks |-> IF t \in Replacements(affected)
                                      THEN Substitute(t, affected) ELSE deps[t]]
          /\ review' = [t \in Tasks |-> IF t \in Replacements(affected) THEN "none" ELSE review[t]]
      BY <2>2 DEF Supersede
    <3>4. \A t \in Replacements(affected) : Substitute(t, affected) \in SUBSET Tasks
      <4>1. \A t \in affected : t[2] < MaxRetries
        BY <2>2 DEF MayReplace
      <4> HIDE DEF affected
      <4> QED
        BY <3>1, <4>1, ReplacementDeps
    <3>5. TaskTypes'
      BY <3>1, <3>3, <3>4 DEF TaskTypes, Statuses, Open, Reviews
    <3>6. \A t \in Tasks : /\ t \in affected => status'[t] = "superseded"
                           /\ t \notin affected /\ t \in Replacements(affected) => status'[t] = "queued"
                           /\ t \notin affected /\ t \notin Replacements(affected) => status'[t] = status[t]
                           /\ t \notin Replacements(affected) => deps'[t] = deps[t]
      <4> HIDE DEF affected
      <4> TAKE t \in Tasks
      <4>1. status'[t] = CASE t \in affected -> "superseded"
                           [] t \in Replacements(affected) -> "queued"
                           [] OTHER -> status[t]
        BY <3>3
      <4>2. \A u \in affected : status[u] # "absent"
        BY <3>2 DEF Effective
      <4>3. t \in affected => t \notin Replacements(affected)
        BY <3>1, <4>2
      <4>4. deps'[t] = IF t \in Replacements(affected) THEN Substitute(t, affected) ELSE deps[t]
        BY <3>3
      <4> QED
        BY <4>1, <4>3, <4>4
    <3>7. \A t \in Tasks : t \in affected => status[t] # "absent"
      BY <3>2 DEF Effective
    <3>8. \A n \in Names : First(n) \in Tasks /\ First(n) \notin Replacements(affected)
      BY <3>1, FirstIsTask
    <3>9. successes' = successes
      BY <1>21 DEF Replace, histVars
    <3> HIDE DEF affected
    <3> QED
      BY <3>1, <3>5, <3>6, <3>7, <3>8, <3>9 DEF Moves, Started, SuccessEarned, Success
  <2> QED
    BY <1>21, <2>1, <2>2 DEF Replace, taskVars
<1>22. ASSUME NEW x \in Retriers, ListTasks(x) PROVE Moves
  BY <1>22, StaysPut DEF ListTasks, taskVars, histVars, Request, TaskTypes, Reviews
<1>23. ASSUME NEW x \in Retriers, FailBlocked(x) PROVE Moves
  <2>1. review' \in [Tasks -> Reviews] /\ UNCHANGED <<deps, successes>>
    BY <1>23 DEF FailBlocked, TaskTypes, Reviews, histVars
  <2>2. CASE UNCHANGED status
    BY <2>1, <2>2, StaysPut
  <2>3. CASE \E t \in todo[x] : Claim(t, {"queued"}, "failed")
    <3>1. PICK t \in todo[x] : Claim(t, {"queued"}, "failed")
      BY <2>3
    <3>2. t \in Tasks
      BY <3>1, Kinds DEF ThreadTypes
    <3> QED
      BY <2>1, <3>1, <3>2, StatusNames, ClaimMoves
  <2> QED
    BY <1>23, <2>2, <2>3 DEF FailBlocked
<1>24. ASSUME NEW x \in Retriers, Wave(x) PROVE Moves
  BY <1>24, StaysPut DEF Wave, taskVars, histVars, Request, TaskTypes, Reviews
<1>25. ASSUME NEW x \in Retriers, WaveDone(x) PROVE Moves
  BY <1>25, StaysPut DEF WaveDone, taskVars, histVars, Request, TaskTypes, Reviews
<1>26. ASSUME NEW x \in Reviewers, Integrate(x) PROVE Moves
  BY <1>26, StaysPut DEF Integrate, taskVars, histVars, Request, TaskTypes, Reviews
<1>27. ASSUME NEW x \in Reviewers, StartIntegration(x) PROVE Moves
  BY <1>27, StaysPut DEF StartIntegration, taskVars, histVars, Request, TaskTypes, Reviews
<1>28. ASSUME NEW x \in Reviewers, ResolveRaises(x) PROVE Moves
  BY <1>28, StaysPut DEF ResolveRaises, taskVars, histVars, Request, TaskTypes, Reviews
<1>29. ASSUME NEW x \in Reviewers, ResolveViolation(x) PROVE Moves
  <2>1. PICK t \in todo[x] : /\ Available(x, t)
                             /\ review' = [review EXCEPT ![t] = "conflict"]
                             /\ status' = WithStatus(t, listed[x][t])
    BY <1>29 DEF ResolveViolation
  <2>2. t \in Tasks
    BY Kinds DEF ThreadTypes
  <2>3. review' \in [Tasks -> Reviews]
    BY <2>1, <2>2 DEF TaskTypes, Reviews
  <2>4. UNCHANGED <<deps, successes>>
    BY <1>29 DEF ResolveViolation, histVars
  <2>5. listed[x][t] \in Statuses \ {"absent", "queued"}
    BY <2>1, <2>2 DEF Available, JobTypes, QueueLeft
  <2>6. status[t] # "absent"
    BY <2>1, <2>2 DEF Available, QueueLeft, Started
  <2>7. listed[x][t] \in Success => t \in successes
    BY <2>2 DEF SuccessEarned
  <2> QED
    BY <2>1, <2>2, <2>3, <2>4, <2>5, <2>6, <2>7, SetStatus
<1>30. ASSUME NEW x \in Reviewers, Resolve(x) PROVE Moves
  <2>1. review' \in [Tasks -> Reviews] /\ UNCHANGED <<status, deps, successes>>
    BY <1>30, Kinds DEF Resolve, TaskTypes, Reviews, histVars, ThreadTypes
  <2> QED
    BY <2>1, StaysPut
<1>31. ASSUME NEW x \in Reviewers, Settle(x) PROVE Moves
  BY <1>31, StaysPut DEF Settle, taskVars, histVars, Request, TaskTypes, Reviews
<1>32. ASSUME NEW x \in Reviewers, Resolved(x) PROVE Moves
  BY <1>32, StaysPut DEF Resolved, taskVars, histVars, Request, TaskTypes, Reviews
<1>33. ASSUME NEW x \in Reviewers, StartVerification(x) PROVE Moves
  BY <1>33, StaysPut DEF StartVerification, taskVars, histVars, Request, TaskTypes, Reviews
<1>34. ASSUME NEW x \in Reviewers, Verify(x) PROVE Moves
  BY <1>34, StaysPut DEF Verify, taskVars, histVars, Request, TaskTypes, Reviews
<1>35. ASSUME NEW x \in Reviewers, SkipVerification(x) PROVE Moves
  BY <1>35, StaysPut DEF SkipVerification, taskVars, histVars, Request, TaskTypes, Reviews
<1>36. ASSUME NEW x \in Reviewers, RunVerification(x) PROVE Moves
  BY <1>36, StaysPut DEF RunVerification, taskVars, histVars, Request, TaskTypes, Reviews
<1>37. ASSUME NEW x \in Reviewers, Verified(x) PROVE Moves
  BY <1>37, StaysPut DEF Verified, taskVars, histVars, Request, TaskTypes, Reviews
<1>38. ASSUME CancelRun PROVE Moves
  BY <1>38, StaysPut DEF CancelRun, taskVars, histVars, Request, TaskTypes, Reviews
<1>39. ASSUME CancelListed PROVE Moves
  <2>1. review' \in [Tasks -> Reviews] /\ UNCHANGED <<deps, successes>>
    BY <1>39 DEF CancelListed, TaskTypes, Reviews, histVars
  <2>2. CASE UNCHANGED status
    BY <2>1, <2>2, StaysPut
  <2>3. CASE \E t \in todo["loop"] : Claim(t, Open, "cancelled")
    <3>1. PICK t \in todo["loop"] : Claim(t, Open, "cancelled")
      BY <2>3
    <3>2. t \in Tasks
      BY <3>1, Kinds DEF ThreadTypes
    <3> QED
      BY <2>1, <3>1, <3>2, StatusNames, ClaimMoves
  <2> QED
    BY <1>39, <2>2, <2>3 DEF CancelListed
<1>40. ASSUME CancelEnds PROVE Moves
  BY <1>40, StaysPut DEF CancelEnds, taskVars, histVars, Request, TaskTypes, Reviews
<1>41. ASSUME NEW t \in Tasks, CancelTask(t) PROVE Moves
  <2>1. review' \in [Tasks -> Reviews] /\ UNCHANGED <<deps, successes>>
    BY <1>41 DEF CancelTask, TaskTypes, Reviews, Request
  <2>2. status' = WithStatus(t, "cancelled") /\ status[t] # "absent"
    BY <1>41 DEF CancelTask
  <2> QED
    BY <2>1, <2>2, StatusNames, SetStatus
<1>42. ASSUME CancelParent PROVE Moves
  BY <1>42, StaysPut DEF CancelParent, taskVars, histVars, Request, TaskTypes, Reviews
<1>43. ASSUME Restart PROVE Moves
  <2>1. review' \in [Tasks -> Reviews] /\ UNCHANGED <<deps, successes>>
    BY <1>43 DEF Restart, TaskTypes, Reviews, Request
  <2>2. CASE UNCHANGED status
    BY <2>1, <2>2, StaysPut
  <2>3. CASE status' = [t \in Tasks |-> IF t \in Interrupted THEN "interrupted" ELSE status[t]]
    <3>1. TaskTypes'
      BY <2>1, <2>3 DEF TaskTypes, Statuses, Settled, Retryable, Reviews
    <3>2. \A t \in Tasks : status'[t] = IF t \in Interrupted THEN "interrupted" ELSE status[t]
      BY <2>3
    <3> QED
      BY <2>1, <3>1, <3>2, FirstIsTask DEF Moves, Started, SuccessEarned, Success, Interrupted, Open
  <2> QED
    BY <1>43, <2>2, <2>3 DEF Restart
<1>44. CASE UNCHANGED vars
  BY <1>44, StaysPut DEF vars, taskVars, histVars, TaskTypes, Reviews
<1> QED
  BY Kinds, <1>1, <1>2, <1>3, <1>4, <1>5, <1>6, <1>7, <1>8, <1>9, <1>10, <1>11,
     <1>12, <1>13, <1>14, <1>15, <1>16, <1>17, <1>18, <1>19, <1>20, <1>21, <1>22,
     <1>23, <1>24, <1>25, <1>26, <1>27, <1>28, <1>29, <1>30, <1>31, <1>32, <1>33,
     <1>34, <1>35, <1>36, <1>37, <1>38, <1>39, <1>40, <1>41, <1>42, <1>43, <1>44
  DEF Next, Batch, Reconcile, EventLoop, Requests, Scheduler, Review, Execute

-----------------------------------------------------------------------------
(* The order of the batch, and the variables of the environment.           *)

LEMMA EnvStep ==
  ASSUME EnvTypes, [Next]_vars
  PROVE  EnvTypes'
<1>1. ASSUME CreateRun PROVE EnvTypes'
  BY <1>1 DEF CreateRun, EnvTypes, envVars, histVars
<1>2. ASSUME CreateTask PROVE EnvTypes'
  BY <1>2 DEF CreateTask, EnvTypes, envVars, histVars
<1>3. ASSUME CreateRaises PROVE EnvTypes'
  BY <1>3 DEF CreateRaises, EnvTypes, envVars, histVars
<1>4. ASSUME BatchWave PROVE EnvTypes'
  BY <1>4 DEF BatchWave, EnvTypes, envVars, histVars
<1>5. ASSUME BatchThrough PROVE EnvTypes'
  BY <1>5 DEF BatchThrough, EnvTypes, envVars, histVars
<1>6. ASSUME BatchCancels PROVE EnvTypes'
  BY <1>6 DEF BatchCancels, Rescue, EnvTypes, envVars, histVars
<1>7. ASSUME BatchRaises PROVE EnvTypes'
  BY <1>7 DEF BatchRaises, Rescue, EnvTypes, envVars, histVars
<1>8. ASSUME BatchFinalizes PROVE EnvTypes'
  BY <1>8 DEF BatchFinalizes, EnvTypes, envVars, histVars
<1>9. ASSUME BatchSynthesizes PROVE EnvTypes'
  BY <1>9 DEF BatchSynthesizes, EnvTypes, envVars, histVars
<1>10. ASSUME NEW n \in Names, BatchCancelled(n) PROVE EnvTypes'
  BY <1>10 DEF BatchCancelled, GiveUp, EnvTypes, envVars, histVars
<1>11. ASSUME NEW n \in Names, BatchBlocked(n) PROVE EnvTypes'
  BY <1>11 DEF BatchBlocked, GiveUp, EnvTypes, envVars, histVars
<1>12. ASSUME NEW x \in Threads, Read(x) PROVE EnvTypes'
  BY <1>12 DEF Read, EnvTypes, envVars, histVars
<1>13. ASSUME NEW x \in Threads, Write(x) PROVE EnvTypes'
  BY <1>13 DEF Write, EnvTypes, envVars, histVars
<1>14. ASSUME NEW x \in Executors, NEW t \in Tasks, Check(x, t) PROVE EnvTypes'
  BY <1>14 DEF Check, EnvTypes, envVars, histVars
<1>15. ASSUME NEW x \in Executors, NEW t \in Tasks, SpawnRefused(x, t) PROVE EnvTypes'
  BY <1>15 DEF SpawnRefused, EnvTypes, envVars, histVars
<1>16. ASSUME NEW x \in Executors, NEW t \in Tasks, Spawned(x, t) PROVE EnvTypes'
  BY <1>16 DEF Spawned, EnvTypes, envVars, histVars
<1>17. ASSUME NEW x \in Executors, NEW t \in Tasks, ChildEnds(x, t) PROVE EnvTypes'
  BY <1>17, DelegationAssumption DEF ChildEnds, EnvTypes
<1>18. ASSUME NEW x \in Executors, NEW t \in Tasks, Persist(x, t) PROVE EnvTypes'
  BY <1>18 DEF Persist, EnvTypes, envVars, histVars
<1>19. ASSUME NEW x \in Retriers, Retry(x) PROVE EnvTypes'
  BY <1>19 DEF Retry, RequestRetry, Request, EnvTypes, envVars, histVars
<1>20. ASSUME NEW x \in Retriers, Resume(x) PROVE EnvTypes'
  BY <1>20 DEF Resume, RequestRetry, Request, EnvTypes, envVars, histVars
<1>21. ASSUME NEW x \in Retriers, Replace(x) PROVE EnvTypes'
  BY <1>21 DEF Replace, EnvTypes, envVars, histVars
<1>22. ASSUME NEW x \in Retriers, ListTasks(x) PROVE EnvTypes'
  BY <1>22 DEF ListTasks, EnvTypes, envVars, histVars
<1>23. ASSUME NEW x \in Retriers, FailBlocked(x) PROVE EnvTypes'
  BY <1>23 DEF FailBlocked, EnvTypes, envVars, histVars
<1>24. ASSUME NEW x \in Retriers, Wave(x) PROVE EnvTypes'
  BY <1>24 DEF Wave, EnvTypes, envVars, histVars
<1>25. ASSUME NEW x \in Retriers, WaveDone(x) PROVE EnvTypes'
  BY <1>25 DEF WaveDone, EnvTypes, envVars, histVars
<1>26. ASSUME NEW x \in Reviewers, Integrate(x) PROVE EnvTypes'
  BY <1>26 DEF Integrate, Request, EnvTypes, envVars, histVars
<1>27. ASSUME NEW x \in Reviewers, StartIntegration(x) PROVE EnvTypes'
  BY <1>27 DEF StartIntegration, EnvTypes, envVars, histVars
<1>28. ASSUME NEW x \in Reviewers, ResolveRaises(x) PROVE EnvTypes'
  BY <1>28 DEF ResolveRaises, EnvTypes, envVars, histVars
<1>29. ASSUME NEW x \in Reviewers, ResolveViolation(x) PROVE EnvTypes'
  BY <1>29 DEF ResolveViolation, EnvTypes, envVars, histVars
<1>30. ASSUME NEW x \in Reviewers, Resolve(x) PROVE EnvTypes'
  BY <1>30 DEF Resolve, EnvTypes, envVars, histVars
<1>31. ASSUME NEW x \in Reviewers, Settle(x) PROVE EnvTypes'
  BY <1>31 DEF Settle, EnvTypes, envVars, histVars
<1>32. ASSUME NEW x \in Reviewers, Resolved(x) PROVE EnvTypes'
  BY <1>32 DEF Resolved, EnvTypes, envVars, histVars
<1>33. ASSUME NEW x \in Reviewers, StartVerification(x) PROVE EnvTypes'
  BY <1>33 DEF StartVerification, EnvTypes, envVars, histVars
<1>34. ASSUME NEW x \in Reviewers, Verify(x) PROVE EnvTypes'
  BY <1>34 DEF Verify, Request, EnvTypes, envVars, histVars
<1>35. ASSUME NEW x \in Reviewers, SkipVerification(x) PROVE EnvTypes'
  BY <1>35 DEF SkipVerification, EnvTypes, envVars, histVars
<1>36. ASSUME NEW x \in Reviewers, RunVerification(x) PROVE EnvTypes'
  BY <1>36 DEF RunVerification, EnvTypes, envVars, histVars
<1>37. ASSUME NEW x \in Reviewers, Verified(x) PROVE EnvTypes'
  BY <1>37 DEF Verified, EnvTypes, envVars, histVars
<1>38. ASSUME CancelRun PROVE EnvTypes'
  BY <1>38 DEF CancelRun, Request, EnvTypes, envVars, histVars
<1>39. ASSUME CancelListed PROVE EnvTypes'
  BY <1>39 DEF CancelListed, EnvTypes, envVars, histVars
<1>40. ASSUME CancelEnds PROVE EnvTypes'
  BY <1>40 DEF CancelEnds, EnvTypes, envVars, histVars
<1>41. ASSUME NEW t \in Tasks, CancelTask(t) PROVE EnvTypes'
  BY <1>41 DEF CancelTask, Request, EnvTypes, envVars, histVars
<1>42. ASSUME CancelParent PROVE EnvTypes'
  BY <1>42 DEF CancelParent, Request, EnvTypes, envVars, histVars
<1>43. ASSUME Restart PROVE EnvTypes'
  <2>1. token' = FALSE /\ requests' = requests + 1 /\ early' \in BOOLEAN /\ UNCHANGED <<faults, successes, kept>>
    BY <1>43 DEF Restart, Request, EnvTypes
  <2>2. token' \in BOOLEAN
    BY <2>1
  <2>3. requests' \in Nat /\ faults' \in Nat
    BY <2>1 DEF EnvTypes
  <2>4. successes' \subseteq Tasks /\ kept' \subseteq Tasks
    BY <2>1 DEF EnvTypes
  <2> QED
    BY <2>1, <2>2, <2>3, <2>4 DEF EnvTypes
<1>44. CASE UNCHANGED vars
  BY <1>44 DEF vars, EnvTypes, envVars, histVars
<1> QED
  BY Kinds, <1>1, <1>2, <1>3, <1>4, <1>5, <1>6, <1>7, <1>8, <1>9, <1>10, <1>11,
     <1>12, <1>13, <1>14, <1>15, <1>16, <1>17, <1>18, <1>19, <1>20, <1>21, <1>22,
     <1>23, <1>24, <1>25, <1>26, <1>27, <1>28, <1>29, <1>30, <1>31, <1>32, <1>33,
     <1>34, <1>35, <1>36, <1>37, <1>38, <1>39, <1>40, <1>41, <1>42, <1>43, <1>44
  DEF Next, Batch, Reconcile, EventLoop, Requests, Scheduler, Review, Execute

LEMMA OrderStep ==
  ASSUME ThreadTypes, TaskTypes, BatchInOrder, Moves, [Next]_vars
  PROVE  BatchInOrder'
<1> USE FirstIsTask DEF Moves
<1>1. ASSUME CreateRun PROVE BatchInOrder'
  BY <1>1, Kinds DEF CreateRun, Goto, ThreadTypes, memVars, BatchInOrder, Moves
<1>2. ASSUME CreateTask PROVE BatchInOrder'
  <2>1. PICK i \in 1 .. Len(Order) :
          /\ 1 .. (i - 1) \subseteq Created
          /\ status' = WithStatus(First(Order[i]), "queued")
          /\ pc' = [pc EXCEPT !["batch"] = IF i = Len(Order) THEN "loop" ELSE "create"]
    BY <1>2 DEF CreateTask, Goto
  <2>2. UNCHANGED <<back, goal>>
    BY <1>2 DEF CreateTask, memVars
  <2>3. pc'["batch"] = IF i = Len(Order) THEN "loop" ELSE "create"
    BY <2>1, Kinds DEF ThreadTypes
  <2>4. ASSUME i = Len(Order), NEW n \in Names PROVE status'[First(n)] # "absent"
    <3>1. PICK j \in 1 .. Len(Order) : Order[j] = n
      BY DelegationAssumption
    <3>2. First(n) \in Tasks
      BY FirstIsTask
    <3>3. CASE j = i
      BY <2>1, <3>1, <3>2, <3>3 DEF WithStatus, TaskTypes
    <3>4. CASE j # i
      <4>1. j \in Created
        BY <2>1, <2>4, <3>4, DelegationAssumption
      <4>2. status[First(n)] # "absent"
        BY <4>1, <3>1 DEF Created
      <4> QED
        BY <4>2, <3>2 DEF Moves
    <3> QED
      BY <3>3, <3>4
  <2> QED
    BY <2>2, <2>3, <2>4 DEF BatchInOrder
<1>3. ASSUME CreateRaises PROVE BatchInOrder'
  BY <1>3, Kinds DEF CreateRaises, Goto, ThreadTypes, memVars, BatchInOrder, Moves
<1>4. ASSUME BatchWave PROVE BatchInOrder'
  BY <1>4, Kinds DEF BatchWave, Goto, ThreadTypes, memVars, BatchInOrder, Moves
<1>5. ASSUME BatchThrough PROVE BatchInOrder'
  BY <1>5, Kinds DEF BatchThrough, Goto, ThreadTypes, memVars, BatchInOrder, Moves
<1>6. ASSUME BatchCancels PROVE BatchInOrder'
  BY <1>6, Kinds DEF BatchCancels, Rescue, Goto, Decision, ThreadTypes, memVars, BatchInOrder, Ended
<1>7. ASSUME BatchRaises PROVE BatchInOrder'
  BY <1>7, Kinds DEF BatchRaises, Rescue, Goto, Decision, ThreadTypes, memVars, BatchInOrder, Ended
<1>8. ASSUME BatchFinalizes PROVE BatchInOrder'
  BY <1>8, Kinds DEF BatchFinalizes, Forget, Goto, ThreadTypes, memVars, BatchInOrder, Moves
<1>9. ASSUME BatchSynthesizes PROVE BatchInOrder'
  BY <1>9, Kinds DEF BatchSynthesizes, CallReconcile, Goto, ThreadTypes, memVars, BatchInOrder, Moves
<1>10. ASSUME NEW n \in Names, BatchCancelled(n) PROVE BatchInOrder'
  BY <1>10, Kinds DEF BatchCancelled, GiveUp, Goto, ThreadTypes, memVars, BatchInOrder, Moves
<1>11. ASSUME NEW n \in Names, BatchBlocked(n) PROVE BatchInOrder'
  BY <1>11, Kinds DEF BatchBlocked, GiveUp, Goto, ThreadTypes, memVars, BatchInOrder, Moves
<1>12. ASSUME NEW x \in Threads, Read(x) PROVE BatchInOrder'
  BY <1>12, Kinds DEF Read, Goto, ThreadTypes, memVars, BatchInOrder, Moves
<1>13. ASSUME NEW x \in Threads, Write(x) PROVE BatchInOrder'
  BY <1>13, Kinds DEF Write, Forget, Goto, ThreadTypes, memVars, BatchInOrder, Moves
<1>14. ASSUME NEW x \in Executors, NEW t \in Tasks, Check(x, t) PROVE BatchInOrder'
  BY <1>14, Kinds DEF Check, Goto, ThreadTypes, memVars, BatchInOrder, Moves
<1>15. ASSUME NEW x \in Executors, NEW t \in Tasks, SpawnRefused(x, t) PROVE BatchInOrder'
  BY <1>15, Kinds DEF SpawnRefused, Goto, ThreadTypes, memVars, BatchInOrder, Moves
<1>16. ASSUME NEW x \in Executors, NEW t \in Tasks, Spawned(x, t) PROVE BatchInOrder'
  BY <1>16, Kinds DEF Spawned, Goto, ThreadTypes, memVars, BatchInOrder, Moves
<1>17. ASSUME NEW x \in Executors, NEW t \in Tasks, ChildEnds(x, t) PROVE BatchInOrder'
  BY <1>17, Kinds DEF ChildEnds, Goto, ThreadTypes, memVars, BatchInOrder, Moves
<1>18. ASSUME NEW x \in Executors, NEW t \in Tasks, Persist(x, t) PROVE BatchInOrder'
  BY <1>18, Kinds DEF Persist, Goto, ThreadTypes, memVars, BatchInOrder, Moves
<1>19. ASSUME NEW x \in Retriers, Retry(x) PROVE BatchInOrder'
  BY <1>19, Kinds DEF Retry, RequestRetry, Goto, ThreadTypes, memVars, BatchInOrder, Moves
<1>20. ASSUME NEW x \in Retriers, Resume(x) PROVE BatchInOrder'
  BY <1>20, Kinds DEF Resume, RequestRetry, Goto, ThreadTypes, memVars, BatchInOrder, Moves
<1>21. ASSUME NEW x \in Retriers, Replace(x) PROVE BatchInOrder'
  BY <1>21, Kinds DEF Replace, Goto, ThreadTypes, memVars, BatchInOrder, Moves
<1>22. ASSUME NEW x \in Retriers, ListTasks(x) PROVE BatchInOrder'
  BY <1>22, Kinds DEF ListTasks, CallReconcile, Goto, ThreadTypes, memVars, BatchInOrder, Moves
<1>23. ASSUME NEW x \in Retriers, FailBlocked(x) PROVE BatchInOrder'
  BY <1>23, Kinds DEF FailBlocked, Goto, ThreadTypes, memVars, BatchInOrder, Moves
<1>24. ASSUME NEW x \in Retriers, Wave(x) PROVE BatchInOrder'
  BY <1>24, Kinds DEF Wave, Goto, ThreadTypes, memVars, BatchInOrder, Moves
<1>25. ASSUME NEW x \in Retriers, WaveDone(x) PROVE BatchInOrder'
  BY <1>25, Kinds DEF WaveDone, Goto, ThreadTypes, memVars, BatchInOrder, Moves
<1>26. ASSUME NEW x \in Reviewers, Integrate(x) PROVE BatchInOrder'
  BY <1>26, Kinds DEF Integrate, Goto, ThreadTypes, memVars, BatchInOrder, Moves
<1>27. ASSUME NEW x \in Reviewers, StartIntegration(x) PROVE BatchInOrder'
  BY <1>27, Kinds DEF StartIntegration, Goto, ThreadTypes, memVars, BatchInOrder, Moves
<1>28. ASSUME NEW x \in Reviewers, ResolveRaises(x) PROVE BatchInOrder'
  BY <1>28, Kinds DEF ResolveRaises, Goto, ThreadTypes, memVars, BatchInOrder, Moves
<1>29. ASSUME NEW x \in Reviewers, ResolveViolation(x) PROVE BatchInOrder'
  BY <1>29, Kinds DEF ResolveViolation, Goto, ThreadTypes, memVars, BatchInOrder, Moves
<1>30. ASSUME NEW x \in Reviewers, Resolve(x) PROVE BatchInOrder'
  BY <1>30, Kinds DEF Resolve, CallReconcile, Goto, ThreadTypes, memVars, BatchInOrder, Moves
<1>31. ASSUME NEW x \in Reviewers, Settle(x) PROVE BatchInOrder'
  BY <1>31, Kinds DEF Settle, Goto, ThreadTypes, memVars, BatchInOrder, Moves
<1>32. ASSUME NEW x \in Reviewers, Resolved(x) PROVE BatchInOrder'
  BY <1>32, Kinds DEF Resolved, CallReconcile, Goto, ThreadTypes, memVars, BatchInOrder, Moves
<1>33. ASSUME NEW x \in Reviewers, StartVerification(x) PROVE BatchInOrder'
  BY <1>33, Kinds DEF StartVerification, Goto, ThreadTypes, memVars, BatchInOrder, Moves
<1>34. ASSUME NEW x \in Reviewers, Verify(x) PROVE BatchInOrder'
  BY <1>34, Kinds DEF Verify, Goto, ThreadTypes, memVars, BatchInOrder, Moves
<1>35. ASSUME NEW x \in Reviewers, SkipVerification(x) PROVE BatchInOrder'
  BY <1>35, Kinds DEF SkipVerification, Forget, Goto, ThreadTypes, memVars, BatchInOrder, Moves
<1>36. ASSUME NEW x \in Reviewers, RunVerification(x) PROVE BatchInOrder'
  BY <1>36, Kinds DEF RunVerification, Forget, Goto, ThreadTypes, memVars, BatchInOrder, Moves
<1>37. ASSUME NEW x \in Reviewers, Verified(x) PROVE BatchInOrder'
  BY <1>37, Kinds DEF Verified, Goto, ThreadTypes, memVars, BatchInOrder, Moves
<1>38. ASSUME CancelRun PROVE BatchInOrder'
  BY <1>38, Kinds DEF CancelRun, Goto, ThreadTypes, memVars, BatchInOrder, Moves
<1>39. ASSUME CancelListed PROVE BatchInOrder'
  BY <1>39, Kinds DEF CancelListed, Goto, ThreadTypes, memVars, BatchInOrder, Moves
<1>40. ASSUME CancelEnds PROVE BatchInOrder'
  BY <1>40, Kinds DEF CancelEnds, Forget, Goto, ThreadTypes, memVars, BatchInOrder, Moves
<1>41. ASSUME NEW t \in Tasks, CancelTask(t) PROVE BatchInOrder'
  BY <1>41, Kinds DEF CancelTask, CallReconcile, Goto, ThreadTypes, memVars, BatchInOrder, Moves
<1>42. ASSUME CancelParent PROVE BatchInOrder'
  BY <1>42, Kinds DEF CancelParent, Goto, ThreadTypes, memVars, BatchInOrder, Moves
<1>43. ASSUME Restart PROVE BatchInOrder'
  BY <1>43, Kinds DEF Restart, memVars, BatchInOrder
<1>44. CASE UNCHANGED vars
  BY <1>44 DEF vars, memVars, BatchInOrder
<1> QED
  BY Kinds, <1>1, <1>2, <1>3, <1>4, <1>5, <1>6, <1>7, <1>8, <1>9, <1>10, <1>11,
     <1>12, <1>13, <1>14, <1>15, <1>16, <1>17, <1>18, <1>19, <1>20, <1>21, <1>22,
     <1>23, <1>24, <1>25, <1>26, <1>27, <1>28, <1>29, <1>30, <1>31, <1>32, <1>33,
     <1>34, <1>35, <1>36, <1>37, <1>38, <1>39, <1>40, <1>41, <1>42, <1>43, <1>44
  DEF Next, Batch, Reconcile, EventLoop, Requests, Scheduler, Review, Execute

-----------------------------------------------------------------------------
(* What the threads have in their hands.                                   *)

Hands ==
  /\ JobTypes /\ JobsExist /\ QueueLeft /\ SuccessEarned
  /\ DependenciesKept /\ ReadyEarned /\ DependenciesFirst

(* A step gives a thread a task only if it may start. *)
InHands == {"check", "spawn", "child"}
MayStart(x, t) ==
  /\ status[t] # "absent" /\ deps[t] \subseteq successes
  /\ x = "batch" => t = First(t[1])
HandsMove ==
  /\ JobTypes'
  /\ \A x \in Executors, t \in Tasks :
       /\ job'[<<x, t>>] # "none" => job[<<x, t>>] # "none" \/ MayStart(x, t)
       /\ job'[<<x, t>>] \in InHands => job[<<x, t>>] \in InHands \/ MayStart(x, t)
       /\ job'[<<x, t>>] = "child" => Started(t)'
       /\ outcome'[<<x, t>>] \in Success => t \in successes'
  /\ \A n \in Names : reports'[n] = "good" => First(n) \in successes'
  /\ \A x \in Reviewers, t \in Tasks :
       listed'[x][t] \notin {"absent", listed[x][t]} => Started(t) /\ listed'[x][t] = status[t]
  /\ \A t \in kept' : Started(t)'
  /\ \A x \in Threads : ready'[x] \subseteq ready[x] \cup ReadyTasks

LEMMA HandsFollow ==
  ASSUME IInv, Moves, HandsMove
  PROVE  Hands'
<1> USE DEF IInv
<1>1. JobsExist'
  BY DEF HandsMove, JobsExist, Moves, MayStart
<1>2. QueueLeft'
  BY DEF HandsMove, QueueLeft, Started
<1>3. SuccessEarned'
  <2>1. \A x \in Reviewers, t \in Tasks : listed'[x][t] \in Success => t \in successes
    BY DEF HandsMove, SuccessEarned, Success
  <2> QED
    BY <2>1 DEF HandsMove, SuccessEarned, Moves
<1>4. DependenciesKept'
  BY FirstIsTask DEF DependenciesKept, Moves
<1>5. \A t \in ReadyTasks : t \in Tasks /\ status[t] # "absent" /\ deps[t] \subseteq successes
  BY TypeParts DEF ReadyTasks, Queued, SuccessEarned, TaskTypes
<1>6. ReadyEarned'
  <2> SUFFICES ASSUME NEW x \in Threads, NEW t \in ready'[x]
               PROVE  status'[t] # "absent" /\ deps'[t] \subseteq successes'
    BY DEF ReadyEarned
  <2>1. t \in ready[x] \cup ReadyTasks
    BY DEF HandsMove
  <2>2. t \in Tasks /\ status[t] # "absent" /\ deps[t] \subseteq successes
    BY <1>5, <2>1, TypeParts DEF ReadyEarned, ThreadTypes
  <2> QED
    BY <2>2 DEF Moves
<1>7. DependenciesFirst'
  <2> SUFFICES ASSUME NEW x \in Executors, NEW t \in Tasks, job'[<<x, t>>] \in InHands
               PROVE  deps'[t] \subseteq successes'
    BY DEF DependenciesFirst, InHands
  <2>1. status[t] # "absent" /\ deps[t] \subseteq successes
    BY DEF HandsMove, MayStart, DependenciesFirst, JobsExist, InHands
  <2> QED
    BY <2>1 DEF Moves
<1> QED
  BY <1>1, <1>2, <1>3, <1>4, <1>6, <1>7 DEF Hands, HandsMove

(* What a step leaves alone stays as it has to be. *)
LEMMA Frame ==
  ASSUME IInv, Moves
  PROVE  /\ job' = job => \A x \in Executors, t \in Tasks : job'[<<x, t>>] = "child" => Started(t)'
         /\ outcome' = outcome => \A x \in Executors, t \in Tasks : outcome'[<<x, t>>] \in Success => t \in successes'
         /\ reports' = reports => \A n \in Names : reports'[n] = "good" => First(n) \in successes'
         /\ kept' = kept => \A t \in kept' : Started(t)'
<1>1. \A t \in kept : t \in Tasks
  BY TypeParts DEF IInv, EnvTypes
<1>2. job' = job => \A x \in Executors, t \in Tasks : job'[<<x, t>>] = "child" => Started(t)'
  BY DEF IInv, QueueLeft, Moves
<1>3. kept' = kept => \A t \in kept' : Started(t)'
  BY <1>1 DEF IInv, QueueLeft, Moves
<1>4. outcome' = outcome => \A x \in Executors, t \in Tasks : outcome'[<<x, t>>] \in Success => t \in successes'
  BY DEF IInv, SuccessEarned, Moves
<1>5. reports' = reports => \A n \in Names : reports'[n] = "good" => First(n) \in successes'
  BY DEF IInv, SuccessEarned, Moves
<1> QED
  BY <1>2, <1>3, <1>4, <1>5

LEMMA HandsStill ==
  ASSUME IInv, Moves, UNCHANGED <<listed, job, outcome, reports, ready, kept>>
  PROVE  HandsMove
<1>1. JobTypes'
  BY TypeParts DEF IInv, JobTypes
<1> QED
  BY <1>1, Frame DEF HandsMove

(* The same for a step that changes the lists of the reviewers only by what
   they forget. *)
AsListed(x, f) ==
  \A t \in Tasks : f[t] \notin {"absent", listed[x][t]} => Started(t) /\ f[t] = status[t]

LEMMA ListedShrinks ==
  ASSUME IInv, Moves, UNCHANGED <<job, outcome, reports, ready, kept>>,
         NEW x \in Reviewers, NEW f \in [Tasks -> Statuses],
         AsListed(x, f),
         listed' = [listed EXCEPT ![x] = f]
  PROVE  HandsMove
<1>1. listed' \in [Reviewers -> [Tasks -> Statuses]]
  BY TypeParts DEF IInv, JobTypes
<1>2. \A y \in Reviewers : listed'[y] = IF y = x THEN f ELSE listed[y]
  BY TypeParts DEF IInv, JobTypes
<1>3. JobTypes'
  BY <1>1, TypeParts DEF IInv, JobTypes
<1> QED
  BY <1>2, <1>3, Frame DEF HandsMove, AsListed

(* A step of one job. *)
LEMMA OneJob ==
  ASSUME IInv, Moves, UNCHANGED <<listed, ready>>, NEW x \in Executors, NEW t \in Tasks,
         NEW j \in {"none", "check", "spawn", "child", "persist"}, NEW o \in Outcomes \cup {"failed"},
         job[<<x, t>>] # "none", job' = [job EXCEPT ![<<x, t>>] = j],
         j \in InHands => job[<<x, t>>] \in InHands, j = "child" => Started(t)',
         outcome' = [outcome EXCEPT ![<<x, t>>] = o], o \in Success => t \in successes',
         reports' \in [Names -> {"none", "good", "bad"}],
         \A n \in Names : reports'[n] = "good" => First(n) \in successes',
         \A u \in kept' : Started(u)'
  PROVE  HandsMove
<1>1. <<x, t>> \in Jobs
  BY DEF Jobs
<1>2. /\ job' \in [Jobs -> {"none", "check", "spawn", "child", "persist"}]
      /\ outcome' \in [Jobs -> Outcomes \cup {"failed"}]
      /\ job'[<<x, t>>] = j /\ outcome'[<<x, t>>] = o
      /\ \A k \in Jobs : k # <<x, t>> => job'[k] = job[k] /\ outcome'[k] = outcome[k]
  BY <1>1, TypeParts DEF IInv, JobTypes
<1>3. JobTypes'
  BY <1>2, TypeParts DEF IInv, JobTypes
<1>4. ASSUME NEW y \in Executors, NEW u \in Tasks
      PROVE  /\ job'[<<y, u>>] # "none" => job[<<y, u>>] # "none" \/ MayStart(y, u)
             /\ job'[<<y, u>>] \in InHands => job[<<y, u>>] \in InHands \/ MayStart(y, u)
             /\ job'[<<y, u>>] = "child" => Started(u)'
             /\ outcome'[<<y, u>>] \in Success => u \in successes'
  <2>1. CASE <<y, u>> = <<x, t>>
    <3>1. y = x /\ u = t
      BY <2>1
    <3> QED
      BY <1>2, <3>1
  <2>2. CASE <<y, u>> # <<x, t>>
    <3>1. job'[<<y, u>>] = job[<<y, u>>] /\ outcome'[<<y, u>>] = outcome[<<y, u>>]
      BY <1>2, <2>2 DEF Jobs
    <3> QED
      BY <3>1 DEF IInv, QueueLeft, SuccessEarned, Moves
  <2> QED
    BY <2>1, <2>2
<1> QED
  BY <1>3, <1>4 DEF HandsMove

(* A wave of tasks that may start. *)
LEMMA WaveStarts ==
  ASSUME IInv, Moves, UNCHANGED <<listed, outcome, reports, kept>>,
         \A y \in Threads : ready'[y] \subseteq ready[y],
         NEW x \in Executors, NEW wave \in SUBSET Tasks, NEW first \in {"check", "spawn"},
         \A t \in wave : MayStart(x, t), StartWave(x, wave, first)
  PROVE  HandsMove
<1>1. job' = [j \in Jobs |-> IF j[1] = x /\ j[2] \in wave THEN first ELSE job[j]]
  BY DEF StartWave
<1>2. JobTypes'
  BY <1>1, TypeParts DEF IInv, JobTypes
<1>3. \A y \in Executors, t \in Tasks : job'[<<y, t>>] = IF y = x /\ t \in wave THEN first ELSE job[<<y, t>>]
  BY <1>1 DEF Jobs
<1>4. \A y \in Executors, t \in Tasks : job'[<<y, t>>] = "child" => Started(t)'
  BY <1>3 DEF IInv, QueueLeft, Moves
<1>5. \A y \in Executors, t \in Tasks : job'[<<y, t>>] # "none" => job[<<y, t>>] # "none" \/ MayStart(y, t)
  BY <1>3
<1>6. \A y \in Executors, t \in Tasks : job'[<<y, t>>] \in InHands => job[<<y, t>>] \in InHands \/ MayStart(y, t)
  BY <1>3
<1> QED
  BY <1>2, <1>4, <1>5, <1>6, Frame DEF HandsMove

LEMMA ForgetsList ==
  ASSUME IInv, Moves, UNCHANGED <<job, outcome, reports, ready, kept>>,
         NEW x \in Reviewers, listed' = [listed EXCEPT ![x] = NothingListed]
  PROVE  HandsMove
<1>1. /\ NothingListed \in [Tasks -> Statuses]
      /\ AsListed(x, NothingListed)
  <2>1. NothingListed \in [Tasks -> Statuses] /\ \A t \in Tasks : NothingListed[t] = "absent"
    BY DEF NothingListed, Statuses
  <2> QED
    BY <2>1 DEF AsListed
<1> QED
  BY <1>1, ListedShrinks

LEMMA HandsStep ==
  ASSUME IInv, Moves, [Next]_vars
  PROVE  HandsMove
<1>1. ASSUME CreateRun PROVE HandsMove
  BY <1>1, HandsStill DEF CreateRun, memVars, jobVars, histVars
<1>2. ASSUME CreateTask PROVE HandsMove
  BY <1>2, HandsStill DEF CreateTask, memVars, jobVars, histVars
<1>3. ASSUME CreateRaises PROVE HandsMove
  BY <1>3, HandsStill DEF CreateRaises, memVars, jobVars, histVars
<1>4. ASSUME BatchWave PROVE HandsMove
  <2>1. PICK wave \in SUBSET {n \in Names : Ready(n) /\ ~Blocked(n)} :
          StartWave("batch", {First(n) : n \in wave}, "check")
    BY <1>4 DEF BatchWave
  <2>2. ASSUME NEW n \in wave PROVE MayStart("batch", First(n))
    <3>1. n \in Names /\ Dep[n] \subseteq Names
      BY DelegationAssumption
    <3>2. \A d \in Dep[n] : reports[d] = "good"
      BY <3>1, TypeParts DEF Ready, Blocked, IInv, JobTypes
    <3>3. \A d \in Dep[n] : First(d) \in successes
      BY <3>1, <3>2 DEF IInv, SuccessEarned
    <3>4. status[First(n)] # "absent"
      BY <1>4, <3>1 DEF BatchWave, IInv, BatchInOrder
    <3>5. deps[First(n)] \subseteq successes
      BY <3>1, <3>3, <3>4 DEF IInv, DependenciesKept
    <3> QED
      BY <3>4, <3>5 DEF MayStart, First
  <2>3. {First(n) : n \in wave} \in SUBSET Tasks
    BY FirstIsTask
  <2> QED
    BY <1>4, <2>1, <2>2, <2>3, Kinds, WaveStarts DEF BatchWave, memVars, histVars
<1>5. ASSUME BatchThrough PROVE HandsMove
  BY <1>5, HandsStill DEF BatchThrough, memVars, jobVars, histVars
<1>6. ASSUME BatchCancels PROVE HandsMove
  BY <1>6, HandsStill DEF BatchCancels, Rescue, memVars, jobVars, histVars
<1>7. ASSUME BatchRaises PROVE HandsMove
  BY <1>7, HandsStill DEF BatchRaises, Rescue, memVars, jobVars, histVars
<1>8. ASSUME BatchFinalizes PROVE HandsMove
  BY <1>8, HandsStill DEF BatchFinalizes, memVars, jobVars, histVars
<1>9. ASSUME BatchSynthesizes PROVE HandsMove
  BY <1>9, HandsStill DEF BatchSynthesizes, memVars, jobVars, histVars
<1>10. ASSUME NEW n \in Names, BatchCancelled(n) PROVE HandsMove
  <2>1. reports' = [reports EXCEPT ![n] = "bad"] /\ UNCHANGED <<listed, job, outcome, ready, kept>>
    BY <1>10 DEF BatchCancelled, GiveUp, memVars, histVars
  <2>2. JobTypes'
    BY <2>1, TypeParts DEF IInv, JobTypes
  <2>3. \A m \in Names : reports'[m] = "good" => First(m) \in successes'
    BY <2>1, TypeParts DEF IInv, JobTypes, SuccessEarned, Moves
  <2> QED
    BY <2>1, <2>2, <2>3, Frame DEF HandsMove
<1>11. ASSUME NEW n \in Names, BatchBlocked(n) PROVE HandsMove
  <2>1. reports' = [reports EXCEPT ![n] = "bad"] /\ UNCHANGED <<listed, job, outcome, ready, kept>>
    BY <1>11 DEF BatchBlocked, GiveUp, memVars, histVars
  <2>2. JobTypes'
    BY <2>1, TypeParts DEF IInv, JobTypes
  <2>3. \A m \in Names : reports'[m] = "good" => First(m) \in successes'
    BY <2>1, TypeParts DEF IInv, JobTypes, SuccessEarned, Moves
  <2> QED
    BY <2>1, <2>2, <2>3, Frame DEF HandsMove
<1>12. ASSUME NEW x \in Threads, Read(x) PROVE HandsMove
  BY <1>12, HandsStill DEF Read, memVars, jobVars, histVars
<1>13. ASSUME NEW x \in Threads, Write(x) PROVE HandsMove
  BY <1>13, HandsStill DEF Write, memVars, jobVars, histVars
<1>14. ASSUME NEW x \in Executors, NEW t \in Tasks, Check(x, t) PROVE HandsMove
  <2>1. /\ job[<<x, t>>] = "check" /\ UNCHANGED <<listed, outcome, ready, kept, successes>>
        /\ job' = [job EXCEPT ![<<x, t>>] = IF status[t] = "cancelled" THEN "none" ELSE "spawn"]
        /\ reports' = IF status[t] = "cancelled" THEN [reports EXCEPT ![t[1]] = "bad"] ELSE reports
    BY <1>14 DEF Check, memVars, histVars
  <2>2. outcome[<<x, t>>] \in Outcomes \cup {"failed"} /\ outcome' = [outcome EXCEPT ![<<x, t>>] = outcome[<<x, t>>]]
    BY <2>1, TypeParts DEF IInv, JobTypes, Jobs
  <2>3. reports' \in [Names -> {"none", "good", "bad"}] /\ \A n \in Names : reports'[n] = "good" => reports[n] = "good"
    BY <2>1, TypeParts DEF IInv, JobTypes, Tasks
  <2>4. (\A n \in Names : reports'[n] = "good" => First(n) \in successes') /\ (\A u \in kept' : Started(u)')
    BY <2>1, <2>3, TypeParts DEF IInv, SuccessEarned, QueueLeft, Moves, EnvTypes
  <2>5. outcome[<<x, t>>] \in Success => t \in successes'
    BY <2>1 DEF IInv, SuccessEarned
  <2>6. CASE status[t] = "cancelled"
    BY <2>1, <2>2, <2>3, <2>4, <2>5, <2>6, OneJob DEF InHands
  <2>7. CASE status[t] # "cancelled"
    BY <2>1, <2>2, <2>3, <2>4, <2>5, <2>7, OneJob DEF InHands
  <2> QED
    BY <2>6, <2>7
<1>15. ASSUME NEW x \in Executors, NEW t \in Tasks, SpawnRefused(x, t) PROVE HandsMove
  <2>1. /\ job[<<x, t>>] = "spawn" /\ UNCHANGED <<listed, reports, ready, kept, successes>>
        /\ job' = [job EXCEPT ![<<x, t>>] = "persist"] /\ outcome' = [outcome EXCEPT ![<<x, t>>] = "failed"]
    BY <1>15 DEF SpawnRefused, memVars, histVars
  <2>2. /\ reports' \in [Names -> {"none", "good", "bad"}]
        /\ \A n \in Names : reports'[n] = "good" => First(n) \in successes'
        /\ \A u \in kept' : Started(u)'
    BY <2>1, TypeParts DEF IInv, JobTypes, SuccessEarned, QueueLeft, Moves, EnvTypes
  <2> QED
    BY <2>1, <2>2, OneJob DEF InHands, Success
<1>16. ASSUME NEW x \in Executors, NEW t \in Tasks, Spawned(x, t) PROVE HandsMove
  <2>1. /\ job[<<x, t>>] = "spawn" /\ UNCHANGED <<listed, outcome, reports, ready, kept, successes>>
        /\ job' = [job EXCEPT ![<<x, t>>] = "child"] /\ Claim(t, {"queued"}, "running")
    BY <1>16 DEF Spawned, memVars, histVars
  <2>2. outcome[<<x, t>>] \in Outcomes \cup {"failed"} /\ outcome' = [outcome EXCEPT ![<<x, t>>] = outcome[<<x, t>>]]
    BY <2>1, TypeParts DEF IInv, JobTypes, Jobs
  <2>3. /\ reports' \in [Names -> {"none", "good", "bad"}]
        /\ \A n \in Names : reports'[n] = "good" => First(n) \in successes'
        /\ \A u \in kept' : Started(u)'
    BY <2>1, TypeParts DEF IInv, JobTypes, SuccessEarned, QueueLeft, Moves, EnvTypes
  <2>4. outcome[<<x, t>>] \in Success => t \in successes'
    BY <2>1 DEF IInv, SuccessEarned
  <2>5. status[t] # "absent"
    BY <2>1 DEF IInv, JobsExist
  <2>6. Started(t)'
    BY <2>1, <2>5, TypeParts DEF Claim, WithStatus, Started, IInv, TaskTypes
  <2> QED
    BY <2>1, <2>2, <2>3, <2>4, <2>6, OneJob DEF InHands
<1>17. ASSUME NEW x \in Executors, NEW t \in Tasks, ChildEnds(x, t) PROVE HandsMove
  <2>1. PICK o \in Outcomes :
          /\ outcome' = [outcome EXCEPT ![<<x, t>>] = o]
          /\ successes' = IF o \in Success THEN successes \cup {t} ELSE successes
          /\ kept' = IF o \in Success /\ t[1] \in Writers THEN kept \cup {t} ELSE kept
    BY <1>17 DEF ChildEnds
  <2>2. /\ job[<<x, t>>] = "child" /\ UNCHANGED <<listed, reports, ready>>
        /\ job' = [job EXCEPT ![<<x, t>>] = "persist"]
    BY <1>17 DEF ChildEnds, memVars
  <2>3. Started(t)' /\ \A u \in kept : u \in Tasks /\ Started(u)'
    BY <2>2, TypeParts DEF IInv, QueueLeft, Moves, EnvTypes
  <2>4. /\ reports' \in [Names -> {"none", "good", "bad"}]
        /\ \A n \in Names : reports'[n] = "good" => First(n) \in successes'
        /\ \A u \in kept' : Started(u)'
    BY <2>1, <2>2, <2>3, TypeParts DEF IInv, JobTypes, SuccessEarned, Moves
  <2>5. o \in Success => t \in successes'
    BY <2>1
  <2> QED
    BY <2>1, <2>2, <2>4, <2>5, OneJob DEF InHands
<1>18. ASSUME NEW x \in Executors, NEW t \in Tasks, Persist(x, t) PROVE HandsMove
  <2>1. /\ job[<<x, t>>] = "persist" /\ UNCHANGED <<listed, ready, kept, successes>>
        /\ job' = [job EXCEPT ![<<x, t>>] = "none"] /\ outcome' = [outcome EXCEPT ![<<x, t>>] = "failed"]
        /\ reports' = IF x # "batch" THEN reports
                      ELSE [reports EXCEPT ![t[1]] = IF outcome[<<x, t>>] \in Success THEN "good" ELSE "bad"]
    BY <1>18 DEF Persist, memVars, histVars
  <2>2. t[1] \in Names /\ reports' \in [Names -> {"none", "good", "bad"}]
    BY <2>1, TypeParts DEF IInv, JobTypes, Tasks
  <2>3. x = "batch" => t = First(t[1])
    BY <2>1 DEF IInv, JobsExist
  <2>4. outcome[<<x, t>>] \in Success => t \in successes
    BY DEF IInv, SuccessEarned
  <2>5. ASSUME NEW n \in Names, reports'[n] = "good" PROVE First(n) \in successes'
    <3>1. CASE reports[n] = "good"
      BY <2>1, <3>1 DEF IInv, SuccessEarned
    <3>2. CASE reports[n] # "good"
      <4>1. x = "batch" /\ n = t[1] /\ outcome[<<x, t>>] \in Success
        BY <2>1, <2>2, <2>5, <3>2, TypeParts DEF IInv, JobTypes
      <4> QED
        BY <2>1, <2>3, <2>4, <4>1
    <3> QED
      BY <3>1, <3>2
  <2>6. \A u \in kept' : Started(u)'
    BY <2>1, TypeParts DEF IInv, QueueLeft, Moves, EnvTypes
  <2> QED
    BY <2>1, <2>2, <2>5, <2>6, OneJob DEF InHands, Success
<1>19. ASSUME NEW x \in Retriers, Retry(x) PROVE HandsMove
  BY <1>19, HandsStill DEF Retry, RequestRetry, Request, memVars, jobVars, histVars
<1>20. ASSUME NEW x \in Retriers, Resume(x) PROVE HandsMove
  BY <1>20, HandsStill DEF Resume, RequestRetry, Request, memVars, jobVars, histVars
<1>21. ASSUME NEW x \in Retriers, Replace(x) PROVE HandsMove
  BY <1>21, HandsStill DEF Replace, memVars, jobVars, histVars
<1>22. ASSUME NEW x \in Retriers, ListTasks(x) PROVE HandsMove
  <2>1. ready' = [ready EXCEPT ![x] = ReadyTasks] /\ UNCHANGED <<listed, job, outcome, reports, kept, successes>>
    BY <1>22 DEF ListTasks, jobVars, histVars
  <2>2. \A y \in Threads : ready'[y] \subseteq ready[y] \cup ReadyTasks
    BY <2>1, Kinds, TypeParts DEF IInv, ThreadTypes
  <2> QED
    BY <2>1, <2>2, TypeParts DEF HandsMove, IInv, JobTypes, QueueLeft, SuccessEarned, Moves, Started, EnvTypes
<1>23. ASSUME NEW x \in Retriers, FailBlocked(x) PROVE HandsMove
  BY <1>23, HandsStill DEF FailBlocked, memVars, jobVars, histVars
<1>24. ASSUME NEW x \in Retriers, Wave(x) PROVE HandsMove
  <2>1. PICK wave \in SUBSET ready[x] :
          StartWave(x, wave, "spawn") /\ ready' = [ready EXCEPT ![x] = @ \ wave]
    BY <1>24 DEF Wave
  <2>2. wave \in SUBSET Tasks /\ \A y \in Threads : ready'[y] \subseteq ready[y]
    BY <2>1, Kinds, TypeParts DEF IInv, ThreadTypes
  <2>3. \A t \in wave : MayStart(x, t)
    BY <2>1, Kinds DEF IInv, ReadyEarned, MayStart
  <2>4. UNCHANGED <<listed, outcome, reports, kept>>
    BY <1>24 DEF Wave, histVars
  <2> QED
    BY <2>1, <2>2, <2>3, <2>4, Kinds, WaveStarts
<1>25. ASSUME NEW x \in Retriers, WaveDone(x) PROVE HandsMove
  BY <1>25, HandsStill DEF WaveDone, memVars, jobVars, histVars
<1>26. ASSUME NEW x \in Reviewers, Integrate(x) PROVE HandsMove
  <2> DEFINE f == [t \in Tasks |-> IF t \in todo'[x] /\ (status[t] = "running" \/ t \in kept)
                                   THEN status[t] ELSE "absent"]
  <2>1. listed' = [listed EXCEPT ![x] = f] /\ UNCHANGED <<job, outcome, reports, ready, kept>>
    BY <1>26 DEF Integrate, jobVars, Request
  <2>2. f \in [Tasks -> Statuses]
    BY TypeParts DEF IInv, TaskTypes, Statuses
  <2>3. AsListed(x, f)
    <3> SUFFICES ASSUME NEW t \in Tasks
                 PROVE  f[t] \notin {"absent", listed[x][t]} => Started(t) /\ f[t] = status[t]
      BY DEF AsListed
    <3>1. CASE t \in todo'[x] /\ (status[t] = "running" \/ t \in kept)
      <4>1. Started(t)
        BY <3>1 DEF IInv, QueueLeft, Started
      <4> QED
        BY <3>1, <4>1
    <3>2. CASE ~(t \in todo'[x] /\ (status[t] = "running" \/ t \in kept))
      <4>1. f[t] = "absent"
        BY <3>2
      <4> HIDE DEF f
      <4> QED
        BY <4>1
    <3> QED
      BY <3>1, <3>2
  <2> HIDE DEF f
  <2> QED
    BY <2>1, <2>2, <2>3, ListedShrinks
<1>27. ASSUME NEW x \in Reviewers, StartIntegration(x) PROVE HandsMove
  <2>1. (listed' = listed \/ listed' = [listed EXCEPT ![x] = NothingListed])
        /\ UNCHANGED <<job, outcome, reports, ready, kept>>
    BY <1>27 DEF StartIntegration, jobVars, histVars
  <2> QED
    BY <2>1, ForgetsList, HandsStill
<1>28. ASSUME NEW x \in Reviewers, ResolveRaises(x) PROVE HandsMove
  <2>1. (listed' = listed \/ listed' = [listed EXCEPT ![x] = NothingListed])
        /\ UNCHANGED <<job, outcome, reports, ready, kept>>
    BY <1>28 DEF ResolveRaises, jobVars, histVars
  <2> QED
    BY <2>1, ForgetsList, HandsStill
<1>29. ASSUME NEW x \in Reviewers, ResolveViolation(x) PROVE HandsMove
  <2>1. (listed' = listed \/ listed' = [listed EXCEPT ![x] = NothingListed])
        /\ UNCHANGED <<job, outcome, reports, ready, kept>>
    BY <1>29 DEF ResolveViolation, jobVars, histVars
  <2> QED
    BY <2>1, ForgetsList, HandsStill
<1>30. ASSUME NEW x \in Reviewers, Resolve(x) PROVE HandsMove
  <2>1. PICK t \in todo[x], r \in {"applied", "retained", "discarded", "conflict"} :
          listed' = [listed EXCEPT ![x] = IF r = "conflict" THEN NothingListed
                                          ELSE [@ EXCEPT ![t] = "absent"]]
    BY <1>30 DEF Resolve
  <2>2. UNCHANGED <<job, outcome, reports, ready, kept>>
    BY <1>30 DEF Resolve, jobVars, histVars
  <2>3. CASE r = "conflict"
    BY <2>1, <2>2, <2>3, ForgetsList
  <2>4. CASE r # "conflict"
    <3> DEFINE f == [listed[x] EXCEPT ![t] = "absent"]
    <3>1. listed' = [listed EXCEPT ![x] = f]
      BY <2>1, <2>4
    <3>2. /\ f \in [Tasks -> Statuses]
          /\ AsListed(x, f)
      <4>1. f \in [Tasks -> Statuses] /\ \A u \in Tasks : f[u] = "absent" \/ f[u] = listed[x][u]
        BY TypeParts DEF IInv, JobTypes, Statuses
      <4> HIDE DEF f
      <4> QED
        BY <4>1 DEF AsListed
    <3> HIDE DEF f
    <3> QED
      BY <2>2, <3>1, <3>2, ListedShrinks
  <2> QED
    BY <2>3, <2>4
<1>31. ASSUME NEW x \in Reviewers, Settle(x) PROVE HandsMove
  BY <1>31, HandsStill DEF Settle, memVars, jobVars, histVars
<1>32. ASSUME NEW x \in Reviewers, Resolved(x) PROVE HandsMove
  BY <1>32, HandsStill DEF Resolved, memVars, jobVars, histVars
<1>33. ASSUME NEW x \in Reviewers, StartVerification(x) PROVE HandsMove
  BY <1>33, HandsStill DEF StartVerification, memVars, jobVars, histVars
<1>34. ASSUME NEW x \in Reviewers, Verify(x) PROVE HandsMove
  BY <1>34, HandsStill DEF Verify, Request, memVars, jobVars, histVars
<1>35. ASSUME NEW x \in Reviewers, SkipVerification(x) PROVE HandsMove
  BY <1>35, HandsStill DEF SkipVerification, memVars, jobVars, histVars
<1>36. ASSUME NEW x \in Reviewers, RunVerification(x) PROVE HandsMove
  BY <1>36, HandsStill DEF RunVerification, memVars, jobVars, histVars
<1>37. ASSUME NEW x \in Reviewers, Verified(x) PROVE HandsMove
  BY <1>37, HandsStill DEF Verified, memVars, jobVars, histVars
<1>38. ASSUME CancelRun PROVE HandsMove
  BY <1>38, HandsStill DEF CancelRun, Request, memVars, jobVars, histVars
<1>39. ASSUME CancelListed PROVE HandsMove
  BY <1>39, HandsStill DEF CancelListed, memVars, jobVars, histVars
<1>40. ASSUME CancelEnds PROVE HandsMove
  BY <1>40, HandsStill DEF CancelEnds, memVars, jobVars, histVars
<1>41. ASSUME NEW t \in Tasks, CancelTask(t) PROVE HandsMove
  BY <1>41, HandsStill DEF CancelTask, Request, memVars, jobVars, histVars
<1>42. ASSUME CancelParent PROVE HandsMove
  BY <1>42, HandsStill DEF CancelParent, Request, memVars, jobVars, histVars
<1>43. ASSUME Restart PROVE HandsMove
  <2>1. job' = [j \in Jobs |-> "none"] /\ UNCHANGED <<listed, outcome, reports, ready, kept, successes>>
    BY <1>43 DEF Restart, Request, memVars
  <2>2. \A x \in Executors, t \in Tasks : job'[<<x, t>>] = "none"
    BY <2>1 DEF Jobs
  <2>3. JobTypes'
    BY <2>1, TypeParts DEF IInv, JobTypes
  <2> QED
    BY <2>1, <2>2, <2>3, TypeParts DEF HandsMove, IInv, QueueLeft, SuccessEarned, Moves, EnvTypes, InHands
<1>44. CASE UNCHANGED vars
  BY <1>44, HandsStill DEF vars, memVars, jobVars, histVars
<1> QED
  BY Kinds, <1>1, <1>2, <1>3, <1>4, <1>5, <1>6, <1>7, <1>8, <1>9, <1>10, <1>11,
     <1>12, <1>13, <1>14, <1>15, <1>16, <1>17, <1>18, <1>19, <1>20, <1>21, <1>22,
     <1>23, <1>24, <1>25, <1>26, <1>27, <1>28, <1>29, <1>30, <1>31, <1>32, <1>33,
     <1>34, <1>35, <1>36, <1>37, <1>38, <1>39, <1>40, <1>41, <1>42, <1>43, <1>44
  DEF Next, Batch, Reconcile, EventLoop, Requests, Scheduler, Review, Execute

-----------------------------------------------------------------------------
(* The generations of a task.                                              *)

(* Every task is created after the tasks it depends on. *)
OrderFollowsDependencies ==
  \A i \in 1 .. Len(Order) : Dep[Order[i]] \subseteq {Order[j] : j \in 1 .. (i - 1)}

Exists(t) == status[t] # "absent"
Newest(t) == Exists(t) /\ ~Replaced(t)
Creating == pc["batch"] \in {"start", "create"}

(* A generation follows the one before, what is superseded has a successor, and
   a task that has none depends on tasks that have none. *)
Lineage ==
  /\ \A t \in Tasks : t[2] > 0 /\ Exists(t) => Exists(Before(t))
  /\ \A t \in Tasks : status[t] = "superseded" => Replaced(t)
  /\ \A x \in Reviewers, t \in Tasks : listed[x][t] # "superseded"
  /\ \A x \in Retriers : back[x] = "done"
  /\ pc["batch"] = "start" => \A t \in Tasks : ~Exists(t)
  /\ ~early /\ Creating =>
       /\ \A t \in Tasks : t[2] > 0 => ~Exists(t)
       /\ \A x \in Retriers : pc[x] # "replace"
  /\ ~early /\ OrderFollowsDependencies =>
       \A t \in Tasks : Newest(t) => \A d \in deps[t] : Newest(d)

Whole ==
  ~early /\ OrderFollowsDependencies => \A t \in Tasks :
    t[2] > 0 /\ ~Exists(t) /\ Exists(t)' =>
      /\ status'[Before(t)] = "superseded"
      /\ \A d \in deps'[t] : status'[d] \notin {"absent", "superseded"}
      /\ \A u \in Effective : Before(t) \in deps[u] => status'[u] = "superseded"

LEMMA Generations ==
  ASSUME NEW t \in Tasks
  PROVE  /\ t[2] \in Nat /\ t[2] <= MaxRetries /\ MaxRetries \in Nat
         /\ Before(Next1(t)) = t /\ Next1(t)[2] > 0
         /\ t[2] > 0 => Before(t) \in Tasks
         /\ \A u \in Tasks : Next1(t) = Next1(u) => t = u
<1>1. PICK n \in Names, g \in 0 .. MaxRetries : t = <<n, g>>
  BY DEF Tasks
<1>2. MaxRetries \in Nat /\ Next1(t) = <<n, g + 1>>
  BY <1>1, DelegationAssumption DEF Next1
<1>3. Before(Next1(t)) = <<n, (g + 1) - 1>> /\ (g + 1) - 1 = g
  BY <1>1, <1>2 DEF Before
<1>4. ASSUME t[2] > 0 PROVE Before(t) \in Tasks
  <2>1. Before(t) = <<n, g - 1>> /\ g - 1 \in 0 .. MaxRetries
    BY <1>1, <1>2, <1>4 DEF Before
  <2> QED
    BY <2>1 DEF Tasks
<1>5. ASSUME NEW u \in Tasks, Next1(t) = Next1(u) PROVE t = u
  <2>1. PICK m \in Names, h \in 0 .. MaxRetries : u = <<m, h>>
    BY DEF Tasks
  <2>2. <<n, g + 1>> = <<m, h + 1>>
    BY <1>2, <1>5, <2>1 DEF Next1
  <2>3. n = m /\ g + 1 = h + 1
    BY <2>2
  <2> QED
    BY <1>1, <1>2, <2>1, <2>3
<1> QED
  BY <1>1, <1>2, <1>3, <1>4, <1>5

(* What most steps leave alone. *)
SameTasks ==
  /\ \A t \in Tasks : (Exists(t)' <=> Exists(t)) /\ (status'[t] = "superseded" => status[t] = "superseded")
  /\ deps' = deps
Quiet ==
  /\ SameTasks
  /\ early => early'
  /\ \A x \in Reviewers, t \in Tasks : listed'[x][t] # "superseded"
  /\ \A x \in Retriers : back'[x] = "done"
  /\ pc'["batch"] = "start" => pc["batch"] = "start"
  /\ Creating' => Creating
  /\ \A x \in Retriers : pc'[x] = "replace" => pc[x] = "replace" \/ early' \/ ~Creating'

LEMMA QuietKeeps ==
  ASSUME TaskTypes, Lineage, Quiet
  PROVE  Lineage' /\ Whole
<1>1. \A t \in Tasks : Replaced(t)' <=> Replaced(t)
  BY NextIsTask DEF Quiet, SameTasks, Replaced, Exists
<1>2. \A t \in Tasks : Newest(t)' <=> Newest(t)
  BY <1>1 DEF Quiet, SameTasks, Newest
<1>3. \A t \in Tasks : t[2] > 0 => Before(t) \in Tasks
  BY Generations
<1>4. \A t \in Tasks : deps[t] \subseteq Tasks
  BY DEF TaskTypes
<1>5. /\ \A t \in Tasks : t[2] > 0 /\ Exists(t)' => Exists(Before(t))'
      /\ \A t \in Tasks : status'[t] = "superseded" => Replaced(t)'
      /\ pc'["batch"] = "start" => \A t \in Tasks : ~Exists(t)'
  BY <1>1, <1>3 DEF Lineage, Quiet, SameTasks
<1>6. ASSUME ~early', Creating'
      PROVE  /\ \A t \in Tasks : t[2] > 0 => ~Exists(t)'
             /\ \A x \in Retriers : pc'[x] # "replace"
  BY <1>6 DEF Lineage, Quiet, SameTasks
<1>7. ASSUME ~early', OrderFollowsDependencies, NEW t \in Tasks, Newest(t)', NEW d \in deps'[t] PROVE Newest(d)'
  BY <1>2, <1>4, <1>7 DEF Lineage, Quiet, SameTasks
<1>8. Whole
  BY DEF Whole, Quiet, SameTasks
<1> QED
  BY <1>5, <1>6, <1>7, <1>8 DEF Lineage, Quiet

LEMMA SetSame ==
  ASSUME TaskTypes, NEW t \in Tasks, NEW s, s \notin {"absent", "superseded"}, Exists(t),
         status' = WithStatus(t, s), deps' = deps
  PROVE  SameTasks
BY DEF SameTasks, Exists, WithStatus, TaskTypes

LEMMA ClaimSame ==
  ASSUME TaskTypes, NEW t \in Tasks, NEW s, s \notin {"absent", "superseded"},
         NEW expected \in SUBSET Open, Claim(t, expected, s), deps' = deps
  PROVE  SameTasks
<1>1. CASE status[t] \in expected
  BY <1>1, SetSame DEF Claim, Open, Exists
<1>2. CASE status[t] \notin expected
  BY <1>2 DEF Claim, SameTasks, Exists
<1> QED
  BY <1>1, <1>2

LEMMA SettledNames ==
  /\ \A s \in Settled : s \notin {"absent", "superseded"}
  /\ {"queued"} \subseteq Open
BY DEF Settled, Success, Retryable, Open

(* The threads that matter do not begin anew. *)
ThreadsQuiet ==
  /\ pc'["batch"] = pc["batch"] \/ pc'["batch"] \notin {"start", "create"}
  /\ \A x \in Retriers : pc'[x] = pc[x] \/ pc'[x] # "replace"

LEMMA GotoQuiet ==
  ASSUME ThreadTypes, NEW x \in Threads, NEW l, Goto(x, l),
         x \in Executors => l \notin {"start", "create", "replace"}
  PROVE  ThreadsQuiet
BY Kinds DEF ThreadsQuiet, Goto, ThreadTypes

LEMMA SamePc == ASSUME pc' = pc PROVE ThreadsQuiet
BY DEF ThreadsQuiet

LEMMA IsQuiet ==
  ASSUME Lineage, SameTasks, early => early', listed' = listed, back' = back, ThreadsQuiet
  PROVE  Quiet
BY Kinds DEF Lineage, Quiet, ThreadsQuiet, Creating

LEMMA SameStatus == ASSUME UNCHANGED <<status, deps>> PROVE SameTasks
BY DEF SameTasks, Exists

LEMMA ListsQuiet ==
  ASSUME Lineage, JobTypes, ThreadTypes, SameTasks, early => early', ThreadsQuiet,
         NEW x \in Reviewers, NEW f, \A t \in Tasks : f[t] # "superseded",
         listed' = [listed EXCEPT ![x] = f],
         back' = back \/ \E l : back' = [back EXCEPT ![x] = l]
  PROVE  Quiet
<1>1. \A y \in Reviewers, t \in Tasks : listed'[y][t] # "superseded"
  BY DEF Lineage, JobTypes
<1>2. \A y \in Retriers : y # x /\ y \in Threads
  BY Kinds, DelegationAssumption
<1>3. \A y \in Retriers : back'[y] = "done"
  BY <1>2 DEF Lineage, ThreadTypes
<1> QED
  BY <1>1, <1>3 DEF Lineage, Quiet, ThreadsQuiet, Creating

LEMMA BacksQuiet ==
  ASSUME Lineage, ThreadTypes, SameTasks, early => early', ThreadsQuiet, listed' = listed,
         NEW x \in Reviewers \cup {"loop"}, NEW l, back' = [back EXCEPT ![x] = l]
  PROVE  Quiet
<1>1. \A y \in Retriers : y # x /\ y \in Threads
  BY Kinds, DelegationAssumption
<1>2. \A y \in Retriers : back'[y] = "done"
  BY <1>1 DEF Lineage, ThreadTypes
<1> QED
  BY <1>2 DEF Lineage, Quiet, ThreadsQuiet, Creating

(* A retry replaces its tasks and all that is downstream of them. *)
LEMMA SupersedeKeeps ==
  ASSUME TaskTypes, Lineage, NEW seeds \in SUBSET Tasks,
         MayReplace(seeds, Affected(seeds)), Supersede(Affected(seeds)),
         UNCHANGED <<early, listed, back>>, ThreadsQuiet, pc'["batch"] = pc["batch"],
         ~early => ~Creating
  PROVE  Lineage' /\ Whole
<1> DEFINE A == Affected(seeds)
           R == Replacements(A)
<1>1. A \subseteq Effective /\ A \subseteq Tasks
  BY AffectedEffective DEF MayReplace, Affected
<1>2. \A t \in Effective : deps[t] \cap A # {} => t \in A
  BY DEF Affected, Closed, Effective
<1>3. /\ \A t \in A : /\ t \in Tasks /\ Exists(t) /\ ~Replaced(t) /\ t[2] < MaxRetries
                      /\ Next1(t) \in Tasks /\ ~Exists(Next1(t))
      /\ R = {Next1(t) : t \in A}
  <2>1. \A t \in A : t[2] < MaxRetries /\ ~Replaced(t)
    BY DEF MayReplace
  <2> QED
    BY <1>1, <2>1, NextIsTask DEF Effective, Exists, Replaced, Replacements
<1>4. status' = [t \in Tasks |-> CASE t \in A -> "superseded" [] t \in R -> "queued" [] OTHER -> status[t]]
      /\ deps' = [t \in Tasks |-> IF t \in R THEN Substitute(t, A) ELSE deps[t]]
  BY DEF Supersede
<1> HIDE DEF A, R
<1>5. A \cap R = {}
  BY <1>3
<1>6. \A t \in Tasks : /\ t \in A => status'[t] = "superseded"
                       /\ t \in R => status'[t] = "queued"
                       /\ t \notin A \cup R => status'[t] = status[t]
                       /\ t \in R => deps'[t] = Substitute(t, A)
                       /\ t \notin R => deps'[t] = deps[t]
  <2> TAKE t \in Tasks
  <2>1. status'[t] = CASE t \in A -> "superseded" [] t \in R -> "queued" [] OTHER -> status[t]
    BY <1>4
  <2>2. deps'[t] = IF t \in R THEN Substitute(t, A) ELSE deps[t]
    BY <1>4
  <2> QED
    BY <1>5, <2>1, <2>2
<1>7. \A t \in Tasks : Exists(t)' <=> Exists(t) \/ t \in R
  BY <1>3, <1>6 DEF Exists
<1>8. \A t \in Tasks : Replaced(t)' <=> Replaced(t) \/ t \in A
  <2> SUFFICES ASSUME NEW t \in Tasks PROVE Replaced(t)' <=> Replaced(t) \/ t \in A
    OBVIOUS
  <2>1. t[2] < MaxRetries => Next1(t) \in Tasks /\ (Next1(t) \in R <=> t \in A)
    BY <1>3, NextIsTask, Generations
  <2>2. t \in A => t[2] < MaxRetries
    BY <1>3
  <2> QED
    BY <1>7, <2>1, <2>2 DEF Replaced, Exists
<1>9. \A t \in A : ~Replaced(Next1(t))
  <2> SUFFICES ASSUME NEW t \in A, Next1(t)[2] < MaxRetries PROVE ~Exists(Next1(Next1(t)))
    BY DEF Replaced, Exists
  <2>1. /\ Next1(t) \in Tasks /\ Next1(Next1(t)) \in Tasks
        /\ Before(Next1(Next1(t))) = Next1(t) /\ Next1(Next1(t))[2] > 0
    BY <1>3, NextIsTask, Generations
  <2> QED
    BY <1>3, <2>1 DEF Lineage
<1>10. \A t \in A : Newest(Next1(t))'
  <2> TAKE t \in A
  <2>1. Next1(t) \in Tasks /\ Next1(t) \in R /\ Next1(t) \notin A
    BY <1>3, <1>5
  <2> QED
    BY <1>7, <1>8, <1>9, <2>1 DEF Newest
<1>11. \A d \in Tasks \ A : Newest(d) => Newest(d)'
  BY <1>7, <1>8 DEF Newest
<1>12. ASSUME ~early, OrderFollowsDependencies, NEW t \in R, NEW d \in deps'[t] PROVE Newest(d)'
  <2>1. PICK u \in A : t = Next1(u) /\ Before(t) = u /\ t \in Tasks /\ u \in Tasks
    BY <1>3, Generations
  <2>2. PICK e \in deps[u] : d = IF e \in A THEN Next1(e) ELSE e
    BY <1>6, <1>12, <2>1 DEF Substitute
  <2>3. e \in Tasks /\ Newest(e)
    BY <1>3, <1>12, <2>1 DEF Newest, Lineage, TaskTypes
  <2> QED
    BY <1>10, <1>11, <2>2, <2>3
<1>13. ASSUME ~early, OrderFollowsDependencies, NEW t \in Tasks \ R, Newest(t)', NEW d \in deps'[t] PROVE Newest(d)'
  <2>1. Newest(t) /\ t \notin A /\ d \in deps[t] /\ d \in Tasks
    BY <1>6, <1>7, <1>8, <1>13 DEF Newest, TaskTypes
  <2>2. t \in Effective
    BY <2>1 DEF Newest, Lineage, Effective, Exists
  <2>3. d \notin A
    BY <1>2, <2>1, <2>2
  <2>4. Newest(d)
    BY <1>13, <2>1 DEF Lineage
  <2> QED
    BY <1>11, <2>1, <2>3, <2>4
<1>14. \A t \in Tasks : t[2] > 0 /\ Exists(t)' => Exists(Before(t))'
  <2> SUFFICES ASSUME NEW t \in Tasks, t[2] > 0, Exists(t)' PROVE Exists(Before(t))'
    OBVIOUS
  <2>1. Before(t) \in Tasks
    BY Generations
  <2>2. t \in R => Exists(Before(t))
    BY <1>3, Generations
  <2> QED
    BY <1>7, <2>1, <2>2 DEF Lineage
<1>15. \A t \in Tasks : status'[t] = "superseded" => Replaced(t)'
  BY <1>6, <1>8 DEF Lineage
<1>16. Lineage'
  <2>1. /\ \A x \in Reviewers, t \in Tasks : listed'[x][t] # "superseded"
        /\ \A x \in Retriers : back'[x] = "done"
    BY <1>3 DEF Lineage, ThreadsQuiet
  <2>2. pc'["batch"] = "start" => \A t \in Tasks : ~Exists(t)'
    BY <1>3, <1>7, Generations DEF Lineage, ThreadsQuiet, Exists
  <2>3. ~(~early' /\ Creating')
    BY <1>3 DEF ThreadsQuiet, Creating
  <2>4. ~early' /\ OrderFollowsDependencies =>
          \A t \in Tasks : Newest(t)' => \A d \in deps'[t] : Newest(d)'
    <3> SUFFICES ASSUME ~early, OrderFollowsDependencies, NEW t \in Tasks, Newest(t)', NEW d \in deps'[t]
                 PROVE Newest(d)'
      BY <1>3 DEF ThreadsQuiet
    <3>1. CASE t \in R
      BY <1>12, <3>1
    <3>2. CASE t \notin R
      BY <1>13, <3>2
    <3> QED
      BY <3>1, <3>2
  <2> QED
    BY <1>14, <1>15, <2>1, <2>2, <2>3, <2>4 DEF Lineage
<1>17. Whole
  <2> SUFFICES ASSUME ~early, OrderFollowsDependencies, NEW t \in Tasks, t[2] > 0, ~Exists(t), Exists(t)'
               PROVE  /\ status'[Before(t)] = "superseded"
                      /\ \A d \in deps'[t] : status'[d] \notin {"absent", "superseded"}
                      /\ \A u \in Effective : Before(t) \in deps[u] => status'[u] = "superseded"
    BY DEF Whole
  <2>1. t \in R
    BY <1>7
  <2>2. Before(t) \in A /\ Before(t) \in Tasks
    BY <1>3, <2>1, Generations
  <2>3. \A d \in deps'[t] : Newest(d)'
    BY <1>12, <2>1
  <2>4. \A d \in deps'[t] : d \in Tasks
    <3>1. PICK u \in A : t = Next1(u) /\ Before(t) = u
      BY <1>3, <2>1, Generations
    <3> QED
      BY <1>3, <1>6, <2>1, <3>1 DEF Substitute, TaskTypes
  <2>5. \A d \in deps'[t] : status'[d] \notin {"absent", "superseded"}
    BY <1>15, <2>3, <2>4 DEF Newest, Exists
  <2>6. \A u \in Effective : Before(t) \in deps[u] => u \in A /\ u \in Tasks
    BY <1>2, <1>3, <2>2
  <2> QED
    BY <1>6, <2>2, <2>5, <2>6
<1> QED
  BY <1>16, <1>17

LEMMA LineageStep ==
  ASSUME IInv, Lineage, [Next]_vars
  PROVE  Lineage' /\ Whole
<1> USE TypeParts DEF IInv
<1>1. ASSUME CreateRun PROVE Lineage' /\ Whole
  <2>1. /\ UNCHANGED <<status, deps, listed, back, early>> /\ pc["batch"] = "start"
        /\ pc' = [pc EXCEPT !["batch"] = "create"]
    BY <1>1 DEF CreateRun, taskVars, memVars, histVars, Goto
  <2>2. Quiet
    BY <2>1, Kinds, SameStatus DEF Quiet, Lineage, Creating, ThreadTypes
  <2> QED
    BY <2>2, QuietKeeps
<1>2. ASSUME CreateTask PROVE Lineage' /\ Whole
  <2>1. PICK i \in 1 .. Len(Order) :
          /\ i \notin Created /\ 1 .. (i - 1) \subseteq Created
          /\ status' = WithStatus(First(Order[i]), "queued")
          /\ deps' = [deps EXCEPT ![First(Order[i])] = {First(d) : d \in Dep[Order[i]]}]
          /\ Goto("batch", IF i = Len(Order) THEN "loop" ELSE "create")
    BY <1>2 DEF CreateTask
  <2> DEFINE new == First(Order[i])
  <2>2. UNCHANGED <<early, listed, back>> /\ pc["batch"] = "create"
    BY <1>2 DEF CreateTask, histVars, memVars
  <2>3. /\ Order[i] \in Names /\ Dep[Order[i]] \subseteq Names
        /\ OrderFollowsDependencies => Dep[Order[i]] \subseteq {Order[j] : j \in 1 .. (i - 1)}
    BY DelegationAssumption DEF OrderFollowsDependencies
  <2>4. new \in Tasks /\ ~Exists(new) /\ new[2] = 0
    BY <2>1, <2>3, FirstIsTask DEF Created, First, Exists
  <2>5. ASSUME OrderFollowsDependencies, NEW d \in Dep[Order[i]]
        PROVE  First(d) \in Tasks /\ Exists(First(d)) /\ First(d)[2] = 0
    <3>1. PICK j \in 1 .. (i - 1) : d = Order[j]
      BY <2>3, <2>5
    <3>2. j \in Created
      BY <2>1
    <3>3. d \in Names
      BY <2>3, DelegationAssumption
    <3> QED
      BY <3>1, <3>2, <3>3, FirstIsTask DEF Created, Exists, First
  <2>6. /\ \A t \in Tasks : status'[t] = IF t = new THEN "queued" ELSE status[t]
        /\ \A t \in Tasks : t # new => deps'[t] = deps[t]
        /\ deps'[new] = {First(d) : d \in Dep[Order[i]]}
    BY <2>1, <2>4 DEF WithStatus, TaskTypes
  <2>7. pc'["batch"] \in {"loop", "create"} /\ \A x \in Retriers : pc'[x] = pc[x]
    BY <2>1, Kinds DEF Goto, ThreadTypes
  <2> HIDE DEF new
  <2>8. \A t \in Tasks : Exists(t)' <=> t = new \/ Exists(t)
    BY <2>6 DEF Exists
  <2>9. \A t \in Tasks : /\ t[2] < MaxRetries => Next1(t) \in Tasks /\ Next1(t) # new
                         /\ t[2] > 0 => Before(t) \in Tasks
    BY <2>4, Generations, NextIsTask
  <2>10. \A t \in Tasks : Replaced(t)' <=> Replaced(t)
    BY <2>6, <2>9 DEF Replaced
  <2>11. ASSUME ~early, OrderFollowsDependencies, NEW t \in Tasks, Newest(t)', NEW d \in deps'[t] PROVE Newest(d)'
    <3>1. CASE t = new
      <4>1. d \in Tasks /\ Exists(d)
        BY <2>5, <2>6, <2>11, <3>1
      <4>2. d[2] < MaxRetries => Next1(d)[2] > 0
        BY <4>1, Generations
      <4>3. ~Replaced(d)
        BY <2>2, <2>9, <2>11, <4>1, <4>2 DEF Lineage, Creating, Replaced, Exists
      <4> QED
        BY <2>8, <2>10, <4>1, <4>3 DEF Newest
    <3>2. CASE t # new
      <4>1. Newest(t) /\ d \in deps[t] /\ d \in Tasks
        BY <2>6, <2>8, <2>10, <2>11, <3>2 DEF Newest, TaskTypes
      <4>2. Newest(d)
        BY <2>11, <4>1 DEF Lineage
      <4> QED
        BY <2>8, <2>10, <4>1, <4>2 DEF Newest
    <3> QED
      BY <3>1, <3>2
  <2>12. /\ \A t \in Tasks : t[2] > 0 /\ Exists(t)' => Exists(Before(t))'
         /\ \A t \in Tasks : status'[t] = "superseded" => Replaced(t)'
         /\ ~early /\ Creating' => /\ \A t \in Tasks : t[2] > 0 => ~Exists(t)'
                                   /\ \A x \in Retriers : pc'[x] # "replace"
    BY <2>2, <2>4, <2>6, <2>7, <2>8, <2>9, <2>10 DEF Lineage, Creating
  <2>13. Lineage'
    BY <2>2, <2>7, <2>11, <2>12 DEF Lineage
  <2>14. Whole
    BY <2>4, <2>8 DEF Whole
  <2> QED
    BY <2>13, <2>14
<1>3. ASSUME CreateRaises PROVE Lineage' /\ Whole
  <2>1. UNCHANGED <<status, deps, listed, back>> /\ (early => early')
    BY <1>3 DEF CreateRaises, taskVars, memVars, histVars, Request
  <2>2. ThreadsQuiet
    BY <1>3, Kinds, GotoQuiet DEF CreateRaises, Executors
  <2> QED
    BY <2>1, <2>2, SameStatus, IsQuiet, QuietKeeps
<1>4. ASSUME BatchWave PROVE Lineage' /\ Whole
  BY <1>4, SameStatus, SamePc, IsQuiet, QuietKeeps DEF BatchWave, taskVars, memVars, histVars
<1>5. ASSUME BatchThrough PROVE Lineage' /\ Whole
  <2>1. UNCHANGED <<status, deps, listed, back>> /\ (early => early')
    BY <1>5 DEF BatchThrough, taskVars, memVars, histVars, Request
  <2>2. pc' = pc \/ \E l : Goto("batch", l) /\ ("batch" \in Executors => l \notin {"start", "create", "replace"})
    BY <1>5, Kinds DEF BatchThrough, Executors
  <2> QED
    BY <2>1, <2>2, Kinds, SameStatus, SamePc, GotoQuiet, IsQuiet, QuietKeeps
<1>6. ASSUME BatchCancels PROVE Lineage' /\ Whole
  <2>1. UNCHANGED <<status, deps, listed, back>> /\ (early => early')
    BY <1>6 DEF BatchCancels, Rescue, taskVars, memVars, histVars, Request
  <2>2. ThreadsQuiet
    BY <1>6, Kinds, GotoQuiet DEF BatchCancels, Rescue, Executors
  <2> QED
    BY <2>1, <2>2, SameStatus, IsQuiet, QuietKeeps
<1>7. ASSUME BatchRaises PROVE Lineage' /\ Whole
  <2>1. UNCHANGED <<status, deps, listed, back>> /\ (early => early')
    BY <1>7 DEF BatchRaises, Rescue, taskVars, memVars, histVars, Request
  <2>2. ThreadsQuiet
    BY <1>7, Kinds, GotoQuiet DEF BatchRaises, Rescue, Executors
  <2> QED
    BY <2>1, <2>2, SameStatus, IsQuiet, QuietKeeps
<1>8. ASSUME BatchFinalizes PROVE Lineage' /\ Whole
  <2>1. UNCHANGED <<status, deps, listed, back>> /\ (early => early')
    BY <1>8 DEF BatchFinalizes, taskVars, memVars, histVars, Request
  <2>2. ThreadsQuiet
    BY <1>8, Kinds, GotoQuiet DEF BatchFinalizes, Executors
  <2> QED
    BY <2>1, <2>2, SameStatus, IsQuiet, QuietKeeps
<1>9. ASSUME BatchSynthesizes PROVE Lineage' /\ Whole
  <2>1. UNCHANGED <<status, deps, listed, early>> /\ back' = [back EXCEPT !["batch"] = "done"]
    BY <1>9 DEF BatchSynthesizes, CallReconcile, taskVars, histVars
  <2>2. back' = back
    BY <2>1, Kinds DEF BatchInOrder, ThreadTypes
  <2>3. ThreadsQuiet
    BY <1>9, Kinds, GotoQuiet DEF BatchSynthesizes, CallReconcile
  <2> QED
    BY <2>1, <2>2, <2>3, SameStatus, IsQuiet, QuietKeeps
<1>10. ASSUME NEW n \in Names, BatchCancelled(n) PROVE Lineage' /\ Whole
  <2>1. Claim(First(n), Open, "cancelled") /\ UNCHANGED <<deps, listed, back, early, pc>>
    BY <1>10 DEF BatchCancelled, GiveUp, histVars, memVars
  <2>2. First(n) \in Tasks
    BY FirstIsTask
  <2>3. SameTasks
    BY <2>1, <2>2, ClaimSame
  <2> QED
    BY <2>1, <2>3, SamePc, IsQuiet, QuietKeeps
<1>11. ASSUME NEW n \in Names, BatchBlocked(n) PROVE Lineage' /\ Whole
  <2>1. Claim(First(n), Open, "failed") /\ UNCHANGED <<deps, listed, back, early, pc>>
    BY <1>11 DEF BatchBlocked, GiveUp, histVars, memVars
  <2>2. First(n) \in Tasks
    BY FirstIsTask
  <2>3. SameTasks
    BY <2>1, <2>2, ClaimSame
  <2> QED
    BY <2>1, <2>3, SamePc, IsQuiet, QuietKeeps
<1>12. ASSUME NEW x \in Threads, Read(x) PROVE Lineage' /\ Whole
  <2>1. UNCHANGED <<status, deps, listed, back, early>>
    BY <1>12 DEF Read, taskVars, histVars
  <2>2. Goto(x, back[x]) \/ Goto(x, "write")
    BY <1>12 DEF Read
  <2>3. x \in Executors => back[x] = "done"
    BY DEF Executors, Lineage, BatchInOrder
  <2>4. ThreadsQuiet
    BY <2>2, <2>3, GotoQuiet
  <2> QED
    BY <2>1, <2>4, SameStatus, IsQuiet, QuietKeeps
<1>13. ASSUME NEW x \in Threads, Write(x) PROVE Lineage' /\ Whole
  <2>1. UNCHANGED <<status, deps, listed, back, early>> /\ Goto(x, back[x])
    BY <1>13 DEF Write, taskVars, histVars
  <2>2. x \in Executors => back[x] = "done"
    BY DEF Executors, Lineage, BatchInOrder
  <2>3. ThreadsQuiet
    BY <2>1, <2>2, GotoQuiet
  <2> QED
    BY <2>1, <2>3, SameStatus, IsQuiet, QuietKeeps
<1>14. ASSUME NEW x \in Executors, NEW t \in Tasks, Check(x, t) PROVE Lineage' /\ Whole
  BY <1>14, SameStatus, SamePc, IsQuiet, QuietKeeps DEF Check, taskVars, memVars, histVars
<1>15. ASSUME NEW x \in Executors, NEW t \in Tasks, SpawnRefused(x, t) PROVE Lineage' /\ Whole
  BY <1>15, SameStatus, SamePc, IsQuiet, QuietKeeps DEF SpawnRefused, taskVars, memVars, histVars
<1>16. ASSUME NEW x \in Executors, NEW t \in Tasks, Spawned(x, t) PROVE Lineage' /\ Whole
  <2>1. Claim(t, {"queued"}, "running") /\ UNCHANGED <<deps, listed, back, early, pc>>
    BY <1>16 DEF Spawned, memVars, histVars
  <2>2. SameTasks
    BY <2>1, SettledNames, ClaimSame
  <2> QED
    BY <2>1, <2>2, SamePc, IsQuiet, QuietKeeps
<1>17. ASSUME NEW x \in Executors, NEW t \in Tasks, ChildEnds(x, t) PROVE Lineage' /\ Whole
  <2>1. PICK o \in Outcomes : \/ status' = WithStatus(t, o)
                              \/ Claim(t, Open, "failed")
                              \/ UNCHANGED status
    BY <1>17 DEF ChildEnds
  <2>2. UNCHANGED <<deps, listed, back, early, pc>>
    BY <1>17 DEF ChildEnds, memVars
  <2>3. Exists(t) /\ o \notin {"absent", "superseded"}
    BY <1>17, StatusNames, SettledNames DEF ChildEnds, QueueLeft, Started, Exists
  <2>4. SameTasks
    <3>1. CASE status' = WithStatus(t, o)
      BY <2>2, <2>3, <3>1, SetSame
    <3>2. CASE Claim(t, Open, "failed")
      BY <2>2, <3>2, ClaimSame
    <3>3. CASE UNCHANGED status
      BY <2>2, <3>3, SameStatus
    <3> QED
      BY <2>1, <3>1, <3>2, <3>3
  <2> QED
    BY <2>2, <2>4, SamePc, IsQuiet, QuietKeeps
<1>18. ASSUME NEW x \in Executors, NEW t \in Tasks, Persist(x, t) PROVE Lineage' /\ Whole
  <2>1. Claim(t, Reported(x, t), outcome[<<x, t>>]) /\ UNCHANGED <<deps, listed, back, early, pc>>
    BY <1>18 DEF Persist, memVars, histVars
  <2>2. Reported(x, t) \in SUBSET Open
    BY DEF Reported, Open
  <2>3. outcome[<<x, t>>] \notin {"absent", "superseded"}
    BY StatusNames, SettledNames DEF JobTypes, Jobs
  <2>4. SameTasks
    BY <2>1, <2>2, <2>3, ClaimSame
  <2> QED
    BY <2>1, <2>4, SamePc, IsQuiet, QuietKeeps
<1>19. ASSUME NEW x \in Retriers, Retry(x) PROVE Lineage' /\ Whole
  <2>1. /\ UNCHANGED <<status, deps, listed, back>>
        /\ early' = (early \/ pc["batch"] = "create")
        /\ pc' = [pc EXCEPT ![x] = "replace"]
    BY <1>19 DEF Retry, RequestRetry, Request, Goto, taskVars
  <2>2. \E t \in Tasks : Exists(t)
    BY <1>19 DEF Retry, Exists, Retryable
  <2>3. pc["batch"] # "start"
    BY <2>2 DEF Lineage
  <2>4. pc'["batch"] = pc["batch"] /\ (Creating' => early')
    BY <2>1, <2>3, Kinds DEF ThreadTypes, Creating
  <2>5. Quiet
    BY <2>1, <2>4, SameStatus DEF Quiet, Lineage, Creating
  <2> QED
    BY <2>5, QuietKeeps
<1>20. ASSUME NEW x \in Retriers, Resume(x) PROVE Lineage' /\ Whole
  <2>1. /\ UNCHANGED <<status, deps, listed, back>>
        /\ early' = (early \/ pc["batch"] = "create")
        /\ pc' = [pc EXCEPT ![x] = "replace"]
    BY <1>20 DEF Resume, RequestRetry, Request, Goto, taskVars
  <2>2. \E t \in Tasks : Exists(t)
    BY <1>20 DEF Resume, Exists, Retryable
  <2>3. pc["batch"] # "start"
    BY <2>2 DEF Lineage
  <2>4. pc'["batch"] = pc["batch"] /\ (Creating' => early')
    BY <2>1, <2>3, Kinds DEF ThreadTypes, Creating
  <2>5. Quiet
    BY <2>1, <2>4, SameStatus DEF Quiet, Lineage, Creating
  <2> QED
    BY <2>5, QuietKeeps
<1>21. ASSUME NEW x \in Retriers, Replace(x) PROVE Lineage' /\ Whole
  <2>1. UNCHANGED <<early, listed, back>> /\ pc[x] = "replace"
    BY <1>21 DEF Replace, histVars
  <2>2. /\ ThreadsQuiet /\ pc'["batch"] = pc["batch"]
    BY <1>21, Kinds, GotoQuiet DEF Replace, Goto, ThreadTypes
  <2>3. CASE UNCHANGED <<status, deps>>
    BY <2>1, <2>2, <2>3, SameStatus, IsQuiet, QuietKeeps
  <2>4. CASE MayReplace(todo[x], Affected(todo[x])) /\ Supersede(Affected(todo[x]))
    <3>1. todo[x] \in SUBSET Tasks
      BY Kinds DEF ThreadTypes
    <3>2. ~early => ~Creating
      BY <2>1 DEF Lineage
    <3> QED
      BY <2>1, <2>2, <2>4, <3>1, <3>2, SupersedeKeeps
  <2> QED
    BY <1>21, <2>3, <2>4 DEF Replace, taskVars
<1>22. ASSUME NEW x \in Retriers, ListTasks(x) PROVE Lineage' /\ Whole
  <2>1. /\ UNCHANGED <<status, deps, listed, early>>
        /\ back' = [back EXCEPT ![x] = "done"] \/ back' = back
    BY <1>22 DEF ListTasks, CallReconcile, taskVars, histVars
  <2>2. back' = back
    BY <2>1, Kinds DEF Lineage, ThreadTypes
  <2>3. \E l : Goto(x, l) /\ l \notin {"start", "create", "replace"}
    BY <1>22 DEF ListTasks, CallReconcile
  <2>4. ThreadsQuiet
    BY <2>3, Kinds, GotoQuiet
  <2> QED
    BY <2>1, <2>2, <2>4, SameStatus, IsQuiet, QuietKeeps
<1>23. ASSUME NEW x \in Retriers, FailBlocked(x) PROVE Lineage' /\ Whole
  <2>1. UNCHANGED <<deps, listed, back, early>>
    BY <1>23 DEF FailBlocked, histVars
  <2>2. UNCHANGED status \/ \E t \in todo[x] : Claim(t, {"queued"}, "failed")
    BY <1>23 DEF FailBlocked
  <2>3. todo[x] \subseteq Tasks
    BY Kinds DEF ThreadTypes
  <2>4. SameTasks
    BY <2>1, <2>2, <2>3, SettledNames, SameStatus, ClaimSame
  <2>5. pc' = pc \/ \E l : Goto(x, l) /\ l \notin {"start", "create", "replace"}
    BY <1>23 DEF FailBlocked
  <2>6. ThreadsQuiet
    BY <2>5, Kinds, SamePc, GotoQuiet
  <2> QED
    BY <2>1, <2>4, <2>6, IsQuiet, QuietKeeps
<1>24. ASSUME NEW x \in Retriers, Wave(x) PROVE Lineage' /\ Whole
  <2>1. UNCHANGED <<status, deps, listed, back>> /\ (early => early')
    BY <1>24 DEF Wave, taskVars, memVars, histVars, Request
  <2>2. ThreadsQuiet
    BY <1>24, Kinds, GotoQuiet DEF Wave, Executors
  <2> QED
    BY <2>1, <2>2, SameStatus, IsQuiet, QuietKeeps
<1>25. ASSUME NEW x \in Retriers, WaveDone(x) PROVE Lineage' /\ Whole
  <2>1. UNCHANGED <<status, deps, listed, back>> /\ (early => early')
    BY <1>25 DEF WaveDone, taskVars, memVars, histVars, Request
  <2>2. pc' = pc \/ \E l : Goto(x, l) /\ (x \in Executors => l \notin {"start", "create", "replace"})
    BY <1>25, Kinds DEF WaveDone, Executors
  <2> QED
    BY <2>1, <2>2, Kinds, SameStatus, SamePc, GotoQuiet, IsQuiet, QuietKeeps
<1>26. ASSUME NEW x \in Reviewers, Integrate(x) PROVE Lineage' /\ Whole
  <2> DEFINE f == [t \in Tasks |-> IF t \in todo'[x] /\ (status[t] = "running" \/ t \in kept)
                                   THEN status[t] ELSE "absent"]
  <2>1. /\ UNCHANGED <<status, deps, back>> /\ (early => early')
        /\ listed' = [listed EXCEPT ![x] = f]
    BY <1>26 DEF Integrate, taskVars, Request
  <2>2. todo'[x] \subseteq Effective
    <3>1. PICK others \in {{}} \cup {{t} : t \in Effective} : todo' = [todo EXCEPT ![x] = Reviewable \cup others]
      BY <1>26 DEF Integrate
    <3>2. todo'[x] = Reviewable \cup others
      BY <3>1, Kinds DEF ThreadTypes
    <3> QED
      BY <3>1, <3>2 DEF Reviewable
  <2>3. \A t \in Tasks : f[t] # "superseded"
    BY <2>2 DEF Effective
  <2> HIDE DEF f
  <2>4. ThreadsQuiet
    BY <1>26, Kinds, GotoQuiet DEF Integrate, Executors
  <2> QED
    BY <2>1, <2>3, <2>4, SameStatus, ListsQuiet, QuietKeeps
<1>27. ASSUME NEW x \in Reviewers, StartIntegration(x) PROVE Lineage' /\ Whole
  <2>1. /\ UNCHANGED <<status, deps, back, early>>
        /\ listed' = listed \/ listed' = [listed EXCEPT ![x] = NothingListed]
    BY <1>27 DEF StartIntegration, taskVars, histVars
  <2>2. \E l : Goto(x, l) /\ l \notin {"start", "create", "replace"}
    BY <1>27 DEF StartIntegration
  <2>3. ThreadsQuiet
    BY <2>2, Kinds, GotoQuiet
  <2>4. \A t \in Tasks : NothingListed[t] # "superseded"
    BY DEF NothingListed
  <2> QED
    BY <2>1, <2>3, <2>4, SameStatus, ListsQuiet, IsQuiet, QuietKeeps
<1>28. ASSUME NEW x \in Reviewers, ResolveRaises(x) PROVE Lineage' /\ Whole
  <2>1. /\ UNCHANGED <<status, deps, back, early>>
        /\ listed' = listed \/ listed' = [listed EXCEPT ![x] = NothingListed]
    BY <1>28 DEF ResolveRaises, taskVars, histVars
  <2>2. \E l : Goto(x, l) /\ l \notin {"start", "create", "replace"}
    BY <1>28 DEF ResolveRaises
  <2>3. ThreadsQuiet
    BY <2>2, Kinds, GotoQuiet
  <2>4. \A t \in Tasks : NothingListed[t] # "superseded"
    BY DEF NothingListed
  <2> QED
    BY <2>1, <2>3, <2>4, SameStatus, ListsQuiet, IsQuiet, QuietKeeps
<1>29. ASSUME NEW x \in Reviewers, ResolveViolation(x) PROVE Lineage' /\ Whole
  <2>1. PICK t \in todo[x] : Available(x, t) /\ status' = WithStatus(t, listed[x][t])
    BY <1>29 DEF ResolveViolation
  <2>2. /\ UNCHANGED <<deps, back, early>> /\ Goto(x, "settle")
        /\ listed' = [listed EXCEPT ![x] = NothingListed]
    BY <1>29 DEF ResolveViolation, histVars
  <2>3. t \in Tasks
    BY <2>1, Kinds DEF ThreadTypes
  <2>4. Exists(t) /\ listed[x][t] \notin {"absent", "superseded"}
    BY <2>1, <2>3 DEF Available, Lineage, QueueLeft, Started, Exists
  <2>5. SameTasks
    BY <2>1, <2>2, <2>3, <2>4, SetSame
  <2>6. ThreadsQuiet
    BY <2>2, Kinds, GotoQuiet
  <2>7. \A u \in Tasks : NothingListed[u] # "superseded"
    BY DEF NothingListed
  <2> QED
    BY <2>2, <2>5, <2>6, <2>7, ListsQuiet, QuietKeeps
<1>30. ASSUME NEW x \in Reviewers, Resolve(x) PROVE Lineage' /\ Whole
  <2>1. PICK t \in todo[x], r \in {"applied", "retained", "discarded", "conflict"} :
          listed' = [listed EXCEPT ![x] = IF r = "conflict" THEN NothingListed
                                          ELSE [@ EXCEPT ![t] = "absent"]]
    BY <1>30 DEF Resolve
  <2>2. UNCHANGED <<status, deps, early>> /\ Goto(x, "read") /\ \E l : back' = [back EXCEPT ![x] = l]
    BY <1>30 DEF Resolve, CallReconcile, histVars
  <2> DEFINE f == IF r = "conflict" THEN NothingListed ELSE [listed[x] EXCEPT ![t] = "absent"]
  <2>3. listed' = [listed EXCEPT ![x] = f]
    BY <2>1
  <2>4. \A u \in Tasks : f[u] # "superseded"
    BY DEF NothingListed, JobTypes, Lineage
  <2> HIDE DEF f
  <2>5. ThreadsQuiet
    BY <2>2, Kinds, GotoQuiet
  <2> QED
    BY <2>2, <2>3, <2>4, <2>5, SameStatus, ListsQuiet, QuietKeeps
<1>31. ASSUME NEW x \in Reviewers, Settle(x) PROVE Lineage' /\ Whole
  <2>1. UNCHANGED <<status, deps, listed, back>> /\ (early => early')
    BY <1>31 DEF Settle, taskVars, memVars, histVars, Request
  <2>2. ThreadsQuiet
    BY <1>31, Kinds, GotoQuiet DEF Settle, Executors
  <2> QED
    BY <2>1, <2>2, SameStatus, IsQuiet, QuietKeeps
<1>32. ASSUME NEW x \in Reviewers, Resolved(x) PROVE Lineage' /\ Whole
  <2>1. /\ UNCHANGED <<status, deps, listed, early>> /\ Goto(x, "read")
        /\ back' = [back EXCEPT ![x] = "verify"]
    BY <1>32 DEF Resolved, CallReconcile, taskVars, histVars
  <2>2. ThreadsQuiet
    BY <2>1, Kinds, GotoQuiet
  <2> QED
    BY <2>1, <2>2, SameStatus, BacksQuiet, QuietKeeps
<1>33. ASSUME NEW x \in Reviewers, StartVerification(x) PROVE Lineage' /\ Whole
  <2>1. UNCHANGED <<status, deps, listed, back>> /\ (early => early')
    BY <1>33 DEF StartVerification, taskVars, memVars, histVars, Request
  <2>2. pc' = pc \/ \E l : Goto(x, l) /\ (x \in Executors => l \notin {"start", "create", "replace"})
    BY <1>33, Kinds DEF StartVerification, Executors
  <2> QED
    BY <2>1, <2>2, Kinds, SameStatus, SamePc, GotoQuiet, IsQuiet, QuietKeeps
<1>34. ASSUME NEW x \in Reviewers, Verify(x) PROVE Lineage' /\ Whole
  <2>1. UNCHANGED <<status, deps, listed, back>> /\ (early => early')
    BY <1>34 DEF Verify, Request, taskVars, memVars, histVars, Request
  <2>2. ThreadsQuiet
    BY <1>34, Kinds, GotoQuiet DEF Verify, Request, Executors
  <2> QED
    BY <2>1, <2>2, SameStatus, IsQuiet, QuietKeeps
<1>35. ASSUME NEW x \in Reviewers, SkipVerification(x) PROVE Lineage' /\ Whole
  <2>1. UNCHANGED <<status, deps, listed, back>> /\ (early => early')
    BY <1>35 DEF SkipVerification, taskVars, memVars, histVars, Request
  <2>2. ThreadsQuiet
    BY <1>35, Kinds, GotoQuiet DEF SkipVerification, Executors
  <2> QED
    BY <2>1, <2>2, SameStatus, IsQuiet, QuietKeeps
<1>36. ASSUME NEW x \in Reviewers, RunVerification(x) PROVE Lineage' /\ Whole
  <2>1. UNCHANGED <<status, deps, listed, back>> /\ (early => early')
    BY <1>36 DEF RunVerification, taskVars, memVars, histVars, Request
  <2>2. pc' = pc \/ \E l : Goto(x, l) /\ (x \in Executors => l \notin {"start", "create", "replace"})
    BY <1>36, Kinds DEF RunVerification, Executors
  <2> QED
    BY <2>1, <2>2, Kinds, SameStatus, SamePc, GotoQuiet, IsQuiet, QuietKeeps
<1>37. ASSUME NEW x \in Reviewers, Verified(x) PROVE Lineage' /\ Whole
  <2>1. UNCHANGED <<status, deps, listed, back>> /\ (early => early')
    BY <1>37 DEF Verified, taskVars, memVars, histVars, Request
  <2>2. ThreadsQuiet
    BY <1>37, Kinds, GotoQuiet DEF Verified, Executors
  <2> QED
    BY <2>1, <2>2, SameStatus, IsQuiet, QuietKeeps
<1>38. ASSUME CancelRun PROVE Lineage' /\ Whole
  <2>1. UNCHANGED <<status, deps, listed, back>> /\ (early => early')
    BY <1>38 DEF CancelRun, Request, taskVars, memVars, histVars, Request
  <2>2. ThreadsQuiet
    BY <1>38, Kinds, GotoQuiet DEF CancelRun, Request, Executors
  <2> QED
    BY <2>1, <2>2, SameStatus, IsQuiet, QuietKeeps
<1>39. ASSUME CancelListed PROVE Lineage' /\ Whole
  <2>1. UNCHANGED <<deps, listed, back, early>>
    BY <1>39 DEF CancelListed, histVars
  <2>2. UNCHANGED status \/ \E t \in todo["loop"] : Claim(t, Open, "cancelled")
    BY <1>39 DEF CancelListed
  <2>3. todo["loop"] \subseteq Tasks
    BY Kinds DEF ThreadTypes
  <2>4. SameTasks
    BY <2>1, <2>2, <2>3, SameStatus, ClaimSame
  <2>5. pc' = pc \/ Goto("loop", "cancelEnd")
    BY <1>39 DEF CancelListed
  <2>6. ThreadsQuiet
    BY <2>5, Kinds, SamePc, GotoQuiet
  <2> QED
    BY <2>1, <2>4, <2>6, IsQuiet, QuietKeeps
<1>40. ASSUME CancelEnds PROVE Lineage' /\ Whole
  <2>1. UNCHANGED <<status, deps, listed, back>> /\ (early => early')
    BY <1>40 DEF CancelEnds, taskVars, memVars, histVars, Request
  <2>2. ThreadsQuiet
    BY <1>40, Kinds, GotoQuiet DEF CancelEnds, Executors
  <2> QED
    BY <2>1, <2>2, SameStatus, IsQuiet, QuietKeeps
<1>41. ASSUME NEW t \in Tasks, CancelTask(t) PROVE Lineage' /\ Whole
  <2>1. /\ status' = WithStatus(t, "cancelled") /\ Exists(t)
        /\ UNCHANGED <<deps, listed>> /\ (early => early')
        /\ Goto("loop", "read") /\ back' = [back EXCEPT !["loop"] = "start"]
    BY <1>41 DEF CancelTask, CallReconcile, Request, Exists
  <2>2. SameTasks
    BY <2>1, SetSame
  <2>3. ThreadsQuiet
    BY <2>1, Kinds, GotoQuiet
  <2> QED
    BY <2>1, <2>2, <2>3, Kinds, BacksQuiet, QuietKeeps
<1>42. ASSUME CancelParent PROVE Lineage' /\ Whole
  BY <1>42, SameStatus, SamePc, IsQuiet, QuietKeeps DEF CancelParent, Request, taskVars, memVars, histVars
<1>43. ASSUME Restart PROVE Lineage' /\ Whole
  <2>1. /\ UNCHANGED <<deps, listed, back>> /\ (early => early')
        /\ pc' = [x \in Threads |-> IF x = "loop" THEN "start"
                                    ELSE IF pc[x] = "start" /\ x # "batch" THEN "start" ELSE "done"]
    BY <1>43 DEF Restart, Request, memVars
  <2>2. \/ UNCHANGED status
        \/ status' = [t \in Tasks |-> IF t \in Interrupted THEN "interrupted" ELSE status[t]]
    BY <1>43 DEF Restart
  <2>3. SameTasks
    BY <2>1, <2>2, SameStatus DEF SameTasks, Exists, Interrupted, Open
  <2>4. ThreadsQuiet
    BY <2>1, Kinds DEF ThreadsQuiet
  <2> QED
    BY <2>1, <2>3, <2>4, IsQuiet, QuietKeeps
<1>44. CASE UNCHANGED vars
  BY <1>44, SameStatus, SamePc, IsQuiet, QuietKeeps DEF vars, taskVars, memVars, histVars
<1> QED
  BY Kinds, <1>1, <1>2, <1>3, <1>4, <1>5, <1>6, <1>7, <1>8, <1>9, <1>10, <1>11,
     <1>12, <1>13, <1>14, <1>15, <1>16, <1>17, <1>18, <1>19, <1>20, <1>21, <1>22,
     <1>23, <1>24, <1>25, <1>26, <1>27, <1>28, <1>29, <1>30, <1>31, <1>32, <1>33,
     <1>34, <1>35, <1>36, <1>37, <1>38, <1>39, <1>40, <1>41, <1>42, <1>43, <1>44
  DEF Next, Batch, Reconcile, EventLoop, Requests, Scheduler, Review, Execute

-----------------------------------------------------------------------------
(* What a completed run has earned.                                        *)

Earned(t) ==
  /\ status[t] \in Open => review[t] # "none"
  /\ t[1] \in Required => t \in successes
AllEarned == \A t \in Tasks : Newest(t) => Earned(t)

(* Nobody else is at work before the batch has created its tasks. *)
Beginning ==
  /\ pc["batch"] = "start" => run.status = "absent" /\ ~early
  /\ ~early /\ Creating =>
       /\ run.status \in {"absent", "running"}
       /\ \A x \in Threads \ {"batch"} : pc[x] = "start"

(* A conclusion "completed" holds for as long as its version is that of the run:
   only a retry makes a task open again, and a retry changes the version. *)
Conclusions ==
  /\ \A x \in Threads : back[x] # "write"
  /\ \A x \in Threads : pc[x] = "write" => seen[x] <= run.version
  /\ pc["batch"] = "rescue" => goal["batch"].status # "completed"
  /\ ~early => \A x \in Threads :
       pc[x] = "write" /\ goal[x].status = "completed" /\ seen[x] = run.version => AllEarned

Completions == ~early /\ run.status = "completed" /\ run.verified = "none" => AllEarned

EInv == Beginning /\ Conclusions /\ Completions

LEMMA ConcludedEarned ==
  ASSUME TaskTypes, SuccessEarned, Lineage, Concluded.status = "completed"
  PROVE  AllEarned
<1>1. /\ \A t \in Effective : status[t] \notin Open
      /\ \A t \in Effective : t[1] \in Required => status[t] \notin Retryable
  BY DEF Concluded, Decision
<1> SUFFICES ASSUME NEW t \in Tasks, Newest(t) PROVE Earned(t)
  BY DEF AllEarned
<1>2. status[t] \in Statuses /\ status[t] \notin {"absent", "superseded"} /\ t \in Effective
  BY DEF Newest, Exists, Lineage, Effective, TaskTypes
<1>3. t[1] \in Required => status[t] \in Success
  BY <1>1, <1>2 DEF Statuses, Settled
<1> QED
  BY <1>1, <1>2, <1>3 DEF Earned, SuccessEarned

(* Most steps open no task that was not, or leave it with a review. *)
SoftStep ==
  /\ SameTasks
  /\ successes \subseteq successes'
  /\ \A t \in Tasks : status'[t] \in Open /\ review'[t] = "none" => status[t] \in Open /\ review[t] = "none"

LEMMA SoftEarned == ASSUME SoftStep, AllEarned PROVE AllEarned'
<1>1. \A t \in Tasks : Newest(t)' => Newest(t)
  BY NextIsTask DEF SoftStep, SameTasks, Newest, Replaced, Exists
<1> QED
  BY <1>1 DEF AllEarned, Earned, SoftStep

LEMMA SameSoft ==
  ASSUME UNCHANGED <<status, deps>>, successes \subseteq successes',
         \A t \in Tasks : review'[t] = "none" => review[t] = "none"
  PROVE  SoftStep
BY SameStatus DEF SoftStep

LEMMA SetSoft ==
  ASSUME TaskTypes, NEW t \in Tasks, NEW s, s \notin {"absent", "superseded"}, Exists(t),
         status' = WithStatus(t, s), deps' = deps, successes \subseteq successes',
         s \in Open => review'[t] # "none",
         \A u \in Tasks : review'[u] = "none" => review[u] = "none"
  PROVE  SoftStep
<1>1. \A u \in Tasks : status'[u] = IF u = t THEN s ELSE status[u]
  BY DEF WithStatus, TaskTypes
<1> QED
  BY <1>1, SetSame DEF SoftStep

LEMMA ClaimSoft ==
  ASSUME TaskTypes, NEW t \in Tasks, NEW s, s \notin {"absent", "superseded"},
         NEW expected \in SUBSET Open, Claim(t, expected, s), deps' = deps,
         successes \subseteq successes', \A u \in Tasks : review'[u] = "none" => review[u] = "none"
  PROVE  SoftStep
<1>1. \A u \in Tasks : status'[u] \in Open => status[u] \in Open
  BY DEF Claim, WithStatus, TaskTypes
<1> QED
  BY <1>1, ClaimSame DEF SoftStep

(* The row of the run: what completes it has been earned. *)
RunKept ==
  \/ run' = run
  \/ /\ run'.version \in Nat /\ run.version <= run'.version
     /\ run'.status = "completed" /\ run'.verified = "none" /\ ~early => AllEarned

LEMMA TransitionKept ==
  ASSUME RunTypes, NEW s, s # "completed", NEW p, Transition(s, p)
  PROVE  RunKept
BY DEF RunTypes, Transition, RunKept

LEMMA FinalizeKept ==
  ASSUME RunTypes, NEW v, NEW s, NEW p, NEW verdict, Finalize(v, s, p, verdict),
         s = "completed" /\ verdict = "none" /\ v = run.version /\ ~early => AllEarned
  PROVE  RunKept
BY DEF RunTypes, Finalize, CanFinalize, RunKept

LEMMA ConcludeKept ==
  ASSUME RunTypes, NEW v, NEW d, Conclude(v, d),
         d.status = "completed" /\ v = run.version /\ ~early => AllEarned
  PROVE  RunKept
<1>1. CASE d.status \in Ended
  BY <1>1, FinalizeKept DEF Conclude
<1>2. CASE d.status \notin Ended
  BY <1>2, TransitionKept DEF Conclude, RunKept, Ended
<1> QED
  BY <1>1, <1>2

(* The threads: whoever writes goes on with what it has read. *)
Keeping ==
  /\ \A y \in Threads : back'[y] # "write"
  /\ \A y \in Threads : pc'[y] = "write" => pc[y] = "write" /\ seen'[y] = seen[y] /\ goal'[y] = goal[y]
  /\ pc'["batch"] = "rescue" => pc["batch"] = "rescue" /\ goal'["batch"] = goal["batch"]

OwnMemory(x) ==
  /\ seen' = seen \/ \E v : seen' = [seen EXCEPT ![x] = v]
  /\ goal' = goal \/ \E g : goal' = [goal EXCEPT ![x] = g]
  /\ back' = back \/ \E l : l # "write" /\ back' = [back EXCEPT ![x] = l]

LEMMA GotoKeeping ==
  ASSUME ThreadTypes, Conclusions, NEW x \in Threads, NEW l, Goto(x, l), l # "write",
         x = "batch" => l # "rescue", OwnMemory(x)
  PROVE  Keeping
<1>1. \A y \in Threads : /\ pc'[y] = IF y = x THEN l ELSE pc[y]
                         /\ y # x => seen'[y] = seen[y] /\ goal'[y] = goal[y]
                         /\ back'[y] # "write"
  BY DEF Goto, ThreadTypes, OwnMemory, Conclusions
<1> QED
  BY <1>1, Kinds DEF Keeping

LEMMA SameKeeping ==
  ASSUME Conclusions, UNCHANGED <<pc, seen, goal, back>>
  PROVE  Keeping
BY DEF Keeping, Conclusions

(* The beginning is over, or the step does not touch it. *)
LEMMA OthersBegin ==
  ASSUME Beginning, NEW x \in Threads \ {"batch"}, pc[x] # "start",
         pc'["batch"] = pc["batch"], early => early'
  PROVE  Beginning'
BY DEF Beginning, Creating

LEMMA BatchBegins ==
  ASSUME ThreadTypes, NEW l, Goto("batch", l), l \notin {"start", "create"}
  PROVE  Beginning'
BY Kinds DEF Beginning, Creating, Goto, ThreadTypes

LEMMA RequestBegins ==
  ASSUME Beginning, Request, pc["batch"] # "start", pc'["batch"] = pc["batch"]
  PROVE  Beginning'
BY DEF Beginning, Creating, Request

LEMMA SameBegins ==
  ASSUME Beginning, UNCHANGED <<run, pc, early>>
  PROVE  Beginning'
BY DEF Beginning, Creating

(* A calm step keeps what has been earned; a fresh one makes every conclusion
   a thread has read worthless. *)
LEMMA CalmStep ==
  ASSUME RunTypes, ThreadTypes, EInv, early => early', SoftStep, Keeping, RunKept, Beginning'
  PROVE  EInv'
<1>1. AllEarned => AllEarned'
  BY SoftEarned
<1>2. run.version \in Nat /\ run'.version \in Nat /\ run.version <= run'.version
  BY DEF RunKept, RunTypes
<1>3. \A x \in Threads : pc'[x] = "write" =>
        pc[x] = "write" /\ goal'[x] = goal[x] /\ seen'[x] = seen[x] /\ seen[x] <= run.version
  BY DEF Keeping, EInv, Conclusions
<1>4. ASSUME ~early', NEW x \in Threads, pc'[x] = "write", goal'[x].status = "completed", seen'[x] = run'.version
      PROVE  AllEarned'
  <2>1. seen[x] <= run.version /\ seen[x] = run'.version
    BY <1>3, <1>4
  <2>2. seen[x] = run.version
    BY <1>2, <2>1
  <2> QED
    BY <1>1, <1>3, <1>4, <2>2 DEF EInv, Conclusions
<1>5. \A x \in Threads : pc'[x] = "write" => seen'[x] <= run'.version
  BY <1>2, <1>3 DEF ThreadTypes
<1>6. Completions'
  BY <1>1 DEF EInv, Completions, RunKept
<1> QED
  BY <1>4, <1>5, <1>6 DEF EInv, Conclusions, Keeping

LEMMA FreshStep ==
  ASSUME RunTypes, ThreadTypes, EInv, Keeping, Beginning',
         run'.version = run.version + 1, run'.status # "completed"
  PROVE  EInv'
<1>1. run.version \in Nat
  BY DEF RunTypes
<1>2. \A x \in Threads : pc'[x] = "write" => seen'[x] \in Nat /\ seen'[x] <= run.version
  BY DEF Keeping, EInv, Conclusions, ThreadTypes
<1>3. \A x \in Threads : pc'[x] = "write" => seen'[x] <= run'.version /\ seen'[x] # run'.version
  BY <1>1, <1>2
<1> QED
  BY <1>3 DEF EInv, Conclusions, Completions, Keeping

(* What a thread does to its own memory and place, as the steps below use it. *)
LEMMA Stays ==
  ASSUME Beginning, Conclusions, UNCHANGED <<run, pc, seen, goal, back, early>>
  PROVE  Keeping /\ Beginning' /\ RunKept
BY SameKeeping, SameBegins DEF RunKept

LEMMA ThreadActs ==
  ASSUME ThreadTypes, Beginning, Conclusions, NEW x \in Threads \ {"batch"}, pc[x] # "start",
         NEW l, l # "write", Goto(x, l), OwnMemory(x), early => early'
  PROVE  Keeping /\ Beginning'
<1>1. pc'["batch"] = pc["batch"]
  BY Kinds DEF Goto, ThreadTypes
<1> QED
  BY <1>1, GotoKeeping, OthersBegin

LEMMA BatchActs ==
  ASSUME ThreadTypes, Conclusions, NEW l, l \notin {"start", "create", "write", "rescue"},
         Goto("batch", l), OwnMemory("batch")
  PROVE  Keeping /\ Beginning'
BY Kinds, GotoKeeping, BatchBegins

LEMMA RequestActs ==
  ASSUME ThreadTypes, Beginning, Conclusions, NEW x \in Threads \ {"batch"}, Request,
         pc["batch"] # "start", NEW l, l # "write", Goto(x, l), OwnMemory(x)
  PROVE  Keeping /\ Beginning' /\ (early => early')
<1>1. pc'["batch"] = pc["batch"]
  BY Kinds DEF Goto, ThreadTypes
<1> QED
  BY <1>1, GotoKeeping, RequestBegins DEF Request

(* The batch ends its run with another status than completed. *)
LEMMA RescueStep ==
  ASSUME RunTypes, ThreadTypes, EInv, BatchInOrder, NEW d, d.status # "completed",
         UNCHANGED <<run, status, deps, review, successes, back, early>>, Goto("batch", "rescue"),
         seen' = [seen EXCEPT !["batch"] = run.version], goal' = [goal EXCEPT !["batch"] = d]
  PROVE  EInv'
<1>1. \A y \in Threads : /\ pc'[y] = IF y = "batch" THEN "rescue" ELSE pc[y]
                         /\ y # "batch" => seen'[y] = seen[y] /\ goal'[y] = goal[y]
                         /\ y = "batch" => goal'[y] = d
  BY DEF Goto, ThreadTypes
<1>2. AllEarned' <=> AllEarned
  BY DEF AllEarned, Earned, Newest, Exists, Replaced
<1>3. Beginning' /\ Completions'
  BY <1>2, BatchBegins DEF EInv, Completions
<1>4. Conclusions'
  BY <1>1, <1>2, Kinds DEF EInv, Conclusions
<1> QED
  BY <1>3, <1>4 DEF EInv

LEMMA EarnedStep ==
  ASSUME IInv, Lineage, EInv, [Next]_vars
  PROVE  EInv'
<1> USE TypeParts DEF IInv
<1>a. Beginning /\ Conclusions /\ Completions
  BY DEF EInv
<1>b. /\ \A x \in Retriers : x \in Threads \ {"batch"}
      /\ \A x \in Reviewers : x \in Threads \ {"batch"}
      /\ "loop" \in Threads \ {"batch"}
  BY Kinds, DelegationAssumption DEF Threads
<1>c. /\ run.status # "absent" => pc["batch"] # "start"
      /\ (\E t \in Tasks : Exists(t)) => pc["batch"] # "start"
  BY <1>a DEF Beginning, Lineage
<1>1. ASSUME CreateRun PROVE EInv'
  <2>1. /\ UNCHANGED <<status, deps, review, successes, early, seen, goal, back>> /\ Goto("batch", "create")
        /\ run' = [run EXCEPT !.status = "running"] /\ pc["batch"] = "start"
    BY <1>1 DEF CreateRun, taskVars, memVars, histVars
  <2>2. Beginning'
    BY <1>a, <2>1, Kinds DEF Beginning, Creating, Goto, ThreadTypes, RunTypes
  <2>3. Keeping
    BY <1>a, <2>1, Kinds, GotoKeeping DEF OwnMemory
  <2>4. RunKept
    BY <2>1 DEF RunTypes, RunKept
  <2> QED
    BY <2>1, <2>2, <2>3, <2>4, SameSoft, CalmStep
<1>2. ASSUME CreateTask PROVE EInv'
  <2>1. /\ UNCHANGED <<run, early, seen, goal, back>> /\ pc["batch"] = "create"
        /\ \E l \in {"loop", "create"} : Goto("batch", l)
    BY <1>2 DEF CreateTask, memVars, histVars
  <2>2. pc'["batch"] \in {"loop", "create"} /\ \A x \in Threads \ {"batch"} : pc'[x] = pc[x]
    BY <2>1, Kinds DEF Goto, ThreadTypes
  <2>3. Beginning'
    BY <1>a, <2>1, <2>2 DEF Beginning, Creating
  <2>4. Keeping
    BY <1>a, <2>1, Kinds, GotoKeeping DEF OwnMemory
  <2>5. ~early => run.status # "completed" /\ \A x \in Threads : pc'[x] # "write"
    BY <1>a, <2>1, <2>2 DEF Beginning, Creating
  <2> QED
    BY <1>a, <2>1, <2>3, <2>4, <2>5 DEF EInv, Conclusions, Completions, Keeping
<1>3. ASSUME CreateRaises PROVE EInv'
  <2>1. UNCHANGED <<status, deps, review, successes>> /\ SoftStep
    BY <1>3, SameSoft DEF CreateRaises, taskVars, memVars, jobVars, histVars
  <2>2. (early => early') /\ OwnMemory("batch") /\ UNCHANGED run
    BY <1>3 DEF CreateRaises, taskVars, memVars, jobVars, histVars, OwnMemory, Forget, CallReconcile
  <2>3. Goto("batch", "done")
    BY <1>3, <1>a DEF CreateRaises, taskVars, memVars, jobVars, histVars, CallReconcile, Conclusions
  <2>5. Keeping /\ Beginning'
    BY <1>a, <1>b, <2>2, <2>3, BatchActs
  <2>6. RunKept
    BY <2>2 DEF RunKept
  <2> QED
    BY <2>1, <2>2, <2>5, <2>6, CalmStep
<1>4. ASSUME BatchWave PROVE EInv'
  <2>1. UNCHANGED <<status, deps, review, successes>> /\ SoftStep
    BY <1>4, SameSoft DEF BatchWave, taskVars, memVars, jobVars, histVars
  <2>2. UNCHANGED <<run, pc, seen, goal, back, early>>
    BY <1>4 DEF BatchWave, taskVars, memVars, jobVars, histVars
  <2> QED
    BY <1>a, <2>1, <2>2, Stays, CalmStep
<1>5. ASSUME BatchThrough PROVE EInv'
  <2>1. UNCHANGED <<status, deps, review, successes>> /\ SoftStep
    BY <1>5, SameSoft DEF BatchThrough, taskVars, memVars, jobVars, histVars
  <2>2. (early => early') /\ OwnMemory("batch") /\ UNCHANGED run
    BY <1>5 DEF BatchThrough, taskVars, memVars, jobVars, histVars, OwnMemory, Forget, CallReconcile
  <2>3. \E l \in {"done", "final"} : Goto("batch", l)
    BY <1>5, <1>a DEF BatchThrough, taskVars, memVars, jobVars, histVars, CallReconcile, Conclusions
  <2>5. Keeping /\ Beginning'
    BY <1>a, <1>b, <2>2, <2>3, BatchActs
  <2>6. RunKept
    BY <2>2 DEF RunKept
  <2> QED
    BY <2>1, <2>2, <2>5, <2>6, CalmStep
<1>6. ASSUME BatchCancels PROVE EInv'
  <2>1. /\ UNCHANGED <<run, status, deps, review, successes, back, early>> /\ Goto("batch", "rescue")
        /\ seen' = [seen EXCEPT !["batch"] = run.version]
        /\ goal' = [goal EXCEPT !["batch"] = Decision("cancelled", "cancelled")]
    BY <1>6 DEF BatchCancels, Rescue, taskVars, histVars
  <2>2. Decision("cancelled", "cancelled").status # "completed"
    BY DEF Decision
  <2> QED
    BY <1>a, <2>1, <2>2, RescueStep
<1>7. ASSUME BatchRaises PROVE EInv'
  <2>1. /\ UNCHANGED <<run, status, deps, review, successes, back, early>> /\ Goto("batch", "rescue")
        /\ seen' = [seen EXCEPT !["batch"] = run.version]
        /\ goal' = [goal EXCEPT !["batch"] = Decision("failed", "failed")]
    BY <1>7 DEF BatchRaises, Rescue, taskVars, histVars
  <2>2. Decision("failed", "failed").status # "completed"
    BY DEF Decision
  <2> QED
    BY <1>a, <2>1, <2>2, RescueStep
<1>8. ASSUME BatchFinalizes PROVE EInv'
  <2>1. UNCHANGED <<status, deps, review, successes>> /\ SoftStep
    BY <1>8, SameSoft DEF BatchFinalizes, taskVars, memVars, jobVars, histVars
  <2>2. (early => early') /\ OwnMemory("batch")
    BY <1>8 DEF BatchFinalizes, taskVars, memVars, jobVars, histVars, OwnMemory, Forget, CallReconcile
  <2>3. Goto("batch", "done")
    BY <1>8, <1>a DEF BatchFinalizes, taskVars, memVars, jobVars, histVars, CallReconcile, Conclusions
  <2>5. Keeping /\ Beginning'
    BY <1>a, <1>b, <2>2, <2>3, BatchActs
  <2>6. RunKept
    BY <1>8, <1>a, FinalizeKept DEF BatchFinalizes, Conclusions
  <2> QED
    BY <2>1, <2>2, <2>5, <2>6, CalmStep
<1>9. ASSUME BatchSynthesizes PROVE EInv'
  <2>1. UNCHANGED <<status, deps, review, successes>> /\ SoftStep
    BY <1>9, SameSoft DEF BatchSynthesizes, taskVars, memVars, jobVars, histVars
  <2>2. (early => early') /\ OwnMemory("batch")
    BY <1>9 DEF BatchSynthesizes, taskVars, memVars, jobVars, histVars, OwnMemory, Forget, CallReconcile
  <2>3. Goto("batch", "read")
    BY <1>9, <1>a DEF BatchSynthesizes, taskVars, memVars, jobVars, histVars, CallReconcile, Conclusions
  <2>5. Keeping /\ Beginning'
    BY <1>a, <1>b, <2>2, <2>3, BatchActs
  <2>6. RunKept
    BY <1>9, TransitionKept DEF BatchSynthesizes, RunKept
  <2> QED
    BY <2>1, <2>2, <2>5, <2>6, CalmStep
<1>10. ASSUME NEW n \in Names, BatchCancelled(n) PROVE EInv'
  <2>1. SoftStep
    BY <1>10, FirstIsTask, ClaimSoft DEF BatchCancelled, GiveUp, histVars
  <2>2. UNCHANGED <<run, pc, seen, goal, back, early>>
    BY <1>10 DEF BatchCancelled, taskVars, memVars, jobVars, histVars, GiveUp
  <2> QED
    BY <1>a, <2>1, <2>2, Stays, CalmStep
<1>11. ASSUME NEW n \in Names, BatchBlocked(n) PROVE EInv'
  <2>1. SoftStep
    BY <1>11, FirstIsTask, ClaimSoft DEF BatchBlocked, GiveUp, histVars
  <2>2. UNCHANGED <<run, pc, seen, goal, back, early>>
    BY <1>11 DEF BatchBlocked, taskVars, memVars, jobVars, histVars, GiveUp
  <2> QED
    BY <1>a, <2>1, <2>2, Stays, CalmStep
<1>12. ASSUME NEW x \in Threads, Read(x) PROVE EInv'
  <2>1. UNCHANGED <<run, status, deps, review, successes, back, early>> /\ pc[x] = "read"
    BY <1>12 DEF Read, taskVars, histVars
  <2>2. Beginning'
    BY <1>12, <1>a, <2>1, Kinds, OthersBegin DEF Read, BatchInOrder, Beginning, Creating, Goto, ThreadTypes
  <2>3. CASE Goto(x, back[x]) /\ UNCHANGED <<seen, goal>>
    <3>1. Keeping
      BY <1>a, <2>1, <2>3, GotoKeeping DEF OwnMemory, Conclusions, BatchInOrder
    <3> QED
      BY <2>1, <2>2, <3>1, SameSoft, CalmStep DEF RunKept
  <2>4. CASE /\ seen' = [seen EXCEPT ![x] = run.version]
             /\ goal' = [goal EXCEPT ![x] = Concluded] /\ Goto(x, "write")
    <3>1. \A y \in Threads : /\ pc'[y] = IF y = x THEN "write" ELSE pc[y]
                             /\ seen'[y] = IF y = x THEN run.version ELSE seen[y]
                             /\ goal'[y] = IF y = x THEN Concluded ELSE goal[y]
      BY <2>4 DEF Goto, ThreadTypes
    <3>2. AllEarned' <=> AllEarned
      BY <2>1 DEF AllEarned, Earned, Newest, Exists, Replaced
    <3>3. Concluded.status = "completed" => AllEarned
      BY ConcludedEarned
    <3>4. ~early' => \A y \in Threads :
            pc'[y] = "write" /\ goal'[y].status = "completed" /\ seen'[y] = run'.version => AllEarned'
      BY <1>a, <2>1, <3>1, <3>2, <3>3 DEF Conclusions
    <3>5. /\ \A y \in Threads : pc'[y] = "write" => seen'[y] <= run'.version
          /\ pc'["batch"] = "rescue" => goal'["batch"].status # "completed"
      BY <1>a, <2>1, <3>1, Kinds DEF Conclusions, RunTypes
    <3>6. Completions'
      BY <1>a, <2>1, <3>2 DEF Completions
    <3> QED
      BY <1>a, <2>1, <2>2, <3>4, <3>5, <3>6 DEF EInv, Conclusions
  <2> QED
    BY <1>12, <2>3, <2>4 DEF Read
<1>13. ASSUME NEW x \in Threads, Write(x) PROVE EInv'
  <2>1. /\ UNCHANGED <<status, deps, review, successes, early, back>> /\ pc[x] = "write"
        /\ Conclude(seen[x], goal[x]) /\ Goto(x, back[x]) /\ back[x] # "write" /\ OwnMemory(x)
    BY <1>13, <1>a DEF Write, taskVars, histVars, Forget, OwnMemory, Conclusions
  <2>2. Keeping /\ Beginning'
    <3>1. CASE x = "batch"
      BY <1>a, <2>1, <3>1, BatchActs DEF BatchInOrder
    <3>2. CASE x # "batch"
      BY <1>a, <2>1, <3>2, ThreadActs
    <3> QED
      BY <3>1, <3>2
  <2>3. RunKept
    BY <1>a, <2>1, ConcludeKept DEF Conclusions
  <2> QED
    BY <2>1, <2>2, <2>3, SameSoft, CalmStep
<1>14. ASSUME NEW x \in Executors, NEW t \in Tasks, Check(x, t) PROVE EInv'
  <2>1. UNCHANGED <<status, deps, review, successes>> /\ SoftStep
    BY <1>14, SameSoft DEF Check, taskVars, memVars, jobVars, histVars
  <2>2. UNCHANGED <<run, pc, seen, goal, back, early>>
    BY <1>14 DEF Check, taskVars, memVars, jobVars, histVars
  <2> QED
    BY <1>a, <2>1, <2>2, Stays, CalmStep
<1>15. ASSUME NEW x \in Executors, NEW t \in Tasks, SpawnRefused(x, t) PROVE EInv'
  <2>1. UNCHANGED <<status, deps, review, successes>> /\ SoftStep
    BY <1>15, SameSoft DEF SpawnRefused, taskVars, memVars, jobVars, histVars
  <2>2. UNCHANGED <<run, pc, seen, goal, back, early>>
    BY <1>15 DEF SpawnRefused, taskVars, memVars, jobVars, histVars
  <2> QED
    BY <1>a, <2>1, <2>2, Stays, CalmStep
<1>16. ASSUME NEW x \in Executors, NEW t \in Tasks, Spawned(x, t) PROVE EInv'
  <2>1. SoftStep
    BY <1>16, SettledNames, ClaimSoft DEF Spawned, histVars
  <2>2. UNCHANGED <<run, pc, seen, goal, back, early>>
    BY <1>16 DEF Spawned, taskVars, memVars, jobVars, histVars
  <2> QED
    BY <1>a, <2>1, <2>2, Stays, CalmStep
<1>17. ASSUME NEW x \in Executors, NEW t \in Tasks, ChildEnds(x, t) PROVE EInv'
  <2>1. SoftStep
    <3>1. PICK o \in Outcomes : \/ status' = WithStatus(t, o)
                                \/ Claim(t, Open, "failed")
                                \/ UNCHANGED status
      BY <1>17 DEF ChildEnds
    <3>2. UNCHANGED <<deps, review>> /\ successes \subseteq successes'
      BY <1>17 DEF ChildEnds
    <3>3. Exists(t) /\ o \notin {"absent", "superseded"} /\ o \notin Open
      BY <1>17, StatusNames, SettledNames DEF ChildEnds, QueueLeft, Started, Exists, Settled, Success, Retryable, Open
    <3>4. CASE status' = WithStatus(t, o)
      BY <3>2, <3>3, <3>4, SetSoft
    <3>5. CASE Claim(t, Open, "failed")
      BY <3>2, <3>5, ClaimSoft
    <3>6. CASE UNCHANGED status
      BY <3>2, <3>6, SameSoft
    <3> QED
      BY <3>1, <3>4, <3>5, <3>6
  <2>2. UNCHANGED <<run, pc, seen, goal, back, early>>
    BY <1>17 DEF ChildEnds, taskVars, memVars, jobVars, histVars
  <2> QED
    BY <1>a, <2>1, <2>2, Stays, CalmStep
<1>18. ASSUME NEW x \in Executors, NEW t \in Tasks, Persist(x, t) PROVE EInv'
  <2>1. SoftStep
    <3>1. Claim(t, Reported(x, t), outcome[<<x, t>>]) /\ UNCHANGED <<deps, successes>>
      BY <1>18 DEF Persist, histVars
    <3>2. review' = review \/ review' = [review EXCEPT ![t] = "pending"]
      BY <1>18 DEF Persist
    <3>3. Reported(x, t) \in SUBSET Open /\ outcome[<<x, t>>] \notin {"absent", "superseded"}
      BY StatusNames, SettledNames DEF Reported, Open, JobTypes, Jobs
    <3>4. \A u \in Tasks : review'[u] = "none" => review[u] = "none"
      BY <3>2 DEF TaskTypes
    <3> QED
      BY <3>1, <3>3, <3>4, ClaimSoft
  <2>2. UNCHANGED <<run, pc, seen, goal, back, early>>
    BY <1>18 DEF Persist, taskVars, memVars, jobVars, histVars
  <2> QED
    BY <1>a, <2>1, <2>2, Stays, CalmStep
<1>19. ASSUME NEW x \in Retriers, Retry(x) PROVE EInv'
  <2>1. UNCHANGED <<status, deps, review, successes>> /\ SoftStep
    BY <1>19, SameSoft DEF Retry, taskVars, memVars, jobVars, histVars, RequestRetry, Request
  <2>2. Request /\ OwnMemory(x) /\ UNCHANGED run
    BY <1>19 DEF Retry, taskVars, memVars, jobVars, histVars, RequestRetry, OwnMemory, Forget, CallReconcile
  <2>3. Goto(x, "replace")
    BY <1>19, <1>a DEF Retry, taskVars, memVars, jobVars, histVars, RequestRetry, CallReconcile, Conclusions
  <2>4. pc["batch"] # "start"
    BY <1>19, <1>c DEF Retry, Exists, Retryable, RequestRetry
  <2>5. Keeping /\ Beginning' /\ (early => early')
    BY <1>a, <1>b, <2>2, <2>3, <2>4, RequestActs
  <2>6. RunKept
    BY <2>2 DEF RunKept
  <2> QED
    BY <2>1, <2>2, <2>5, <2>6, CalmStep
<1>20. ASSUME NEW x \in Retriers, Resume(x) PROVE EInv'
  <2>1. UNCHANGED <<status, deps, review, successes>> /\ SoftStep
    BY <1>20, SameSoft DEF Resume, taskVars, memVars, jobVars, histVars, RequestRetry, Request
  <2>2. Request /\ OwnMemory(x) /\ UNCHANGED run
    BY <1>20 DEF Resume, taskVars, memVars, jobVars, histVars, RequestRetry, OwnMemory, Forget, CallReconcile
  <2>3. Goto(x, "replace")
    BY <1>20, <1>a DEF Resume, taskVars, memVars, jobVars, histVars, RequestRetry, CallReconcile, Conclusions
  <2>4. pc["batch"] # "start"
    BY <1>20, <1>c DEF Resume, Exists, Retryable, RequestRetry
  <2>5. Keeping /\ Beginning' /\ (early => early')
    BY <1>a, <1>b, <2>2, <2>3, <2>4, RequestActs
  <2>6. RunKept
    BY <2>2 DEF RunKept
  <2> QED
    BY <2>1, <2>2, <2>5, <2>6, CalmStep
<1>21. ASSUME NEW x \in Retriers, Replace(x) PROVE EInv'
  <2>1. /\ UNCHANGED <<early, successes>> /\ pc[x] = "replace" /\ OwnMemory(x)
        /\ \E l \in {"list", "done"} : Goto(x, l)
    BY <1>21 DEF Replace, histVars, OwnMemory
  <2>2. Keeping /\ Beginning'
    BY <1>a, <1>b, <2>1, ThreadActs
  <2>3. CASE UNCHANGED <<run, taskVars>>
    BY <2>1, <2>2, <2>3, SameSoft, CalmStep DEF taskVars, RunKept
  <2>4. CASE Supersede(Affected(todo[x]))
    BY <2>2, <2>4, FreshStep DEF Supersede
  <2> QED
    BY <1>21, <2>3, <2>4 DEF Replace
<1>22. ASSUME NEW x \in Retriers, ListTasks(x) PROVE EInv'
  <2>1. UNCHANGED <<status, deps, review, successes>> /\ SoftStep
    BY <1>22, SameSoft DEF ListTasks, taskVars, memVars, jobVars, histVars
  <2>2. pc[x] # "start" /\ (early => early') /\ OwnMemory(x) /\ UNCHANGED run
    BY <1>22 DEF ListTasks, taskVars, memVars, jobVars, histVars, OwnMemory, Forget, CallReconcile
  <2>3. \E l \in {"read", "done", "block"} : Goto(x, l)
    BY <1>22, <1>a DEF ListTasks, taskVars, memVars, jobVars, histVars, CallReconcile, Conclusions
  <2>5. Keeping /\ Beginning'
    BY <1>a, <1>b, <2>2, <2>3, ThreadActs
  <2>6. RunKept
    BY <2>2 DEF RunKept
  <2> QED
    BY <2>1, <2>2, <2>5, <2>6, CalmStep
<1>23. ASSUME NEW x \in Retriers, FailBlocked(x) PROVE EInv'
  <2>1. /\ UNCHANGED <<run, deps, review, successes, early, seen, goal, back>> /\ pc[x] # "start"
        /\ UNCHANGED status \/ \E t \in todo[x] : Claim(t, {"queued"}, "failed")
        /\ pc' = pc \/ \E l \in {"list", "waves"} : Goto(x, l)
    BY <1>23 DEF FailBlocked, histVars
  <2>2. todo[x] \subseteq Tasks
    BY Kinds DEF ThreadTypes
  <2>3. SoftStep
    BY <2>1, <2>2, SettledNames, SameSoft, ClaimSoft
  <2>4. Keeping /\ Beginning'
    BY <1>a, <1>b, <2>1, ThreadActs, Stays DEF OwnMemory
  <2> QED
    BY <2>1, <2>3, <2>4, CalmStep DEF RunKept
<1>24. ASSUME NEW x \in Retriers, Wave(x) PROVE EInv'
  <2>1. UNCHANGED <<status, deps, review, successes>> /\ SoftStep
    BY <1>24, SameSoft DEF Wave, taskVars, memVars, jobVars, histVars
  <2>2. pc[x] # "start" /\ (early => early') /\ OwnMemory(x) /\ UNCHANGED run
    BY <1>24 DEF Wave, taskVars, memVars, jobVars, histVars, OwnMemory, Forget, CallReconcile
  <2>3. Goto(x, "wait")
    BY <1>24, <1>a DEF Wave, taskVars, memVars, jobVars, histVars, CallReconcile, Conclusions
  <2>5. Keeping /\ Beginning'
    BY <1>a, <1>b, <2>2, <2>3, ThreadActs
  <2>6. RunKept
    BY <2>2 DEF RunKept
  <2> QED
    BY <2>1, <2>2, <2>5, <2>6, CalmStep
<1>25. ASSUME NEW x \in Retriers, WaveDone(x) PROVE EInv'
  <2>1. UNCHANGED <<status, deps, review, successes>> /\ SoftStep
    BY <1>25, SameSoft DEF WaveDone, taskVars, memVars, jobVars, histVars
  <2>2. pc[x] # "start" /\ (early => early') /\ OwnMemory(x) /\ UNCHANGED run
    BY <1>25 DEF WaveDone, taskVars, memVars, jobVars, histVars, OwnMemory, Forget, CallReconcile
  <2>3. \E l \in {"list", "waves"} : Goto(x, l)
    BY <1>25, <1>a DEF WaveDone, taskVars, memVars, jobVars, histVars, CallReconcile, Conclusions
  <2>5. Keeping /\ Beginning'
    BY <1>a, <1>b, <2>2, <2>3, ThreadActs
  <2>6. RunKept
    BY <2>2 DEF RunKept
  <2> QED
    BY <2>1, <2>2, <2>5, <2>6, CalmStep
<1>26. ASSUME NEW x \in Reviewers, Integrate(x) PROVE EInv'
  <2>1. UNCHANGED <<status, deps, review, successes>> /\ SoftStep
    BY <1>26, SameSoft DEF Integrate, taskVars, memVars, jobVars, histVars, Request
  <2>2. Request /\ OwnMemory(x) /\ UNCHANGED run
    BY <1>26 DEF Integrate, taskVars, memVars, jobVars, histVars, OwnMemory, Forget, CallReconcile
  <2>3. Goto(x, "integrate")
    BY <1>26, <1>a DEF Integrate, taskVars, memVars, jobVars, histVars, CallReconcile, Conclusions
  <2>4. pc["batch"] # "start"
    BY <1>26, <1>c DEF Integrate, Exists, Retryable
  <2>5. Keeping /\ Beginning' /\ (early => early')
    BY <1>a, <1>b, <2>2, <2>3, <2>4, RequestActs
  <2>6. RunKept
    BY <2>2 DEF RunKept
  <2> QED
    BY <2>1, <2>2, <2>5, <2>6, CalmStep
<1>27. ASSUME NEW x \in Reviewers, StartIntegration(x) PROVE EInv'
  <2>1. UNCHANGED <<status, deps, review, successes>> /\ SoftStep
    BY <1>27, SameSoft DEF StartIntegration, taskVars, memVars, jobVars, histVars
  <2>2. pc[x] # "start" /\ (early => early') /\ OwnMemory(x)
    BY <1>27 DEF StartIntegration, taskVars, memVars, jobVars, histVars, OwnMemory, Forget, CallReconcile
  <2>3. \E l \in {"resolve", "done"} : Goto(x, l)
    BY <1>27, <1>a DEF StartIntegration, taskVars, memVars, jobVars, histVars, CallReconcile, Conclusions
  <2>5. Keeping /\ Beginning'
    BY <1>a, <1>b, <2>2, <2>3, ThreadActs
  <2>6. RunKept
    BY <1>27, TransitionKept DEF StartIntegration, RunKept
  <2> QED
    BY <2>1, <2>2, <2>5, <2>6, CalmStep
<1>28. ASSUME NEW x \in Reviewers, ResolveRaises(x) PROVE EInv'
  <2>1. UNCHANGED <<status, deps, review, successes>> /\ SoftStep
    BY <1>28, SameSoft DEF ResolveRaises, taskVars, memVars, jobVars, histVars
  <2>2. pc[x] # "start" /\ (early => early') /\ OwnMemory(x) /\ UNCHANGED run
    BY <1>28 DEF ResolveRaises, taskVars, memVars, jobVars, histVars, OwnMemory, Forget, CallReconcile
  <2>3. Goto(x, "done")
    BY <1>28, <1>a DEF ResolveRaises, taskVars, memVars, jobVars, histVars, CallReconcile, Conclusions
  <2>5. Keeping /\ Beginning'
    BY <1>a, <1>b, <2>2, <2>3, ThreadActs
  <2>6. RunKept
    BY <2>2 DEF RunKept
  <2> QED
    BY <2>1, <2>2, <2>5, <2>6, CalmStep
<1>29. ASSUME NEW x \in Reviewers, ResolveViolation(x) PROVE EInv'
  <2>1. SoftStep
    <3>1. PICK t \in todo[x] : /\ Available(x, t) /\ status' = WithStatus(t, listed[x][t])
                             /\ review' = [review EXCEPT ![t] = "conflict"]
      BY <1>29 DEF ResolveViolation
    <3>2. t \in Tasks /\ UNCHANGED <<deps, successes>>
      BY <1>29, <3>1, Kinds DEF ResolveViolation, ThreadTypes, histVars
    <3>3. Exists(t) /\ listed[x][t] \notin {"absent", "superseded"}
      BY <3>1, <3>2 DEF Available, Lineage, QueueLeft, Started, Exists
    <3>4. review'[t] # "none" /\ \A u \in Tasks : review'[u] = "none" => review[u] = "none"
      BY <3>1, <3>2 DEF TaskTypes
    <3> QED
      BY <3>1, <3>2, <3>3, <3>4, SetSoft
  <2>2. pc[x] # "start" /\ (early => early') /\ OwnMemory(x) /\ UNCHANGED run
    BY <1>29 DEF ResolveViolation, taskVars, memVars, jobVars, histVars, OwnMemory, Forget, CallReconcile
  <2>3. Goto(x, "settle")
    BY <1>29, <1>a DEF ResolveViolation, taskVars, memVars, jobVars, histVars, CallReconcile, Conclusions
  <2>5. Keeping /\ Beginning'
    BY <1>a, <1>b, <2>2, <2>3, ThreadActs
  <2>6. RunKept
    BY <2>2 DEF RunKept
  <2> QED
    BY <2>1, <2>2, <2>5, <2>6, CalmStep
<1>30. ASSUME NEW x \in Reviewers, Resolve(x) PROVE EInv'
  <2>1. SoftStep
    <3>1. PICK t \in todo[x], r \in {"applied", "retained", "discarded", "conflict"} : review' = [review EXCEPT ![t] = r]
      BY <1>30 DEF Resolve
    <3>2. \A u \in Tasks : review'[u] = "none" => review[u] = "none"
      BY <3>1 DEF TaskTypes
    <3> QED
      BY <1>30, <3>2, SameSoft DEF Resolve, histVars
  <2>2. pc[x] # "start" /\ (early => early') /\ OwnMemory(x) /\ UNCHANGED run
    BY <1>30 DEF Resolve, taskVars, memVars, jobVars, histVars, OwnMemory, Forget, CallReconcile
  <2>3. Goto(x, "read")
    BY <1>30, <1>a DEF Resolve, taskVars, memVars, jobVars, histVars, CallReconcile, Conclusions
  <2>5. Keeping /\ Beginning'
    BY <1>a, <1>b, <2>2, <2>3, ThreadActs
  <2>6. RunKept
    BY <2>2 DEF RunKept
  <2> QED
    BY <2>1, <2>2, <2>5, <2>6, CalmStep
<1>31. ASSUME NEW x \in Reviewers, Settle(x) PROVE EInv'
  <2>1. UNCHANGED <<status, deps, review, successes>> /\ SoftStep
    BY <1>31, SameSoft DEF Settle, taskVars, memVars, jobVars, histVars
  <2>2. pc[x] # "start" /\ (early => early') /\ OwnMemory(x)
    BY <1>31 DEF Settle, taskVars, memVars, jobVars, histVars, OwnMemory, Forget, CallReconcile
  <2>3. Goto(x, "done")
    BY <1>31, <1>a DEF Settle, taskVars, memVars, jobVars, histVars, CallReconcile, Conclusions
  <2>5. Keeping /\ Beginning'
    BY <1>a, <1>b, <2>2, <2>3, ThreadActs
  <2>6. RunKept
    BY <1>31, FinalizeKept DEF Settle
  <2> QED
    BY <2>1, <2>2, <2>5, <2>6, CalmStep
<1>32. ASSUME NEW x \in Reviewers, Resolved(x) PROVE EInv'
  <2>1. UNCHANGED <<status, deps, review, successes>> /\ SoftStep
    BY <1>32, SameSoft DEF Resolved, taskVars, memVars, jobVars, histVars
  <2>2. pc[x] # "start" /\ (early => early') /\ OwnMemory(x) /\ UNCHANGED run
    BY <1>32 DEF Resolved, taskVars, memVars, jobVars, histVars, OwnMemory, Forget, CallReconcile
  <2>3. Goto(x, "read")
    BY <1>32, <1>a DEF Resolved, taskVars, memVars, jobVars, histVars, CallReconcile, Conclusions
  <2>5. Keeping /\ Beginning'
    BY <1>a, <1>b, <2>2, <2>3, ThreadActs
  <2>6. RunKept
    BY <2>2 DEF RunKept
  <2> QED
    BY <2>1, <2>2, <2>5, <2>6, CalmStep
<1>33. ASSUME NEW x \in Reviewers, StartVerification(x) PROVE EInv'
  <2>1. UNCHANGED <<status, deps, review, successes>> /\ SoftStep
    BY <1>33, SameSoft DEF StartVerification, taskVars, memVars, jobVars, histVars
  <2>2. pc[x] # "start" /\ (early => early') /\ OwnMemory(x) /\ UNCHANGED run
    BY <1>33 DEF StartVerification, taskVars, memVars, jobVars, histVars, OwnMemory, Forget, CallReconcile
  <2>3. \E l \in {"check", "done"} : Goto(x, l)
    BY <1>33, <1>a DEF StartVerification, taskVars, memVars, jobVars, histVars, CallReconcile, Conclusions
  <2>5. Keeping /\ Beginning'
    BY <1>a, <1>b, <2>2, <2>3, ThreadActs
  <2>6. RunKept
    BY <2>2 DEF RunKept
  <2> QED
    BY <2>1, <2>2, <2>5, <2>6, CalmStep
<1>34. ASSUME NEW x \in Reviewers, Verify(x) PROVE EInv'
  <2>1. UNCHANGED <<status, deps, review, successes>> /\ SoftStep
    BY <1>34, SameSoft DEF Verify, taskVars, memVars, jobVars, histVars, Request
  <2>2. Request /\ OwnMemory(x) /\ UNCHANGED run
    BY <1>34 DEF Verify, taskVars, memVars, jobVars, histVars, OwnMemory, Forget, CallReconcile
  <2>3. Goto(x, "check")
    BY <1>34, <1>a DEF Verify, taskVars, memVars, jobVars, histVars, CallReconcile, Conclusions
  <2>4. pc["batch"] # "start"
    BY <1>34, <1>c DEF Verify, Exists, Retryable
  <2>5. Keeping /\ Beginning' /\ (early => early')
    BY <1>a, <1>b, <2>2, <2>3, <2>4, RequestActs
  <2>6. RunKept
    BY <2>2 DEF RunKept
  <2> QED
    BY <2>1, <2>2, <2>5, <2>6, CalmStep
<1>35. ASSUME NEW x \in Reviewers, SkipVerification(x) PROVE EInv'
  <2>1. UNCHANGED <<status, deps, review, successes>> /\ SoftStep
    BY <1>35, SameSoft DEF SkipVerification, taskVars, memVars, jobVars, histVars
  <2>2. pc[x] # "start" /\ (early => early') /\ OwnMemory(x)
    BY <1>35 DEF SkipVerification, taskVars, memVars, jobVars, histVars, OwnMemory, Forget, CallReconcile
  <2>3. Goto(x, "done")
    BY <1>35, <1>a DEF SkipVerification, taskVars, memVars, jobVars, histVars, CallReconcile, Conclusions
  <2>5. Keeping /\ Beginning'
    BY <1>a, <1>b, <2>2, <2>3, ThreadActs
  <2>6. RunKept
    BY <1>35, FinalizeKept DEF SkipVerification
  <2> QED
    BY <2>1, <2>2, <2>5, <2>6, CalmStep
<1>36. ASSUME NEW x \in Reviewers, RunVerification(x) PROVE EInv'
  <2>1. UNCHANGED <<status, deps, review, successes>> /\ SoftStep
    BY <1>36, SameSoft DEF RunVerification, taskVars, memVars, jobVars, histVars
  <2>2. pc[x] # "start" /\ (early => early') /\ OwnMemory(x)
    BY <1>36 DEF RunVerification, taskVars, memVars, jobVars, histVars, OwnMemory, Forget, CallReconcile
  <2>3. \E l \in {"checked", "done"} : Goto(x, l)
    BY <1>36, <1>a DEF RunVerification, taskVars, memVars, jobVars, histVars, CallReconcile, Conclusions
  <2>5. Keeping /\ Beginning'
    BY <1>a, <1>b, <2>2, <2>3, ThreadActs
  <2>6. RunKept
    BY <1>36, TransitionKept DEF RunVerification, RunKept
  <2> QED
    BY <2>1, <2>2, <2>5, <2>6, CalmStep
<1>37. ASSUME NEW x \in Reviewers, Verified(x) PROVE EInv'
  <2>1. UNCHANGED <<status, deps, review, successes>> /\ SoftStep
    BY <1>37, SameSoft DEF Verified, taskVars, memVars, jobVars, histVars
  <2>2. pc[x] # "start" /\ (early => early') /\ OwnMemory(x)
    BY <1>37 DEF Verified, taskVars, memVars, jobVars, histVars, OwnMemory, Forget, CallReconcile
  <2>3. Goto(x, "done")
    BY <1>37, <1>a DEF Verified, taskVars, memVars, jobVars, histVars, CallReconcile, Conclusions
  <2>5. Keeping /\ Beginning'
    BY <1>a, <1>b, <2>2, <2>3, ThreadActs
  <2>6. RunKept
    BY <1>37, FinalizeKept DEF Verified
  <2> QED
    BY <2>1, <2>2, <2>5, <2>6, CalmStep
<1>38. ASSUME CancelRun PROVE EInv'
  <2>1. UNCHANGED <<status, deps, review, successes>> /\ SoftStep
    BY <1>38, SameSoft DEF CancelRun, taskVars, memVars, jobVars, histVars, Request
  <2>2. Request /\ OwnMemory("loop") /\ UNCHANGED run
    BY <1>38 DEF CancelRun, taskVars, memVars, jobVars, histVars, OwnMemory, Forget, CallReconcile
  <2>3. Goto("loop", "cancelTasks")
    BY <1>38, <1>a DEF CancelRun, taskVars, memVars, jobVars, histVars, CallReconcile, Conclusions
  <2>4. pc["batch"] # "start"
    BY <1>38, <1>c DEF CancelRun, Exists, Retryable
  <2>5. Keeping /\ Beginning' /\ (early => early')
    BY <1>a, <1>b, <2>2, <2>3, <2>4, RequestActs
  <2>6. RunKept
    BY <2>2 DEF RunKept
  <2> QED
    BY <2>1, <2>2, <2>5, <2>6, CalmStep
<1>39. ASSUME CancelListed PROVE EInv'
  <2>1. /\ UNCHANGED <<run, deps, review, successes, early, seen, goal, back>> /\ pc["loop"] # "start"
        /\ UNCHANGED status \/ \E t \in todo["loop"] : Claim(t, Open, "cancelled")
        /\ pc' = pc \/ \E l \in {"cancelEnd"} : Goto("loop", l)
    BY <1>39 DEF CancelListed, histVars
  <2>2. todo["loop"] \subseteq Tasks
    BY Kinds DEF ThreadTypes
  <2>3. SoftStep
    BY <2>1, <2>2, SettledNames, SameSoft, ClaimSoft
  <2>4. Keeping /\ Beginning'
    BY <1>a, <1>b, <2>1, ThreadActs, Stays DEF OwnMemory
  <2> QED
    BY <2>1, <2>3, <2>4, CalmStep DEF RunKept
<1>40. ASSUME CancelEnds PROVE EInv'
  <2>1. UNCHANGED <<status, deps, review, successes>> /\ SoftStep
    BY <1>40, SameSoft DEF CancelEnds, taskVars, memVars, jobVars, histVars
  <2>2. pc["loop"] # "start" /\ (early => early') /\ OwnMemory("loop")
    BY <1>40 DEF CancelEnds, taskVars, memVars, jobVars, histVars, OwnMemory, Forget, CallReconcile
  <2>3. Goto("loop", "start")
    BY <1>40, <1>a DEF CancelEnds, taskVars, memVars, jobVars, histVars, CallReconcile, Conclusions
  <2>5. Keeping /\ Beginning'
    BY <1>a, <1>b, <2>2, <2>3, ThreadActs
  <2>6. RunKept
    BY <1>40, FinalizeKept DEF CancelEnds
  <2> QED
    BY <2>1, <2>2, <2>5, <2>6, CalmStep
<1>41. ASSUME NEW t \in Tasks, CancelTask(t) PROVE EInv'
  <2>1. SoftStep
    <3>1. /\ status' = WithStatus(t, "cancelled") /\ Exists(t) /\ "cancelled" \notin Open
          /\ UNCHANGED <<deps, review, successes>>
      BY <1>41 DEF CancelTask, Exists, Open, Request
    <3> QED
      BY <3>1, SetSoft
  <2>2. Request /\ OwnMemory("loop") /\ UNCHANGED run
    BY <1>41 DEF CancelTask, taskVars, memVars, jobVars, histVars, OwnMemory, Forget, CallReconcile
  <2>3. Goto("loop", "read")
    BY <1>41, <1>a DEF CancelTask, taskVars, memVars, jobVars, histVars, CallReconcile, Conclusions
  <2>4. pc["batch"] # "start"
    BY <1>41, <1>c DEF CancelTask, Exists, Retryable
  <2>5. Keeping /\ Beginning' /\ (early => early')
    BY <1>a, <1>b, <2>2, <2>3, <2>4, RequestActs
  <2>6. RunKept
    BY <2>2 DEF RunKept
  <2> QED
    BY <2>1, <2>2, <2>5, <2>6, CalmStep
<1>42. ASSUME CancelParent PROVE EInv'
  <2>1. /\ UNCHANGED <<run, status, deps, review, successes, pc, seen, goal, back>> /\ Request
        /\ pc["batch"] # "start"
    BY <1>42 DEF CancelParent, Request, taskVars, memVars, Idle
  <2>2. Keeping /\ Beginning' /\ (early => early')
    BY <1>a, <2>1, SameKeeping, RequestBegins DEF Request
  <2> QED
    BY <2>1, <2>2, SameSoft, CalmStep DEF RunKept
<1>43. ASSUME Restart PROVE EInv'
  <2>1. /\ UNCHANGED <<deps, review, successes, back>> /\ (early => early')
        /\ pc' = [x \in Threads |-> IF x = "loop" THEN "start"
                                    ELSE IF pc[x] = "start" /\ x # "batch" THEN "start" ELSE "done"]
    BY <1>43 DEF Restart, Request, memVars
  <2>2. Keeping /\ Beginning'
    BY <1>a, <2>1, Kinds DEF Keeping, Beginning, Creating, Conclusions
  <2>3. UNCHANGED status \/ status' = [t \in Tasks |-> IF t \in Interrupted THEN "interrupted" ELSE status[t]]
    BY <1>43 DEF Restart
  <2>4. SoftStep
    BY <2>1, <2>3, SameSoft DEF SoftStep, SameTasks, Exists, Interrupted, Open
  <2>5. RunKept
    BY <1>43, ConcludedEarned, ConcludeKept, TransitionKept DEF Restart, RunKept
  <2> QED
    BY <2>1, <2>2, <2>4, <2>5, CalmStep
<1>44. CASE UNCHANGED vars
  BY <1>44, <1>a, SameSoft, Stays, CalmStep DEF vars, taskVars, memVars, histVars
<1> QED
  BY Kinds, <1>1, <1>2, <1>3, <1>4, <1>5, <1>6, <1>7, <1>8, <1>9, <1>10, <1>11,
     <1>12, <1>13, <1>14, <1>15, <1>16, <1>17, <1>18, <1>19, <1>20, <1>21, <1>22,
     <1>23, <1>24, <1>25, <1>26, <1>27, <1>28, <1>29, <1>30, <1>31, <1>32, <1>33,
     <1>34, <1>35, <1>36, <1>37, <1>38, <1>39, <1>40, <1>41, <1>42, <1>43, <1>44
  DEF Next, Batch, Reconcile, EventLoop, Requests, Scheduler, Review, Execute

-----------------------------------------------------------------------------
(* The theorems.                                                           *)

LEMMA InitInv == Init => IInv
<1> SUFFICES ASSUME Init PROVE IInv
  OBVIOUS
<1>1. TypeOK
  BY DelegationAssumption DEF Init, TypeOK, NothingListed, RunStatuses, Phases, Ended, Statuses, Idle, Working
<1>2. \A n \in Names : First(n) \in Tasks
  BY FirstIsTask
<1>3. \A x \in Executors, t \in Tasks : <<x, t>> \in Jobs
  BY DEF Jobs
<1>4. BatchInOrder /\ JobsExist /\ QueueLeft /\ SuccessEarned
  BY <1>2, <1>3, Kinds DEF Init, BatchInOrder, JobsExist, QueueLeft, SuccessEarned, Success, NothingListed
<1>5. DependenciesKept /\ ReadyEarned /\ DependenciesFirst /\ FactsTellTheEnd
  BY <1>2, <1>3 DEF Init, DependenciesKept, ReadyEarned, DependenciesFirst, FactsTellTheEnd, Ended
<1> QED
  BY <1>1, <1>4, <1>5 DEF IInv

LEMMA InvStep == IInv /\ [Next]_vars => IInv' /\ Moves
<1> SUFFICES ASSUME IInv, [Next]_vars PROVE IInv' /\ Moves
  OBVIOUS
<1>1. Moves
  BY MovesStep
<1>2. Hands'
  BY <1>1, HandsStep, HandsFollow
<1>3. ThreadTypes' /\ EnvTypes' /\ BatchInOrder'
  BY <1>1, TypeParts, ThreadStep, EnvStep, OrderStep DEF IInv
<1>4. Facts'
  BY TypeParts, FactsStep DEF IInv, Facts
<1>5. TypeOK'
  BY <1>1, <1>2, <1>3, <1>4, TypeParts DEF Moves, Hands, Facts, TypeOK, RunTypes, TaskTypes, ThreadTypes, JobTypes, EnvTypes
<1> QED
  BY <1>1, <1>2, <1>3, <1>4, <1>5 DEF IInv, Hands, Facts

LEMMA Invariance == Spec => []IInv
<1>1. IInv /\ [Next]_vars => IInv'
  BY InvStep
<1> QED
  BY InitInv, <1>1, PTL DEF Spec

(* The tables of a run and what its threads know keep their types, in
   particular the statuses and dependencies a step writes back. *)
THEOREM TypeCorrect == Spec => []TypeOK
<1>1. IInv => TypeOK
  BY DEF IInv
<1> QED
  BY Invariance, <1>1, PTL

(* finalize_delegation_run is the only way to end a run, but for the recovery:
   whoever ends it, and however the threads meet, the fact is there with the
   version and the status, and it is the only one of its version. *)
THEOREM EveryEndHasItsFact == Spec => []FactsTellTheEnd
<1>1. IInv => FactsTellTheEnd
  BY DEF IInv
<1> QED
  BY Invariance, <1>1, PTL

(* The batch's memory of its reports and the statuses a scheduler lists agree
   about what has succeeded: no thread starts a child too early. *)
THEOREM NothingStartsEarly == Spec => []DependenciesFirst
<1>1. IInv => DependenciesFirst
  BY DEF IInv
<1> QED
  BY Invariance, <1>1, PTL

(* Whatever is written to a task that has left the queue, by a child, a claim,
   a cancel, a review or the recovery, does not put it back. *)
THEOREM LeavesTheQueueOnce == Spec => NeverRequeued
<1>1. IInv /\ [Next]_vars => \A t \in Tasks : status[t] \notin {"absent", "queued"} => status'[t] # "queued"
  BY InvStep DEF Moves, Started
<1>2. IInv /\ [Next]_vars => [\A t \in Tasks : status[t] \notin {"absent", "queued"} => status'[t] # "queued"]_vars
  BY <1>1
<1> QED
  BY Invariance, <1>2, PTL DEF Spec, NeverRequeued

LEMMA LineageInit == Init => Lineage
<1> SUFFICES ASSUME Init PROVE Lineage
  OBVIOUS
<1>1. \A t \in Tasks : status[t] = "absent"
  BY DEF Init
<1>2. \A x \in Reviewers, t \in Tasks : listed[x][t] = "absent"
  BY DEF Init, NothingListed
<1>3. \A x \in Retriers : back[x] = "done" /\ pc[x] = "start"
  BY Kinds DEF Init
<1> QED
  BY <1>1, <1>2, <1>3 DEF Lineage, Exists, Newest

LEMMA LineageHolds == Spec => []Lineage
<1>1. IInv /\ Lineage /\ [Next]_vars => Lineage'
  BY LineageStep
<1> QED
  BY Invariance, LineageInit, <1>1, PTL DEF Spec

(* Only what a child has left is reviewed. *)
ReviewsKept == \A t \in Tasks : review[t] # "none" => t \in kept

LEMMA ReviewsStep ==
  ASSUME IInv, ReviewsKept, [Next]_vars
  PROVE  ReviewsKept'
<1> USE TypeParts DEF IInv
<1> DEFINE Untouched == review' = review /\ kept \subseteq kept'
<1>1. ASSUME Batch PROVE Untouched
  BY <1>1 DEF Batch, CreateRun, CreateTask, CreateRaises, BatchWave, BatchThrough, BatchCancels, BatchRaises,
              Rescue, BatchFinalizes, BatchSynthesizes, BatchCancelled, BatchBlocked, GiveUp, taskVars, histVars
<1>2. ASSUME NEW x, Reconcile(x) PROVE Untouched
  BY <1>2 DEF Reconcile, Read, Write, taskVars, histVars
<1>3. ASSUME EventLoop PROVE Untouched
  BY <1>2, <1>3 DEF EventLoop, CancelRun, CancelListed, CancelEnds, CancelTask, Request, taskVars, histVars
<1>4. ASSUME Requests PROVE Untouched
  BY <1>4 DEF Requests, Retry, Resume, RequestRetry, Integrate, Verify, CancelParent, Request, taskVars
<1>5. ASSUME Restart PROVE Untouched
  BY <1>5 DEF Restart, Request
<1>6. ASSUME NEW x \in Retriers, Scheduler(x), ~Replace(x) PROVE Untouched
  BY <1>2, <1>6 DEF Scheduler, ListTasks, FailBlocked, Wave, WaveDone, taskVars, histVars
<1>7. ASSUME NEW x \in Reviewers, Review(x), ~ResolveViolation(x), ~Resolve(x) PROVE Untouched
  BY <1>2, <1>7 DEF Review, StartIntegration, ResolveRaises, Settle, Resolved, StartVerification,
                    SkipVerification, RunVerification, Verified, taskVars, histVars
<1>8. ASSUME NEW x \in Executors, NEW t \in Tasks, Execute(x, t), ~Persist(x, t) PROVE Untouched
  BY <1>8 DEF Execute, Check, SpawnRefused, Spawned, ChildEnds, taskVars, histVars
<1>9. ASSUME Untouched PROVE ReviewsKept'
  BY <1>9 DEF ReviewsKept
<1>10. ASSUME NEW x \in Retriers, Replace(x) PROVE ReviewsKept'
  BY <1>10 DEF Replace, Supersede, ReviewsKept, TaskTypes, taskVars, histVars
<1>11. ASSUME NEW x \in Reviewers, ResolveViolation(x) \/ Resolve(x) PROVE ReviewsKept'
  <2>1. PICK t \in todo[x] : t \in kept /\ \E r : review' = [review EXCEPT ![t] = r]
    BY <1>11 DEF ResolveViolation, Resolve, Available
  <2>2. kept' = kept
    BY <1>11 DEF ResolveViolation, Resolve, histVars
  <2> QED
    BY <2>1, <2>2 DEF ReviewsKept, TaskTypes
<1>12. ASSUME NEW x \in Executors, NEW t \in Tasks, Persist(x, t) PROVE ReviewsKept'
  BY <1>12 DEF Persist, ReviewsKept, TaskTypes, histVars
<1>13. CASE UNCHANGED vars
  BY <1>9, <1>13 DEF vars, taskVars, histVars
<1> HIDE DEF Untouched
<1> QED
  BY <1>1, <1>2, <1>3, <1>4, <1>5, <1>6, <1>7, <1>8, <1>9, <1>10, <1>11, <1>12, <1>13 DEF Next

LEMMA EarnedInit == Init => EInv
<1> SUFFICES ASSUME Init PROVE EInv
  OBVIOUS
<1>1. \A x \in Threads : pc[x] = "start" /\ back[x] = "done"
  BY DEF Init
<1> QED
  BY <1>1, Kinds DEF Init, EInv, Beginning, Conclusions, Completions

LEMMA LeastNumber ==
  ASSUME NEW D \in SUBSET Nat, D # {}
  PROVE  \E d \in D : \A e \in D : d <= e
<1>1. \E d \in D : \A e \in D : ~(<<e, d>> \in OpToRel(<, Nat))
  BY WFMin, NatLessThanWellFounded, Zenon
<1>2. PICK d \in D : \A e \in D : ~(e < d)
  BY <1>1 DEF OpToRel
<1> QED
  BY <1>2

(* The last generation of a task is there, and it is the newest one. *)
LEMMA LastIsNewest ==
  ASSUME NEW n \in Names, Exists(First(n))
  PROVE  Last(n) \in Tasks /\ Last(n)[1] = n /\ Newest(Last(n))
<1> DEFINE G == {g \in 0 .. MaxRetries : Exists(<<n, g>>)}
           D == {e \in Nat : \E g \in G : e = MaxRetries - g}
<1>1. MaxRetries \in Nat /\ 0 \in G
  BY DelegationAssumption DEF First
<1>2. \A g \in G : g \in Nat /\ MaxRetries - g \in Nat
  BY <1>1
<1>3. \A g \in G : MaxRetries - g \in D
  BY <1>2
<1>4. D \subseteq Nat /\ D # {}
  BY <1>1, <1>3
<1> HIDE DEF D
<1>5. PICK d \in D : \A e \in D : d <= e
  BY <1>4, LeastNumber
<1>6. PICK g \in G : d = MaxRetries - g /\ d \in Nat
  BY DEF D
<1>7. \A h \in 0 .. MaxRetries : h > g => status[<<n, h>>] = "absent"
  <2> SUFFICES ASSUME NEW h \in G, h > g PROVE FALSE
    BY DEF Exists
  <2>1. MaxRetries - h \in D /\ MaxRetries - h \in Nat
    BY <1>2, <1>3
  <2>2. MaxRetries - h < d
    BY <1>1, <1>2, <1>6
  <2> QED
    BY <1>5, <1>6, <2>1, <2>2
<1>8. PICK k \in 0 .. MaxRetries :
        /\ Last(n) = <<n, k>> /\ status[<<n, k>>] # "absent"
        /\ \A h \in 0 .. MaxRetries : h > k => status[<<n, h>>] = "absent"
  BY <1>7 DEF Last, Exists
<1>9. ~Replaced(Last(n))
  BY <1>1, <1>8 DEF Replaced, Next1
<1> QED
  BY <1>8, <1>9 DEF Tasks, Newest, Exists

(* A run that was reconciled as completed is: the conclusion is read from the
   tasks and written later, by whoever still knows the version of the run, and
   in between children end, schedulers and cancels write their statuses, other
   integrations decide and the process stops.  None of that takes a success
   away or opens a task again; only a retry does, and a retry changes the
   version. *)
THEOREM CompletedRunsEarned == Spec => []CompletedIsEarned
<1>1. IInv /\ Lineage /\ EInv /\ [Next]_vars => EInv'
  BY EarnedStep
<1>2. EInv /\ ReviewsKept => CompletedIsEarned
  <2> SUFFICES ASSUME EInv, ReviewsKept, run.status = "completed", run.verified = "none", ~early,
                      NEW n \in Names, status[First(n)] # "absent"
               PROVE  /\ status[Last(n)] \in Open => Last(n) \in kept /\ review[Last(n)] # "none"
                      /\ n \in Required => Last(n) \in successes
    BY DEF CompletedIsEarned
  <2> QED
    BY LastIsNewest DEF EInv, Completions, AllEarned, Earned, Exists, ReviewsKept
<1>3. Init => ReviewsKept
  BY DEF Init, ReviewsKept
<1>4. IInv /\ ReviewsKept /\ [Next]_vars => ReviewsKept'
  BY ReviewsStep
<1> QED
  BY Invariance, LineageHolds, EarnedInit, <1>1, <1>2, <1>3, <1>4, PTL DEF Spec

(* A retry replaces all or nothing, and what it creates can become ready: the
   replaced tasks and what is downstream of them are superseded in one step,
   and the new ones depend on the newest generations.  A late child that makes
   a superseded task effective again does not disturb this. *)
THEOREM RetriesReplaceAll ==
  ASSUME OrderFollowsDependencies
  PROVE  Spec => ReplacementsWhole
<1>1. IInv /\ Lineage /\ [Next]_vars => Whole
  BY LineageStep
<1>2. Whole =>
        [~early => \A t \in Tasks :
           t[2] > 0 /\ status[t] = "absent" /\ status'[t] # "absent" =>
             /\ status'[Before(t)] = "superseded"
             /\ \A d \in deps'[t] : status'[d] \notin {"absent", "superseded"}
             /\ \A u \in Effective : Before(t) \in deps[u] => status'[u] = "superseded"]_vars
  BY DEF Whole, Exists
<1> QED
  BY Invariance, LineageHolds, <1>1, <1>2, PTL DEF Spec, ReplacementsWhole
=============================================================================
