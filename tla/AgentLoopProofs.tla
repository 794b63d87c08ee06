--------------------------- MODULE AgentLoopProofs ---------------------------
(***************************************************************************)
(* Proofs about AgentLoop, for any limits and any number of children.  The *)
(* inductive invariant says where in a step the task, the budget and the   *)
(* counters can be, what the two reads of the completion check have        *)
(* covered, and which steps a cancelled run may still work in.             *)
(***************************************************************************)
EXTENDS AgentLoop, FiniteSetTheorems, TLAPS

(* The state of the task at each place of a step. *)
TaskAtPc ==
  /\ pc \in {"prepare", "model", "tools"} => tsm = "running"
  /\ pc \in {"stop", "runs", "verify"} => tsm = "completing"
  /\ pc # "done" => result = "none" /\ reason = "none"
  /\ pc \notin {"prepare", "done"} => step < MaxSteps

(* No counter is at its limit while the run goes on. *)
CountsBelow ==
  /\ pc # "done" => testFails < TestLimit
  /\ missing.since <= step

(* An exhausted budget has had its final turn. *)
FinalsCount ==
  /\ finals <= 1
  /\ pc # "done" => budget # "completed"
  /\ pc # "done" => finals = IF budget = "exhausted" THEN 1 ELSE 0

(* What the completion check has seen of the children still holds, but for
   those that moved.                                                       *)
ReadsCover ==
  /\ pc = "runs" /\ clean => \A c \in Children : tree[c] = "preserved" => c \in moved
  /\ pc = "verify" => \A c \in Children : RunOpen(c) \/ tree[c] = "preserved" => c \in moved
  /\ tsm = "completed" => pc = "done"

AllowedSteps == ~cancelled => allowed = MaxSteps

Parts == TypeOK /\ TaskAtPc /\ CountsBelow /\ FinalsCount /\ ReadsCover /\ AllowedSteps
Inv == Parts /\ FinalTurn /\ SuccessEarned /\ ReservedForChildren /\ CompletedConverged /\ CancelStops

-----------------------------------------------------------------------------
(* The limits, one by one. *)
LEMMA Limits ==
  /\ MaxSteps \in Nat \ {0} /\ ChildTokens \in Nat \ {0} /\ BlockLimit \in Nat \ {0}
  /\ TestLimit \in Nat \ {0} /\ TokenLimit \in Nat /\ StopLimit \in Nat
  /\ Followups \in Nat /\ RecoveryLimit \in Nat /\ IsFiniteSet(Children)
  BY AgentLoopAssumption DEF AgentLoopAssumption

(* Every step but those of the loop, Spawn and Cancel leaves the loop alone. *)
Beside == \E c \in Children :
  ChildReports(c) \/ ChildRaises(c) \/ ChildConverges(c) \/ ChildLeaves(c) \/ Decide(c)
    \/ Reopen(c) \/ Reclose(c)

LEMMA NextSplits ==
  ASSUME Next
  PROVE  Loop \/ Cancel \/ (\E c \in Children : Spawn(c)) \/ Beside
  BY DEF Next, User, Child, Beside

LEMMA BesideFrames ==
  ASSUME Beside
  PROVE  /\ UNCHANGED <<pc, step, taskVars, turnVars, signalVars, retryVars, clean, budget>>
         /\ moved' = moved \/ \E c \in Children : moved' = moved \cup {c}
  BY DEF Beside, ChildReports, ChildRaises, ChildConverges, ChildLeaves, Decide, Reopen, Reclose,
     ThreadOnly, Moves, budgetVars

LEMMA PrepareKeeps ==
  ASSUME Inv, Prepare
  PROVE  Inv'
  <1> USE Limits DEF Inv, Parts, Prepare, CancelledAtGate, DeniedAtGate, BreakerTripped,
     OutOfSteps, BudgetSpent, GuardRejects, Proceed, GateOpen, Exhaust, Over, Checked,
     EndsWith, Fails, taskVars, budgetVars, turnVars, signalVars, retryVars, childVars
  <1>1. TypeOK'
    <2>1. CASE CancelledAtGate
      BY <2>1 DEF TypeOK, TaskAtPc, CountsBelow, TaskStates, Results, Reasons
    <2>2. CASE DeniedAtGate
      BY <2>2 DEF TypeOK, TaskAtPc, CountsBelow, TaskStates, Results, Reasons
    <2>3. CASE BreakerTripped
      BY <2>3 DEF TypeOK, TaskAtPc, CountsBelow, TaskStates, Results, Reasons
    <2>4. CASE OutOfSteps
      BY <2>4 DEF TypeOK, TaskAtPc, CountsBelow, TaskStates, Results, Reasons
    <2>5. CASE BudgetSpent
      BY <2>5 DEF TypeOK, TaskAtPc, CountsBelow, TaskStates, Results, Reasons
    <2>6. CASE GuardRejects
      BY <2>6 DEF TypeOK, TaskAtPc, CountsBelow, TaskStates, Results, Reasons
    <2>7. CASE Proceed
      BY <2>7 DEF TypeOK, TaskAtPc, CountsBelow, TaskStates, Results, Reasons
    <2> QED  BY <2>1, <2>2, <2>3, <2>4, <2>5, <2>6, <2>7
  <1>2. TaskAtPc'
    BY DEF TaskAtPc, TypeOK
  <1>3. CountsBelow'
    BY DEF CountsBelow, TypeOK, TaskAtPc
  <1>4. FinalsCount'
    BY DEF FinalsCount
  <1>5. ReadsCover'
    BY DEF ReadsCover, RunOpen, TypeOK, TaskAtPc
  <1>6. AllowedSteps'
    BY DEF AllowedSteps
  <1>7. FinalTurn'
    BY DEF FinalTurn, FinalsCount
  <1>8. SuccessEarned'
    BY DEF SuccessEarned, TaskAtPc, TypeOK, CountsBelow
  <1>9. ReservedForChildren'
    BY DEF ReservedForChildren
  <1>10. CompletedConverged'
    BY DEF CompletedConverged, ReadsCover, RunOpen, TaskAtPc
  <1>11. CancelStops'
    BY DEF CancelStops, AllowedSteps, TypeOK, TaskAtPc
  <1> QED  BY <1>1, <1>2, <1>3, <1>4, <1>5, <1>6, <1>7, <1>8, <1>9, <1>10, <1>11

LEMMA ModelKeeps ==
  ASSUME Inv, Model
  PROVE  Inv'
  <1> USE Limits DEF Inv, Parts, Model, CompactsAndRetries, ModelFails, Truncated,
     NothingDone, GivesUp, Finishes, CallsTools, LogFails, NextStep, EndsWith, Fails, Spends,
     taskVars, budgetVars, turnVars, signalVars, retryVars, childVars
  <1>1. TypeOK'
    <2>1. CASE CompactsAndRetries
      BY <2>1 DEF TypeOK, TaskAtPc, CountsBelow, TaskStates, Results, Reasons
    <2>2. CASE ModelFails
      <3>1. compacted' \in BOOLEAN
        BY <2>2, Zenon DEF TypeOK
      <3> QED  BY <2>2, <3>1 DEF TypeOK, TaskAtPc, CountsBelow, TaskStates, Results, Reasons
    <2>3. CASE Truncated
      BY <2>3 DEF TypeOK, TaskAtPc, CountsBelow, TaskStates, Results, Reasons
    <2>4. CASE NothingDone
      BY <2>4 DEF TypeOK, TaskAtPc, CountsBelow, TaskStates, Results, Reasons
    <2>5. CASE GivesUp
      BY <2>5 DEF TypeOK, TaskAtPc, CountsBelow, TaskStates, Results, Reasons
    <2>6. CASE Finishes
      BY <2>6 DEF TypeOK, TaskAtPc, CountsBelow, TaskStates, Results, Reasons
    <2>7. CASE CallsTools
      BY <2>7 DEF TypeOK, TaskAtPc, CountsBelow, TaskStates, Results, Reasons
    <2>8. CASE LogFails
      BY <2>8 DEF TypeOK, TaskAtPc, CountsBelow, TaskStates, Results, Reasons
    <2> QED  BY <2>1, <2>2, <2>3, <2>4, <2>5, <2>6, <2>7, <2>8
  <1>2. TaskAtPc'
    BY DEF TaskAtPc, TypeOK
  <1>3. CountsBelow'
    <2>1. missing' = missing /\ testFails' = testFails /\ step' \in {step, step + 1}
      OBVIOUS
    <2>2. missing.since \in Nat /\ step \in Nat /\ pc # "done"
      BY DEF TypeOK
    <2> QED  BY <2>1, <2>2 DEF CountsBelow
  <1>4. FinalsCount'
    BY DEF FinalsCount
  <1>5. ReadsCover'
    BY DEF ReadsCover, RunOpen, TypeOK, TaskAtPc
  <1>6. AllowedSteps'
    BY DEF AllowedSteps
  <1>7. FinalTurn'
    BY DEF FinalTurn, FinalsCount, TypeOK, TaskAtPc
  <1>8. SuccessEarned'
    BY DEF SuccessEarned, TaskAtPc, TypeOK, CountsBelow
  <1>9. ReservedForChildren'
    BY DEF ReservedForChildren
  <1>10. CompletedConverged'
    BY DEF CompletedConverged, ReadsCover, RunOpen, TaskAtPc
  <1>11. CancelStops'
    BY DEF CancelStops, AllowedSteps, TypeOK, TaskAtPc
  <1> QED  BY <1>1, <1>2, <1>3, <1>4, <1>5, <1>6, <1>7, <1>8, <1>9, <1>10, <1>11

LEMMA StopKeeps ==
  ASSUME Inv, Stop
  PROVE  Inv'
  <1> USE Limits DEF Inv, Parts, Stop, HookBlocks, HookPasses, Resume, NextStep, EndsWith,
     Fails, taskVars, budgetVars, turnVars, signalVars, retryVars, childVars
  <1>1. TypeOK'
    <2>1. CASE HookBlocks
      BY <2>1 DEF TypeOK, TaskAtPc, CountsBelow, TaskStates, Results, Reasons
    <2>2. CASE HookPasses
      BY <2>2 DEF TypeOK, TaskAtPc, CountsBelow, TaskStates, Results, Reasons
    <2> QED  BY <2>1, <2>2
  <1>2. TaskAtPc'
    BY DEF TaskAtPc, TypeOK
  <1>3. CountsBelow'
    <2>1. missing' = missing /\ testFails' = testFails /\ step' \in {step, step + 1}
      OBVIOUS
    <2>2. missing.since \in Nat /\ step \in Nat /\ pc # "done"
      BY DEF TypeOK
    <2> QED  BY <2>1, <2>2 DEF CountsBelow
  <1>4. FinalsCount'
    BY DEF FinalsCount
  <1>5. ReadsCover'
    BY DEF ReadsCover, RunOpen, TypeOK, TaskAtPc
  <1>6. AllowedSteps'
    BY DEF AllowedSteps
  <1>7. FinalTurn'
    BY DEF FinalTurn, FinalsCount
  <1>8. SuccessEarned'
    BY DEF SuccessEarned, TaskAtPc, TypeOK, CountsBelow
  <1>9. ReservedForChildren'
    BY DEF ReservedForChildren
  <1>10. CompletedConverged'
    BY DEF CompletedConverged, ReadsCover, RunOpen, TaskAtPc
  <1>11. CancelStops'
    BY DEF CancelStops, AllowedSteps, TypeOK, TaskAtPc
  <1> QED  BY <1>1, <1>2, <1>3, <1>4, <1>5, <1>6, <1>7, <1>8, <1>9, <1>10, <1>11

LEMMA ReadRunsKeeps ==
  ASSUME Inv, ReadRuns
  PROVE  Inv'
  <1> USE Limits DEF Inv, Parts, ReadRuns, Converged, Resume, NextStep, taskVars, budgetVars,
     turnVars, signalVars, retryVars, childVars
  <1>1. TypeOK'
    BY DEF TypeOK, TaskAtPc, CountsBelow, TaskStates, Results, Reasons
  <1>2. TaskAtPc'
    BY DEF TaskAtPc, TypeOK
  <1>3. CountsBelow'
    BY DEF CountsBelow, TypeOK, TaskAtPc
  <1>4. FinalsCount'
    BY DEF FinalsCount
  <1>5. ReadsCover'
    BY DEF ReadsCover, RunOpen, TypeOK, TaskAtPc
  <1>6. AllowedSteps'
    BY DEF AllowedSteps
  <1>7. FinalTurn'
    BY DEF FinalTurn, FinalsCount
  <1>8. SuccessEarned'
    BY DEF SuccessEarned, TaskAtPc, TypeOK, CountsBelow
  <1>9. ReservedForChildren'
    BY DEF ReservedForChildren
  <1>10. CompletedConverged'
    BY DEF CompletedConverged, ReadsCover, RunOpen, TaskAtPc
  <1>11. CancelStops'
    BY DEF CancelStops, AllowedSteps, TypeOK, TaskAtPc
  <1> QED  BY <1>1, <1>2, <1>3, <1>4, <1>5, <1>6, <1>7, <1>8, <1>9, <1>10, <1>11

LEMMA VerifyKeeps ==
  ASSUME Inv, Verify
  PROVE  Inv'
  <1> USE Limits DEF Inv, Parts, Verify, VerifierBlocks, VerifierAborts, GuardBlocks,
     Completes, Resume, NextStep, EndsWith, Fails, taskVars, budgetVars, turnVars, signalVars,
     retryVars, childVars
  <1>1. TypeOK'
    <2>1. CASE VerifierBlocks
      BY <2>1 DEF TypeOK, TaskAtPc, CountsBelow, TaskStates, Results, Reasons
    <2>2. CASE VerifierAborts
      BY <2>2 DEF TypeOK, TaskAtPc, CountsBelow, TaskStates, Results, Reasons
    <2>3. CASE GuardBlocks
      BY <2>3 DEF TypeOK, TaskAtPc, CountsBelow, TaskStates, Results, Reasons
    <2>4. CASE Completes
      BY <2>4 DEF TypeOK, TaskAtPc, CountsBelow, TaskStates, Results, Reasons
    <2> QED  BY <2>1, <2>2, <2>3, <2>4
  <1>2. TaskAtPc'
    BY DEF TaskAtPc, TypeOK
  <1>3. CountsBelow'
    BY DEF CountsBelow, TypeOK, TaskAtPc
  <1>4. FinalsCount'
    BY DEF FinalsCount
  <1>5. ReadsCover'
    BY DEF ReadsCover, RunOpen, TypeOK, TaskAtPc
  <1>6. AllowedSteps'
    BY DEF AllowedSteps
  <1>7. FinalTurn'
    BY DEF FinalTurn, FinalsCount
  <1>8. SuccessEarned'
    BY DEF SuccessEarned, TaskAtPc, TypeOK, CountsBelow
  <1>9. ReservedForChildren'
    BY DEF ReservedForChildren
  <1>10. CompletedConverged'
    BY DEF CompletedConverged, ReadsCover, RunOpen, TaskAtPc
  <1>11. CancelStops'
    BY DEF CancelStops, AllowedSteps, TypeOK, TaskAtPc
  <1> QED  BY <1>1, <1>2, <1>3, <1>4, <1>5, <1>6, <1>7, <1>8, <1>9, <1>10, <1>11

LEMMA BatchEndsKeeps ==
  ASSUME Inv, BatchEnds
  PROVE  Inv'
  <1> USE Limits DEF Inv, Parts, BatchEnds, EnvironmentBlocks, CancelledInBatch, BatchRaises,
     FinishTurn, FailureLimit, TargetMissing, Continues, Batches, Noted, Due, Left, Spends,
     NextStep, EndsWith, Fails, taskVars, budgetVars, turnVars, signalVars, retryVars,
     childVars
  <1>1. TypeOK'
    <2>1. /\ UNCHANGED <<budget, reserved, held, strip, finals, cancelled, allowed>>
          /\ UNCHANGED <<stopHooks, blocks, truncations, compacted, kid, tree, moved, clean>>
          /\ used' \in 0 .. TokenLimit
      BY DEF TypeOK
    <2>2. terminate' \in BOOLEAN
      BY Zenon DEF TypeOK
    <2>3. /\ pc' \in {"done", "prepare"} /\ step' \in 1 .. MaxSteps
          /\ tsm' \in TaskStates /\ reason' \in Reasons /\ result' \in Results
      BY DEF TypeOK, TaskAtPc, TaskStates, Reasons, Results
    <2>4. testFails' \in 0 .. TestLimit
      BY DEF TypeOK, CountsBelow
    <2>5. missing' \in [followups : 0 .. Followups, since : 0 .. MaxSteps]
      BY DEF TypeOK
    <2> QED  BY <2>1, <2>2, <2>3, <2>4, <2>5 DEF TypeOK
  <1>2. TaskAtPc'
    BY DEF TaskAtPc, TypeOK
  <1>3. CountsBelow'
    BY DEF CountsBelow, TypeOK, TaskAtPc
  <1>4. FinalsCount'
    BY DEF FinalsCount
  <1>5. ReadsCover'
    BY DEF ReadsCover, RunOpen, TypeOK, TaskAtPc
  <1>6. AllowedSteps'
    BY DEF AllowedSteps
  <1>7. FinalTurn'
    BY DEF FinalTurn, FinalsCount
  <1>8. SuccessEarned'
    BY DEF SuccessEarned, TaskAtPc, TypeOK, CountsBelow
  <1>9. ReservedForChildren'
    BY DEF ReservedForChildren
  <1>10. CompletedConverged'
    BY DEF CompletedConverged, ReadsCover, RunOpen, TaskAtPc
  <1>11. CancelStops'
    BY DEF CancelStops, AllowedSteps, TypeOK, TaskAtPc
  <1> QED  BY <1>1, <1>2, <1>3, <1>4, <1>5, <1>6, <1>7, <1>8, <1>9, <1>10, <1>11

LEMMA CancelKeeps ==
  ASSUME Inv, Cancel
  PROVE  Inv'
  <1> USE Limits DEF Inv, Parts, Cancel, taskVars, budgetVars, turnVars, signalVars,
     retryVars, childVars
  <1>1. TypeOK'
    BY DEF TypeOK, TaskAtPc, CountsBelow, TaskStates, Results, Reasons
  <1>2. TaskAtPc'
    BY DEF TaskAtPc, TypeOK
  <1>3. CountsBelow'
    BY DEF CountsBelow, TypeOK, TaskAtPc
  <1>4. FinalsCount'
    BY DEF FinalsCount
  <1>5. ReadsCover'
    BY DEF ReadsCover, RunOpen, TypeOK, TaskAtPc
  <1>6. AllowedSteps'
    BY DEF AllowedSteps
  <1>7. FinalTurn'
    BY DEF FinalTurn, FinalsCount
  <1>8. SuccessEarned'
    BY DEF SuccessEarned, TaskAtPc, TypeOK, CountsBelow
  <1>9. ReservedForChildren'
    BY DEF ReservedForChildren
  <1>10. CompletedConverged'
    BY DEF CompletedConverged, ReadsCover, RunOpen, TaskAtPc
  <1>11. CancelStops'
    BY DEF CancelStops, AllowedSteps, TypeOK, TaskAtPc
  <1> QED  BY <1>1, <1>2, <1>3, <1>4, <1>5, <1>6, <1>7, <1>8, <1>9, <1>10, <1>11

-----------------------------------------------------------------------------
(* The children.                                                           *)

(* What one reservation more or less does to their sum. *)
LEMMA Sums ==
  ASSUME NEW c \in Children, held \subseteq Children, reserved = ChildTokens * Cardinality(held)
  PROVE  /\ IsFiniteSet(held) /\ Cardinality(held) \in Nat
         /\ c \notin held =>
              reserved + ChildTokens = ChildTokens * Cardinality(held \cup {c})
         /\ c \in held =>
              Less(reserved, ChildTokens) = ChildTokens * Cardinality(held \ {c})
  <1> USE Limits
  <1>1. IsFiniteSet(held) /\ Cardinality(held) \in Nat
    BY FS_Subset, FS_CardinalityType
  <1>2. CASE c \notin held
    <2>1. Cardinality(held \cup {c}) = Cardinality(held) + 1
      BY <1>1, <1>2, FS_AddElement
    <2> QED  BY <1>1, <1>2, <2>1
  <1>3. CASE c \in held
    <2>1. Cardinality(held \ {c}) = Cardinality(held) - 1
      BY <1>1, <1>3, FS_RemoveElement
    <2>2. Cardinality(held \ {c}) \in Nat
      BY <1>1, FS_Subset, FS_CardinalityType, held \ {c} \subseteq held
    <2>3. PICK n \in Nat : n = Cardinality(held \ {c}) /\ Cardinality(held) = n + 1
      BY <1>1, <2>1, <2>2
    <2>4. reserved = ChildTokens * n + ChildTokens /\ ChildTokens * n \in Nat
      BY <2>3
    <2> QED  BY <1>1, <1>3, <2>3, <2>4 DEF Less
  <1> QED  BY <1>1, <1>2, <1>3

(* A reservation settled once, or not at all. *)
LEMMA Settled ==
  ASSUME NEW c \in Children, TypeOK, ReservedForChildren, Settle(c)
  PROVE  /\ reserved' = ChildTokens * Cardinality(held')
         /\ reserved' \in Nat
         /\ held' = held \ {c}
  <1> USE Limits
  <1>1. held \subseteq Children /\ reserved \in Nat /\ reserved = ChildTokens * Cardinality(held)
    BY DEF TypeOK, ReservedForChildren
  <1>2. CASE c \in held
    BY <1>1, <1>2, Sums DEF Settle, Less
  <1>3. CASE c \notin held
    BY <1>1, <1>3 DEF Settle
  <1> QED  BY <1>2, <1>3

LEMMA SpawnKeeps ==
  ASSUME Inv, NEW c \in Children, Spawn(c)
  PROVE  Inv'
  <1> USE Limits DEF Inv, Parts, Spawn, taskVars, turnVars, signalVars, retryVars
  <1>1. /\ UNCHANGED <<pc, step, tsm, reason, result, budget, used, strip, finals, terminate>>
        /\ UNCHANGED <<cancelled, allowed, stopHooks, blocks, truncations, compacted, missing>>
        /\ UNCHANGED <<testFails, tree, moved, clean>>
        /\ pc = "tools" /\ tsm = "running" /\ result = "none"
        /\ reserved' = reserved + ChildTokens /\ held' = held \cup {c}
    BY DEF Reserve, TaskAtPc
  <1>2. PICK k \in {"working", "lost"} : kid' = [kid EXCEPT ![c] = k]
    OBVIOUS
  <1>3. kid \in [Children -> Kids] /\ held \subseteq Children /\ reserved \in Nat /\ kid[c] = "none"
    BY DEF TypeOK
  <1> HIDE DEF Spawn
  <1>4. TypeOK'
    <2>1. kid' \in [Children -> Kids] /\ held' \subseteq Children /\ reserved' \in Nat
      BY <1>1, <1>2, <1>3 DEF Kids
    <2> QED  BY <1>1, <2>1 DEF TypeOK
  <1>5. ReservedForChildren'
    <2>1. c \notin held
      BY <1>3 DEF ReservedForChildren
    <2>2. reserved' = ChildTokens * Cardinality(held')
      BY <1>1, <1>3, <2>1, Sums DEF ReservedForChildren
    <2> QED  BY <1>1, <1>2, <1>3, <2>2 DEF ReservedForChildren
  <1>6. TaskAtPc' /\ CountsBelow' /\ FinalsCount' /\ AllowedSteps' /\ FinalTurn' /\ CancelStops'
    BY <1>1 DEF TaskAtPc, CountsBelow, FinalsCount, AllowedSteps, FinalTurn, CancelStops
  <1>7. SuccessEarned' /\ ReadsCover' /\ CompletedConverged'
    BY <1>1 DEF SuccessEarned, ReadsCover, CompletedConverged
  <1> QED  BY <1>4, <1>5, <1>6, <1>7

(* What a step beside the loop can do to the children. *)
LEMMA BesideMoves ==
  ASSUME Inv, Beside
  PROVE  /\ used' \in 0 .. TokenLimit /\ reserved' \in Nat /\ held' \subseteq Children
         /\ kid' \in [Children -> Kids]
         /\ tree' \in [Children -> {"none", "preserved", "resolved"}]
         /\ ReservedForChildren'
         /\ pc \in {"runs", "verify", "done"} => \A c \in Children :
              /\ RunOpen(c)' => RunOpen(c) \/ c \in moved'
              /\ tree'[c] = "preserved" => tree[c] = "preserved" \/ c \in moved'
  <1> USE Limits DEF Inv, Parts, ThreadOnly, budgetVars
  <1>1. PICK c \in Children : ChildReports(c) \/ ChildRaises(c) \/ ChildConverges(c)
                                \/ ChildLeaves(c) \/ Decide(c) \/ Reopen(c) \/ Reclose(c)
    BY DEF Beside
  <1>2. /\ used \in 0 .. TokenLimit /\ reserved \in Nat /\ held \subseteq Children
        /\ kid \in [Children -> Kids] /\ tree \in [Children -> {"none", "preserved", "resolved"}]
        /\ pc \in {"runs", "verify", "done"} /\ Moves(c) => c \in moved'
    BY DEF TypeOK, Moves
  <1>3. CASE ChildReports(c)
    <2>1. /\ used' \in 0 .. TokenLimit /\ Moves(c) /\ Settle(c)
          /\ kid' = [kid EXCEPT ![c] = "reported"]
      BY <1>2, <1>3 DEF ChildReports
    <2>2. PICK left \in {"none", "preserved"} : tree' = [tree EXCEPT ![c] = left]
      BY <1>3 DEF ChildReports
    <2>3. ReservedForChildren' /\ reserved' \in Nat /\ held' = held \ {c}
      BY <1>2, <2>1, Settled DEF ReservedForChildren
    <2> QED  BY <1>2, <2>1, <2>2, <2>3 DEF Kids, RunOpen
  <1>4. CASE ChildRaises(c)
    BY <1>2, <1>4 DEF ChildRaises, Kids, RunOpen, ReservedForChildren
  <1>5. CASE ChildConverges(c)
    BY <1>2, <1>5 DEF ChildConverges, Kids, RunOpen, ReservedForChildren
  <1>6. CASE ChildLeaves(c)
    <2>1. Settle(c) /\ kid' = [kid EXCEPT ![c] = "gone"] /\ UNCHANGED <<used, tree, moved>>
      BY <1>6 DEF ChildLeaves
    <2>2. ReservedForChildren' /\ reserved' \in Nat /\ held' = held \ {c}
      BY <1>2, <2>1, Settled DEF ReservedForChildren
    <2> QED  BY <1>2, <2>1, <2>2 DEF Kids, RunOpen
  <1>7. CASE Decide(c)
    BY <1>2, <1>7 DEF Decide, RunOpen, ReservedForChildren
  <1>8. CASE Reopen(c)
    BY <1>2, <1>8 DEF Reopen, Kids, RunOpen, ReservedForChildren
  <1>9. CASE Reclose(c)
    <2>1. PICK left \in {tree[c], "preserved"} : tree' = [tree EXCEPT ![c] = left]
      BY <1>9 DEF Reclose
    <2>2. left \in {"none", "preserved", "resolved"}
      BY <1>2
    <2> QED  BY <1>2, <1>9, <2>1, <2>2 DEF Reclose, Kids, RunOpen, ReservedForChildren
  <1> QED  BY <1>1, <1>3, <1>4, <1>5, <1>6, <1>7, <1>8, <1>9

LEMMA BesideKeeps ==
  ASSUME Inv, Beside
  PROVE  Inv'
  <1> USE DEF Inv, Parts
  <1>1. /\ UNCHANGED <<pc, step, tsm, reason, result, strip, finals, terminate, cancelled, allowed>>
        /\ UNCHANGED <<stopHooks, blocks, truncations, compacted, missing, testFails, clean, budget>>
    BY BesideFrames DEF taskVars, turnVars, signalVars, retryVars
  <1>2. moved \subseteq moved' /\ moved' \subseteq Children
    BY BesideFrames DEF TypeOK
  <1>3. TypeOK'
    BY <1>1, <1>2, BesideMoves DEF TypeOK
  <1>4. TaskAtPc' /\ CountsBelow' /\ FinalsCount' /\ AllowedSteps' /\ FinalTurn' /\ CancelStops'
    BY <1>1 DEF TaskAtPc, CountsBelow, FinalsCount, AllowedSteps, FinalTurn, CancelStops
  <1>5. SuccessEarned'
    BY <1>1 DEF SuccessEarned
  <1>6. ReadsCover' /\ CompletedConverged'
    BY <1>1, <1>2, BesideMoves DEF ReadsCover, CompletedConverged
  <1> QED  BY <1>3, <1>4, <1>5, <1>6, BesideMoves

-----------------------------------------------------------------------------
(* The theorems.                                                           *)

LEMMA InitInv == Init => Inv
  <1> SUFFICES ASSUME Init PROVE Inv
    OBVIOUS
  <1> USE Limits DEF Init
  <1>1. TypeOK
    <2>1. kid \in [Children -> Kids] /\ tree \in [Children -> {"none", "preserved", "resolved"}]
      BY DEF Kids
    <2>2. blocks \in [reason : BlockReasons \cup {"none"}, count : Nat]
      OBVIOUS
    <2>3. missing \in [followups : 0 .. Followups, since : 0 .. MaxSteps]
      OBVIOUS
    <2>4. step \in 1 .. MaxSteps /\ used \in 0 .. TokenLimit /\ allowed \in 0 .. MaxSteps
      OBVIOUS
    <2>5. /\ pc \in {"prepare", "model", "stop", "runs", "verify", "tools", "done"}
          /\ tsm \in TaskStates /\ reason \in Reasons /\ result \in Results
          /\ budget \in {"running", "exhausted", "completed"}
      BY DEF TaskStates, Results, Reasons
    <2>6. /\ reserved \in Nat /\ held \subseteq Children /\ finals \in Nat /\ moved \subseteq Children
          /\ stopHooks \in 0 .. StopLimit /\ testFails \in 0 .. TestLimit
          /\ truncations \in 0 .. RecoveryLimit + 1
      OBVIOUS
    <2>7. {strip, terminate, cancelled, compacted, clean} \subseteq BOOLEAN
      OBVIOUS
    <2> HIDE DEF Init
    <2> QED  BY <2>1, <2>2, <2>3, <2>4, <2>5, <2>6, <2>7 DEF TypeOK
  <1>2. TaskAtPc /\ CountsBelow /\ FinalsCount /\ ReadsCover /\ AllowedSteps
    BY DEF TaskAtPc, CountsBelow, FinalsCount, ReadsCover, AllowedSteps
  <1>3. FinalTurn /\ SuccessEarned /\ CompletedConverged /\ CancelStops
    BY DEF FinalTurn, SuccessEarned, CompletedConverged, CancelStops
  <1>4. ReservedForChildren
    BY FS_EmptySet DEF ReservedForChildren
  <1> QED  BY <1>1, <1>2, <1>3, <1>4 DEF Inv, Parts

LEMMA InvStep == Inv /\ [Next]_vars => Inv'
  <1> SUFFICES ASSUME Inv, [Next]_vars PROVE Inv'
    OBVIOUS
  <1>1. CASE Loop
    BY <1>1, PrepareKeeps, ModelKeeps, StopKeeps, ReadRunsKeeps, VerifyKeeps, BatchEndsKeeps
    DEF Loop
  <1>2. CASE Cancel
    BY <1>2, CancelKeeps
  <1>3. CASE \E c \in Children : Spawn(c)
    BY <1>3, SpawnKeeps
  <1>4. CASE Beside
    BY <1>4, BesideKeeps
  <1>5. CASE UNCHANGED vars
    BY <1>5 DEF vars, taskVars, budgetVars, turnVars, signalVars, retryVars, childVars, Inv, Parts,
       TypeOK, TaskAtPc, CountsBelow, FinalsCount, ReadsCover, AllowedSteps, FinalTurn,
       SuccessEarned, ReservedForChildren, CompletedConverged, CancelStops, RunOpen
  <1> QED  BY <1>1, <1>2, <1>3, <1>4, <1>5, NextSplits

(* What the other theorems rest on: the inductive invariant. *)
THEOREM Invariance == Spec => []Inv
  BY InitInv, InvStep, PTL DEF Spec

(* Every variable of the run has its type; in particular no counter passes
   its limit.                                                              *)
THEOREM TypeCorrect == Spec => []TypeOK
  BY Invariance, PTL DEF Inv, Parts

(* A run has one turn at most after its budget is spent, without tools
   (ExecutionBudget.check).                                                *)
THEOREM OneFinalTurn == Spec => []FinalTurn
  BY Invariance, PTL DEF Inv

(* A run that reports success or a cancellation has earned it
   (_handle_terminal_action, _finish_missing_test_target).                 *)
THEOREM ResultIsEarned == Spec => []SuccessEarned
  BY Invariance, PTL DEF Inv

(* Every unsettled token belongs to a child that may still return it, or to
   one whose launch failed (BudgetReservation).                            *)
THEOREM TokensAccounted == Spec => []ReservedForChildren
  BY Invariance, PTL DEF Inv

(* A completed run left open what changed behind its completion check, and
   nothing else (_check_session_completion).                               *)
THEOREM CompletionWaits == Spec => []CompletedConverged
  BY Invariance, PTL DEF Inv

(* A cancelled run starts no further step (the early gate). *)
THEOREM CancelIsObeyed == Spec => []CancelStops
  BY Invariance, PTL DEF Inv

(* A move of the task, where the loop is. *)
LEMMA StepMoves ==
  ASSUME TaskAtPc, [Next]_vars
  PROVE  \/ tsm' = tsm
         \/ tsm = "running" /\ tsm' \in {"completing", "failed", "cancelled"}
         \/ tsm = "completing" /\ tsm' \in {"completed", "running", "failed", "cancelled"}
  <1> USE DEF TaskAtPc
  <1>1. CASE Prepare
    BY <1>1 DEF Prepare, CancelledAtGate, DeniedAtGate, BreakerTripped, OutOfSteps, BudgetSpent,
       GuardRejects, Proceed, Fails, taskVars
  <1>2. CASE Model
    BY <1>2 DEF Model, CompactsAndRetries, ModelFails, Truncated, NothingDone, GivesUp, Finishes,
       CallsTools, LogFails, Fails, taskVars
  <1>3. CASE Stop
    BY <1>3 DEF Stop, HookBlocks, HookPasses, Resume, Fails, taskVars
  <1>4. CASE ReadRuns
    BY <1>4 DEF ReadRuns, Resume, taskVars
  <1>5. CASE Verify
    BY <1>5 DEF Verify, VerifierBlocks, VerifierAborts, GuardBlocks, Completes, Resume, Fails
  <1>6. CASE BatchEnds
    BY <1>6 DEF BatchEnds, EnvironmentBlocks, CancelledInBatch, BatchRaises, FinishTurn,
       FailureLimit, TargetMissing, Continues, Fails
  <1>7. CASE Cancel \/ \E c \in Children : Spawn(c)
    BY <1>7 DEF Cancel, Spawn, taskVars
  <1>8. CASE Beside
    BY <1>8, BesideFrames DEF taskVars
  <1>9. CASE UNCHANGED vars
    BY <1>9 DEF vars, taskVars
  <1> QED  BY <1>1, <1>2, <1>3, <1>4, <1>5, <1>6, <1>7, <1>8, <1>9, NextSplits DEF Loop

(* The task makes no move its machine would refuse with an exception
   (TaskStateMachine.transition).                                          *)
THEOREM MovesAreLegal == Spec => LegalMoves
  <1>1. /\ Allowed["running"] = {"completing", "failed", "cancelled"}
        /\ Allowed["completing"] = {"completed", "running", "failed", "cancelled"}
    BY DEF Allowed, TaskStates
  <1>2. ASSUME Inv, [Next]_vars
        PROVE  [tsm' # tsm => tsm' \in Allowed[tsm]]_vars
    BY <1>1, <1>2, StepMoves DEF Inv, Parts
  <1>3. QED  BY <1>2, Invariance, PTL DEF Spec, LegalMoves
=============================================================================
