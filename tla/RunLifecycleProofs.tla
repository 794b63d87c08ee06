-------------------------- MODULE RunLifecycleProofs --------------------------
(***************************************************************************)
(* The runs of a session, for any requests, routes, keys, prompts and      *)
(* cancels and any number of restarts.                                     *)
(*                                                                         *)
(* None of the properties is inductive alone.  The table is what the        *)
(* handlers left of it: a request that was not handled has no run, and a   *)
(* handler between the submission and the start of the pipeline, like the  *)
(* thread it starts, is about a run with the key and the prompt of the     *)
(* request, the request's own unless the key could not be read.            *)
(***************************************************************************)
EXTENDS RunLifecycle, FiniteSetTheorems, TLAPS

(* A request that was not handled has created nothing. *)
NewIsAbsent == \A q \in Requests : handler[q] = "new" => row[q] = "absent"

(* The answer of a handler names a run of the request's key and prompt. *)
NamesItsKey ==
  \A q \in Requests : handler[q] \in {"created", "accepted"} =>
    KeyOf[named[q]] = KeyOf[q] /\ PromptOf[named[q]] = PromptOf[q]

(* What is about to be executed, or has been, is the request's own run. *)
ExecutesOwn ==
  \A q \in Requests \ unread :
    handler[q] = "created" \/ thread[q] # "none" => named[q] = q

(* The facts of the rows, and the cancels that were answered with true. *)
RowFact ==
  \A r \in Requests :
    /\ row[r] = "cancelled" => terminal[r] = 1
    /\ row[r] = "failed" => terminal[r] \in {0, 1}
    /\ row[r] \notin {"cancelled", "failed"} => terminal[r] = 0
CancelledRuns == {r \in Requests : row[r] = "cancelled"}
TrueCancels == {c \in Cancels : cancel[c] = "true"}
EachCancelItsRun == Cardinality(TrueCancels) = Cardinality(CancelledRuns)

IInv ==
  /\ TypeOK /\ NewIsAbsent /\ OneActiveRun /\ SubmissionWhole
  /\ KeyNamesOneRun /\ NamesItsKey /\ ExecutesOwn /\ RowFact /\ EachCancelItsRun

(* The existing runs of a request are runs of its key, and the active ones are
   the queued ones. *)
LEMMA ExistingRuns ==
  ASSUME NEW q \in Requests, NEW r \in Existing(q)
  PROVE  r \in Requests /\ row[r] # "absent" /\ KeyOf[r] = KeyOf[q] /\ KeyOf[q] # NoKey
BY DEF Existing

LEMMA ActiveRuns ==
  ASSUME TypeOK
  PROVE  Active = {r \in Requests : row[r] = "queued"}
BY DEF TypeOK, Active

LEMMA InitInv == Init => IInv
<1> SUFFICES ASSUME Init PROVE IInv
  OBVIOUS
<1>1. TypeOK
  BY RunLifecycleAssumption DEF Init, TypeOK
<1>2. NewIsAbsent /\ OneActiveRun /\ SubmissionWhole
  BY DEF Init, NewIsAbsent, OneActiveRun, SubmissionWhole
<1>3. KeyNamesOneRun /\ NamesItsKey /\ ExecutesOwn /\ RowFact
  BY DEF Init, KeyNamesOneRun, NamesItsKey, ExecutesOwn, RowFact
<1>4. EachCancelItsRun
  <2>1. TrueCancels = {} /\ CancelledRuns = {}
    BY DEF Init, TrueCancels, CancelledRuns
  <2> QED
    BY <2>1 DEF EachCancelItsRun
<1> QED
  BY <1>1, <1>2, <1>3, <1>4 DEF IInv

(* Answers that leave the table and the facts alone. *)
LEMMA AnswerKeeps ==
  ASSUME IInv, NEW q \in Requests,
         Replay(q) \/ Conflict(q) \/ Busy(q) \/ SubmitFails(q) \/ Start(q) \/ Succeed(q)
  PROVE  IInv'
<1> USE DEF IInv, vars, tableVars, factVars, handlerVars
<1>1. CASE Replay(q)
  <2>1. PICK r \in Existing(q) : PromptOf[r] = PromptOf[q] /\ Names(q, r)
    BY <1>1 DEF Replay
  <2>2. r \in Requests /\ row[r] # "absent" /\ KeyOf[r] = KeyOf[q]
    BY ExistingRuns
  <2>3. named' = [named EXCEPT ![q] = r]
    BY <2>1 DEF Names
  <2>4. TypeOK'
    BY <1>1, <2>2, <2>3, RunLifecycleAssumption DEF TypeOK, Replay, Answer
  <2>5. NewIsAbsent' /\ OneActiveRun' /\ SubmissionWhole' /\ RowFact'
    BY <1>1 DEF TypeOK, NewIsAbsent, OneActiveRun, SubmissionWhole, RowFact, Replay, Answer
  <2>6. NamesItsKey'
    BY <1>1, <2>1, <2>2, <2>3 DEF TypeOK, NamesItsKey, Replay, Answer
  <2>7. KeyNamesOneRun'
    BY <1>1, <2>1, <2>2, <2>3 DEF TypeOK, KeyNamesOneRun, Replay, Answer
  <2>8. ExecutesOwn'
    BY <1>1, <2>3 DEF TypeOK, ExecutesOwn, Replay, Answer
  <2> QED
    BY <1>1, <2>4, <2>5, <2>6, <2>7, <2>8 DEF Replay, EachCancelItsRun, TrueCancels, CancelledRuns
<1>2. ASSUME NEW a \in {"conflict", "busy", "error"}, Answer(q, a), handler[q] = "new",
             UNCHANGED <<tableVars, factVars, named, unread, thread, cancel, restarts>>
      PROVE  IInv'
  <2>1. TypeOK'
    BY <1>2 DEF TypeOK, Answer
  <2>2. NewIsAbsent' /\ OneActiveRun' /\ SubmissionWhole' /\ RowFact'
    BY <1>2 DEF TypeOK, NewIsAbsent, OneActiveRun, SubmissionWhole, RowFact, Answer
  <2>3. KeyNamesOneRun' /\ NamesItsKey' /\ ExecutesOwn'
    BY <1>2 DEF TypeOK, KeyNamesOneRun, NamesItsKey, ExecutesOwn, Answer
  <2> QED
    BY <1>2, <2>1, <2>2, <2>3 DEF EachCancelItsRun, TrueCancels, CancelledRuns
<1>3. CASE Start(q)
  <2>1. TypeOK'
    BY <1>3 DEF TypeOK, Start, Answer
  <2>2. NewIsAbsent' /\ OneActiveRun' /\ SubmissionWhole' /\ RowFact'
    BY <1>3 DEF TypeOK, NewIsAbsent, OneActiveRun, SubmissionWhole, RowFact, Start, Answer
  <2>3. KeyNamesOneRun' /\ NamesItsKey'
    BY <1>3 DEF TypeOK, KeyNamesOneRun, NamesItsKey, Start, Answer
  <2>4. ExecutesOwn'
    BY <1>3 DEF TypeOK, ExecutesOwn, Start, Answer
  <2> QED
    BY <1>3, <2>1, <2>2, <2>3, <2>4 DEF Start, EachCancelItsRun, TrueCancels, CancelledRuns
<1>4. CASE Succeed(q)
  <2>1. TypeOK'
    BY <1>4 DEF TypeOK, Succeed
  <2>2. NewIsAbsent' /\ OneActiveRun' /\ SubmissionWhole' /\ RowFact'
    BY <1>4 DEF TypeOK, NewIsAbsent, OneActiveRun, SubmissionWhole, RowFact, Succeed
  <2>3. KeyNamesOneRun' /\ NamesItsKey' /\ ExecutesOwn'
    BY <1>4 DEF TypeOK, KeyNamesOneRun, NamesItsKey, ExecutesOwn, Succeed
  <2> QED
    BY <1>4, <2>1, <2>2, <2>3 DEF Succeed, EachCancelItsRun, TrueCancels, CancelledRuns
<1> QED
  BY <1>1, <1>2, <1>3, <1>4 DEF Conflict, Busy, SubmitFails

(* A submission: nothing has the key, nothing is active. *)
LEMMA CreateKeeps ==
  ASSUME IInv, NEW q \in Requests, Create(q)
  PROVE  IInv'
<1> USE DEF IInv, Create, Answer, Names
<1>1. row[q] = "absent"
  BY DEF NewIsAbsent
<1>2. \A r \in Requests : row[r] # "absent" => ~(KeyOf[r] = KeyOf[q] /\ KeyOf[q] # NoKey)
  BY DEF Existing
<1>3. TypeOK'
  BY RunLifecycleAssumption DEF TypeOK
<1>4. NewIsAbsent' /\ RowFact'
  BY <1>1 DEF TypeOK, NewIsAbsent, RowFact
<1>5. OneActiveRun'
  BY ActiveRuns DEF TypeOK, OneActiveRun
<1>6. SubmissionWhole'
  BY <1>1 DEF TypeOK, SubmissionWhole
<1>7. KeyNamesOneRun' /\ NamesItsKey'
  BY <1>1, <1>2 DEF TypeOK, KeyNamesOneRun, NamesItsKey
<1>8. ExecutesOwn'
  BY DEF TypeOK, ExecutesOwn
<1>9. EachCancelItsRun'
  <2>1. CancelledRuns' = CancelledRuns
    BY <1>1 DEF TypeOK, CancelledRuns
  <2> QED
    BY <2>1 DEF EachCancelItsRun, TrueCancels
<1> QED
  BY <1>3, <1>4, <1>5, <1>6, <1>7, <1>8, <1>9

(* A queued run that fails, with its fact or without, and whatever becomes of
   the handlers and threads. *)
RowsFail ==
  /\ \A r \in Requests :
       \/ row'[r] = row[r] /\ terminal'[r] = terminal[r]
       \/ row[r] = "queued" /\ row'[r] = "failed" /\ terminal'[r] \in {terminal[r], terminal[r] + 1}
  /\ UNCHANGED <<turn, generation, messages, submitted, named, unread, cancel>>
HandlersEnd ==
  \A q \in Requests :
    /\ handler'[q] = handler[q] \/ handler'[q] \notin {"new", "created", "accepted"}
    /\ thread'[q] # "none" => thread[q] # "none"

LEMMA FailKeeps ==
  ASSUME IInv, TypeOK', RowsFail, HandlersEnd
  PROVE  IInv'
<1> USE DEF IInv, RowsFail, HandlersEnd
<1>1. NewIsAbsent' /\ RowFact'
  BY DEF TypeOK, NewIsAbsent, RowFact
<1>2. OneActiveRun'
  BY DEF OneActiveRun
<1>3. SubmissionWhole'
  BY DEF SubmissionWhole
<1>4. KeyNamesOneRun' /\ NamesItsKey'
  BY DEF KeyNamesOneRun, NamesItsKey
<1>5. ExecutesOwn'
  BY DEF ExecutesOwn
<1>6. EachCancelItsRun'
  <2>1. CancelledRuns' = CancelledRuns
    BY DEF CancelledRuns
  <2> QED
    BY <2>1 DEF EachCancelItsRun, TrueCancels
<1> QED
  BY <1>1, <1>2, <1>3, <1>4, <1>5, <1>6

(* A start that fails, a pipeline that fails, a restart. *)
LEMMA EndsKeep ==
  ASSUME IInv, NEW q \in Requests, StartFails(q) \/ Fail(q) \/ Restart
  PROVE  IInv'
<1> USE DEF IInv
<1>1. CASE StartFails(q)
  <2>1. named[q] \in Requests
    BY <1>1 DEF TypeOK, StartFails
  <2>2. TypeOK'
    BY <1>1, <2>1 DEF TypeOK, StartFails, Finalize, Answer
  <2>3. RowsFail
    BY <1>1, <2>1 DEF TypeOK, StartFails, Finalize, RowsFail
  <2>4. HandlersEnd
    BY <1>1 DEF TypeOK, StartFails, Answer, HandlersEnd
  <2> QED
    BY <2>2, <2>3, <2>4, FailKeeps
<1>2. CASE Fail(q)
  <2>1. named[q] \in Requests /\ row[named[q]] # "running"
    BY <1>2 DEF TypeOK, Fail
  <2>2. UNCHANGED <<row, terminal>>
    BY <1>2, <2>1 DEF Fail, Finalize
  <2>3. TypeOK'
    BY <1>2, <2>2 DEF TypeOK, Fail
  <2>4. RowsFail
    BY <1>2, <2>2 DEF Fail, RowsFail
  <2>5. HandlersEnd
    BY <1>2 DEF TypeOK, Fail, HandlersEnd
  <2> QED
    BY <2>3, <2>4, <2>5, FailKeeps
<1>3. CASE Restart
  <2>1. TypeOK'
    BY <1>3, RunLifecycleAssumption DEF TypeOK, Restart, factVars
  <2>2. RowsFail
    BY <1>3 DEF TypeOK, Restart, Orphans, factVars, RowsFail
  <2>3. HandlersEnd
    BY <1>3 DEF TypeOK, Restart, HandlersEnd
  <2> QED
    BY <2>1, <2>2, <2>3, FailKeeps
<1> QED
  BY <1>1, <1>2, <1>3

(* A cancel that was answered with true has cancelled one run more. *)
LEMMA CancelKeeps ==
  ASSUME IInv, NEW c \in Cancels, Cancel(c)
  PROVE  IInv'
<1> USE DEF IInv, handlerVars
<1>1. CASE UNCHANGED <<row, terminal>> /\ cancel' = [cancel EXCEPT ![c] = "false"]
  <2>1. TypeOK' /\ NewIsAbsent' /\ OneActiveRun' /\ SubmissionWhole' /\ RowFact'
    BY <1>1 DEF Cancel, TypeOK, NewIsAbsent, OneActiveRun, SubmissionWhole, RowFact
  <2>2. KeyNamesOneRun' /\ NamesItsKey' /\ ExecutesOwn'
    BY <1>1 DEF Cancel, KeyNamesOneRun, NamesItsKey, ExecutesOwn
  <2>3. TrueCancels' = TrueCancels /\ CancelledRuns' = CancelledRuns
    BY <1>1 DEF Cancel, TypeOK, TrueCancels, CancelledRuns
  <2> QED
    BY <2>1, <2>2, <2>3 DEF EachCancelItsRun
<1>2. CASE \E r \in Active : Finalize(r, row[r], "cancelled") /\ cancel' = [cancel EXCEPT ![c] = "true"]
  <2>1. PICK r \in Requests :
          /\ row[r] = "queued"
          /\ row' = [row EXCEPT ![r] = "cancelled"]
          /\ terminal' = [terminal EXCEPT ![r] = @ + 1]
          /\ cancel' = [cancel EXCEPT ![c] = "true"]
    BY <1>2, ActiveRuns DEF Finalize
  <2>2. TypeOK'
    <3>1. row' \in [Requests -> {"absent", "queued", "failed", "cancelled"}] /\ terminal' \in [Requests -> Nat]
      BY <2>1 DEF TypeOK
    <3>2. cancel' \in [Cancels -> {"new", "true", "false"}]
      BY <2>1 DEF TypeOK
    <3>3. UNCHANGED <<turn, generation, messages, submitted, completed, handlerVars, restarts>>
      BY DEF Cancel
    <3>4. \A q \in Requests : row[q] # "absent" => row'[q] # "absent"
      BY <2>1 DEF TypeOK
    <3> QED
      BY <3>1, <3>2, <3>3, <3>4 DEF TypeOK
  <2>3. NewIsAbsent' /\ OneActiveRun' /\ RowFact'
    BY <2>1 DEF Cancel, TypeOK, NewIsAbsent, OneActiveRun, RowFact
  <2>4. SubmissionWhole'
    BY <2>1 DEF Cancel, TypeOK, SubmissionWhole
  <2>5. KeyNamesOneRun' /\ NamesItsKey' /\ ExecutesOwn'
    BY <2>1 DEF Cancel, TypeOK, KeyNamesOneRun, NamesItsKey, ExecutesOwn
  <2>6. EachCancelItsRun'
    <3>1. CancelledRuns' = CancelledRuns \cup {r} /\ r \notin CancelledRuns
      BY <2>1 DEF TypeOK, CancelledRuns
    <3>2. TrueCancels' = TrueCancels \cup {c} /\ c \notin TrueCancels
      BY <2>1 DEF Cancel, TypeOK, TrueCancels
    <3>3. IsFiniteSet(CancelledRuns) /\ IsFiniteSet(TrueCancels)
      BY FS_Subset, RunLifecycleAssumption DEF CancelledRuns, TrueCancels
    <3>4. Cardinality(CancelledRuns \cup {r}) = Cardinality(CancelledRuns) + 1
      BY <3>1, <3>3, FS_AddElement
    <3>5. Cardinality(TrueCancels \cup {c}) = Cardinality(TrueCancels) + 1
      BY <3>2, <3>3, FS_AddElement
    <3> HIDE DEF TrueCancels, CancelledRuns
    <3> QED
      BY <3>1, <3>2, <3>4, <3>5 DEF EachCancelItsRun
  <2> QED
    BY <2>2, <2>3, <2>4, <2>5, <2>6
<1> QED
  BY <1>1, <1>2 DEF Cancel

LEMMA StutterKeeps ==
  ASSUME IInv, UNCHANGED vars
  PROVE  IInv'
<1> USE DEF vars, tableVars, factVars, handlerVars
<1>1. TypeOK' /\ NewIsAbsent' /\ OneActiveRun' /\ SubmissionWhole'
  BY DEF IInv, TypeOK, NewIsAbsent, OneActiveRun, SubmissionWhole
<1>2. KeyNamesOneRun' /\ NamesItsKey' /\ ExecutesOwn' /\ RowFact' /\ EachCancelItsRun'
  BY DEF IInv, KeyNamesOneRun, NamesItsKey, ExecutesOwn, RowFact, EachCancelItsRun, TrueCancels, CancelledRuns
<1> QED
  BY <1>1, <1>2 DEF IInv

LEMMA InvNext == IInv /\ [Next]_vars => IInv'
<1> SUFFICES ASSUME IInv, [Next]_vars PROVE IInv'
  OBVIOUS
<1>1. CASE \E q \in Requests : Handle(q) \/ Succeed(q) \/ Fail(q)
  BY <1>1, AnswerKeeps, CreateKeeps, EndsKeep DEF Handle
<1>2. CASE \E c \in Cancels : Cancel(c)
  BY <1>2, CancelKeeps
<1>3. CASE Restart
  <2>1. CASE Requests = {}
    <3>1. TypeOK'
      BY <1>3, <2>1, RunLifecycleAssumption DEF IInv, TypeOK, Restart, factVars
    <3>2. RowsFail /\ HandlersEnd
      BY <1>3, <2>1 DEF IInv, Restart, factVars, RowsFail, HandlersEnd
    <3> QED
      BY <3>1, <3>2, FailKeeps
  <2>2. CASE Requests # {}
    BY <1>3, <2>2, EndsKeep
  <2> QED
    BY <2>1, <2>2
<1>4. CASE UNCHANGED vars
  BY <1>4, StutterKeeps
<1> QED
  BY <1>1, <1>2, <1>3, <1>4 DEF Next

(* The inductive invariant holds in every reachable state. *)
THEOREM RunInvariance == Spec => []IInv
<1> QED
  BY InitInv, InvNext, PTL DEF Spec

(* Types, and that an answer that names a run names one of the table. *)
THEOREM RunTypes == Spec => []TypeOK
<1>1. IInv => TypeOK
  BY DEF IInv
<1> QED
  BY <1>1, RunInvariance, PTL

(* submit_run_turn, cancel_run and the recovery leave one active run at most. *)
THEOREM OneRunAtATime == Spec => []OneActiveRun
<1>1. IInv => OneActiveRun
  BY DEF IInv
<1> QED
  BY <1>1, RunInvariance, PTL

(* The unit of work of a submission is never there in part. *)
THEOREM WholeSubmissions == Spec => []SubmissionWhole
<1>1. IInv => SubmissionWhole
  BY DEF IInv
<1> QED
  BY <1>1, RunInvariance, PTL

(* Retries with a key get one run, of their own prompt. *)
THEOREM KeysKept == Spec => []KeyNamesOneRun
<1>1. IInv => KeyNamesOneRun
  BY DEF IInv
<1> QED
  BY <1>1, RunInvariance, PTL

(* Two pipelines never execute one run, unless a key could not be read. *)
THEOREM NothingTwice == Spec => []ExecutedOnce
<1>1. IInv => ExecutedOnce
  BY DEF IInv, ExecutesOwn, ExecutedOnce
<1> QED
  BY <1>1, RunInvariance, PTL

(* Cancels, failures and facts tally. *)
THEOREM FactsTally == Spec => []TerminalFactOnce
<1>1. IInv => TerminalFactOnce
  <2> SUFFICES ASSUME IInv PROVE TerminalFactOnce
    OBVIOUS
  <2>1. ASSUME NEW r \in Requests
        PROVE  terminal[r] \in CASE row[r] = "cancelled" -> {1}
                                 [] row[r] = "failed" -> {0, 1}
                                 [] OTHER -> {0}
    BY DEF IInv, RowFact, TypeOK
  <2>2. Cardinality({c \in Cancels : cancel[c] = "true"}) =
          Cardinality({r \in Requests : row[r] = "cancelled"})
    BY DEF IInv, EachCancelItsRun, TrueCancels, CancelledRuns
  <2> QED
    BY <2>1, <2>2 DEF TerminalFactOnce
<1> QED
  BY <1>1, RunInvariance, PTL
(* The statuses a run ends with are never rewritten: cancel_run looks for an
   active run, the recovery for orphans, and the rest compares before it sets. *)
THEOREM TerminalRunsStay == Spec => TerminalStays
<1> DEFINE Ended(r) == row[r] \in {"failed", "cancelled"}
<1>1. ASSUME IInv, [Next]_vars
      PROVE  [\A r \in Requests : row[r] \in {"failed", "cancelled"} => row'[r] = row[r]]_vars
  <2> SUFFICES ASSUME NEW r \in Requests, Ended(r), Next PROVE row'[r] = row[r]
    BY <1>1
  <2>1. CASE \E q \in Requests : Handle(q) \/ Succeed(q) \/ Fail(q)
    <3> PICK q \in Requests : Handle(q) \/ Succeed(q) \/ Fail(q)
      BY <2>1
    <3>1. CASE Create(q)
      BY <1>1, <3>1 DEF IInv, TypeOK, NewIsAbsent, Create
    <3>2. CASE StartFails(q)
      BY <1>1, <3>2 DEF IInv, TypeOK, StartFails, Finalize
    <3>3. CASE Fail(q)
      BY <1>1, <3>3 DEF IInv, TypeOK, Fail, Finalize
    <3> QED
      BY <3>1, <3>2, <3>3
      DEF Handle, Replay, Conflict, Busy, SubmitFails, Start, Succeed, tableVars
  <2>2. CASE \E c \in Cancels : Cancel(c)
    BY <1>1, <2>2, ActiveRuns DEF IInv, TypeOK, Cancel, Finalize
  <2>3. CASE Restart
    BY <2>3 DEF Restart, Orphans
  <2> QED
    BY <2>1, <2>2, <2>3 DEF Next
<1> QED
  BY <1>1, RunInvariance, PTL DEF Spec, TerminalStays
=============================================================================
