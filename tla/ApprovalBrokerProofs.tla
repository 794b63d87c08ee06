------------------------- MODULE ApprovalBrokerProofs -------------------------
(***************************************************************************)
(* The approvals, for any calls, agents, answers and cancels.              *)
(*                                                                         *)
(* A thread reads its decision without the lock; what it finds there is     *)
(* known from the order of the writes: the event is set after the decision, *)
(* a cancelled call has left the table, and no handler is in the middle of *)
(* an answer when a cancel takes the table.                                *)
(***************************************************************************)
EXTENDS ApprovalBroker, TLAPS

(* What a call got, or is about to get, an accepted answer said. *)
Said(c, v) == \E a \in Answers : To[a] = c /\ Verdict[a] = v /\ Accepted(a)
Sources ==
  \A c \in Calls :
    /\ decision[c] \in {"allow", "deny"} => Said(c, decision[c])
    /\ outcome[c] \in {"allow", "deny"} => Said(c, outcome[c])

(* The event comes after the decision. *)
EventLast ==
  /\ \A c \in Calls :
       /\ c \in event \/ signaled[c] => decision[c] # "none"
       /\ signaled[c] => outcome[c] # "timeout"
  /\ \A a \in Answers : Accepted(a) => decision[To[a]] # "none"

(* A call nobody asked for yet, and one that was cancelled, cannot be answered. *)
OutOfReach ==
  \A c \in Calls :
    pc[c] = "new" \/ decision[c] = "cancelled" =>
      c \notin pending /\ \A a \in Answers : answer[a] = "found" => To[a] # c
NewUndecided == \A c \in Calls : pc[c] = "new" => decision[c] = "none" /\ c \notin event

IInv == TypeOK /\ WaitersReachable /\ Sources /\ EventLast /\ OutOfReach /\ NewUndecided

LEMMA InitInv == Init => IInv
BY DEF Init, IInv, TypeOK, WaitersReachable, Sources, EventLast, Accepted, OutOfReach, NewUndecided

(* A call enters the table. *)
LEMMA AskKeeps ==
  ASSUME IInv, NEW c \in Calls, Ask(c)
  PROVE  IInv'
<1> USE ApprovalAssumption DEF IInv, brokerVars, threadVars, handlerVars
<1>1. TypeOK'
  BY DEF TypeOK, Ask, Goto
<1>2. WaitersReachable'
  BY DEF TypeOK, WaitersReachable, Ask, Goto
<1>3. Sources'
  BY DEF TypeOK, Sources, Said, Accepted, Ask, Goto
<1>4. EventLast'
  BY DEF TypeOK, EventLast, Accepted, Ask, Goto
<1>5. OutOfReach' /\ NewUndecided'
  BY DEF TypeOK, WaitersReachable, OutOfReach, NewUndecided, Ask, Goto
<1> QED
  BY <1>1, <1>2, <1>3, <1>4, <1>5

(* A thread is woken or gives up. *)
LEMMA WakeKeeps ==
  ASSUME IInv, NEW c \in Calls, Wake(c) \/ Expire(c)
  PROVE  IInv'
<1> USE ApprovalAssumption DEF IInv, brokerVars, threadVars, handlerVars
<1>1. TypeOK'
  <2>1. pc[c] = "waiting" /\ pc' = [pc EXCEPT ![c] = "leaving"] /\ outcome' = outcome
    BY DEF Wake, Expire, Goto
  <2>2. \A d \in Calls : pc'[d] = "done" <=> outcome'[d] # "none"
    BY <2>1 DEF TypeOK
  <2>3. pc' \in [Calls -> {"new", "waiting", "leaving", "reading", "done"}] /\ signaled' \in [Calls -> BOOLEAN]
    BY <2>1 DEF TypeOK, Wake, Expire
  <2> QED
    BY <2>2, <2>3 DEF TypeOK, Wake, Expire
<1>2. WaitersReachable'
  BY DEF TypeOK, WaitersReachable, Wake, Expire, Goto
<1>3. Sources'
  BY DEF TypeOK, Sources, Said, Accepted, Wake, Expire, Goto
<1>4. EventLast'
  BY DEF TypeOK, EventLast, Accepted, Wake, Expire, Goto
<1>5. OutOfReach' /\ NewUndecided'
  BY DEF TypeOK, WaitersReachable, OutOfReach, NewUndecided, Wake, Expire, Goto
<1> QED
  BY <1>1, <1>2, <1>3, <1>4, <1>5

(* It leaves the table. *)
LEMMA LeaveKeeps ==
  ASSUME IInv, NEW c \in Calls, Leave(c)
  PROVE  IInv'
<1> USE ApprovalAssumption DEF IInv, brokerVars, threadVars, handlerVars
<1>1. TypeOK'
  BY DEF TypeOK, Leave, Goto
<1>2. WaitersReachable'
  BY DEF TypeOK, WaitersReachable, Leave, Goto
<1>3. Sources'
  BY DEF TypeOK, Sources, Said, Accepted, Leave, Goto
<1>4. EventLast'
  BY DEF TypeOK, EventLast, Accepted, Leave, Goto
<1>5. OutOfReach' /\ NewUndecided'
  BY DEF TypeOK, WaitersReachable, OutOfReach, NewUndecided, Leave, Goto
<1> QED
  BY <1>1, <1>2, <1>3, <1>4, <1>5

(* It returns what it reads. *)
LEMMA ReturnKeeps ==
  ASSUME IInv, NEW c \in Calls, Return(c)
  PROVE  IInv'
<1> USE ApprovalAssumption DEF IInv, brokerVars, threadVars, handlerVars
<1>1. TypeOK'
  BY DEF TypeOK, Return, Read, Goto
<1>2. WaitersReachable'
  BY DEF TypeOK, WaitersReachable, Return, Read, Goto
<1>3. Sources'
  <2>1. \A d \in Calls, v \in {"allow", "deny"} : Said(d, v)' <=> Said(d, v)
    BY DEF Said, Accepted, Return
  <2>2. outcome' = [outcome EXCEPT ![c] = Read(c)] /\ UNCHANGED decision
    BY DEF Return
  <2>3. Read(c) = decision[c] \/ Read(c) = "timeout"
    BY DEF EventLast, Read
  <2> QED
    BY <2>1, <2>2, <2>3 DEF TypeOK, Sources
<1>4. EventLast'
  BY DEF TypeOK, EventLast, Accepted, Return, Read, Goto
<1>5. OutOfReach' /\ NewUndecided'
  BY DEF TypeOK, WaitersReachable, OutOfReach, NewUndecided, Return, Read, Goto
<1> QED
  BY <1>1, <1>2, <1>3, <1>4, <1>5

(* An answer finds its call, or does not. *)
LEMMA FindKeeps ==
  ASSUME IInv, NEW a \in Answers, Find(a)
  PROVE  IInv'
<1> USE ApprovalAssumption DEF IInv, brokerVars, threadVars, handlerVars
<1>1. TypeOK'
  BY DEF TypeOK, Find, Reply
<1>2. WaitersReachable'
  BY DEF TypeOK, WaitersReachable, Find, Reply
<1>3. Sources'
  BY DEF TypeOK, Sources, Said, Accepted, Find, Reply
<1>4. EventLast'
  BY DEF TypeOK, EventLast, Accepted, Find, Reply
<1>5. OutOfReach' /\ NewUndecided'
  BY DEF TypeOK, WaitersReachable, OutOfReach, NewUndecided, Find, Reply
<1> QED
  BY <1>1, <1>2, <1>3, <1>4, <1>5

(* It writes the decision. *)
LEMMA DecideKeeps ==
  ASSUME IInv, NEW a \in Answers, Decide(a)
  PROVE  IInv'
<1> USE ApprovalAssumption DEF IInv, brokerVars, threadVars, handlerVars
<1>1. TypeOK'
  BY DEF TypeOK, Decide, Reply
<1>2. WaitersReachable'
  BY DEF TypeOK, WaitersReachable, Decide, Reply
<1>3. Sources'
  BY DEF TypeOK, Sources, Said, Accepted, Decide, Reply
<1>4. EventLast'
  BY DEF TypeOK, EventLast, Accepted, Decide, Reply
<1>5. OutOfReach' /\ NewUndecided'
  <2>1. To[a] \in Calls /\ pc[To[a]] # "new"
    BY DEF OutOfReach, NewUndecided, EventLast, Accepted, Decide
  <2>2. OutOfReach'
    BY <2>1 DEF TypeOK, OutOfReach, Decide, Reply
  <2>3. NewUndecided'
    BY <2>1 DEF TypeOK, NewUndecided, Decide
  <2> QED
    BY <2>2, <2>3
<1> QED
  BY <1>1, <1>2, <1>3, <1>4, <1>5

(* It sets the event, after the decision. *)
LEMMA SignalKeeps ==
  ASSUME IInv, NEW a \in Answers, Signal(a)
  PROVE  IInv'
<1> USE ApprovalAssumption DEF IInv, brokerVars, threadVars, handlerVars
<1>1. TypeOK'
  BY DEF TypeOK, Signal, Reply
<1>2. WaitersReachable'
  BY DEF TypeOK, WaitersReachable, Signal, Reply
<1>3. Sources'
  BY DEF TypeOK, Sources, Said, Accepted, Signal, Reply
<1>4. EventLast'
  BY DEF TypeOK, EventLast, Accepted, Signal, Reply
<1>5. OutOfReach' /\ NewUndecided'
  <2>1. To[a] \in Calls /\ pc[To[a]] # "new"
    BY DEF OutOfReach, NewUndecided, EventLast, Accepted, Signal
  <2>2. OutOfReach'
    BY <2>1 DEF TypeOK, OutOfReach, Signal, Reply
  <2>3. NewUndecided'
    BY <2>1 DEF TypeOK, NewUndecided, Signal
  <2> QED
    BY <2>2, <2>3
<1> QED
  BY <1>1, <1>2, <1>3, <1>4, <1>5

(* A cancel takes the whole table. *)
LEMMA CancelKeeps ==
  ASSUME IInv, NEW k \in Cancels, CancelRun(k)
  PROVE  IInv'
<1> USE ApprovalAssumption DEF IInv, brokerVars, threadVars, handlerVars
<1>1. TypeOK'
  BY DEF TypeOK, CancelRun, CancelAll, EventLoopFree
<1>2. WaitersReachable'
  BY DEF TypeOK, WaitersReachable, CancelRun, CancelAll, EventLoopFree
<1>3. Sources'
  BY DEF TypeOK, Sources, Said, Accepted, CancelRun, CancelAll, EventLoopFree
<1>4. EventLast'
  BY DEF TypeOK, EventLast, Accepted, CancelRun, CancelAll, EventLoopFree
<1>5. OutOfReach' /\ NewUndecided'
  BY DEF TypeOK, WaitersReachable, OutOfReach, NewUndecided, CancelRun, CancelAll, EventLoopFree
<1> QED
  BY <1>1, <1>2, <1>3, <1>4, <1>5

(* The session is deleted, or nothing happens. *)
LEMMA RestKeeps ==
  ASSUME IInv, Delete \/ UNCHANGED vars
  PROVE  IInv'
<1>1. UNCHANGED <<brokerVars, threadVars, answer, cancel>> /\ (broker' = FALSE \/ broker' = broker)
  BY DEF vars, handlerVars, Delete
<1> USE <1>1 DEF IInv, brokerVars, threadVars
<1>2. TypeOK'
  BY DEF TypeOK
<1>3. WaitersReachable' /\ OutOfReach' /\ NewUndecided'
  BY DEF WaitersReachable, OutOfReach, NewUndecided
<1>4. Sources' /\ EventLast'
  BY DEF Sources, Said, Accepted, EventLast
<1> QED
  BY <1>2, <1>3, <1>4

LEMMA InvNext == IInv /\ [Next]_vars => IInv'
<1> SUFFICES ASSUME IInv, [Next]_vars PROVE IInv'
  OBVIOUS
<1>1. CASE \E c \in Calls : Thread(c)
  BY <1>1, AskKeeps, WakeKeeps, LeaveKeeps, ReturnKeeps DEF Thread
<1>2. CASE \E a \in Answers : Find(a) \/ Resolve(a)
  BY <1>2, FindKeeps, DecideKeeps, SignalKeeps DEF Resolve
<1>3. CASE \E k \in Cancels : CancelRun(k)
  BY <1>3, CancelKeeps
<1>4. CASE Delete \/ UNCHANGED vars
  BY <1>4, RestKeeps
<1> QED
  BY <1>1, <1>2, <1>3, <1>4 DEF Next

(* The inductive invariant holds in every reachable state. *)
THEOREM ApprovalInvariance == Spec => []IInv
<1> QED
  BY InitInv, InvNext, PTL DEF Spec

(* Types, and that exactly the calls that have returned have an outcome. *)
THEOREM ApprovalTypes == Spec => []TypeOK
<1>1. IInv => TypeOK
  BY DEF IInv
<1> QED
  BY <1>1, ApprovalInvariance, PTL

(* No waiting thread is out of reach of the user and of cancel_run. *)
THEOREM WaitersStayReachable == Spec => []WaitersReachable
<1>1. IInv => WaitersReachable
  BY DEF IInv
<1> QED
  BY <1>1, ApprovalInvariance, PTL

(* A tool runs only when a user allowed this call. *)
THEOREM OnlyUsersAllow == Spec => []AllowedByUser
<1>1. IInv => AllowedByUser
  BY DEF IInv, Sources, Said, Accepted, AllowedByUser
<1> QED
  BY <1>1, ApprovalInvariance, PTL

(* The only accepted answer of a call that was woken, and not by a cancel, is
   what the call gets. *)
THEOREM AnswersCount == Spec => []AcceptedCounts
<1>1. IInv => AcceptedCounts
  <2> SUFFICES ASSUME IInv, NEW a \in Answers,
                      Accepted(a), signaled[To[a]], outcome[To[a]] \notin {"none", "cancelled"},
                      \A b \in Answers : Accepted(b) /\ To[b] = To[a] => b = a
               PROVE  outcome[To[a]] = Verdict[a]
    BY DEF AcceptedCounts
  <2>1. To[a] \in Calls
    BY ApprovalAssumption
  <2>2. outcome[To[a]] \in {"allow", "deny"}
    BY <2>1 DEF IInv, TypeOK, EventLast
  <2>3. PICK b \in Answers : To[b] = To[a] /\ Verdict[b] = outcome[To[a]] /\ Accepted(b)
    BY <2>1, <2>2 DEF IInv, Sources, Said
  <2> QED
    BY <2>3
<1> QED
  BY <1>1, ApprovalInvariance, PTL

(* No answer overrules a cancel. *)
THEOREM CancelsStay == Spec => CancelledStays
<1>1. ASSUME IInv, [Next]_vars
      PROVE  [\A c \in Calls : decision[c] = "cancelled" => decision'[c] = "cancelled"]_vars
  <2> SUFFICES ASSUME Next, NEW c \in Calls, decision[c] = "cancelled"
               PROVE  decision'[c] = "cancelled"
    BY <1>1
  <2>1. CASE \E d \in Calls : Thread(d)
    BY <2>1 DEF Thread, Ask, Wake, Expire, Leave, Return, brokerVars
  <2>2. CASE \E a \in Answers : Find(a) \/ Resolve(a)
    BY <1>1, <2>2, ApprovalAssumption DEF IInv, TypeOK, OutOfReach, Find, Resolve, Decide, Signal, brokerVars
  <2>3. CASE \E k \in Cancels : CancelRun(k)
    BY <1>1, <2>3 DEF IInv, TypeOK, CancelRun, CancelAll, brokerVars
  <2>4. CASE Delete
    BY <2>4 DEF Delete, brokerVars
  <2> QED
    BY <2>1, <2>2, <2>3, <2>4 DEF Next
<1> QED
  BY <1>1, ApprovalInvariance, PTL DEF Spec, CancelledStays

-----------------------------------------------------------------------------
(* The part of DecisionsWake that does not rest on fairness.               *)

(* A thread whose call was decided, and that still waits, has its event set,
   or the handler that decided it is about to set it. *)
Waking(c) == c \in event \/ \E a \in Answers : To[a] = c /\ answer[a] = "decided"
DecidedWoken == \A c \in Calls : decision[c] # "none" /\ pc[c] = "waiting" => Waking(c)

LEMMA WokenStep ==
  ASSUME IInv, DecidedWoken, [Next]_vars
  PROVE  DecidedWoken'
<1> USE ApprovalAssumption DEF brokerVars, threadVars, handlerVars
<1>1. ASSUME NEW c \in Calls, Thread(c) PROVE DecidedWoken'
  <2>1. UNCHANGED <<decision, event, answer>>
    BY <1>1 DEF Thread, Ask, Wake, Expire, Leave, Return
  <2>2. \A d \in Calls : decision[d] # "none" /\ pc'[d] = "waiting" => pc[d] = "waiting"
    BY <1>1 DEF Thread, Ask, Wake, Expire, Leave, Return, Goto, IInv, TypeOK, NewUndecided
  <2> QED
    BY <2>1, <2>2 DEF DecidedWoken, Waking
<1>2. ASSUME NEW a \in Answers, Find(a) PROVE DecidedWoken'
  BY <1>2 DEF Find, Reply, DecidedWoken, Waking, IInv, TypeOK
<1>3. ASSUME NEW a \in Answers, Decide(a) PROVE DecidedWoken'
  BY <1>3 DEF Decide, Reply, DecidedWoken, Waking, IInv, TypeOK
<1>4. ASSUME NEW a \in Answers, Signal(a) PROVE DecidedWoken'
  BY <1>4 DEF Signal, Reply, DecidedWoken, Waking, IInv, TypeOK
<1>5. ASSUME NEW k \in Cancels, CancelRun(k) PROVE DecidedWoken'
  BY <1>5 DEF CancelRun, CancelAll, DecidedWoken, Waking, IInv, TypeOK
<1>6. ASSUME Delete \/ UNCHANGED vars PROVE DecidedWoken'
  BY <1>6 DEF Delete, vars, DecidedWoken, Waking
<1> QED
  BY <1>1, <1>2, <1>3, <1>4, <1>5, <1>6 DEF Next, Resolve

(* No decision is left behind without a wake-up: an answer that finds its call
   ends with its event, and a cancel sets the events of the whole table. *)
THEOREM DecidedAreWoken == Spec => []DecidedWoken
<1>1. Init => DecidedWoken
  BY DEF Init, DecidedWoken
<1>2. IInv /\ DecidedWoken /\ [Next]_vars => DecidedWoken'
  BY WokenStep
<1> QED
  BY <1>1, <1>2, ApprovalInvariance, PTL DEF Spec
=============================================================================
