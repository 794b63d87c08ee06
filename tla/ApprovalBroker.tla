---------------------------- MODULE ApprovalBroker ----------------------------
(***************************************************************************)
(* The approval of tool calls by the user (src/server/services/            *)
(* approval_broker.py) with its callers: the confirm callback on the       *)
(* threads of the agents, and tool-approve, cancel and delete, which are   *)
(* handlers of one event loop, so that each runs to its end before the     *)
(* next begins, though not before a thread takes a step.                   *)
(*                                                                         *)
(* An agent asks for one call at a time.  A session has two agents when a  *)
(* run was cancelled and the next prompt started another.                  *)
(***************************************************************************)
EXTENDS Naturals

CONSTANTS
  Calls,      \* tool calls that need an approval
  AgentOf,    \* the thread that makes a call
  Answers,    \* POST tool-approve
  To,         \* the call an answer is about
  Verdict,    \* "allow" or "deny"
  Cancels     \* cancel requests

ASSUME ApprovalAssumption ==
  /\ To \in [Answers -> Calls]
  /\ Verdict \in [Answers -> {"allow", "deny"}]

VARIABLES
  pending,    \* _pending: the calls that can be answered
  decision,   \* PendingApproval.decision
  event,      \* the calls whose event is set
  pc,         \* where the thread of a call is
  signaled,   \* what event.wait returned
  outcome,    \* the decision the tool call gets
  answer,     \* where the handler of an answer is
  cancel,     \* the cancel requests that were handled
  broker      \* whether the session still has its broker

brokerVars == <<pending, decision, event>>
threadVars == <<pc, signaled, outcome>>
handlerVars == <<answer, cancel, broker>>
vars == <<brokerVars, threadVars, handlerVars>>

TypeOK ==
  /\ pending \subseteq Calls /\ event \subseteq Calls
  /\ decision \in [Calls -> {"none", "allow", "deny", "cancelled"}]
  /\ pc \in [Calls -> {"new", "waiting", "leaving", "reading", "done"}]
  /\ signaled \in [Calls -> BOOLEAN]
  /\ outcome \in [Calls -> {"none", "allow", "deny", "cancelled", "timeout"}]
  /\ answer \in [Answers -> {"new", "found", "decided", "resolved", "missed"}]
  /\ cancel \subseteq Cancels
  /\ broker \in BOOLEAN
  /\ \A c \in Calls : pc[c] = "done" <=> outcome[c] # "none"

Init ==
  /\ pending = {} /\ event = {}
  /\ decision = [c \in Calls |-> "none"]
  /\ pc = [c \in Calls |-> "new"]
  /\ signaled = [c \in Calls |-> FALSE]
  /\ outcome = [c \in Calls |-> "none"]
  /\ answer = [a \in Answers |-> "new"]
  /\ cancel = {} /\ broker = TRUE

-----------------------------------------------------------------------------
(* wait_for_decision, on the thread of an agent.                           *)

Goto(c, l) == pc' = [pc EXCEPT ![c] = l]

(* The entry is there before approval_required tells anybody of it. *)
Ask(c) ==
  /\ pc[c] = "new"
  /\ \A d \in Calls : AgentOf[d] = AgentOf[c] => pc[d] \in {"new", "done"}
  /\ pending' = pending \cup {c}
  /\ Goto(c, "waiting")
  /\ UNCHANGED <<decision, event, signaled, outcome, handlerVars>>

Wake(c) ==
  /\ pc[c] = "waiting" /\ c \in event
  /\ signaled' = [signaled EXCEPT ![c] = TRUE]
  /\ Goto(c, "leaving")
  /\ UNCHANGED <<brokerVars, outcome, handlerVars>>

Expire(c) ==
  /\ pc[c] = "waiting" /\ c \notin event
  /\ Goto(c, "leaving")
  /\ UNCHANGED <<brokerVars, signaled, outcome, handlerVars>>

LeaveAll(c) ==
  /\ pc[c] = "leaving"
  /\ pending' = {}
  /\ Goto(c, "reading")
  /\ UNCHANGED <<decision, event, signaled, outcome, handlerVars>>
Leave(c) ==
  /\ pc[c] = "leaving"
  /\ pending' = pending \ {c}
  /\ Goto(c, "reading")
  /\ UNCHANGED <<decision, event, signaled, outcome, handlerVars>>

(* Without the lock: a handler that found the entry may write still. *)
ReadBySignal(c) ==
  IF signaled[c] THEN "allow" ELSE "timeout"
Read(c) ==
  IF decision[c] # "none" THEN decision[c]
  ELSE IF signaled[c] THEN "deny" ELSE "timeout"

Return(c) ==
  /\ pc[c] = "reading"
  /\ outcome' = [outcome EXCEPT ![c] = Read(c)]
  /\ Goto(c, "done")
  /\ UNCHANGED <<brokerVars, signaled, handlerVars>>

-----------------------------------------------------------------------------
(* The handlers.  EventLoopFree: no handler is in the middle of resolve.   *)

EventLoopFree == \A a \in Answers : answer[a] \notin {"found", "decided"}
Reply(a, s) == answer' = [answer EXCEPT ![a] = s]

(* approve_tool and the first half of resolve, under the lock. *)
Find(a) ==
  /\ answer[a] = "new" /\ EventLoopFree
  /\ pc[To[a]] # "new"
  /\ Reply(a, IF broker /\ To[a] \in pending THEN "found" ELSE "missed")
  /\ UNCHANGED <<brokerVars, threadVars, cancel, broker>>

(* The second half, outside. *)
Decide(a) ==
  /\ answer[a] = "found"
  /\ decision' = [decision EXCEPT ![To[a]] = Verdict[a]]
  /\ Reply(a, "decided")
  /\ UNCHANGED <<pending, event, threadVars, cancel, broker>>

Signal(a) ==
  /\ answer[a] = "decided"
  /\ event' = event \cup {To[a]}
  /\ Reply(a, "resolved")
  /\ UNCHANGED <<pending, decision, threadVars, cancel, broker>>

(* The event before the decision. *)
SignalFirst(a) ==
  \/ /\ answer[a] = "found" /\ To[a] \notin event
     /\ event' = event \cup {To[a]}
     /\ UNCHANGED <<pending, decision, threadVars, handlerVars>>
  \/ /\ answer[a] = "found" /\ To[a] \in event
     /\ decision' = [decision EXCEPT ![To[a]] = Verdict[a]]
     /\ Reply(a, "resolved")
     /\ UNCHANGED <<pending, event, threadVars, cancel, broker>>
Resolve(a) == Decide(a) \/ Signal(a)

(* cancel_pending, all of it under the lock. *)
CancelAllKeeping ==
  /\ decision' = [c \in Calls |-> IF c \in pending THEN "cancelled" ELSE decision[c]]
  /\ event' = event \cup pending
  /\ UNCHANGED pending
CancelAllSilent ==
  /\ decision' = [c \in Calls |-> IF c \in pending THEN "cancelled" ELSE decision[c]]
  /\ pending' = {}
  /\ UNCHANGED event
CancelAll ==
  /\ decision' = [c \in Calls |-> IF c \in pending THEN "cancelled" ELSE decision[c]]
  /\ event' = event \cup pending
  /\ pending' = {}

CancelRun(k) ==
  /\ k \notin cancel /\ EventLoopFree
  /\ cancel' = cancel \cup {k}
  /\ IF broker THEN CancelAll ELSE UNCHANGED brokerVars
  /\ UNCHANGED <<threadVars, answer, broker>>

(* cleanup_session: the broker goes, its calls wait on. *)
Delete ==
  /\ broker /\ EventLoopFree
  /\ broker' = FALSE
  /\ UNCHANGED <<brokerVars, threadVars, answer, cancel>>

-----------------------------------------------------------------------------
Thread(c) == Ask(c) \/ Wake(c) \/ Expire(c) \/ Leave(c) \/ Return(c)

Next ==
  \/ \E c \in Calls : Thread(c)
  \/ \E a \in Answers : Find(a) \/ Resolve(a)
  \/ \E k \in Cancels : CancelRun(k)
  \/ Delete

(* A handler that has begun runs to its end, and a thread that is awake goes
   on; nothing makes a user answer, and no property leans on the timeout. *)
Fairness ==
  /\ \A c \in Calls : WF_vars(Wake(c) \/ Leave(c) \/ Return(c))
  /\ \A a \in Answers : WF_vars(Resolve(a))

Spec == Init /\ [][Next]_vars /\ Fairness

-----------------------------------------------------------------------------
(* Properties.                                                             *)

(* A thread that waits, and was not woken, can be answered and cancelled while
   the session exists; and what can be answered is a call that waits. *)
WaitersReachable ==
  \A c \in Calls :
    /\ pc[c] = "waiting" /\ c \notin event => c \in pending
    /\ c \in pending => pc[c] \in {"waiting", "leaving"}

(* A tool runs only when a user allowed this call. *)
AllowedByUser ==
  \A c \in Calls : outcome[c] = "allow" =>
    \E a \in Answers : To[a] = c /\ Verdict[a] = "allow" /\ answer[a] \in {"decided", "resolved"}

(* An answer that was accepted counts: unless the thread had timed out by then,
   another answer was accepted too, or the run was cancelled, it is what the
   call gets. *)
Accepted(a) == answer[a] \in {"decided", "resolved"}
AcceptedCounts ==
  \A a \in Answers :
    /\ Accepted(a) /\ signaled[To[a]] /\ outcome[To[a]] \notin {"none", "cancelled"}
    /\ \A b \in Answers : Accepted(b) /\ To[b] = To[a] => b = a
    => outcome[To[a]] = Verdict[a]

(* "cancellation takes effect immediately" (cancel_pending): no later answer
   turns a call that was cancelled into an allowed one. *)
CancelledStays ==
  [][\A c \in Calls : decision[c] = "cancelled" => decision'[c] = "cancelled"]_vars

(* Nobody who was answered or cancelled sits out the timeout. *)
DecisionsWake == \A c \in Calls : decision[c] # "none" ~> outcome[c] # "none"
=============================================================================
