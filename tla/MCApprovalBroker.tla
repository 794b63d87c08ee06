--------------------------- MODULE MCApprovalBroker ---------------------------
(* Two calls of one agent and one of another; the first is answered twice, and
   differently.                                                            *)
EXTENDS ApprovalBroker

CONSTANTS edit, run, push, allowEdit, denyEdit, allowRun, allowPush

MCAgentOf == [c \in Calls |-> IF c = push THEN "second" ELSE "first"]
MCTo ==
  [a \in Answers |-> CASE a \in {allowEdit, denyEdit} -> edit
                       [] a = allowRun -> run
                       [] OTHER -> push]
MCVerdict == [a \in Answers |-> IF a = denyEdit THEN "deny" ELSE "allow"]
=============================================================================
