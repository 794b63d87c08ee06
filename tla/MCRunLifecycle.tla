---------------------------- MODULE MCRunLifecycle ----------------------------
(* A prompt that is sent twice with one key, another prompt with that key, a
   prompt without a key and an approved plan.                              *)
EXTENDS RunLifecycle

CONSTANTS first, again, other, plain, plan

MCRouteOf == [q \in Requests |-> IF q = plan THEN "plan" ELSE "chat"]
MCKeyOf ==
  [q \in Requests |-> CASE q \in {first, again, other} -> "k"
                        [] q = plan -> "plan"
                        [] OTHER -> NoKey]
MCPromptOf == [q \in Requests |-> IF q = plan THEN "plan" ELSE IF q = other THEN "b" ELSE "a"]
=============================================================================
