---------------------------- MODULE MCDelegation ----------------------------
(* Two tasks, of which the second depends on the first.                    *)
EXTENDS Delegation, TLC

CONSTANTS scan, fix

MCOrder == <<scan, fix>>
MCSymmetry == Permutations(Retriers) \cup Permutations(Reviewers)
MCDep == [n \in Names |-> IF n = fix THEN {scan} ELSE {}]
=============================================================================
