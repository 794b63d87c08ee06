-------------------------- MODULE MCGovernorClients --------------------------
(* Callers on small instances: s1 and s2 are serial spawns of root A; the
   worktree w1 and the background spawns g1 and g2 belong to root B and have
   no limited run.                                                         *)
EXTENDS GovernorClients

CONSTANTS s1, s2, g1, g2, w1, worker, worktree, rootA, rootB, noRun

MCClientOf == [r \in Requests |->
                 CASE r \in {s1, s2} -> "serial"
                   [] r \in {g1, g2} -> "background"
                   [] OTHER -> "worktree"]
MCRootOf == [r \in Requests |-> IF r \in {s1, s2} THEN rootA ELSE rootB]
MCRunOf == [r \in Requests |-> IF r \in {s1, s2} THEN rootA ELSE NoRun]
MCKindOf(r) == IF r = w1 THEN worktree ELSE worker
MCNeed == [r \in Requests |-> [k \in Kinds |-> IF k = MCKindOf(r) THEN 1 ELSE 0]]
MCTight == [k \in Kinds |-> 1]
MCTwoWorkers == [k \in Kinds |-> IF k = worker THEN 2 ELSE 1]
MCNone == [k \in Kinds |-> 0]
=============================================================================
