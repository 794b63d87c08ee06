------------------------- MODULE MCResourceGovernor -------------------------
(* Two roots share two worker slots, at most one each; a1 and a2 also compete
   with b1 for a consumable kind, of which b1 needs the whole.             *)
EXTENDS ResourceGovernor

CONSTANTS a1, a2, b1, worker, event, rootA, rootB, run1

MCRootOf == [r \in Requests |-> IF r = b1 THEN rootB ELSE rootA]
MCRunOf == [r \in Requests |-> IF r = b1 THEN NoRun ELSE run1]
MCNeed == [r \in Requests |-> [k \in Kinds |->
             IF k = event /\ r = b1 THEN 2 ELSE 1]]
MCLimit == [k \in Kinds |-> 2]
MCRootLimit == [k \in Kinds |-> IF k = worker THEN 1 ELSE 0]
=============================================================================
