---------------------------- MODULE AdmissionPool ----------------------------
(***************************************************************************)
(* What admission control promises, without queue, drain or accounts: each *)
(* request is granted at most once or refused, for good, and a grant never *)
(* takes the live leases over a global or a per-root limit.                *)
(***************************************************************************)
EXTENDS LeaseAmounts

CONSTANTS
  Limit,      \* global capacity of a kind, 0 when unlimited
  RootLimit,  \* capacity per root session, 0 when unlimited
  Enforced    \* whether the limits are enforced

VARIABLE status

TypeOK == status \in [Requests -> {"new", "queued", "granted", "refused", "released"}]

Live == {r \in Requests : status[r] = "granted"}
Open == {r \in Requests : status[r] \in {"new", "queued"}}

Within(S) ==
  \A k \in Kinds :
    /\ Limit[k] > 0 => Usage(S, k) <= Limit[k]
    /\ RootLimit[k] > 0 => \A t \in Roots : Usage(OfRoot(S, t), k) <= RootLimit[k]

Init == status = [r \in Requests |-> "new"]

Enqueue(r) ==
  /\ status[r] = "new"
  /\ status' = [status EXCEPT ![r] = "queued"]

Grant(r) ==
  /\ r \in Open
  /\ Enforced => Within(Live \cup {r})
  /\ status' = [status EXCEPT ![r] = "granted"]

(* A shutdown refuses many requests in one step. *)
Refuse(S) ==
  /\ S # {}
  /\ status' = [r \in Requests |-> IF r \in S THEN "refused" ELSE status[r]]

Return(r) ==
  /\ status[r] = "granted"
  /\ status' = [status EXCEPT ![r] = "released"]

Next ==
  \/ \E r \in Requests : Enqueue(r) \/ Grant(r) \/ Return(r)
  \/ \E S \in SUBSET Open : Refuse(S)

Spec == Init /\ [][Next]_status
=============================================================================
