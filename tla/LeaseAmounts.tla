---------------------------- MODULE LeaseAmounts ----------------------------
(***************************************************************************)
(* Resource requests of src/core/resource_governor.py and what a set of    *)
(* them holds: shared by the admission controller and its abstraction.     *)
(***************************************************************************)
EXTENDS Integers, FiniteSets

CONSTANTS
  Requests,   \* the requests made during a behaviour
  Kinds,      \* resource kinds
  Roots,      \* root sessions
  RootOf,     \* the root session of a request
  Need        \* the amount of each kind a request asks for

ASSUME RequestsAssumption == IsFiniteSet(Requests)
ASSUME NeedAssumption ==
  /\ RootOf \in [Requests -> Roots]
  /\ Need \in [Requests -> [Kinds -> Nat]]

(* The units of kind k that the requests of S hold together. *)
Units(S, k) == UNION {{r} \X (1 .. Need[r][k]) : r \in S}
Usage(S, k) == Cardinality(Units(S, k))

OfRoot(S, t) == {r \in S : RootOf[r] = t}
=============================================================================
