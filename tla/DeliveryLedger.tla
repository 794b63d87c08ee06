---------------------------- MODULE DeliveryLedger ----------------------------
(***************************************************************************)
(* What the outbox promises of a durable fact: it is kept until it is      *)
(* settled; the trace has at most one row of it, written while its version *)
(* is above the watermark; it is acknowledged only when the watermark has  *)
(* reached its version, with a row of its own or past it, or when nobody   *)
(* knows its type; a malformed one never is.  Nothing is promised of the   *)
(* order in which versions arrive.  Outbox implements this.                *)
(***************************************************************************)
EXTENDS Naturals

CONSTANTS Facts, AggregateOf, VersionOf, Foreign, Malformed

VARIABLES
  state,       \* what became of each fact
  rows,        \* how many rows of the trace a fact has
  watermark    \* the version the trace has reached, for each aggregate

ledger == <<state, rows, watermark>>

Aggregates == {AggregateOf[e] : e \in Facts}
Reached(e) == VersionOf[e] <= watermark[AggregateOf[e]]

Init ==
  /\ state = [e \in Facts |-> "absent"]
  /\ rows = [e \in Facts |-> 0]
  /\ watermark = [a \in Aggregates |-> 0]

Publish(e) ==
  /\ state[e] = "absent"
  /\ state' = [state EXCEPT ![e] = "open"]
  /\ UNCHANGED <<rows, watermark>>

(* A fact may still be recorded after it was given up: its last delivery may
   outlive its claim. *)
Record(e) ==
  /\ e \notin Foreign \cup Malformed
  /\ state[e] \in {"open", "dead_letter"}
  /\ rows[e] = 0 /\ ~Reached(e)
  /\ rows' = [rows EXCEPT ![e] = 1]
  /\ watermark' = [watermark EXCEPT ![AggregateOf[e]] = VersionOf[e]]
  /\ UNCHANGED state

Settle(e) ==
  /\ state[e] = "open"
  /\ e \notin Malformed
  /\ e \in Foreign \/ Reached(e)
  /\ state' = [state EXCEPT ![e] = "delivered"]
  /\ UNCHANGED <<rows, watermark>>

GiveUp(e) ==
  /\ state[e] = "open"
  /\ state' = [state EXCEPT ![e] = "dead_letter"]
  /\ UNCHANGED <<rows, watermark>>

Next == \E e \in Facts : Publish(e) \/ Record(e) \/ Settle(e) \/ GiveUp(e)

Spec == Init /\ [][Next]_ledger
=============================================================================
