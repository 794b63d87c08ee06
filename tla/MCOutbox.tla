------------------------------- MODULE MCOutbox -------------------------------
(* A run of the second turn: its submission, with version 2, a cancellation,
   with version 1, and a fact of an unknown type with version 2, delivered by a
   relay that may fail and by one that does not. *)
EXTENDS Outbox

CONSTANTS old, new

MCAggregateOf == [e \in Facts |-> "run"]
MCVersionOf == [e \in Facts |-> IF e = 2 THEN 1 ELSE 2]
=============================================================================
