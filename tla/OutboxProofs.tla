----------------------------- MODULE OutboxProofs -----------------------------
(***************************************************************************)
(* The outbox keeps its promise for every set of facts and relays: types,  *)
(* aggregate order, respect for the claims of others, and the              *)
(* implementation of DeliveryLedger.                                       *)
(*                                                                         *)
(* The statements that acknowledge test claimed_by only.  What makes that  *)
(* enough is the strengthening: a record in the hands of a relay that      *)
(* still owns its row is claimed, and what is delivered, or about to be,   *)
(* the trace has reached or does not know.                                 *)
(***************************************************************************)
EXTENDS Outbox, TLAPS

(* A relay that still owns a row it is delivering has it claimed: the row was
   neither settled nor given back. *)
HandsClaimed ==
  \A r \in Relays : \A e \in batch[r] :
    /\ status[e] # "absent"
    /\ claimedBy[e] = r => status[e] = "claimed"

(* What has a row the trace has reached; what is delivered, or about to be, it
   has reached or does not know the type of. *)
Reached(e) == VersionOf[e] <= watermark[AggregateOf[e]]
Answered(e) == e \notin Malformed /\ (e \in Foreign \/ Reached(e))
DeliveredAnswered ==
  /\ \A e \in Facts : rows[e] > 0 => Reached(e)
  /\ \A e \in Facts : status[e] = "delivered" => Answered(e)
  /\ \A r \in Relays : pc[r] = "ack" /\ result[r] = "ok" => Answered(current[r])

IInv == TypeOK /\ HandsClaimed /\ DeliveredAnswered /\ AggregateOrder

LEMMA EarlierFacts ==
  ASSUME NEW e \in Facts
  PROVE  Earlier(e) \subseteq Facts
BY DEF Earlier

LEMMA InitInv == Init => IInv
<1> SUFFICES ASSUME Init PROVE IInv
  OBVIOUS
<1>1. TypeOK
  BY OutboxAssumption DEF Init, TypeOK
<1>2. HandsClaimed
  BY DEF Init, HandsClaimed
<1>3. DeliveredAnswered
  BY DEF Init, DeliveredAnswered
<1>4. AggregateOrder
  BY DEF Init, AggregateOrder, UnderWay
<1> QED
  BY <1>1, <1>2, <1>3, <1>4 DEF IInv

(* append: the row is new; whatever it comes too late for is noted in late. *)
LEMMA AppendKeeps ==
  ASSUME IInv, NEW e0 \in Facts, Append(e0)
  PROVE  IInv'
<1> USE DEF IInv, vars, rowVars, leaseVars, relayVars, traceVars
<1>1. TypeOK'
  BY OutboxAssumption DEF TypeOK, Append
<1>2. HandsClaimed'
  BY DEF TypeOK, HandsClaimed, Append
<1>3. DeliveredAnswered'
  BY DEF TypeOK, DeliveredAnswered, Answered, Reached, Append
<1>4. AggregateOrder'
  BY EarlierFacts DEF TypeOK, AggregateOrder, UnderWay, Earlier, Append
<1> QED
  BY <1>1, <1>2, <1>3, <1>4

(* A backoff that is over. *)
LEMMA BackoffKeeps ==
  ASSUME IInv, NEW e0 \in Facts, BackoffOver(e0)
  PROVE  IInv'
<1> USE DEF IInv, vars, rowVars, leaseVars, relayVars, traceVars
<1>1. TypeOK'
  BY OutboxAssumption DEF TypeOK, BackoffOver
<1>2. HandsClaimed'
  BY DEF TypeOK, HandsClaimed, BackoffOver
<1>3. DeliveredAnswered'
  BY DEF TypeOK, DeliveredAnswered, Answered, Reached, BackoffOver
<1>4. AggregateOrder'
  BY EarlierFacts DEF TypeOK, AggregateOrder, UnderWay, Earlier, BackoffOver
<1> QED
  BY <1>1, <1>2, <1>3, <1>4

(* A claim that grows old. *)
LEMMA AgingKeeps ==
  ASSUME IInv, NEW e0 \in Facts, ClaimAges(e0)
  PROVE  IInv'
<1> USE DEF IInv, vars, rowVars, leaseVars, relayVars, traceVars
<1>1. TypeOK'
  BY OutboxAssumption DEF TypeOK, ClaimAges
<1>2. HandsClaimed'
  BY DEF TypeOK, HandsClaimed, ClaimAges
<1>3. DeliveredAnswered'
  BY DEF TypeOK, DeliveredAnswered, Answered, Reached, ClaimAges
<1>4. AggregateOrder'
  BY EarlierFacts DEF TypeOK, AggregateOrder, UnderWay, Earlier, ClaimAges
<1> QED
  BY <1>1, <1>2, <1>3, <1>4

(* What a step that writes neither a row nor the trace must still keep. *)
Quiet ==
  /\ UNCHANGED <<rowVars, traceVars, late>>
  /\ \A r \in Relays :
       /\ batch'[r] \subseteq batch[r]
       /\ pc'[r] = "ack" /\ result'[r] = "ok" =>
            pc[r] = "ack" /\ result[r] = "ok" /\ current'[r] = current[r]

LEMMA QuietKeeps ==
  ASSUME IInv, TypeOK', Quiet
  PROVE  IInv'
<1> USE DEF IInv, Quiet, rowVars, traceVars
<1>1. HandsClaimed'
  BY DEF HandsClaimed
<1>2. DeliveredAnswered'
  BY DEF DeliveredAnswered, Answered, Reached
<1>3. AggregateOrder'
  BY DEF AggregateOrder, UnderWay
<1> QED
  BY <1>1, <1>2, <1>3

(* The steps of the lease and of the thread outside the database rows. *)
LEMMA RelayKeeps ==
  ASSUME IInv, NEW p \in Relays,
         \/ HeartbeatDue(p) \/ Start(p) \/ Stop(p) \/ ReleaseLease(p) \/ Crash(p)
         \/ Quit(p) \/ NotDue(p) \/ Heartbeat(p) \/ AckRaises(p) \/ LeaseLapses
  PROVE  IInv'
<1> USE DEF IInv, vars, rowVars, leaseVars, relayVars, traceVars
<1>1. CASE HeartbeatDue(p)
  <2>1. TypeOK'
    BY <1>1 DEF TypeOK, HeartbeatDue
  <2>2. Quiet
    BY <1>1 DEF TypeOK, Quiet, HeartbeatDue
  <2> QED
    BY <2>1, <2>2, QuietKeeps
<1>2. CASE Start(p)
  <2>1. TypeOK'
    BY <1>2 DEF TypeOK, Start, Goto
  <2>2. Quiet
    BY <1>2 DEF TypeOK, Quiet, Start, Goto
  <2> QED
    BY <2>1, <2>2, QuietKeeps
<1>3. CASE Stop(p)
  <2>1. TypeOK'
    BY <1>3 DEF TypeOK, Stop
  <2>2. Quiet
    BY <1>3 DEF TypeOK, Quiet, Stop
  <2> QED
    BY <2>1, <2>2, QuietKeeps
<1>4. CASE ReleaseLease(p)
  <2>1. TypeOK'
    BY <1>4 DEF TypeOK, ReleaseLease
  <2>2. Quiet
    BY <1>4 DEF TypeOK, Quiet, ReleaseLease
  <2> QED
    BY <2>1, <2>2, QuietKeeps
<1>5. CASE Crash(p)
  <2>1. TypeOK'
    BY <1>5 DEF TypeOK, Crash, Goto, Forget
  <2>2. Quiet
    BY <1>5 DEF TypeOK, Quiet, Crash, Goto, Forget
  <2> QED
    BY <2>1, <2>2, QuietKeeps
<1>6. CASE Quit(p)
  <2>1. TypeOK'
    BY <1>6 DEF TypeOK, Quit, Goto
  <2>2. Quiet
    BY <1>6 DEF TypeOK, Quiet, Quit, Goto
  <2> QED
    BY <2>1, <2>2, QuietKeeps
<1>7. CASE NotDue(p)
  <2>1. TypeOK'
    BY <1>7 DEF TypeOK, NotDue, Goto
  <2>2. Quiet
    BY <1>7 DEF TypeOK, Quiet, NotDue, Goto
  <2> QED
    BY <2>1, <2>2, QuietKeeps
<1>8. CASE Heartbeat(p)
  <2>1. TypeOK'
    <3>1. /\ UNCHANGED <<status, claimedBy, aged, attempts, rows, watermark>>
          /\ UNCHANGED <<holder, batch, current, result, late>>
          /\ due' = due \ {p} /\ lapsed' \in BOOLEAN
      BY <1>8 DEF TypeOK, Heartbeat
    <3>2. \E l \in {"claim", "ended"} : pc' = [pc EXCEPT ![p] = l]
      BY <1>8 DEF Heartbeat, Goto
    <3>3. /\ running' = running \/ running' = [running EXCEPT ![p] = "no"]
          /\ acquired' = acquired \/ acquired' = [acquired EXCEPT ![p] = FALSE]
      BY <1>8 DEF Heartbeat
    <3>4. pc[p] = "poll"
      BY <1>8 DEF Heartbeat
    <3>5. /\ pc' \in [Relays -> {"new", "poll", "claim", "deliver", "ack", "ended"}]
          /\ \A r \in Relays : pc'[r] = pc[r] \/ (r = p /\ pc'[p] \in {"claim", "ended"})
      BY <3>2 DEF TypeOK
    <3>6. running' \in [Relays -> {"yes", "stopping", "no"}] /\ acquired' \in [Relays -> BOOLEAN]
      BY <3>3 DEF TypeOK
    <3>7. \A r \in Relays : (batch[r] # {} => pc'[r] \in {"deliver", "ack"})
                           /\ (pc'[r] = "ack" => current[r] \in batch[r])
      BY <3>4, <3>5 DEF TypeOK
    <3> QED
      BY <3>1, <3>5, <3>6, <3>7 DEF TypeOK
  <2>2. Quiet
    BY <1>8 DEF TypeOK, Quiet, Heartbeat, Goto
  <2> QED
    BY <2>1, <2>2, QuietKeeps
<1>9. CASE AckRaises(p)
  <2>1. TypeOK'
    BY <1>9 DEF TypeOK, AckRaises
  <2>2. Quiet
    BY <1>9 DEF TypeOK, Quiet, AckRaises
  <2> QED
    BY <2>1, <2>2, QuietKeeps
<1>10. CASE LeaseLapses
  <2>1. TypeOK'
    BY <1>10 DEF TypeOK, LeaseLapses
  <2>2. Quiet
    BY <1>10 DEF TypeOK, Quiet, LeaseLapses
  <2> QED
    BY <2>1, <2>2, QuietKeeps
<1> QED
  BY <1>1, <1>2, <1>3, <1>4, <1>5, <1>6, <1>7, <1>8, <1>9, <1>10


(* claim_batch takes rows that wait or whose claim is old, and only when every
   earlier version is delivered; the claims it frees were old. *)
LEMMA ClaimTakes ==
  ASSUME IInv, NEW p \in Relays, Claim(p)
  PROVE  \E taken \in SUBSET Facts, freed \in SUBSET aged :
           /\ taken \cap freed = {} /\ aged \subseteq taken \cup freed
           /\ \A e \in taken : status[e] \in {"pending", "claimed"}
           /\ \A e \in taken : \A f \in Earlier(e) : status[f] \in {"absent", "delivered"}
           /\ status' = [e \in Facts |-> CASE e \in taken -> "claimed"
                                           [] e \in freed -> "pending"
                                           [] OTHER -> status[e]]
           /\ claimedBy' = [e \in Facts |-> CASE e \in taken -> p
                                              [] e \in freed -> NoRelay
                                              [] OTHER -> claimedBy[e]]
           /\ aged' = {}
           /\ batch' = [batch EXCEPT ![p] = taken]
           /\ pc' = [pc EXCEPT ![p] = IF taken = {} THEN "poll" ELSE "deliver"]
<1> DEFINE taken == FirstOf(Claimable)
           freed == Expired \ taken
<1>1. taken \in SUBSET Facts /\ freed \in SUBSET aged
  BY DEF FirstOf, Claimable, Expired
<1>2. taken \cap freed = {} /\ aged \subseteq taken \cup freed /\ aged \ Expired = {}
  BY DEF Expired
<1>3. \A e \in taken : status[e] \in {"pending", "claimed"} /\ ~Behind(e)
  BY DEF FirstOf, Claimable, Expired, IInv, TypeOK
<1>4. \A e \in taken : \A f \in Earlier(e) : status[f] \in {"absent", "delivered"}
  BY <1>1, <1>3, EarlierFacts DEF Behind
<1>5. /\ status' = [e \in Facts |-> CASE e \in taken -> "claimed"
                                      [] e \in freed -> "pending"
                                      [] OTHER -> status[e]]
      /\ claimedBy' = [e \in Facts |-> CASE e \in taken -> p
                                         [] e \in freed -> NoRelay
                                         [] OTHER -> claimedBy[e]]
      /\ aged' = aged \ Expired
      /\ batch' = [batch EXCEPT ![p] = taken]
      /\ pc' = [pc EXCEPT ![p] = IF taken = {} THEN "poll" ELSE "deliver"]
  BY DEF Claim, Goto
<1> HIDE DEF taken, freed
<1> QED
  BY <1>1, <1>2, <1>3, <1>4, <1>5

LEMMA ClaimKeeps ==
  ASSUME IInv, NEW p \in Relays, Claim(p)
  PROVE  IInv'
<1> PICK taken \in SUBSET Facts, freed \in SUBSET aged :
           /\ taken \cap freed = {} /\ aged \subseteq taken \cup freed
           /\ \A e \in taken : status[e] \in {"pending", "claimed"}
           /\ \A e \in taken : \A f \in Earlier(e) : status[f] \in {"absent", "delivered"}
           /\ status' = [e \in Facts |-> CASE e \in taken -> "claimed"
                                           [] e \in freed -> "pending"
                                           [] OTHER -> status[e]]
           /\ claimedBy' = [e \in Facts |-> CASE e \in taken -> p
                                              [] e \in freed -> NoRelay
                                              [] OTHER -> claimedBy[e]]
           /\ aged' = {}
           /\ batch' = [batch EXCEPT ![p] = taken]
           /\ pc' = [pc EXCEPT ![p] = IF taken = {} THEN "poll" ELSE "deliver"]
  BY ClaimTakes
<1>1. /\ UNCHANGED <<attempts, holder, lapsed, running, acquired, due, current, result, rows, watermark>>
      /\ late' = {q \in late : UnderWay(q[2])'}
  BY DEF Claim, leaseVars, traceVars, KeepLate
<1>2. \A e \in freed : status[e] = "claimed" /\ e \in Facts
  BY DEF IInv, TypeOK
<1>3. \A e \in Facts :
        \/ e \in taken /\ status'[e] = "claimed" /\ claimedBy'[e] = p
        \/ e \in freed /\ e \notin taken /\ status'[e] = "pending" /\ claimedBy'[e] = NoRelay
        \/ e \notin taken /\ e \notin freed /\ status'[e] = status[e] /\ claimedBy'[e] = claimedBy[e]
  OBVIOUS
<1>4. \A r \in Relays : r # p => batch'[r] = batch[r] /\ pc'[r] = pc[r]
  BY DEF IInv, TypeOK
<1>5. /\ batch'[p] = taken /\ pc[p] = "claim"
      /\ pc'[p] = IF taken = {} THEN "poll" ELSE "deliver"
  BY DEF IInv, TypeOK, Claim
<1>6. TypeOK'
  <2>1. status' \in [Facts -> {"absent", "pending", "delayed", "claimed", "delivered", "dead_letter"}]
    BY <1>3 DEF IInv, TypeOK
  <2>2. claimedBy' \in [Facts -> Relays \cup {NoRelay}]
    BY <1>3 DEF IInv, TypeOK
  <2>3. \A e \in Facts : claimedBy'[e] = NoRelay <=> status'[e] \in {"absent", "pending", "delayed"}
    BY <1>3, OutboxAssumption DEF IInv, TypeOK
  <2>4. pc' \in [Relays -> {"new", "poll", "claim", "deliver", "ack", "ended"}] /\ batch' \in [Relays -> SUBSET Facts]
    BY DEF IInv, TypeOK
  <2>5. \A r \in Relays :
          /\ batch'[r] # {} => pc'[r] \in {"deliver", "ack"}
          /\ pc'[r] = "ack" => current'[r] \in batch'[r]
    BY <1>1, <1>4, <1>5 DEF IInv, TypeOK
  <2> QED
    BY <1>1, <2>1, <2>2, <2>3, <2>4, <2>5 DEF IInv, TypeOK
<1>7. HandsClaimed'
  <2> SUFFICES ASSUME NEW r \in Relays, NEW e \in batch'[r]
               PROVE  status'[e] # "absent" /\ (claimedBy'[e] = r => status'[e] = "claimed")
    BY DEF HandsClaimed
  <2>1. CASE r = p
    BY <2>1, <1>3, <1>5
  <2>2. CASE r # p
    <3>1. e \in batch[r] /\ e \in Facts
      BY <2>2, <1>4 DEF IInv, TypeOK
    <3> QED
      BY <3>1, <2>2, <1>2, <1>3, OutboxAssumption DEF IInv, HandsClaimed
  <2> QED
    BY <2>1, <2>2
<1>8. DeliveredAnswered'
  <2>1. \A e \in Facts : status'[e] = "delivered" => status[e] = "delivered"
    BY <1>3
  <2>2. \A r \in Relays : pc'[r] = "ack" => pc[r] = "ack"
    BY <1>4, <1>5
  <2> QED
    BY <1>1, <2>1, <2>2 DEF IInv, DeliveredAnswered, Answered, Reached
<1>9. AggregateOrder'
  <2> SUFFICES ASSUME NEW e \in Facts, UnderWay(e)', NEW f \in Earlier(e)
               PROVE  status'[f] \in {"absent", "delivered"} \/ <<f, e>> \in late'
    BY DEF AggregateOrder, Earlier
  <2>1. f \in Facts
    BY EarlierFacts
  <2>2. status[f] \in {"absent", "delivered"} => status'[f] = status[f]
    BY <2>1, <1>2, <1>3
  <2>3. CASE e \in taken
    BY <2>2, <2>3
  <2>4. CASE e \notin taken
    <3>1. UnderWay(e)
      BY <2>4, <1>3 DEF UnderWay
    <3>2. status[f] \in {"absent", "delivered"} \/ <<f, e>> \in late
      BY <3>1 DEF IInv, AggregateOrder
    <3> QED
      BY <3>2, <2>2, <1>1
  <2> QED
    BY <2>3, <2>4
<1> QED
  BY <1>6, <1>7, <1>8, <1>9 DEF IInv

(* A delivery writes the trace at most once, and moves its watermark up. *)
LEMMA DeliverKeeps ==
  ASSUME IInv, NEW p \in Relays, NEW e0 \in Facts, Deliver(p, e0)
  PROVE  IInv'
<1>1. /\ pc[p] = "deliver" /\ e0 \in batch[p]
      /\ UNCHANGED <<rowVars, leaseVars, running, acquired, due, batch, late>>
      /\ pc' = [pc EXCEPT ![p] = "ack"] /\ current' = [current EXCEPT ![p] = e0]
      /\ \E o \in {"ok", "failed"} : result' = [result EXCEPT ![p] = o]
  BY DEF Deliver, Goto
<1>2. rows' \in [Facts -> Nat] /\ watermark' \in [Aggregates -> Nat]
  BY OutboxAssumption DEF Deliver, RecordInTrace, traceVars, IInv, TypeOK, Aggregates
<1>3. \A a \in Aggregates : watermark[a] <= watermark'[a]
  BY OutboxAssumption DEF Deliver, RecordInTrace, Seen, traceVars, IInv, TypeOK, Aggregates
<1>4. \A e \in Facts : Reached(e) => Reached(e)'
  BY <1>2, <1>3, OutboxAssumption DEF Reached, Aggregates, IInv, TypeOK
<1>5. result'[p] = "ok" => Answered(e0)'
  <2> SUFFICES ASSUME result'[p] = "ok", e0 \notin Foreign PROVE e0 \notin Malformed /\ Reached(e0)'
    BY OutboxAssumption DEF Answered, Reached, Deliver, IInv, TypeOK
  <2>1. RecordInTrace(e0) /\ e0 \notin Malformed
    BY DEF Deliver, IInv, TypeOK
  <2>2. CASE ~Seen(e0)
    <3>1. watermark' = [watermark EXCEPT ![AggregateOf[e0]] = VersionOf[e0]]
      BY <2>1, <2>2 DEF RecordInTrace
    <3>2. AggregateOf[e0] \in Aggregates /\ VersionOf[e0] \in Nat
      BY OutboxAssumption DEF Aggregates
    <3>3. watermark'[AggregateOf[e0]] = VersionOf[e0]
      BY <3>1, <3>2 DEF IInv, TypeOK
    <3> QED
      BY <2>1, <3>2, <3>3 DEF Reached
  <2>3. CASE Seen(e0)
    <3>1. UNCHANGED traceVars
      BY <2>1, <2>3 DEF RecordInTrace
    <3>2. Reached(e0)
      BY <2>3 DEF Seen, Reached, IInv, DeliveredAnswered
    <3> QED
      BY <2>1, <3>1, <3>2 DEF Reached, traceVars
  <2> QED
    BY <2>2, <2>3
<1>6. \A e \in Facts : rows'[e] > 0 => Reached(e)'
  <2>1. \A e \in Facts \ {e0} : rows'[e] = rows[e]
    BY DEF Deliver, RecordInTrace, traceVars, IInv, TypeOK
  <2>2. rows'[e0] > 0 => rows[e0] > 0 \/ Reached(e0)'
    BY OutboxAssumption DEF Deliver, RecordInTrace, traceVars, Reached, Aggregates, IInv, TypeOK
  <2> QED
    BY <2>1, <2>2, <1>4 DEF IInv, DeliveredAnswered
<1>7. TypeOK'
  BY <1>1, <1>2 DEF rowVars, leaseVars, IInv, TypeOK
<1>8. HandsClaimed'
  BY <1>1 DEF rowVars, IInv, HandsClaimed
<1>9. DeliveredAnswered'
  <2>1. \A e \in Facts : status'[e] = "delivered" => Answered(e)'
    BY <1>1, <1>4 DEF rowVars, IInv, DeliveredAnswered, Answered
  <2>2. ASSUME NEW r \in Relays, pc'[r] = "ack", result'[r] = "ok" PROVE Answered(current[r])'
    <3>1. CASE r = p
      BY <2>2, <3>1, <1>1, <1>5 DEF IInv, TypeOK, Answered, Reached
    <3>2. CASE r # p
      <4>1. pc[r] = "ack" /\ result[r] = "ok" /\ current'[r] = current[r] /\ current[r] \in Facts
        BY <2>2, <3>2, <1>1 DEF IInv, TypeOK
      <4> QED
        BY <4>1, <1>4 DEF IInv, DeliveredAnswered, Answered, Reached
    <3> QED
      BY <3>1, <3>2
  <2> QED
    BY <1>6, <2>1, <2>2 DEF DeliveredAnswered
<1>10. AggregateOrder'
  BY <1>1 DEF rowVars, IInv, AggregateOrder, UnderWay
<1> QED
  BY <1>7, <1>8, <1>9, <1>10 DEF IInv

(* What an acknowledgement writes: nothing, when the row is no longer the
   relay's, and otherwise a row that is claimed. *)
LEMMA AckWrites ==
  ASSUME IInv, NEW p \in Relays, Ack(p), NEW c, c = current[p]
  PROVE  /\ c \in Facts /\ c \in batch[p]
         /\ \/ UNCHANGED rowVars
            \/ /\ claimedBy[c] = p /\ status[c] = "claimed"
               /\ aged' = aged \ {c}
               /\ attempts' \in [Facts -> 0 .. MaxAttempts]
               /\ \/ /\ status' = [status EXCEPT ![c] = "delivered"]
                     /\ claimedBy' = claimedBy
                     /\ Answered(c)
                  \/ /\ status' = [status EXCEPT ![c] = "dead_letter"]
                     /\ claimedBy' = claimedBy
                  \/ /\ status' = [status EXCEPT ![c] = "delayed"]
                     /\ claimedBy' = [claimedBy EXCEPT ![c] = NoRelay]
<1>1. c \in batch[p] /\ c \in Facts
  BY DEF Ack, IInv, TypeOK
<1>2. result[p] = "ok" => Answered(c)
  BY DEF Ack, IInv, DeliveredAnswered
<1>3. claimedBy[c] = p => status[c] = "claimed"
  BY <1>1 DEF IInv, HandsClaimed
<1>4. CountAttempt(c) => attempts' \in [Facts -> 0 .. MaxAttempts]
  BY <1>1, OutboxAssumption DEF CountAttempt, LastAttempt, IInv, TypeOK
<1>5. attempts \in [Facts -> 0 .. MaxAttempts]
  BY DEF IInv, TypeOK
<1>6. CASE result[p] = "ok" /\ MarkDelivered(p, c)
  BY <1>1, <1>2, <1>3, <1>5, <1>6 DEF MarkDelivered, Owns
<1>7. CASE DeadLetter(p, c)
  BY <1>1, <1>3, <1>4, <1>7 DEF DeadLetter, Owns
<1>8. CASE Reschedule(p, c)
  BY <1>1, <1>3, <1>4, <1>8 DEF Reschedule, Owns
<1> QED
  BY <1>6, <1>7, <1>8 DEF Ack, Acknowledge

LEMMA AckKeeps ==
  ASSUME IInv, NEW p \in Relays, Ack(p)
  PROVE  IInv'
<1> DEFINE c == current[p]
<1>1. /\ c \in Facts /\ c \in batch[p] /\ pc[p] = "ack"
      /\ UNCHANGED <<leaseVars, running, acquired, due, traceVars>>
      /\ late' = {q \in late : UnderWay(q[2])'}
      /\ batch' = [batch EXCEPT ![p] = @ \ {c}]
      /\ current' = [current EXCEPT ![p] = 0] /\ result' = [result EXCEPT ![p] = "none"]
      /\ pc' = [pc EXCEPT ![p] = IF batch[p] = {c} THEN "poll" ELSE "deliver"]
  BY AckWrites DEF Ack, Goto, Forget, KeepLate
<1>2. /\ pc' \in [Relays -> {"new", "poll", "claim", "deliver", "ack", "ended"}]
      /\ batch' \in [Relays -> SUBSET Facts]
      /\ current' \in [Relays -> Facts \cup {0}]
      /\ result' \in [Relays -> {"none", "ok", "failed"}]
  BY <1>1 DEF IInv, TypeOK
<1>3. \A r \in Relays :
        /\ batch'[r] # {} => pc'[r] \in {"deliver", "ack"}
        /\ pc'[r] = "ack" => r # p /\ pc[r] = "ack" /\ current'[r] = current[r]
                             /\ result'[r] = result[r] /\ current'[r] \in batch'[r]
        /\ batch'[r] \subseteq batch[r]
        /\ r = p => c \notin batch'[r]
  BY <1>1 DEF IInv, TypeOK
<1>4. /\ UNCHANGED <<holder, lapsed, running, acquired, due, rows, watermark>>
      /\ late' \subseteq Facts \X Facts
  BY <1>1 DEF leaseVars, traceVars, IInv, TypeOK
<1> HIDE DEF c
<1>5. CASE UNCHANGED rowVars
  <2>1. TypeOK'
    BY <1>2, <1>3, <1>4, <1>5 DEF rowVars, IInv, TypeOK
  <2>2. HandsClaimed'
    BY <1>3, <1>5 DEF rowVars, IInv, HandsClaimed
  <2>3. DeliveredAnswered'
    BY <1>3, <1>4, <1>5 DEF rowVars, IInv, DeliveredAnswered, Answered, Reached
  <2>4. AggregateOrder'
    BY <1>1, <1>5 DEF rowVars, IInv, AggregateOrder, UnderWay
  <2> QED
    BY <2>1, <2>2, <2>3, <2>4 DEF IInv
<1>6. CASE /\ claimedBy[c] = p /\ status[c] = "claimed"
           /\ aged' = aged \ {c}
           /\ attempts' \in [Facts -> 0 .. MaxAttempts]
           /\ \/ /\ status' = [status EXCEPT ![c] = "delivered"]
                 /\ claimedBy' = claimedBy
                 /\ Answered(c)
              \/ /\ status' = [status EXCEPT ![c] = "dead_letter"]
                 /\ claimedBy' = claimedBy
              \/ /\ status' = [status EXCEPT ![c] = "delayed"]
                 /\ claimedBy' = [claimedBy EXCEPT ![c] = NoRelay]
  <2>1. \A e \in Facts \ {c} : status'[e] = status[e] /\ claimedBy'[e] = claimedBy[e]
    BY <1>6 DEF IInv, TypeOK
  <2>2. /\ status'[c] \in {"delivered", "dead_letter", "delayed"}
        /\ claimedBy'[c] = IF status'[c] = "delayed" THEN NoRelay ELSE p
        /\ status'[c] = "delivered" => Answered(c)
    BY <1>1, <1>6 DEF IInv, TypeOK
  <2>3. TypeOK'
    <3>1. status' \in [Facts -> {"absent", "pending", "delayed", "claimed", "delivered", "dead_letter"}]
      BY <1>6 DEF IInv, TypeOK
    <3>2. claimedBy' \in [Facts -> Relays \cup {NoRelay}]
      BY <1>6 DEF IInv, TypeOK
    <3>3. aged' \subseteq {e \in Facts : status'[e] = "claimed"}
      BY <1>6, <2>1 DEF IInv, TypeOK
    <3>4. \A e \in Facts : claimedBy'[e] = NoRelay <=> status'[e] \in {"absent", "pending", "delayed"}
      BY <2>1, <2>2, OutboxAssumption DEF IInv, TypeOK
    <3> QED
      BY <1>2, <1>3, <1>4, <1>6, <3>1, <3>2, <3>3, <3>4 DEF IInv, TypeOK
  <2>4. HandsClaimed'
    <3> SUFFICES ASSUME NEW r \in Relays, NEW e \in batch'[r]
                 PROVE  status'[e] # "absent" /\ (claimedBy'[e] = r => status'[e] = "claimed")
      BY DEF HandsClaimed
    <3>1. e \in Facts /\ e \in batch[r]
      BY <1>2, <1>3
    <3>2. CASE e # c
      BY <3>1, <3>2, <2>1 DEF IInv, HandsClaimed
    <3>3. CASE e = c
      BY <3>1, <3>3, <1>3, <2>2, OutboxAssumption
    <3> QED
      BY <3>2, <3>3
  <2>5. DeliveredAnswered'
    BY <1>3, <1>4, <2>1, <2>2 DEF IInv, DeliveredAnswered, Answered, Reached
  <2>6. AggregateOrder'
    <3> SUFFICES ASSUME NEW e \in Facts, UnderWay(e)', NEW f \in Earlier(e)
                 PROVE  status'[f] \in {"absent", "delivered"} \/ <<f, e>> \in late'
      BY DEF AggregateOrder, Earlier
    <3>1. f \in Facts /\ UnderWay(e)
      BY EarlierFacts, <1>6, <2>1 DEF UnderWay
    <3>2. status[f] \in {"absent", "delivered"} => status'[f] = status[f]
      BY <3>1, <1>6, <2>1
    <3> QED
      BY <3>1, <3>2, <1>1 DEF IInv, AggregateOrder
  <2> QED
    BY <2>3, <2>4, <2>5, <2>6 DEF IInv
<1> QED
  BY <1>5, <1>6, AckWrites DEF c

LEMMA StutterKeeps ==
  ASSUME IInv, UNCHANGED vars
  PROVE  IInv'
<1> USE DEF IInv, vars, rowVars, leaseVars, relayVars, traceVars
<1>1. TypeOK'
  BY DEF TypeOK
<1>2. Quiet
  BY DEF Quiet
<1> QED
  BY <1>1, <1>2, QuietKeeps

LEMMA StepKeeps == IInv /\ [Next]_vars => IInv'
<1> SUFFICES ASSUME IInv, [Next]_vars PROVE IInv'
  OBVIOUS
<1>1. ASSUME NEW e \in Facts, Append(e) \/ BackoffOver(e) \/ ClaimAges(e) PROVE IInv'
  BY <1>1, AppendKeeps, BackoffKeeps, AgingKeeps
<1>2. CASE LeaseLapses
  <2>1. Relays # {}
    BY <1>2, OutboxAssumption DEF LeaseLapses, IInv, TypeOK
  <2> QED
    BY <1>2, <2>1, RelayKeeps
<1>3. ASSUME NEW p \in Relays,
             \/ Start(p) \/ Stop(p) \/ ReleaseLease(p) \/ Crash(p) \/ HeartbeatDue(p) \/ AckRaises(p)
             \/ Quit(p) \/ NotDue(p) \/ Heartbeat(p)
      PROVE  IInv'
  BY <1>3, RelayKeeps
<1>4. ASSUME NEW p \in Relays, Claim(p) \/ Ack(p) \/ \E e \in Facts : Deliver(p, e) PROVE IInv'
  BY <1>4, ClaimKeeps, AckKeeps, DeliverKeeps
<1>5. CASE UNCHANGED vars
  BY <1>5, StutterKeeps
<1> QED
  BY <1>1, <1>2, <1>3, <1>4, <1>5 DEF Next, Time, Loop

(* The inductive invariant of the outbox, for any facts and relays. *)
THEOREM OutboxInvariance == Spec => []IInv
<1> QED
  BY InitInv, StepKeeps, PTL DEF Spec

(* Types, and the agreement of claimed_by with the status of a row. *)
THEOREM OutboxTypes == Spec => []TypeOK
<1>1. IInv => TypeOK
  BY DEF IInv
<1> QED
  BY <1>1, OutboxInvariance, PTL

(* Whoever has or settles a version finds its predecessors delivered, but for
   those appended when it was under way already. *)
THEOREM OrderKept == Spec => []AggregateOrder
<1>1. IInv => AggregateOrder
  BY DEF IInv
<1> QED
  BY <1>1, OutboxInvariance, PTL

-----------------------------------------------------------------------------
(* The claims of others.                                                   *)

ClaimKept ==
  \A e \in Facts, r \in Relays :
    status[e] = "claimed" /\ claimedBy[e] = r /\ e \notin aged =>
      \/ status'[e] = "claimed" /\ claimedBy'[e] = r
      \/ pc[r] = "ack" /\ current[r] = e /\ pc'[r] # "ack"

(* What the steps that write no row, or a row nobody has claimed, do to it. *)
LEMMA RowsKept ==
  ASSUME IInv, NEW p \in Relays, NEW e0 \in Facts,
         \/ HeartbeatDue(p) \/ Start(p) \/ Stop(p) \/ ReleaseLease(p) \/ Crash(p) \/ AckRaises(p)
         \/ Quit(p) \/ NotDue(p) \/ Heartbeat(p) \/ LeaseLapses \/ Deliver(p, e0)
         \/ ClaimAges(e0) \/ UNCHANGED vars
  PROVE  UNCHANGED <<status, claimedBy>>
BY DEF HeartbeatDue, Start, Stop, ReleaseLease, Crash, AckRaises, Quit, NotDue, Heartbeat,
       LeaseLapses, Deliver, ClaimAges, vars, rowVars

LEMMA ClaimKeptByStep == IInv /\ [Next]_vars => ClaimKept
<1> SUFFICES ASSUME IInv, [Next]_vars,
                    NEW e \in Facts, NEW r \in Relays,
                    status[e] = "claimed", claimedBy[e] = r, e \notin aged
             PROVE  \/ status'[e] = "claimed" /\ claimedBy'[e] = r
                    \/ pc[r] = "ack" /\ current[r] = e /\ pc'[r] # "ack"
  BY DEF ClaimKept
<1>1. ASSUME NEW e0 \in Facts, Append(e0) \/ BackoffOver(e0)
      PROVE  status'[e] = "claimed" /\ claimedBy'[e] = r
  BY <1>1 DEF Append, BackoffOver, IInv, TypeOK
<1>2. ASSUME NEW p \in Relays, Claim(p)
      PROVE  status'[e] = "claimed" /\ claimedBy'[e] = r
  <2>1. e \notin Claimable /\ e \notin Expired
    BY DEF Claimable, Expired
  <2>2. e \notin FirstOf(Claimable)
    BY <2>1 DEF FirstOf
  <2> QED
    BY <1>2, <2>1, <2>2 DEF Claim
<1>3. ASSUME NEW p \in Relays, Ack(p)
      PROVE  \/ status'[e] = "claimed" /\ claimedBy'[e] = r
             \/ pc[r] = "ack" /\ current[r] = e /\ pc'[r] # "ack"
  <2>1. PICK c : c = current[p]
    OBVIOUS
  <2>2. CASE UNCHANGED rowVars
    BY <2>2 DEF rowVars
  <2>3. CASE claimedBy[c] = p /\ e # c /\ ~UNCHANGED rowVars
    BY <1>3, <2>1, <2>3, AckWrites DEF IInv, TypeOK
  <2>4. CASE claimedBy[c] = p /\ e = c
    <3>1. r = p /\ pc[p] = "ack" /\ current[p] = e
      BY <1>3, <2>1, <2>4 DEF Ack
    <3>2. pc'[p] # "ack"
      BY <1>3 DEF Ack, Goto, IInv, TypeOK
    <3> QED
      BY <3>1, <3>2
  <2> QED
    BY <1>3, <2>1, <2>2, <2>3, <2>4, AckWrites
<1>4. CASE UNCHANGED <<status, claimedBy>>
  BY <1>4
<1> QED
  BY <1>1, <1>2, <1>3, <1>4, RowsKept DEF Next, Time, Loop

(* For any facts and relays, a relay whose claim is not old can rely on it:
   nothing another relay does, late acknowledgements included, ends it. *)
THEOREM ClaimsKept == Spec => ClaimsRespected
<1>1. Spec => [][ClaimKept]_vars
  BY ClaimKeptByStep, OutboxInvariance, PTL DEF Spec
<1>2. [][ClaimKept]_vars => ClaimsRespected
  BY DEF ClaimKept, ClaimsRespected
<1> QED
  BY <1>1, <1>2

-----------------------------------------------------------------------------
(* The implementation of DeliveryLedger.                                   *)

Told == [e \in Facts |-> StateOf(e)]

LEMMA LedgerInit == Init => Ledger!Init
BY DEF Init, Ledger!Init, StateOf, Aggregates, Ledger!Aggregates

(* Waiting, claimed, delayed: to the ledger a fact is open in all of them. *)
LEMMA OpenStates ==
  ASSUME IInv, IInv',
         \A e \in Facts : \/ status'[e] = status[e]
                           \/ {status[e], status'[e]} \subseteq {"pending", "delayed", "claimed"}
  PROVE  Told' = Told
<1>1. \A e \in Facts : StateOf(e)' = StateOf(e)
  BY DEF StateOf
<1> QED
  BY <1>1 DEF Told

LEMMA PublishStep ==
  ASSUME IInv, NEW e0 \in Facts, Append(e0)
  PROVE  Ledger!Publish(e0)
<1>1. status[e0] = "absent" /\ status' = [status EXCEPT ![e0] = "pending"]
  BY DEF Append
<1>2. Told[e0] = "absent"
  BY <1>1 DEF Told, StateOf
<1>3. \A e \in Facts : StateOf(e)' = IF e = e0 THEN "open" ELSE StateOf(e)
  BY <1>1 DEF StateOf, IInv, TypeOK
<1>4. Told' = [Told EXCEPT ![e0] = "open"]
  BY <1>3 DEF Told
<1> QED
  BY <1>2, <1>4 DEF Append, Ledger!Publish, Told, traceVars

LEMMA RecordStep ==
  ASSUME IInv, NEW p \in Relays, NEW e0 \in Facts, Deliver(p, e0)
  PROVE  Ledger!Record(e0) \/ (Told' = Told /\ UNCHANGED traceVars)
<1>1. Told' = Told
  BY DEF Deliver, rowVars, Told, StateOf
<1>2. CASE UNCHANGED traceVars
  BY <1>1, <1>2
<1>3. CASE e0 \notin Foreign \cup Malformed /\ RecordInTrace(e0) /\ ~Seen(e0)
  <2>1. rows[e0] = 0 /\ ~Reached(e0)
    BY <1>3 DEF Seen, Reached, IInv, TypeOK
  <2>2. status[e0] \notin {"absent", "delivered"}
    BY <1>3, <2>1 DEF Deliver, IInv, HandsClaimed, DeliveredAnswered, Answered
  <2>3. Told[e0] \in {"open", "dead_letter"}
    BY <2>2 DEF Told, StateOf
  <2>4. rows' = [rows EXCEPT ![e0] = 1]
    BY <1>3, <2>1 DEF RecordInTrace, IInv, TypeOK
  <2>5. watermark' = [watermark EXCEPT ![AggregateOf[e0]] = VersionOf[e0]]
    BY <1>3 DEF RecordInTrace
  <2> QED
    BY <1>1, <1>3, <2>1, <2>3, <2>4, <2>5 DEF Ledger!Record, Ledger!Reached, Reached, Told
<1> QED
  BY <1>2, <1>3 DEF Deliver, RecordInTrace

LEMMA SettleStep ==
  ASSUME IInv, IInv', NEW p \in Relays, Ack(p), NEW c, c = current[p]
  PROVE  /\ UNCHANGED traceVars
         /\ Ledger!Settle(c) \/ Ledger!GiveUp(c) \/ Told' = Told
<1>1. UNCHANGED traceVars /\ c \in Facts
  BY AckWrites DEF Ack
<1>2. CASE UNCHANGED rowVars
  BY <1>1, <1>2 DEF rowVars, Told, StateOf
<1>3. ASSUME status[c] = "claimed", NEW s \in {"delivered", "dead_letter"},
             status' = [status EXCEPT ![c] = s]
      PROVE  Told[c] = "open" /\ Told' = [Told EXCEPT ![c] = s]
  <2>1. Told[c] = "open"
    BY <1>1, <1>3 DEF Told, StateOf
  <2>2. \A e \in Facts : StateOf(e)' = IF e = c THEN s ELSE StateOf(e)
    BY <1>1, <1>3 DEF StateOf, IInv, TypeOK
  <2> QED
    BY <2>1, <2>2 DEF Told
<1>4. CASE status[c] = "claimed" /\ Answered(c) /\ status' = [status EXCEPT ![c] = "delivered"]
  <2>1. Told[c] = "open" /\ Told' = [Told EXCEPT ![c] = "delivered"]
    BY <1>3, <1>4
  <2> QED
    BY <1>1, <1>4, <2>1 DEF Ledger!Settle, Ledger!Reached, Answered, Reached, Told, traceVars
<1>5. CASE status[c] = "claimed" /\ status' = [status EXCEPT ![c] = "dead_letter"]
  <2>1. Told[c] = "open" /\ Told' = [Told EXCEPT ![c] = "dead_letter"]
    BY <1>3, <1>5
  <2> QED
    BY <1>1, <2>1 DEF Ledger!GiveUp, Told, traceVars
<1>6. CASE status[c] = "claimed" /\ status' = [status EXCEPT ![c] = "delayed"]
  <2>1. Told' = Told
    BY <1>1, <1>6, OpenStates DEF IInv, TypeOK
  <2> QED
    BY <1>1, <2>1
<1> QED
  BY <1>2, <1>4, <1>5, <1>6, AckWrites

LEMMA LedgerStep == IInv /\ IInv' /\ [Next]_vars => [Ledger!Next]_Ledger!ledger
<1> SUFFICES ASSUME IInv, IInv', [Next]_vars
             PROVE  Ledger!Next \/ (Told' = Told /\ UNCHANGED traceVars)
  BY DEF Ledger!ledger, Told, traceVars
<1>1. ASSUME NEW e \in Facts, Append(e) PROVE Ledger!Next
  BY <1>1, PublishStep DEF Ledger!Next
<1>2. ASSUME NEW e \in Facts, BackoffOver(e) PROVE Told' = Told /\ UNCHANGED traceVars
  BY <1>2, OpenStates DEF BackoffOver, IInv, TypeOK
<1>3. ASSUME NEW p \in Relays, Claim(p) PROVE Told' = Told /\ UNCHANGED traceVars
  <2>1. \A e \in Facts : \/ status'[e] = status[e]
                         \/ {status[e], status'[e]} \subseteq {"pending", "delayed", "claimed"}
    BY <1>3, ClaimTakes DEF IInv, TypeOK
  <2> QED
    BY <1>3, <2>1, OpenStates DEF Claim
<1>4. ASSUME NEW p \in Relays, Ack(p)
      PROVE  Ledger!Next \/ (Told' = Told /\ UNCHANGED traceVars)
  <2>1. PICK c : c = current[p]
    OBVIOUS
  <2>2. c \in Facts
    BY <1>4, <2>1, AckWrites
  <2> QED
    BY <1>4, <2>1, <2>2, SettleStep DEF Ledger!Next
<1>5. ASSUME NEW p \in Relays, NEW e \in Facts, Deliver(p, e)
      PROVE  Ledger!Next \/ (Told' = Told /\ UNCHANGED traceVars)
  BY <1>5, RecordStep DEF Ledger!Next
<1>6. CASE UNCHANGED <<status, traceVars>>
  BY <1>6 DEF Told, StateOf
<1>7. ASSUME NEW p \in Relays,
             \/ HeartbeatDue(p) \/ Start(p) \/ Stop(p) \/ ReleaseLease(p) \/ Crash(p) \/ AckRaises(p)
             \/ Quit(p) \/ NotDue(p) \/ Heartbeat(p)
      PROVE  UNCHANGED <<status, traceVars>>
  BY <1>7 DEF HeartbeatDue, Start, Stop, ReleaseLease, Crash, AckRaises, Quit, NotDue, Heartbeat, rowVars
<1>8. ASSUME NEW e \in Facts, LeaseLapses \/ ClaimAges(e) \/ UNCHANGED vars
      PROVE  UNCHANGED <<status, traceVars>>
  BY <1>8 DEF LeaseLapses, ClaimAges, vars, rowVars
<1>9. CASE LeaseLapses \/ UNCHANGED vars
  BY <1>6, <1>9 DEF LeaseLapses, vars, rowVars
<1> QED
  BY <1>1, <1>2, <1>3, <1>4, <1>5, <1>6, <1>7, <1>8, <1>9 DEF Next, Time, Loop

(* For any facts and relays, what crashes, takeovers and late
   acknowledgements do to the rows, the receipts and the watermarks is a
   behaviour of DeliveryLedger. *)
THEOREM OutboxImplementsLedger == Spec => ImplementsLedger
<1>1. Spec => [][Ledger!Next]_Ledger!ledger
  BY LedgerStep, OutboxInvariance, PTL DEF Spec
<1>2. Spec => Ledger!Init
  BY LedgerInit DEF Spec
<1> QED
  BY <1>1, <1>2, PTL DEF ImplementsLedger, Ledger!Spec
=============================================================================
