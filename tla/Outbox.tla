-------------------------------- MODULE Outbox --------------------------------
(***************************************************************************)
(* The durable event pipeline: the rows of event_outbox                    *)
(* (src/infrastructure/outbox/sqlite_store.py), the relays that deliver    *)
(* them (relay.py), the lease that elects one relay (owner_lease.py) and   *)
(* the trace projection (src/listeners/trace_projection.py).               *)
(*                                                                         *)
(* Every statement, or transaction, on the database is one step.  Clocks   *)
(* are abstracted to what they decide: a heartbeat falls due, a lease      *)
(* lapses, a claim grows old, a backoff is over.  A relay has the identity *)
(* (process id, worker id) of one process life; a restart is a new relay.  *)
(***************************************************************************)
EXTENDS Naturals, FiniteSets

CONSTANTS
  Facts,        \* the facts producers append, numbered as they occur
  AggregateOf,  \* their aggregates
  VersionOf,    \* and aggregate versions
  Foreign,      \* facts of a type the schema registry does not know
  Malformed,    \* facts whose decoding or dispatch raises
  Relays,       \* process lives that may run a relay
  Steady,       \* the relays that do not fail, for the liveness property
  NoRelay,      \* NULL
  MaxAttempts,  \* MAX_ATTEMPTS
  BatchLimit    \* the limit of claim_batch

ASSUME OutboxAssumption ==
  /\ Facts \subseteq Nat /\ IsFiniteSet(Facts)
  /\ VersionOf \in [Facts -> Nat \ {0}]
  /\ Foreign \subseteq Facts /\ Malformed \subseteq Facts \ Foreign
  /\ Steady \subseteq Relays /\ NoRelay \notin Relays
  /\ MaxAttempts \in Nat \ {0} /\ BatchLimit \in Nat \ {0}

Aggregates == {AggregateOf[e] : e \in Facts}
Earlier(e) == {f \in Facts : AggregateOf[f] = AggregateOf[e] /\ VersionOf[f] < VersionOf[e]}

VARIABLES
  status,     \* the status of a row; "delayed" is pending with a future available_at
  claimedBy,  \* claimed_by
  aged,       \* rows whose claim is older than the claim lease
  attempts,   \* attempts, counted up to MaxAttempts
  holder,     \* process_id of the lease row
  lapsed,     \* whether lease_expires_at is in the past
  pc, running, acquired,  \* each relay's thread, _running and OwnerLease._acquired
  due,        \* relays whose last heartbeat is older than the heartbeat interval
  batch,      \* the records a relay has claimed and not finished
  current, result,        \* the record being acknowledged and its outcome
  rows, watermark,        \* the trace: rows (receipts) of a fact, watermark of an aggregate
  late        \* history: <<f, e>> when f was appended while e, a later version, was under way

rowVars == <<status, claimedBy, aged, attempts>>
leaseVars == <<holder, lapsed>>
relayVars == <<pc, running, acquired, due, batch, current, result>>
traceVars == <<rows, watermark>>
vars == <<rowVars, leaseVars, relayVars, traceVars, late>>

UnderWay(e) == status[e] \in {"claimed", "delivered", "dead_letter"}

TypeOK ==
  /\ status \in [Facts -> {"absent", "pending", "delayed", "claimed", "delivered", "dead_letter"}]
  /\ claimedBy \in [Facts -> Relays \cup {NoRelay}]
  /\ aged \subseteq {e \in Facts : status[e] = "claimed"}
  /\ attempts \in [Facts -> 0 .. MaxAttempts]
  /\ holder \in Relays \cup {NoRelay} /\ lapsed \in BOOLEAN
  /\ pc \in [Relays -> {"new", "poll", "claim", "deliver", "ack", "ended"}]
  /\ running \in [Relays -> {"yes", "stopping", "no"}]
  /\ acquired \in [Relays -> BOOLEAN] /\ due \subseteq Relays
  /\ batch \in [Relays -> SUBSET Facts]
  /\ current \in [Relays -> Facts \cup {0}]
  /\ result \in [Relays -> {"none", "ok", "failed"}]
  /\ rows \in [Facts -> Nat] /\ watermark \in [Aggregates -> Nat]
  /\ late \subseteq Facts \X Facts
  /\ \A e \in Facts : claimedBy[e] = NoRelay <=> status[e] \in {"absent", "pending", "delayed"}
  /\ \A r \in Relays :
       /\ batch[r] # {} => pc[r] \in {"deliver", "ack"}
       /\ pc[r] = "ack" => current[r] \in batch[r]

Init ==
  /\ status = [e \in Facts |-> "absent"]
  /\ claimedBy = [e \in Facts |-> NoRelay]
  /\ aged = {}
  /\ attempts = [e \in Facts |-> 0]
  /\ holder = NoRelay /\ lapsed = TRUE
  /\ pc = [r \in Relays |-> "new"]
  /\ running = [r \in Relays |-> "no"]
  /\ acquired = [r \in Relays |-> FALSE]
  /\ due = {}
  /\ batch = [r \in Relays |-> {}]
  /\ current = [r \in Relays |-> 0]
  /\ result = [r \in Relays |-> "none"]
  /\ rows = [e \in Facts |-> 0]
  /\ watermark = [a \in Aggregates |-> 0]
  /\ late = {}

(* What is no longer under way may be claimed again, behind what came late. *)
KeepLate == late' = {p \in late : UnderWay(p[2])'}

Goto(r, l) == pc' = [pc EXCEPT ![r] = l]
Forget(r) ==
  /\ current' = [current EXCEPT ![r] = 0]
  /\ result' = [result EXCEPT ![r] = "none"]

-----------------------------------------------------------------------------
(* The producers.                                                          *)

(* The first fact of an aggregate: run.submitted, in the unit of work that
   creates the run. *)
Opening(e) ==
  {f \in Facts : AggregateOf[f] = AggregateOf[e]
                 /\ \A g \in Facts : AggregateOf[g] = AggregateOf[e] => f <= g}

(* append, in a unit of work that commits.  Whoever ends a run names a version
   of its own, so versions come in any order and may be equal. *)
Append(e) ==
  /\ status[e] = "absent"
  /\ \A f \in Opening(e) : f = e \/ status[f] # "absent"
  /\ status' = [status EXCEPT ![e] = "pending"]
  /\ late' = late \cup {<<e, g>> : g \in {h \in Facts : e \in Earlier(h) /\ UnderWay(h)}}
  /\ UNCHANGED <<claimedBy, aged, attempts, leaseVars, relayVars, traceVars>>

-----------------------------------------------------------------------------
(* The passing of time.                                                    *)

BackoffOver(e) ==
  /\ status[e] = "delayed"
  /\ status' = [status EXCEPT ![e] = "pending"]
  /\ UNCHANGED <<claimedBy, aged, attempts, leaseVars, relayVars, traceVars, late>>

HeartbeatDue(r) ==
  /\ pc[r] \notin {"new", "ended"} /\ r \notin due
  /\ due' = due \cup {r}
  /\ UNCHANGED <<rowVars, leaseVars, pc, running, acquired, batch, current, result, traceVars, late>>

(* A lease outlives its last heartbeat by LEASE_TIMEOUT_S, three times the
   heartbeat interval.  A steady relay finishes its batches in time. *)
LeaseLapses ==
  /\ ~lapsed
  /\ holder \in {r \in Relays : pc[r] = "ended"} \cup (due \ Steady)
  /\ lapsed' = TRUE
  /\ UNCHANGED <<rowVars, holder, relayVars, traceVars, late>>

(* The claim lease is as long as the owner lease and starts after the
   heartbeat: a claim is not old while the lease of its relay is good. *)
ClaimAges(e) ==
  /\ status[e] = "claimed" /\ e \notin aged
  /\ claimedBy[e] = holder => lapsed
  /\ aged' = aged \cup {e}
  /\ UNCHANGED <<status, claimedBy, attempts, leaseVars, relayVars, traceVars, late>>

-----------------------------------------------------------------------------
(* The life of a relay.                                                    *)

(* acquire_lease and start; while another relay's lease is good the conflict
   is raised and nothing changes. *)
Start(r) ==
  /\ pc[r] = "new"
  /\ lapsed
  /\ holder' = r /\ lapsed' = FALSE
  /\ acquired' = [acquired EXCEPT ![r] = TRUE]
  /\ running' = [running EXCEPT ![r] = "yes"]
  /\ Goto(r, "poll")
  /\ UNCHANGED <<rowVars, due, batch, current, result, traceVars, late>>

(* stop: the flag, then a join that may time out, then the release. *)
Stop(r) ==
  /\ running[r] = "yes" /\ r \notin Steady
  /\ running' = [running EXCEPT ![r] = "stopping"]
  /\ UNCHANGED <<rowVars, leaseVars, pc, acquired, due, batch, current, result, traceVars, late>>

ReleaseLease(r) ==
  /\ running[r] = "stopping"
  /\ running' = [running EXCEPT ![r] = "no"]
  /\ acquired' = [acquired EXCEPT ![r] = FALSE]
  /\ lapsed' = (lapsed \/ (acquired[r] /\ holder = r))
  /\ UNCHANGED <<rowVars, holder, pc, due, batch, current, result, traceVars, late>>

(* The process dies, or its thread ends on an exception of the store that
   nothing catches, or on a heartbeat that raised. *)
Crash(r) ==
  /\ pc[r] \notin {"new", "ended"} /\ r \notin Steady
  /\ Goto(r, "ended")
  /\ running' = [running EXCEPT ![r] = "no"]
  /\ acquired' = [acquired EXCEPT ![r] = FALSE]
  /\ batch' = [batch EXCEPT ![r] = {}]
  /\ Forget(r)
  /\ due' = due \ {r}
  /\ UNCHANGED <<rowVars, leaseVars, traceVars, late>>

-----------------------------------------------------------------------------
(* _run, step by step.                                                     *)

Quit(r) ==
  /\ pc[r] = "poll" /\ running[r] # "yes"
  /\ Goto(r, "ended")
  /\ due' = due \ {r}
  /\ UNCHANGED <<rowVars, leaseVars, running, acquired, batch, current, result, traceVars, late>>

NotDue(r) ==
  /\ pc[r] = "poll" /\ running[r] = "yes" /\ r \notin due
  /\ Goto(r, "claim")
  /\ UNCHANGED <<rowVars, leaseVars, running, acquired, due, batch, current, result, traceVars, late>>

(* heartbeat refreshes the row of this process, lapsed or not. *)
Heartbeat(r) ==
  /\ pc[r] = "poll" /\ running[r] = "yes" /\ r \in due
  /\ IF acquired[r] /\ holder = r
       THEN /\ lapsed' = FALSE
            /\ Goto(r, "claim")
            /\ UNCHANGED <<running, acquired>>
       ELSE /\ acquired' = [acquired EXCEPT ![r] = FALSE]
            /\ running' = [running EXCEPT ![r] = "no"]
            /\ Goto(r, "ended")
            /\ UNCHANGED lapsed
  /\ due' = due \ {r}
  /\ UNCHANGED <<rowVars, holder, batch, current, result, traceVars, late>>

(* claim_batch, one transaction: old claims are released, then the first rows
   that are available and not behind an earlier version are claimed. *)
ExpiredNever == {}
Expired == aged

BehindPending(e) == \E f \in Earlier(e) : status[f] \in {"pending", "delayed"}
Behind(e) == \E f \in Earlier(e) : status[f] \notin {"absent", "delivered"}

Claimable == {e \in Facts : (status[e] = "pending" \/ e \in Expired) /\ ~Behind(e)}
FirstOf(S) == {e \in S : Cardinality({f \in S : f < e}) < BatchLimit}

Claim(r) ==
  /\ pc[r] = "claim"
  /\ LET taken == FirstOf(Claimable)
         freed == Expired \ taken
     IN /\ status' = [e \in Facts |-> CASE e \in taken -> "claimed"
                                        [] e \in freed -> "pending"
                                        [] OTHER -> status[e]]
        /\ claimedBy' = [e \in Facts |-> CASE e \in taken -> r
                                           [] e \in freed -> NoRelay
                                           [] OTHER -> claimedBy[e]]
        /\ aged' = aged \ Expired
        /\ KeepLate
        /\ batch' = [batch EXCEPT ![r] = taken]
        /\ Goto(r, IF taken = {} THEN "poll" ELSE "deliver")
  /\ UNCHANGED <<attempts, leaseVars, running, acquired, due, current, result, traceVars>>

(* on_event: receipt, row and watermark in one transaction, unless the fact
   has a receipt or the watermark has passed it. *)
SeenNever(e) == FALSE
Seen(e) == rows[e] > 0 \/ VersionOf[e] <= watermark[AggregateOf[e]]

RecordInTrace(e) ==
  IF Seen(e)
    THEN UNCHANGED traceVars
    ELSE /\ rows' = [rows EXCEPT ![e] = @ + 1]
         /\ watermark' = [watermark EXCEPT ![AggregateOf[e]] = VersionOf[e]]

(* _deliver.  The transaction of the trace commits, or is rolled back and the
   delivery fails.  What cannot be decoded, or cannot be dispatched, raises.
   For a type nobody knows the decoder returns an object that no projection is
   registered for: delivered, with no receipts. *)
Deliver(r, e) ==
  /\ pc[r] = "deliver" /\ e \in batch[r]
  /\ \/ /\ e \notin Foreign \cup Malformed
        /\ RecordInTrace(e)
        /\ result' = [result EXCEPT ![r] = "ok"]
     \/ /\ e \in Foreign
        /\ result' = [result EXCEPT ![r] = "ok"]
        /\ UNCHANGED traceVars
     \/ /\ e \notin Foreign
        /\ result' = [result EXCEPT ![r] = "failed"]
        /\ UNCHANGED traceVars
  /\ current' = [current EXCEPT ![r] = e]
  /\ Goto(r, "ack")
  /\ UNCHANGED <<rowVars, leaseVars, running, acquired, due, batch, late>>

(* The statements that acknowledge touch only a row this worker has claimed. *)
OwnsAny(r, e) == TRUE
Owns(r, e) == claimedBy[e] = r

LastAttempt(e) == attempts[e] + 1 >= MaxAttempts

MarkDelivered(r, e) ==
  IF Owns(r, e)
    THEN /\ status' = [status EXCEPT ![e] = "delivered"]
         /\ aged' = aged \ {e}
         /\ UNCHANGED <<claimedBy, attempts>>
    ELSE UNCHANGED rowVars

CountAttempt(e) ==
  attempts' = [attempts EXCEPT ![e] = IF LastAttempt(e) THEN MaxAttempts ELSE @ + 1]

Reschedule(r, e) ==
  IF Owns(r, e)
    THEN /\ status' = [status EXCEPT ![e] = "delayed"]
         /\ claimedBy' = [claimedBy EXCEPT ![e] = NoRelay]
         /\ aged' = aged \ {e}
         /\ CountAttempt(e)
    ELSE UNCHANGED rowVars

DeadLetter(r, e) ==
  IF Owns(r, e)
    THEN /\ status' = [status EXCEPT ![e] = "dead_letter"]
         /\ aged' = aged \ {e}
         /\ CountAttempt(e)
         /\ UNCHANGED claimedBy
    ELSE UNCHANGED rowVars

(* The outcome decides what is written; whether a row was touched is not
   looked at. *)
Acknowledge(r, e) ==
  \/ result[r] = "ok" /\ MarkDelivered(r, e)
  \/ result[r] = "failed" /\ LastAttempt(e) /\ DeadLetter(r, e)
  \/ result[r] = "failed" /\ ~LastAttempt(e) /\ Reschedule(r, e)

Ack(r) ==
  /\ pc[r] = "ack"
  /\ Acknowledge(r, current[r])
  /\ batch' = [batch EXCEPT ![r] = @ \ {current[r]}]
  /\ Goto(r, IF batch[r] = {current[r]} THEN "poll" ELSE "deliver")
  /\ Forget(r)
  /\ KeepLate
  /\ UNCHANGED <<leaseVars, running, acquired, due, traceVars>>

(* The store raises inside the try block: the handler treats the record as
   failed, delivered or not. *)
AckRaises(r) ==
  /\ pc[r] = "ack" /\ result[r] = "ok"
  /\ result' = [result EXCEPT ![r] = "failed"]
  /\ UNCHANGED <<rowVars, leaseVars, pc, running, acquired, due, batch, current, traceVars, late>>

Loop(r) ==
  \/ Quit(r) \/ NotDue(r) \/ Heartbeat(r) \/ Claim(r) \/ Ack(r)
  \/ \E e \in Facts : Deliver(r, e)

Time == LeaseLapses \/ \E e \in Facts : BackoffOver(e) \/ ClaimAges(e)

Next ==
  \/ \E e \in Facts : Append(e)
  \/ Time
  \/ \E r \in Relays :
       Start(r) \/ Stop(r) \/ ReleaseLease(r) \/ Crash(r) \/ HeartbeatDue(r) \/ AckRaises(r) \/ Loop(r)

Spec == Init /\ [][Next]_vars

(* Threads are scheduled and time passes; the steady relays are started again
   until they get the lease, as an operator does.  No producer, failure or
   stop is assumed to happen. *)
Fairness ==
  /\ \A r \in Relays : WF_vars(Loop(r))
  /\ \A r \in Steady : WF_vars(Start(r))
  /\ WF_vars(LeaseLapses)
  /\ \A e \in Facts : WF_vars(BackoffOver(e) \/ ClaimAges(e))

FairSpec == Spec /\ Fairness

-----------------------------------------------------------------------------
(* Properties.                                                             *)

(* Aggregate ordering, "does NOT claim event at version N+1 if version N of the
   same aggregate is still pending" (sqlite_store.py:169): what is claimed, by
   any relay, or settled has every earlier version of its aggregate delivered,
   whatever claims expired, were taken over or were acknowledged late in
   between.  Producers do not append in the order of versions: one that comes
   when a later one is under way (late), as run.cancelled does with version 1,
   is too late for this. *)
AggregateOrder ==
  \A e \in Facts : UnderWay(e) =>
    \A f \in Earlier(e) : status[f] \in {"absent", "delivered"} \/ <<f, e>> \in late

(* The acknowledgement of a relay that lost its claim changes nothing: a claim
   that is not old ends only by the relay that has it. *)
ClaimsRespected ==
  [][\A e \in Facts, r \in Relays :
       status[e] = "claimed" /\ claimedBy[e] = r /\ e \notin aged =>
         \/ status'[e] = "claimed" /\ claimedBy'[e] = r
         \/ pc[r] = "ack" /\ current[r] = e /\ pc'[r] # "ack"]_vars

(* What became of a fact, as DeliveryLedger sees it. *)
StateOf(e) ==
  CASE status[e] = "absent" -> "absent"
    [] status[e] \in {"delivered", "dead_letter"} -> status[e]
    [] OTHER -> "open"

Ledger == INSTANCE DeliveryLedger WITH state <- [e \in Facts |-> StateOf(e)]

(* The pipeline keeps the promise of DeliveryLedger through crashes, takeovers,
   expired claims, double deliveries and late acknowledgements: no second row,
   no row behind the watermark, nothing reopened, and nothing acknowledged that
   the trace has not reached, but for the types it does not know
   (projection_runner.py:110). *)
ImplementsLedger == Ledger!Spec

(* At least once: whatever is appended, malformed or late, is in the end
   delivered or given up, or waits behind one that was given up.  Nothing that
   is settled is reopened, so it is enough that this holds again and again. *)
Settled(e) ==
  \/ status[e] \in {"delivered", "dead_letter"}
  \/ \E f \in Earlier(e) : status[f] = "dead_letter"
FactsSettled == []<>(\A e \in Facts : status[e] # "absent" => Settled(e))
=============================================================================
