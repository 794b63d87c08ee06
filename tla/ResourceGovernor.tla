-------------------------- MODULE ResourceGovernor --------------------------
(***************************************************************************)
(* The admission controller of src/core/resource_governor.py.              *)
(*                                                                         *)
(* Every method of the class runs its body under one condition lock, so    *)
(* each is one action.  The exception is _drain_queue_locked, a loop run   *)
(* with the lock held by a release: its iterations are separate steps      *)
(* (variable drain), because the AdmissionResult objects it mutates are    *)
(* read by their callers without the lock.  While drain # "off" no other   *)
(* action that needs the lock is enabled.                                  *)
(*                                                                         *)
(* A request id is fresh (uuid4, or invocation id and attempt number), so  *)
(* it stands for the request, its queue entry, its shared AdmissionResult  *)
(* and its lease.  Time is abstract: Deadline(r) is the moment the wait    *)
(* of r exceeds its timeout.  Metrics, events and pressure levels are      *)
(* left out.                                                               *)
(***************************************************************************)
EXTENDS LeaseAmounts, Sequences

CONSTANTS
  Renewable,       \* the kinds whose capacity comes back on release
  Runs, NoRun,     \* run ids, and the empty run id
  RunOf,           \* the run id of a request
  Limit,           \* global capacity of a kind, 0 when unlimited
  RootLimit,       \* capacity per root session, 0 when unlimited
  QueueMax,        \* queue.max_size
  RunLimits,       \* arguments callers give set_limit_for_run
  Usages,          \* actual usage callers report at release
  Mode             \* "observe", "soft_enforce" or "enforce"

ASSUME ScopeAssumption ==
  /\ Renewable \subseteq Kinds
  /\ NoRun \notin Runs
  /\ RunOf \in [Requests -> Runs \cup {NoRun}]
ASSUME AmountAssumption ==
  /\ Limit \in [Kinds -> Nat]
  /\ RootLimit \in [Kinds -> Nat]
  /\ QueueMax \in Nat \ {0}
  /\ RunLimits \subseteq Nat
  /\ Usages \subseteq Nat
ASSUME ModeAssumption == Mode \in {"observe", "soft_enforce", "enforce"}

VARIABLES
  caller,        \* where the thread that submitted r is
  answer,        \* outcome admit_wait returned to it
  outcome,       \* outcome field of the AdmissionResult of r
  unset,         \* granted by a drain, lease field of the result not yet set
  queue,         \* _queue (and the keys of _queued_by_id)
  leases,        \* _leases
  reserved,      \* _reserved
  consumed,      \* _consumed
  rootReserved,  \* _root_reserved
  runLimit,      \* _run_limits, 0 when absent
  runReserved,   \* _run_reserved
  lastRoot,      \* _last_granted_root_id, a set of at most one root
  shuttingDown,  \* _shutting_down
  drain,         \* progress of the _drain_queue_locked in the lock
  cancelled,     \* requests whose cancel_token is set
  late           \* requests whose timeout has elapsed

callVars   == <<caller, answer>>
resultVars == <<outcome, queue>>
poolVars   == <<leases, reserved, rootReserved, runReserved, lastRoot>>
adminVars  == <<runLimit, shuttingDown>>
envVars    == <<cancelled, late>>
vars == <<callVars, resultVars, unset, poolVars, consumed, adminVars, drain, envVars>>

Outcomes == {"queued", "granted", "cancelled", "capacity_timeout",
             "impossible", "shutdown"}

NoAmount == [k \in Kinds |-> 0]

TypeOK ==
  /\ caller \in [Requests -> {"idle", "held", "looking", "waiting", "returned"}]
  /\ answer \in [Requests -> Outcomes \cup {"none"}]
  /\ outcome \in [Requests -> Outcomes \cup {"none"}]
  /\ unset \subseteq Requests
  /\ queue \in Seq(Requests)
  /\ leases \subseteq Requests
  /\ reserved \in [Kinds -> Nat]
  /\ consumed \in [Kinds -> Nat]
  /\ rootReserved \in [Roots -> [Kinds -> Nat]]
  /\ runLimit \in [Runs -> [Kinds -> Nat]]
  /\ runReserved \in [Runs -> [Kinds -> Nat]]
  /\ lastRoot \subseteq Roots
  /\ shuttingDown \in BOOLEAN
  /\ drain \in {"off", "purge", "grant"}
  /\ cancelled \subseteq Requests
  /\ late \subseteq Requests

Init ==
  /\ caller = [r \in Requests |-> "idle"]
  /\ answer = [r \in Requests |-> "none"]
  /\ outcome = [r \in Requests |-> "none"]
  /\ unset = {}
  /\ queue = <<>>
  /\ leases = {}
  /\ reserved = NoAmount
  /\ consumed = NoAmount
  /\ rootReserved = [t \in Roots |-> NoAmount]
  /\ runLimit = [t \in Runs |-> NoAmount]
  /\ runReserved = [t \in Runs |-> NoAmount]
  /\ lastRoot = {}
  /\ shuttingDown = FALSE
  /\ drain = "off"
  /\ cancelled = {}
  /\ late = {}

LockFree == drain = "off"

Enqueued == {queue[i] : i \in DOMAIN queue}

(* self._queue.remove(entry) *)
WithoutHead(q, r) == Tail(q)
Without(q, r) ==
  LET i == CHOOSE j \in DOMAIN q : q[j] = r
  IN  SubSeq(q, 1, i - 1) \o SubSeq(q, i + 1, Len(q))

-----------------------------------------------------------------------------
(* Admission decisions.                                                    *)

(* _check_impossible_locked *)
Impossible(r) ==
  \E k \in Kinds :
    \/ Limit[k] > 0 /\ Need[r][k] > Limit[k]
    \/ RootLimit[k] > 0 /\ Need[r][k] > RootLimit[k]

(* What _would_block_locked adds to the reservations of a kind. *)
Spent(k) == IF k \in Renewable THEN 0 ELSE consumed[k]

OverLimitWithoutNeed(r, k) == Limit[k] > 0 /\ Spent(k) + reserved[k] > Limit[k]
OverLimit(r, k) == Limit[k] > 0 /\ Spent(k) + reserved[k] + Need[r][k] > Limit[k]

OverRoot(r, k) ==
  RootLimit[k] > 0 /\ rootReserved[RootOf[r]][k] + Need[r][k] > RootLimit[k]

OverRun(r, k) ==
  /\ RunOf[r] # NoRun
  /\ runLimit[RunOf[r]][k] > 0
  /\ runReserved[RunOf[r]][k] + Need[r][k] > runLimit[RunOf[r]][k]

(* _would_block_locked; a request's resources are the kinds it needs. *)
WouldBlock(r) ==
  \E k \in Kinds :
    Need[r][k] > 0 /\ (OverLimit(r, k) \/ OverRoot(r, k) \/ OverRun(r, k))

(* The run has an entry in _run_limits. *)
LimitedNever(t) == FALSE
Limited(t) == \E k \in Kinds : runLimit[t][k] > 0

(* _grant_locked: a lease and the three accounts, the run's only when the
   run is limited at this moment. *)
GrantLocked(r) ==
  /\ leases' = leases \cup {r}
  /\ reserved' = [k \in Kinds |-> reserved[k] + Need[r][k]]
  /\ rootReserved' = [rootReserved EXCEPT
       ![RootOf[r]] = [k \in Kinds |-> @[k] + Need[r][k]]]
  /\ runReserved' = [t \in Runs |->
       IF t = RunOf[r] /\ Limited(t)
       THEN [k \in Kinds |-> runReserved[t][k] + Need[r][k]]
       ELSE runReserved[t]]
  /\ lastRoot' = {RootOf[r]}

(* Nothing is queued before r and r is not blocked. *)
Immediate(r) == queue = <<>> /\ ~WouldBlock(r)

(* The decision admit takes. *)
AdmitOutcome(r) ==
  CASE shuttingDown -> "shutdown"
    [] ~shuttingDown /\ Mode = "enforce" /\ Impossible(r) -> "impossible"
    [] ~shuttingDown /\ Mode = "enforce" /\ ~Impossible(r) /\ ~Immediate(r) ->
         IF Len(queue) >= QueueMax THEN "capacity_timeout" ELSE "queued"
    [] OTHER -> "granted"

(* admit *)
Admit(r) ==
  /\ LockFree
  /\ caller[r] = "idle"
  /\ outcome' = [outcome EXCEPT ![r] = AdmitOutcome(r)]
  /\ queue' = IF AdmitOutcome(r) = "queued" THEN Append(queue, r) ELSE queue
  /\ IF AdmitOutcome(r) = "granted" THEN GrantLocked(r) ELSE UNCHANGED poolVars
  /\ UNCHANGED <<unset, consumed, adminVars, drain, envVars>>

-----------------------------------------------------------------------------
(* Callers of admit keep the shared result object; callers of admit_wait
   first look their queue entry up, then poll it.                          *)

AdmitOnly(r) ==
  /\ Admit(r)
  /\ caller' = [caller EXCEPT ![r] = "held"]
  /\ UNCHANGED answer

AdmitWait(r) ==
  /\ Admit(r)
  /\ IF outcome'[r] = "queued"
     THEN caller' = [caller EXCEPT ![r] = "looking"] /\ UNCHANGED answer
     ELSE /\ caller' = [caller EXCEPT ![r] = "returned"]
          /\ answer' = [answer EXCEPT ![r] = outcome'[r]]

(* The caller of admit_wait returns with outcome o. *)
Return(r, o) ==
  /\ caller' = [caller EXCEPT ![r] = "returned"]
  /\ answer' = [answer EXCEPT ![r] = o]

(* _cancel_locked on a queued request. *)
CancelLocked(r, o) ==
  /\ queue' = Without(queue, r)
  /\ outcome' = [outcome EXCEPT ![r] = o]

(* The lookup in _queued_by_id that follows admit in admit_wait. *)
Look(r) ==
  /\ LockFree
  /\ caller[r] = "looking"
  /\ IF r \in Enqueued
     THEN caller' = [caller EXCEPT ![r] = "waiting"] /\ UNCHANGED answer
     ELSE Return(r, IF outcome[r] = "queued" THEN "cancelled" ELSE outcome[r])
  /\ UNCHANGED <<resultVars, unset, poolVars, consumed, adminVars, drain, envVars>>

(* One iteration of the wait loop that ends it: an outcome first, then the
   cancel token, then the deadline. *)
PollAnswered(r) ==
  /\ LockFree
  /\ caller[r] = "waiting"
  /\ outcome[r] # "queued"
  /\ Return(r, outcome[r])
  /\ UNCHANGED resultVars

PollCancelled(r) ==
  /\ LockFree
  /\ caller[r] = "waiting"
  /\ outcome[r] = "queued"
  /\ r \in cancelled
  /\ CancelLocked(r, "cancelled")
  /\ Return(r, "cancelled")

PollExpiredBlind(r) ==
  /\ LockFree
  /\ caller[r] = "waiting"
  /\ r \in late
  /\ IF r \in Enqueued THEN CancelLocked(r, "capacity_timeout") ELSE UNCHANGED resultVars
  /\ Return(r, "capacity_timeout")
PollExpired(r) ==
  /\ LockFree
  /\ caller[r] = "waiting"
  /\ outcome[r] = "queued"
  /\ r \notin cancelled
  /\ r \in late
  /\ CancelLocked(r, "capacity_timeout")
  /\ Return(r, "capacity_timeout")

PollWithoutDeadline(r) == PollAnswered(r) \/ PollCancelled(r)
PollEnds(r) == PollAnswered(r) \/ PollCancelled(r) \/ PollExpired(r)
Poll(r) ==
  /\ PollEnds(r)
  /\ UNCHANGED <<unset, poolVars, consumed, adminVars, drain, envVars>>

(* cancel_request: a no-op unless the request is queued. *)
CancelRequest(r) ==
  /\ LockFree
  /\ r \in Enqueued
  /\ CancelLocked(r, "cancelled")
  /\ UNCHANGED <<callVars, unset, poolVars, consumed, adminVars, drain, envVars>>

-----------------------------------------------------------------------------
(* Release and the drain it runs.                                          *)

LessStrictly(n, m) == IF n > m THEN n - m ELSE n
Less(n, m) == IF n >= m THEN n - m ELSE 0

(* _release_lease up to its call of _drain_queue_locked; a second release
   of a lease returns early.  used is the actual usage reported. *)
Release(r, used) ==
  /\ LockFree
  /\ r \in leases
  /\ leases' = leases \ {r}
  /\ reserved' = [k \in Kinds |-> Less(reserved[k], Need[r][k])]
  /\ rootReserved' = [rootReserved EXCEPT
       ![RootOf[r]] = [k \in Kinds |-> Less(@[k], Need[r][k])]]
  /\ runReserved' = [t \in Runs |->
       IF t = RunOf[r]
       THEN [k \in Kinds |-> Less(runReserved[t][k], Need[r][k])]
       ELSE runReserved[t]]
  /\ consumed' = [k \in Kinds |->
       IF Need[r][k] > 0 /\ k \notin Renewable THEN consumed[k] + used
       ELSE consumed[k]]
  /\ drain' = "purge"
  /\ UNCHANGED <<callVars, resultVars, unset, lastRoot, adminVars, envVars>>

(* Entries the purge pass removes. *)
Terminal == {r \in Enqueued : r \in cancelled \cup late}

(* The purge pass of an iteration, one entry at a time. *)
DrainPurge ==
  /\ drain = "purge"
  /\ \E r \in Terminal :
       CancelLocked(r, IF r \in cancelled THEN "cancelled" ELSE "capacity_timeout")
  /\ UNCHANGED <<callVars, unset, poolVars, consumed, adminVars, drain, envVars>>

DrainPurged ==
  /\ drain = "purge"
  /\ Terminal = {}
  /\ drain' = IF queue = <<>> THEN "off" ELSE "grant"
  /\ UNCHANGED <<callVars, resultVars, unset, poolVars, consumed, adminVars, envVars>>

GrantableAll == DOMAIN queue
Grantable == {i \in DOMAIN queue : ~WouldBlock(queue[i])}
OtherRoot == {i \in Grantable : RootOf[queue[i]] \notin lastRoot}

(* The queue index (other_root or grantable)[0]. *)
IsLast(i) == i \in Grantable /\ \A j \in Grantable : j <= i
IsNext(i) ==
  LET S == IF OtherRoot # {} THEN OtherRoot ELSE Grantable
  IN  i \in S /\ \A j \in S : i <= j

(* The rest of an iteration: the grant and the outcome field. *)
DrainGrant ==
  /\ drain = "grant"
  /\ unset = {}
  /\ \E i \in DOMAIN queue :
       /\ IsNext(i)
       /\ GrantLocked(queue[i])
       /\ CancelLocked(queue[i], "granted")
       /\ unset' = {queue[i]}
  /\ UNCHANGED <<callVars, consumed, adminVars, drain, envVars>>

(* entry.result.lease = lease, and the next turn of the loop. *)
DrainPublish ==
  /\ unset # {}
  /\ unset' = {}
  /\ drain' = IF queue = <<>> THEN "off" ELSE "purge"
  /\ UNCHANGED <<callVars, resultVars, poolVars, consumed, adminVars, envVars>>

DrainStop ==
  /\ drain = "grant"
  /\ unset = {}
  /\ Grantable = {}
  /\ drain' = "off"
  /\ UNCHANGED <<callVars, resultVars, unset, poolVars, consumed, adminVars, envVars>>

DrainStep == DrainPurge \/ DrainPurged \/ DrainGrant \/ DrainPublish \/ DrainStop

-----------------------------------------------------------------------------
(* Administration and environment.                                         *)

(* set_limit_for_run; a limit of 0 drops every limit of the run. *)
SetLimitForRun(t, k, n) ==
  /\ LockFree
  /\ runLimit' = [runLimit EXCEPT ![t] = IF n = 0 THEN NoAmount ELSE [@ EXCEPT ![k] = n]]
  /\ UNCHANGED <<callVars, resultVars, unset, poolVars, consumed, shuttingDown, drain, envVars>>

(* remove_limit_for_run *)
RemoveLimitForRun(t) ==
  /\ LockFree
  /\ runLimit' = [runLimit EXCEPT ![t] = NoAmount]
  /\ runReserved' = [runReserved EXCEPT ![t] = NoAmount]
  /\ UNCHANGED <<callVars, resultVars, unset, leases, reserved, rootReserved, lastRoot, consumed, shuttingDown, drain, envVars>>

(* The outcome shutdown leaves in the result of r. *)
ShutdownOutcome(r) == IF r \in Enqueued THEN "shutdown" ELSE outcome[r]

(* shutdown: every queued request is answered, leases stay with their
   holders. *)
Shutdown ==
  /\ LockFree
  /\ ~shuttingDown
  /\ shuttingDown' = TRUE
  /\ outcome' = [r \in Requests |-> ShutdownOutcome(r)]
  /\ queue' = <<>>
  /\ UNCHANGED <<callVars, unset, poolVars, consumed, runLimit, drain, envVars>>

(* The cancel token of r is set, by any thread and without the lock. *)
CancelToken(r) ==
  /\ r \notin cancelled
  /\ cancelled' = cancelled \cup {r}
  /\ UNCHANGED <<callVars, resultVars, unset, poolVars, consumed, adminVars, drain, late>>

(* The timeout of a queued request elapses. *)
Deadline(r) ==
  /\ outcome[r] = "queued"
  /\ r \notin late
  /\ late' = late \cup {r}
  /\ UNCHANGED <<callVars, resultVars, unset, poolVars, consumed, adminVars, drain, cancelled>>

Next ==
  \/ \E r \in Requests :
       \/ AdmitOnly(r) \/ AdmitWait(r) \/ Look(r) \/ Poll(r)
       \/ CancelRequest(r) \/ CancelToken(r) \/ Deadline(r)
       \/ \E used \in Usages : Release(r, used)
  \/ DrainStep
  \/ \E t \in Runs :
       \/ RemoveLimitForRun(t)
       \/ \E k \in Kinds, n \in RunLimits : SetLimitForRun(t, k, n)
  \/ Shutdown

Spec == Init /\ [][Next]_vars

-----------------------------------------------------------------------------
(* Properties.                                                             *)

(* Conservation: _reserved and _root_reserved, which are only ever adjusted,
   always equal what the live leases hold, whatever sequence of grants,
   drains and releases happened. *)
AccountsMatchLeases ==
  \A k \in Kinds :
    /\ reserved[k] = Usage(leases, k)
    /\ \A t \in Roots : rootReserved[t][k] = Usage(OfRoot(leases, t), k)

(* Capacity: in enforce mode the live leases, granted by admit or by a drain,
   never hold more than the global or the per-root limit of a kind. *)
CapacityRespected ==
  Mode = "enforce" =>
    \A k \in Kinds :
      /\ Limit[k] > 0 => Usage(leases, k) <= Limit[k]
      /\ RootLimit[k] > 0 =>
           \A t \in Roots : Usage(OfRoot(leases, t), k) <= RootLimit[k]

(* A request is QUEUED exactly while it is in the queue, once, and holds a
   lease only when GRANTED: no entry is lost by a drain, a cancel, a timeout
   or a shutdown, and none is answered while it can still be granted. *)
QueueMatchesOutcomes ==
  /\ Len(queue) <= QueueMax
  /\ \A i, j \in DOMAIN queue : queue[i] = queue[j] => i = j
  /\ \A r \in Requests : r \in Enqueued <=> outcome[r] = "queued"
  /\ \A r \in leases : outcome[r] = "granted"

(* admit_wait races its deadline and its cancel token with a drain that grants
   the request: a caller told anything but GRANTED never owns a live lease,
   which nobody would release. *)
NoLostLease ==
  \A r \in Requests : answer[r] \notin {"none", "granted"} => r \notin leases

(* What is left of "FIFO is still preserved within each root"
   (resource_governor.py:230).  The drain takes the first entry of its root
   that is not blocked (:725-739), so a smaller request may pass an earlier one
   that is, and may do so again and again; an earlier one that could be granted
   is never passed, by admit or by a drain. *)
OvertakesOnlyBlocked ==
  [][\A r \in leases' \ leases, q \in Enqueued \ leases' :
       (Mode = "enforce" /\ RootOf[r] = RootOf[q]) =>
         \/ WouldBlock(q)
         \/ \E i, j \in DOMAIN queue : queue[i] = r /\ queue[j] = q /\ i < j]_vars

(* What becomes of a request, as AdmissionPool sees it. *)
StatusOf(r) ==
  CASE outcome[r] = "none" -> "new"
    [] outcome[r] = "queued" -> "queued"
    [] outcome[r] = "granted" -> IF r \in leases THEN "granted" ELSE "released"
    [] OTHER -> "refused"

Pool == INSTANCE AdmissionPool
          WITH status <- [r \in Requests |-> StatusOf(r)],
               Enforced <- (Mode = "enforce")

(* The whole controller, with its queue, drains, timeouts, cancellations and
   shutdown, keeps the promise of AdmissionPool. *)
ImplementsPool == Pool!Spec
=============================================================================
