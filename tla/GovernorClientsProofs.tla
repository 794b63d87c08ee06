------------------------ MODULE GovernorClientsProofs ------------------------
(***************************************************************************)
(* The callers of the governor, for any number of them and any amounts and *)
(* limits.  They use the governor as its specification allows, so that its *)
(* invariant holds for them too; theirs adds where the thread of a request *)
(* is while the governor decides about it, and that a serial run has its   *)
(* limit before it has a request.                                          *)
(***************************************************************************)
EXTENDS GovernorClients, ResourceGovernorProofs

OfRun(S, t) == {r \in S : RunOf[r] = t}
SerialRuns == {RunOf[r] : r \in SerialReqs}

Places == {"start", "limited", "check", "withdraw", "take", "wait",
           "setup", "unleased", "executing"} \cup Terminated
SerialPlaces == {"limited", "check", "withdraw", "take", "unleased"}

(* What the thread of r may still believe, and what the governor holds for it:
   a caller that was granted owns a lease until it releases it itself, and one
   that waits inside the governor and is refused owns nothing. *)
Kept(r) ==
  /\ caller[r] # "idle" => pc[r] \notin {"start", "limited"} /\ outcome[r] # "none"
  /\ outcome[r] = "granted" /\ pc[r] \notin Terminated => r \in leases
  /\ pc[r] \in {"take", "setup", "unleased", "executing"} => outcome[r] = "granted"
  /\ r \notin SerialReqs =>
       /\ pc[r] \notin SerialPlaces
       /\ caller[r] = "returned" => answer[r] # "none"
       /\ pc[r] \in {"refused", "done"} => r \notin leases /\ outcome[r] # "queued"

(* The limit comes first. *)
LimitFirst == \A r \in SerialReqs : pc[r] # "start" => runLimit[RunOf[r]][WorkerKind] = 1

RunAccounts ==
  /\ \A t \in SerialRuns, k \in Kinds : runReserved[t][k] = Usage(OfRun(leases, t), k)
  /\ Mode = "enforce" => \A t \in SerialRuns : runReserved[t][WorkerKind] <= 1

ClientInv ==
  /\ IInv
  /\ pc \in [Requests -> Places]
  /\ \A r \in Requests : Kept(r)
  /\ LimitFirst
  /\ RunAccounts

-----------------------------------------------------------------------------
(* The callers and the governor.                                           *)

LEMMA StepIsGovernors == ClientNext => [Next]_vars
<1> SUFFICES ASSUME ClientNext PROVE [Next]_vars
  OBVIOUS
<1>1. ASSUME Environment PROVE [Next]_vars
  BY <1>1 DEF Environment, Next
<1>2. ASSUME NEW r \in Requests, ClientStep(r) PROVE [Next]_vars
  <2>1. CASE SerialLimit(r)
    <3>1. RunOf[r] \in Runs /\ WorkerKind \in Kinds /\ 1 \in RunLimits
      BY <2>1, ClientAssumption DEF SerialLimit
    <3> QED
      BY <2>1, <3>1 DEF SerialLimit, Next
  <2>2. CASE SerialAdmit(r)
    BY <2>2 DEF SerialAdmit, Next
  <2>3. CASE SerialWithdraw(r)
    BY <2>3 DEF SerialWithdraw, Next
  <2>4. CASE WaitAdmit(r)
    BY <2>4 DEF WaitAdmit, Next
  <2>5. CASE WaitInside(r)
    BY <2>5 DEF WaitInside, Next
  <2>6. CASE SetupFails(r) \/ Finish(r)
    BY <2>6, ClientAssumption DEF SetupFails, Finish, Next
  <2>7. CASE \/ SerialCheck(r) \/ SerialTake(r) \/ Unleased(r) \/ WaitReturn(r)
             \/ DiskCheckFails(r) \/ LaunchFails(r) \/ SetupDone(r)
    BY <2>7 DEF SerialCheck, SerialTake, Unleased, WaitReturn, DiskCheckFails, LaunchFails, SetupDone
  <2> QED
    BY <1>2, <2>1, <2>2, <2>3, <2>4, <2>5, <2>6, <2>7 DEF ClientStep
<1> QED
  BY <1>1, <1>2 DEF ClientNext

(* The clients keep the rules of ResourceGovernor, which lets any client do
   what it likes between its calls. *)
THEOREM ClientsKeepTheRules == ClientSpec => GovernorSpec
<1>1. ClientInit => Init
  BY DEF ClientInit
<1>2. [ClientNext]_clientVarsAll => [Next]_vars
  BY StepIsGovernors DEF clientVarsAll
<1> QED
  BY <1>1, <1>2, PTL DEF ClientSpec, GovernorSpec, Spec

-----------------------------------------------------------------------------
(* The account of a run.                                                   *)

LEMMA RunGrant ==
  ASSUME IInv, RunAccounts, NEW r \in Requests, r \notin leases, GrantLocked(r),
         Mode = "enforce" => ~WouldBlock(r),
         r \in SerialReqs => runLimit[RunOf[r]][WorkerKind] = 1
  PROVE  RunAccounts'
<1>1. /\ leases' = leases \cup {r} /\ leases \subseteq Requests
      /\ WorkerKind \in Kinds /\ \A k \in Kinds : Need[r][k] \in Nat
  BY NeedAssumption, ClientAssumption DEF GrantLocked, IInv, TypeOK
<1>2. \A t \in SerialRuns : t \in Runs /\ \A k \in Kinds : runReserved[t][k] \in Nat
  BY ClientAssumption DEF SerialRuns, IInv, TypeOK
<1>3. ASSUME NEW t \in SerialRuns PROVE t = RunOf[r] => r \in SerialReqs
  BY ClientAssumption DEF SerialRuns
<1>4. ASSUME NEW t \in SerialRuns, t # RunOf[r]
      PROVE  runReserved'[t] = runReserved[t] /\ OfRun(leases', t) = OfRun(leases, t)
  BY <1>1, <1>2, <1>4 DEF GrantLocked, OfRun
<1>5. ASSUME NEW t \in SerialRuns, t = RunOf[r]
      PROVE  /\ runLimit[t][WorkerKind] = 1
             /\ \A k \in Kinds : /\ runReserved'[t][k] = runReserved[t][k] + Need[r][k]
                                 /\ Usage(OfRun(leases', t), k) = Usage(OfRun(leases, t), k) + Need[r][k]
  <2>1. runLimit[t][WorkerKind] = 1
    BY <1>3, <1>5
  <2>2. Limited(t)
    BY <1>1, <2>1 DEF Limited
  <2>3. runReserved'[t] = [k \in Kinds |-> runReserved[t][k] + Need[r][k]]
    BY <1>2, <1>5, <2>2 DEF GrantLocked
  <2>4. OfRun(leases', t) = OfRun(leases, t) \cup {r}
    BY <1>1, <1>5 DEF OfRun
  <2>5. OfRun(leases, t) \in SUBSET Requests /\ r \notin OfRun(leases, t)
    BY <1>1 DEF OfRun
  <2>6. ASSUME NEW k \in Kinds
        PROVE  Usage(OfRun(leases, t) \cup {r}, k) = Usage(OfRun(leases, t), k) + Need[r][k]
    BY <2>5, UsageAdd
  <2> QED
    BY <2>1, <2>3, <2>4, <2>6
<1>6. ASSUME NEW t \in SerialRuns, NEW k \in Kinds
      PROVE  runReserved'[t][k] = Usage(OfRun(leases', t), k)
  BY <1>4, <1>5 DEF RunAccounts
<1>7. ASSUME Mode = "enforce", NEW t \in SerialRuns PROVE runReserved'[t][WorkerKind] <= 1
  <2>1. CASE t # RunOf[r]
    BY <1>4, <1>7, <2>1 DEF RunAccounts
  <2>2. CASE t = RunOf[r]
    <3>1. runLimit[t][WorkerKind] = 1 /\ runReserved'[t][WorkerKind] = runReserved[t][WorkerKind] + Need[r][WorkerKind]
      BY <1>1, <1>5, <2>2
    <3>2. Need[r][WorkerKind] > 0 => ~OverRun(r, WorkerKind)
      BY <1>1, <1>7 DEF WouldBlock
    <3>3. t # NoRun
      BY <1>2, ScopeAssumption
    <3>4. Need[r][WorkerKind] > 0 => ~(runReserved[t][WorkerKind] + Need[r][WorkerKind] > 1)
      BY <2>2, <3>1, <3>2, <3>3 DEF OverRun
    <3>5. runReserved[t][WorkerKind] \in Nat /\ runReserved[t][WorkerKind] <= 1 /\ Need[r][WorkerKind] \in Nat
      BY <1>1, <1>2, <1>7 DEF RunAccounts
    <3> QED
      BY <3>1, <3>4, <3>5
  <2> QED
    BY <2>1, <2>2
<1> QED
  BY <1>6, <1>7 DEF RunAccounts

LEMMA RunRelease ==
  ASSUME IInv, RunAccounts, NEW r \in Requests, Release(r, 0)
  PROVE  RunAccounts'
<1>1. /\ leases' = leases \ {r} /\ r \in leases /\ leases \subseteq Requests
      /\ WorkerKind \in Kinds /\ \A k \in Kinds : Need[r][k] \in Nat
  BY NeedAssumption, ClientAssumption DEF Release, IInv, TypeOK
<1>2. \A t \in SerialRuns : t \in Runs /\ \A k \in Kinds : runReserved[t][k] \in Nat
  BY ClientAssumption DEF SerialRuns, IInv, TypeOK
<1>3. ASSUME NEW t \in SerialRuns, t # RunOf[r]
      PROVE  runReserved'[t] = runReserved[t] /\ OfRun(leases', t) = OfRun(leases, t)
  BY <1>1, <1>2, <1>3 DEF Release, OfRun
<1>4. ASSUME NEW t \in SerialRuns, t = RunOf[r], NEW k \in Kinds
      PROVE  /\ runReserved'[t][k] = Usage(OfRun(leases', t), k)
             /\ runReserved'[t][k] <= runReserved[t][k]
  <2>1. runReserved'[t][k] = Less(runReserved[t][k], Need[r][k])
    BY <1>2, <1>4 DEF Release
  <2>2. OfRun(leases', t) = OfRun(leases, t) \ {r} /\ r \in OfRun(leases, t)
    BY <1>1, <1>4 DEF OfRun
  <2>3. OfRun(leases, t) \in SUBSET Requests
    BY <1>1 DEF OfRun
  <2>4. Usage(OfRun(leases, t), k) = Usage(OfRun(leases', t), k) + Need[r][k]
    BY <2>2, <2>3, UsageRemove
  <2>5. Usage(OfRun(leases', t), k) \in Nat
    BY <2>2, <2>3, UsageType
  <2>6. runReserved[t][k] = Usage(OfRun(leases, t), k)
    BY DEF RunAccounts
  <2> QED
    BY <1>1, <2>1, <2>4, <2>5, <2>6 DEF Less
<1>5. ASSUME NEW t \in SerialRuns, NEW k \in Kinds
      PROVE  runReserved'[t][k] = Usage(OfRun(leases', t), k)
  BY <1>3, <1>4 DEF RunAccounts
<1>6. ASSUME Mode = "enforce", NEW t \in SerialRuns PROVE runReserved'[t][WorkerKind] <= 1
  <2>1. runReserved'[t][WorkerKind] \in Nat
    <3>1. OfRun(leases', t) \in SUBSET Requests
      BY <1>1 DEF OfRun
    <3> QED
      BY <1>1, <1>5, <3>1, UsageType
  <2>2. runReserved'[t][WorkerKind] <= runReserved[t][WorkerKind]
    BY <1>1, <1>2, <1>3, <1>4
  <2> QED
    BY <1>1, <1>2, <1>6, <2>1, <2>2 DEF RunAccounts
<1> QED
  BY <1>5, <1>6 DEF RunAccounts

LEMMA RunStill ==
  ASSUME RunAccounts, UNCHANGED <<leases, runReserved>>
  PROVE  RunAccounts'
BY DEF RunAccounts

-----------------------------------------------------------------------------
(* What a step of the governor does to a request whose thread stands still: its
   outcome and its lease stay, or it leaves the queue, granted with a lease. *)

Decided(q) ==
  \/ outcome'[q] = outcome[q] /\ (q \in leases' <=> q \in leases)
  \/ outcome[q] = "queued" /\ outcome'[q] \in Outcomes \ {"queued"} /\ (outcome'[q] = "granted" => q \in leases')

LEMMA StandsStill ==
  ASSUME NEW q \in Requests, Kept(q), Decided(q),
         pc'[q] = pc[q], caller'[q] = caller[q], answer'[q] = answer[q]
  PROVE  Kept(q)'
BY DEF Kept, Decided, Outcomes

LEMMA LimitsStill ==
  ASSUME LimitFirst, UNCHANGED runLimit, NEW r \in Requests,
         \A q \in Requests \ {r} : pc'[q] = pc[q],
         r \in SerialReqs => pc[r] # "start" \/ pc'[r] = "start"
  PROVE  LimitFirst'
BY DEF LimitFirst, SerialReqs

(* One request is answered, or cancelled, without a lease. *)
LEMMA CancelDecides ==
  ASSUME IInv, NEW r \in Enqueued, NEW o \in {"cancelled", "capacity_timeout"},
         CancelLocked(r, o), leases' = leases
  PROVE  \A q \in Requests : Decided(q)
<1>1. r \in Requests /\ outcome[r] = "queued" /\ outcome \in [Requests -> Outcomes \cup {"none"}]
  BY DEF Enqueued, IInv, TypeOK, QueueMatchesOutcomes
<1>2. outcome' = [outcome EXCEPT ![r] = o]
  BY DEF CancelLocked
<1> QED
  BY <1>1, <1>2 DEF Decided, Outcomes

LEMMA DrainDecides ==
  ASSUME ClientInv, DrainStep
  PROVE  /\ \A q \in Requests : Decided(q)
         /\ RunAccounts'
         /\ UNCHANGED <<callVars, runLimit>>
<1>1. UNCHANGED <<callVars, runLimit>>
  BY DEF DrainStep, DrainPurge, DrainPurged, DrainGrant, DrainPublish, DrainStop, adminVars
<1>2. CASE DrainPurge
  <2>1. PICK r \in Terminal :
          CancelLocked(r, IF r \in cancelled THEN "cancelled" ELSE "capacity_timeout")
    BY <1>2 DEF DrainPurge
  <2>2. r \in Enqueued /\ UNCHANGED <<leases, runReserved>>
    BY <1>2 DEF Terminal, DrainPurge, poolVars
  <2>3. \A q \in Requests : Decided(q)
    BY <2>1, <2>2, CancelDecides DEF ClientInv
  <2> QED
    BY <1>1, <2>2, <2>3, RunStill DEF ClientInv
<1>3. CASE DrainGrant
  <2>1. PICK i \in DOMAIN queue :
          IsNext(i) /\ GrantLocked(queue[i]) /\ CancelLocked(queue[i], "granted")
    BY <1>3 DEF DrainGrant
  <2> DEFINE r == queue[i]
  <2>2. r \in Enqueued /\ r \in Requests /\ ~WouldBlock(r)
    BY <2>1 DEF Enqueued, IsNext, OtherRoot, Grantable, ClientInv, IInv, TypeOK
  <2> HIDE DEF r
  <2>3. /\ outcome[r] = "queued" /\ r \notin leases
        /\ outcome \in [Requests -> Outcomes \cup {"none"}]
    BY <2>2 DEF ClientInv, IInv, TypeOK, QueueMatchesOutcomes
  <2>4. outcome' = [outcome EXCEPT ![r] = "granted"] /\ leases' = leases \cup {r} /\ GrantLocked(r)
    BY <2>1 DEF CancelLocked, GrantLocked, r
  <2>5. \A q \in Requests : Decided(q)
    BY <2>3, <2>4 DEF Decided, Outcomes
  <2>6. r \in SerialReqs => runLimit[RunOf[r]][WorkerKind] = 1
    <3>1. caller[r] # "idle"
      BY <2>2, <2>3 DEF ClientInv, IInv, AnswersSettled
    <3> QED
      BY <2>2, <3>1 DEF ClientInv, Kept, LimitFirst
  <2>7. RunAccounts'
    BY <2>2, <2>3, <2>4, <2>6, RunGrant DEF ClientInv
  <2> QED
    BY <1>1, <2>5, <2>7
<1>4. CASE DrainPurged \/ DrainPublish \/ DrainStop
  <2>1. UNCHANGED <<outcome, leases, runReserved>>
    BY <1>4 DEF DrainPurged, DrainPublish, DrainStop, resultVars, poolVars
  <2> QED
    BY <1>1, <2>1, RunStill DEF ClientInv, Decided
<1> QED
  BY <1>2, <1>3, <1>4 DEF DrainStep

(* admit, whoever calls it. *)
LEMMA AdmitDecides ==
  ASSUME ClientInv, NEW r \in Requests, Admit(r),
         r \in SerialReqs => runLimit[RunOf[r]][WorkerKind] = 1
  PROVE  /\ \A q \in Requests \ {r} : Decided(q)
         /\ outcome'[r] \in Outcomes
         /\ outcome'[r] = "granted" => r \in leases'
         /\ RunAccounts' /\ runLimit' = runLimit
<1>1. /\ outcome' = [outcome EXCEPT ![r] = AdmitOutcome(r)] /\ runLimit' = runLimit
      /\ outcome \in [Requests -> Outcomes \cup {"none"}] /\ AdmitOutcome(r) \in Outcomes
  BY AdmitDecision DEF Admit, adminVars, ClientInv, IInv, TypeOK
<1>2. outcome[r] = "none" /\ r \notin leases
  BY DEF Admit, ClientInv, IInv, AnswersSettled, QueueMatchesOutcomes
<1>3. CASE AdmitOutcome(r) = "granted"
  <2>1. GrantLocked(r) /\ leases' = leases \cup {r}
    BY <1>3 DEF Admit, GrantLocked
  <2>2. Mode = "enforce" => ~WouldBlock(r)
    BY <1>3, AdmitDecision
  <2>3. RunAccounts'
    BY <1>2, <2>1, <2>2, RunGrant DEF ClientInv
  <2> QED
    BY <1>1, <2>1, <2>3 DEF Decided
<1>4. CASE AdmitOutcome(r) # "granted"
  <2>1. UNCHANGED <<leases, runReserved>>
    BY <1>4 DEF Admit, poolVars
  <2> QED
    BY <1>1, <1>4, <2>1, RunStill DEF ClientInv, Decided
<1> QED
  BY <1>3, <1>4

-----------------------------------------------------------------------------
(* A step of one thread. *)

PlacesKept == pc' \in [Requests -> Places] /\ (\A q \in Requests : Kept(q)') /\ LimitFirst' /\ RunAccounts'

(* A step that only moves the thread of r. *)
LEMMA ThreadMoves ==
  ASSUME ClientInv, NEW r \in Requests, NEW l \in Places, Goto(r, l),
         UNCHANGED <<outcome, callVars, leases, runReserved, runLimit>>,
         pc[r] # "start",
         caller[r] # "idle" => l \notin {"start", "limited"},
         outcome[r] = "granted" /\ l \notin Terminated => r \in leases,
         l \in {"take", "setup", "unleased", "executing"} => outcome[r] = "granted",
         r \notin SerialReqs => l \notin SerialPlaces,
         r \notin SerialReqs /\ l \in {"refused", "done"} => r \notin leases /\ outcome[r] # "queued"
  PROVE  PlacesKept
<1>1. pc' = [pc EXCEPT ![r] = l] /\ pc \in [Requests -> Places]
  BY DEF Goto, ClientInv
<1>2. pc' \in [Requests -> Places] /\ pc'[r] = l /\ \A q \in Requests \ {r} : pc'[q] = pc[q]
  BY <1>1
<1>3. \A q \in Requests : Decided(q) /\ caller'[q] = caller[q] /\ answer'[q] = answer[q]
  BY DEF Decided, callVars
<1>4. \A q \in Requests \ {r} : Kept(q)'
  BY <1>2, <1>3, StandsStill DEF ClientInv
<1>5. Kept(r)'
  BY <1>2, <1>3 DEF Kept, ClientInv, callVars
<1>6. LimitFirst'
  BY <1>2, LimitsStill DEF ClientInv
<1> QED
  BY <1>2, <1>4, <1>5, <1>6, RunStill DEF PlacesKept, ClientInv

(* The thread releases the lease it owns. *)
LEMMA ThreadReleases ==
  ASSUME ClientInv, NEW r \in Requests, NEW l \in {"refused", "done"}, Goto(r, l),
         Release(r, 0), pc[r] \in {"setup", "executing"}
  PROVE  PlacesKept
<1>1. pc' = [pc EXCEPT ![r] = l] /\ pc \in [Requests -> Places] /\ l \in Places
  BY DEF Goto, ClientInv, Places, Terminated
<1>2. pc' \in [Requests -> Places] /\ pc'[r] = l /\ \A q \in Requests \ {r} : pc'[q] = pc[q]
  BY <1>1
<1>3. /\ leases' = leases \ {r} /\ UNCHANGED <<outcome, caller, answer, runLimit>>
  BY DEF Release, resultVars, callVars, adminVars
<1>4. \A q \in Requests \ {r} : Kept(q)'
  BY <1>2, <1>3, StandsStill DEF ClientInv, Decided
<1>5. outcome[r] = "granted"
  BY DEF ClientInv, Kept
<1>6. Kept(r)'
  BY <1>2, <1>3, <1>5 DEF Kept, ClientInv, Terminated, SerialPlaces
<1>7. LimitFirst'
  BY <1>2, <1>3, LimitsStill DEF ClientInv
<1> QED
  BY <1>2, <1>4, <1>6, <1>7, RunRelease DEF PlacesKept, ClientInv

LEMMA SerialLimitKeeps ==
  ASSUME ClientInv, NEW r \in Requests, SerialLimit(r)
  PROVE  PlacesKept
<1>1. /\ pc[r] = "start" /\ pc' = [pc EXCEPT ![r] = "limited"] /\ r \in SerialReqs
      /\ runLimit' = [runLimit EXCEPT ![RunOf[r]] = [@ EXCEPT ![WorkerKind] = 1]]
      /\ UNCHANGED <<outcome, caller, answer, leases, runReserved>>
  BY DEF SerialLimit, Goto, SetLimitForRun, resultVars, callVars, poolVars
<1>2. pc' \in [Requests -> Places] /\ pc'[r] = "limited" /\ \A q \in Requests \ {r} : pc'[q] = pc[q]
  BY <1>1 DEF ClientInv, Places
<1>3. \A q \in Requests \ {r} : Kept(q)'
  BY <1>1, <1>2, StandsStill DEF ClientInv, Decided
<1>4. Kept(r)'
  BY <1>1, <1>2 DEF Kept, ClientInv, Terminated
<1>5. \A q \in SerialReqs : runLimit'[RunOf[q]][WorkerKind] = IF RunOf[q] = RunOf[r] THEN 1 ELSE runLimit[RunOf[q]][WorkerKind]
  BY <1>1, ClientAssumption DEF ClientInv, IInv, TypeOK
<1>6. LimitFirst'
  BY <1>2, <1>5 DEF LimitFirst, ClientInv, SerialReqs
<1> QED
  BY <1>1, <1>2, <1>3, <1>4, <1>6, RunStill DEF PlacesKept, ClientInv

LEMMA SerialAdmitKeeps ==
  ASSUME ClientInv, NEW r \in Requests, SerialAdmit(r)
  PROVE  PlacesKept
<1>1. /\ pc[r] = "limited" /\ pc' = [pc EXCEPT ![r] = "check"]
      /\ Admit(r) /\ caller' = [caller EXCEPT ![r] = "held"] /\ answer' = answer
  BY DEF SerialAdmit, Goto, AdmitOnly
<1>2. r \in SerialReqs /\ runLimit[RunOf[r]][WorkerKind] = 1
  BY <1>1 DEF ClientInv, Kept, SerialPlaces, LimitFirst
<1>3. /\ pc' \in [Requests -> Places] /\ pc'[r] = "check"
      /\ \A q \in Requests \ {r} : pc'[q] = pc[q] /\ caller'[q] = caller[q]
  BY <1>1 DEF ClientInv, Places, IInv, TypeOK
<1>4. /\ \A q \in Requests \ {r} : Decided(q)
      /\ outcome'[r] \in Outcomes /\ (outcome'[r] = "granted" => r \in leases')
      /\ RunAccounts' /\ runLimit' = runLimit
  BY <1>1, <1>2, AdmitDecides
<1>5. \A q \in Requests \ {r} : Kept(q)'
  BY <1>1, <1>3, <1>4, StandsStill DEF ClientInv
<1>6. Kept(r)'
  BY <1>2, <1>3, <1>4 DEF Kept, Outcomes
<1>7. LimitFirst'
  BY <1>1, <1>3, <1>4, LimitsStill DEF ClientInv
<1> QED
  BY <1>3, <1>4, <1>5, <1>6, <1>7 DEF PlacesKept

LEMMA SerialWithdrawKeeps ==
  ASSUME ClientInv, NEW r \in Requests, SerialWithdraw(r)
  PROVE  PlacesKept
<1>1. /\ pc[r] = "withdraw" /\ pc' = [pc EXCEPT ![r] = "refused"]
      /\ UNCHANGED <<caller, answer, leases, runReserved, runLimit>>
  BY DEF SerialWithdraw, Goto, CancelRequest, vars, callVars, poolVars, adminVars
<1>2. r \in SerialReqs
  BY <1>1 DEF ClientInv, Kept, SerialPlaces
<1>3. /\ pc' \in [Requests -> Places] /\ pc'[r] = "refused"
      /\ \A q \in Requests \ {r} : pc'[q] = pc[q]
  BY <1>1 DEF ClientInv, Places, Terminated
<1>4. \A q \in Requests : Decided(q)
  <2>1. CASE r \in Enqueued
    BY <1>1, <2>1, CancelDecides DEF SerialWithdraw, CancelRequest, ClientInv
  <2>2. CASE r \notin Enqueued
    BY <1>1, <2>2 DEF SerialWithdraw, vars, resultVars, Decided
  <2> QED
    BY <2>1, <2>2
<1>5. \A q \in Requests \ {r} : Kept(q)'
  BY <1>1, <1>3, <1>4, StandsStill DEF ClientInv
<1>6. Kept(r)'
  BY <1>1, <1>2, <1>3, <1>4 DEF Kept, ClientInv, Decided, Terminated, Outcomes
<1>7. LimitFirst'
  BY <1>1, <1>3, LimitsStill DEF ClientInv
<1> QED
  BY <1>1, <1>3, <1>5, <1>6, <1>7, RunStill DEF PlacesKept, ClientInv

LEMMA WaitAdmitKeeps ==
  ASSUME ClientInv, NEW r \in Requests, WaitAdmit(r)
  PROVE  PlacesKept
<1>1. /\ r \notin SerialReqs /\ pc[r] = "start" /\ pc' = [pc EXCEPT ![r] = "wait"] /\ Admit(r)
      /\ \/ caller' = [caller EXCEPT ![r] = "looking"] /\ answer' = answer
         \/ /\ caller' = [caller EXCEPT ![r] = "returned"]
            /\ answer' = [answer EXCEPT ![r] = outcome'[r]]
  BY DEF WaitAdmit, Goto, AdmitWait
<1>2. /\ pc' \in [Requests -> Places] /\ pc'[r] = "wait"
      /\ \A q \in Requests \ {r} : pc'[q] = pc[q] /\ caller'[q] = caller[q] /\ answer'[q] = answer[q]
  BY <1>1 DEF ClientInv, Places, IInv, TypeOK
<1>3. /\ \A q \in Requests \ {r} : Decided(q)
      /\ outcome'[r] \in Outcomes /\ (outcome'[r] = "granted" => r \in leases')
      /\ RunAccounts' /\ runLimit' = runLimit
  BY <1>1, AdmitDecides
<1>4. \A q \in Requests \ {r} : Kept(q)'
  BY <1>2, <1>3, StandsStill DEF ClientInv
<1>5. caller'[r] = "returned" => answer'[r] # "none"
  BY <1>1, <1>3 DEF ClientInv, IInv, TypeOK, Outcomes
<1>6. Kept(r)'
  BY <1>1, <1>2, <1>3, <1>5 DEF Kept, Outcomes, SerialPlaces
<1>7. LimitFirst'
  BY <1>1, <1>2, <1>3, LimitsStill DEF ClientInv
<1> QED
  BY <1>2, <1>3, <1>4, <1>6, <1>7 DEF PlacesKept

LEMMA WaitInsideKeeps ==
  ASSUME ClientInv, NEW r \in Requests, WaitInside(r)
  PROVE  PlacesKept
<1>1. pc[r] = "wait" /\ pc' = pc /\ UNCHANGED <<leases, runReserved, runLimit>>
  BY DEF WaitInside, Look, Poll, poolVars, adminVars
<1>2. /\ caller[r] # "idle" /\ outcome[r] # "none" /\ outcome[r] \in Outcomes \cup {"none"}
  BY DEF WaitInside, Look, Poll, PollEnds, PollAnswered, PollCancelled, PollExpired, ClientInv, Kept, IInv, TypeOK
<1>3. /\ \A q \in Requests : Decided(q)
      /\ \/ \E o \in Outcomes : Return(r, o)
         \/ caller' = [caller EXCEPT ![r] = "waiting"] /\ answer' = answer
  <2>1. CASE Look(r)
    <3>1. outcome' = outcome
      BY <2>1 DEF Look, resultVars
    <3> QED
      BY <1>1, <1>2, <2>1, <3>1 DEF Look, Decided, Outcomes
  <2>2. CASE PollAnswered(r)
    <3>1. outcome' = outcome /\ Return(r, outcome[r])
      BY <2>2 DEF PollAnswered, resultVars
    <3> QED
      BY <1>1, <1>2, <3>1 DEF Decided
  <2>3. CASE PollCancelled(r) \/ PollExpired(r)
    <3>1. PICK o \in {"cancelled", "capacity_timeout"} : CancelLocked(r, o) /\ Return(r, o)
      BY <2>3 DEF PollCancelled, PollExpired
    <3>2. r \in Enqueued
      BY <2>3 DEF PollCancelled, PollExpired, ClientInv, IInv, QueueMatchesOutcomes
    <3>3. o \in Outcomes
      BY DEF Outcomes
    <3>4. \A q \in Requests : Decided(q)
      BY <1>1, <3>1, <3>2, CancelDecides DEF ClientInv
    <3> QED
      BY <3>1, <3>3, <3>4
  <2> QED
    BY <2>1, <2>2, <2>3 DEF WaitInside, Poll, PollEnds
<1>4. \A q \in Requests \ {r} : caller'[q] = caller[q] /\ answer'[q] = answer[q]
  BY <1>3 DEF Return, ClientInv, IInv, TypeOK
<1>5. \A q \in Requests \ {r} : Kept(q)'
  BY <1>1, <1>3, <1>4, StandsStill DEF ClientInv
<1>6. caller'[r] = "returned" => answer'[r] # "none"
  BY <1>3 DEF Return, ClientInv, IInv, TypeOK, Outcomes
<1>7. Kept(r)'
  BY <1>1, <1>2, <1>3, <1>6 DEF Kept, ClientInv, Decided, Terminated, Outcomes
<1>8. LimitFirst'
  BY <1>1, LimitsStill DEF ClientInv
<1> QED
  BY <1>1, <1>5, <1>7, <1>8, RunStill DEF PlacesKept, ClientInv

LEMMA EnvironmentKeeps ==
  ASSUME ClientInv, Environment
  PROVE  PlacesKept
<1>1. pc' = pc
  BY DEF Environment
<1>2. /\ \A q \in Requests : Decided(q)
      /\ RunAccounts' /\ UNCHANGED <<caller, answer, runLimit>>
  <2>1. CASE DrainStep
    BY <2>1, DrainDecides DEF callVars
  <2>2. CASE Shutdown
    <3>1. /\ \A q \in Requests : outcome'[q] = IF q \in Enqueued THEN "shutdown" ELSE outcome[q]
          /\ UNCHANGED <<caller, answer, runLimit, leases, runReserved>>
      BY <2>2 DEF Shutdown, ShutdownOutcome, callVars, poolVars
    <3>2. \A q \in Requests : q \in Enqueued => outcome[q] = "queued"
      BY DEF ClientInv, IInv, QueueMatchesOutcomes
    <3> QED
      BY <3>1, <3>2, RunStill DEF Decided, Outcomes, ClientInv
  <2>3. CASE \E r \in Requests : CancelToken(r) \/ Deadline(r)
    <3>1. UNCHANGED <<caller, answer, runLimit, leases, runReserved, outcome>>
      BY <2>3 DEF CancelToken, Deadline, callVars, poolVars, adminVars, resultVars
    <3> QED
      BY <3>1, RunStill DEF Decided, ClientInv
  <2> QED
    BY <2>1, <2>2, <2>3 DEF Environment
<1>3. \A q \in Requests : Kept(q)'
  BY <1>1, <1>2, StandsStill DEF ClientInv
<1>4. LimitFirst'
  BY <1>1, <1>2 DEF ClientInv, LimitFirst
<1> QED
  BY <1>1, <1>2, <1>3, <1>4 DEF PlacesKept, ClientInv

LEMMA ClientInvStep == ClientInv /\ [ClientNext]_clientVarsAll => ClientInv'
<1> SUFFICES ASSUME ClientInv, [ClientNext]_clientVarsAll PROVE ClientInv'
  OBVIOUS
<1>1. IInv'
  BY StepIsGovernors, IInvStep DEF clientVarsAll, ClientInv
<1>2. ASSUME NEW r \in Requests, ClientStep(r) PROVE PlacesKept
  <2>1. CASE SerialLimit(r)
    BY <2>1, SerialLimitKeeps
  <2>2. CASE SerialAdmit(r)
    BY <2>2, SerialAdmitKeeps
  <2>3. CASE SerialWithdraw(r)
    BY <2>3, SerialWithdrawKeeps
  <2>4. CASE WaitAdmit(r)
    BY <2>4, WaitAdmitKeeps
  <2>5. CASE WaitInside(r)
    BY <2>5, WaitInsideKeeps
  <2>6. CASE SetupFails(r)
    BY <2>6, ThreadReleases DEF SetupFails
  <2>7. CASE Finish(r)
    BY <2>7, ThreadReleases DEF Finish
  <2> DEFINE Still == UNCHANGED <<outcome, callVars, leases, runReserved, runLimit>>
  <2>8. UNCHANGED vars => Still
    BY DEF vars, callVars, resultVars, poolVars, adminVars
  <2>9. Kept(r)
    BY DEF ClientInv
  <2> HIDE DEF Still
  <2>10. CASE SerialCheck(r)
    <3>1. pc[r] = "check" /\ Still
      BY <2>8, <2>10 DEF SerialCheck
    <3>2. r \in SerialReqs
      BY <2>9, <3>1 DEF Kept, SerialPlaces
    <3>3. PICK l \in {"withdraw", "take", "refused"} :
            Goto(r, l) /\ (l = "take" => outcome[r] = "granted")
      BY <2>10 DEF SerialCheck
    <3> QED
      BY <2>9, <3>1, <3>2, <3>3, ThreadMoves DEF Still, Kept, Places, Terminated
  <2>11. CASE SerialTake(r)
    <3>1. pc[r] = "take" /\ Still
      BY <2>8, <2>11 DEF SerialTake
    <3>2. r \in SerialReqs
      BY <2>9, <3>1 DEF Kept, SerialPlaces
    <3>3. PICK l \in {"unleased", "setup"} : Goto(r, l)
      BY <2>11 DEF SerialTake
    <3> QED
      BY <2>9, <3>1, <3>2, <3>3, ThreadMoves DEF Still, Kept, Places, Terminated
  <2>12. CASE Unleased(r) \/ DiskCheckFails(r) \/ LaunchFails(r)
    <3>1. pc[r] \in {"unleased", "setup"} /\ Still /\ Goto(r, "abandoned")
      BY <2>8, <2>12 DEF Unleased, DiskCheckFails, LaunchFails
    <3> QED
      BY <2>9, <3>1, ThreadMoves DEF Still, Kept, Places, Terminated, SerialPlaces
  <2>13. CASE SetupDone(r)
    <3>1. pc[r] = "setup" /\ Still /\ Goto(r, "executing")
      BY <2>8, <2>13 DEF SetupDone
    <3> QED
      BY <2>9, <3>1, ThreadMoves DEF Still, Kept, Places, Terminated, SerialPlaces
  <2>14. CASE WaitReturn(r)
    <3>1. pc[r] = "wait" /\ caller[r] = "returned" /\ Still
      BY <2>8, <2>14 DEF WaitReturn
    <3>2. PICK l \in {"refused", "executing", "setup"} :
            Goto(r, l) /\ (l = "refused" <=> answer[r] # "granted")
      <4>1. CASE answer[r] # "granted"
        BY <4>1, <2>14 DEF WaitReturn, Goto
      <4>2. CASE answer[r] = "granted" /\ ClientOf[r] = "tool"
        BY <4>2, <2>14 DEF WaitReturn, Goto
      <4>3. CASE answer[r] = "granted" /\ ClientOf[r] # "tool"
        BY <4>3, <2>14 DEF WaitReturn, Goto
      <4> QED
        BY <4>1, <4>2, <4>3
    <3>3. answer[r] # "none" => answer[r] = outcome[r] /\ answer[r] # "queued"
      BY DEF ClientInv, IInv, AnswersSettled
    <3>4. l # "refused" => outcome[r] = "granted"
      BY <3>2, <3>3
    <3>5. r \notin SerialReqs /\ l = "refused" => r \notin leases /\ outcome[r] # "queued"
      BY <2>9, <3>1, <3>2, <3>3 DEF Kept, ClientInv, IInv, QueueMatchesOutcomes
    <3> QED
      BY <2>9, <3>1, <3>2, <3>4, <3>5, ThreadMoves DEF Still, Kept, Places, Terminated, SerialPlaces
  <2> QED
    BY <1>2, <2>1, <2>2, <2>3, <2>4, <2>5, <2>6, <2>7, <2>10, <2>11, <2>12, <2>13, <2>14 DEF ClientStep
<1>3. CASE UNCHANGED clientVarsAll
  BY <1>1, <1>3 DEF clientVarsAll, vars, callVars, resultVars, poolVars, adminVars, ClientInv, Kept, LimitFirst, RunAccounts
<1> QED
  BY <1>1, <1>2, <1>3, EnvironmentKeeps DEF ClientNext, PlacesKept, ClientInv

LEMMA ClientInvInit == ClientInit => ClientInv
<1> SUFFICES ASSUME ClientInit PROVE ClientInv
  OBVIOUS
<1>1. IInv
  BY IInvInit DEF ClientInit
<1>2. pc \in [Requests -> Places] /\ \A r \in Requests : Kept(r)
  BY DEF ClientInit, Init, Places, Kept, Terminated, SerialPlaces
<1>3. LimitFirst
  BY DEF ClientInit, LimitFirst, SerialReqs
<1>4. RunAccounts
  <2>1. \A t \in SerialRuns : t \in Runs
    BY ClientAssumption DEF SerialRuns
  <2>2. WorkerKind \in Kinds /\ \A t : OfRun({}, t) = {}
    BY ClientAssumption DEF OfRun
  <2>3. \A k \in Kinds : Usage({}, k) = 0
    BY UsageEmpty
  <2>4. leases = {} /\ \A t \in Runs, k \in Kinds : runReserved[t][k] = 0
    BY DEF ClientInit, Init, NoAmount
  <2>5. ASSUME NEW t \in SerialRuns, NEW k \in Kinds PROVE runReserved[t][k] = Usage(OfRun(leases, t), k)
    BY <2>1, <2>2, <2>3, <2>4
  <2> QED
    BY <2>1, <2>2, <2>4, <2>5 DEF RunAccounts
<1> QED
  BY <1>1, <1>2, <1>3, <1>4 DEF ClientInv

LEMMA ClientInvariance == ClientSpec => []ClientInv
  BY ClientInvInit, ClientInvStep, PTL DEF ClientSpec

-----------------------------------------------------------------------------
(* The theorems.                                                           *)

(* Types, and ownership: from its grant until it releases or abandons it, a
   caller's lease is live, whoever else drains, times out or shuts down. *)
THEOREM CallersOwnTheirLeases == ClientSpec => []ClientTypeOK
<1>1. ClientInv => ClientTypeOK
  BY DEF ClientInv, ClientTypeOK, IInv, Kept, Places, Terminated
<1> QED
  BY <1>1, ClientInvariance, PTL

(* _run_reserved equals the leases of a serial run, although it counts only
   what is granted while a limit is set. *)
THEOREM RunAccountIsExact == ClientSpec => []RunAccountMatchesLeases
<1>1. ClientInv => RunAccountMatchesLeases
  BY DEF ClientInv, RunAccounts, RunAccountMatchesLeases, SerialRuns, OfRun
<1> QED
  BY <1>1, ClientInvariance, PTL

(* Two serial spawns of one root never hold a worker together. *)
THEOREM SerialMeansSerial == ClientSpec => []OneSerialWorker
<1>1. ASSUME ClientInv, Mode = "enforce", NEW r \in SerialReqs, NEW s \in SerialReqs,
             r # s, RootOf[r] = RootOf[s], Need[r][WorkerKind] > 0, Need[s][WorkerKind] > 0,
             {r, s} \subseteq leases
      PROVE  FALSE
  <2> DEFINE t == RunOf[r]
             rest == OfRun(leases, t) \ {r}
  <2>1. t \in SerialRuns /\ RunOf[s] = t /\ r \in Requests /\ s \in Requests /\ WorkerKind \in Kinds
    BY <1>1, ClientAssumption DEF SerialRuns, SerialReqs
  <2>2. /\ OfRun(leases, t) \in SUBSET Requests /\ r \in OfRun(leases, t)
        /\ rest \in SUBSET Requests /\ s \in rest
    BY <1>1, <2>1 DEF ClientInv, IInv, TypeOK, OfRun
  <2>3. Usage(OfRun(leases, t), WorkerKind) <= 1
    BY <1>1, <2>1 DEF ClientInv, RunAccounts
  <2> HIDE DEF t, rest
  <2>4. Usage(OfRun(leases, t), WorkerKind) = Usage(rest, WorkerKind) + Need[r][WorkerKind]
    BY <2>1, <2>2, UsageRemove DEF rest
  <2>5. Usage(rest, WorkerKind) = Usage(rest \ {s}, WorkerKind) + Need[s][WorkerKind]
    BY <2>1, <2>2, UsageRemove
  <2>6. Usage(rest \ {s}, WorkerKind) \in Nat
    <3>1. rest \ {s} \in SUBSET Requests
      BY <2>2
    <3> QED
      BY <2>1, <3>1, UsageType
  <2>7. Need[r][WorkerKind] \in Nat /\ Need[s][WorkerKind] \in Nat
    BY <2>1, NeedAssumption
  <2> QED
    BY <1>1, <2>3, <2>4, <2>5, <2>6, <2>7
<1>2. ClientInv => OneSerialWorker
  BY <1>1 DEF OneSerialWorker
<1> QED
  BY <1>2, ClientInvariance, PTL

(* A caller of admit_wait that was refused, failed or is through holds
   nothing.  A serial spawn may: it is answered without a look at what its
   cancel_request returns. *)
THEOREM RefusedHoldNothing ==
  ClientSpec => [](\A r \in Requests \ SerialReqs : pc[r] \in {"refused", "done"} => r \notin leases)
<1>1. ClientInv => \A r \in Requests \ SerialReqs : pc[r] \in {"refused", "done"} => r \notin leases
  BY DEF ClientInv, Kept
<1> QED
  BY <1>1, ClientInvariance, PTL
=============================================================================
