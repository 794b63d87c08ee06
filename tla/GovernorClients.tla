--------------------------- MODULE GovernorClients ---------------------------
(***************************************************************************)
(* The threads that call the ResourceGovernor, and what they do with the   *)
(* lease: spawn_agent in serial and in parallel mode                       *)
(* (src/agent/session/runtime_spawn.py), the provisioning of a worktree    *)
(* (src/agent/session/worktree_service.py) and a governed tool call        *)
(* (src/core/tool_execution.py).  pc[r] is where the caller of request r   *)
(* is; the governor's own state is that of ResourceGovernor.               *)
(***************************************************************************)
EXTENDS ResourceGovernor

CONSTANTS
  ClientOf,    \* the kind of caller of a request
  WorkerKind   \* WORKER_SLOT

SerialReqs == {r \in Requests : ClientOf[r] = "serial"}

(* A serial spawn uses its root session as run id, and nobody else does; it
   sets a limit of 1, and nobody reports what was used. *)
ASSUME ClientAssumption ==
  /\ 1 \in RunLimits /\ 0 \in Usages
  /\ ClientOf \in [Requests -> {"serial", "parallel", "background", "worktree", "tool"}]
  /\ WorkerKind \in Kinds
  /\ \A r \in SerialReqs : RunOf[r] = RootOf[r] /\ RunOf[r] \in Runs
  /\ \A r \in Requests \ SerialReqs : RunOf[r] \notin {RunOf[s] : s \in SerialReqs}

VARIABLE pc

clientVarsAll == <<vars, pc>>

Terminated == {"refused", "abandoned", "done"}

(* Types, and ownership: between its grant and its own release a caller's
   lease is live, whoever else cancels, times out, drains or shuts down. *)
ClientTypeOK ==
  /\ TypeOK
  /\ pc \in [Requests -> {"start", "limited", "check", "withdraw", "take", "wait",
                          "setup", "unleased", "executing"} \cup Terminated]
  /\ \A r \in Requests : pc[r] \in {"setup", "unleased", "executing"} => r \in leases

ClientInit == Init /\ pc = [r \in Requests |-> "start"]

Goto(r, l) == pc' = [pc EXCEPT ![r] = l]

-----------------------------------------------------------------------------
(* spawn_agent, serial: set_limit_for_run, admit, and two unlocked reads of
   the result object.                                                      *)

SerialLimitSkipped(r) ==
  /\ r \in SerialReqs /\ pc[r] = "start"
  /\ Goto(r, "limited")
  /\ UNCHANGED vars
SerialLimit(r) ==
  /\ r \in SerialReqs /\ pc[r] = "start"
  /\ SetLimitForRun(RunOf[r], WorkerKind, 1)
  /\ Goto(r, "limited")

SerialAdmit(r) ==
  /\ pc[r] = "limited"
  /\ AdmitOnly(r)
  /\ Goto(r, "check")

(* gov_result.outcome is read without the lock. *)
SerialCheck(r) ==
  /\ pc[r] = "check"
  /\ Goto(r, CASE outcome[r] = "queued" -> "withdraw"
               [] outcome[r] = "granted" -> "take"
               [] OTHER -> "refused")
  /\ UNCHANGED vars

(* The value cancel_request returns is not looked at. *)
SerialWithdraw(r) ==
  /\ pc[r] = "withdraw"
  /\ LockFree
  /\ IF r \in Enqueued THEN CancelRequest(r) ELSE UNCHANGED vars
  /\ Goto(r, "refused")

(* gov_lease = gov_result.lease, which may not be set yet. *)
SerialTake(r) ==
  /\ pc[r] = "take"
  /\ Goto(r, IF r \in unset THEN "unleased" ELSE "setup")
  /\ UNCHANGED vars

(* Without a lease the child runs all the same. *)
Unleased(r) ==
  /\ pc[r] = "unleased"
  /\ Goto(r, "abandoned")
  /\ UNCHANGED vars

-----------------------------------------------------------------------------
(* The callers of admit_wait.                                              *)

WaitAdmit(r) ==
  /\ r \notin SerialReqs /\ pc[r] = "start"
  /\ AdmitWait(r)
  /\ Goto(r, "wait")

WaitInside(r) ==
  /\ pc[r] = "wait"
  /\ Look(r) \/ Poll(r)
  /\ UNCHANGED pc

WaitReturn(r) ==
  /\ pc[r] = "wait" /\ caller[r] = "returned"
  /\ Goto(r, IF answer[r] # "granted" THEN "refused"
             ELSE IF ClientOf[r] = "tool" THEN "executing" ELSE "setup")
  /\ UNCHANGED vars

-----------------------------------------------------------------------------
(* What follows the grant.                                                 *)

(* create_session, or WorktreeManager.create, raises: the handler releases. *)
SetupFails(r) ==
  /\ pc[r] = "setup"
  /\ Release(r, 0)
  /\ Goto(r, "refused")

(* _check_disk_space raises: it is called after the grant and before the
   try block whose handler releases. *)
DiskCheckFails(r) ==
  /\ pc[r] = "setup" /\ ClientOf[r] = "worktree"
  /\ Goto(r, "abandoned")
  /\ UNCHANGED vars

(* The store or a hook raises once the child exists, or, for a background
   child, _start_background_execution does.  Only the last has a handler, and
   it gives back the evidence store and the MCP servers, not the lease. *)
LaunchFails(r) ==
  /\ pc[r] = "setup" /\ ClientOf[r] \in {"serial", "parallel", "background"}
  /\ Goto(r, "abandoned")
  /\ UNCHANGED vars

SetupDone(r) ==
  /\ pc[r] = "setup"
  /\ Goto(r, "executing")
  /\ UNCHANGED vars

(* The finally block of the execution; a worktree, when it is discarded. *)
Finish(r) ==
  /\ pc[r] = "executing"
  /\ Release(r, 0)
  /\ Goto(r, "done")

ClientStep(r) ==
  \/ SerialLimit(r) \/ SerialAdmit(r) \/ SerialCheck(r) \/ SerialWithdraw(r)
  \/ SerialTake(r) \/ Unleased(r)
  \/ WaitAdmit(r) \/ WaitInside(r) \/ WaitReturn(r)
  \/ SetupFails(r) \/ DiskCheckFails(r) \/ LaunchFails(r) \/ SetupDone(r) \/ Finish(r)

Environment ==
  /\ \/ DrainStep
     \/ Shutdown
     \/ \E r \in Requests : CancelToken(r) \/ Deadline(r)
  /\ UNCHANGED pc

ClientNext == Environment \/ \E r \in Requests : ClientStep(r)

ClientSpec == ClientInit /\ [][ClientNext]_clientVarsAll

(* The calls up to the answer of the governor. *)
AdmissionStep(r) ==
  \/ SerialAdmit(r) \/ SerialCheck(r) \/ SerialWithdraw(r) \/ SerialTake(r)
  \/ WaitInside(r) \/ WaitReturn(r)

(* Threads are scheduled and time passes; nothing is assumed of what a caller
   does with its lease. *)
ClientFairness ==
  /\ WF_clientVarsAll(DrainStep /\ UNCHANGED pc)
  /\ \A r \in Requests :
       /\ SF_clientVarsAll(AdmissionStep(r))
       /\ WF_clientVarsAll(Deadline(r) /\ UNCHANGED pc)

FairClientSpec == ClientSpec /\ ClientFairness

-----------------------------------------------------------------------------
(* Properties.                                                             *)

(* The clients use the governor as ResourceGovernor lets any client. *)
GovernorSpec == Spec

(* Build and Plan run their workers one at a time: two serial spawns of a root
   never hold a worker together, however their set_limit, admit, cancel and
   release steps interleave with other roots. *)
OneSerialWorker ==
  Mode = "enforce" =>
    \A r, s \in SerialReqs :
      /\ r # s /\ RootOf[r] = RootOf[s]
      /\ Need[r][WorkerKind] > 0 /\ Need[s][WorkerKind] > 0
      => ~({r, s} \subseteq leases)

(* _run_reserved counts only the grants made while the run is limited, and
   every release of the run is subtracted from it: the serial protocol, limit
   first, is what keeps it equal to the live leases of the run. *)
RunAccountMatchesLeases ==
  \A t \in {RunOf[r] : r \in SerialReqs}, k \in Kinds :
    runReserved[t][k] = Usage({r \in leases : RunOf[r] = t}, k)

(* "A scheduling failure must not leak it" (runtime_spawn.py:476): when every
   caller is through, everything that was reserved is back. *)
CapacityReturned ==
  (\A r \in Requests : pc[r] \in Terminated) => \A k \in Kinds : reserved[k] = 0

(* Nobody waits for ever on the governor, even when the leases it waits for
   are never returned. *)
Admitting == {"limited", "check", "withdraw", "take", "wait"}
CallersAnswered ==
  \A r \in Requests : pc[r] \in Admitting ~> pc[r] \notin Admitting
=============================================================================
