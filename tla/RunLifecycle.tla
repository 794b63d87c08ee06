----------------------------- MODULE RunLifecycle -----------------------------
(***************************************************************************)
(* The runs of one session of the server: POST chat and the plan routes    *)
(* (src/server/routers), submit_run_turn and RunCoordinator, the table     *)
(* runs, the pipeline threads, cancel_run, and the recovery at start-up.   *)
(*                                                                         *)
(* Handlers are coroutines of one event loop: what a handler does between  *)
(* two awaits is one step.  Pipelines are threads, and the process may be  *)
(* restarted between any two steps.  A run has the name of the request     *)
(* that created it; the statuses "running" and "completed" of the table    *)
(* are written only by SessionRuntime.run_session, which the server no     *)
(* longer calls.                                                           *)
(***************************************************************************)
EXTENDS Naturals, FiniteSets

CONSTANTS
  Requests,     \* POST requests, of clients that retry with the same key
  RouteOf,      \* "chat" or "plan"
  KeyOf,        \* idempotency keys
  NoKey,        \* the empty key
  PromptOf,     \* prompts
  Cancels,      \* cancel requests
  NoRun,
  MaxRestarts   \* bounds the restarts

ASSUME RunLifecycleAssumption ==
  /\ RouteOf \in [Requests -> {"chat", "plan"}]
  /\ IsFiniteSet(Requests) /\ IsFiniteSet(Cancels)
  /\ NoRun \notin Requests
  /\ MaxRestarts \in Nat

VARIABLES
  row,          \* runs.status
  turn,         \* runs.turn_index, 0 for a run that does not exist
  generation,   \* sessions.run_generation
  messages,     \* how many user messages a run has in session_messages
  submitted,    \* how many run.submitted facts a run has in the outbox
  terminal,     \* and how many run.failed or run.cancelled facts
  completed,    \* the outcome facts a pipeline appended, under an id of its own
  handler,      \* where a request is, or what it was answered
  named,        \* the run of the answer, and of the pipeline
  unread,       \* the requests whose key was known but not read
  thread,       \* the pipeline thread a request started
  cancel,       \* the answers to the cancel requests
  restarts

tableVars == <<row, turn, generation, messages>>
factVars == <<submitted, terminal, completed>>
handlerVars == <<handler, named, unread, thread>>
vars == <<tableVars, factVars, handlerVars, cancel, restarts>>

TypeOK ==
  /\ row \in [Requests -> {"absent", "queued", "failed", "cancelled"}]
  /\ turn \in [Requests -> Nat] /\ generation \in Nat
  /\ messages \in [Requests -> Nat]
  /\ submitted \in [Requests -> Nat] /\ terminal \in [Requests -> Nat]
  /\ completed \in [Requests -> Nat]
  /\ handler \in [Requests -> {"new", "created", "accepted", "conflict", "busy", "error", "lost"}]
  /\ named \in [Requests -> Requests \cup {NoRun}]
  /\ unread \subseteq Requests
  /\ thread \in [Requests -> {"none", "executing", "ended", "lost"}]
  /\ cancel \in [Cancels -> {"new", "true", "false"}]
  /\ restarts \in 0 .. MaxRestarts
  /\ \A q \in Requests :
       /\ handler[q] \in {"created", "accepted"} => named[q] # NoRun /\ row[named[q]] # "absent"
       /\ thread[q] # "none" => handler[q] = "accepted"

Init ==
  /\ row = [q \in Requests |-> "absent"]
  /\ turn = [q \in Requests |-> 0] /\ generation = 0
  /\ messages = [q \in Requests |-> 0]
  /\ submitted = [q \in Requests |-> 0]
  /\ terminal = [q \in Requests |-> 0]
  /\ completed = [q \in Requests |-> 0]
  /\ handler = [q \in Requests |-> "new"]
  /\ named = [q \in Requests |-> NoRun]
  /\ unread = {}
  /\ thread = [q \in Requests |-> "none"]
  /\ cancel = [c \in Cancels |-> "new"]
  /\ restarts = 0

Answer(q, a) == handler' = [handler EXCEPT ![q] = a]
Names(q, r) == named' = [named EXCEPT ![q] = r]

-----------------------------------------------------------------------------
(* submit_run_turn and RunCoordinator.submit: idempotency first, then the
   active run, then one unit of work.                                      *)

ExistingActive(q) ==
  {r \in Requests : row[r] = "queued" /\ KeyOf[r] = KeyOf[q] /\ KeyOf[q] # NoKey}
Existing(q) ==
  {r \in Requests : row[r] # "absent" /\ KeyOf[r] = KeyOf[q] /\ KeyOf[q] # NoKey}

ActiveNever == {}
Active == {r \in Requests : row[r] \notin {"absent", "failed", "cancelled"}}

(* The key is known: the run it named before.  It is not started again, unless
   check_idempotent_run could not read the table: the coordinator then returns
   the run as if it had been created. *)
ReplayAsCreated(q) ==
  /\ handler[q] = "new"
  /\ \E r \in Existing(q) : PromptOf[r] = PromptOf[q] /\ Names(q, r)
  /\ Answer(q, "created")
  /\ UNCHANGED <<tableVars, factVars, unread, thread, cancel, restarts>>
Replay(q) ==
  /\ handler[q] = "new"
  /\ \E r \in Existing(q) : PromptOf[r] = PromptOf[q] /\ Names(q, r)
  /\ \/ Answer(q, "accepted") /\ UNCHANGED unread
     \/ Answer(q, "created") /\ unread' = unread \cup {q}
  /\ UNCHANGED <<tableVars, factVars, thread, cancel, restarts>>

Conflict(q) ==
  /\ handler[q] = "new"
  /\ \E r \in Existing(q) : PromptOf[r] # PromptOf[q]
  /\ Answer(q, "conflict")
  /\ UNCHANGED <<tableVars, factVars, named, unread, thread, cancel, restarts>>

Busy(q) ==
  /\ handler[q] = "new"
  /\ Existing(q) = {} /\ Active # {}
  /\ Answer(q, "busy")
  /\ UNCHANGED <<tableVars, factVars, named, unread, thread, cancel, restarts>>

Create(q) ==
  /\ handler[q] = "new"
  /\ Existing(q) = {} /\ Active = {}
  /\ generation' = generation + 1
  /\ turn' = [turn EXCEPT ![q] = generation + 1]
  /\ row' = [row EXCEPT ![q] = "queued"]
  /\ messages' = [messages EXCEPT ![q] = @ + 1]
  /\ submitted' = [submitted EXCEPT ![q] = @ + 1]
  /\ Names(q, q)
  /\ Answer(q, "created")
  /\ UNCHANGED <<terminal, completed, unread, thread, cancel, restarts>>

(* A statement of the unit of work raises: it is rolled back as a whole. *)
SubmitFails(q) ==
  /\ handler[q] = "new"
  /\ Answer(q, "error")
  /\ UNCHANGED <<tableVars, factVars, named, unread, thread, cancel, restarts>>

-----------------------------------------------------------------------------
(* finalize_run_with_event: the compare-and-set of the row and the fact are
   one transaction.                                                        *)

FinalizeAlways(r, expect, status) ==
  /\ row' = [row EXCEPT ![r] = status]
  /\ terminal' = [terminal EXCEPT ![r] = @ + 1]
Finalize(r, expect, status) ==
  IF row[r] = expect
    THEN /\ row' = [row EXCEPT ![r] = status]
         /\ terminal' = [terminal EXCEPT ![r] = @ + 1]
    ELSE UNCHANGED <<row, terminal>>

-----------------------------------------------------------------------------
(* After the await of create_session the handler starts the pipeline.      *)

Start(q) ==
  /\ handler[q] = "created"
  /\ thread' = [thread EXCEPT ![q] = "executing"]
  /\ Answer(q, "accepted")
  /\ UNCHANGED <<tableVars, factVars, named, unread, cancel, restarts>>

(* run_chat_async raises: the plan routes fail the run they have submitted,
   unless the store raises too; POST chat leaves it as it is. *)
StartFails(q) ==
  /\ handler[q] = "created"
  /\ \/ RouteOf[q] = "plan" /\ Finalize(named[q], "queued", "failed")
     \/ UNCHANGED <<row, terminal>>
  /\ Answer(q, "error")
  /\ UNCHANGED <<turn, generation, messages, submitted, completed, named, unread, thread, cancel, restarts>>

-----------------------------------------------------------------------------
(* The pipeline thread.                                                    *)

(* _execute_native runs under a run id of its own; finalize appends the fact
   of the outcome and leaves the table alone. *)
Succeed(q) ==
  /\ thread[q] = "executing"
  /\ completed' = [completed EXCEPT ![q] = @ + 1]
  /\ thread' = [thread EXCEPT ![q] = "ended"]
  /\ UNCHANGED <<tableVars, submitted, terminal, handler, named, unread, cancel, restarts>>

(* Any stage raises, after the fact was appended or before. *)
Fail(q) ==
  /\ thread[q] = "executing"
  /\ \/ UNCHANGED completed
     \/ completed' = [completed EXCEPT ![q] = @ + 1]
  /\ Finalize(named[q], "running", "failed")
  /\ thread' = [thread EXCEPT ![q] = "ended"]
  /\ UNCHANGED <<turn, generation, messages, submitted, handler, named, unread, cancel, restarts>>

-----------------------------------------------------------------------------
(* cancel_run, without a token to signal: the active run becomes cancelled;
   the thread that executes it is not told. *)
Cancel(c) ==
  /\ cancel[c] = "new"
  /\ \/ /\ Active = {}
        /\ cancel' = [cancel EXCEPT ![c] = "false"]
        /\ UNCHANGED <<row, terminal>>
     \/ \E r \in Active :
          /\ Finalize(r, row[r], "cancelled")
          /\ cancel' = [cancel EXCEPT ![c] = "true"]
     \/ /\ cancel' = [cancel EXCEPT ![c] = "false"]     \* the store raises
        /\ UNCHANGED <<row, terminal>>
  /\ UNCHANGED <<turn, generation, messages, submitted, completed, handlerVars, restarts>>

-----------------------------------------------------------------------------
(* A restart: handlers and threads are gone, recover_orphaned_runs fails what
   they left, without a fact. *)
Orphans == {r \in Requests : row[r] \in {"queued", "running"}}

Restart ==
  /\ restarts < MaxRestarts
  /\ restarts' = restarts + 1
  /\ row' = [r \in Requests |-> IF r \in Orphans THEN "failed" ELSE row[r]]
  /\ handler' = [q \in Requests |-> IF handler[q] = "created" THEN "lost" ELSE handler[q]]
  /\ thread' = [q \in Requests |-> IF thread[q] = "executing" THEN "lost" ELSE thread[q]]
  /\ UNCHANGED <<turn, generation, messages, factVars, named, unread, cancel>>

Handle(q) ==
  \/ Replay(q) \/ Conflict(q) \/ Busy(q) \/ Create(q) \/ SubmitFails(q)
  \/ Start(q) \/ StartFails(q)

Next ==
  \/ \E q \in Requests : Handle(q) \/ Succeed(q) \/ Fail(q)
  \/ \E c \in Cancels : Cancel(c)
  \/ Restart

Spec == Init /\ [][Next]_vars

-----------------------------------------------------------------------------
(* Properties.                                                             *)

(* A session has one active run at most, whatever was cancelled, retried or
   recovered before. *)
OneActiveRun == \A r, s \in Requests : row[r] = "queued" /\ row[s] = "queued" => r = s

(* The unit of work of a submission is all or nothing: a run, its turn, its
   message and its run.submitted fact exist together and once, and turns are
   numbered without repetition. *)
SubmissionWhole ==
  /\ \A r \in Requests :
       LET n == IF row[r] = "absent" THEN 0 ELSE 1
       IN messages[r] = n /\ submitted[r] = n /\ (turn[r] > 0 <=> n = 1)
  /\ \A r, s \in Requests : turn[r] = turn[s] /\ turn[r] > 0 => r = s
  /\ \A r \in Requests : turn[r] <= generation

(* However often a client retries, before or after a restart, a key names one
   run, of its own prompt. *)
KeyNamesOneRun ==
  /\ \A r, s \in Requests :
       row[r] # "absent" /\ row[s] # "absent" /\ KeyOf[r] = KeyOf[s] /\ KeyOf[r] # NoKey => r = s
  /\ \A q \in Requests :
       handler[q] = "accepted" => KeyOf[named[q]] = KeyOf[q] /\ PromptOf[named[q]] = PromptOf[q]

(* No run is executed twice: a retry of what was accepted starts nothing, nor
   does a restart; only a key that could not be read lets one through. *)
ExecutedOnce ==
  \A q, p \in Requests \ unread :
    q # p /\ thread[q] # "none" /\ thread[p] # "none" => named[q] # named[p]

(* "Terminal CAS emits exactly one fact" (tests/test_outbox_lifecycle_chain.py):
   a cancelled run has one terminal fact, a failed one at most one, an active
   one none; and every cancel that was answered with true cancelled a run of
   its own. *)
TerminalFactOnce ==
  /\ \A r \in Requests :
       terminal[r] \in CASE row[r] = "cancelled" -> {1}
                         [] row[r] = "failed" -> {0, 1}
                         [] OTHER -> {0}
  /\ Cardinality({c \in Cancels : cancel[c] = "true"}) =
       Cardinality({r \in Requests : row[r] = "cancelled"})

(* What a run ended as it stays: no cancel, late failure or recovery rewrites
   it. *)
TerminalStays ==
  [][\A r \in Requests : row[r] \in {"failed", "cancelled"} => row'[r] = row[r]]_vars

(* "Terminal CAS - state transition + fact in one UoW" (RunCoordinator.finalize):
   when its pipeline has ended, a run is not active any more. *)
EndedRunsTerminal ==
  \A q \in Requests : thread[q] = "ended" => row[named[q]] # "queued"
=============================================================================
