---------------------------- MODULE ContactLoop -----------------------------
(***************************************************************************)
(* ContactLoopWorkflow (workflows/contact_loop.py): one long-running       *)
(* Temporal workflow per contact that takes signals off an in-memory       *)
(* queue, one at a time, and runs each through the decision engine.        *)
(*                                                                         *)
(* An activity is executed at least once: an attempt can take effect and   *)
(* still be reported as failed (its worker died, its answer timed out),    *)
(* and is then run again, up to DefaultAttempts times.  After that the     *)
(* ActivityError propagates out of run(), the workflow fails and its       *)
(* queue is gone; the next signal-with-start opens a fresh run.  Worker    *)
(* crashes between activities are absorbed by Temporal's replay and have   *)
(* no step of their own.                                                   *)
(***************************************************************************)
EXTENDS ContactStore

CONSTANTS
  DefaultAttempts,      \* maximum_attempts of DEFAULT_RETRY_POLICY
  MAX_SIGNALS_PER_RUN   \* continue-as-new threshold

ASSUME LoopAssumption ==
  /\ DefaultAttempts \in Nat \ {0}
  /\ MAX_SIGNALS_PER_RUN \in Nat \ {0}

VARIABLES
  pending,   \* self._pending: signal ids, oldest first
  loop,      \* the open run, or its absence (pc = "none")
  exec       \* the TaskExecutionWorkflow runs started, by task id

NoOutput == Output(<<>>, NewContactState, FALSE, FALSE)

(* pc names what the run does next; contact, state and consent are what it *)
(* has read for `signal`, out what it decided, task the row insert_task    *)
(* returned.                                                               *)
LoopPc == {"none", "register", "idle", "contact", "state", "consent", "decide",
           "patch", "cancel", "mark", "insert", "spawn"}
LoopRun == [pc: LoopPc, attempt: Nat, processed: Nat, signal: Nat, contact: ContactStatus,
            state: ContactState, consent: Consent, out: DecisionOutput, task: Nat]

IdleRun(pc, processed) ==
  [pc |-> pc, attempt |-> 1, processed |-> processed, signal |-> 0,
   contact |-> "active", state |-> NewContactState, consent |-> "none",
   out |-> NoOutput, task |-> 0]

NoRun == IdleRun("none", 0)
NewRun == IdleRun("register", 0)

NewExecution == [pc |-> "sleep", attempt |-> 1, contact |-> "active",
                 state |-> NewContactState, consent |-> "none",
                 outcome |-> NoOutcome, interaction |-> 0, signal |-> 0]

-----------------------------------------------------------------------------
(* Temporal signal-with-start on contact-loop:{contact_id}: the signal is  *)
(* queued, and a run is started if none is open.                           *)
SignalWithStart(s) ==
  /\ pending' = Append(pending, s)
  /\ loop' = IF loop.pc = "none" THEN NewRun ELSE loop

\* Wrong: the last attempt is not made.
LoopAttemptFailsTooSoon ==
  /\ Spend("fault")
  /\ IF loop.attempt + 1 < DefaultAttempts
     THEN loop' = [loop EXCEPT !.attempt = @ + 1] /\ UNCHANGED pending
     ELSE loop' = NoRun /\ pending' = <<>>

(* The activity the run is waiting for is reported failed: it is retried,  *)
(* or the workflow fails.                                                  *)
LoopAttemptFails ==
  /\ Spend("fault")
  /\ IF loop.attempt < DefaultAttempts
     THEN loop' = [loop EXCEPT !.attempt = @ + 1] /\ UNCHANGED pending
     ELSE loop' = NoRun /\ pending' = <<>>

(* The activity took effect; its completion reaches the run, which goes on *)
(* as `next`, or is lost.                                                  *)
LoopCompletes(next) ==
  \/ loop' = [next EXCEPT !.attempt = 1] /\ UNCHANGED <<pending, budget>>
  \/ LoopAttemptFails

\* The activity failed before it took effect.
LoopActivityFails ==
  /\ loop.pc \notin {"none", "idle", "decide", "spawn"}
  /\ LoopAttemptFails
  /\ UNCHANGED <<clock, tables, history, exec>>

\* What follows a handled signal: continue-as-new, or the next wait.
Handled ==
  IF loop.processed + 1 >= MAX_SIGNALS_PER_RUN /\ pending = <<>>
  THEN NewRun
  ELSE IdleRun("idle", loop.processed + 1)

NextTask(out) ==
  IF out.tasks = <<>> THEN Handled ELSE [loop EXCEPT !.pc = "insert", !.out = out, !.task = 0]

-----------------------------------------------------------------------------
LoopRegister ==
  /\ loop.pc = "register"
  /\ SetContactWorkflowId
  /\ LoopCompletes([loop EXCEPT !.pc = "idle"])
  /\ UNCHANGED <<clock, contact, consent, signals, tasks, interactions, outbox, history, exec>>

LoopPop ==
  /\ loop.pc = "idle"
  /\ pending # <<>>
  /\ loop' = [loop EXCEPT !.pc = "contact", !.signal = Head(pending)]
  /\ pending' = Tail(pending)
  /\ UNCHANGED <<clock, tables, history, exec, budget>>

LoopReadContact ==
  /\ loop.pc = "contact"
  /\ loop' = [loop EXCEPT !.pc = "state", !.contact = contact, !.attempt = 1]
  /\ UNCHANGED <<clock, tables, history, exec, budget, pending>>

LoopReadState ==
  /\ loop.pc = "state"
  /\ contact_state' = CreatedState
  /\ LoopCompletes([loop EXCEPT !.pc = "consent", !.state = CreatedState])
  /\ UNCHANGED <<clock, contact, consent, signals, tasks, interactions, outbox, history, exec>>

LoopReadConsent ==
  /\ loop.pc = "consent"
  /\ loop' = [loop EXCEPT !.pc = "decide", !.attempt = 1,
                          !.consent = consent[signals[loop.signal].channel]]
  /\ UNCHANGED <<clock, tables, history, exec, budget, pending>>

LoopDecide ==
  /\ loop.pc = "decide"
  /\ LET out == Evaluate(loop.signal, signals[loop.signal], loop.contact, loop.state,
                         loop.consent, clock)
         step == IF out.patch THEN "patch" ELSE IF out.cancel THEN "cancel" ELSE "mark"
     IN  loop' = [IdleRun(step, loop.processed) EXCEPT !.signal = loop.signal, !.out = out]
  /\ UNCHANGED <<clock, tables, history, exec, budget, pending>>

LoopPatch ==
  /\ loop.pc = "patch"
  /\ UpdateContactState(loop.out.state)
  /\ LoopCompletes([loop EXCEPT !.pc = IF loop.out.cancel THEN "cancel" ELSE "mark"])
  /\ UNCHANGED <<clock, contact, consent, signals, tasks, interactions, outbox, history, exec>>

\* The execution of t, if any, has yet to re-read its row.
NotYetReread(t) == t \notin DOMAIN exec \/ exec[t].pc = "sleep"

LoopCancel ==
  /\ loop.pc = "cancel"
  /\ CancelScheduledFollowUps
  /\ superseded' = superseded \cup
       {t \in DOMAIN tasks : IsPendingFollowUp(t) /\ NotYetReread(t)}
  /\ LoopCompletes([loop EXCEPT !.pc = "mark"])
  /\ UNCHANGED <<clock, contact, consent, contact_state, signals, interactions, outbox,
                 barred, exec>>

LoopMark ==
  /\ loop.pc = "mark"
  /\ MarkSignalStatus(loop.signal, "processed")
  /\ LoopCompletes(NextTask(loop.out))
  /\ UNCHANGED <<clock, contact, consent, contact_state, tasks, interactions, outbox,
                 history, exec>>

LoopInsert ==
  /\ loop.pc = "insert"
  /\ InsertTask(Head(loop.out.tasks))
  /\ LoopCompletes([loop EXCEPT !.pc = "spawn", !.task = InsertedTask(Head(loop.out.tasks))])
  /\ UNCHANGED <<clock, contact, consent, contact_state, signals, interactions, outbox,
                 history, exec>>

(* start_child_workflow under the id task-exec:{task.id}: one execution    *)
(* per row, whatever else happens to the id afterwards.                    *)
LoopSpawn ==
  /\ loop.pc = "spawn"
  /\ exec' = [t \in DOMAIN exec \cup {loop.task} |->
                IF t \in DOMAIN exec THEN exec[t] ELSE NewExecution]
  /\ loop' = NextTask([loop.out EXCEPT !.tasks = Tail(@)])
  /\ UNCHANGED <<clock, tables, history, budget, pending>>

LoopNext ==
  \/ LoopRegister \/ LoopPop \/ LoopReadContact \/ LoopReadState \/ LoopReadConsent
  \/ LoopDecide \/ LoopPatch \/ LoopCancel \/ LoopMark \/ LoopInsert \/ LoopSpawn
  \/ LoopActivityFails

LoopInit ==
  /\ pending = <<>>
  /\ loop = NoRun
  /\ exec = <<>>

LoopTypeOK ==
  /\ pending \in Seq(DOMAIN signals)
  /\ loop \in LoopRun
=============================================================================
