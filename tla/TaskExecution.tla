--------------------------- MODULE TaskExecution ----------------------------
(***************************************************************************)
(* TaskExecutionWorkflow (workflows/task_execution.py): one execution per  *)
(* task row, started by the contact loop and abandoned to run on its own.  *)
(* It sleeps until the task is due, re-reads the row, re-checks the        *)
(* guardrails, runs the interaction, logs it and emits the signal that     *)
(* closes the loop.  Every step but the guardrail check is an activity,    *)
(* with the same at-least-once behaviour as in ContactLoop.                *)
(***************************************************************************)
EXTENDS ContactLoop

CONSTANTS
  SendAttempts,   \* maximum_attempts of run_interaction and of the sends
  Drafts          \* what run_interaction can return: <<reply?, outcome>>

ASSUME ExecutionAssumption ==
  /\ SendAttempts \in Nat \ {0}
  /\ Drafts \subseteq BOOLEAN \X {"progressed", "handoff_human"}

ExecPc == {"sleep", "contact", "state", "consent", "check", "skip", "start", "interact",
           "send", "log", "emit", "backfill", "deliver", "complete", "done", "failed"}
Execution == [pc: ExecPc, attempt: Nat, contact: ContactStatus, state: ContactState,
              consent: Consent, outcome: Outcome \cup {NoOutcome},
              interaction: Nat, signal: Nat]

ExecAt(t, pc) == t \in DOMAIN exec /\ exec[t].pc = pc

\* Wrong: no retry policy on the interaction and the sends.
MaxAttemptsOnce(pc) == IF pc \in {"interact", "send"} THEN 1 ELSE DefaultAttempts

MaxAttempts(pc) == IF pc \in {"interact", "send"} THEN SendAttempts ELSE DefaultAttempts

(* emit_interaction_result_signal is one activity with three visible steps: *)
(* it is retried from its first.                                           *)
RestartPc(pc) == IF pc \in {"backfill", "deliver"} THEN "emit" ELSE pc

ExecAttemptFails(t) ==
  LET e == exec[t]
  IN  /\ Spend("fault")
      /\ exec' = [exec EXCEPT ![t] =
                    IF e.attempt < MaxAttempts(e.pc)
                    THEN [e EXCEPT !.attempt = e.attempt + 1, !.pc = RestartPc(e.pc)]
                    ELSE [e EXCEPT !.pc = "failed"]]

ExecCompletes(t, next) ==
  \/ exec' = [exec EXCEPT ![t] = [next EXCEPT !.attempt = 1]] /\ UNCHANGED budget
  \/ ExecAttemptFails(t)

ExecActivityFails(t) ==
  /\ t \in DOMAIN exec
  /\ exec[t].pc \notin {"check", "done", "failed"}
  /\ ExecAttemptFails(t)
  /\ UNCHANGED <<clock, tables, history, pending, loop>>

ExecMoves(t, next) ==
  /\ exec' = [exec EXCEPT ![t] = [next EXCEPT !.attempt = 1]]
  /\ UNCHANGED <<clock, tables, budget, pending, loop>>

-----------------------------------------------------------------------------
WakesBarred(t) ==
  (IF consent[TaskChannel(t)] = "revoked" THEN {<<t, "consent">>} ELSE {})
    \cup (IF contact = "dnc" THEN {<<t, "dnc">>} ELSE {})

\* Wrong: the re-read status is not looked at.
ExecWakeRegardless(t) ==
  /\ ExecAt(t, "sleep")
  /\ clock >= tasks[t].scheduled_for
  /\ ExecMoves(t, [exec[t] EXCEPT !.pc = "contact"])
  /\ barred' = barred \cup WakesBarred(t)
  /\ UNCHANGED superseded

(* The durable timer has fired and get_task is answered.  The first        *)
(* get_task only reads scheduled_for, which no one updates.                *)
ExecWake(t) ==
  /\ ExecAt(t, "sleep")
  /\ clock >= tasks[t].scheduled_for
  /\ ExecMoves(t, [exec[t] EXCEPT
                     !.pc = IF tasks[t].status = "canceled" THEN "done" ELSE "contact"])
  /\ barred' = barred \cup WakesBarred(t)
  /\ UNCHANGED superseded

ExecReadContact(t) ==
  /\ ExecAt(t, "contact")
  /\ ExecMoves(t, [exec[t] EXCEPT !.pc = "state", !.contact = contact])
  /\ UNCHANGED history

ExecReadState(t) ==
  /\ ExecAt(t, "state")
  /\ contact_state' = CreatedState
  /\ ExecCompletes(t, [exec[t] EXCEPT !.pc = "consent", !.state = CreatedState])
  /\ UNCHANGED <<clock, contact, consent, signals, tasks, interactions, outbox, history,
                 pending, loop>>

ExecReadConsent(t) ==
  /\ ExecAt(t, "consent")
  /\ ExecMoves(t, [exec[t] EXCEPT !.pc = "check", !.consent = consent[TaskChannel(t)]])
  /\ UNCHANGED history

ExecCheck(t) ==
  /\ ExecAt(t, "check")
  /\ LET denied == RunHardGuardrails(exec[t].contact, exec[t].state, exec[t].consent, clock)
     IN  ExecMoves(t, [NewExecution EXCEPT !.pc = IF denied THEN "skip" ELSE "start"])
  /\ UNCHANGED history

ExecSkip(t) ==
  /\ ExecAt(t, "skip")
  /\ UpdateTaskStatus(t, "skipped_guardrail")
  /\ ExecCompletes(t, [exec[t] EXCEPT !.pc = "done"])
  /\ UNCHANGED <<clock, contact, consent, contact_state, signals, interactions, outbox,
                 history, pending, loop>>

ExecStart(t) ==
  /\ ExecAt(t, "start")
  /\ UpdateTaskStatus(t, "running")
  /\ ExecCompletes(t, [exec[t] EXCEPT
                         !.pc = IF tasks[t].type = "email" THEN "send" ELSE "interact"])
  /\ UNCHANGED <<clock, contact, consent, contact_state, signals, interactions, outbox,
                 history, pending, loop>>

(* run_interaction: the subagent drafts a reply, none at all, or escalates *)
(* to a human.  A reply also stands for a contact with a phone number and  *)
(* an organization that can send.                                          *)
ExecInteract(t) ==
  /\ ExecAt(t, "interact")
  /\ \E draft \in Drafts :
       ExecMoves(t, [exec[t] EXCEPT !.pc = IF draft[1] THEN "send" ELSE "log",
                                    !.outcome = draft[2]])
  /\ UNCHANGED history

ExecSendSms(t) ==
  /\ ExecAt(t, "send")
  /\ tasks[t].type = "sms"
  /\ Send(t)
  /\ ExecCompletes(t, [exec[t] EXCEPT !.pc = "log"])
  /\ UNCHANGED <<clock, contact, consent, contact_state, signals, tasks, interactions,
                 history, pending, loop>>

(* send_post_meeting_email sends nothing, and says so, when there is no    *)
(* recipient or no connected mailbox.                                      *)
ExecSendEmail(t) ==
  /\ ExecAt(t, "send")
  /\ tasks[t].type = "email"
  /\ \/ /\ Send(t)
        /\ ExecCompletes(t, [exec[t] EXCEPT !.pc = "log", !.outcome = "progressed"])
     \/ /\ UNCHANGED outbox
        /\ ExecCompletes(t, [exec[t] EXCEPT !.pc = "log", !.outcome = "no_answer"])
  /\ UNCHANGED <<clock, contact, consent, contact_state, signals, tasks, interactions,
                 history, pending, loop>>

ExecLog(t) ==
  /\ ExecAt(t, "log")
  /\ LogInteraction(t, 0)
  /\ ExecCompletes(t, [exec[t] EXCEPT !.pc = "emit",
                                      !.interaction = NextNth(interactions, t)])
  /\ UNCHANGED <<clock, contact, consent, contact_state, signals, tasks, outbox,
                 history, pending, loop>>

\* The result signal's row is inserted ...
ExecEmit(t) ==
  /\ ExecAt(t, "emit")
  /\ InsertSignal(InteractionResult(TaskChannel(t), exec[t].outcome, tasks[t].goal))
  /\ exec' = [exec EXCEPT ![t].pc = "backfill", ![t].signal = Len(signals) + 1]
  /\ UNCHANGED <<clock, contact, consent, contact_state, tasks, interactions, outbox, budget,
                 history, pending, loop>>

\* ... the interaction's result_signal_id is backfilled ...
ExecBackfill(t) ==
  /\ ExecAt(t, "backfill")
  /\ BackfillResult(t, exec[t].interaction, exec[t].signal)
  /\ exec' = [exec EXCEPT ![t].pc = "deliver"]
  /\ UNCHANGED <<clock, contact, consent, contact_state, signals, tasks, outbox, budget,
                 history, pending, loop>>

\* ... and the signal is handed to the contact's loop.
ExecDeliver(t) ==
  /\ ExecAt(t, "deliver")
  /\ SignalWithStart(exec[t].signal)
  /\ ExecCompletes(t, [exec[t] EXCEPT !.pc = "complete", !.interaction = 0, !.signal = 0,
                                      !.outcome = NoOutcome])
  /\ UNCHANGED <<clock, tables, history>>

ExecComplete(t) ==
  /\ ExecAt(t, "complete")
  /\ UpdateTaskStatus(t, "completed")
  /\ ExecCompletes(t, [exec[t] EXCEPT !.pc = "done"])
  /\ UNCHANGED <<clock, contact, consent, contact_state, signals, interactions, outbox,
                 history, pending, loop>>

ExecRuns(t) ==
  \/ ExecWake(t) \/ ExecReadContact(t) \/ ExecReadState(t) \/ ExecReadConsent(t)
  \/ ExecCheck(t) \/ ExecSkip(t) \/ ExecStart(t) \/ ExecInteract(t) \/ ExecSendSms(t)
  \/ ExecSendEmail(t) \/ ExecLog(t) \/ ExecEmit(t) \/ ExecBackfill(t) \/ ExecDeliver(t)
  \/ ExecComplete(t)

ExecTypeOK ==
  /\ DOMAIN exec \subseteq DOMAIN tasks
  /\ \A t \in DOMAIN exec : exec[t] \in Execution
=============================================================================
