--------------------------- MODULE DeliveryProofs ---------------------------
(***************************************************************************)
(* What a task execution may still send and what it leaves behind, proved  *)
(* for every value of the constants: no message for a nudge that was       *)
(* canceled in its sleep, none to a contact who was barred at the wake-up, *)
(* a life of the task that TaskLifecycle allows, an audit trail for every  *)
(* completed task, and no nudge caused by a nudge.                         *)
(* The invariants speak of where an execution is, so one lemma (ExecEffect)*)
(* first says what any of its steps can do, whichever of them it is.       *)
(* The second half is about counting, and so about the loop too, whose     *)
(* steps LoopEffect sums up: contact_attempts never counts more than the   *)
(* texts that came, in the window that the contact's first text opens      *)
(* fewer replies go out than the frequency cap allows, there are no more   *)
(* nudges than interactions that may call for one and failed attempts, a   *)
(* booked meeting owns the next touch, and a text that was counted is      *)
(* answered unless an activity of the loop used up its attempts.           *)
(***************************************************************************)
EXTENDS AgentLoopProofs

Unsent == {"sleep", "contact", "state", "consent", "check", "skip"}
Sending == {"start", "interact", "send", "log", "emit", "backfill", "deliver", "complete"}

-----------------------------------------------------------------------------
(* The effect of a step of t's execution, which it leaves as e.            *)

SameReads(t, e) ==
  e.contact = exec[t].contact /\ e.state = exec[t].state /\ e.consent = exec[t].consent

Moves(t, e) ==
  LET pc == exec[t].pc
  IN  \/ pc \in Unsent \cup Sending /\ e.pc \in {pc, "failed"} /\ SameReads(t, e)
      \/ pc = "sleep" /\ e.pc = "contact" /\ tasks[t].status # "canceled"
      \/ pc = "sleep" /\ e.pc = "done"
      \/ pc = "contact" /\ e.pc = "state" /\ e.contact = contact
      \/ pc = "state" /\ e.pc = "consent" /\ e.contact = exec[t].contact
           /\ e.state = CreatedState
      \/ pc = "consent" /\ e.pc = "check" /\ e.contact = exec[t].contact
           /\ e.state = exec[t].state /\ e.consent = consent[TaskChannel(t)]
      \/ pc = "check" /\ e.pc = "skip"
      \/ pc = "check" /\ e.pc = "start" /\ exec[t].contact # "dnc" /\ exec[t].consent # "revoked"
           /\ ~CheckFrequencyCap(exec[t].state, clock)
      \/ pc = "skip" /\ e.pc = "done"
      \/ pc \in Sending /\ e.pc \in Sending \cup {"done", "failed"}

Sends(t) ==
  \/ outbox' = outbox
  \/ exec[t].pc = "send" /\ \A row \in outbox' :
                              row \in outbox \/ (row.task = t /\ row.at = clock)

Wakes(t, e) ==
  \/ barred' = barred
  \/ exec[t].pc = "sleep" /\ e.pc \in {"contact", "done"} /\ barred' = barred \cup WakesBarred(t)

Writes(t) ==
  /\ DOMAIN tasks' = DOMAIN tasks
  /\ \A u \in DOMAIN tasks : /\ tasks'[u].idempotency_key = tasks[u].idempotency_key
                             /\ tasks'[u].type = tasks[u].type
                             /\ u # t => tasks'[u].status = tasks[u].status
  /\ exec[t].pc \notin {"skip"} \cup Sending => tasks' = tasks

Effect(t, e) ==
  /\ exec' = [exec EXCEPT ![t] = e]
  /\ Moves(t, e)
  /\ Sends(t)
  /\ Wakes(t, e)
  /\ Writes(t)
  /\ UNCHANGED <<contact, consent, superseded>>

\* A step that leaves the tasks table alone writes nothing a property minds.
LEMMA NothingWritten ==
  ASSUME NEW t, UNCHANGED tasks
  PROVE  Writes(t)
  BY DEF Writes

\* update_task_status touches the status of the execution's own row only.
LEMMA StatusWritten ==
  ASSUME tasks \in Seq(TaskRow), NEW t, NEW status,
         UpdateTaskStatus(t, status), exec[t].pc \in {"skip"} \cup Sending
  PROVE  Writes(t)
  <1>1. ASSUME NEW u \in DOMAIN tasks
        PROVE  /\ tasks'[u].idempotency_key = tasks[u].idempotency_key
               /\ tasks'[u].type = tasks[u].type
               /\ u # t => tasks'[u].status = tasks[u].status
    <2>1. tasks[u] \in TaskRow
      BY ElementOfSeq, LenProperties
    <2>2. [tasks[u] EXCEPT !.status = status].idempotency_key = tasks[u].idempotency_key
          /\ [tasks[u] EXCEPT !.status = status].type = tasks[u].type
      BY <2>1 DEF TaskRow
    <2>3. tasks'[u] = IF u = t THEN [tasks[u] EXCEPT !.status = status] ELSE tasks[u]
      BY LenProperties DEF UpdateTaskStatus
    <2> QED
      BY <2>2, <2>3
  <1>2. DOMAIN tasks' = DOMAIN tasks
    BY LenProperties DEF UpdateTaskStatus
  <1> QED
    BY <1>1, <1>2 DEF Writes

\* A send adds messages of the execution's own task only.
LEMMA MessageSent ==
  ASSUME NEW t, Send(t), exec[t].pc = "send"
  PROVE  Sends(t)
  BY DEF Sends, Send

(* A failed attempt leaves the execution where it was or ends it.          *)
LEMMA FailedAttempt ==
  ASSUME NEW t \in DOMAIN exec, exec[t] \in Execution,
         exec[t].pc \in Unsent \cup Sending, ExecAttemptFails(t)
  PROVE  \E e : exec' = [exec EXCEPT ![t] = e] /\ Moves(t, e)
  <1>1. CASE exec[t].attempt < MaxAttempts(exec[t].pc)
    <2> DEFINE e == [exec[t] EXCEPT !.attempt = exec[t].attempt + 1,
                                    !.pc = RestartPc(exec[t].pc)]
    <2>1. exec' = [exec EXCEPT ![t] = e]
      BY <1>1 DEF ExecAttemptFails
    <2>2. e.pc = RestartPc(exec[t].pc) /\ SameReads(t, e)
      BY DEF Execution, SameReads
    <2> HIDE DEF e
    <2>3. Moves(t, e)
      BY <2>2 DEF Moves, RestartPc, Unsent, Sending
    <2> QED
      BY <2>1, <2>3
  <1>2. CASE ~(exec[t].attempt < MaxAttempts(exec[t].pc))
    <2> DEFINE e == [exec[t] EXCEPT !.pc = "failed"]
    <2>1. exec' = [exec EXCEPT ![t] = e]
      BY <1>2 DEF ExecAttemptFails
    <2>2. e.pc = "failed" /\ SameReads(t, e)
      BY DEF Execution, SameReads
    <2> HIDE DEF e
    <2>3. Moves(t, e)
      BY <2>2 DEF Moves
    <2> QED
      BY <2>1, <2>3
  <1> QED
    BY <1>1, <1>2

\* The attempt counter plays no part in where an execution goes.
LEMMA AttemptReset ==
  ASSUME NEW t, NEW next \in Execution, Moves(t, next)
  PROVE  Moves(t, [next EXCEPT !.attempt = 1])
  <1> DEFINE e == [next EXCEPT !.attempt = 1]
  <1>1. /\ e.pc = next.pc /\ e.contact = next.contact
        /\ e.state = next.state /\ e.consent = next.consent
    BY DEF Execution
  <1> HIDE DEF e
  <1>2. Moves(t, e)
    BY <1>1 DEF Moves, SameReads
  <1> QED
    BY <1>2 DEF e

\* An activity's completion moves the execution on; a lost one is a failed attempt.
LEMMA CompletedAttempt ==
  ASSUME NEW t \in DOMAIN exec, exec[t] \in Execution, exec[t].pc \in Unsent \cup Sending,
         NEW next \in Execution, Moves(t, next), ExecCompletes(t, next)
  PROVE  \E e : exec' = [exec EXCEPT ![t] = e] /\ Moves(t, e)
  BY AttemptReset, FailedAttempt DEF ExecCompletes

(* Whatever step an execution takes, it is one of Moves and sends and      *)
(* writes no more than Sends and Writes allow.                             *)
LEMMA ExecEffect ==
  ASSUME TypeInv, NEW t \in DOMAIN exec, ExecutionRuns(t) \/ ExecutionFails(t)
  PROVE  \E e : Effect(t, e)
  <1>a. exec[t] \in Execution /\ tasks \in Seq(TaskRow)
    BY DEF TypeInv, ExecInv, GoodExecution, StoreInv, StoreTypeOK
  <1>1. CASE ExecWake(t)
    <2> DEFINE next == [exec[t] EXCEPT
                          !.pc = IF tasks[t].status = "canceled" THEN "done" ELSE "contact"]
    <2>1. next \in Execution /\ Moves(t, next)
      BY <1>1, <1>a DEF ExecWake, ExecAt, Moves, Execution, ExecPc
    <2>2. exec' = [exec EXCEPT ![t] = [next EXCEPT !.attempt = 1]]
      BY <1>1 DEF ExecWake, ExecMoves
    <2>3. [next EXCEPT !.attempt = 1].pc \in {"contact", "done"}
      BY <1>a DEF Execution
    <2> HIDE DEF next
    <2>4. Moves(t, [next EXCEPT !.attempt = 1])
      BY <2>1, AttemptReset
    <2>5. Sends(t) /\ Writes(t) /\ UNCHANGED <<contact, consent, superseded>>
      BY <1>1, NothingWritten DEF ExecWake, ExecMoves, tables, Sends
    <2>6. exec[t].pc = "sleep" /\ barred' = barred \cup WakesBarred(t)
      BY <1>1 DEF ExecWake, ExecAt
    <2> QED
      BY <2>2, <2>3, <2>4, <2>5, <2>6 DEF Effect, Wakes
  <1>2. CASE ExecReadContact(t)
    <2> DEFINE next == [exec[t] EXCEPT !.pc = "state", !.contact = contact]
    <2>1. next \in Execution /\ Moves(t, next)
      BY <1>2, <1>a DEF ExecReadContact, ExecAt, Moves, Execution, ExecPc, TypeInv,
         StoreInv, StoreTypeOK
    <2>2. exec' = [exec EXCEPT ![t] = [next EXCEPT !.attempt = 1]]
      BY <1>2 DEF ExecReadContact, ExecMoves
    <2> HIDE DEF next
    <2>3. Moves(t, [next EXCEPT !.attempt = 1])
      BY <2>1, AttemptReset
    <2>4. Sends(t) /\ Writes(t) /\ UNCHANGED <<contact, consent, superseded, barred>>
      BY <1>2, NothingWritten DEF ExecReadContact, ExecMoves, tables, history, Sends
    <2> QED
      BY <2>2, <2>3, <2>4 DEF Effect, Wakes
  <1>3. CASE ExecReadState(t)
    <2> DEFINE next == [exec[t] EXCEPT !.pc = "consent", !.state = CreatedState]
    <2>1. next \in Execution /\ Moves(t, next) /\ exec[t].pc \in Unsent \cup Sending
      BY <1>3, <1>a, CreatedStateType DEF ExecReadState, ExecAt, Moves, Execution, ExecPc, TypeInv,
         StoreInv, StoreTypeOK, Unsent
    <2>2. ExecCompletes(t, next)
      BY <1>3 DEF ExecReadState
    <2> HIDE DEF next
    <2>3. PICK e : exec' = [exec EXCEPT ![t] = e] /\ Moves(t, e)
      BY <1>a, <2>1, <2>2, CompletedAttempt
    <2>4. Sends(t) /\ Writes(t) /\ UNCHANGED <<contact, consent, superseded, barred>>
      BY <1>3, NothingWritten DEF ExecReadState, history, Sends
    <2> QED
      BY <2>3, <2>4 DEF Effect, Wakes
  <1>4. CASE ExecReadConsent(t)
    <2> DEFINE next == [exec[t] EXCEPT !.pc = "check", !.consent = consent[TaskChannel(t)]]
    <2>1. next \in Execution /\ Moves(t, next)
      BY <1>4, <1>a, TaskChannelType DEF ExecReadConsent, ExecAt, Moves, Execution, ExecPc, TypeInv,
         StoreInv, StoreTypeOK
    <2>2. exec' = [exec EXCEPT ![t] = [next EXCEPT !.attempt = 1]]
      BY <1>4 DEF ExecReadConsent, ExecMoves
    <2> HIDE DEF next
    <2>3. Moves(t, [next EXCEPT !.attempt = 1])
      BY <2>1, AttemptReset
    <2>4. Sends(t) /\ Writes(t) /\ UNCHANGED <<contact, consent, superseded, barred>>
      BY <1>4, NothingWritten DEF ExecReadConsent, ExecMoves, tables, history, Sends
    <2> QED
      BY <2>2, <2>3, <2>4 DEF Effect, Wakes
  <1>5. CASE ExecCheck(t)
    <2> DEFINE denied == RunHardGuardrails(exec[t].contact, exec[t].state, exec[t].consent, clock)
               next == [NewExecution EXCEPT !.pc = IF denied THEN "skip" ELSE "start"]
    <2>1. next \in Execution
      BY NewExecutionType DEF GoodExecution, Execution, ExecPc
    <2>2. Moves(t, next)
      <3>1. exec[t].pc = "check"
        BY <1>5 DEF ExecCheck, ExecAt
      <3>2. next.pc = IF denied THEN "skip" ELSE "start"
        BY NewExecutionType DEF GoodExecution, Execution
      <3>3. ~denied => /\ exec[t].contact # "dnc" /\ exec[t].consent # "revoked"
                       /\ ~CheckFrequencyCap(exec[t].state, clock)
        BY DEF RunHardGuardrails, CheckDnc, CheckConsent
      <3> HIDE DEF denied, next
      <3> QED
        BY <3>1, <3>2, <3>3 DEF Moves
    <2>3. exec' = [exec EXCEPT ![t] = [next EXCEPT !.attempt = 1]]
      BY <1>5 DEF ExecCheck, ExecMoves
    <2> HIDE DEF next
    <2>4. Moves(t, [next EXCEPT !.attempt = 1])
      BY <2>1, <2>2, AttemptReset
    <2>5. Sends(t) /\ Writes(t) /\ UNCHANGED <<contact, consent, superseded, barred>>
      BY <1>5, NothingWritten DEF ExecCheck, ExecMoves, tables, history, Sends
    <2> QED
      BY <2>3, <2>4, <2>5 DEF Effect, Wakes
  <1>6. CASE ExecSkip(t)
    <2> DEFINE next == [exec[t] EXCEPT !.pc = "done"]
    <2>1. next \in Execution /\ Moves(t, next) /\ exec[t].pc \in Unsent \cup Sending
      BY <1>6, <1>a DEF ExecSkip, ExecAt, Moves, Execution, ExecPc, Unsent
    <2>2. ExecCompletes(t, next)
      BY <1>6 DEF ExecSkip
    <2> HIDE DEF next
    <2>3. PICK e : exec' = [exec EXCEPT ![t] = e] /\ Moves(t, e)
      BY <1>a, <2>1, <2>2, CompletedAttempt
    <2>4. Sends(t) /\ Writes(t) /\ UNCHANGED <<contact, consent, superseded, barred>>
      BY <1>6, <1>a, StatusWritten DEF ExecSkip, ExecAt, history, Sends, Sending
    <2> QED
      BY <2>3, <2>4 DEF Effect, Wakes
  <1>7. CASE ExecStart(t)
    <2> DEFINE next == [exec[t] EXCEPT
                          !.pc = IF tasks[t].type = "email" THEN "send" ELSE "interact"]
    <2>1. next \in Execution /\ Moves(t, next) /\ exec[t].pc \in Unsent \cup Sending
      BY <1>7, <1>a DEF ExecStart, ExecAt, Moves, Execution, ExecPc, Sending
    <2>2. ExecCompletes(t, next)
      BY <1>7 DEF ExecStart
    <2> HIDE DEF next
    <2>3. PICK e : exec' = [exec EXCEPT ![t] = e] /\ Moves(t, e)
      BY <1>a, <2>1, <2>2, CompletedAttempt
    <2>4. Sends(t) /\ Writes(t) /\ UNCHANGED <<contact, consent, superseded, barred>>
      BY <1>7, <1>a, StatusWritten DEF ExecStart, ExecAt, history, Sends, Sending
    <2> QED
      BY <2>3, <2>4 DEF Effect, Wakes
  <1>8. CASE ExecInteract(t)
    <2>1. PICK draft \in Drafts :
            ExecMoves(t, [exec[t] EXCEPT !.pc = IF draft[1] THEN "send" ELSE "log",
                                         !.outcome = draft[2]])
      BY <1>8 DEF ExecInteract
    <2> DEFINE next == [exec[t] EXCEPT !.pc = IF draft[1] THEN "send" ELSE "log",
                                       !.outcome = draft[2]]
    <2>2. draft[2] \in Outcome
      BY ExecutionAssumption DEF Outcome, TERMINAL_OUTCOMES
    <2>3. next \in Execution /\ Moves(t, next)
      BY <1>8, <1>a, <2>2 DEF ExecInteract, ExecAt, Moves, Execution, ExecPc, Sending
    <2>4. exec' = [exec EXCEPT ![t] = [next EXCEPT !.attempt = 1]]
      BY <2>1 DEF ExecMoves
    <2>5. Sends(t) /\ Writes(t) /\ UNCHANGED <<contact, consent, superseded, barred>>
      BY <1>8, <2>1, NothingWritten DEF ExecInteract, ExecMoves, tables, history, Sends
    <2> HIDE DEF next
    <2>6. Moves(t, [next EXCEPT !.attempt = 1])
      BY <2>3, AttemptReset
    <2> QED
      BY <2>4, <2>5, <2>6 DEF Effect, Wakes
  <1>9. CASE ExecSendSms(t)
    <2> DEFINE next == [exec[t] EXCEPT !.pc = "log"]
    <2>1. next \in Execution /\ Moves(t, next) /\ exec[t].pc \in Unsent \cup Sending
      BY <1>9, <1>a DEF ExecSendSms, ExecAt, Moves, Execution, ExecPc, Sending
    <2>2. ExecCompletes(t, next)
      BY <1>9 DEF ExecSendSms
    <2> HIDE DEF next
    <2>3. PICK e : exec' = [exec EXCEPT ![t] = e] /\ Moves(t, e)
      BY <1>a, <2>1, <2>2, CompletedAttempt
    <2>4. Sends(t) /\ Writes(t) /\ UNCHANGED <<contact, consent, superseded, barred>>
      BY <1>9, NothingWritten, MessageSent DEF ExecSendSms, ExecAt, history
    <2> QED
      BY <2>3, <2>4 DEF Effect, Wakes
  <1>10. CASE ExecSendEmail(t)
    <2>1. PICK o \in {"progressed", "no_answer"} :
            ExecCompletes(t, [exec[t] EXCEPT !.pc = "log", !.outcome = o])
      BY <1>10 DEF ExecSendEmail
    <2> DEFINE next == [exec[t] EXCEPT !.pc = "log", !.outcome = o]
    <2>2. next \in Execution /\ Moves(t, next) /\ exec[t].pc \in Unsent \cup Sending
      BY <1>10, <1>a DEF ExecSendEmail, ExecAt, Moves, Execution, ExecPc, Sending, Outcome
    <2>3. ExecCompletes(t, next)
      BY <2>1
    <2> HIDE DEF next
    <2>4. PICK e : exec' = [exec EXCEPT ![t] = e] /\ Moves(t, e)
      BY <1>a, <2>2, <2>3, CompletedAttempt
    <2>5. Sends(t)
      BY <1>10, MessageSent DEF ExecSendEmail, ExecAt, Sends
    <2>6. Writes(t) /\ UNCHANGED <<contact, consent, superseded, barred>>
      BY <1>10, NothingWritten DEF ExecSendEmail, history
    <2> QED
      BY <2>4, <2>5, <2>6 DEF Effect, Wakes
  <1>11. CASE ExecLog(t)
    <2> DEFINE next == [exec[t] EXCEPT !.pc = "emit", !.interaction = NextNth(interactions, t)]
    <2>1. next \in Execution /\ Moves(t, next) /\ exec[t].pc \in Unsent \cup Sending
      BY <1>11, <1>a, NextNthType DEF ExecLog, ExecAt, Moves, Execution, ExecPc, Sending,
         TypeInv, StoreInv, Finite
    <2>2. ExecCompletes(t, next)
      BY <1>11 DEF ExecLog
    <2> HIDE DEF next
    <2>3. PICK e : exec' = [exec EXCEPT ![t] = e] /\ Moves(t, e)
      BY <1>a, <2>1, <2>2, CompletedAttempt
    <2>4. Sends(t) /\ Writes(t) /\ UNCHANGED <<contact, consent, superseded, barred>>
      BY <1>11, NothingWritten DEF ExecLog, history, Sends
    <2> QED
      BY <2>3, <2>4 DEF Effect, Wakes
  <1>12. CASE ExecEmit(t)
    <2> DEFINE e == [exec[t] EXCEPT !.pc = "backfill", !.signal = Len(signals) + 1]
    <2>1. exec' = [exec EXCEPT ![t] = e]
      BY <1>12 DEF ExecEmit
    <2>2. Moves(t, e)
      BY <1>12, <1>a DEF ExecEmit, ExecAt, Moves, Execution, ExecPc, Sending
    <2> HIDE DEF e
    <2>3. Sends(t) /\ Writes(t) /\ UNCHANGED <<contact, consent, superseded, barred>>
      BY <1>12, NothingWritten DEF ExecEmit, history, Sends
    <2> QED
      BY <2>1, <2>2, <2>3 DEF Effect, Wakes
  <1>13. CASE ExecBackfill(t)
    <2> DEFINE e == [exec[t] EXCEPT !.pc = "deliver"]
    <2>1. exec' = [exec EXCEPT ![t] = e]
      BY <1>13 DEF ExecBackfill
    <2>2. Moves(t, e)
      BY <1>13, <1>a DEF ExecBackfill, ExecAt, Moves, Execution, ExecPc, Sending
    <2> HIDE DEF e
    <2>3. Sends(t) /\ Writes(t) /\ UNCHANGED <<contact, consent, superseded, barred>>
      BY <1>13, NothingWritten DEF ExecBackfill, history, Sends
    <2> QED
      BY <2>1, <2>2, <2>3 DEF Effect, Wakes
  <1>14. CASE ExecDeliver(t)
    <2> DEFINE next == [exec[t] EXCEPT !.pc = "complete", !.interaction = 0, !.signal = 0,
                                       !.outcome = NoOutcome]
    <2>1. next \in Execution /\ Moves(t, next) /\ exec[t].pc \in Unsent \cup Sending
      BY <1>14, <1>a DEF ExecDeliver, ExecAt, Moves, Execution, ExecPc, Sending
    <2>2. ExecCompletes(t, next)
      BY <1>14 DEF ExecDeliver
    <2> HIDE DEF next
    <2>3. PICK e : exec' = [exec EXCEPT ![t] = e] /\ Moves(t, e)
      BY <1>a, <2>1, <2>2, CompletedAttempt
    <2>4. Sends(t) /\ Writes(t) /\ UNCHANGED <<contact, consent, superseded, barred>>
      BY <1>14, NothingWritten DEF ExecDeliver, tables, history, Sends
    <2> QED
      BY <2>3, <2>4 DEF Effect, Wakes
  <1>15. CASE ExecComplete(t)
    <2> DEFINE next == [exec[t] EXCEPT !.pc = "done"]
    <2>1. next \in Execution /\ Moves(t, next) /\ exec[t].pc \in Unsent \cup Sending
      BY <1>15, <1>a DEF ExecComplete, ExecAt, Moves, Execution, ExecPc, Sending
    <2>2. ExecCompletes(t, next)
      BY <1>15 DEF ExecComplete
    <2> HIDE DEF next
    <2>3. PICK e : exec' = [exec EXCEPT ![t] = e] /\ Moves(t, e)
      BY <1>a, <2>1, <2>2, CompletedAttempt
    <2>4. Sends(t) /\ Writes(t) /\ UNCHANGED <<contact, consent, superseded, barred>>
      BY <1>15, <1>a, StatusWritten DEF ExecComplete, ExecAt, history, Sends, Sending
    <2> QED
      BY <2>3, <2>4 DEF Effect, Wakes
  <1>16. CASE ExecutionFails(t)
    <2>1. exec[t].pc \in Unsent \cup Sending
      BY <1>16, <1>a DEF ExecutionFails, ExecActivityFails, Execution, ExecPc, Unsent, Sending
    <2>2. PICK e : exec' = [exec EXCEPT ![t] = e] /\ Moves(t, e)
      BY <1>16, <1>a, <2>1, FailedAttempt DEF ExecutionFails, ExecActivityFails
    <2>3. Sends(t) /\ Writes(t) /\ UNCHANGED <<contact, consent, superseded, barred>>
      BY <1>16, NothingWritten DEF ExecutionFails, ExecActivityFails, tables, history, Sends
    <2> QED
      BY <2>2, <2>3 DEF Effect, Wakes
  <1> QED
    BY <1>1, <1>2, <1>3, <1>4, <1>5, <1>6, <1>7, <1>8, <1>9, <1>10, <1>11, <1>12, <1>13,
       <1>14, <1>15, <1>16
       DEF ExecutionRuns, ExecRuns

-----------------------------------------------------------------------------
(* The effect of any other step, the loop's, a handler's or the clock's.   *)

Spawns ==
  /\ \A t \in DOMAIN exec : t \in DOMAIN exec' /\ exec'[t] = exec[t]
  /\ \A t \in DOMAIN exec' : t \notin DOMAIN exec => exec'[t].pc = "sleep"

Cancels ==
  \A t \in DOMAIN tasks : /\ t \in DOMAIN tasks'
                          /\ tasks'[t].idempotency_key = tasks[t].idempotency_key
                          /\ tasks'[t].type = tasks[t].type
                          /\ tasks[t].status = "canceled" => tasks'[t].status = "canceled"

Inserts ==
  \A t, u \in DOMAIN tasks' :
    t \notin DOMAIN tasks /\ tasks'[t].idempotency_key = tasks'[u].idempotency_key => t = u

Supersedes ==
  /\ superseded \subseteq superseded'
  /\ \A t \in superseded' :
       t \notin superseded => /\ t \in DOMAIN tasks
                             /\ tasks'[t].status = "canceled"
                             /\ NotYetReread(t)

Lifts ==
  /\ barred' \subseteq barred
  /\ \A b \in barred' :
       IF b[2] = "consent"
       THEN consent[TaskChannel(b[1])] = "revoked" => consent'[TaskChannel(b[1])] = "revoked"
       ELSE contact = "dnc" => contact' = "dnc"

OtherEffect == outbox' = outbox /\ Spawns /\ Cancels /\ Inserts /\ Supersedes /\ Lifts

\* A step that leaves all of this alone is harmless.
LEMMA NothingElse ==
  ASSUME UNCHANGED <<outbox, exec, tasks, history, contact, consent>>
  PROVE  OtherEffect
  BY DEF OtherEffect, Spawns, Cancels, Inserts, Supersedes, Lifts, history

\* INSERT adds one row at the end and leaves the others.
LEMMA AppendedRow ==
  ASSUME NEW S, NEW table \in Seq(S), NEW row
  PROVE  /\ \A i \in DOMAIN table : /\ i \in DOMAIN Append(table, row)
                                    /\ Append(table, row)[i] = table[i]
         /\ \A i \in DOMAIN Append(table, row) :
              i \notin DOMAIN table => i = Len(table) + 1 /\ Append(table, row)[i] = row
  BY LenProperties

(* The loop, the handlers and the clock send nothing, start executions     *)
(* asleep, and revive no canceled task.                                    *)
LEMMA OtherSteps ==
  ASSUME TypeInv,
         \/ UNCHANGED vars \/ Tick \/ Loop \/ World
         \/ \E r \in requests : RequestRuns(r) \/ RequestFails(r) \/ RequestDies(r)
  PROVE  OtherEffect
  <1>1. CASE UNCHANGED vars
    BY <1>1, NothingElse DEF vars, tables, history
  <1>2. CASE Tick
    BY <1>2, NothingElse DEF Tick, tables, history
  <1>3. CASE Loop
    <2>1. CASE LoopCancel
      <3>1. DOMAIN tasks' = DOMAIN tasks /\ exec' = exec /\ outbox' = outbox
            /\ UNCHANGED <<barred, consent, contact>>
        BY <2>1 DEF LoopCancel, CancelScheduledFollowUps
      <3>2. ASSUME NEW t \in DOMAIN tasks
            PROVE  /\ tasks'[t].idempotency_key = tasks[t].idempotency_key
                   /\ tasks'[t].type = tasks[t].type
                   /\ tasks[t].status = "canceled" => tasks'[t].status = "canceled"
                   /\ IsPendingFollowUp(t) => tasks'[t].status = "canceled"
        <4>1. tasks[t] \in TaskRow
          BY ElementOfSeq, LenProperties DEF TypeInv, StoreInv, StoreTypeOK
        <4>2. /\ [tasks[t] EXCEPT !.status = "canceled"].idempotency_key
                   = tasks[t].idempotency_key
              /\ [tasks[t] EXCEPT !.status = "canceled"].type = tasks[t].type
              /\ [tasks[t] EXCEPT !.status = "canceled"].status = "canceled"
          BY <4>1 DEF TaskRow
        <4>3. tasks'[t] = IF IsPendingFollowUp(t) THEN [tasks[t] EXCEPT !.status = "canceled"]
                          ELSE tasks[t]
          BY <2>1 DEF LoopCancel, CancelScheduledFollowUps
        <4> QED
          BY <4>2, <4>3
      <3>3. superseded' = superseded \cup
              {t \in DOMAIN tasks : IsPendingFollowUp(t) /\ NotYetReread(t)}
        BY <2>1 DEF LoopCancel
      <3> QED
        BY <3>1, <3>2, <3>3 DEF OtherEffect, Spawns, Cancels, Inserts, Supersedes, Lifts
    <2>2. CASE LoopInsert
      <3>1. UNCHANGED <<outbox, exec, history, contact, consent>>
        BY <2>2 DEF LoopInsert
      <3>2. (\A t \in DOMAIN tasks : t \in DOMAIN tasks' /\ tasks'[t] = tasks[t]) /\ Inserts
        <4> DEFINE row == NewTaskRow(Head(loop.out.tasks))
        <4>1. \/ tasks' = tasks
              \/ /\ tasks' = Append(tasks, row)
                 /\ TasksWithKey(row.idempotency_key) = {}
          BY <2>2 DEF LoopInsert, InsertTask, NewTaskRow
        <4> HIDE DEF row
        <4>2. CASE tasks' = tasks
          BY <4>2 DEF Inserts
        <4>3. CASE tasks' = Append(tasks, row) /\ TasksWithKey(row.idempotency_key) = {}
          <5>1. \A u \in DOMAIN tasks : tasks[u].idempotency_key # row.idempotency_key
            BY <4>3 DEF TasksWithKey
          <5>2. \A u \in DOMAIN tasks : u \in DOMAIN tasks' /\ tasks'[u] = tasks[u]
            BY <4>3, AppendedRow DEF TypeInv, StoreInv, StoreTypeOK
          <5>3. \A u \in DOMAIN tasks' :
                  u \notin DOMAIN tasks => u = Len(tasks) + 1 /\ tasks'[u] = row
            BY <4>3, AppendedRow DEF TypeInv, StoreInv, StoreTypeOK
          <5> QED
            BY <5>1, <5>2, <5>3 DEF Inserts
        <4> QED
          BY <4>1, <4>2, <4>3
      <3> QED
        BY <3>1, <3>2 DEF OtherEffect, Spawns, Cancels, Supersedes, Lifts, history
    <2>3. CASE LoopSpawn
      BY <2>3 DEF LoopSpawn, NewExecution, OtherEffect, Spawns, Cancels, Inserts, Supersedes, Lifts,
         tables, history
    <2>4. CASE \/ LoopRegister \/ LoopPop \/ LoopReadContact \/ LoopReadState
               \/ LoopReadConsent \/ LoopDecide \/ LoopPatch \/ LoopMark \/ LoopActivityFails
      BY <2>4, NothingElse
         DEF LoopRegister, LoopPop, LoopReadContact, LoopReadState, LoopReadConsent, LoopDecide,
             LoopPatch, LoopMark, LoopActivityFails, tables, history
    <2> QED
      BY <1>3, <2>1, <2>2, <2>3, <2>4 DEF Loop, LoopNext
  <1>4. CASE World
    <2>1. ASSUME NEW status \in ContactStatus, UpdateContact(status)
          PROVE  OtherEffect
      <3>1. /\ barred' \subseteq barred
            /\ \A b \in barred' : b[2] # "consent" /\ contact = "dnc" => contact' = "dnc"
        BY <2>1 DEF UpdateContact, ContactStatus
      <3> QED
        BY <2>1, <3>1 DEF UpdateContact, OtherEffect, Spawns, Cancels, Inserts, Supersedes, Lifts
    <2>2. ASSUME NEW m \in Messages, ReceiveSms(m)
          PROVE  OtherEffect
      BY <2>2, NothingElse DEF ReceiveSms
    <2>3. ASSUME NEW outcome \in VoiceOutcomes, FinalizeVoiceSession(outcome)
          PROVE  OtherEffect
      BY <2>3, NothingElse DEF FinalizeVoiceSession
    <2>4. ASSUME NEW due \in MeetingEnds, ScheduleMeeting(due)
          PROVE  OtherEffect
      BY <2>4, NothingElse DEF ScheduleMeeting
    <2> QED
      BY <1>4, <2>1, <2>2, <2>3, <2>4 DEF World
  <1>5. ASSUME NEW r \in requests, RequestRuns(r) \/ RequestFails(r) \/ RequestDies(r)
        PROVE  OtherEffect
    <2>1. CASE RecordSmsConsent(r)
      <3>1. UNCHANGED <<outbox, exec, tasks, superseded, contact>> /\ barred' \subseteq barred
        BY <2>1 DEF RecordSmsConsent
      <3>2. ASSUME NEW b \in barred', b[2] = "consent",
                   consent[TaskChannel(b[1])] = "revoked"
            PROVE  consent'[TaskChannel(b[1])] = "revoked"
        <4>1. consent \in [Channel -> Consent] /\ TaskChannel(b[1]) \in Channel
          BY TaskChannelType DEF TypeInv, StoreInv, StoreTypeOK
        <4> QED
          BY <2>1, <3>2, <4>1 DEF RecordSmsConsent
      <3> QED
        BY <3>1, <3>2 DEF OtherEffect, Spawns, Cancels, Inserts, Supersedes, Lifts
    <2>2. CASE \/ ConfirmKeyword(r) \/ EmitCallResult(r) \/ BackfillCallResult(r) \/ Dispatch(r)
               \/ MarkDelivered(r) \/ RequestFails(r) \/ RequestDies(r)
      BY <2>2, NothingElse
         DEF ConfirmKeyword, EmitCallResult, BackfillCallResult, Dispatch, MarkDelivered,
             RequestFails, RequestDies, tables, history
    <2> QED
      BY <1>5, <2>1, <2>2 DEF RequestRuns
  <1> QED
    BY <1>1, <1>2, <1>3, <1>4, <1>5

-----------------------------------------------------------------------------
(* The invariants, each the property with what keeps it.                   *)

\* A message that is out belongs to an execution past its guardrail check.
SentInv ==
  \A row \in outbox : row.task \in DOMAIN exec /\ exec[row.task].pc \notin Unsent

\* A superseded task stays canceled, and its execution has not begun to work.
SupersededInv ==
  /\ SupersededNeverSent
  /\ \A t \in superseded :
       /\ t \in DOMAIN tasks
       /\ tasks[t].status = "canceled"
       /\ t \in DOMAIN exec => exec[t].pc \in {"sleep", "done", "failed"}

\* Whoever is barred is still barred, and an execution that has read as much knows.
StillBarred(t, why) ==
  IF why = "consent"
  THEN /\ consent[TaskChannel(t)] = "revoked"
       /\ exec[t].pc = "check" => exec[t].consent = "revoked"
  ELSE /\ contact = "dnc"
       /\ exec[t].pc \in {"state", "consent", "check"} => exec[t].contact = "dnc"

BarredInv ==
  /\ BarredNeverSent
  /\ \A b \in barred :
       /\ b[1] \in DOMAIN exec
       /\ exec[b[1]].pc \in (Unsent \ {"sleep"}) \cup {"done", "failed"}
       /\ StillBarred(b[1], b[2])

DeliveryInv == SentInv /\ SupersededInv /\ BarredInv

(* A step of an execution keeps the invariants: from sleep it goes to work *)
(* only when its row is not canceled, and from the check only when it read *)
(* no bar.                                                                 *)
LEMMA ExecKeepsDelivery ==
  ASSUME TypeInv, DeliveryInv, NEW t \in DOMAIN exec, NEW e, Effect(t, e)
  PROVE  DeliveryInv'
  <1> USE DEF DeliveryInv
  <1>1. SentInv'
    BY DEF SentInv, Effect, Moves, Sends, Unsent, Sending
  <1>2. SupersededInv'
    <2>1. \A row \in outbox' : row \in outbox \/ (row.task = t /\ exec[t].pc = "send")
      BY DEF Effect, Sends
    <2>2. SupersededNeverSent'
      BY <2>1 DEF SupersededInv, SupersededNeverSent, Effect
    <2>3. ASSUME NEW u \in superseded'
          PROVE  /\ u \in DOMAIN tasks'
                 /\ tasks'[u].status = "canceled"
                 /\ u \in DOMAIN exec' => exec'[u].pc \in {"sleep", "done", "failed"}
      BY DEF SupersededInv, Effect, Moves, Writes, Unsent, Sending
    <2> QED
      BY <2>2, <2>3 DEF SupersededInv
  <1>3. BarredInv'
    <2>1. \A row \in outbox' : row \in outbox \/ (row.task = t /\ exec[t].pc = "send")
      BY DEF Effect, Sends
    <2>2. \A b \in barred' : \/ b \in barred
                             \/ /\ exec[t].pc = "sleep"
                                /\ e.pc \in {"contact", "done"}
                                /\ b \in WakesBarred(t)
      BY DEF Effect, Wakes
    <2>3. BarredNeverSent'
      BY <2>1, <2>2 DEF BarredInv, BarredNeverSent, SentInv, Unsent, WakesBarred
    <2>4. ASSUME NEW b \in barred'
          PROVE  /\ b[1] \in DOMAIN exec'
                 /\ exec'[b[1]].pc \in (Unsent \ {"sleep"}) \cup {"done", "failed"}
                 /\ StillBarred(b[1], b[2])'
      <3>1. TaskChannel(t)' = TaskChannel(t) /\ consent' = consent /\ contact' = contact
        BY DEF TaskChannel, Effect, Writes, TypeInv, ExecInv
      <3>2. CASE b \in barred /\ b[1] # t
        <4>1. b[1] \in DOMAIN exec' /\ exec'[b[1]] = exec[b[1]]
          BY <3>2 DEF BarredInv, Effect
        <4>2. TaskChannel(b[1])' = TaskChannel(b[1])
          BY <3>2 DEF TaskChannel, Effect, Writes, TypeInv, ExecInv, BarredInv
        <4> QED
          BY <3>1, <3>2, <4>1, <4>2 DEF BarredInv, StillBarred
      <3>3. CASE b \in barred /\ b[1] = t
        <4>1. t \in DOMAIN exec' /\ exec'[t] = e
          BY DEF Effect
        <4>2. exec[t].pc \in (Unsent \ {"sleep"}) \cup {"done", "failed"} /\ StillBarred(t, b[2])
          BY <3>3 DEF BarredInv
        <4>3. e.pc \in (Unsent \ {"sleep"}) \cup {"done", "failed"}
          BY <3>3, <4>2 DEF Effect, Moves, StillBarred, Unsent, Sending
        <4>4. StillBarred(t, b[2])'
          BY <3>1, <4>1, <4>2 DEF Effect, Moves, StillBarred, SameReads, Unsent, Sending
        <4> QED
          BY <3>3, <4>1, <4>3, <4>4
      <3>4. CASE b \in WakesBarred(t) /\ e.pc \in {"contact", "done"}
        <4>1. t \in DOMAIN exec' /\ exec'[t] = e
          BY DEF Effect
        <4> QED
          BY <3>1, <3>4, <4>1 DEF WakesBarred, StillBarred, Unsent
      <3> QED
        BY <2>2, <3>2, <3>3, <3>4
    <2> QED
      BY <2>3, <2>4 DEF BarredInv
  <1> QED
    BY <1>1, <1>2, <1>3

(* So does every other step: a task is superseded only while its execution *)
(* sleeps, which has then sent nothing.                                    *)
LEMMA OthersKeepDelivery ==
  ASSUME TypeInv, DeliveryInv, OtherEffect
  PROVE  DeliveryInv'
  <1> USE DEF DeliveryInv, OtherEffect
  <1>1. SentInv'
    BY DEF SentInv, Spawns
  <1>2. SupersededInv'
    BY DEF SupersededInv, SupersededNeverSent, SentInv, Spawns, Cancels, Supersedes,
       NotYetReread, Unsent
  <1>3. BarredInv'
    <2>1. ASSUME NEW b \in barred'
          PROVE  StillBarred(b[1], b[2])'
      <3>1. b \in barred /\ b[1] \in DOMAIN exec /\ b[1] \in DOMAIN tasks
        BY DEF Lifts, BarredInv, TypeInv, ExecInv
      <3>2. TaskChannel(b[1])' = TaskChannel(b[1]) /\ exec'[b[1]] = exec[b[1]]
        BY <3>1 DEF TaskChannel, Cancels, Spawns
      <3> QED
        BY <3>1, <3>2 DEF StillBarred, BarredInv, Lifts
    <2> QED
      BY <2>1 DEF BarredInv, BarredNeverSent, Lifts, Spawns
  <1> QED
    BY <1>1, <1>2, <1>3

-----------------------------------------------------------------------------
(* Every step is one of the two kinds.                                     *)

\* The two effects cover the next-state relation.
LEMMA StepEffect ==
  ASSUME TypeInv, [Next]_vars
  PROVE  OtherEffect \/ \E t \in DOMAIN exec : \E e : Effect(t, e)
  BY OtherSteps, ExecEffect DEF Next

\* The invariants hold before anything happened.
LEMMA DeliveryInit == Init => DeliveryInv
  BY DEF Init, StoreInit, LoopInit, DeliveryInv, SentInv, SupersededInv, SupersededNeverSent,
     BarredInv, BarredNeverSent

\* Every step keeps them.
LEMMA DeliveryStep == TypeInv /\ DeliveryInv /\ [Next]_vars => DeliveryInv'
  BY StepEffect, ExecKeepsDelivery, OthersKeepDelivery

\* They hold always.
LEMMA DeliveryInvariant == Spec => []DeliveryInv
  BY DeliveryInit, DeliveryStep, TypeInvariant, PTL DEF Spec

(* A nudge that LoopCancel caught before its execution re-read the row     *)
(* (workflows/task_execution.py: the get_task after the timer) is never    *)
(* handed to Twilio.                                                       *)
THEOREM SupersededIsNeverSent == Spec => []SupersededNeverSent
  <1>1. DeliveryInv => SupersededNeverSent
    BY DEF DeliveryInv, SupersededInv
  <1> QED
    BY <1>1, DeliveryInvariant, PTL

(* An execution that wakes up while SMS consent is revoked or the contact  *)
(* is on the do-not-contact list ends without a message, unless the bar is *)
(* lifted: whatever it has read, it has read it barred.                    *)
THEOREM BarredIsNeverSent == Spec => []BarredNeverSent
  <1>1. DeliveryInv => BarredNeverSent
    BY DEF DeliveryInv, BarredInv
  <1> QED
    BY <1>1, DeliveryInvariant, PTL

-----------------------------------------------------------------------------
\* A lemma of the counting proofs: insert_task appends only under a key nobody has.
OneTaskPerKey ==
  \A t, u \in DOMAIN tasks : tasks[t].idempotency_key = tasks[u].idempotency_key => t = u

\* No one rewrites a key.
LEMMA OneTaskPerKeyStep == TypeInv /\ OneTaskPerKey /\ [Next]_vars => OneTaskPerKey'
  <1> SUFFICES ASSUME TypeInv, OneTaskPerKey, [Next]_vars
               PROVE  OneTaskPerKey'
    OBVIOUS
  <1>1. CASE OtherEffect
    BY <1>1 DEF OneTaskPerKey, OtherEffect, Cancels, Inserts
  <1>2. ASSUME NEW t \in DOMAIN exec, NEW e, Effect(t, e)
        PROVE  OneTaskPerKey'
    BY <1>2 DEF OneTaskPerKey, Effect, Writes
  <1> QED
    BY <1>1, <1>2, StepEffect

\* So a key is one row's.
LEMMA OneTaskPerDecision == Spec => []OneTaskPerKey
  <1>1. Init => OneTaskPerKey
    BY DEF Init, StoreInit, OneTaskPerKey
  <1> QED
    BY <1>1, OneTaskPerKeyStep, TypeInvariant, PTL DEF Spec

-----------------------------------------------------------------------------
(* The agent loop implements TaskLifecycle.                                *)

Waiting == {"scheduled", "canceled"}
Working == {"interact", "send", "log", "emit", "backfill", "deliver"}

\* Where t's execution is; before LoopSpawn it has everything still ahead.
PcOf(t) == IF t \in DOMAIN exec THEN exec[t].pc ELSE "sleep"

\* The statuses a row can have while its execution is at pc.
Fits(pc, status) ==
  /\ pc \in {"sleep", "contact", "state", "consent", "check"} => status \in Waiting
  /\ pc = "skip" => status \in Waiting \cup {"skipped_guardrail"}
  /\ pc = "start" => status \in Waiting \cup {"running"}
  /\ pc \in Working => status = "running"
  /\ pc = "complete" => status \in {"running", "completed"}

StatusInv == \A t \in DOMAIN tasks : Fits(PcOf(t), tasks[t].status)

\* Where a step that neither writes the row nor sends leaves t's execution.
Passes(t, pc) ==
  LET old == exec[t].pc
  IN  \/ old \notin {"backfill", "deliver", "done", "failed"} /\ pc = old
      \/ old \notin {"done", "failed"} /\ pc = "failed"
      \/ old = "sleep" /\ pc = IF tasks[t].status = "canceled" THEN "done" ELSE "contact"
      \/ old \in {"contact", "state", "consent", "check"}
           /\ pc \in {"state", "consent", "check", "skip", "start"}
      \/ old = "interact" /\ pc \in {"send", "log"}
      \/ old = "send" /\ pc = "log"
      \/ old = "log" /\ pc = "emit"
      \/ old = "emit" /\ pc = "backfill"
      \/ old = "backfill" /\ pc \in {"emit", "deliver"}
      \/ old = "deliver" /\ pc \in {"emit", "complete"}

(* What a step of t's execution, which it leaves at pc, does to the row and*)
(* the outbox.                                                             *)
Lives(t, pc) ==
  LET old == exec[t].pc
  IN  \/ UNCHANGED <<tasks, outbox>> /\ Passes(t, pc)
      \/ /\ UpdateTaskStatus(t, "skipped_guardrail") /\ outbox' = outbox
         /\ old = "skip" /\ pc \in {"skip", "done", "failed"}
      \/ /\ UpdateTaskStatus(t, "running") /\ outbox' = outbox
         /\ old = "start" /\ pc \in {"start", "interact", "send", "failed"}
      \/ /\ UpdateTaskStatus(t, "completed") /\ outbox' = outbox
         /\ old = "complete" /\ pc \in {"complete", "done", "failed"}
      \/ /\ Send(t) /\ tasks' = tasks
         /\ old = "send" /\ pc \in {"send", "log", "failed"}

\* The program counters a failed attempt and a completed one leave behind.
LEMMA FailedPc ==
  ASSUME NEW t \in DOMAIN exec, exec[t] \in Execution, ExecAttemptFails(t)
  PROVE  \E e : /\ exec' = [exec EXCEPT ![t] = e]
                /\ e.pc \in {RestartPc(exec[t].pc), "failed"}
  <1>1. CASE exec[t].attempt < MaxAttempts(exec[t].pc)
    <2> DEFINE e == [exec[t] EXCEPT !.attempt = exec[t].attempt + 1,
                                    !.pc = RestartPc(exec[t].pc)]
    <2>1. exec' = [exec EXCEPT ![t] = e]
      BY <1>1 DEF ExecAttemptFails
    <2>2. e.pc = RestartPc(exec[t].pc)
      BY DEF Execution
    <2> QED
      BY <2>1, <2>2
  <1>2. CASE ~(exec[t].attempt < MaxAttempts(exec[t].pc))
    <2> DEFINE e == [exec[t] EXCEPT !.pc = "failed"]
    <2>1. exec' = [exec EXCEPT ![t] = e]
      BY <1>2 DEF ExecAttemptFails
    <2>2. e.pc = "failed"
      BY DEF Execution
    <2> QED
      BY <2>1, <2>2
  <1> QED
    BY <1>1, <1>2

\* ExecMoves and the completing half of ExecCompletes.
LEMMA MovedPc ==
  ASSUME NEW t, NEW next \in Execution, exec' = [exec EXCEPT ![t] = [next EXCEPT !.attempt = 1]]
  PROVE  \E e : exec' = [exec EXCEPT ![t] = e] /\ e.pc = next.pc
  <1>1. [next EXCEPT !.attempt = 1].pc = next.pc
    BY DEF Execution
  <1> QED
    BY <1>1

\* An activity that took effect goes on as `next` or counts as a failed attempt.
LEMMA CompletedPc ==
  ASSUME NEW t \in DOMAIN exec, exec[t] \in Execution, NEW next \in Execution,
         ExecCompletes(t, next)
  PROVE  \E e : /\ exec' = [exec EXCEPT ![t] = e]
                /\ e.pc \in {next.pc, RestartPc(exec[t].pc), "failed"}
  BY MovedPc, FailedPc DEF ExecCompletes

\* Every step of an execution is one that Lives allows.
LEMMA ExecLives ==
  ASSUME TypeInv, NEW t \in DOMAIN exec, ExecutionRuns(t) \/ ExecutionFails(t)
  PROVE  \E e : exec' = [exec EXCEPT ![t] = e] /\ Lives(t, e.pc)
  <1>a. exec[t] \in Execution
    BY DEF TypeInv, ExecInv, GoodExecution
  <1>1. CASE ExecWake(t)
    <2> DEFINE next == [exec[t] EXCEPT
                          !.pc = IF tasks[t].status = "canceled" THEN "done" ELSE "contact"]
    <2>1. next \in Execution /\ exec' = [exec EXCEPT ![t] = [next EXCEPT !.attempt = 1]]
      BY <1>1, <1>a DEF ExecWake, ExecMoves, Execution, ExecPc
    <2>2. next.pc = IF tasks[t].status = "canceled" THEN "done" ELSE "contact"
      BY <1>a DEF Execution
    <2> HIDE DEF next
    <2>3. PICK e : exec' = [exec EXCEPT ![t] = e] /\ e.pc = next.pc
      BY <2>1, <2>2, MovedPc
    <2>4. UNCHANGED <<tasks, outbox>>
      BY <1>1 DEF ExecWake, ExecMoves, tables
    <2> QED
      BY <1>1, <2>1, <2>2, <2>3, <2>4 DEF ExecWake, ExecAt, Lives, Passes
  <1>2. CASE ExecReadContact(t)
    <2> DEFINE next == [exec[t] EXCEPT !.pc = "state", !.contact = contact]
    <2>1. next \in Execution /\ next.pc = "state"
      BY <1>a DEF Execution, ExecPc, TypeInv, StoreInv, StoreTypeOK
    <2> HIDE DEF next
    <2>2. exec' = [exec EXCEPT ![t] = [next EXCEPT !.attempt = 1]]
      BY <1>2 DEF ExecReadContact, ExecMoves, next
    <2>3. PICK e : exec' = [exec EXCEPT ![t] = e] /\ e.pc = next.pc
      BY <2>1, <2>2, MovedPc
    <2>4. UNCHANGED <<tasks, outbox>>
      BY <1>2 DEF ExecReadContact, ExecMoves, tables
    <2> QED
      BY <1>2, <2>1, <2>2, <2>3, <2>4 DEF ExecReadContact, ExecAt, Lives, Passes
  <1>3. CASE ExecReadState(t)
    <2> DEFINE next == [exec[t] EXCEPT !.pc = "consent", !.state = CreatedState]
    <2>1. next \in Execution /\ next.pc = "consent"
      BY <1>a, CreatedStateType DEF Execution, ExecPc, TypeInv, StoreInv, StoreTypeOK
    <2>2. ExecCompletes(t, next)
      BY <1>3 DEF ExecReadState
    <2> HIDE DEF next
    <2> QED
      BY <1>3, <1>a, <2>1, <2>2, CompletedPc DEF ExecReadState, ExecAt, RestartPc, Lives, Passes
  <1>4. CASE ExecReadConsent(t)
    <2> DEFINE next == [exec[t] EXCEPT !.pc = "check", !.consent = consent[TaskChannel(t)]]
    <2>1. next \in Execution /\ next.pc = "check"
      BY <1>a, TaskChannelType DEF Execution, ExecPc, TypeInv, StoreInv, StoreTypeOK
    <2> HIDE DEF next
    <2>2. exec' = [exec EXCEPT ![t] = [next EXCEPT !.attempt = 1]]
      BY <1>4 DEF ExecReadConsent, ExecMoves, next
    <2>3. PICK e : exec' = [exec EXCEPT ![t] = e] /\ e.pc = next.pc
      BY <2>1, <2>2, MovedPc
    <2>4. UNCHANGED <<tasks, outbox>>
      BY <1>4 DEF ExecReadConsent, ExecMoves, tables
    <2> QED
      BY <1>4, <2>1, <2>2, <2>3, <2>4 DEF ExecReadConsent, ExecAt, Lives, Passes
  <1>5. CASE ExecCheck(t)
    <2>1. PICK pc \in {"skip", "start"} : ExecMoves(t, [NewExecution EXCEPT !.pc = pc])
      BY <1>5 DEF ExecCheck
    <2> DEFINE next == [NewExecution EXCEPT !.pc = pc]
    <2>2. next \in Execution /\ next.pc = pc
      BY NewExecutionType DEF GoodExecution, Execution, ExecPc
    <2> HIDE DEF next
    <2>3. exec' = [exec EXCEPT ![t] = [next EXCEPT !.attempt = 1]] /\ UNCHANGED tables
      BY <2>1 DEF ExecMoves, next
    <2>4. PICK e : exec' = [exec EXCEPT ![t] = e] /\ e.pc = next.pc
      BY <2>2, <2>3, MovedPc
    <2> QED
      BY <1>5, <2>2, <2>3, <2>4 DEF ExecCheck, ExecAt, Lives, Passes, tables
  <1>6. CASE ExecSkip(t)
    <2> DEFINE next == [exec[t] EXCEPT !.pc = "done"]
    <2>1. next \in Execution /\ next.pc = "done"
      BY <1>a DEF Execution, ExecPc
    <2>2. ExecCompletes(t, next)
      BY <1>6 DEF ExecSkip
    <2> HIDE DEF next
    <2> QED
      BY <1>6, <1>a, <2>1, <2>2, CompletedPc DEF ExecSkip, ExecAt, RestartPc, Lives, Passes
  <1>7. CASE ExecStart(t)
    <2> DEFINE pc == IF tasks[t].type = "email" THEN "send" ELSE "interact"
               next == [exec[t] EXCEPT !.pc = pc]
    <2>1. next \in Execution /\ next.pc \in {"send", "interact"}
      BY <1>a DEF Execution, ExecPc
    <2>2. ExecCompletes(t, next)
      BY <1>7 DEF ExecStart
    <2> HIDE DEF next
    <2> QED
      BY <1>7, <1>a, <2>1, <2>2, CompletedPc DEF ExecStart, ExecAt, RestartPc, Lives, Passes
  <1>8. CASE ExecInteract(t)
    <2>1. PICK draft \in Drafts :
            ExecMoves(t, [exec[t] EXCEPT !.pc = IF draft[1] THEN "send" ELSE "log",
                                         !.outcome = draft[2]])
      BY <1>8 DEF ExecInteract
    <2> DEFINE next == [exec[t] EXCEPT !.pc = IF draft[1] THEN "send" ELSE "log",
                                       !.outcome = draft[2]]
    <2>a. draft[2] \in Outcome
      BY ExecutionAssumption DEF Outcome, TERMINAL_OUTCOMES
    <2>2. next \in Execution /\ next.pc \in {"send", "log"}
      BY <1>a, <2>a DEF Execution, ExecPc
    <2> HIDE DEF next
    <2>3. exec' = [exec EXCEPT ![t] = [next EXCEPT !.attempt = 1]] /\ UNCHANGED tables
      BY <2>1 DEF ExecMoves, next
    <2>4. PICK e : exec' = [exec EXCEPT ![t] = e] /\ e.pc = next.pc
      BY <2>2, <2>3, MovedPc
    <2> QED
      BY <1>8, <2>2, <2>3, <2>4 DEF ExecInteract, ExecAt, Lives, Passes, Working, tables
  <1>9. CASE ExecSendSms(t)
    <2> DEFINE next == [exec[t] EXCEPT !.pc = "log"]
    <2>1. next \in Execution /\ next.pc = "log"
      BY <1>a DEF Execution, ExecPc
    <2>2. ExecCompletes(t, next)
      BY <1>9 DEF ExecSendSms
    <2> HIDE DEF next
    <2>3. PICK e : exec' = [exec EXCEPT ![t] = e] /\ e.pc \in {"log", "send", "failed"}
      BY <1>9, <1>a, <2>1, <2>2, CompletedPc DEF ExecSendSms, ExecAt, RestartPc
    <2> QED
      BY <1>9, <2>3 DEF ExecSendSms, ExecAt, Lives, Passes
  <1>10. CASE ExecSendEmail(t)
    <2>1. ASSUME NEW outcome \in {"progressed", "no_answer"},
                 ExecCompletes(t, [exec[t] EXCEPT !.pc = "log", !.outcome = outcome])
          PROVE  \E e : exec' = [exec EXCEPT ![t] = e] /\ e.pc \in {"log", "send", "failed"}
      <3> DEFINE next == [exec[t] EXCEPT !.pc = "log", !.outcome = outcome]
      <3>1. next \in Execution /\ next.pc = "log"
        BY <1>a DEF Execution, ExecPc, Outcome
      <3>2. ExecCompletes(t, next)
        BY <2>1
      <3> HIDE DEF next
      <3> QED
        BY <1>10, <1>a, <3>1, <3>2, CompletedPc DEF ExecSendEmail, ExecAt, RestartPc
    <2>2. PICK e : exec' = [exec EXCEPT ![t] = e] /\ e.pc \in {"log", "send", "failed"}
      BY <1>10, <2>1 DEF ExecSendEmail
    <2>3. tasks' = tasks /\ (Send(t) \/ outbox' = outbox)
      BY <1>10 DEF ExecSendEmail
    <2> QED
      BY <1>10, <2>2, <2>3 DEF ExecSendEmail, ExecAt, Lives, Passes, Working
  <1>11. CASE ExecLog(t)
    <2> DEFINE next == [exec[t] EXCEPT !.pc = "emit", !.interaction = NextNth(interactions, t)]
    <2>1. next \in Execution /\ next.pc = "emit"
      BY <1>a, NextNthType DEF Execution, ExecPc, TypeInv, StoreInv, Finite
    <2>2. ExecCompletes(t, next)
      BY <1>11 DEF ExecLog
    <2> HIDE DEF next
    <2>3. PICK e : exec' = [exec EXCEPT ![t] = e] /\ e.pc \in {"emit", "log", "failed"}
      BY <1>11, <1>a, <2>1, <2>2, CompletedPc DEF ExecLog, ExecAt, RestartPc
    <2> QED
      BY <1>11, <2>3 DEF ExecLog, ExecAt, Lives, Passes, Working
  <1>12. CASE ExecEmit(t)
    <2> DEFINE e == [exec[t] EXCEPT !.pc = "backfill", !.signal = Len(signals) + 1]
    <2>1. exec' = [exec EXCEPT ![t] = e] /\ e.pc = "backfill"
      BY <1>12, <1>a DEF ExecEmit, Execution
    <2> HIDE DEF e
    <2> QED
      BY <1>12, <2>1 DEF ExecEmit, ExecAt, Lives, Passes, Working
  <1>13. CASE ExecBackfill(t)
    <2> DEFINE e == [exec[t] EXCEPT !.pc = "deliver"]
    <2>1. exec' = [exec EXCEPT ![t] = e] /\ e.pc = "deliver"
      BY <1>13, <1>a DEF ExecBackfill, Execution
    <2> HIDE DEF e
    <2> QED
      BY <1>13, <2>1 DEF ExecBackfill, ExecAt, Lives, Passes, Working
  <1>14. CASE ExecDeliver(t)
    <2> DEFINE next == [exec[t] EXCEPT !.pc = "complete", !.interaction = 0, !.signal = 0,
                                       !.outcome = NoOutcome]
    <2>1. next \in Execution /\ next.pc = "complete"
      BY <1>a DEF Execution, ExecPc
    <2>2. ExecCompletes(t, next)
      BY <1>14 DEF ExecDeliver
    <2> HIDE DEF next
    <2> QED
      BY <1>14, <1>a, <2>1, <2>2, CompletedPc
         DEF ExecDeliver, ExecAt, RestartPc, Lives, Passes, Working, tables
  <1>15. CASE ExecComplete(t)
    <2> DEFINE next == [exec[t] EXCEPT !.pc = "done"]
    <2>1. next \in Execution /\ next.pc = "done"
      BY <1>a DEF Execution, ExecPc
    <2>2. ExecCompletes(t, next)
      BY <1>15 DEF ExecComplete
    <2> HIDE DEF next
    <2> QED
      BY <1>15, <1>a, <2>1, <2>2, CompletedPc DEF ExecComplete, ExecAt, RestartPc, Lives, Passes
  <1>16. CASE ExecutionFails(t)
    BY <1>16, <1>a, FailedPc
       DEF ExecutionFails, ExecActivityFails, RestartPc, Lives, Passes, Working, tables
  <1> QED
    BY <1>1, <1>2, <1>3, <1>4, <1>5, <1>6, <1>7, <1>8, <1>9, <1>10, <1>11, <1>12, <1>13,
       <1>14, <1>15, <1>16
       DEF ExecutionRuns, ExecRuns
(* The loop cancels, inserts and spawns; nothing else outside the          *)
(* executions touches a task, an execution or the outbox.                  *)
LEMMA OthersLive ==
  ASSUME [Next]_vars
  PROVE  \/ \E t \in DOMAIN exec : ExecutionRuns(t) \/ ExecutionFails(t)
         \/ /\ UNCHANGED outbox
            /\ \/ UNCHANGED <<tasks, exec>>
               \/ LoopCancel
               \/ LoopInsert
               \/ LoopSpawn
  <1>1. CASE Loop
    BY <1>1 DEF Loop, LoopNext, LoopRegister, LoopPop, LoopReadContact, LoopReadState,
       LoopReadConsent, LoopDecide, LoopPatch, LoopMark, LoopActivityFails, LoopCancel,
       LoopInsert, LoopSpawn, tables
  <1>2. CASE UNCHANGED vars \/ Tick \/ World
    BY <1>2 DEF vars, Tick, World, ReceiveSms, FinalizeVoiceSession, ScheduleMeeting,
       UpdateContact, tables
  <1>3. ASSUME NEW r \in requests, RequestRuns(r) \/ RequestFails(r) \/ RequestDies(r)
        PROVE  UNCHANGED <<tasks, exec, outbox>>
    BY <1>3 DEF RequestRuns, RecordSmsConsent, ConfirmKeyword, EmitCallResult,
       BackfillCallResult, Dispatch, MarkDelivered, RequestFails, RequestDies, tables
  <1> QED
    BY <1>1, <1>2, <1>3 DEF Next

\* The status written is the only thing update_task_status changes.
LEMMA WrittenStatus ==
  ASSUME TypeInv, NEW t \in DOMAIN tasks, NEW status \in TaskStatus, UpdateTaskStatus(t, status)
  PROVE  /\ DOMAIN tasks' = DOMAIN tasks
         /\ \A u \in DOMAIN tasks :
              tasks'[u].status = IF u = t THEN status ELSE tasks[u].status
  <1>1. ASSUME NEW u \in DOMAIN tasks
        PROVE  tasks'[u].status = IF u = t THEN status ELSE tasks[u].status
    <2>1. tasks[u] \in TaskRow
      BY ElementOfSeq, LenProperties DEF TypeInv, StoreInv, StoreTypeOK
    <2>2. [tasks[u] EXCEPT !.status = status].status = status
      BY <2>1 DEF TaskRow
    <2>3. tasks'[u] = IF u = t THEN [tasks[u] EXCEPT !.status = status] ELSE tasks[u]
      BY LenProperties DEF UpdateTaskStatus
    <2> QED
      BY <2>2, <2>3
  <1> QED
    BY <1>1, LenProperties DEF UpdateTaskStatus

\* LoopCancel turns scheduled rows into canceled ones and touches no other.
LEMMA CanceledStatus ==
  ASSUME TypeInv, LoopCancel
  PROVE  /\ exec' = exec /\ DOMAIN tasks' = DOMAIN tasks
         /\ \A t \in DOMAIN tasks :
              tasks'[t].status = IF IsPendingFollowUp(t) THEN "canceled" ELSE tasks[t].status
  <1>1. ASSUME NEW t \in DOMAIN tasks
        PROVE  tasks'[t].status = IF IsPendingFollowUp(t) THEN "canceled" ELSE tasks[t].status
    <2>1. tasks[t] \in TaskRow
      BY ElementOfSeq, LenProperties DEF TypeInv, StoreInv, StoreTypeOK
    <2>2. [tasks[t] EXCEPT !.status = "canceled"].status = "canceled"
      BY <2>1 DEF TaskRow
    <2>3. tasks'[t] = IF IsPendingFollowUp(t) THEN [tasks[t] EXCEPT !.status = "canceled"]
                      ELSE tasks[t]
      BY DEF LoopCancel, CancelScheduledFollowUps
    <2> QED
      BY <2>2, <2>3
  <1> QED
    BY <1>1 DEF LoopCancel, CancelScheduledFollowUps

\* LoopInsert adds at most one row, scheduled.
LEMMA InsertedStatus ==
  ASSUME TypeInv, LoopInsert
  PROVE  /\ exec' = exec
         /\ \/ tasks' = tasks
            \/ \E row : tasks' = Append(tasks, row) /\ row.status = "scheduled"
  BY DEF LoopInsert, InsertTask, NewTaskRow

-----------------------------------------------------------------------------
\* A scheduled row can be canceled wherever its execution is.
LEMMA CancelFits ==
  ASSUME NEW pc, Fits(pc, "scheduled")
  PROVE  Fits(pc, "canceled")
  BY DEF Fits, Waiting

\* Before anything happened there is no row.
LEMMA StatusInit == Init => StatusInv
  BY EmptySeq DEF Init, StoreInit, StatusInv

\* A row keeps to what its execution's program counter allows.
LEMMA StatusStep == TypeInv /\ StatusInv /\ [Next]_vars => StatusInv'
  <1> SUFFICES ASSUME TypeInv, StatusInv, [Next]_vars
               PROVE  StatusInv'
    OBVIOUS
  <1>a. tasks \in Seq(TaskRow) /\ DOMAIN exec \subseteq DOMAIN tasks
    BY DEF TypeInv, StoreInv, StoreTypeOK, ExecInv
  <1>1. CASE \E t \in DOMAIN exec : ExecutionRuns(t) \/ ExecutionFails(t)
    <2>1. PICK t \in DOMAIN exec : ExecutionRuns(t) \/ ExecutionFails(t)
      BY <1>1
    <2>2. PICK e : exec' = [exec EXCEPT ![t] = e] /\ Lives(t, e.pc)
      BY <2>1, ExecLives
    <2>3. /\ PcOf(t)' = e.pc /\ PcOf(t) = exec[t].pc
          /\ \A u \in DOMAIN tasks : u # t => PcOf(u)' = PcOf(u)
      BY <2>2 DEF PcOf
    <2>4. Fits(exec[t].pc, tasks[t].status)
      BY <1>a, <2>3 DEF StatusInv
    <2>5. /\ DOMAIN tasks' = DOMAIN tasks
          /\ \A u \in DOMAIN tasks : u # t => tasks'[u].status = tasks[u].status
          /\ Fits(e.pc, tasks'[t].status)
      <3>1. CASE UNCHANGED <<tasks, outbox>> /\ Passes(t, e.pc)
        BY <2>4, <3>1 DEF Passes, Fits, Working
      <3>2. ASSUME NEW status \in {"skipped_guardrail", "running", "completed"},
                   UpdateTaskStatus(t, status), Fits(e.pc, status)
            PROVE  /\ DOMAIN tasks' = DOMAIN tasks
                   /\ \A u \in DOMAIN tasks : u # t => tasks'[u].status = tasks[u].status
                   /\ Fits(e.pc, tasks'[t].status)
        BY <1>a, <3>2, WrittenStatus DEF TaskStatus
      <3>3. CASE Send(t) /\ tasks' = tasks /\ exec[t].pc = "send"
                   /\ e.pc \in {"send", "log", "failed"}
        BY <2>4, <3>3 DEF Fits, Working
      <3>4. \/ UNCHANGED <<tasks, outbox>> /\ Passes(t, e.pc)
            \/ \E status \in {"skipped_guardrail", "running", "completed"} :
                 UpdateTaskStatus(t, status) /\ Fits(e.pc, status)
            \/ /\ Send(t) /\ tasks' = tasks /\ exec[t].pc = "send"
               /\ e.pc \in {"send", "log", "failed"}
        BY <2>2 DEF Lives, Fits, Working
      <3> QED
        BY <3>1, <3>2, <3>3, <3>4
    <2> QED
      BY <1>a, <2>3, <2>5 DEF StatusInv
  <1>2. CASE UNCHANGED <<tasks, exec>>
    BY <1>2 DEF StatusInv, PcOf
  <1>3. CASE LoopCancel
    <2>1. ASSUME NEW t \in DOMAIN tasks
          PROVE  Fits(PcOf(t), tasks'[t].status)
      BY <1>3, CanceledStatus, CancelFits DEF StatusInv, IsPendingFollowUp
    <2> QED
      BY <1>3, <2>1, CanceledStatus DEF StatusInv, PcOf
  <1>4. CASE LoopInsert
    <2>1. exec' = exec
      BY <1>4, InsertedStatus
    <2>2. CASE tasks' = tasks
      BY <2>1, <2>2 DEF StatusInv, PcOf
    <2>3. ASSUME NEW row, tasks' = Append(tasks, row), row.status = "scheduled"
          PROVE  StatusInv'
      <3>1. ASSUME NEW t \in DOMAIN tasks'
            PROVE  Fits(PcOf(t), tasks'[t].status)
        <4>1. CASE t \in DOMAIN tasks
          <5>1. tasks'[t] = tasks[t]
            BY <1>a, <2>3, <4>1, AppendedRow
          <5> QED
            BY <4>1, <5>1 DEF StatusInv
        <4>2. CASE t \notin DOMAIN tasks
          <5>1. tasks'[t].status = "scheduled"
            BY <1>a, <2>3, <4>2, AppendedRow
          <5>2. PcOf(t) = "sleep"
            BY <1>a, <4>2 DEF PcOf
          <5> QED
            BY <5>1, <5>2 DEF Fits, Waiting, Working
        <4> QED
          BY <4>1, <4>2
      <3> QED
        BY <2>1, <3>1 DEF StatusInv, PcOf
    <2> QED
      BY <1>4, <2>2, <2>3, InsertedStatus
  <1>5. CASE LoopSpawn
    <2>1. \A t \in DOMAIN tasks : PcOf(t)' = PcOf(t)
      BY <1>5 DEF LoopSpawn, PcOf, NewExecution
    <2> QED
      BY <1>5, <2>1 DEF LoopSpawn, StatusInv, tables
  <1> QED
    BY <1>1, <1>2, <1>3, <1>4, <1>5, OthersLive

\* It always does.
LEMMA StatusInvariant == Spec => []StatusInv
  BY StatusInit, StatusStep, TypeInvariant, PTL DEF Spec

-----------------------------------------------------------------------------
\* What TaskLifecycle sees of the tables.
Status == [t \in DOMAIN tasks |-> tasks[t].status]
Phases == [t \in DOMAIN tasks |-> Phase(t)]
SentTasks == {row.task : row \in outbox}

PhaseAt(pc) ==
  IF pc = "sleep" THEN "asleep" ELSE IF pc \in {"done", "failed"} THEN "over" ELSE "awake"

\* A step of one execution moves one phase.
LEMMA PhaseMoved ==
  ASSUME NEW t \in DOMAIN exec, NEW e, exec' = [exec EXCEPT ![t] = e],
         DOMAIN exec \subseteq DOMAIN tasks, DOMAIN tasks' = DOMAIN tasks
  PROVE  /\ Phases' = [Phases EXCEPT ![t] = PhaseAt(e.pc)]
         /\ Phases[t] = PhaseAt(exec[t].pc)
  <1>1. \A u \in DOMAIN tasks : Phase(u)' = IF u = t THEN PhaseAt(e.pc) ELSE Phase(u)
    BY DEF Phase, PhaseAt
  <1> QED
    BY <1>1 DEF Phases, Phase, PhaseAt

\* It keeps the phase or ends it: TaskLifecycle's GoesOn.
LEMMA PhaseGoesOn ==
  ASSUME NEW t \in DOMAIN tasks, NEW pc, Phases' = [Phases EXCEPT ![t] = PhaseAt(pc)],
         PhaseAt(pc) \in {Phases[t], "over"}
  PROVE  Phases' \in {Phases, [Phases EXCEPT ![t] = "over"]}
  BY DEF Phases

\* An execution's step is a wake-up, a write, a send, a failure or none of these.
LEMMA ExecRefines ==
  ASSUME TypeInv, StatusInv, NEW t \in DOMAIN exec, NEW e,
         exec' = [exec EXCEPT ![t] = e], Lives(t, e.pc)
  PROVE  Lifecycle!Next \/ UNCHANGED <<Status, Phases, SentTasks>>
  <1>a. tasks \in Seq(TaskRow) /\ DOMAIN exec \subseteq DOMAIN tasks
    BY DEF TypeInv, StoreInv, StoreTypeOK, ExecInv
  <1>b. t \in DOMAIN Status /\ Status[t] = tasks[t].status /\ DOMAIN Status = DOMAIN tasks
    BY <1>a DEF Status
  <1>c. Fits(exec[t].pc, Status[t])
    BY <1>a, <1>b DEF StatusInv, PcOf
  <1>1. CASE UNCHANGED <<tasks, outbox>> /\ Passes(t, e.pc)
    <2>1. UNCHANGED <<Status, SentTasks>>
      BY <1>1 DEF Status, SentTasks
    <2>2. Phases' = [Phases EXCEPT ![t] = PhaseAt(e.pc)] /\ Phases[t] = PhaseAt(exec[t].pc)
      BY <1>1, <1>a, PhaseMoved
    <2>3. CASE exec[t].pc = "sleep" /\ e.pc = "contact" /\ Status[t] # "canceled"
      <3>1. Lifecycle!Wake(t)
        BY <2>1, <2>2, <2>3 DEF Lifecycle!Wake, Status, Phases, SentTasks, PhaseAt
      <3> QED
        BY <1>b, <3>1 DEF Lifecycle!Next, Status
    <2>4. CASE PhaseAt(e.pc) = "over"
      <3>1. Lifecycle!Fail(t)
        BY <2>1, <2>2, <2>4 DEF Lifecycle!Fail, Status, Phases, SentTasks
      <3> QED
        BY <1>b, <3>1 DEF Lifecycle!Next, Status
    <2>5. CASE PhaseAt(e.pc) = PhaseAt(exec[t].pc)
      BY <2>1, <2>2, <2>5 DEF Phases
    <2> QED
      BY <1>1, <1>b, <2>3, <2>4, <2>5 DEF Passes, PhaseAt, Working
  <1>2. ASSUME NEW status \in {"skipped_guardrail", "running", "completed"},
               UpdateTaskStatus(t, status), outbox' = outbox,
               PhaseAt(exec[t].pc) = "awake", PhaseAt(e.pc) \in {"awake", "over"}
        PROVE  /\ Status' = [Status EXCEPT ![t] = status]
               /\ Phases[t] = "awake"
               /\ Phases' \in {Phases, [Phases EXCEPT ![t] = "over"]}
               /\ UNCHANGED SentTasks
    <2>1. /\ DOMAIN tasks' = DOMAIN tasks
          /\ \A u \in DOMAIN tasks :
               tasks'[u].status = IF u = t THEN status ELSE tasks[u].status
      BY <1>2, <1>a, WrittenStatus DEF TaskStatus
    <2>2. Status' = [Status EXCEPT ![t] = status]
      BY <2>1 DEF Status
    <2>3. Phases' = [Phases EXCEPT ![t] = PhaseAt(e.pc)] /\ Phases[t] = PhaseAt(exec[t].pc)
      BY <2>1, <1>a, PhaseMoved
    <2>4. Phases' \in {Phases, [Phases EXCEPT ![t] = "over"]}
      BY <1>2, <1>a, <2>3, PhaseGoesOn
    <2> QED
      BY <1>2, <2>2, <2>3, <2>4 DEF SentTasks
  <1>3. CASE /\ UpdateTaskStatus(t, "skipped_guardrail") /\ outbox' = outbox
             /\ exec[t].pc = "skip" /\ e.pc \in {"skip", "done", "failed"}
    <2>1. Lifecycle!Skip(t)
      BY <1>2, <1>3, <1>c
         DEF Lifecycle!Skip, Lifecycle!Write, Lifecycle!GoesOn, PhaseAt, Fits, Waiting,
             Status, Phases, SentTasks
    <2> QED
      BY <1>b, <2>1 DEF Lifecycle!Next, Status
  <1>4. CASE /\ UpdateTaskStatus(t, "running") /\ outbox' = outbox
             /\ exec[t].pc = "start" /\ e.pc \in {"start", "interact", "send", "failed"}
    <2>1. Lifecycle!Start(t)
      BY <1>2, <1>4, <1>c
         DEF Lifecycle!Start, Lifecycle!Write, Lifecycle!GoesOn, PhaseAt, Fits, Waiting,
             Status, Phases, SentTasks
    <2> QED
      BY <1>b, <2>1 DEF Lifecycle!Next, Status
  <1>5. CASE /\ UpdateTaskStatus(t, "completed") /\ outbox' = outbox
             /\ exec[t].pc = "complete" /\ e.pc \in {"complete", "done", "failed"}
    <2>1. Lifecycle!Complete(t)
      BY <1>2, <1>5, <1>c
         DEF Lifecycle!Complete, Lifecycle!Write, Lifecycle!GoesOn, PhaseAt, Fits, Waiting,
             Status, Phases, SentTasks
    <2> QED
      BY <1>b, <2>1 DEF Lifecycle!Next, Status
  <1>6. CASE /\ Send(t) /\ tasks' = tasks
             /\ exec[t].pc = "send" /\ e.pc \in {"send", "log", "failed"}
    <2> DEFINE row == [task |-> t, nth |-> NextNth(outbox, t), at |-> clock]
    <2>a. outbox' = outbox \cup {row} /\ row.task = t
      BY <1>6 DEF Send
    <2> HIDE DEF row
    <2>1. SentTasks' = SentTasks \cup {t} /\ UNCHANGED Status
      BY <1>6, <2>a DEF SentTasks, Status
    <2>2. Phases' = [Phases EXCEPT ![t] = PhaseAt(e.pc)] /\ Phases[t] = PhaseAt(exec[t].pc)
      BY <1>6, <1>a, PhaseMoved
    <2>3. Phases' \in {Phases, [Phases EXCEPT ![t] = "over"]} /\ Phases[t] = "awake"
      BY <1>6, <1>a, <2>2, PhaseGoesOn DEF PhaseAt
    <2>4. Status[t] = "running"
      BY <1>6, <1>c DEF Fits, Working
    <2>5. Lifecycle!SendMessage(t)
      BY <2>1, <2>3, <2>4
         DEF Lifecycle!SendMessage, Lifecycle!GoesOn, Status, Phases, SentTasks
    <2> QED
      BY <1>b, <2>5 DEF Lifecycle!Next, Status
  <1> QED
    BY <1>1, <1>3, <1>4, <1>5, <1>6 DEF Lives

\* Before LoopSpawn and right after it an execution is asleep.
LEMMA PhaseKept ==
  ASSUME NEW t \in DOMAIN tasks, exec' = exec \/ LoopSpawn
  PROVE  Phase(t)' = Phase(t)
  BY DEF Phase, LoopSpawn, NewExecution

\* An inserted row is a task scheduled and asleep.
LEMMA InsertSchedules ==
  ASSUME TypeInv, NEW row, tasks' = Append(tasks, row), row.status = "scheduled",
         exec' = exec, outbox' = outbox
  PROVE  Lifecycle!Schedule
  <1>1. tasks \in Seq(TaskRow) /\ DOMAIN exec \subseteq DOMAIN tasks
    BY DEF TypeInv, StoreInv, StoreTypeOK, ExecInv
  <1>2. PICK n \in Nat : Len(tasks) = n /\ DOMAIN tasks = 1 .. n
    BY <1>1, LenProperties
  <1>3. /\ DOMAIN tasks' = 1 .. (n + 1)
        /\ \A u \in 1 .. n : tasks'[u] = tasks[u]
        /\ tasks'[n + 1] = row
    <2>1. tasks \in Seq(TaskRow \cup {row}) /\ row \in TaskRow \cup {row}
      BY <1>1, SeqMonotonic
    <2>2. /\ tasks' \in Seq(TaskRow \cup {row}) /\ Len(tasks') = n + 1
          /\ \A u \in 1 .. n : tasks'[u] = tasks[u]
          /\ tasks'[n + 1] = row
      BY <1>2, <2>1, AppendProperties
    <2> QED
      BY <2>2, LenProperties
  <1>4. /\ Status \in Seq(TaskStatus) /\ Len(Status) = n
        /\ Phases \in Seq({"asleep", "awake", "over"}) /\ Len(Phases) = n
    <2>a. \A u \in 1 .. n : tasks[u] \in TaskRow
      BY <1>1, <1>2, ElementOfSeq
    <2>1. \A u \in 1 .. n : tasks[u].status \in TaskStatus
      BY <2>a DEF TaskRow
    <2>2. \A u \in 1 .. n : Phase(u) \in {"asleep", "awake", "over"}
      BY DEF Phase
    <2>3. /\ Status = [u \in 1 .. n |-> tasks[u].status]
          /\ Phases = [u \in 1 .. n |-> Phase(u)]
      BY <1>2 DEF Status, Phases
    <2>4. [u \in 1 .. n |-> tasks[u].status] \in Seq(TaskStatus)
      BY <1>2, <2>1
    <2>5. [u \in 1 .. n |-> Phase(u)] \in Seq({"asleep", "awake", "over"})
      BY <1>2, <2>2
    <2>6. Len(Status) = n
      BY <1>2, <2>3, <2>4, LenProperties
    <2>7. Len(Phases) = n
      BY <1>2, <2>3, <2>5, LenProperties
    <2> QED
      BY <2>3, <2>4, <2>5, <2>6, <2>7
  <1>5. Status' = Append(Status, "scheduled")
    <2>1. Status' = [u \in 1 .. (n + 1) |-> IF u = n + 1 THEN "scheduled" ELSE Status[u]]
      BY <1>2, <1>3 DEF Status
    <2>2. PICK rows : rows = Append(Status, "scheduled")
      OBVIOUS
    <2>3. /\ rows \in Seq(TaskStatus) /\ Len(rows) = n + 1
          /\ \A u \in 1 .. n : rows[u] = Status[u]
          /\ rows[n + 1] = "scheduled"
      BY <1>4, <2>2, AppendProperties DEF TaskStatus
    <2>4. rows \in [1 .. (n + 1) -> TaskStatus]
      BY <2>3, LenProperties
    <2>5. \A u \in 1 .. (n + 1) : rows[u] = IF u = n + 1 THEN "scheduled" ELSE Status[u]
      BY <1>2, <2>3
    <2>6. rows = [u \in 1 .. (n + 1) |-> IF u = n + 1 THEN "scheduled" ELSE Status[u]]
      BY <2>4, <2>5
    <2> QED
      BY <2>1, <2>2, <2>6
  <1>6. Phases' = Append(Phases, "asleep")
    <2>1. \A u \in 1 .. n : Phase(u)' = Phase(u)
      BY <1>2, PhaseKept
    <2>2. Phase(n + 1)' = "asleep"
      BY <1>1, <1>2 DEF Phase
    <2>3. Phases' = [u \in 1 .. (n + 1) |-> IF u = n + 1 THEN "asleep" ELSE Phases[u]]
      BY <1>2, <1>3, <2>1, <2>2 DEF Phases
    <2>4. PICK rows : rows = Append(Phases, "asleep")
      OBVIOUS
    <2>5. /\ rows \in Seq({"asleep", "awake", "over"}) /\ Len(rows) = n + 1
          /\ \A u \in 1 .. n : rows[u] = Phases[u]
          /\ rows[n + 1] = "asleep"
      BY <1>4, <2>4, AppendProperties
    <2>6. rows \in [1 .. (n + 1) -> {"asleep", "awake", "over"}]
      BY <2>5, LenProperties
    <2>7. \A u \in 1 .. (n + 1) : rows[u] = IF u = n + 1 THEN "asleep" ELSE Phases[u]
      BY <1>2, <2>5
    <2>8. rows = [u \in 1 .. (n + 1) |-> IF u = n + 1 THEN "asleep" ELSE Phases[u]]
      BY <2>6, <2>7
    <2> QED
      BY <2>3, <2>4, <2>8
  <1> QED
    BY <1>5, <1>6 DEF Lifecycle!Schedule, Status, Phases, SentTasks

\* Every step of the agent loop is one of a task's life or leaves it alone.
LEMMA StepRefines ==
  ASSUME TypeInv, StatusInv, [Next]_vars
  PROVE  Lifecycle!Next \/ UNCHANGED <<Status, Phases, SentTasks>>
  <1>1. ASSUME NEW t \in DOMAIN exec, ExecutionRuns(t) \/ ExecutionFails(t)
        PROVE  Lifecycle!Next \/ UNCHANGED <<Status, Phases, SentTasks>>
    BY <1>1, ExecLives, ExecRefines
  <1>2. CASE UNCHANGED <<tasks, exec, outbox>>
    BY <1>2 DEF Status, Phases, Phase, SentTasks
  <1>3. CASE LoopCancel
    <2>a. PICK T : T = {t \in DOMAIN tasks : IsPendingFollowUp(t)}
      OBVIOUS
    <2>1. Status' = [t \in DOMAIN Status |-> IF t \in T THEN "canceled" ELSE Status[t]]
      BY <1>3, <2>a, CanceledStatus DEF Status
    <2>2. \A t \in T : Status[t] = "scheduled"
      BY <2>a DEF IsPendingFollowUp, Status
    <2>3. UNCHANGED <<Phases, SentTasks>>
      <3>1. \A t \in DOMAIN tasks : Phase(t)' = Phase(t)
        BY <1>3, CanceledStatus, PhaseKept
      <3> QED
        BY <1>3, <3>1, CanceledStatus DEF Phases, SentTasks, LoopCancel
    <2>4. Lifecycle!Cancel(T)
      BY <2>1, <2>2, <2>3 DEF Lifecycle!Cancel, Status, Phases, SentTasks
    <2>5. T \in SUBSET (DOMAIN Status)
      BY <2>a DEF Status
    <2> QED
      BY <2>4, <2>5 DEF Lifecycle!Next, Status
  <1>4. CASE LoopInsert /\ outbox' = outbox
    <2>1. CASE tasks' = tasks
      BY <1>2, <1>4, <2>1, InsertedStatus
    <2>2. ASSUME NEW row, tasks' = Append(tasks, row), row.status = "scheduled"
          PROVE  Lifecycle!Next
      BY <1>4, <2>2, InsertedStatus, InsertSchedules DEF Lifecycle!Next
    <2> QED
      BY <1>4, <2>1, <2>2, InsertedStatus
  <1>5. CASE LoopSpawn /\ outbox' = outbox
    <2>1. tasks' = tasks /\ \A t \in DOMAIN tasks : Phase(t)' = Phase(t)
      BY <1>5, PhaseKept DEF LoopSpawn, tables
    <2> QED
      BY <1>5, <2>1 DEF Status, Phases, SentTasks
  <1> QED
    BY <1>1, <1>2, <1>3, <1>4, <1>5, OthersLive

(* The agent loop implements TaskLifecycle: whatever is repeated, lost or  *)
(* interleaved, a task row and its execution move only as it allows.       *)
THEOREM TasksKeepTheirLifecycle == Spec => TasksKeepToTheirLifecycle
  <1>1. Init => Lifecycle!Init
    BY DEF Init, StoreInit, LoopInit, Lifecycle!Init
  <1>2. TypeInv /\ StatusInv /\ [Next]_vars => [Lifecycle!Next]_<<Status, Phases, SentTasks>>
    BY StepRefines
  <1> QED
    BY <1>1, <1>2, TypeInvariant, StatusInvariant, PTL
       DEF Spec, TasksKeepToTheirLifecycle, Lifecycle!Spec, Status, Phases, SentTasks
-----------------------------------------------------------------------------
(* The audit trail, and the goal it carries to the decision engine.        *)

\* Signal s was recorded with the goal of task t.
Linked(t, s) == s \in DOMAIN signals /\ signals[s].goal = tasks[t].goal

\* An interaction of t has been linked to its result.
Reported(t) == \E row \in interactions : row.task = t /\ row.result # 0

\* Every result an agent's message is linked to carries the goal of its task.
ResultsInv ==
  \A row \in interactions :
    row.task # 0 /\ row.result # 0 => row.task \in DOMAIN tasks /\ Linked(row.task, row.result)

\* What an execution has done for the trail by the time it is at its pc.
TrailInv ==
  \A t \in DOMAIN tasks :
    /\ tasks[t].status = "completed" \/ PcOf(t) \in {"deliver", "complete"} => Reported(t)
    /\ PcOf(t) = "backfill" => Linked(t, exec[t].signal)

\* Signal s is recorded and is a result, but not that of a follow-up.
MayNudge(s) ==
  /\ s \in DOMAIN signals
  /\ signals[s].type = "interaction_result" /\ signals[s].goal # FOLLOW_UP_GOAL

\* The key of the first SMS that signal s may cause.
SmsKey(s) == DeriveIdempotencyKey(s, "sms", 0)

\* A proposal to nudge, or none.
GoodProposal(proposed) ==
  proposed.goal = FOLLOW_UP_GOAL =>
    /\ MayNudge(proposed.idempotency_key[1])
    /\ proposed.idempotency_key = SmsKey(proposed.idempotency_key[1])

\* Nudges, in the table and in the decision being carried out, have such a cause.
NudgesInv ==
  /\ \A t \in DOMAIN tasks :
       IsFollowUp(t) => MayNudge(CausedBy(t)) /\ tasks[t].idempotency_key = SmsKey(CausedBy(t))
  /\ \A i \in DOMAIN loop.out.tasks : GoodProposal(loop.out.tasks[i])

\* Rows of the two tables keep what a trail refers to.
SignalsKept ==
  \A s \in DOMAIN signals : /\ s \in DOMAIN signals'
                            /\ signals'[s].goal = signals[s].goal
                            /\ signals'[s].type = signals[s].type
                            /\ signals'[s].outcome = signals[s].outcome
TasksKept ==
  \A t \in DOMAIN tasks : /\ t \in DOMAIN tasks'
                          /\ tasks'[t].goal = tasks[t].goal
                          /\ tasks'[t].idempotency_key = tasks[t].idempotency_key

\* A status written over a signal leaves its payload alone,
LEMMA MarkedSignals ==
  ASSUME TypeInv, NEW s, NEW status, MarkSignalStatus(s, status)
  PROVE  SignalsKept
  <1>1. ASSUME NEW i \in DOMAIN signals
        PROVE  /\ i \in DOMAIN signals'
               /\ signals'[i].goal = signals[i].goal
               /\ signals'[i].type = signals[i].type
               /\ signals'[i].outcome = signals[i].outcome
    <2>1. signals[i] \in SignalRow
      BY ElementOfSeq, LenProperties DEF TypeInv, StoreInv, StoreTypeOK
    <2>2. /\ [signals[i] EXCEPT !.status = status].goal = signals[i].goal
          /\ [signals[i] EXCEPT !.status = status].type = signals[i].type
          /\ [signals[i] EXCEPT !.status = status].outcome = signals[i].outcome
      BY <2>1 DEF SignalRow
    <2>3. /\ i \in DOMAIN signals'
          /\ signals'[i] = IF i = s THEN [signals[i] EXCEPT !.status = status] ELSE signals[i]
      BY DEF MarkSignalStatus
    <2> QED
      BY <2>2, <2>3
  <1> QED
    BY <1>1 DEF SignalsKept

\* and an inserted signal leaves the others alone.
LEMMA InsertedSignals ==
  ASSUME TypeInv, NEW row, InsertSignal(row)
  PROVE  /\ SignalsKept
         /\ Len(signals) + 1 \in DOMAIN signals' /\ signals'[Len(signals) + 1] = row
  <1>1. signals \in Seq(SignalRow)
    BY DEF TypeInv, StoreInv, StoreTypeOK
  <1>2. SignalsKept
    BY <1>1, AppendedRow DEF SignalsKept, InsertSignal
  <1>3. signals \in Seq(SignalRow \cup {row}) /\ row \in SignalRow \cup {row}
    BY <1>1, SeqMonotonic
  <1>4. /\ signals' \in Seq(SignalRow \cup {row}) /\ Len(signals') = Len(signals) + 1
        /\ signals'[Len(signals) + 1] = row
    BY <1>3, AppendProperties DEF InsertSignal
  <1>5. Len(signals) \in Nat /\ DOMAIN signals' = 1 .. Len(signals')
    BY <1>1, <1>4, LenProperties
  <1> QED
    BY <1>2, <1>4, <1>5

\* No step changes the payload of a signal that is recorded.
LEMMA StepKeepsSignals ==
  ASSUME TypeInv, [Next]_vars
  PROVE  SignalsKept
  <1>1. \/ signals' = signals
        \/ \E s, status : MarkSignalStatus(s, status)
        \/ \E row : InsertSignal(row)
    <2>1. CASE Loop
      BY <2>1 DEF Loop, LoopNext, LoopRegister, LoopPop, LoopReadContact, LoopReadState,
         LoopReadConsent, LoopDecide, LoopPatch, LoopMark, LoopActivityFails, LoopCancel,
         LoopInsert, LoopSpawn, tables
    <2>2. CASE UNCHANGED vars \/ Tick \/ World
      BY <2>2 DEF vars, Tick, World, ReceiveSms, FinalizeVoiceSession, ScheduleMeeting,
         UpdateContact, tables
    <2>3. ASSUME NEW r \in requests, RequestRuns(r) \/ RequestFails(r) \/ RequestDies(r)
          PROVE  \/ signals' = signals
                 \/ \E s, status : MarkSignalStatus(s, status)
                 \/ \E row : InsertSignal(row)
      BY <2>3 DEF RequestRuns, RecordSmsConsent, ConfirmKeyword, EmitCallResult,
         BackfillCallResult, Dispatch, MarkDelivered, RequestFails, RequestDies, tables
    <2>4. ASSUME NEW t \in DOMAIN exec, ExecutionRuns(t) \/ ExecutionFails(t)
          PROVE  signals' = signals \/ \E row : InsertSignal(row)
      BY <2>4 DEF ExecutionRuns, ExecutionFails, ExecRuns, ExecActivityFails, ExecWake,
         ExecReadContact, ExecReadState, ExecReadConsent, ExecCheck, ExecSkip, ExecStart,
         ExecInteract, ExecSendSms, ExecSendEmail, ExecLog, ExecEmit, ExecBackfill, ExecDeliver,
         ExecComplete, ExecMoves, tables
    <2> QED
      BY <2>1, <2>2, <2>3, <2>4 DEF Next
  <1> QED
    BY <1>1, MarkedSignals, InsertedSignals DEF SignalsKept

\* A row written over with a status keeps its goal and its key.
LEMMA RowKept ==
  ASSUME TypeInv, NEW t \in DOMAIN tasks, NEW status, NEW row,
         row \in {tasks[t], [tasks[t] EXCEPT !.status = status]}
  PROVE  row.goal = tasks[t].goal /\ row.idempotency_key = tasks[t].idempotency_key
  <1>1. tasks[t] \in TaskRow
    BY ElementOfSeq, LenProperties DEF TypeInv, StoreInv, StoreTypeOK
  <1> QED
    BY <1>1 DEF TaskRow

\* No step changes the goal or the key of a task.
LEMMA StepKeepsTasks ==
  ASSUME TypeInv, [Next]_vars
  PROVE  TasksKept
  <1>a. tasks \in Seq(TaskRow)
    BY DEF TypeInv, StoreInv, StoreTypeOK
  <1>1. CASE tasks' = tasks
    BY <1>1 DEF TasksKept
  <1>2. ASSUME NEW t, NEW status, UpdateTaskStatus(t, status)
        PROVE  TasksKept
    <2>1. ASSUME NEW u \in DOMAIN tasks
          PROVE  /\ u \in DOMAIN tasks'
                 /\ tasks'[u] \in {tasks[u], [tasks[u] EXCEPT !.status = status]}
      BY <1>2 DEF UpdateTaskStatus
    <2>2. ASSUME NEW u \in DOMAIN tasks
          PROVE  /\ tasks'[u].goal = tasks[u].goal
                 /\ tasks'[u].idempotency_key = tasks[u].idempotency_key
      BY <2>1, RowKept
    <2> QED
      BY <2>1, <2>2 DEF TasksKept
  <1>3. CASE LoopCancel
    <2>1. ASSUME NEW u \in DOMAIN tasks
          PROVE  /\ u \in DOMAIN tasks'
                 /\ tasks'[u] \in {tasks[u], [tasks[u] EXCEPT !.status = "canceled"]}
      BY <1>3 DEF LoopCancel, CancelScheduledFollowUps
    <2>2. ASSUME NEW u \in DOMAIN tasks
          PROVE  /\ tasks'[u].goal = tasks[u].goal
                 /\ tasks'[u].idempotency_key = tasks[u].idempotency_key
      BY <2>1, RowKept
    <2> QED
      BY <2>1, <2>2 DEF TasksKept
  <1>4. CASE LoopInsert
    BY <1>a, <1>1, <1>4, AppendedRow, InsertedStatus DEF TasksKept
  <1>5. CASE LoopSpawn
    BY <1>1, <1>5 DEF LoopSpawn, tables
  <1>6. ASSUME NEW t \in DOMAIN exec, ExecutionRuns(t) \/ ExecutionFails(t)
        PROVE  tasks' = tasks \/ \E status : UpdateTaskStatus(t, status)
    BY <1>6, ExecLives DEF Lives
  <1> QED
    BY <1>1, <1>2, <1>3, <1>4, <1>5, <1>6, OthersLive

(* An interaction is logged without a result; one of the agent's messages  *)
(* gets it from its own execution.                                         *)
LEMMA InteractionStep ==
  ASSUME [Next]_vars
  PROVE  \/ interactions' = interactions
         \/ \E t : LogInteraction(t, 0)
         \/ \E n, s : BackfillResult(0, n, s)
         \/ \E t \in DOMAIN exec : ExecBackfill(t)
  <1> DEFINE Logged == interactions' = interactions \/ \E t : LogInteraction(t, 0)
  <1>1. CASE Loop
    BY <1>1 DEF Loop, LoopNext, LoopRegister, LoopPop, LoopReadContact, LoopReadState,
       LoopReadConsent, LoopDecide, LoopPatch, LoopMark, LoopActivityFails, LoopCancel,
       LoopInsert, LoopSpawn, tables
  <1>2. CASE UNCHANGED vars \/ Tick \/ World
    BY <1>2 DEF vars, Tick, World, ReceiveSms, FinalizeVoiceSession, ScheduleMeeting,
       UpdateContact, tables
  <1>3. ASSUME NEW r \in requests, RequestRuns(r) \/ RequestFails(r) \/ RequestDies(r)
        PROVE  Logged \/ \E n, s : BackfillResult(0, n, s)
    BY <1>3 DEF RequestRuns, RecordSmsConsent, ConfirmKeyword, EmitCallResult,
       BackfillCallResult, Dispatch, MarkDelivered, RequestFails, RequestDies, tables
  <1>4. ASSUME NEW t \in DOMAIN exec, ExecutionRuns(t) \/ ExecutionFails(t)
        PROVE  Logged \/ ExecBackfill(t)
    BY <1>4 DEF ExecutionRuns, ExecutionFails, ExecRuns, ExecActivityFails, ExecWake,
       ExecReadContact, ExecReadState, ExecReadConsent, ExecCheck, ExecSkip, ExecStart,
       ExecInteract, ExecSendSms, ExecSendEmail, ExecLog, ExecEmit, ExecDeliver,
       ExecComplete, ExecMoves, tables
  <1> QED
    BY <1>1, <1>2, <1>3, <1>4 DEF Next

\* What is linked stays linked.
LEMMA LinkedKept ==
  ASSUME SignalsKept, TasksKept, NEW t \in DOMAIN tasks, NEW s, Linked(t, s)
  PROVE  Linked(t, s)'
  BY DEF SignalsKept, TasksKept, Linked

\* At its backfill an execution holds the id of a row that is there.
LEMMA BackfilledSignal ==
  ASSUME TypeInv, TrailInv, NEW t \in DOMAIN exec, exec[t].pc = "backfill"
  PROVE  t \in DOMAIN tasks /\ t # 0 /\ exec[t].signal # 0 /\ Linked(t, exec[t].signal)
  <1>1. t \in DOMAIN tasks /\ t # 0
    BY LenProperties DEF TypeInv, ExecInv, StoreInv, StoreTypeOK
  <1>2. Linked(t, exec[t].signal)
    BY <1>1 DEF TrailInv, PcOf
  <1>3. exec[t].signal # 0
    BY <1>2, LenProperties DEF Linked, TypeInv, StoreInv, StoreTypeOK
  <1> QED
    BY <1>1, <1>2, <1>3

\* A result linked to an agent's message carries its task's goal, whatever the step.
LEMMA ResultsStep == TypeInv /\ TrailInv /\ ResultsInv /\ [Next]_vars => ResultsInv'
  <1> SUFFICES ASSUME TypeInv, TrailInv, ResultsInv, [Next]_vars,
                      NEW row \in interactions', row.task # 0, row.result # 0
               PROVE  row.task \in DOMAIN tasks' /\ Linked(row.task, row.result)'
    BY DEF ResultsInv
  <1>a. SignalsKept /\ TasksKept
    BY StepKeepsSignals, StepKeepsTasks
  <1>1. CASE row \in interactions
    BY <1>1, <1>a, LinkedKept DEF ResultsInv, TasksKept
  <1>2. CASE \E t : LogInteraction(t, 0)
    BY <1>1, <1>2 DEF LogInteraction
  <1>3. CASE \E n, s : BackfillResult(0, n, s)
    BY <1>1, <1>3 DEF BackfillResult
  <1>4. ASSUME NEW t \in DOMAIN exec, ExecBackfill(t)
        PROVE  row.task \in DOMAIN tasks' /\ Linked(row.task, row.result)'
    <2>a. PICK s : s = exec[t].signal
      OBVIOUS
    <2>1. row \in interactions \/ (row.task = t /\ row.result = s)
      BY <1>4, <2>a DEF ExecBackfill, BackfillResult
    <2>2. t \in DOMAIN tasks /\ Linked(t, s)
      BY <1>4, <2>a, BackfilledSignal DEF ExecBackfill, ExecAt
    <2>3. t \in DOMAIN tasks' /\ Linked(t, s)'
      BY <1>a, <2>2, LinkedKept DEF TasksKept
    <2> QED
      BY <1>1, <2>1, <2>3
  <1> QED
    BY <1>1, <1>2, <1>3, <1>4, InteractionStep

\* A task whose interaction has its result keeps such an interaction.
LEMMA ReportedKept ==
  ASSUME TypeInv, TrailInv, [Next]_vars, NEW t \in DOMAIN tasks, Reported(t)
  PROVE  Reported(t)'
  <1>1. PICK row \in interactions : row.task = t /\ row.result # 0
    BY DEF Reported
  <1>2. t # 0
    BY LenProperties DEF TypeInv, StoreInv, StoreTypeOK
  <1>3. CASE row \in interactions'
    BY <1>1, <1>3 DEF Reported
  <1>4. CASE interactions' = interactions \/ \E u : LogInteraction(u, 0)
    BY <1>3, <1>4 DEF LogInteraction
  <1>5. CASE \E n, s : BackfillResult(0, n, s)
    BY <1>1, <1>2, <1>3, <1>5 DEF BackfillResult
  <1>6. ASSUME NEW u \in DOMAIN exec, ExecBackfill(u)
        PROVE  Reported(t)'
    <2>1. exec[u].signal # 0
      BY <1>6, BackfilledSignal DEF ExecBackfill, ExecAt
    <2> DEFINE linked == [task |-> u, nth |-> exec[u].interaction, result |-> exec[u].signal]
    <2>2. linked \in interactions' /\ (row \in interactions' \/ row.task = u)
      BY <1>6 DEF ExecBackfill, BackfillResult
    <2> QED
      BY <1>1, <1>3, <2>1, <2>2 DEF Reported
  <1> QED
    BY <1>4, <1>5, <1>6, InteractionStep

\* Only ExecEmit and ExecBackfill lead past the emission.
LEMMA EmittingStep ==
  ASSUME TypeInv, NEW t \in DOMAIN exec, ExecutionRuns(t) \/ ExecutionFails(t),
         NEW e, exec' = [exec EXCEPT ![t] = e]
  PROVE  /\ exec[t].pc = "emit" /\ e.pc = "backfill" => ExecEmit(t)
         /\ exec[t].pc = "backfill" /\ e.pc = "deliver" => ExecBackfill(t)
  <1>1. exec[t] \in Execution
    BY DEF TypeInv, ExecInv, GoodExecution
  <1>2. CASE ExecutionFails(t)
    BY <1>1, <1>2, FailedPc DEF ExecutionFails, ExecActivityFails, RestartPc
  <1>3. CASE ExecutionRuns(t)
    BY <1>3 DEF ExecutionRuns, ExecRuns, ExecWake, ExecReadContact, ExecReadState,
       ExecReadConsent, ExecCheck, ExecSkip, ExecStart, ExecInteract, ExecSendSms,
       ExecSendEmail, ExecLog, ExecDeliver, ExecComplete, ExecEmit, ExecBackfill, ExecAt
  <1> QED
    BY <1>2, <1>3

\* The signal an execution emits is linked to its task.
LEMMA EmittedSignal ==
  ASSUME TypeInv, TasksKept, NEW t \in DOMAIN exec, ExecEmit(t)
  PROVE  Linked(t, exec[t].signal)'
  <1>1. t \in DOMAIN tasks /\ exec[t] \in Execution
    BY DEF TypeInv, ExecInv, GoodExecution
  <1>2. exec'[t].signal = Len(signals) + 1
    BY <1>1 DEF ExecEmit, Execution
  <1>3. PICK row : /\ row = InteractionResult(TaskChannel(t), exec[t].outcome, tasks[t].goal)
                   /\ InsertSignal(row)
    BY DEF ExecEmit
  <1>4. row.goal = tasks[t].goal
    BY <1>3 DEF InteractionResult
  <1>5. Len(signals) + 1 \in DOMAIN signals' /\ signals'[Len(signals) + 1] = row
    BY <1>3, InsertedSignals
  <1>6. tasks'[t].goal = tasks[t].goal
    BY <1>1 DEF TasksKept
  <1> QED
    BY <1>2, <1>4, <1>5, <1>6 DEF Linked

\* The interaction an execution backfills has its result from then on.
LEMMA BackfilledInteraction ==
  ASSUME TypeInv, TrailInv, NEW t \in DOMAIN exec, ExecBackfill(t)
  PROVE  Reported(t)'
  <1> DEFINE linked == [task |-> t, nth |-> exec[t].interaction, result |-> exec[t].signal]
  <1>1. exec[t].signal # 0
    BY BackfilledSignal DEF ExecBackfill, ExecAt
  <1>2. linked \in interactions'
    BY DEF ExecBackfill, BackfillResult
  <1> QED
    BY <1>1, <1>2 DEF Reported

\* Before anything happened there is no row.
LEMMA TrailInit == Init => TrailInv /\ ResultsInv
  BY EmptySeq DEF Init, StoreInit, TrailInv, ResultsInv

\* An execution leaves the trail its program counter says.
LEMMA TrailStep == TypeInv /\ TrailInv /\ [Next]_vars => TrailInv'
  <1> SUFFICES ASSUME TypeInv, TrailInv, [Next]_vars
               PROVE  TrailInv'
    OBVIOUS
  <1>a. tasks \in Seq(TaskRow) /\ DOMAIN exec \subseteq DOMAIN tasks
    BY DEF TypeInv, StoreInv, StoreTypeOK, ExecInv
  <1>b. TasksKept /\ SignalsKept
    BY StepKeepsTasks, StepKeepsSignals
  <1>1. ASSUME NEW t \in DOMAIN exec, ExecutionRuns(t) \/ ExecutionFails(t)
        PROVE  TrailInv'
    <2>1. PICK e : exec' = [exec EXCEPT ![t] = e] /\ Lives(t, e.pc)
      BY <1>1, ExecLives
    <2>2. /\ PcOf(t)' = e.pc /\ PcOf(t) = exec[t].pc
          /\ \A u \in DOMAIN tasks : u # t => PcOf(u)' = PcOf(u)
          /\ \A u \in DOMAIN tasks : u # t /\ PcOf(u) = "backfill" => exec'[u] = exec[u]
      BY <2>1 DEF PcOf
    <2>3. /\ DOMAIN tasks' = DOMAIN tasks
          /\ \A u \in DOMAIN tasks : u # t => tasks'[u].status = tasks[u].status
          /\ tasks'[t].status = "completed" =>
               tasks[t].status = "completed" \/ exec[t].pc = "complete"
      <3>1. ASSUME NEW status \in {"skipped_guardrail", "running", "completed"},
                   UpdateTaskStatus(t, status), status = "completed" => exec[t].pc = "complete"
            PROVE  /\ DOMAIN tasks' = DOMAIN tasks
                   /\ \A u \in DOMAIN tasks : u # t => tasks'[u].status = tasks[u].status
                   /\ tasks'[t].status = "completed" => exec[t].pc = "complete"
        BY <1>a, <3>1, WrittenStatus DEF TaskStatus
      <3> QED
        BY <2>1, <3>1 DEF Lives
    <2>4. e.pc \in {"deliver", "complete"} =>
            exec[t].pc = "complete" \/ exec[t].pc = "deliver" \/ ExecBackfill(t)
      BY <1>1, <2>1, EmittingStep DEF Lives, Passes
    <2>5. e.pc = "backfill" => ExecEmit(t)
      BY <1>1, <2>1, EmittingStep DEF Lives, Passes
    <2>6. ASSUME NEW u \in DOMAIN tasks',
                 tasks'[u].status = "completed" \/ PcOf(u)' \in {"deliver", "complete"}
          PROVE  Reported(u)'
      <3>1. CASE ExecBackfill(t) /\ u = t
        BY <3>1, BackfilledInteraction
      <3>2. CASE tasks[u].status = "completed" \/ PcOf(u) \in {"deliver", "complete"}
        BY <2>3, <3>2, ReportedKept DEF TrailInv
      <3> QED
        BY <2>2, <2>3, <2>4, <2>6, <3>1, <3>2
    <2>7. ASSUME NEW u \in DOMAIN tasks', PcOf(u)' = "backfill"
          PROVE  Linked(u, exec[u].signal)'
      <3>1. CASE u = t
        BY <1>b, <2>2, <2>5, <2>7, <3>1, EmittedSignal
      <3>2. CASE u # t
        <4>1. exec'[u] = exec[u] /\ Linked(u, exec[u].signal)
          BY <2>2, <2>3, <2>7, <3>2 DEF TrailInv
        <4> QED
          BY <1>b, <2>3, <4>1 DEF Linked, SignalsKept, TasksKept
      <3> QED
        BY <3>1, <3>2
    <2> QED
      BY <2>6, <2>7 DEF TrailInv
  <1>2. ASSUME \A t \in DOMAIN tasks' : t \in DOMAIN tasks =>
                 /\ tasks'[t].status = "completed" => tasks[t].status = "completed"
                 /\ PcOf(t)' = PcOf(t)
                 /\ PcOf(t) = "backfill" => exec'[t] = exec[t],
               \A t \in DOMAIN tasks' : t \notin DOMAIN tasks =>
                 tasks'[t].status = "scheduled" /\ PcOf(t)' = "sleep"
        PROVE  TrailInv'
    <2>1. ASSUME NEW t \in DOMAIN tasks',
                 tasks'[t].status = "completed" \/ PcOf(t)' \in {"deliver", "complete"}
          PROVE  Reported(t)'
      BY <1>2, <2>1, ReportedKept DEF TrailInv
    <2>2. ASSUME NEW t \in DOMAIN tasks', PcOf(t)' = "backfill"
          PROVE  Linked(t, exec[t].signal)'
      <3>1. t \in DOMAIN tasks /\ exec'[t] = exec[t] /\ Linked(t, exec[t].signal)
        BY <1>2, <2>2 DEF TrailInv
      <3> QED
        BY <1>b, <3>1 DEF Linked, SignalsKept, TasksKept
    <2> QED
      BY <2>1, <2>2 DEF TrailInv
  <1>3. CASE UNCHANGED <<tasks, exec>>
    BY <1>2, <1>3 DEF PcOf
  <1>4. CASE LoopCancel
    <2>1. ASSUME NEW t \in DOMAIN tasks, tasks'[t].status = "completed"
          PROVE  tasks[t].status = "completed"
      BY <1>4, <2>1, CanceledStatus
    <2> QED
      BY <1>2, <1>4, <2>1, CanceledStatus DEF PcOf
  <1>5. CASE LoopInsert
    <2>1. exec' = exec
      BY <1>5, InsertedStatus
    <2>2. CASE tasks' = tasks
      BY <1>3, <2>1, <2>2
    <2>3. ASSUME NEW row, tasks' = Append(tasks, row), row.status = "scheduled"
          PROVE  TrailInv'
      <3>1. \A t \in DOMAIN tasks' : t \in DOMAIN tasks => tasks'[t] = tasks[t]
        BY <1>a, <2>3, AppendedRow
      <3>2. \A t \in DOMAIN tasks' : t \notin DOMAIN tasks => tasks'[t] = row
        BY <1>a, <2>3, AppendedRow
      <3>3. \A t : PcOf(t)' = PcOf(t)
        BY <2>1 DEF PcOf
      <3>4. \A t : t \notin DOMAIN tasks => PcOf(t) = "sleep"
        BY <1>a DEF PcOf
      <3> QED
        BY <1>2, <2>1, <2>3, <3>1, <3>2, <3>3, <3>4
    <2> QED
      BY <1>5, <2>2, <2>3, InsertedStatus
  <1>6. CASE LoopSpawn
    <2>1. tasks' = tasks /\ \A t \in DOMAIN tasks : PcOf(t)' = PcOf(t)
      BY <1>6 DEF LoopSpawn, PcOf, NewExecution, tables
    <2>2. \A t \in DOMAIN tasks : PcOf(t) = "backfill" => exec'[t] = exec[t]
      BY <1>6 DEF LoopSpawn, PcOf
    <2> QED
      BY <1>2, <2>1, <2>2
  <1> QED
    BY <1>1, <1>3, <1>4, <1>5, <1>6, OthersLive

\* It always does.
LEMMA TrailInvariant == Spec => [](TrailInv /\ ResultsInv)
  <1>1. TypeInv /\ (TrailInv /\ ResultsInv) /\ [Next]_vars => (TrailInv /\ ResultsInv)'
    BY TrailStep, ResultsStep
  <1> QED
    BY <1>1, TrailInit, TypeInvariant, PTL DEF Spec

(* A completed task left an unbroken trail: an interaction of its own whose*)
(* result signal is recorded and carries the task's goal.                  *)
THEOREM CompletedLeavesTrail == Spec => []AuditTrail
  <1>1. TypeInv /\ TrailInv /\ ResultsInv => AuditTrail
    <2> SUFFICES ASSUME TypeInv, TrailInv, ResultsInv,
                        NEW t \in DOMAIN tasks, tasks[t].status = "completed"
                 PROVE  \E row \in interactions : row.task = t /\ Linked(t, row.result)
      BY DEF AuditTrail, Linked
    <2>1. PICK row \in interactions : row.task = t /\ row.result # 0
      BY DEF TrailInv, Reported
    <2>2. t # 0
      BY LenProperties DEF TypeInv, StoreInv, StoreTypeOK
    <2> QED
      BY <2>1, <2>2 DEF ResultsInv
  <1> QED
    BY <1>1, TypeInvariant, TrailInvariant, PTL

-----------------------------------------------------------------------------
(* Nudges are caused by results of something else than a nudge.            *)

\* The only rule that proposes a nudge does so after its result's goal said no nudge.
LEMMA EvaluateNudges ==
  ASSUME NEW s, NEW signal, NEW c, NEW state, NEW con, NEW now, NEW out,
         out = Evaluate(s, signal, c, state, con, now),
         NEW i \in DOMAIN out.tasks, out.tasks[i].goal = FOLLOW_UP_GOAL
  PROVE  /\ out.tasks[i].idempotency_key[1] = s
         /\ out.tasks[i].idempotency_key = SmsKey(s)
         /\ signal.goal # FOLLOW_UP_GOAL /\ signal.type = "interaction_result"
  <1>1. CASE out.tasks = <<>>
    BY <1>1
  <1>2. CASE \E at : out.tasks = Propose(s, "sms", at, REPLY_GOAL)
    BY <1>2 DEF Propose, REPLY_GOAL, FOLLOW_UP_GOAL
  <1>3. CASE \E at : out.tasks = Propose(s, "email", at, POST_MEETING_GOAL)
    BY <1>3 DEF Propose, POST_MEETING_GOAL, FOLLOW_UP_GOAL
  <1>4. CASE /\ \E at : out.tasks = Propose(s, "sms", at, FOLLOW_UP_GOAL)
             /\ ShouldFollowUp(signal, c)
             /\ signal.type = "interaction_result"
    BY <1>4 DEF Propose, DeriveIdempotencyKey, ShouldFollowUp, SmsKey
  <1>5. \/ out.tasks = <<>>
        \/ \E at : out.tasks = Propose(s, "sms", at, REPLY_GOAL)
        \/ \E at : out.tasks = Propose(s, "email", at, POST_MEETING_GOAL)
        \/ /\ \E at : out.tasks = Propose(s, "sms", at, FOLLOW_UP_GOAL)
           /\ ShouldFollowUp(signal, c)
           /\ signal.type = "interaction_result"
    <2>1. CASE out = DecideOnInboundSms(s, signal, c, state, con, now)
      BY <2>1 DEF DecideOnInboundSms, Output
    <2>2. CASE /\ out = DecideOnInteractionResult(s, signal, c, state, con, now)
               /\ signal.type = "interaction_result"
      BY <2>2 DEF DecideOnInteractionResult, Output
    <2>3. CASE out = DecideOnMeetingScheduled(s, signal, c, state, con, now)
      BY <2>3 DEF DecideOnMeetingScheduled, Output
    <2>4. CASE out = Output(<<>>, state, FALSE, FALSE)
      BY <2>4 DEF Output
    <2> QED
      BY <2>1, <2>2, <2>3, <2>4 DEF Evaluate
  <1> QED
    BY <1>1, <1>2, <1>3, <1>4, <1>5

\* What is left of a decision after a step of the loop.
Remaining(rest) ==
  \/ rest = loop.out.tasks
  \/ rest = <<>>
  \/ loop.out.tasks # <<>> /\ rest = Tail(loop.out.tasks)

\* Handling the next task, or none, leaves the tasks it is given or none.
LEMMA NextTaskOut ==
  ASSUME LoopInv, NEW out
  PROVE  NextTask(out).out.tasks \in {out.tasks, <<>>}
  <1>1. loop \in LoopRun
    BY DEF LoopInv, GoodRun
  <1>2. Handled.out.tasks = <<>>
    BY DEF Handled, NewRun, IdleRun, NoOutput, Output
  <1>3. [loop EXCEPT !.pc = "insert", !.out = out, !.task = 0].out = out
    BY <1>1 DEF LoopRun
  <1> QED
    BY <1>2, <1>3 DEF NextTask

\* A run that fails an attempt keeps its decision or is gone,
LEMMA FailedOut ==
  ASSUME LoopInv, LoopAttemptFails
  PROVE  Remaining(loop'.out.tasks)
  <1>1. loop \in LoopRun
    BY DEF LoopInv, GoodRun
  <1>2. NoRun.out.tasks = <<>>
    BY DEF NoRun, IdleRun, NoOutput, Output
  <1> QED
    BY <1>1, <1>2 DEF LoopAttemptFails, LoopRun, Remaining

\* and one that goes on has the decision it goes on with.
LEMMA CompletedOut ==
  ASSUME LoopInv, NEW next \in LoopRun, LoopCompletes(next), Remaining(next.out.tasks)
  PROVE  Remaining(loop'.out.tasks)
  <1>1. [next EXCEPT !.attempt = 1].out = next.out
    BY DEF LoopRun
  <1> QED
    BY <1>1, FailedOut DEF LoopCompletes

\* Only LoopDecide brings in tasks.
LEMMA LoopOut ==
  ASSUME TypeInv, LoopNext, ~LoopDecide
  PROVE  Remaining(loop'.out.tasks)
  <1>a. LoopInv /\ loop \in LoopRun /\ loop.out \in DecisionOutput
    BY DEF TypeInv, LoopInv, GoodRun, LoopRun
  <1>b. CreatedState \in ContactState
    BY CreatedStateType DEF TypeInv, StoreInv, StoreTypeOK
  <1>1. CASE LoopPop \/ LoopReadContact \/ LoopReadConsent
    <2>1. loop'.out = loop.out
      BY <1>1, <1>a DEF LoopPop, LoopReadContact, LoopReadConsent, LoopRun
    <2> QED
      BY <2>1 DEF Remaining
  <1>2. CASE LoopActivityFails
    BY <1>2, <1>a, FailedOut DEF LoopActivityFails
  <1>3. CASE LoopRegister \/ LoopReadState \/ LoopPatch \/ LoopCancel
    <2>1. PICK next : /\ LoopCompletes(next)
                      /\ \/ \E pc \in LoopPc : next = [loop EXCEPT !.pc = pc]
                         \/ next = [loop EXCEPT !.pc = "consent", !.state = CreatedState]
      BY <1>3 DEF LoopRegister, LoopReadState, LoopPatch, LoopCancel, LoopPc
    <2>2. next \in LoopRun /\ next.out = loop.out
      BY <1>a, <1>b, <2>1 DEF LoopRun, LoopPc
    <2> QED
      BY <1>a, <2>1, <2>2, CompletedOut DEF Remaining
  <1>4. CASE LoopMark
    <2>1. loop.signal \in DOMAIN signals
      BY <1>4 DEF LoopMark, TypeInv, LoopInv, GoodRun
    <2>2. NextTask(loop.out) \in LoopRun
      BY <1>a, <2>1, NextTaskType DEF GoodRun
    <2>3. Remaining(NextTask(loop.out).out.tasks)
      BY <1>a, NextTaskOut DEF Remaining
    <2> QED
      BY <1>4, <1>a, <2>2, <2>3, CompletedOut DEF LoopMark
  <1>5. CASE LoopInsert
    <2> DEFINE proposed == Head(loop.out.tasks)
               next == [loop EXCEPT !.pc = "spawn", !.task = InsertedTask(proposed)]
    <2>1. proposed \in ProposedTask
      BY <1>5, <1>a, HeadTailProperties
         DEF LoopInsert, TypeInv, LoopInv, GoodRun, DecisionOutput
    <2>2. InsertedTask(proposed) \in Nat
      BY <1>5, <2>1, InsertTaskType DEF LoopInsert, TypeInv, StoreInv, StoreTypeOK
    <2>3. next \in LoopRun /\ next.out = loop.out
      BY <1>a, <2>2 DEF LoopRun, LoopPc
    <2>4. LoopCompletes(next)
      BY <1>5 DEF LoopInsert
    <2> HIDE DEF next
    <2> QED
      BY <1>a, <2>3, <2>4, CompletedOut DEF Remaining
  <1>6. CASE LoopSpawn
    <2> DEFINE out == [loop.out EXCEPT !.tasks = Tail(loop.out.tasks)]
    <2>1. loop.out.tasks # <<>>
      BY <1>6 DEF LoopSpawn, TypeInv, LoopInv, GoodRun
    <2>2. out.tasks = Tail(loop.out.tasks)
      BY <1>a DEF DecisionOutput
    <2>3. loop' = NextTask(out)
      BY <1>6 DEF LoopSpawn
    <2> HIDE DEF out
    <2> QED
      BY <1>a, <2>1, <2>2, <2>3, NextTaskOut DEF Remaining
  <1> QED
    BY <1>1, <1>2, <1>3, <1>4, <1>5, <1>6 DEF LoopNext

\* Nor does anything but the loop; a fresh run has none.
LEMMA StepOut ==
  ASSUME TypeInv, [Next]_vars, ~LoopDecide
  PROVE  Remaining(loop'.out.tasks)
  <1>1. CASE Loop
    BY <1>1, LoopOut DEF Loop
  <1>2. CASE loop' = loop \/ \E s : SignalWithStart(s)
    <2>1. NewRun.out.tasks = <<>>
      BY DEF NewRun, IdleRun, NoOutput, Output
    <2> QED
      BY <1>2, <2>1 DEF SignalWithStart, Remaining
  <1>3. CASE UNCHANGED vars \/ Tick \/ World
    <2>1. loop' = loop
      BY <1>3 DEF vars, Tick, World, ReceiveSms, FinalizeVoiceSession, ScheduleMeeting,
         UpdateContact
    <2> QED
      BY <1>2, <2>1
  <1>4. ASSUME NEW r \in requests, RequestRuns(r) \/ RequestFails(r) \/ RequestDies(r)
        PROVE  loop' = loop \/ \E s : SignalWithStart(s)
    BY <1>4 DEF RequestRuns, RecordSmsConsent, ConfirmKeyword, EmitCallResult,
       BackfillCallResult, Dispatch, MarkDelivered, RequestFails, RequestDies
  <1>5. ASSUME NEW t \in DOMAIN exec, ExecutionRuns(t) \/ ExecutionFails(t)
        PROVE  loop' = loop \/ \E s : SignalWithStart(s)
    BY <1>5 DEF ExecutionRuns, ExecutionFails, ExecRuns, ExecActivityFails, ExecWake,
       ExecReadContact, ExecReadState, ExecReadConsent, ExecCheck, ExecSkip, ExecStart,
       ExecInteract, ExecSendSms, ExecSendEmail, ExecLog, ExecEmit, ExecBackfill, ExecDeliver,
       ExecComplete, ExecMoves
  <1> QED
    BY <1>1, <1>2, <1>3, <1>4, <1>5 DEF Next

\* A cause stays one.
LEMMA CauseKept ==
  ASSUME SignalsKept, NEW s, MayNudge(s)
  PROVE  MayNudge(s)'
  BY DEF SignalsKept, MayNudge

\* Before anything happened nothing is planned.
LEMMA NudgesInit == Init => NudgesInv
  BY EmptySeq DEF Init, StoreInit, LoopInit, NoRun, IdleRun, NoOutput, Output, NudgesInv

\* A step decides on a nudge, and inserts one, only for such a cause.
LEMMA NudgesStep == TypeInv /\ NudgesInv /\ [Next]_vars => NudgesInv'
  <1> SUFFICES ASSUME TypeInv, NudgesInv, [Next]_vars
               PROVE  NudgesInv'
    OBVIOUS
  <1>a. TasksKept /\ SignalsKept
    BY StepKeepsTasks, StepKeepsSignals
  <1>b. tasks \in Seq(TaskRow) /\ loop.out.tasks \in Seq(ProposedTask)
    BY DEF TypeInv, StoreInv, StoreTypeOK, LoopInv, GoodRun, LoopRun, DecisionOutput
  <1>1. ASSUME NEW i \in DOMAIN loop'.out.tasks, NEW proposed, proposed = loop'.out.tasks[i]
        PROVE  GoodProposal(proposed)'
    <2>1. CASE LoopDecide
      <3> DEFINE s == loop.signal
                 out == Evaluate(s, signals[s], loop.contact, loop.state, loop.consent, clock)
                 step == IF out.patch THEN "patch" ELSE IF out.cancel THEN "cancel" ELSE "mark"
      <3>1. loop' = [IdleRun(step, loop.processed) EXCEPT !.signal = s, !.out = out]
        BY <2>1 DEF LoopDecide
      <3>2. loop'.out = out
        BY <3>1 DEF IdleRun
      <3>3. s \in DOMAIN signals /\ signals' = signals
        BY <2>1 DEF LoopDecide, TypeInv, LoopInv, GoodRun, tables
      <3> HIDE DEF out
      <3>4. GoodProposal(proposed)
        BY <1>1, <3>2, <3>3, EvaluateNudges DEF GoodProposal, MayNudge, out
      <3>5. \A cause : MayNudge(cause) => MayNudge(cause)'
        BY <3>3 DEF MayNudge
      <3> QED
        BY <3>4, <3>5 DEF GoodProposal
    <2>2. CASE ~LoopDecide
      <3>1. PICK j \in DOMAIN loop.out.tasks : proposed = loop.out.tasks[j]
        <4>1. CASE loop'.out.tasks = loop.out.tasks \/ loop'.out.tasks = <<>>
          BY <1>1, <4>1
        <4>2. CASE loop.out.tasks # <<>> /\ loop'.out.tasks = Tail(loop.out.tasks)
          <5>1. i + 1 \in DOMAIN loop.out.tasks /\ loop'.out.tasks[i] = loop.out.tasks[i + 1]
            <6>1. PICK rows \in Seq(ProposedTask) : rows = loop.out.tasks
              BY <1>b
            <6>2. PICK rest : rest = loop'.out.tasks
              OBVIOUS
            <6>3. rest \in Seq(ProposedTask) /\ Len(rest) = Len(rows) - 1
                  /\ \A k \in 1 .. Len(rest) : rest[k] = rows[k + 1]
              BY <4>2, <6>1, <6>2, HeadTailProperties
            <6>4. i \in 1 .. Len(rest) /\ DOMAIN rows = 1 .. Len(rows) /\ Len(rows) \in Nat
              BY <1>1, <6>1, <6>2, <6>3, LenProperties
            <6> QED
              BY <6>1, <6>2, <6>3, <6>4
          <5> QED
            BY <1>1, <5>1
        <4> QED
          BY <2>2, <4>1, <4>2, StepOut DEF Remaining
      <3>2. GoodProposal(loop.out.tasks[j])
        BY DEF NudgesInv
      <3> QED
        BY <1>a, <3>1, <3>2, CauseKept DEF GoodProposal
    <2> QED
      BY <2>1, <2>2
  <1>2. ASSUME NEW t \in DOMAIN tasks', IsFollowUp(t)'
        PROVE  MayNudge(CausedBy(t))' /\ tasks'[t].idempotency_key = SmsKey(CausedBy(t))'
    <2>1. CASE t \in DOMAIN tasks
      <3>1. /\ IsFollowUp(t) /\ CausedBy(t)' = CausedBy(t)
            /\ tasks'[t].idempotency_key = tasks[t].idempotency_key
        BY <1>2, <1>a, <2>1 DEF TasksKept, IsFollowUp, CausedBy
      <3>2. MayNudge(CausedBy(t)) /\ tasks[t].idempotency_key = SmsKey(CausedBy(t))
        BY <2>1, <3>1 DEF NudgesInv
      <3> QED
        BY <1>a, <3>1, <3>2 DEF MayNudge, SignalsKept, SmsKey
    <2>2. CASE t \notin DOMAIN tasks
      <3>1. LoopInsert /\ tasks' = Append(tasks, NewTaskRow(Head(loop.out.tasks)))
        <4>1. CASE \E u \in DOMAIN exec : ExecutionRuns(u) \/ ExecutionFails(u)
          <5>1. tasks' = tasks \/ \E u, status : UpdateTaskStatus(u, status)
            BY <4>1, ExecLives DEF Lives
          <5> QED
            BY <1>2, <2>2, <5>1 DEF UpdateTaskStatus
        <4>2. CASE LoopCancel \/ LoopSpawn \/ UNCHANGED tasks
          BY <1>2, <2>2, <4>2, CanceledStatus DEF LoopSpawn, tables
        <4>3. CASE LoopInsert
          BY <1>2, <2>2, <4>3 DEF LoopInsert, InsertTask
        <4> QED
          BY <4>1, <4>2, <4>3, OthersLive
      <3>2. tasks'[t] = NewTaskRow(Head(loop.out.tasks))
        BY <1>2, <1>b, <2>2, <3>1, AppendedRow
      <3>3. loop.out.tasks # <<>>
        BY <3>1 DEF LoopInsert, TypeInv, LoopInv, GoodRun
      <3>4. 1 \in DOMAIN loop.out.tasks /\ Head(loop.out.tasks) = loop.out.tasks[1]
        BY <1>b, <3>3, HeadTailProperties, LenProperties
      <3>5. GoodProposal(Head(loop.out.tasks))
        BY <3>4 DEF NudgesInv
      <3>6. /\ tasks'[t].goal = Head(loop.out.tasks).goal
            /\ tasks'[t].idempotency_key = Head(loop.out.tasks).idempotency_key
        BY <3>2 DEF NewTaskRow
      <3> QED
        BY <1>2, <1>a, <3>5, <3>6
           DEF GoodProposal, IsFollowUp, CausedBy, MayNudge, SignalsKept, SmsKey
    <2> QED
      BY <2>1, <2>2
  <1>3. \A i \in DOMAIN loop'.out.tasks : GoodProposal(loop.out.tasks[i])'
    BY <1>1 DEF GoodProposal, MayNudge, SmsKey
  <1> QED
    BY <1>2, <1>3 DEF NudgesInv

\* So it always is.
LEMMA NudgesInvariant == Spec => []NudgesInv
  BY NudgesInit, NudgesStep, TypeInvariant, PTL DEF Spec

(* A nudge never begets a nudge: the interaction whose result caused a     *)
(* follow-up was not itself a follow-up's.                                 *)
THEOREM NudgesNeverChain == Spec => []NudgeNeverChains
  <1>1. TypeInv /\ ResultsInv /\ NudgesInv => NudgeNeverChains
    <2> SUFFICES ASSUME TypeInv, ResultsInv, NudgesInv,
                        NEW t \in DOMAIN tasks, NEW row \in interactions,
                        IsFollowUp(t), row.result = CausedBy(t), row.task # 0
                 PROVE  ~IsFollowUp(row.task)
      BY DEF NudgeNeverChains
    <2>1. MayNudge(row.result)
      BY DEF NudgesInv
    <2>2. row.result # 0
      BY <2>1, LenProperties DEF MayNudge, TypeInv, StoreInv, StoreTypeOK
    <2>3. Linked(row.task, row.result)
      BY <2>2 DEF ResultsInv
    <2> QED
      BY <2>1, <2>3 DEF MayNudge, Linked, IsFollowUp
  <1> QED
    BY <1>1, TypeInvariant, TrailInvariant, NudgesInvariant, PTL
-----------------------------------------------------------------------------
(* The effect of a step of the loop on the run and on its queue.           *)

\* The run has taken a signal and is not done with it.
Busy == loop.pc \notin {"none", "register", "idle"}

Deciding == {"contact", "state", "consent", "decide"}
Applying == {"patch", "cancel", "mark", "insert", "spawn"}

\* The same run, working on the same signal.
Retried ==
  /\ pending' = pending
  /\ loop'.pc = loop.pc /\ loop'.signal = loop.signal
  /\ loop'.out = loop.out /\ loop'.state = loop.state

Ended == loop' = NoRun /\ pending' = <<>>

Advanced(pc) ==
  pending' = pending /\ loop'.pc = pc /\ loop'.signal = loop.signal /\ loop'.out = loop.out

\* The signal is handled.
Rested == pending' = pending /\ loop' \in {Handled, [Handled EXCEPT !.attempt = 1]}

Popped ==
  /\ loop.pc = "idle" /\ pending # <<>> /\ pending' = Tail(pending)
  /\ loop'.pc = "contact" /\ loop'.signal = Head(pending) /\ loop'.out = loop.out

Decision ==
  Evaluate(loop.signal, signals[loop.signal], loop.contact, loop.state, loop.consent, clock)

Decided ==
  /\ loop.pc = "decide" /\ pending' = pending /\ loop'.signal = loop.signal
  /\ loop'.out = Decision
  /\ loop'.pc = IF Decision.patch THEN "patch" ELSE IF Decision.cancel THEN "cancel" ELSE "mark"

\* On to the next task of the decision, of which `rest` are left.
TurnedTo(rest) ==
  IF rest = <<>> THEN Rested
  ELSE /\ pending' = pending /\ loop'.pc = "insert" /\ loop'.signal = loop.signal
       /\ loop'.out.tasks = rest

LoopEffect ==
  \/ Retried
  \/ Ended
  \/ loop.pc = "register" /\ Advanced("idle")
  \/ Popped
  \/ loop.pc = "contact" /\ Advanced("state")
  \/ loop.pc = "state" /\ Advanced("consent") /\ loop'.state = CreatedState
  \/ loop.pc = "consent" /\ Advanced("decide") /\ loop'.state = loop.state
  \/ Decided
  \/ loop.pc = "patch" /\ Advanced(IF loop.out.cancel THEN "cancel" ELSE "mark")
  \/ loop.pc = "cancel" /\ Advanced("mark")
  \/ loop.pc = "mark" /\ TurnedTo(loop.out.tasks)
  \/ loop.pc = "insert" /\ Advanced("spawn")
  \/ loop.pc = "spawn" /\ TurnedTo(Tail(loop.out.tasks))

\* A failed attempt is made again, or the run ends.
LEMMA FailedRun ==
  ASSUME LoopInv, LoopAttemptFails
  PROVE  Retried \/ Ended
  <1>1. loop \in LoopRun
    BY DEF LoopInv, GoodRun
  <1>2. CASE loop.attempt < DefaultAttempts
    <2>1. loop' = [loop EXCEPT !.attempt = loop.attempt + 1] /\ pending' = pending
      BY <1>2 DEF LoopAttemptFails
    <2> QED
      BY <1>1, <2>1 DEF Retried, LoopRun
  <1>3. CASE ~(loop.attempt < DefaultAttempts)
    BY <1>3 DEF LoopAttemptFails, Ended
  <1> QED
    BY <1>2, <1>3

\* An activity that took effect leaves the run as `next`, or is made again, or is the last.
LEMMA CompletedRun ==
  ASSUME LoopInv, NEW next \in LoopRun, LoopCompletes(next)
  PROVE  \/ /\ pending' = pending
            /\ loop' = [next EXCEPT !.attempt = 1]
            /\ loop'.pc = next.pc /\ loop'.signal = next.signal
            /\ loop'.out = next.out /\ loop'.state = next.state
         \/ Retried
         \/ Ended
  BY FailedRun DEF LoopCompletes, LoopRun

\* What follows a handled signal has nothing left to do.
LEMMA RestedRun ==
  ASSUME LoopInv, Rested
  PROVE  loop'.pc \in {"register", "idle"} /\ loop'.out.tasks = <<>>
  BY DEF Rested, Handled, NewRun, IdleRun, NoOutput, Output

\* The next task, or the end, whether reported through an activity or not.
LEMMA TurnedRun ==
  ASSUME LoopInv, NEW out \in DecisionOutput, pending' = pending,
         loop' \in {NextTask(out), [NextTask(out) EXCEPT !.attempt = 1]}
  PROVE  TurnedTo(out.tasks)
  <1>1. loop \in LoopRun
    BY DEF LoopInv, GoodRun
  <1>2. CASE out.tasks = <<>>
    BY <1>2 DEF NextTask, TurnedTo, Rested
  <1>3. CASE out.tasks # <<>>
    <2> DEFINE next == [loop EXCEPT !.pc = "insert", !.out = out, !.task = 0]
    <2>1. next \in LoopRun /\ next.pc = "insert" /\ next.out = out /\ next.signal = loop.signal
      BY <1>1, InsertingType DEF LoopRun
    <2>2. loop' \in {next, [next EXCEPT !.attempt = 1]}
      BY <1>3 DEF NextTask
    <2> HIDE DEF next
    <2>3. loop'.pc = "insert" /\ loop'.out = out /\ loop'.signal = loop.signal
      BY <2>1, <2>2 DEF LoopRun
    <2> QED
      BY <1>3, <2>3 DEF TurnedTo
  <1> QED
    BY <1>2, <1>3

(* Whatever step the loop takes, it is one of LoopEffect.                  *)
LEMMA LoopMoves ==
  ASSUME TypeInv, LoopNext
  PROVE  LoopEffect
  <1>a. LoopInv /\ loop \in LoopRun /\ loop.out \in DecisionOutput
    BY DEF TypeInv, LoopInv, GoodRun, LoopRun
  <1>b. CreatedState \in ContactState
    BY CreatedStateType DEF TypeInv, StoreInv, StoreTypeOK
  <1>1. CASE LoopPop
    BY <1>1, <1>a DEF LoopPop, LoopEffect, Popped, LoopRun
  <1>2. CASE LoopReadContact
    BY <1>2, <1>a DEF LoopReadContact, LoopEffect, Advanced, LoopRun
  <1>3. CASE LoopReadConsent
    BY <1>3, <1>a DEF LoopReadConsent, LoopEffect, Advanced, LoopRun
  <1>4. CASE LoopActivityFails
    BY <1>4, <1>a, FailedRun DEF LoopActivityFails, LoopEffect
  <1>5. CASE LoopDecide
    <2> DEFINE step == IF Decision.patch THEN "patch"
                       ELSE IF Decision.cancel THEN "cancel" ELSE "mark"
    <2>1. /\ loop' = [IdleRun(step, loop.processed) EXCEPT !.signal = loop.signal,
                                                           !.out = Decision]
          /\ loop.pc = "decide" /\ pending' = pending
      BY <1>5 DEF LoopDecide, Decision
    <2>2. loop'.signal = loop.signal /\ loop'.out = Decision /\ loop'.pc = step
      BY <2>1 DEF IdleRun
    <2> QED
      BY <2>1, <2>2 DEF LoopEffect, Decided
  <1>6. CASE LoopRegister \/ LoopPatch \/ LoopCancel
    <2>1. PICK pc \in LoopPc :
            /\ LoopCompletes([loop EXCEPT !.pc = pc])
            /\ \/ loop.pc = "register" /\ pc = "idle"
               \/ loop.pc = "patch" /\ pc = IF loop.out.cancel THEN "cancel" ELSE "mark"
               \/ loop.pc = "cancel" /\ pc = "mark"
      BY <1>6 DEF LoopRegister, LoopPatch, LoopCancel, LoopPc
    <2> DEFINE next == [loop EXCEPT !.pc = pc]
    <2>2. /\ next \in LoopRun /\ next.pc = pc
          /\ next.signal = loop.signal /\ next.out = loop.out
      BY <1>a DEF LoopRun
    <2>3. LoopCompletes(next)
      BY <2>1
    <2> HIDE DEF next
    <2>4. Advanced(pc) \/ Retried \/ Ended
      BY <1>a, <2>2, <2>3, CompletedRun DEF Advanced
    <2> QED
      BY <2>1, <2>4 DEF LoopEffect
  <1>7. CASE LoopReadState
    <2> DEFINE next == [loop EXCEPT !.pc = "consent", !.state = CreatedState]
    <2>1. /\ next \in LoopRun /\ next.pc = "consent" /\ next.state = CreatedState
          /\ next.signal = loop.signal /\ next.out = loop.out
      BY <1>a, <1>b DEF LoopRun, LoopPc
    <2>2. LoopCompletes(next) /\ loop.pc = "state"
      BY <1>7 DEF LoopReadState
    <2> HIDE DEF next
    <2>3. (Advanced("consent") /\ loop'.state = CreatedState) \/ Retried \/ Ended
      BY <1>a, <2>1, <2>2, CompletedRun DEF Advanced
    <2> QED
      BY <2>2, <2>3 DEF LoopEffect
  <1>8. CASE LoopInsert
    <2> DEFINE proposed == Head(loop.out.tasks)
               next == [loop EXCEPT !.pc = "spawn", !.task = InsertedTask(proposed)]
    <2>1. proposed \in ProposedTask
      BY <1>8, <1>a, HeadTailProperties
         DEF LoopInsert, TypeInv, LoopInv, GoodRun, DecisionOutput
    <2>2. InsertedTask(proposed) \in Nat
      BY <1>8, <2>1, InsertTaskType DEF LoopInsert, TypeInv, StoreInv, StoreTypeOK
    <2>3. /\ next \in LoopRun /\ next.pc = "spawn"
          /\ next.signal = loop.signal /\ next.out = loop.out
      BY <1>a, <2>2 DEF LoopRun, LoopPc
    <2>4. LoopCompletes(next) /\ loop.pc = "insert"
      BY <1>8 DEF LoopInsert
    <2> HIDE DEF next
    <2>5. Advanced("spawn") \/ Retried \/ Ended
      BY <1>a, <2>3, <2>4, CompletedRun DEF Advanced
    <2> QED
      BY <2>4, <2>5 DEF LoopEffect
  <1>9. CASE LoopMark
    <2>1. loop.signal \in DOMAIN signals
      BY <1>9 DEF LoopMark, TypeInv, LoopInv, GoodRun
    <2>2. NextTask(loop.out) \in LoopRun
      BY <1>a, <2>1, NextTaskType DEF GoodRun
    <2>3. LoopCompletes(NextTask(loop.out)) /\ loop.pc = "mark"
      BY <1>9 DEF LoopMark
    <2>4. TurnedTo(loop.out.tasks) \/ Retried \/ Ended
      BY <1>a, <2>2, <2>3, CompletedRun, TurnedRun
    <2> QED
      BY <2>3, <2>4 DEF LoopEffect
  <1>10. CASE LoopSpawn
    <2> DEFINE out == [loop.out EXCEPT !.tasks = Tail(loop.out.tasks)]
    <2>1. loop.out.tasks # <<>> /\ loop.pc = "spawn" /\ pending' = pending
      BY <1>10 DEF LoopSpawn, TypeInv, LoopInv, GoodRun
    <2>2. Tail(loop.out.tasks) \in Seq(ProposedTask)
      BY <1>a, <2>1, HeadTailProperties DEF DecisionOutput
    <2>3. out.tasks = Tail(loop.out.tasks) /\ out \in DecisionOutput
      BY <1>a, <2>2 DEF DecisionOutput
    <2>4. loop' = NextTask(out)
      BY <1>10 DEF LoopSpawn
    <2> HIDE DEF out
    <2>5. TurnedTo(out.tasks)
      BY <1>a, <2>1, <2>3, <2>4, TurnedRun
    <2> QED
      BY <2>1, <2>3, <2>5 DEF LoopEffect
  <1> QED
    BY <1>1, <1>2, <1>3, <1>4, <1>5, <1>6, <1>7, <1>8, <1>9, <1>10 DEF LoopNext

-----------------------------------------------------------------------------
(* Who holds a signal that is recorded and not in the queue yet.           *)

RequestHolds == {r \in requests : r.pc \in {"backfill", "dispatch"}}
ExecutionHolds == {t \in DOMAIN exec : exec[t].pc \in {"backfill", "deliver"}}

Custody ==
  {<<"request", r, r.signal>> : r \in RequestHolds}
    \cup {<<"execution", t, exec[t].signal>> : t \in ExecutionHolds}

Queued(s) == \E i \in DOMAIN pending : pending[i] = s

\* The loop works on s, or has worked on it and made a task of it.
TakenOff(s) ==
  \/ Busy /\ loop.signal = s
  \/ \E t \in DOMAIN tasks : CausedBy(t) = s

\* Nothing is handed over, and nothing new is held.
Keeps ==
  /\ Custody' \subseteq Custody
  /\ pending' = pending /\ loop' = loop

\* A signal that is inserted is held by who inserted it.
Holds(a) ==
  /\ a[3] = Len(signals) + 1
  /\ Custody' \subseteq Custody \cup {a}
  /\ pending' = pending /\ loop' = loop

\* A holder goes on with its signal.
GoesOn(a, b) ==
  /\ a \in Custody /\ b[3] = a[3]
  /\ Custody' \subseteq (Custody \ {a}) \cup {b}
  /\ pending' = pending /\ loop' = loop

\* A holder hands its signal over to the loop.
HandsOver(a) ==
  /\ a \in Custody
  /\ Custody' \subseteq Custody \ {a}
  /\ pending' = Append(pending, a[3])
  /\ loop' = IF loop.pc = "none" THEN NewRun ELSE loop

\* Requests and executions that do not change hold what they held.
LEMMA SameHolders ==
  ASSUME \A r \in requests' : r \in requests \/ r.pc \notin {"backfill", "dispatch"},
         UNCHANGED exec
  PROVE  Custody' \subseteq Custody
  BY DEF Custody, RequestHolds, ExecutionHolds

\* An execution moves from one record to another.
LEMMA MovedHolder ==
  ASSUME UNCHANGED requests, NEW t \in DOMAIN exec, NEW e, exec' = [exec EXCEPT ![t] = e]
  PROVE  /\ Custody' \subseteq {a \in Custody : a[1] = "request" \/ a[2] # t}
                                 \cup {<<"execution", t, e.signal>>}
         /\ e.pc \notin {"backfill", "deliver"} =>
              Custody' \subseteq {a \in Custody : a[1] = "request" \/ a[2] # t}
  BY DEF Custody, RequestHolds, ExecutionHolds

(* A request inserts a signal and holds it, or hands over the one it holds.*)
LEMMA RequestMoves ==
  ASSUME TypeInv, NEW r \in requests, RequestRuns(r) \/ RequestFails(r) \/ RequestDies(r)
  PROVE  \/ Keeps
         \/ \E a : Holds(a)
         \/ \E a, b : GoesOn(a, b)
         \/ \E a : HandsOver(a)
  <1>a. r \in Request
    BY DEF TypeInv, ApiInv
  <1>1. CASE RecordSmsConsent(r) \/ ConfirmKeyword(r) \/ MarkDelivered(r) \/ RequestFails(r)
               \/ RequestDies(r)
    <2>1. UNCHANGED <<pending, loop, exec>>
      BY <1>1 DEF RecordSmsConsent, ConfirmKeyword, MarkDelivered, RequestFails, RequestDies
    <2>2. \A q \in requests' : q \in requests \/ q = [r EXCEPT !.pc = "confirm"]
      BY <1>1 DEF RecordSmsConsent, ConfirmKeyword, MarkDelivered, RequestFails, RequestDies,
         Becomes, Ends
    <2>3. [r EXCEPT !.pc = "confirm"].pc = "confirm"
      BY <1>a DEF Request
    <2> QED
      BY <2>1, <2>2, <2>3, SameHolders DEF Keeps
  <1>2. CASE EmitCallResult(r)
    <2> DEFINE q == [r EXCEPT !.pc = "backfill", !.signal = Len(signals) + 1]
    <2>1. q.signal = Len(signals) + 1
      BY <1>a DEF Request
    <2>2. requests' = (requests \ {r}) \cup {q} /\ UNCHANGED <<pending, loop, exec>>
      BY <1>2 DEF EmitCallResult
    <2> HIDE DEF q
    <2>3. Custody' \subseteq Custody \cup {<<"request", q, q.signal>>}
      BY <2>2 DEF Custody, RequestHolds, ExecutionHolds
    <2>4. Holds(<<"request", q, q.signal>>)
      BY <2>1, <2>2, <2>3 DEF Holds
    <2> QED
      BY <2>4
  <1>3. CASE BackfillCallResult(r)
    <2> DEFINE q == [r EXCEPT !.pc = "dispatch"]
    <2>1. q.signal = r.signal
      BY <1>a DEF Request
    <2>2. /\ requests' = (requests \ {r}) \cup {q} /\ UNCHANGED <<pending, loop, exec>>
          /\ r \in RequestHolds
      BY <1>3 DEF BackfillCallResult, Becomes, RequestHolds
    <2> HIDE DEF q
    <2>3. Custody' \subseteq (Custody \ {<<"request", r, r.signal>>})
                               \cup {<<"request", q, q.signal>>}
      BY <2>2 DEF Custody, RequestHolds, ExecutionHolds
    <2>4. <<"request", r, r.signal>> \in Custody
      BY <2>2 DEF Custody
    <2>5. GoesOn(<<"request", r, r.signal>>, <<"request", q, q.signal>>)
      BY <2>1, <2>2, <2>3, <2>4 DEF GoesOn
    <2> QED
      BY <2>5
  <1>4. CASE Dispatch(r)
    <2>1. [r EXCEPT !.pc = "mark"].pc = "mark"
      BY <1>a DEF Request
    <2>2. /\ \A q \in requests' : q \in requests \ {r} \/ q = [r EXCEPT !.pc = "mark"]
          /\ UNCHANGED exec /\ SignalWithStart(r.signal) /\ r \in RequestHolds
      BY <1>4 DEF Dispatch, Becomes, Ends, RequestHolds
    <2>3. <<"request", r, r.signal>> \in Custody
      BY <2>2 DEF Custody
    <2>4. Custody' \subseteq Custody \ {<<"request", r, r.signal>>}
      <3>1. RequestHolds' \subseteq RequestHolds \ {r} /\ ExecutionHolds' = ExecutionHolds
        BY <2>1, <2>2 DEF RequestHolds, ExecutionHolds
      <3> QED
        BY <2>2, <3>1 DEF Custody
    <2>5. HandsOver(<<"request", r, r.signal>>)
      BY <2>2, <2>3, <2>4 DEF HandsOver, SignalWithStart
    <2> QED
      BY <2>5
  <1> QED
    BY <1>1, <1>2, <1>3, <1>4 DEF RequestRuns

\* The world brings in requests that hold the signal they inserted, or none yet.
LEMMA WorldMoves ==
  ASSUME TypeInv, World
  PROVE  Keeps \/ \E a : Holds(a)
  <1>1. UNCHANGED <<pending, loop, exec>>
    BY DEF World, ReceiveSms, FinalizeVoiceSession, ScheduleMeeting, UpdateContact
  <1>2. PICK q : /\ requests' \subseteq requests \cup {q}
                 /\ q.signal = Len(signals) + 1 \/ q.pc = "emit"
    <2>1. \A kind : NewRequest(kind).signal = Len(signals) + 1
      BY DEF NewRequest
    <2>2. ASSUME NEW kind, requests' \subseteq requests \cup {NewRequest(kind)}
          PROVE  \E q : /\ requests' \subseteq requests \cup {q}
                        /\ q.signal = Len(signals) + 1 \/ q.pc = "emit"
      BY <2>1, <2>2
    <2>3. ASSUME NEW n, NEW outcome, NEW q,
                 q = [kind |-> "call", signal |-> 0, pc |-> "emit",
                      interaction |-> n, outcome |-> outcome],
                 requests' \subseteq requests \cup {q}
          PROVE  \E p : /\ requests' \subseteq requests \cup {p}
                        /\ p.signal = Len(signals) + 1 \/ p.pc = "emit"
      <3>1. q.pc = "emit"
        BY <2>3
      <3> QED
        BY <2>3, <3>1
    <2>4. \/ \E kind : requests' \subseteq requests \cup {NewRequest(kind)}
          \/ \E n, outcome : requests' \subseteq requests \cup
               {[kind |-> "call", signal |-> 0, pc |-> "emit",
                 interaction |-> n, outcome |-> outcome]}
          \/ UNCHANGED requests
      BY DEF World, ReceiveSms, FinalizeVoiceSession, ScheduleMeeting, UpdateContact
    <2> QED
      BY <2>1, <2>2, <2>3, <2>4
  <1>3. CASE q.pc = "emit"
    BY <1>1, <1>2, <1>3, SameHolders DEF Keeps
  <1>4. CASE q.signal = Len(signals) + 1
    <2>1. Custody' \subseteq Custody \cup {<<"request", q, q.signal>>}
      BY <1>1, <1>2 DEF Custody, RequestHolds, ExecutionHolds
    <2>2. Holds(<<"request", q, q.signal>>)
      BY <1>1, <1>4, <2>1 DEF Holds
    <2> QED
      BY <2>2
  <1> QED
    BY <1>2, <1>3, <1>4

(* So does an execution with its result signal.                            *)
LEMMA ExecutionMoves ==
  ASSUME TypeInv, NEW t \in DOMAIN exec, ExecutionRuns(t) \/ ExecutionFails(t)
  PROVE  \/ Keeps
         \/ \E a : Holds(a)
         \/ \E a : HandsOver(a)
  <1>a. exec[t] \in Execution
    BY DEF TypeInv, ExecInv, GoodExecution
  <1>b. UNCHANGED requests
    BY DEF ExecutionRuns, ExecutionFails
  <1>1. CASE ExecEmit(t)
    <2> DEFINE e == [exec[t] EXCEPT !.pc = "backfill", !.signal = Len(signals) + 1]
    <2>1. e.signal = Len(signals) + 1
      BY <1>a DEF Execution
    <2>2. exec' = [exec EXCEPT ![t] = e] /\ UNCHANGED <<pending, loop>>
      BY <1>1 DEF ExecEmit
    <2> HIDE DEF e
    <2>3. Custody' \subseteq Custody \cup {<<"execution", t, e.signal>>}
      BY <1>b, <2>2, MovedHolder
    <2>4. Holds(<<"execution", t, e.signal>>)
      BY <2>1, <2>2, <2>3 DEF Holds
    <2> QED
      BY <2>4
  <1>2. CASE ExecBackfill(t)
    <2> DEFINE e == [exec[t] EXCEPT !.pc = "deliver"]
    <2>1. e.signal = exec[t].signal
      BY <1>a DEF Execution
    <2>2. exec' = [exec EXCEPT ![t] = e] /\ UNCHANGED <<pending, loop>>
      BY <1>2 DEF ExecBackfill
    <2> HIDE DEF e
    <2>3. <<"execution", t, exec[t].signal>> \in Custody
      BY <1>2 DEF ExecBackfill, ExecAt, Custody, ExecutionHolds
    <2>4. <<"execution", t, e.signal>> \in Custody
      BY <2>1, <2>3
    <2>5. Custody' \subseteq Custody
      <3>1. Custody' \subseteq {a \in Custody : a[1] = "request" \/ a[2] # t}
                                 \cup {<<"execution", t, e.signal>>}
        BY <1>b, <2>2, MovedHolder
      <3> QED
        BY <2>4, <3>1
    <2> QED
      BY <2>2, <2>5 DEF Keeps
  <1>3. CASE ExecDeliver(t)
    <2>1. exec[t].pc = "deliver" /\ SignalWithStart(exec[t].signal)
      BY <1>3 DEF ExecDeliver, ExecAt
    <2>2. PICK e : exec' = [exec EXCEPT ![t] = e] /\ Lives(t, e.pc)
      BY <1>3, ExecLives
    <2>3. e.pc \notin {"backfill", "deliver"}
      BY <2>1, <2>2 DEF Lives, Passes
    <2>4. <<"execution", t, exec[t].signal>> \in Custody
      BY <2>1 DEF Custody, ExecutionHolds
    <2>5. Custody' \subseteq Custody \ {<<"execution", t, exec[t].signal>>}
      BY <1>b, <2>2, <2>3, MovedHolder
    <2>6. HandsOver(<<"execution", t, exec[t].signal>>)
      BY <2>1, <2>4, <2>5 DEF HandsOver, SignalWithStart
    <2> QED
      BY <2>6
  <1>4. CASE ~ExecEmit(t) /\ ~ExecBackfill(t) /\ ~ExecDeliver(t)
    <2>1. PICK e : exec' = [exec EXCEPT ![t] = e] /\ Lives(t, e.pc)
      BY <1>4, ExecLives
    <2>2. e.pc \notin {"backfill", "deliver"}
      BY <1>4, <2>1, EmittingStep DEF Lives, Passes
    <2>3. Custody' \subseteq Custody
      BY <1>b, <2>1, <2>2, MovedHolder
    <2>4. UNCHANGED <<pending, loop>>
      BY <1>4 DEF ExecutionRuns, ExecutionFails, ExecRuns, ExecActivityFails, ExecWake,
         ExecReadContact, ExecReadState, ExecReadConsent, ExecCheck, ExecSkip, ExecStart,
         ExecInteract, ExecSendSms, ExecSendEmail, ExecLog, ExecComplete, ExecMoves
    <2> QED
      BY <2>3, <2>4 DEF Keeps
  <1> QED
    BY <1>1, <1>2, <1>3, <1>4

\* The loop hands nothing over: it spawns executions asleep.
LEMMA LoopHolds ==
  ASSUME Loop
  PROVE  Custody' \subseteq Custody
  <1>1. UNCHANGED requests
    BY DEF Loop
  <1>2. UNCHANGED exec \/ LoopSpawn
    BY DEF Loop, LoopNext, LoopRegister, LoopPop, LoopReadContact, LoopReadState,
       LoopReadConsent, LoopDecide, LoopPatch, LoopMark, LoopActivityFails, LoopCancel,
       LoopInsert
  <1>3. CASE UNCHANGED exec
    BY <1>1, <1>3, SameHolders
  <1>4. CASE LoopSpawn
    <2>1. ExecutionHolds' = ExecutionHolds
          /\ \A t \in ExecutionHolds : exec'[t].signal = exec[t].signal
      BY <1>4 DEF LoopSpawn, ExecutionHolds, NewExecution
    <2>2. RequestHolds' = RequestHolds
      BY <1>1 DEF RequestHolds
    <2> QED
      BY <2>1, <2>2 DEF Custody
  <1> QED
    BY <1>2, <1>3, <1>4

(* What any step does with the signals that wait.                          *)
LEMMA SignalsMove ==
  ASSUME TypeInv, [Next]_vars
  PROVE  \/ Loop /\ LoopEffect /\ Custody' \subseteq Custody
         \/ Keeps
         \/ \E a : Holds(a)
         \/ \E a, b : GoesOn(a, b)
         \/ \E a : HandsOver(a)
  <1>1. CASE Loop
    BY <1>1, LoopHolds, LoopMoves DEF Loop
  <1>2. CASE UNCHANGED vars \/ Tick
    <2>1. UNCHANGED <<pending, loop, exec, requests>>
      BY <1>2 DEF vars, Tick
    <2> QED
      BY <2>1, SameHolders DEF Keeps
  <1>3. CASE World
    BY <1>3, WorldMoves
  <1>4. CASE \E r \in requests : RequestRuns(r) \/ RequestFails(r) \/ RequestDies(r)
    BY <1>4, RequestMoves
  <1>5. CASE \E t \in DOMAIN exec : ExecutionRuns(t) \/ ExecutionFails(t)
    BY <1>5, ExecutionMoves
  <1> QED
    BY <1>1, <1>2, <1>3, <1>4, <1>5 DEF Next

-----------------------------------------------------------------------------
(* No signal is handed over, or worked on, twice.                          *)

\* What is left of a decision is one proposal for the signal in hand, if anything.
PlanInv ==
  \/ loop.out.tasks = <<>>
  \/ /\ loop.pc \in Applying
     /\ \E proposed \in ProposedTask :
          /\ loop.out.tasks = <<proposed>>
          /\ proposed.idempotency_key[1] = loop.signal

CausesInv == \A t \in DOMAIN tasks : CausedBy(t) \in DOMAIN signals

OnceInv ==
  /\ \A i, j \in DOMAIN pending : pending[i] = pending[j] => i = j
  /\ \A a, b \in Custody : a[3] = b[3] => a = b
  /\ \A a \in Custody : ~Queued(a[3]) /\ ~TakenOff(a[3])
  /\ \A i \in DOMAIN pending : ~TakenOff(pending[i])

\* A rule proposes one task at most, for the signal it was given.
LEMMA EvaluatePlans ==
  ASSUME NEW s, NEW signal, NEW c, NEW state, NEW con, NEW now, NEW out,
         out = Evaluate(s, signal, c, state, con, now)
  PROVE  out.tasks = <<>> \/ \E type, at, goal : out.tasks = Propose(s, type, at, goal)
  <1>1. CASE out = DecideOnInboundSms(s, signal, c, state, con, now)
    BY <1>1 DEF DecideOnInboundSms, Output
  <1>2. CASE out = DecideOnInteractionResult(s, signal, c, state, con, now)
    BY <1>2 DEF DecideOnInteractionResult, Output
  <1>3. CASE out = DecideOnMeetingScheduled(s, signal, c, state, con, now)
    BY <1>3 DEF DecideOnMeetingScheduled, Output
  <1>4. CASE out = Output(<<>>, state, FALSE, FALSE)
    BY <1>4 DEF Output
  <1> QED
    BY <1>1, <1>2, <1>3, <1>4 DEF Evaluate

\* What the loop decides is a decision.
LEMMA DecisionType ==
  ASSUME TypeInv, loop.pc = "decide"
  PROVE  Decision \in DecisionOutput
  <1>1. loop.signal \in DOMAIN signals /\ loop.signal \in Nat
    BY DEF TypeInv, LoopInv, GoodRun, LoopRun
  <1>2. signals[loop.signal] \in SignalRow
    BY <1>1, ElementOfSeq, LenProperties DEF TypeInv, StoreInv, StoreTypeOK
  <1>3. /\ loop.contact \in ContactStatus /\ loop.state \in ContactState
        /\ loop.consent \in Consent /\ clock \in Nat
    BY DEF TypeInv, LoopInv, GoodRun, LoopRun, StoreInv, StoreTypeOK
  <1>4. /\ signals[loop.signal].due \in Time
        /\ signals[loop.signal].outcome \in Outcome \cup {NoOutcome}
    BY <1>2 DEF SignalRow
  <1> QED
    BY <1>1, <1>2, <1>3, <1>4, EvaluateType DEF Decision

\* The plan is dropped, kept or carried out.
LEMMA PlanStep ==
  ASSUME TypeInv, PlanInv, [Next]_vars
  PROVE  PlanInv'
  <1>a. LoopInv
    BY DEF TypeInv
  <1>b. NoRun.out.tasks = <<>> /\ NewRun.out.tasks = <<>>
    BY DEF NoRun, NewRun, IdleRun, NoOutput, Output
  <1>1. CASE loop' = loop \/ loop' = NewRun
    BY <1>1, <1>b DEF PlanInv
  <1>2. CASE LoopEffect
    <2>1. CASE Retried
      BY <2>1 DEF Retried, PlanInv
    <2>2. CASE Ended
      BY <2>2, <1>b DEF Ended, PlanInv
    <2>3. CASE Rested
      BY <2>3, <1>a, RestedRun DEF PlanInv
    <2>4. CASE \/ loop.pc = "register" /\ Advanced("idle")
               \/ Popped
               \/ loop.pc = "contact" /\ Advanced("state")
               \/ loop.pc = "state" /\ Advanced("consent")
               \/ loop.pc = "consent" /\ Advanced("decide")
      BY <2>4 DEF PlanInv, Advanced, Popped, Applying
    <2>5. CASE \/ loop.pc = "patch" /\ Advanced(IF loop.out.cancel THEN "cancel" ELSE "mark")
               \/ loop.pc = "cancel" /\ Advanced("mark")
               \/ loop.pc = "insert" /\ Advanced("spawn")
      BY <2>5 DEF PlanInv, Advanced, Applying
    <2>6. CASE Decided
      <3>1. loop'.out.tasks = Decision.tasks /\ loop'.signal = loop.signal
            /\ loop'.pc \in Applying
        BY <2>6 DEF Decided, Applying
      <3>2. CASE Decision.tasks = <<>>
        BY <3>1, <3>2 DEF PlanInv
      <3>3. ASSUME NEW type, NEW at, NEW goal,
                   Decision.tasks = Propose(loop.signal, type, at, goal)
            PROVE  PlanInv'
        <4> DEFINE p == [idempotency_key |-> DeriveIdempotencyKey(loop.signal, type, 0),
                         type |-> type, scheduled_for |-> at, goal |-> goal]
        <4>1. Decision.tasks = <<p>>
          BY <3>3 DEF Propose
        <4>2. p.idempotency_key[1] = loop.signal
          BY DEF DeriveIdempotencyKey
        <4> HIDE DEF p
        <4>3. Decision.tasks \in Seq(ProposedTask)
          BY <2>6, DecisionType DEF Decided, DecisionOutput
        <4>4. p \in ProposedTask
          BY <4>1, <4>3, ElementOfSeq, LenProperties
        <4> QED
          BY <3>1, <4>1, <4>2, <4>4 DEF PlanInv
      <3> QED
        BY <3>2, <3>3, EvaluatePlans DEF Decision
    <2>7. CASE loop.pc = "mark" /\ TurnedTo(loop.out.tasks)
      BY <2>7, <2>3 DEF TurnedTo, PlanInv, Applying
    <2>8. CASE loop.pc = "spawn" /\ TurnedTo(Tail(loop.out.tasks))
      <3>1. loop.out.tasks # <<>>
        BY <2>8, <1>a DEF LoopInv, GoodRun
      <3>2. Tail(loop.out.tasks) = <<>>
        <4>1. PICK proposed \in ProposedTask : loop.out.tasks = <<proposed>>
          BY <3>1 DEF PlanInv
        <4> QED
          BY <4>1
      <3> QED
        BY <2>8, <2>3, <3>2 DEF TurnedTo
    <2> QED
      BY <1>2, <2>1, <2>2, <2>3, <2>4, <2>5, <2>6, <2>7, <2>8 DEF LoopEffect
  <1> QED
    BY <1>1, <1>2, SignalsMove DEF Keeps, Holds, GoesOn, HandsOver

\* A row that a step adds is the one LoopInsert makes of the proposal it is at.
LEMMA NewTask ==
  ASSUME TypeInv, [Next]_vars, NEW t \in DOMAIN tasks', t \notin DOMAIN tasks
  PROVE  /\ LoopInsert /\ loop.out.tasks # <<>> /\ t = Len(tasks) + 1
         /\ Head(loop.out.tasks) \in ProposedTask
         /\ TasksWithKey(Head(loop.out.tasks).idempotency_key) = {}
         /\ tasks' = Append(tasks, NewTaskRow(Head(loop.out.tasks)))
         /\ tasks'[t] = NewTaskRow(Head(loop.out.tasks))
  <1>1. CASE \E u \in DOMAIN exec : ExecutionRuns(u) \/ ExecutionFails(u)
    <2>1. tasks' = tasks \/ \E u, status : UpdateTaskStatus(u, status)
      BY <1>1, ExecLives DEF Lives
    <2> QED
      BY <2>1 DEF UpdateTaskStatus
  <1>2. CASE LoopCancel \/ LoopSpawn \/ UNCHANGED tasks
    BY <1>2, CanceledStatus DEF LoopSpawn, tables
  <1>3. CASE LoopInsert
    <2>1. /\ tasks' = Append(tasks, NewTaskRow(Head(loop.out.tasks)))
          /\ TasksWithKey(Head(loop.out.tasks).idempotency_key) = {}
      BY <1>3 DEF LoopInsert, InsertTask
    <2>2. tasks \in Seq(TaskRow) /\ loop.out.tasks \in Seq(ProposedTask)
      BY DEF TypeInv, StoreInv, StoreTypeOK, LoopInv, GoodRun, LoopRun, DecisionOutput
    <2>3. loop.out.tasks # <<>>
      BY <1>3 DEF LoopInsert, TypeInv, LoopInv, GoodRun
    <2>4. Head(loop.out.tasks) \in ProposedTask
      BY <2>2, <2>3, HeadTailProperties
    <2> QED
      BY <1>3, <2>1, <2>2, <2>3, <2>4, AppendedRow
  <1> QED
    BY <1>1, <1>2, <1>3, OthersLive

\* Its cause is the signal in hand.
LEMMA NewCause ==
  ASSUME TypeInv, PlanInv, [Next]_vars, NEW t \in DOMAIN tasks', t \notin DOMAIN tasks
  PROVE  Busy /\ CausedBy(t)' = loop.signal /\ loop.signal \in DOMAIN signals
  <1>1. PICK p \in ProposedTask : /\ loop.out.tasks = <<p>> /\ p.idempotency_key[1] = loop.signal
                                  /\ loop.pc \in Applying
    BY NewTask DEF PlanInv
  <1>2. tasks'[t] = NewTaskRow(p)
    BY <1>1, NewTask
  <1> QED
    BY <1>1, <1>2 DEF NewTaskRow, CausedBy, Busy, Applying, TypeInv, LoopInv, GoodRun

\* Every task has a cause that was recorded.
LEMMA CausesStep ==
  ASSUME TypeInv, PlanInv, CausesInv, [Next]_vars
  PROVE  CausesInv'
  <1>1. TasksKept /\ SignalsKept
    BY StepKeepsTasks, StepKeepsSignals
  <1>2. ASSUME NEW t \in DOMAIN tasks'
        PROVE  CausedBy(t)' \in DOMAIN signals
    BY <1>1, NewCause DEF CausesInv, CausedBy, TasksKept
  <1> QED
    BY <1>1, <1>2 DEF CausesInv, SignalsKept

\* A signal is taken off the queue, and in no other way.
LEMMA TakenStep ==
  ASSUME TypeInv, PlanInv, [Next]_vars, NEW s, TakenOff(s)'
  PROVE  TakenOff(s) \/ (Popped /\ s = Head(pending))
  <1>1. CASE \E t \in DOMAIN tasks' : CausedBy(t)' = s
    BY <1>1, NewCause, StepKeepsTasks DEF TasksKept, CausedBy, TakenOff
  <1>2. CASE Busy' /\ loop'.signal = s
    <2>1. CASE loop' \in {loop, NewRun, NoRun}
      BY <1>2, <2>1 DEF Busy, NewRun, NoRun, IdleRun, TakenOff
    <2>2. CASE LoopEffect
      <3>1. Rested => loop'.pc \in {"register", "idle"}
        BY RestedRun DEF TypeInv
      <3>2. (Busy /\ loop.signal = s) \/ (Popped /\ s = Head(pending))
        BY <1>2, <2>2, <3>1 DEF LoopEffect, Retried, Ended, Advanced, Popped, Decided, TurnedTo,
           Busy, NoRun, IdleRun
      <3> QED
        BY <3>2 DEF TakenOff
    <2> QED
      BY <2>1, <2>2, SignalsMove DEF Keeps, Holds, GoesOn, HandsOver
  <1> QED
    BY <1>1, <1>2 DEF TakenOff

\* Whoever holds a signal holds one that is recorded.
LEMMA HeldIsRecorded ==
  ASSUME TypeInv, CausesInv
  PROVE  /\ \A a \in Custody : a[3] \in DOMAIN signals
         /\ \A s : Queued(s) \/ TakenOff(s) => s \in DOMAIN signals
  <1>1. \A a \in Custody : a[3] \in DOMAIN signals
    BY DEF Custody, RequestHolds, ExecutionHolds, TypeInv, ApiInv, ExecInv, GoodExecution
  <1>2. ASSUME NEW s, Queued(s)
        PROVE  s \in DOMAIN signals
    BY <1>2, ElementOfSeq, LenProperties DEF Queued, TypeInv, LoopInv
  <1>3. ASSUME NEW s, TakenOff(s)
        PROVE  s \in DOMAIN signals
    BY <1>3 DEF TakenOff, Busy, TypeInv, LoopInv, GoodRun, CausesInv
  <1> QED
    BY <1>1, <1>2, <1>3

\* A step that hands nothing over leaves every signal where it was.
LEMMA KeptOnce ==
  ASSUME TypeInv, PlanInv, OnceInv, [Next]_vars, ~Popped,
         Custody' \subseteq Custody, pending' \in {pending, <<>>}
  PROVE  OnceInv'
  <1>1. \A s : TakenOff(s)' => TakenOff(s)
    BY TakenStep
  <1>2. /\ DOMAIN pending' \subseteq DOMAIN pending
        /\ \A i \in DOMAIN pending' : pending'[i] = pending[i]
    BY EmptySeq
  <1>3. \A s : Queued(s)' => Queued(s)
    BY <1>2 DEF Queued
  <1> QED
    BY <1>1, <1>2, <1>3 DEF OnceInv

\* A signal that is inserted was nowhere before.
LEMMA HeldOnce ==
  ASSUME TypeInv, PlanInv, CausesInv, OnceInv, [Next]_vars, NEW a, Holds(a)
  PROVE  OnceInv'
  <1>1. a[3] \notin DOMAIN signals
    BY LenProperties DEF Holds, TypeInv, StoreInv, StoreTypeOK
  <1>2. ~Popped
    BY DEF Popped, Holds
  <1>3. \A s : TakenOff(s)' => TakenOff(s)
    BY <1>2, TakenStep
  <1>4. \A s : Queued(s)' <=> Queued(s)
    BY DEF Queued, Holds
  <1>5. \A b \in Custody : b[3] # a[3]
    BY <1>1, HeldIsRecorded
  <1>6. ~Queued(a[3]) /\ ~TakenOff(a[3])
    BY <1>1, HeldIsRecorded
  <1>7. /\ Custody' \subseteq Custody \cup {a}
        /\ pending' = pending
    BY DEF Holds
  <1> QED
    BY <1>3, <1>4, <1>5, <1>6, <1>7 DEF OnceInv

\* A holder that goes on takes its own place.
LEMMA WentOnOnce ==
  ASSUME TypeInv, PlanInv, OnceInv, [Next]_vars, NEW a, NEW b, GoesOn(a, b)
  PROVE  OnceInv'
  <1>1. ~Popped
    BY DEF Popped, GoesOn
  <1>2. \A s : TakenOff(s)' => TakenOff(s)
    BY <1>1, TakenStep
  <1>3. \A s : Queued(s)' <=> Queued(s)
    BY DEF Queued, GoesOn
  <1>4. /\ Custody' \subseteq (Custody \ {a}) \cup {b}
        /\ a \in Custody /\ b[3] = a[3] /\ pending' = pending
    BY DEF GoesOn
  <1>5. \A c, d \in Custody' : c[3] = d[3] => c = d
    BY <1>4 DEF OnceInv
  <1>6. \A c \in Custody' : ~Queued(c[3])' /\ ~TakenOff(c[3])'
    BY <1>2, <1>3, <1>4 DEF OnceInv
  <1> QED
    BY <1>2, <1>4, <1>5, <1>6 DEF OnceInv

\* What is handed over was held, so it was not in the queue.
LEMMA HandedOverOnce ==
  ASSUME TypeInv, PlanInv, OnceInv, [Next]_vars, NEW a, HandsOver(a)
  PROVE  OnceInv'
  <1>1. pending \in Seq(DOMAIN signals)
    BY DEF TypeInv, LoopInv
  <1>2. pending' = Append(pending, a[3]) /\ a \in Custody
    BY DEF HandsOver
  <1>3. /\ \A i \in DOMAIN pending : i \in DOMAIN pending' /\ pending'[i] = pending[i]
        /\ \A i \in DOMAIN pending' :
             i \notin DOMAIN pending => i = Len(pending) + 1 /\ pending'[i] = a[3]
    BY <1>1, <1>2, AppendedRow
  <1>4. \A s : Queued(s)' => Queued(s) \/ s = a[3]
    BY <1>3 DEF Queued
  <1>5. ~Popped
    <2>1. Len(Append(pending, a[3])) = Len(pending) + 1 /\ Len(pending) \in Nat
      BY <1>1, LenProperties
    <2>2. pending # <<>> => Len(Tail(pending)) = Len(pending) - 1
      BY <1>1, HeadTailProperties
    <2> QED
      BY <1>2, <2>1, <2>2 DEF Popped
  <1>6. \A s : TakenOff(s)' => TakenOff(s)
    BY <1>5, TakenStep
  <1>7. ~Queued(a[3]) /\ ~TakenOff(a[3])
    BY <1>2 DEF OnceInv
  <1>8. \A i, j \in DOMAIN pending' : pending'[i] = pending'[j] => i = j
    BY <1>3, <1>7 DEF OnceInv, Queued
  <1>9. \A c \in Custody' : ~Queued(c[3])' /\ ~TakenOff(c[3])'
    BY <1>2, <1>4, <1>6 DEF OnceInv, HandsOver
  <1>10. \A i \in DOMAIN pending' : ~TakenOff(pending[i])'
    BY <1>3, <1>6, <1>7 DEF OnceInv
  <1> QED
    BY <1>8, <1>9, <1>10 DEF OnceInv, HandsOver

\* The queue's rows are its head and those of its tail, one place further.
LEMMA TailRows ==
  ASSUME NEW S, NEW queue \in Seq(S), queue # <<>>
  PROVE  /\ 1 \in DOMAIN queue /\ queue[1] = Head(queue)
         /\ \A i \in DOMAIN Tail(queue) : /\ i \in Nat /\ i + 1 \in DOMAIN queue /\ i + 1 # 1
                                          /\ Tail(queue)[i] = queue[i + 1]
  <1>1. /\ Head(queue) = queue[1] /\ Tail(queue) \in Seq(S)
        /\ Len(Tail(queue)) = Len(queue) - 1
        /\ \A i \in 1 .. Len(Tail(queue)) : Tail(queue)[i] = queue[i + 1]
    BY HeadTailProperties
  <1>2. Len(queue) \in Nat /\ DOMAIN queue = 1 .. Len(queue) /\ Len(queue) # 0
        /\ DOMAIN Tail(queue) = 1 .. Len(Tail(queue))
    BY <1>1, LenProperties
  <1> QED
    BY <1>1, <1>2

\* What is taken off the queue is in it no more, and no one holds it.
LEMMA PoppedOnce ==
  ASSUME TypeInv, PlanInv, OnceInv, [Next]_vars, Popped, Custody' \subseteq Custody
  PROVE  OnceInv'
  <1>1. pending \in Seq(DOMAIN signals) /\ pending # <<>> /\ pending' = Tail(pending)
    BY DEF TypeInv, LoopInv, Popped
  <1>2. /\ 1 \in DOMAIN pending /\ pending[1] = Head(pending)
        /\ \A i \in DOMAIN pending' : /\ i \in Nat /\ i + 1 \in DOMAIN pending /\ i + 1 # 1
                                      /\ pending'[i] = pending[i + 1]
    BY <1>1, TailRows
  <1>3. \A s : TakenOff(s)' => TakenOff(s) \/ s = Head(pending)
    BY TakenStep
  <1>4. \A i, j \in DOMAIN pending' : pending'[i] = pending'[j] => i = j
    BY <1>2 DEF OnceInv
  <1>5. \A s : Queued(s)' => Queued(s)
    BY <1>2 DEF Queued
  <1>6. Queued(Head(pending))
    BY <1>2 DEF Queued
  <1>7. \A c \in Custody' : ~Queued(c[3])' /\ ~TakenOff(c[3])'
    BY <1>3, <1>5, <1>6 DEF OnceInv
  <1>8. \A i \in DOMAIN pending' : ~TakenOff(pending[i])'
    BY <1>2, <1>3 DEF OnceInv
  <1> QED
    BY <1>4, <1>7, <1>8 DEF OnceInv

\* Before anything happened there is no signal.
LEMMA OnceInit == Init => PlanInv /\ CausesInv /\ OnceInv
  <1> SUFFICES ASSUME Init PROVE PlanInv /\ CausesInv /\ OnceInv
    OBVIOUS
  <1>1. /\ requests = {} /\ DOMAIN exec = {} /\ DOMAIN tasks = {} /\ DOMAIN pending = {}
        /\ loop = NoRun
    BY EmptySeq DEF Init, StoreInit, LoopInit
  <1>2. Custody = {}
    BY <1>1 DEF Custody, RequestHolds, ExecutionHolds
  <1>3. loop.out.tasks = <<>>
    BY <1>1 DEF NoRun, IdleRun, NoOutput, Output
  <1> QED
    BY <1>1, <1>2, <1>3 DEF PlanInv, CausesInv, OnceInv

(* A signal is held by one request or execution, or waits in the queue     *)
(* once, or was taken off it.                                              *)
LEMMA OnceStep == TypeInv /\ PlanInv /\ CausesInv /\ OnceInv /\ [Next]_vars =>
                    PlanInv' /\ CausesInv' /\ OnceInv'
  <1> SUFFICES ASSUME TypeInv, PlanInv, CausesInv, OnceInv, [Next]_vars
               PROVE  OnceInv'
    BY PlanStep, CausesStep
  <1>1. CASE Popped /\ Custody' \subseteq Custody
    BY <1>1, PoppedOnce
  <1>2. CASE LoopEffect /\ ~Popped /\ Custody' \subseteq Custody
    <2>1. pending' \in {pending, <<>>}
      BY <1>2 DEF LoopEffect, Retried, Ended, Advanced, Decided, TurnedTo, Rested
    <2> QED
      BY <1>2, <2>1, KeptOnce
  <1>3. CASE Keeps
    BY <1>3, KeptOnce DEF Keeps, Popped
  <1> QED
    BY <1>1, <1>2, <1>3, SignalsMove, HeldOnce, WentOnOnce, HandedOverOnce

\* So it always is.
LEMMA OnceInvariant == Spec => [](PlanInv /\ CausesInv /\ OnceInv)
  BY OnceInit, OnceStep, TypeInvariant, PTL DEF Spec

-----------------------------------------------------------------------------
(* contact_state: what the loop has read is what is there when it writes,  *)
(* since no one else writes it.                                            *)

SameCount ==
  /\ contact_state'.contact_attempts = contact_state.contact_attempts
  /\ contact_state'.attempts_window_start = contact_state.attempts_window_start
  /\ contact_state'.current_state = contact_state.current_state

ReadInv ==
  /\ loop.pc \in {"consent", "decide"} =>
       /\ loop.state.contact_attempts = contact_state.contact_attempts
       /\ loop.state.attempts_window_start = contact_state.attempts_window_start
       /\ loop.state.current_state = contact_state.current_state
  /\ loop.pc = "patch" =>
       /\ contact_state.contact_attempts <= loop.out.state.contact_attempts
       /\ contact_state.attempts_window_start
            \in {NoTime, loop.out.state.attempts_window_start}

\* The fields that the other rules write leave the count and its window alone.
LEMMA OtherFields ==
  ASSUME NEW state \in ContactState, NEW x, NEW y
  PROVE  LET one == [state EXCEPT !.current_state = x]
             two == [state EXCEPT !.current_state = x, !.next_task_at = y]
         IN  /\ one.contact_attempts = state.contact_attempts
             /\ one.attempts_window_start = state.attempts_window_start
             /\ two.contact_attempts = state.contact_attempts
             /\ two.attempts_window_start = state.attempts_window_start
  BY DEF ContactState

\* The rule for an inbound text counts it and proposes the reply; no other counts.
LEMMA EvaluateCounts ==
  ASSUME NEW s, NEW signal, NEW c, NEW state \in ContactState, NEW con, NEW now \in Nat, NEW out,
         out = Evaluate(s, signal, c, state, con, now)
  PROVE  \/ /\ signal.type = "inbound_sms" /\ out.patch
            /\ out.tasks = Propose(s, "sms", now, REPLY_GOAL)
            /\ out.state.contact_attempts = state.contact_attempts + 1
            /\ out.state.attempts_window_start =
                 IF state.attempts_window_start = NoTime THEN now ELSE state.attempts_window_start
         \/ /\ out.state.contact_attempts = state.contact_attempts
            /\ out.state.attempts_window_start = state.attempts_window_start
            /\ \/ out.tasks = <<>>
               \/ \E type, at, goal :
                    out.patch /\ goal # REPLY_GOAL /\ out.tasks = Propose(s, type, at, goal)
  <1>1. CASE signal.type = "inbound_sms"
    <2>1. out = DecideOnInboundSms(s, signal, c, state, con, now)
      BY <1>1 DEF Evaluate
    <2>2. CASE RunHardGuardrails(c, state, con, now)
      BY <2>1, <2>2 DEF DecideOnInboundSms, Output
    <2>3. CASE ~RunHardGuardrails(c, state, con, now)
      <3>1. out = Output(Propose(s, "sms", now, REPLY_GOAL),
              [state EXCEPT
                 !.contact_attempts = state.contact_attempts + 1,
                 !.attempts_window_start =
                    IF state.attempts_window_start = NoTime THEN now
                    ELSE state.attempts_window_start,
                 !.current_state = "awaiting_reply_send",
                 !.next_task_at = NoTime], TRUE, TRUE)
        BY <2>1, <2>3 DEF DecideOnInboundSms
      <3>2. /\ out.patch /\ out.tasks = Propose(s, "sms", now, REPLY_GOAL)
            /\ out.state = [state EXCEPT
                 !.contact_attempts = state.contact_attempts + 1,
                 !.attempts_window_start =
                    IF state.attempts_window_start = NoTime THEN now
                    ELSE state.attempts_window_start,
                 !.current_state = "awaiting_reply_send",
                 !.next_task_at = NoTime]
        BY <3>1 DEF Output
      <3>3. /\ out.state.contact_attempts = state.contact_attempts + 1
            /\ out.state.attempts_window_start =
                 IF state.attempts_window_start = NoTime THEN now ELSE state.attempts_window_start
        BY <3>2 DEF ContactState
      <3> QED
        BY <1>1, <3>2, <3>3
    <2> QED
      BY <2>2, <2>3
  <1>2. CASE signal.type = "interaction_result"
    <2>1. out = DecideOnInteractionResult(s, signal, c, state, con, now)
      BY <1>2 DEF Evaluate
    <2> DEFINE nudge_at == NextAllowedSendTime(now + FOLLOW_UP_DELAY)
    <2>g. FOLLOW_UP_GOAL # REPLY_GOAL
      BY DEF FOLLOW_UP_GOAL, REPLY_GOAL
    <2>2. CASE out = Output(<<>>, [state EXCEPT !.current_state = ClosedState(signal.outcome),
                                         !.next_task_at = NoTime], TRUE, FALSE)
      <3>1. out.state = [state EXCEPT !.current_state = ClosedState(signal.outcome),
                                         !.next_task_at = NoTime]
        BY <2>2 DEF Output
      <3>2. out.tasks = <<>> /\ out.patch
        BY <2>2 DEF Output
      <3>3. /\ out.state.contact_attempts = state.contact_attempts
            /\ out.state.attempts_window_start = state.attempts_window_start
        BY <3>1, OtherFields
      <3> QED
        BY <3>2, <3>3, <2>g
    <2>3. CASE out = Output(<<>>, state, TRUE, FALSE)
      BY <2>3, OtherFields, <2>g DEF Output
    <2>4. CASE out = Output(Propose(s, "sms", nudge_at, FOLLOW_UP_GOAL),
                     [state EXCEPT !.current_state = "active", !.next_task_at = nudge_at],
                     TRUE, FALSE)
      <3>1. out.state = [state EXCEPT !.current_state = "active", !.next_task_at = nudge_at]
        BY <2>4 DEF Output
      <3>2. out.tasks = Propose(s, "sms", nudge_at, FOLLOW_UP_GOAL) /\ out.patch
        BY <2>4 DEF Output
      <3>3. /\ out.state.contact_attempts = state.contact_attempts
            /\ out.state.attempts_window_start = state.attempts_window_start
        BY <3>1, OtherFields
      <3> QED
        BY <3>2, <3>3, <2>g
    <2>5. CASE out = Output(<<>>, [state EXCEPT !.current_state = "active"], TRUE, FALSE)
      <3>1. out.state = [state EXCEPT !.current_state = "active"]
        BY <2>5 DEF Output
      <3>2. out.tasks = <<>> /\ out.patch
        BY <2>5 DEF Output
      <3>3. /\ out.state.contact_attempts = state.contact_attempts
            /\ out.state.attempts_window_start = state.attempts_window_start
        BY <3>1, OtherFields
      <3> QED
        BY <3>2, <3>3, <2>g
    <2> QED
      BY <2>1, <2>2, <2>3, <2>4, <2>5 DEF DecideOnInteractionResult
  <1>3. CASE signal.type = "meeting_scheduled"
    <2>1. out = DecideOnMeetingScheduled(s, signal, c, state, con, now)
      BY <1>3 DEF Evaluate
    <2>g. POST_MEETING_GOAL # REPLY_GOAL
      BY DEF POST_MEETING_GOAL, REPLY_GOAL
    <2>2. CASE out = Output(<<>>, state, FALSE, FALSE)
      BY <2>2, OtherFields, <2>g DEF Output
    <2>3. CASE out = Output(<<>>, [state EXCEPT !.current_state = MEETING_SCHEDULED_STATE],
                            TRUE, FALSE)
      <3>1. out.state = [state EXCEPT !.current_state = MEETING_SCHEDULED_STATE]
        BY <2>3 DEF Output
      <3>2. out.tasks = <<>> /\ out.patch
        BY <2>3 DEF Output
      <3>3. /\ out.state.contact_attempts = state.contact_attempts
            /\ out.state.attempts_window_start = state.attempts_window_start
        BY <3>1, OtherFields
      <3> QED
        BY <3>2, <3>3, <2>g
    <2>4. CASE out = Output(Propose(s, "email", signal.due, POST_MEETING_GOAL),
                     [state EXCEPT !.current_state = MEETING_SCHEDULED_STATE,
                                   !.next_task_at = signal.due], TRUE, FALSE)
      <3>1. out.state = [state EXCEPT !.current_state = MEETING_SCHEDULED_STATE,
                                   !.next_task_at = signal.due]
        BY <2>4 DEF Output
      <3>2. out.tasks = Propose(s, "email", signal.due, POST_MEETING_GOAL) /\ out.patch
        BY <2>4 DEF Output
      <3>3. /\ out.state.contact_attempts = state.contact_attempts
            /\ out.state.attempts_window_start = state.attempts_window_start
        BY <3>1, OtherFields
      <3> QED
        BY <3>2, <3>3, <2>g
    <2> QED
      BY <2>1, <2>2, <2>3, <2>4 DEF DecideOnMeetingScheduled
  <1>4. CASE signal.type \notin {"inbound_sms", "interaction_result", "meeting_scheduled"}
    BY <1>4 DEF Evaluate, Output
  <1> QED
    BY <1>1, <1>2, <1>3, <1>4

\* Only the loop's patch writes the count, the window and the state.
LEMMA CountMoves ==
  ASSUME TypeInv, [Next]_vars
  PROVE  SameCount \/ (loop.pc = "patch" /\ contact_state' = loop.out.state)
  <1>a. contact_state \in ContactState
    BY DEF TypeInv, StoreInv, StoreTypeOK
  <1>1. CASE contact_state' = contact_state
    BY <1>1 DEF SameCount
  <1>2. CASE contact_state' = CreatedState \/ SetContactWorkflowId
    BY <1>2, <1>a DEF CreatedState, SetContactWorkflowId, SameCount, ContactState
  <1>3. CASE LoopPatch
    BY <1>3 DEF LoopPatch, UpdateContactState
  <1>4. CASE Loop
    BY <1>1, <1>2, <1>3, <1>4 DEF Loop, LoopNext, LoopRegister, LoopPop, LoopReadContact,
       LoopReadState, LoopReadConsent, LoopDecide, LoopMark, LoopActivityFails, LoopCancel,
       LoopInsert, LoopSpawn, tables
  <1>5. CASE UNCHANGED vars \/ Tick \/ World
    BY <1>1, <1>5 DEF vars, Tick, World, ReceiveSms, FinalizeVoiceSession, ScheduleMeeting,
       UpdateContact, tables
  <1>6. ASSUME NEW r \in requests, RequestRuns(r) \/ RequestFails(r) \/ RequestDies(r)
        PROVE  contact_state' = contact_state
    BY <1>6 DEF RequestRuns, RecordSmsConsent, ConfirmKeyword, EmitCallResult,
       BackfillCallResult, Dispatch, MarkDelivered, RequestFails, RequestDies, tables
  <1>7. ASSUME NEW t \in DOMAIN exec, ExecutionRuns(t) \/ ExecutionFails(t)
        PROVE  contact_state' \in {contact_state, CreatedState}
    BY <1>7 DEF ExecutionRuns, ExecutionFails, ExecRuns, ExecActivityFails, ExecWake,
       ExecReadContact, ExecReadState, ExecReadConsent, ExecCheck, ExecSkip, ExecStart,
       ExecInteract, ExecSendSms, ExecSendEmail, ExecLog, ExecEmit, ExecBackfill, ExecDeliver,
       ExecComplete, ExecMoves, tables
  <1> QED
    BY <1>1, <1>2, <1>4, <1>5, <1>6, <1>7 DEF Next

\* What the loop decides counts on from what is there.
LEMMA DecisionCounts ==
  ASSUME TypeInv, ReadInv, loop.pc = "decide"
  PROVE  LET count == contact_state.contact_attempts
             opened == contact_state.attempts_window_start
             out == Decision
         IN  \/ /\ loop.signal \in InboundTexts(DOMAIN signals) /\ out.patch
                /\ out.tasks = Propose(loop.signal, "sms", clock, REPLY_GOAL)
                /\ out.state.contact_attempts = count + 1
                /\ out.state.attempts_window_start = IF opened = NoTime THEN clock ELSE opened
             \/ /\ out.state.contact_attempts = count
                /\ out.state.attempts_window_start = opened
                /\ \/ out.tasks = <<>>
                   \/ \E type, at, goal :
                        /\ out.patch /\ goal # REPLY_GOAL
                        /\ out.tasks = Propose(loop.signal, type, at, goal)
  <1>1. loop.state \in ContactState /\ clock \in Nat /\ loop.signal \in DOMAIN signals
    BY DEF TypeInv, LoopInv, GoodRun, LoopRun, StoreInv, StoreTypeOK
  <1>2. /\ loop.state.contact_attempts = contact_state.contact_attempts
        /\ loop.state.attempts_window_start = contact_state.attempts_window_start
    BY DEF ReadInv
  <1> QED
    BY <1>1, <1>2, EvaluateCounts DEF Decision, InboundTexts

\* Only a decision brings the loop to its patch.
LEMMA PatchStep ==
  ASSUME TypeInv, [Next]_vars, loop'.pc = "patch"
  PROVE  Decided \/ (loop.pc = "patch" /\ loop'.out = loop.out /\ loop'.signal = loop.signal)
  <1>1. CASE loop' \in {loop, NewRun}
    BY <1>1 DEF NewRun, IdleRun
  <1>2. CASE LoopEffect
    <2>1. Rested => loop'.pc \in {"register", "idle"}
      BY RestedRun DEF TypeInv
    <2> QED
      BY <1>2, <2>1 DEF LoopEffect, Retried, Ended, Advanced, Popped, TurnedTo, NoRun, IdleRun
  <1> QED
    BY <1>1, <1>2, SignalsMove DEF Keeps, Holds, GoesOn, HandsOver

\* Nor does the loop get from a read to a decision other than step by step.
LEMMA ReadStep ==
  ASSUME TypeInv, [Next]_vars, loop'.pc \in {"consent", "decide"}
  PROVE  \/ loop.pc \in {"consent", "decide"} /\ loop'.state = loop.state
         \/ loop.pc = "state" /\ loop'.state = CreatedState
  <1>1. CASE loop' \in {loop, NewRun}
    BY <1>1 DEF NewRun, IdleRun
  <1>2. CASE LoopEffect
    <2>1. Rested => loop'.pc \in {"register", "idle"}
      BY RestedRun DEF TypeInv
    <2>2. Decided => loop'.pc \in {"patch", "cancel", "mark"}
      BY DEF Decided
    <2> QED
      BY <1>2, <2>1, <2>2 DEF LoopEffect, Retried, Ended, Advanced, Popped, TurnedTo, NoRun, IdleRun
  <1> QED
    BY <1>1, <1>2, SignalsMove DEF Keeps, Holds, GoesOn, HandsOver

\* The patch that is on its way never takes the count or the window back.
LEMMA ReadInvStep == TypeInv /\ ReadInv /\ [Next]_vars => ReadInv'
  <1> SUFFICES ASSUME TypeInv, ReadInv, [Next]_vars PROVE ReadInv'
    OBVIOUS
  <1>a. contact_state \in ContactState /\ contact_state' \in ContactState
    BY TypeStep DEF TypeInv, StoreInv, StoreTypeOK
  <1>1. ASSUME loop'.pc \in {"consent", "decide"}
        PROVE  /\ loop'.state.contact_attempts = contact_state'.contact_attempts
               /\ loop'.state.attempts_window_start = contact_state'.attempts_window_start
               /\ loop'.state.current_state = contact_state'.current_state
    <2>1. loop.pc # "patch"
      BY <1>1, ReadStep
    <2>2. SameCount
      BY <2>1, CountMoves
    <2>3. /\ CreatedState.contact_attempts = contact_state.contact_attempts
          /\ CreatedState.attempts_window_start = contact_state.attempts_window_start
          /\ CreatedState.current_state = contact_state.current_state
      BY <1>a DEF CreatedState, ContactState
    <2> QED
      BY <1>1, <2>2, <2>3, ReadStep DEF ReadInv, SameCount
  <1>2. ASSUME loop'.pc = "patch"
        PROVE  /\ contact_state'.contact_attempts <= loop'.out.state.contact_attempts
               /\ contact_state'.attempts_window_start
                    \in {NoTime, loop'.out.state.attempts_window_start}
    <2>1. contact_state.contact_attempts \in Nat /\ contact_state'.contact_attempts \in Nat
      BY <1>a DEF ContactState
    <2>2. CASE Decided
      <3>1. loop'.out = Decision /\ loop.pc = "decide"
        BY <2>2 DEF Decided
      <3>2. SameCount
        BY <3>1, CountMoves
      <3> HIDE DEF Decision
      <3> QED
        BY <2>1, <3>1, <3>2, DecisionCounts DEF SameCount
    <2>3. CASE loop.pc = "patch" /\ loop'.out = loop.out
      <3>1. CASE SameCount
        BY <2>3, <3>1 DEF ReadInv, SameCount
      <3>2. CASE contact_state' = loop.out.state
        BY <2>1, <2>3, <3>2
      <3> QED
        BY <2>3, <3>1, <3>2, CountMoves
    <2> QED
      BY <1>2, <2>2, <2>3, PatchStep
  <1> QED
    BY <1>1, <1>2 DEF ReadInv

-----------------------------------------------------------------------------
(* contact_attempts counts texts that were taken off the queue.            *)

InCustody(s) == \E a \in Custody : a[3] = s

\* Texts that wait nowhere, and the signal that is not decided on yet.
TextsTaken == {s \in InboundTexts(DOMAIN signals) : ~Queued(s) /\ ~InCustody(s)}
Undecided == IF loop.pc \in Deciding THEN {loop.signal} ELSE {}

AttemptsInv ==
  /\ contact_state.contact_attempts <= Cardinality(TextsTaken \ Undecided)
  /\ loop.pc = "patch" => loop.out.state.contact_attempts <= Cardinality(TextsTaken)

\* There are finitely many texts.
LEMMA FiniteTexts ==
  ASSUME TypeInv, NEW T, T \subseteq DOMAIN signals
  PROVE  IsFiniteSet(T) /\ Cardinality(T) \in Nat
  <1>1. DOMAIN signals = 1 .. Len(signals) /\ Len(signals) \in Nat
    BY LenProperties DEF TypeInv, StoreInv, StoreTypeOK
  <1>2. IsFiniteSet(DOMAIN signals)
    BY <1>1, FS_Interval
  <1> QED
    BY <1>2, FS_Subset, FS_CardinalityType

\* So are those that were taken.
LEMMA FiniteTextsTaken == TypeInv => IsFiniteSet(TextsTaken)
  BY FiniteTexts DEF TextsTaken, InboundTexts

\* A text that is taken never waits again; one that is popped did.
LEMMA TextsTakenGrow ==
  ASSUME TypeInv, CausesInv, [Next]_vars
  PROVE  /\ TextsTaken \subseteq TextsTaken'
         /\ TextsTaken \ Undecided \subseteq TextsTaken' \ Undecided'
  <1>1. InboundTexts(DOMAIN signals) \subseteq InboundTexts(DOMAIN signals)'
    BY StepKeepsSignals DEF SignalsKept, InboundTexts
  <1>2. pending \in Seq(DOMAIN signals)
    BY DEF TypeInv, LoopInv
  <1>3. ASSUME NEW s \in DOMAIN signals, Queued(s)' \/ InCustody(s)'
        PROVE  Queued(s) \/ InCustody(s)
    <2>1. CASE Custody' \subseteq Custody /\ pending' \in {pending, <<>>}
      BY <1>3, <2>1, EmptySeq DEF Queued, InCustody
    <2>2. CASE Custody' \subseteq Custody /\ Popped
      <3>1. \A i \in DOMAIN pending' : i + 1 \in DOMAIN pending /\ pending'[i] = pending[i + 1]
        BY <1>2, <2>2, TailRows DEF Popped
      <3> QED
        BY <1>3, <2>2, <3>1 DEF Queued, InCustody
    <2>3. ASSUME NEW a, Holds(a)
          PROVE  Queued(s) \/ InCustody(s)
      <3>1. a[3] \notin DOMAIN signals
        BY <2>3, LenProperties DEF Holds, TypeInv, StoreInv, StoreTypeOK
      <3> QED
        BY <1>3, <2>3, <3>1 DEF Holds, Queued, InCustody
    <2>4. ASSUME NEW a, NEW b, GoesOn(a, b)
          PROVE  Queued(s) \/ InCustody(s)
      BY <1>3, <2>4 DEF GoesOn, Queued, InCustody
    <2>5. ASSUME NEW a, HandsOver(a)
          PROVE  Queued(s) \/ InCustody(s)
      <3>1. \A i \in DOMAIN pending' :
              (i \in DOMAIN pending /\ pending'[i] = pending[i]) \/ pending'[i] = a[3]
        BY <1>2, <2>5, AppendedRow DEF HandsOver
      <3> QED
        BY <1>3, <2>5, <3>1 DEF HandsOver, Queued, InCustody
    <2>6. LoopEffect => pending' \in {pending, <<>>} \/ Popped
      BY DEF LoopEffect, Retried, Ended, Advanced, Decided, TurnedTo, Rested
    <2> QED
      BY <2>1, <2>2, <2>3, <2>4, <2>5, <2>6, SignalsMove DEF Keeps
  <1>4. TextsTaken \subseteq TextsTaken'
    BY <1>1, <1>3 DEF TextsTaken, InboundTexts
  <1>5. ASSUME NEW s \in Undecided', s \in TextsTaken
        PROVE  s \in Undecided
    <2>1. CASE Popped
      <3>1. s = Head(pending)
        BY <1>5, <2>1 DEF Popped, Undecided, Deciding
      <3>2. Queued(s)
        BY <1>2, <2>1, <3>1, TailRows DEF Popped, Queued
      <3> QED
        BY <1>5, <3>2 DEF TextsTaken
    <2>2. CASE loop' \in {loop, NewRun}
      BY <1>5, <2>2 DEF Undecided, Deciding, NewRun, IdleRun
    <2>3. CASE LoopEffect /\ ~Popped
      <3>1. Rested => loop'.pc \in {"register", "idle"}
        BY RestedRun DEF TypeInv
      <3> QED
        BY <1>5, <2>3, <3>1 DEF LoopEffect, Retried, Ended, Advanced, Decided, TurnedTo, NoRun,
           IdleRun, Undecided, Deciding
    <2> QED
      BY <2>1, <2>2, <2>3, SignalsMove DEF Keeps, Holds, GoesOn, HandsOver
  <1> QED
    BY <1>4, <1>5

\* A subset of the texts has no more of them.
LEMMA FewerTexts ==
  ASSUME TypeInv, NEW T, T \subseteq DOMAIN signals, NEW S, S \subseteq T
  PROVE  Cardinality(S) <= Cardinality(T) /\ Cardinality(S) \in Nat /\ Cardinality(T) \in Nat
  BY FiniteTexts, FS_Subset

\* The signal that is decided on, if it is a text, is taken.
LEMMA DecidedText ==
  ASSUME TypeInv, OnceInv, loop.pc = "decide", loop.signal \in InboundTexts(DOMAIN signals)
  PROVE  loop.signal \in TextsTaken
  <1>1. TakenOff(loop.signal)
    BY DEF TakenOff, Busy
  <1> QED
    BY <1>1 DEF OnceInv, TextsTaken, InCustody, Queued

(* The count stays below the texts that were taken.                        *)
LEMMA AttemptsStep ==
  TypeInv /\ PlanInv /\ CausesInv /\ OnceInv /\ ReadInv /\ AttemptsInv /\ [Next]_vars
    => AttemptsInv'
  <1> SUFFICES ASSUME TypeInv, PlanInv, CausesInv, OnceInv, ReadInv, AttemptsInv, [Next]_vars
               PROVE  AttemptsInv'
    OBVIOUS
  <1>a. TypeInv'
    BY TypeStep
  <1>b. contact_state.contact_attempts \in Nat /\ contact_state'.contact_attempts \in Nat
    BY <1>a DEF TypeInv, StoreInv, StoreTypeOK, ContactState
  <1>c. /\ TextsTaken \subseteq DOMAIN signals /\ TextsTaken' \subseteq DOMAIN signals'
    BY DEF TextsTaken, InboundTexts
  <1>1. /\ Cardinality(TextsTaken) <= Cardinality(TextsTaken')
        /\ Cardinality(TextsTaken \ Undecided) <= Cardinality(TextsTaken' \ Undecided')
        /\ Cardinality(TextsTaken \ Undecided) <= Cardinality(TextsTaken)
        /\ Cardinality(TextsTaken) \in Nat /\ Cardinality(TextsTaken') \in Nat
        /\ Cardinality(TextsTaken \ Undecided) \in Nat
        /\ Cardinality(TextsTaken' \ Undecided') \in Nat
    <2> DEFINE T == TextsTaken
               D == TextsTaken \ Undecided
               TT == TextsTaken'
               DD == TextsTaken' \ Undecided'
    <2>1. T \subseteq TT /\ D \subseteq DD /\ D \subseteq T /\ DD \subseteq TT
      BY TextsTakenGrow
    <2>2. IsFiniteSet(TT)
      <3>1. (IsFiniteSet(TextsTaken))'
        BY <1>a, FiniteTextsTaken, PTL
      <3> QED
        BY <3>1
    <2> HIDE DEF T, D, TT, DD
    <2>3. IsFiniteSet(T) /\ IsFiniteSet(D) /\ IsFiniteSet(DD)
      BY <2>1, <2>2, FS_Subset
    <2>4. /\ Cardinality(T) <= Cardinality(TT) /\ Cardinality(D) <= Cardinality(DD)
          /\ Cardinality(D) <= Cardinality(T)
          /\ Cardinality(T) \in Nat /\ Cardinality(D) \in Nat
          /\ Cardinality(TT) \in Nat /\ Cardinality(DD) \in Nat
      BY <2>1, <2>2, <2>3, FS_Subset, FS_CardinalityType
    <2> QED
      BY <2>4 DEF T, D, TT, DD
  <1>2. contact_state'.contact_attempts <= Cardinality(TextsTaken' \ Undecided')
    <2>1. CASE SameCount
      BY <1>1, <1>b, <2>1 DEF SameCount, AttemptsInv
    <2>2. CASE loop.pc = "patch" /\ contact_state' = loop.out.state
      <3>1. TextsTaken \ Undecided = TextsTaken
        BY <2>2 DEF Undecided, Deciding
      <3> QED
        BY <1>1, <1>b, <2>2, <3>1 DEF AttemptsInv
    <2> QED
      BY <2>1, <2>2, CountMoves
  <1>3. ASSUME loop'.pc = "patch"
        PROVE  loop'.out.state.contact_attempts <= Cardinality(TextsTaken')
    <2>a. loop'.out.state.contact_attempts \in Nat
      BY <1>a DEF TypeInv, LoopInv, GoodRun, LoopRun, DecisionOutput, ContactState
    <2>1. CASE loop.pc = "patch" /\ loop'.out = loop.out
      BY <1>1, <2>1, <2>a DEF AttemptsInv
    <2>2. CASE Decided
      <3>1. loop'.out = Decision /\ loop.pc = "decide"
        BY <2>2 DEF Decided
      <3>2. TextsTaken \ Undecided = TextsTaken \ {loop.signal}
        BY <3>1 DEF Undecided, Deciding
      <3>3. loop.signal \in TextsTaken =>
              Cardinality(TextsTaken \ {loop.signal}) = Cardinality(TextsTaken) - 1
        BY <1>c, FiniteTexts, FS_RemoveElement
      <3>4. \/ /\ loop.signal \in TextsTaken
               /\ loop'.out.state.contact_attempts = contact_state.contact_attempts + 1
            \/ loop'.out.state.contact_attempts = contact_state.contact_attempts
        BY <3>1, DecisionCounts, DecidedText
      <3> DEFINE taken == Cardinality(TextsTaken)
                 others == Cardinality(TextsTaken \ {loop.signal})
                 grown == Cardinality(TextsTaken')
                 count == contact_state.contact_attempts
                 counted == loop'.out.state.contact_attempts
      <3>5. /\ taken \in Nat /\ others \in Nat /\ grown \in Nat /\ others <= taken
            /\ taken <= grown /\ count \in Nat /\ counted \in Nat /\ count <= others
            /\ counted = count \/ (counted = count + 1 /\ others = taken - 1)
        BY <1>1, <1>b, <2>a, <3>2, <3>3, <3>4 DEF AttemptsInv
      <3> HIDE DEF taken, others, grown, count, counted
      <3>6. counted <= grown
        BY <3>5
      <3> QED
        BY <3>6 DEF counted, grown
    <2> QED
      BY <1>3, <2>1, <2>2, PatchStep
  <1> QED
    BY <1>2, <1>3 DEF AttemptsInv

\* Nothing is counted before anything happened.
LEMMA AttemptsInit == Init => ReadInv /\ AttemptsInv
  <1> SUFFICES ASSUME Init PROVE ReadInv /\ AttemptsInv
    OBVIOUS
  <1>1. loop.pc = "none" /\ contact_state.contact_attempts = 0 /\ DOMAIN signals = {}
    BY EmptySeq DEF Init, StoreInit, LoopInit, NoRun, IdleRun, NewContactState
  <1>2. TextsTaken = {} /\ TextsTaken \ Undecided = {}
    BY <1>1 DEF TextsTaken, InboundTexts
  <1> QED
    BY <1>1, <1>2, FS_EmptySet DEF ReadInv, AttemptsInv

\* So it always is.
LEMMA AttemptsInvariant == Spec => [](ReadInv /\ AttemptsInv)
  BY AttemptsInit, AttemptsStep, ReadInvStep, OnceInvariant, TypeInvariant, PTL DEF Spec

(* contact_attempts counts an inbound SMS once, however often its patch is *)
(* applied, and never one that still waits in the queue.                   *)
THEOREM AttemptsAreNeverOvercounted == Spec => []AttemptsNeverOvercounted
  <1>1. TypeInv /\ AttemptsInv => AttemptsNeverOvercounted
    <2> SUFFICES ASSUME TypeInv, AttemptsInv PROVE AttemptsNeverOvercounted
      OBVIOUS
    <2> DEFINE queued == {pending[i] : i \in DOMAIN pending}
    <2>1. /\ TextsTaken \subseteq InboundTexts(DOMAIN signals)
          /\ InboundTexts(queued) \subseteq InboundTexts(DOMAIN signals)
          /\ TextsTaken \cap InboundTexts(queued) = {}
      <3>1. \A i \in DOMAIN pending : pending[i] \in DOMAIN signals
        BY ElementOfSeq, LenProperties DEF TypeInv, LoopInv
      <3> QED
        BY <3>1 DEF TextsTaken, InboundTexts, Queued
    <2>2. InboundTexts(DOMAIN signals) \subseteq DOMAIN signals
      BY DEF InboundTexts
    <2> DEFINE texts == InboundTexts(DOMAIN signals)
               waiting == InboundTexts(queued)
    <2> HIDE DEF texts, waiting
    <2>3. /\ IsFiniteSet(texts) /\ IsFiniteSet(TextsTaken) /\ IsFiniteSet(waiting)
          /\ Cardinality(texts) \in Nat /\ Cardinality(TextsTaken) \in Nat
          /\ Cardinality(waiting) \in Nat
      BY <2>1, <2>2, FiniteTexts, FS_Subset, FS_CardinalityType DEF texts, waiting
    <2>4. /\ IsFiniteSet(TextsTaken \cup waiting)
          /\ Cardinality(TextsTaken \cup waiting) = Cardinality(TextsTaken) + Cardinality(waiting)
      BY <2>1, <2>3, FS_Union, FS_EmptySet DEF texts, waiting
    <2>5. Cardinality(TextsTaken \cup waiting) <= Cardinality(texts)
      BY <2>1, <2>3, FS_Subset DEF texts, waiting
    <2>6. Cardinality(TextsTaken \ Undecided) <= Cardinality(TextsTaken)
          /\ Cardinality(TextsTaken \ Undecided) \in Nat
      BY <2>3, FS_Subset, FS_CardinalityType
    <2>7. contact_state.contact_attempts \in Nat
      BY DEF TypeInv, StoreInv, StoreTypeOK, ContactState
    <2>8. contact_state.contact_attempts + Cardinality(waiting) <= Cardinality(texts)
      BY <2>3, <2>4, <2>5, <2>6, <2>7 DEF AttemptsInv
    <2> QED
      BY <2>8 DEF AttemptsNeverOvercounted, texts, waiting
  <1> QED
    BY <1>1, TypeInvariant, AttemptsInvariant, PTL

-----------------------------------------------------------------------------
(* The frequency cap.  A reply is counted when it is decided and checked   *)
(* against the count when it is due.                                       *)

IsReply(t) == tasks[t].goal = REPLY_GOAL
Replies == {t \in DOMAIN tasks : IsReply(t)}
RepliesUpTo(t) == {u \in Replies : u <= t}
Opened == contact_state.attempts_window_start

\* The decision in hand proposes a reply that has no row yet.
ReplyPlanned ==
  /\ loop.out.tasks # <<>>
  /\ Head(loop.out.tasks).goal = REPLY_GOAL
  /\ TasksWithKey(Head(loop.out.tasks).idempotency_key) = {}

\* The first text that counts opens the window.
WindowInv ==
  /\ contact_state.contact_attempts > 0 => Opened # NoTime
  /\ loop.pc = "patch" /\ loop.out.state.contact_attempts > 0 =>
       loop.out.state.attempts_window_start # NoTime

\* Every reply is counted, the planned one at the latest by the patch in hand.
CountedInv ==
  /\ Cardinality(Replies) <= contact_state.contact_attempts
  /\ ReplyPlanned =>
       Cardinality(Replies) < (IF loop.pc = "patch" THEN loop.out.state.contact_attempts
                               ELSE contact_state.contact_attempts)

\* At time `at` the cap did not stand against the reply t.
Allowed(t, at) ==
  \/ Cardinality(RepliesUpTo(t)) < FREQUENCY_CAP_MAX_ATTEMPTS
  \/ at >= Opened + FREQUENCY_CAP_WINDOW

CapInv ==
  /\ \A t \in DOMAIN exec :
       IsReply(t) =>
         /\ exec[t].pc \in {"consent", "check"} =>
              /\ Cardinality(RepliesUpTo(t)) <= exec[t].state.contact_attempts
              /\ exec[t].state.attempts_window_start = Opened
         /\ exec[t].pc \in Sending => Allowed(t, clock)
  /\ \A row \in outbox :
       row.task \in DOMAIN tasks /\ (IsReply(row.task) => Allowed(row.task, row.at))

\* Count and window are numbers, before a step and after it, and the count never falls.
LEMMA CountRises ==
  ASSUME TypeInv, ReadInv, [Next]_vars
  PROVE  /\ contact_state.contact_attempts \in Nat /\ contact_state'.contact_attempts \in Nat
         /\ Opened \in Time /\ Opened' \in Time
         /\ contact_state.contact_attempts <= contact_state'.contact_attempts
         /\ Opened # NoTime => Opened' = Opened
  <1>1. contact_state \in ContactState /\ contact_state' \in ContactState
    BY TypeStep DEF TypeInv, StoreInv, StoreTypeOK
  <1>2. /\ contact_state.contact_attempts \in Nat /\ contact_state'.contact_attempts \in Nat
        /\ Opened \in Time /\ Opened' \in Time
    BY <1>1 DEF ContactState, Opened
  <1>3. CASE SameCount
    BY <1>2, <1>3 DEF SameCount, Opened
  <1>4. CASE loop.pc = "patch" /\ contact_state' = loop.out.state
    BY <1>2, <1>4 DEF ReadInv, Opened
  <1> QED
    BY <1>2, <1>3, <1>4, CountMoves

\* A count without a window is never written.
LEMMA WindowStep == TypeInv /\ ReadInv /\ WindowInv /\ [Next]_vars => WindowInv'
  <1> SUFFICES ASSUME TypeInv, ReadInv, WindowInv, [Next]_vars PROVE WindowInv'
    OBVIOUS
  <1>1. contact_state'.contact_attempts > 0 => Opened' # NoTime
    <2>1. CASE SameCount
      BY <2>1 DEF SameCount, WindowInv, Opened
    <2>2. CASE loop.pc = "patch" /\ contact_state' = loop.out.state
      BY <2>2 DEF WindowInv, Opened
    <2> QED
      BY <2>1, <2>2, CountMoves
  <1>2. ASSUME loop'.pc = "patch", loop'.out.state.contact_attempts > 0
        PROVE  loop'.out.state.attempts_window_start # NoTime
    <2>1. CASE loop.pc = "patch" /\ loop'.out = loop.out
      BY <1>2, <2>1 DEF WindowInv
    <2>2. CASE Decided
      <3>1. loop'.out = Decision /\ loop.pc = "decide"
        BY <2>2 DEF Decided
      <3>2. clock # NoTime
        BY DEF TypeInv, StoreInv, StoreTypeOK, NoTime
      <3> HIDE DEF Decision
      <3> QED
        BY <1>2, <3>1, <3>2, DecisionCounts DEF WindowInv, Opened
    <2> QED
      BY <1>2, <2>1, <2>2, PatchStep
  <1> QED
    BY <1>1, <1>2 DEF WindowInv

\* There are finitely many replies, each a row of the tasks table.
LEMMA FiniteReplies ==
  ASSUME TypeInv
  PROVE  /\ IsFiniteSet(Replies) /\ Cardinality(Replies) \in Nat
         /\ Len(tasks) \in Nat /\ Replies \subseteq 1 .. Len(tasks)
         /\ \A S : S \subseteq Replies => /\ IsFiniteSet(S) /\ Cardinality(S) \in Nat
                                          /\ Cardinality(S) <= Cardinality(Replies)
  <1>1. DOMAIN tasks = 1 .. Len(tasks) /\ Len(tasks) \in Nat
    BY LenProperties DEF TypeInv, StoreInv, StoreTypeOK
  <1>2. Replies \subseteq 1 .. Len(tasks)
    BY <1>1 DEF Replies
  <1>3. IsFiniteSet(1 .. Len(tasks))
    BY <1>1, FS_Interval
  <1>4. IsFiniteSet(Replies)
    BY <1>2, <1>3, FS_Subset
  <1> QED
    BY <1>1, <1>2, <1>4, FS_Subset, FS_CardinalityType

\* A reply is added by inserting the planned one.
LEMMA RepliesMove ==
  ASSUME TypeInv, [Next]_vars
  PROVE  /\ Replies \subseteq Replies'
         /\ \A t \in DOMAIN tasks : t \in DOMAIN tasks' /\ (IsReply(t)' <=> IsReply(t))
         /\ \/ Replies' = Replies
            \/ LoopInsert /\ ReplyPlanned /\ Replies' = Replies \cup {Len(tasks) + 1}
  <1>1. \A t \in DOMAIN tasks : t \in DOMAIN tasks' /\ (IsReply(t)' <=> IsReply(t))
    BY StepKeepsTasks DEF TasksKept, IsReply
  <1>2. Replies \subseteq Replies'
    BY <1>1 DEF Replies
  <1>3. ASSUME NEW t \in Replies', t \notin Replies
        PROVE  LoopInsert /\ ReplyPlanned /\ t = Len(tasks) + 1
    <2>1. t \in DOMAIN tasks' /\ t \notin DOMAIN tasks /\ tasks'[t].goal = REPLY_GOAL
      BY <1>1, <1>3 DEF Replies, IsReply
    <2>2. /\ LoopInsert /\ loop.out.tasks # <<>> /\ t = Len(tasks) + 1
          /\ TasksWithKey(Head(loop.out.tasks).idempotency_key) = {}
          /\ tasks'[t] = NewTaskRow(Head(loop.out.tasks))
      BY <2>1, NewTask
    <2>3. Head(loop.out.tasks).goal = REPLY_GOAL
      BY <2>1, <2>2 DEF NewTaskRow
    <2> QED
      BY <2>2, <2>3 DEF ReplyPlanned
  <1>4. CASE Replies' \subseteq Replies
    BY <1>1, <1>2, <1>4
  <1>5. CASE ~(Replies' \subseteq Replies)
    BY <1>1, <1>2, <1>3, <1>5
  <1> QED
    BY <1>4, <1>5

\* A plan that is there after a step was there before it, or was just decided.
LEMMA PlanKept ==
  ASSUME TypeInv, PlanInv, [Next]_vars, loop'.out.tasks # <<>>
  PROVE  Decided \/ loop'.out.tasks = loop.out.tasks
  <1>a. NoRun.out.tasks = <<>> /\ NewRun.out.tasks = <<>>
    BY DEF NoRun, NewRun, IdleRun, NoOutput, Output
  <1>b. Rested => loop'.out.tasks = <<>>
    BY RestedRun DEF TypeInv
  <1>1. CASE loop' \in {loop, NewRun}
    BY <1>a, <1>1
  <1>2. CASE loop.pc = "spawn" /\ TurnedTo(Tail(loop.out.tasks))
    <2>1. loop.out.tasks # <<>>
      BY <1>2 DEF TypeInv, LoopInv, GoodRun
    <2>2. PICK proposed \in ProposedTask : loop.out.tasks = <<proposed>>
      BY <2>1 DEF PlanInv
    <2>3. Tail(loop.out.tasks) = <<>>
      BY <2>2
    <2> QED
      BY <1>b, <1>2, <2>3 DEF TurnedTo
  <1>3. CASE LoopEffect /\ loop.pc # "spawn"
    BY <1>a, <1>b, <1>3 DEF LoopEffect, Retried, Ended, Advanced, Popped, TurnedTo
  <1>4. CASE LoopEffect /\ loop.pc = "spawn"
    BY <1>a, <1>2, <1>4 DEF LoopEffect, Retried, Ended, Popped, Decided
  <1> QED
    BY <1>1, <1>3, <1>4, SignalsMove DEF Keeps, Holds, GoesOn, HandsOver

\* A planned reply is one that was planned, or was just decided.
LEMMA PlannedStep ==
  ASSUME TypeInv, PlanInv, [Next]_vars, ReplyPlanned'
  PROVE  \/ Decided
         \/ /\ ReplyPlanned /\ Replies' = Replies
            /\ loop'.out.tasks = loop.out.tasks
  <1>1. Decided \/ loop'.out.tasks = loop.out.tasks
    BY PlanKept DEF ReplyPlanned
  <1>2. ASSUME loop'.out.tasks = loop.out.tasks
        PROVE  ReplyPlanned /\ Replies' = Replies
    <2> DEFINE key == Head(loop.out.tasks).idempotency_key
    <2>1. \A t \in DOMAIN tasks' : tasks'[t].idempotency_key # key
      BY <1>2 DEF ReplyPlanned, TasksWithKey
    <2>2. \A t \in DOMAIN tasks : tasks[t].idempotency_key # key
      BY <2>1, StepKeepsTasks DEF TasksKept
    <2>3. ReplyPlanned
      BY <1>2, <2>2 DEF ReplyPlanned, TasksWithKey
    <2>4. ASSUME NEW t \in DOMAIN tasks', t \notin DOMAIN tasks
          PROVE  FALSE
      <3>1. tasks'[t] = NewTaskRow(Head(loop.out.tasks))
        BY <2>4, NewTask
      <3> QED
        BY <2>1, <2>4, <3>1 DEF NewTaskRow
    <2>5. Replies' = Replies
      BY <2>4, RepliesMove DEF Replies
    <2> QED
      BY <2>3, <2>5
  <1> QED
    BY <1>1, <1>2

\* The loop does not leave its patch before the patch is written, unless it fails.
LEMMA PatchWritten ==
  ASSUME TypeInv, [Next]_vars, loop.pc = "patch", loop'.pc # "patch"
  PROVE  contact_state' = loop.out.state \/ (Loop /\ Ended)
  <1>1. Loop
    BY SignalsMove DEF Keeps, Holds, GoesOn, HandsOver
  <1>2. CASE LoopPatch
    BY <1>2 DEF LoopPatch, UpdateContactState
  <1>3. CASE LoopActivityFails
    <2>1. Retried \/ Ended
      BY <1>3, FailedRun DEF LoopActivityFails, TypeInv
    <2> QED
      BY <1>1, <2>1 DEF Retried
  <1> QED
    BY <1>1, <1>2, <1>3 DEF Loop, LoopNext, LoopRegister, LoopPop, LoopReadContact,
       LoopReadState, LoopReadConsent, LoopDecide, LoopCancel, LoopMark, LoopInsert, LoopSpawn

\* So it does not leave it with a plan.
LEMMA PatchedStep ==
  ASSUME TypeInv, [Next]_vars, loop.pc = "patch", loop'.pc # "patch", loop'.out.tasks # <<>>
  PROVE  contact_state' = loop.out.state
  <1>1. NoRun.out.tasks = <<>>
    BY DEF NoRun, IdleRun, NoOutput, Output
  <1> QED
    BY <1>1, PatchWritten DEF Ended

\* One more reply is one more.
LEMMA OneMoreReply ==
  ASSUME TypeInv, [Next]_vars, Replies' # Replies
  PROVE  /\ loop.pc = "insert" /\ ReplyPlanned
         /\ Cardinality(Replies') = Cardinality(Replies) + 1
  <1>1. LoopInsert /\ ReplyPlanned /\ Replies' = Replies \cup {Len(tasks) + 1}
    BY RepliesMove
  <1>2. IsFiniteSet(Replies) /\ Len(tasks) + 1 \notin Replies
    BY FiniteReplies
  <1>3. Cardinality(Replies \cup {Len(tasks) + 1}) = Cardinality(Replies) + 1
    BY <1>2, FS_AddElement
  <1> QED
    BY <1>1, <1>3 DEF LoopInsert

(* Every reply stays counted.                                              *)
LEMMA CountedStep ==
  TypeInv /\ PlanInv /\ ReadInv /\ CountedInv /\ [Next]_vars => CountedInv'
  <1> SUFFICES ASSUME TypeInv, PlanInv, ReadInv, CountedInv, [Next]_vars PROVE CountedInv'
    OBVIOUS
  <1> DEFINE old == Cardinality(Replies)
             new == Cardinality(Replies')
             count == contact_state.contact_attempts
             recount == contact_state'.contact_attempts
  <1>a. count \in Nat /\ recount \in Nat /\ count <= recount
    BY CountRises
  <1>b. old \in Nat
    BY FiniteReplies
  <1>1. new <= recount
    <2>1. CASE Replies' = Replies
      <3> HIDE DEF recount
      <3>1. new = old /\ old <= count
        BY <2>1 DEF CountedInv
      <3> HIDE DEF new, old, count
      <3> QED
        BY <1>a, <1>b, <3>1
    <2>2. CASE Replies' # Replies
      <3>1. new = old + 1 /\ old < count
        BY <2>2, OneMoreReply DEF CountedInv
      <3> HIDE DEF new, old, count, recount
      <3> QED
        BY <1>a, <1>b, <3>1
    <2> QED
      BY <2>1, <2>2
  <1>2. ASSUME ReplyPlanned'
        PROVE  new < (IF loop'.pc = "patch" THEN loop'.out.state.contact_attempts ELSE recount)
    <2>1. CASE Decided
      <3>1. loop'.out = Decision /\ loop.pc = "decide"
            /\ (Decision.patch => loop'.pc = "patch")
        BY <2>1 DEF Decided
      <3>2. Replies' = Replies
        BY <3>1, OneMoreReply
      <3>3. Decision.tasks # <<>> /\ Head(Decision.tasks).goal = REPLY_GOAL
        BY <1>2, <3>1 DEF ReplyPlanned
      <3>4. \A s, type, at, goal :
              Decision.tasks = Propose(s, type, at, goal) => goal = REPLY_GOAL
        BY <3>3 DEF Propose
      <3>5. Decision.patch /\ Decision.state.contact_attempts = count + 1
        BY <3>1, <3>3, <3>4, DecisionCounts
      <3>6. old <= count /\ new = old
        BY <3>2 DEF CountedInv
      <3>7. loop'.pc = "patch" /\ loop'.out.state.contact_attempts = count + 1
        BY <3>1, <3>5
      <3> HIDE DEF old, new, count, recount, Decision
      <3> QED
        BY <1>a, <1>b, <3>6, <3>7
    <2>2. CASE ~Decided
      <3>1. /\ ReplyPlanned /\ new = old /\ loop'.out.tasks # <<>>
        BY <1>2, <2>2, PlannedStep DEF ReplyPlanned
      <3>2. CASE loop'.pc = "patch"
        <4>1. loop.pc = "patch" /\ loop'.out = loop.out
          BY <2>2, <3>2, PatchStep
        <4> QED
          BY <3>1, <3>2, <4>1 DEF CountedInv
      <3>3. CASE loop'.pc # "patch" /\ loop.pc = "patch"
        <4>1. contact_state' = loop.out.state
          BY <3>1, <3>3, PatchedStep
        <4> QED
          BY <3>1, <3>3, <4>1 DEF CountedInv
      <3>4. CASE loop'.pc # "patch" /\ loop.pc # "patch"
        <4>1. old < count
          BY <3>1, <3>4 DEF CountedInv
        <4>2. new < recount
          <5> HIDE DEF old, new, count, recount
          <5> QED
            BY <1>a, <1>b, <3>1, <4>1
        <4> QED
          BY <3>4, <4>2
      <3> QED
        BY <3>2, <3>3, <3>4
    <2> QED
      BY <2>1, <2>2
  <1> QED
    BY <1>1, <1>2 DEF CountedInv

\* Time does not run backwards.
LEMMA ClockStep ==
  ASSUME TypeInv, [Next]_vars
  PROVE  clock \in Nat /\ clock' \in Nat /\ clock <= clock'
  <1>a. clock \in Nat
    BY DEF TypeInv, StoreInv, StoreTypeOK
  <1>1. CASE Tick
    BY <1>a, <1>1, StoreAssumption DEF Tick
  <1>2. CASE UNCHANGED vars \/ World
    <2>1. clock' = clock
      BY <1>2 DEF vars, World, ReceiveSms, FinalizeVoiceSession, ScheduleMeeting,
         UpdateContact
    <2> QED
      BY <1>a, <2>1
  <1>3. CASE Loop
    BY <1>a, <1>3 DEF Loop, LoopNext, LoopRegister, LoopPop, LoopReadContact, LoopReadState,
       LoopReadConsent, LoopDecide, LoopPatch, LoopCancel, LoopMark, LoopInsert, LoopSpawn,
       LoopActivityFails
  <1>4. ASSUME NEW r \in requests, RequestRuns(r) \/ RequestFails(r) \/ RequestDies(r)
        PROVE  clock' = clock
    BY <1>4 DEF RequestRuns, RecordSmsConsent, ConfirmKeyword, EmitCallResult,
       BackfillCallResult, Dispatch, MarkDelivered, RequestFails, RequestDies
  <1>5. ASSUME NEW t \in DOMAIN exec, ExecutionRuns(t) \/ ExecutionFails(t)
        PROVE  clock' = clock
    BY <1>5 DEF ExecutionRuns, ExecutionFails, ExecRuns, ExecActivityFails, ExecWake,
       ExecReadContact, ExecReadState, ExecReadConsent, ExecCheck, ExecSkip, ExecStart,
       ExecInteract, ExecSendSms, ExecSendEmail, ExecLog, ExecEmit, ExecBackfill, ExecDeliver,
       ExecComplete, ExecMoves
  <1> QED
    BY <1>a, <1>1, <1>2, <1>3, <1>4, <1>5 DEF Next

\* What the cap is measured by for a reply that has a row.
LEMMA ReplyKept ==
  ASSUME TypeInv, ReadInv, WindowInv, CountedInv, [Next]_vars,
         NEW t \in DOMAIN tasks, IsReply(t)
  PROVE  /\ t \in DOMAIN tasks' /\ IsReply(t)'
         /\ RepliesUpTo(t)' = RepliesUpTo(t) /\ Opened' = Opened
         /\ Cardinality(RepliesUpTo(t)) \in Nat
         /\ Cardinality(RepliesUpTo(t)) <= contact_state.contact_attempts
         /\ Opened \in Nat
  <1>1. t \in DOMAIN tasks' /\ IsReply(t)'
    BY RepliesMove
  <1>2. t \in Replies /\ RepliesUpTo(t) \subseteq Replies
    BY DEF Replies, RepliesUpTo
  <1>3. t <= Len(tasks) /\ t \in Nat /\ Len(tasks) \in Nat
    BY <1>2, FiniteReplies
  <1>4. RepliesUpTo(t)' = RepliesUpTo(t)
    <2>1. CASE Replies' = Replies
      BY <2>1 DEF RepliesUpTo
    <2>2. CASE Replies' = Replies \cup {Len(tasks) + 1}
      <3>1. ~(Len(tasks) + 1 <= t)
        BY <1>3
      <3> QED
        BY <2>2, <3>1 DEF RepliesUpTo
    <2> QED
      BY <2>1, <2>2, RepliesMove
  <1>5. /\ Cardinality(RepliesUpTo(t)) \in Nat /\ Cardinality(Replies) \in Nat
        /\ Cardinality(RepliesUpTo(t)) <= Cardinality(Replies)
    BY <1>2, FiniteReplies
  <1>6. Cardinality(Replies) <= contact_state.contact_attempts
        /\ contact_state.contact_attempts \in Nat
    BY CountRises DEF CountedInv
  <1>7. Cardinality(Replies) # 0
    BY <1>2, FiniteReplies, FS_EmptySet
  <1>8. Opened # NoTime /\ Opened \in Time
    BY <1>5, <1>6, <1>7, CountRises DEF WindowInv
  <1>9. Opened' = Opened
    BY <1>8, CountRises
  <1>10. Cardinality(RepliesUpTo(t)) <= contact_state.contact_attempts
    BY <1>5, <1>6
  <1> QED
    BY <1>1, <1>4, <1>5, <1>8, <1>9, <1>10 DEF Time

\* The check at the due time is made against every reply up to this one.
LEMMA AllowedWhenChecked ==
  ASSUME NEW n \in Nat, NEW state, state.contact_attempts \in Nat, n <= state.contact_attempts,
         state.attempts_window_start \in Nat, NEW now \in Nat, ~CheckFrequencyCap(state, now)
  PROVE  \/ n < FREQUENCY_CAP_MAX_ATTEMPTS
         \/ now >= state.attempts_window_start + FREQUENCY_CAP_WINDOW
  BY DecisionAssumption DEF CheckFrequencyCap, NoTime

(* An execution of a reply keeps to the cap.                               *)
LEMMA ExecKeepsCap ==
  ASSUME TypeInv, ReadInv, WindowInv, CountedInv, CapInv, [Next]_vars,
         NEW t \in DOMAIN exec, NEW e, Effect(t, e)
  PROVE  CapInv'
  <1>a. DOMAIN exec' = DOMAIN exec /\ exec'[t] = e /\ DOMAIN exec \subseteq DOMAIN tasks
        /\ \A u \in DOMAIN exec : u # t => exec'[u] = exec[u]
    BY DEF Effect, TypeInv, ExecInv
  <1>b. \A u \in DOMAIN tasks : u \in DOMAIN tasks' /\ (IsReply(u)' <=> IsReply(u))
    BY RepliesMove
  <1>c. clock \in Nat /\ clock' \in Nat /\ clock <= clock'
    BY ClockStep
  <1>1. ASSUME NEW u \in DOMAIN exec, IsReply(u), exec'[u].pc \in {"consent", "check"}
        PROVE  /\ Cardinality(RepliesUpTo(u)') <= exec'[u].state.contact_attempts
               /\ exec'[u].state.attempts_window_start = Opened'
    <2>1. /\ RepliesUpTo(u)' = RepliesUpTo(u) /\ Opened' = Opened
          /\ Cardinality(RepliesUpTo(u)) <= contact_state.contact_attempts
      BY <1>1, <1>a, ReplyKept
    <2>2. CASE exec[u].pc \in {"consent", "check"} /\ exec'[u].state = exec[u].state
      BY <1>1, <2>1, <2>2 DEF CapInv
    <2>3. CASE exec'[u].state = CreatedState
      <3>1. /\ CreatedState.contact_attempts = contact_state.contact_attempts
            /\ CreatedState.attempts_window_start = Opened
        BY DEF CreatedState, Opened, TypeInv, StoreInv, StoreTypeOK, ContactState
      <3> QED
        BY <2>1, <2>3, <3>1
    <2>4. CASE u = t
      <3>1. \/ exec[t].pc \in {"consent", "check"} /\ e.state = exec[t].state
            \/ e.state = CreatedState
        BY <1>1, <1>a, <2>4 DEF Effect, Moves, SameReads, Unsent, Sending
      <3> QED
        BY <1>a, <2>2, <2>3, <2>4, <3>1
    <2> QED
      BY <1>1, <1>a, <2>2, <2>4
  <1>2. ASSUME NEW u \in DOMAIN exec, IsReply(u), exec'[u].pc \in Sending
        PROVE  Allowed(u, clock)'
    <2>1. /\ RepliesUpTo(u)' = RepliesUpTo(u) /\ Opened' = Opened /\ Opened \in Nat
          /\ Cardinality(RepliesUpTo(u)) \in Nat
      BY <1>2, <1>a, ReplyKept
    <2>2. CASE exec[u].pc \in Sending
      <3>1. \/ Cardinality(RepliesUpTo(u)) < FREQUENCY_CAP_MAX_ATTEMPTS
            \/ clock >= Opened + FREQUENCY_CAP_WINDOW
        BY <1>2, <2>2 DEF CapInv, Allowed
      <3>2. \/ Cardinality(RepliesUpTo(u)) < FREQUENCY_CAP_MAX_ATTEMPTS
            \/ clock' >= Opened + FREQUENCY_CAP_WINDOW
        BY <1>c, <2>1, <3>1, DecisionAssumption
      <3> QED
        BY <2>1, <3>2 DEF Allowed
    <2>3. CASE exec[u].pc \notin Sending
      <3>1. u = t /\ e.pc \in Sending
        BY <1>2, <1>a, <2>3
      <3>2. exec[t].pc = "check" /\ ~CheckFrequencyCap(exec[t].state, clock)
        BY <2>3, <3>1 DEF Effect, Moves, Unsent, Sending
      <3>3. /\ Cardinality(RepliesUpTo(t)) <= exec[t].state.contact_attempts
            /\ exec[t].state.attempts_window_start = Opened
        BY <1>2, <3>1, <3>2 DEF CapInv
      <3>4. exec[t].state.contact_attempts \in Nat
        BY DEF TypeInv, ExecInv, GoodExecution, Execution, ContactState
      <3>5. \/ Cardinality(RepliesUpTo(t)) < FREQUENCY_CAP_MAX_ATTEMPTS
            \/ clock >= Opened + FREQUENCY_CAP_WINDOW
        BY <1>c, <2>1, <3>1, <3>2, <3>3, <3>4, AllowedWhenChecked
      <3>6. \/ Cardinality(RepliesUpTo(t)) < FREQUENCY_CAP_MAX_ATTEMPTS
            \/ clock' >= Opened + FREQUENCY_CAP_WINDOW
        BY <1>c, <2>1, <3>1, <3>5, DecisionAssumption
      <3> QED
        BY <2>1, <3>1, <3>6 DEF Allowed
    <2> QED
      BY <2>2, <2>3
  <1>3. ASSUME NEW row \in outbox'
        PROVE  /\ row.task \in DOMAIN tasks'
               /\ IsReply(row.task)' => Allowed(row.task, row.at)'
    <2>1. row \in outbox \/ (row.task = t /\ row.at = clock /\ exec[t].pc = "send")
      BY DEF Effect, Sends
    <2>2. row.task \in DOMAIN tasks
      BY <1>a, <2>1 DEF CapInv
    <2>3. ASSUME IsReply(row.task)
          PROVE  Allowed(row.task, row.at)'
      <3>1. Allowed(row.task, row.at)
        BY <2>1, <2>3 DEF CapInv, Sending
      <3>2. RepliesUpTo(row.task)' = RepliesUpTo(row.task) /\ Opened' = Opened
        BY <2>2, <2>3, ReplyKept
      <3> QED
        BY <3>1, <3>2 DEF Allowed
    <2> QED
      BY <1>b, <2>2, <2>3
  <1>4. \A u \in DOMAIN exec' : IsReply(u)' => IsReply(u)
    BY <1>a, <1>b
  <1> QED
    BY <1>1, <1>2, <1>3, <1>4, <1>a DEF CapInv

(* So does every other step.                                               *)
LEMMA OthersKeepCap ==
  ASSUME TypeInv, ReadInv, WindowInv, CountedInv, CapInv, [Next]_vars, OtherEffect
  PROVE  CapInv'
  <1>a. outbox' = outbox /\ DOMAIN exec \subseteq DOMAIN tasks
        /\ (\A t \in DOMAIN exec : t \in DOMAIN exec' /\ exec'[t] = exec[t])
        /\ \A t \in DOMAIN exec' : t \notin DOMAIN exec => exec'[t].pc = "sleep"
    BY DEF OtherEffect, Spawns, TypeInv, ExecInv
  <1>b. \A u \in DOMAIN tasks : u \in DOMAIN tasks' /\ (IsReply(u)' <=> IsReply(u))
    BY RepliesMove
  <1>c. clock \in Nat /\ clock' \in Nat /\ clock <= clock'
    BY ClockStep
  <1>1. ASSUME NEW u \in DOMAIN exec', IsReply(u)', exec'[u].pc \in {"consent", "check"}
        PROVE  /\ Cardinality(RepliesUpTo(u)') <= exec'[u].state.contact_attempts
               /\ exec'[u].state.attempts_window_start = Opened'
    <2>1. u \in DOMAIN exec /\ exec'[u] = exec[u] /\ IsReply(u)
      BY <1>1, <1>a, <1>b
    <2>2. RepliesUpTo(u)' = RepliesUpTo(u) /\ Opened' = Opened
      BY <1>a, <2>1, ReplyKept
    <2> QED
      BY <1>1, <2>1, <2>2 DEF CapInv
  <1>2. ASSUME NEW u \in DOMAIN exec', IsReply(u)', exec'[u].pc \in Sending
        PROVE  Allowed(u, clock)'
    <2>1. u \in DOMAIN exec /\ exec'[u] = exec[u] /\ IsReply(u)
      BY <1>2, <1>a, <1>b DEF Sending
    <2>2. /\ RepliesUpTo(u)' = RepliesUpTo(u) /\ Opened' = Opened /\ Opened \in Nat
          /\ Cardinality(RepliesUpTo(u)) \in Nat
      BY <1>a, <2>1, ReplyKept
    <2>3. \/ Cardinality(RepliesUpTo(u)) < FREQUENCY_CAP_MAX_ATTEMPTS
          \/ clock >= Opened + FREQUENCY_CAP_WINDOW
      BY <1>2, <2>1 DEF CapInv, Allowed
    <2>4. \/ Cardinality(RepliesUpTo(u)) < FREQUENCY_CAP_MAX_ATTEMPTS
          \/ clock' >= Opened + FREQUENCY_CAP_WINDOW
      BY <1>c, <2>2, <2>3, DecisionAssumption
    <2> QED
      BY <2>2, <2>4 DEF Allowed
  <1>3. ASSUME NEW row \in outbox'
        PROVE  /\ row.task \in DOMAIN tasks'
               /\ IsReply(row.task)' => Allowed(row.task, row.at)'
    <2>1. row \in outbox /\ row.task \in DOMAIN tasks
      BY <1>a DEF CapInv
    <2>2. ASSUME IsReply(row.task)
          PROVE  Allowed(row.task, row.at)'
      <3>1. Allowed(row.task, row.at)
        BY <2>1, <2>2 DEF CapInv
      <3>2. RepliesUpTo(row.task)' = RepliesUpTo(row.task) /\ Opened' = Opened
        BY <2>1, <2>2, ReplyKept
      <3> QED
        BY <3>1, <3>2 DEF Allowed
    <2> QED
      BY <1>b, <2>1, <2>2
  <1> QED
    BY <1>1, <1>2, <1>3 DEF CapInv

\* Nothing is counted and nothing is sent before anything happened.
LEMMA CapInit == Init => WindowInv /\ CountedInv /\ CapInv
  <1> SUFFICES ASSUME Init PROVE WindowInv /\ CountedInv /\ CapInv
    OBVIOUS
  <1>1. /\ loop.pc = "none" /\ loop.out.tasks = <<>> /\ contact_state.contact_attempts = 0
        /\ DOMAIN tasks = {} /\ DOMAIN exec = {} /\ outbox = {}
    BY EmptySeq DEF Init, StoreInit, LoopInit, NoRun, IdleRun, NoOutput, Output, NewContactState
  <1>2. Replies = {}
    BY <1>1 DEF Replies
  <1> QED
    BY <1>1, <1>2, FS_EmptySet DEF WindowInv, CountedInv, CapInv, ReplyPlanned

\* Every step keeps the replies below the cap.
LEMMA CapStep ==
  TypeInv /\ ReadInv /\ WindowInv /\ CountedInv /\ CapInv /\ [Next]_vars => CapInv'
  BY StepEffect, ExecKeepsCap, OthersKeepCap

\* So they always are.
LEMMA CapInvariant == Spec => [](WindowInv /\ CountedInv /\ CapInv)
  BY CapInit, CapStep, WindowStep, CountedStep, AttemptsInvariant, OnceInvariant, TypeInvariant,
     PTL DEF Spec

\* A set of numbers below a bound has a greatest one.
LEMMA GreatestNumber ==
  ASSUME NEW n \in Nat, NEW S, S \subseteq 1 .. n, S # {}
  PROVE  \E m \in S : \A k \in S : k <= m
  <1> DEFINE bounds == {b \in Nat : \A k \in S : k <= b}
             T == {1 .. b : b \in bounds}
             R == StrictSubsetOrdering(Nat)
  <1>1. n \in bounds
    OBVIOUS
  <1>2. PICK x \in T : \A z \in T : <<z, x>> \notin R
    <2>1. \A b \in Nat : 1 .. b \subseteq Nat /\ IsFiniteSet(1 .. b)
      BY FS_Interval
    <2>2. T \subseteq FiniteSubsetsOf(Nat) /\ T # {}
      <3>1. T \subseteq SUBSET Nat /\ \A z \in T : IsFiniteSet(z)
        BY <2>1
      <3>2. T # {}
        BY <1>1
      <3> HIDE DEF T
      <3> QED
        BY <3>1, <3>2 DEF FiniteSubsetsOf
    <2>3. IsWellFoundedOn(R, FiniteSubsetsOf(Nat))
      BY FS_StrictSubsetOrderingWellFounded
    <2> HIDE DEF R, T
    <2> QED
      BY <2>2, <2>3, WFMin
  <1>3. PICK m \in bounds : x = 1 .. m
    OBVIOUS
  <1>4. m \in Nat /\ \A k \in S : k \in Nat /\ k # 0 /\ k <= m
    OBVIOUS
  <1>5. ASSUME m \notin S
        PROVE  FALSE
    <2> HIDE DEF bounds, T, R
    <2>1. ASSUME NEW k \in S
          PROVE  k <= m - 1 /\ m - 1 \in Nat
      <3>1. k # m /\ k \in Nat /\ k # 0 /\ k <= m /\ m \in Nat
        BY <1>4, <1>5
      <3> QED
        BY <3>1
    <2>2. m - 1 \in Nat
      BY <2>1
    <2>3. 1 .. (m - 1) \in T
      BY <2>1, <2>2 DEF bounds, T
    <2>4. /\ 1 .. (m - 1) \subseteq 1 .. m /\ 1 .. m \subseteq Nat
          /\ m \in 1 .. m /\ m \notin 1 .. (m - 1)
      BY <1>4, <2>2
    <2>5. <<1 .. (m - 1), 1 .. m>> \in R
      <3> DEFINE a == 1 .. (m - 1)
                 b == 1 .. m
      <3>1. a \subseteq b /\ a # b /\ a \subseteq Nat /\ b \subseteq Nat
        BY <2>4
      <3> HIDE DEF a, b
      <3>2. <<a, b>> \in R
        BY <3>1 DEF R, StrictSubsetOrdering
      <3> QED
        BY <3>2 DEF a, b
    <2> QED
      BY <1>2, <1>3, <2>3, <2>5
  <1> QED
    BY <1>4, <1>5

(* In the window that the contact's first text opens fewer replies go out  *)
(* than the cap: the last of them was checked when its own decision and    *)
(* those of all replies before it had been counted.                        *)
THEOREM RepliesAreCapped == Spec => []RepliesStayBelowCap
  <1>1. TypeInv /\ CapInv => RepliesStayBelowCap
    <2> SUFFICES ASSUME TypeInv, CapInv, Opened # NoTime
                 PROVE  Cardinality(RepliesWithin(Opened)) < FREQUENCY_CAP_MAX_ATTEMPTS
      BY DEF RepliesStayBelowCap, Opened
    <2> DEFINE S == RepliesWithin(Opened)
    <2>1. \A t \in S : \E row \in outbox :
            /\ row.task = t /\ IsReply(t) /\ t \in DOMAIN tasks
            /\ row.at \in Opened .. Opened + FREQUENCY_CAP_WINDOW - 1
      BY DEF RepliesWithin, CapInv, IsReply
    <2>2. S \subseteq Replies
      BY <2>1 DEF Replies
    <2> HIDE DEF S
    <2>3. CASE S = {}
      BY <2>3, FS_EmptySet, DecisionAssumption DEF S
    <2>4. CASE S # {}
      <3>1. Len(tasks) \in Nat /\ S \subseteq 1 .. Len(tasks)
        BY <2>2, FiniteReplies
      <3>2. PICK m \in S : \A k \in S : k <= m
        BY <2>4, <3>1, GreatestNumber
      <3>3. PICK row \in outbox :
              /\ row.task = m /\ IsReply(m)
              /\ row.at \in Opened .. Opened + FREQUENCY_CAP_WINDOW - 1
        BY <2>1
      <3>4. Allowed(m, row.at)
        BY <3>3 DEF CapInv
      <3>5. Opened \in Nat
        BY DEF TypeInv, StoreInv, StoreTypeOK, ContactState, Opened, Time
      <3>6. Cardinality(RepliesUpTo(m)) < FREQUENCY_CAP_MAX_ATTEMPTS
        BY <3>3, <3>4, <3>5, DecisionAssumption DEF Allowed
      <3>7. S \subseteq RepliesUpTo(m) /\ RepliesUpTo(m) \subseteq Replies
        BY <2>2, <3>2 DEF RepliesUpTo
      <3>8. IsFiniteSet(RepliesUpTo(m)) /\ Cardinality(RepliesUpTo(m)) \in Nat
        BY <3>7, FiniteReplies
      <3>9. Cardinality(S) <= Cardinality(RepliesUpTo(m)) /\ Cardinality(S) \in Nat
        BY <3>7, <3>8, FS_Subset, FS_CardinalityType
      <3>10. Cardinality(S) < FREQUENCY_CAP_MAX_ATTEMPTS
        BY <3>6, <3>8, <3>9, DecisionAssumption
      <3> QED
        BY <3>10 DEF S
    <2> QED
      BY <2>3, <2>4
  <1> QED
    BY <1>1, TypeInvariant, CapInvariant, PTL

-----------------------------------------------------------------------------
(* One nudge per interaction: what the interactions and results are that a *)
(* follow-up may be owed to, and who is about to add one.                  *)

\* The requests that log and report a call, and the executions that report a message.
Reporting == {r \in requests : r.pc \in {"emit", "backfill"}}
Emission == {"emit", "backfill", "deliver"}

\* Interactions are numbered per task.
NumberedInv ==
  /\ \A a \in interactions : /\ a.task \in DOMAIN tasks \cup {0}
                             /\ a.nth \in 1 .. Cardinality(Of(interactions, a.task))
  /\ \A a, b \in interactions : a.task = b.task /\ a.nth = b.nth => a = b

\* Whoever reports an interaction knows its number; a call's is reported by one request.
ReportsInv ==
  /\ \A t \in DOMAIN exec :
       exec[t].pc \in Emission => exec[t].interaction \in 1 .. Cardinality(Of(interactions, t))
  /\ \A r \in Reporting :
       /\ r.interaction \in 1 .. Cardinality(Of(interactions, 0))
       /\ \A row \in interactions : row.task = 0 /\ row.nth = r.interaction => row.result = 0
       /\ \A q \in Reporting : q.interaction = r.interaction => q = r

\* The results that may call for a nudge, once their interaction shows them.
Unlinked == {r.signal : r \in {q \in requests : q.pc = "backfill"}}
Shown == {s \in DOMAIN signals : MayNudge(s)} \ Unlinked

\* The executions about to insert one.
Emitting == {t \in DOMAIN exec : exec[t].pc = "emit" /\ ~IsFollowUp(t)}

ShareInv ==
  Cardinality(Shown) + Cardinality(Emitting) <= Cardinality(NudgeableInteractions) + Faults

\* All of these are finite.
LEMMA FiniteShares ==
  ASSUME TypeInv
  PROVE  /\ IsFiniteSet(Shown) /\ IsFiniteSet(Emitting) /\ IsFiniteSet(NudgeableInteractions)
         /\ Cardinality(Shown) \in Nat /\ Cardinality(Emitting) \in Nat
         /\ Cardinality(NudgeableInteractions) \in Nat /\ Faults \in Int
  <1>1. /\ DOMAIN signals = 1 .. Len(signals) /\ Len(signals) \in Nat
        /\ DOMAIN tasks = 1 .. Len(tasks) /\ Len(tasks) \in Nat
    BY LenProperties DEF TypeInv, StoreInv, StoreTypeOK
  <1>2. IsFiniteSet(DOMAIN signals) /\ IsFiniteSet(DOMAIN tasks) /\ IsFiniteSet(interactions)
    BY <1>1, FS_Interval DEF TypeInv, StoreInv, Finite
  <1>3. /\ Shown \in SUBSET DOMAIN signals /\ Emitting \in SUBSET DOMAIN tasks
        /\ NudgeableInteractions \in SUBSET interactions
    BY DEF Shown, Emitting, NudgeableInteractions, TypeInv, ExecInv
  <1>4. Faults \in Int
    BY StoreAssumption DEF Faults, TypeInv, StoreInv, StoreTypeOK, BudgetKind
  <1> QED
    BY <1>2, <1>3, <1>4, FS_Subset, FS_CardinalityType

\* A set that gains at most one element.
LEMMA OneMore ==
  ASSUME NEW S, IsFiniteSet(S), NEW T, NEW x, T \subseteq S \cup {x}
  PROVE  IsFiniteSet(T) /\ Cardinality(T) <= Cardinality(S) + 1 /\ Cardinality(T) \in Nat
  <1>1. IsFiniteSet(S \cup {x}) /\ Cardinality(S \cup {x}) <= Cardinality(S) + 1
        /\ Cardinality(S \cup {x}) \in Nat /\ Cardinality(S) \in Nat
    BY FS_AddElement, FS_CardinalityType
  <1>2. IsFiniteSet(T) /\ Cardinality(T) <= Cardinality(S \cup {x})
    BY <1>1, FS_Subset
  <1>3. Cardinality(T) \in Nat
    BY <1>2, FS_CardinalityType
  <1> QED
    BY <1>1, <1>2, <1>3

\* A set in which one element, or none, is replaced by another.
LEMMA Replaced ==
  ASSUME NEW S, IsFiniteSet(S), NEW R, R \subseteq S, \A a, b \in R : a = b,
         NEW x, x \notin S \ R, NEW T, T = (S \ R) \cup {x}
  PROVE  Cardinality(T) \in Nat /\ Cardinality(T) >= Cardinality(S)
  <1>1. CASE R = {}
    <2>1. T = S \cup {x} /\ x \notin S
      BY <1>1
    <2> QED
      BY <2>1, FS_AddElement, FS_CardinalityType
  <1>2. ASSUME NEW a \in R
        PROVE  Cardinality(T) \in Nat /\ Cardinality(T) >= Cardinality(S)
    <2>1. PICK U : U = S \ {a}
      OBVIOUS
    <2>2. a \in S /\ x \notin U /\ T = U \cup {x}
      BY <2>1
    <2>3. /\ IsFiniteSet(U) /\ Cardinality(U) = Cardinality(S) - 1
          /\ Cardinality(S) \in Nat
      BY <2>1, <2>2, FS_RemoveElement, FS_CardinalityType
    <2>4. Cardinality(T) = Cardinality(U) + 1
      BY <2>2, <2>3, FS_AddElement
    <2> QED
      BY <2>3, <2>4
  <1> QED
    BY <1>1, <1>2

-----------------------------------------------------------------------------
(* The interactions.                                                       *)

\* The rows that belong to a task are finite in number.
LEMMA FiniteRows ==
  ASSUME TypeInv, NEW t
  PROVE  IsFiniteSet(Of(interactions, t)) /\ Cardinality(Of(interactions, t)) \in Nat
  <1>1. Of(interactions, t) \in SUBSET interactions
    BY DEF Of
  <1> QED
    BY <1>1, FS_Subset, FS_CardinalityType DEF TypeInv, StoreInv, Finite

\* A logged interaction is a new one, with the next number of its task.
LEMMA LoggedRow ==
  ASSUME TypeInv, NumberedInv, NEW t, NEW row,
         row = [task |-> t, nth |-> NextNth(interactions, t), result |-> 0],
         LogInteraction(t, 0)
  PROVE  /\ row \notin interactions /\ interactions' = interactions \cup {row}
         /\ Cardinality(Of(interactions', t)) = Cardinality(Of(interactions, t)) + 1
         /\ \A u : u # t => Of(interactions', u) = Of(interactions, u)
         /\ row.nth = Cardinality(Of(interactions, t)) + 1
  <1>1. interactions' = interactions \cup {row} /\ row.task = t
        /\ row.nth = Cardinality(Of(interactions, t)) + 1
    BY DEF LogInteraction, NextNth
  <1>2. IsFiniteSet(Of(interactions, t)) /\ Cardinality(Of(interactions, t)) \in Nat
    BY FiniteRows
  <1>3. row \notin interactions
    BY <1>1, <1>2 DEF NumberedInv
  <1>4. Of(interactions', t) = Of(interactions, t) \cup {row} /\ row \notin Of(interactions, t)
    BY <1>1, <1>3 DEF Of
  <1>5. \A u : u # t => Of(interactions', u) = Of(interactions, u)
    BY <1>1 DEF Of
  <1> QED
    BY <1>1, <1>2, <1>3, <1>4, <1>5, FS_AddElement

\* A backfilled one keeps its number, and no task loses one.
LEMMA BackfilledRow ==
  ASSUME TypeInv, NumberedInv, NEW t, NEW n, NEW s, BackfillResult(t, n, s)
  PROVE  /\ \A u : u # t => Of(interactions', u) = Of(interactions, u)
         /\ Cardinality(Of(interactions', t)) >= Cardinality(Of(interactions, t))
         /\ Cardinality(Of(interactions', t)) \in Nat
         /\ \A row \in interactions' : \/ row \in interactions /\ (row.task # t \/ row.nth # n)
                                       \/ row = [task |-> t, nth |-> n, result |-> s]
  <1> DEFINE new == [task |-> t, nth |-> n, result |-> s]
             R == {row \in interactions : row.task = t /\ row.nth = n}
  <1>1. new.task = t /\ new.nth = n
    OBVIOUS
  <1>2. interactions' = {row \in interactions : row.task # t \/ row.nth # n} \cup {new}
    BY DEF BackfillResult
  <1> HIDE DEF new
  <1>3. \A u : u # t => Of(interactions', u) = Of(interactions, u)
    BY <1>1, <1>2 DEF Of
  <1>4. /\ Of(interactions', t) = (Of(interactions, t) \ R) \cup {new}
        /\ R \subseteq Of(interactions, t) /\ new \notin Of(interactions, t) \ R
    BY <1>1, <1>2 DEF Of
  <1>5. \A a, b \in R : a = b
    BY DEF NumberedInv
  <1>6. IsFiniteSet(Of(interactions, t))
    BY FiniteRows
  <1> HIDE DEF R
  <1>7. /\ Cardinality(Of(interactions', t)) >= Cardinality(Of(interactions, t))
        /\ Cardinality(Of(interactions', t)) \in Nat
    BY <1>4, <1>5, <1>6, Replaced
  <1> QED
    BY <1>2, <1>3, <1>7 DEF new

-----------------------------------------------------------------------------
(* What a step of t's execution, left as e, does about its report.         *)

SameReport(t, e) == e.interaction = exec[t].interaction

Reports(t, e) ==
  /\ exec' = [exec EXCEPT ![t] = e]
  /\ UNCHANGED requests
  /\ \/ /\ ExecLog(t) /\ signals' = signals
        /\ \/ e.pc = "emit" /\ e.interaction = NextNth(interactions, t) /\ Faults' = Faults
           \/ e.pc \notin Emission /\ Faults' = Faults + 1
     \/ ExecEmit(t) /\ e.pc = "backfill" /\ SameReport(t, e) /\ Faults' = Faults
          /\ UNCHANGED interactions
     \/ ExecBackfill(t) /\ e.pc = "deliver" /\ SameReport(t, e) /\ Faults' = Faults
          /\ UNCHANGED signals
     \/ /\ exec[t].pc \in Emission /\ e.pc \in {"emit", "failed"} /\ SameReport(t, e)
        /\ Faults' = Faults + 1
        /\ UNCHANGED <<signals, interactions>>
     \/ e.pc \notin Emission /\ Faults' \in {Faults, Faults + 1}
          /\ UNCHANGED <<signals, interactions>>

\* A failed attempt is one of the faults.
LEMMA FailureCounts ==
  ASSUME TypeInv, Spend("fault")
  PROVE  Faults' = Faults + 1
  BY StoreAssumption DEF Spend, Faults, TypeInv, StoreInv, StoreTypeOK, BudgetKind

\* An attempt that fails is run again, or was the last.
LEMMA FailedExecution ==
  ASSUME TypeInv, NEW t \in DOMAIN exec, exec[t] \in Execution, ExecAttemptFails(t)
  PROVE  \E e : /\ exec' = [exec EXCEPT ![t] = e]
                /\ e.pc \in {RestartPc(exec[t].pc), "failed"}
                /\ SameReport(t, e) /\ Faults' = Faults + 1
  <1>a. Faults' = Faults + 1
    BY FailureCounts DEF ExecAttemptFails
  <1>1. CASE exec[t].attempt < MaxAttempts(exec[t].pc)
    <2> DEFINE e == [exec[t] EXCEPT !.attempt = exec[t].attempt + 1,
                                    !.pc = RestartPc(exec[t].pc)]
    <2>1. exec' = [exec EXCEPT ![t] = e]
      BY <1>1 DEF ExecAttemptFails
    <2>2. e.pc = RestartPc(exec[t].pc) /\ e.interaction = exec[t].interaction
      BY DEF Execution
    <2> QED
      BY <1>a, <2>1, <2>2 DEF SameReport
  <1>2. CASE ~(exec[t].attempt < MaxAttempts(exec[t].pc))
    <2> DEFINE e == [exec[t] EXCEPT !.pc = "failed"]
    <2>1. exec' = [exec EXCEPT ![t] = e]
      BY <1>2 DEF ExecAttemptFails
    <2>2. e.pc = "failed" /\ e.interaction = exec[t].interaction
      BY DEF Execution
    <2> QED
      BY <1>a, <2>1, <2>2 DEF SameReport
  <1> QED
    BY <1>1, <1>2

\* An execution that goes on as `next`.
LEMMA MovedExecution ==
  ASSUME NEW t, NEW next \in Execution, exec' = [exec EXCEPT ![t] = [next EXCEPT !.attempt = 1]],
         UNCHANGED budget
  PROVE  \E e : /\ exec' = [exec EXCEPT ![t] = e] /\ e.pc = next.pc
                /\ e.interaction = next.interaction /\ Faults' = Faults
  <1>1. /\ [next EXCEPT !.attempt = 1].pc = next.pc
        /\ [next EXCEPT !.attempt = 1].interaction = next.interaction
    BY DEF Execution
  <1> QED
    BY <1>1 DEF Faults

\* An activity outside the emission, the logging and the check.
LEMMA OrdinaryReport ==
  ASSUME TypeInv, NEW t \in DOMAIN exec, NEW next \in Execution,
         exec[t].pc \notin Emission, next.pc \notin Emission,
         \/ ExecCompletes(t, next)
         \/ ExecMoves(t, next),
         UNCHANGED <<signals, interactions, requests>>
  PROVE  \E e : Reports(t, e)
  <1>a. exec[t] \in Execution
    BY DEF TypeInv, ExecInv, GoodExecution
  <1>1. CASE ExecAttemptFails(t)
    <2>1. PICK e : /\ exec' = [exec EXCEPT ![t] = e]
                   /\ e.pc \in {RestartPc(exec[t].pc), "failed"} /\ Faults' = Faults + 1
      BY <1>1, <1>a, FailedExecution
    <2>2. e.pc \notin Emission
      BY <2>1 DEF RestartPc, Emission
    <2> QED
      BY <2>1, <2>2 DEF Reports
  <1>2. CASE exec' = [exec EXCEPT ![t] = [next EXCEPT !.attempt = 1]] /\ UNCHANGED budget
    <2>1. PICK e : /\ exec' = [exec EXCEPT ![t] = e] /\ e.pc = next.pc
                   /\ e.interaction = next.interaction /\ Faults' = Faults
      BY <1>2, MovedExecution
    <2> QED
      BY <2>1 DEF Reports
  <1> QED
    BY <1>1, <1>2 DEF ExecCompletes, ExecMoves

\* So every step of an execution does one of these.
LEMMA ExecReports ==
  ASSUME TypeInv, NEW t \in DOMAIN exec, ExecutionRuns(t) \/ ExecutionFails(t)
  PROVE  \E e : Reports(t, e)
  <1>a. exec[t] \in Execution
    BY DEF TypeInv, ExecInv, GoodExecution
  <1>b. UNCHANGED requests
    BY DEF ExecutionRuns, ExecutionFails
  <1>1. CASE ExecWake(t) \/ ExecReadContact(t) \/ ExecReadState(t) \/ ExecReadConsent(t)
               \/ ExecSkip(t) \/ ExecStart(t) \/ ExecSendSms(t) \/ ExecComplete(t)
    <2> DEFINE by(next) == /\ exec[t].pc \notin Emission /\ next.pc \notin Emission
                           /\ ExecCompletes(t, next) \/ ExecMoves(t, next)
                           /\ UNCHANGED <<signals, interactions, requests>>
    <2>1. \E next \in Execution : by(next)
      <3>1. CASE ExecWake(t)
        <4> DEFINE next == [exec[t] EXCEPT
                              !.pc = IF tasks[t].status = "canceled" THEN "done" ELSE "contact"]
        <4>1. next \in Execution /\ next.pc \in {"done", "contact"}
          BY <1>a DEF Execution, ExecPc
        <4>2. by(next)
          BY <1>b, <3>1, <4>1 DEF ExecWake, ExecAt, Emission, ExecMoves, tables
        <4> QED
          BY <4>1, <4>2
      <3>2. CASE ExecReadContact(t)
        <4> DEFINE next == [exec[t] EXCEPT !.pc = "state", !.contact = contact]
        <4>1. next \in Execution /\ next.pc = "state"
          BY <1>a DEF Execution, ExecPc, TypeInv, StoreInv, StoreTypeOK
        <4>2. by(next)
          BY <1>b, <3>2, <4>1 DEF ExecReadContact, ExecAt, Emission, ExecMoves, tables
        <4> QED
          BY <4>1, <4>2
      <3>3. CASE ExecReadState(t)
        <4> DEFINE next == [exec[t] EXCEPT !.pc = "consent", !.state = CreatedState]
        <4>1. next \in Execution /\ next.pc = "consent"
          BY <1>a, CreatedStateType DEF Execution, ExecPc, TypeInv, StoreInv, StoreTypeOK
        <4>2. by(next)
          BY <1>b, <3>3, <4>1 DEF ExecReadState, ExecAt, Emission
        <4> QED
          BY <4>1, <4>2
      <3>4. CASE ExecReadConsent(t)
        <4> DEFINE next == [exec[t] EXCEPT !.pc = "check", !.consent = consent[TaskChannel(t)]]
        <4>1. next \in Execution /\ next.pc = "check"
          BY <1>a, TaskChannelType DEF Execution, ExecPc, TypeInv, StoreInv, StoreTypeOK
        <4>2. by(next)
          BY <1>b, <3>4, <4>1 DEF ExecReadConsent, ExecAt, Emission, ExecMoves, tables
        <4> QED
          BY <4>1, <4>2
      <3>5. CASE ExecSkip(t) \/ ExecComplete(t)
        <4> DEFINE next == [exec[t] EXCEPT !.pc = "done"]
        <4>1. next \in Execution /\ next.pc = "done"
          BY <1>a DEF Execution, ExecPc
        <4>2. by(next)
          BY <1>b, <3>5, <4>1 DEF ExecSkip, ExecComplete, ExecAt, Emission
        <4> QED
          BY <4>1, <4>2
      <3>6. CASE ExecStart(t)
        <4> DEFINE next == [exec[t] EXCEPT
                              !.pc = IF tasks[t].type = "email" THEN "send" ELSE "interact"]
        <4>1. next \in Execution /\ next.pc \in {"send", "interact"}
          BY <1>a DEF Execution, ExecPc
        <4>2. by(next)
          BY <1>b, <3>6, <4>1 DEF ExecStart, ExecAt, Emission
        <4> QED
          BY <4>1, <4>2
      <3>7. CASE ExecSendSms(t)
        <4> DEFINE next == [exec[t] EXCEPT !.pc = "log"]
        <4>1. next \in Execution /\ next.pc = "log"
          BY <1>a DEF Execution, ExecPc
        <4>2. by(next)
          BY <1>b, <3>7, <4>1 DEF ExecSendSms, ExecAt, Emission
        <4> QED
          BY <4>1, <4>2
      <3> QED
        BY <1>1, <3>1, <3>2, <3>3, <3>4, <3>5, <3>6, <3>7
    <2> QED
      BY <2>1, OrdinaryReport
  <1>2. CASE ExecCheck(t)
    <2>1. PICK pc \in {"skip", "start"} : ExecMoves(t, [NewExecution EXCEPT !.pc = pc])
      BY <1>2 DEF ExecCheck
    <2> DEFINE next == [NewExecution EXCEPT !.pc = pc]
    <2>2. next \in Execution /\ next.pc = pc
      BY NewExecutionType DEF GoodExecution, Execution, ExecPc, NewExecution
    <2>3. exec[t].pc = "check" /\ UNCHANGED <<signals, interactions>>
      BY <1>2, <2>1 DEF ExecCheck, ExecAt, ExecMoves, tables
    <2> HIDE DEF next
    <2>4. ExecMoves(t, next)
      BY <2>1 DEF next
    <2> QED
      BY <1>b, <2>2, <2>3, <2>4, OrdinaryReport DEF Emission
  <1>3. CASE ExecInteract(t)
    <2>1. PICK draft \in Drafts :
            ExecMoves(t, [exec[t] EXCEPT !.pc = IF draft[1] THEN "send" ELSE "log",
                                         !.outcome = draft[2]])
      BY <1>3 DEF ExecInteract
    <2> DEFINE next == [exec[t] EXCEPT !.pc = IF draft[1] THEN "send" ELSE "log",
                                       !.outcome = draft[2]]
    <2>2. next \in Execution /\ next.pc \in {"send", "log"}
      <3>1. draft[2] \in Outcome
        BY ExecutionAssumption DEF Outcome, TERMINAL_OUTCOMES
      <3> QED
        BY <1>a, <3>1 DEF Execution, ExecPc
    <2>3. exec[t].pc = "interact" /\ UNCHANGED <<signals, interactions>>
      BY <1>3, <2>1 DEF ExecInteract, ExecAt, ExecMoves, tables
    <2> HIDE DEF next
    <2>4. ExecMoves(t, next)
      BY <2>1 DEF next
    <2> QED
      BY <1>b, <2>2, <2>3, <2>4, OrdinaryReport DEF Emission
  <1>4. CASE ExecSendEmail(t)
    <2>1. PICK outcome \in {"progressed", "no_answer"} :
            ExecCompletes(t, [exec[t] EXCEPT !.pc = "log", !.outcome = outcome])
      BY <1>4 DEF ExecSendEmail
    <2> DEFINE next == [exec[t] EXCEPT !.pc = "log", !.outcome = outcome]
    <2>2. next \in Execution /\ next.pc = "log"
      BY <1>a DEF Execution, ExecPc, Outcome
    <2>3. exec[t].pc = "send" /\ UNCHANGED <<signals, interactions>>
      BY <1>4 DEF ExecSendEmail, ExecAt
    <2> HIDE DEF next
    <2>4. ExecCompletes(t, next)
      BY <2>1 DEF next
    <2> QED
      BY <1>b, <2>2, <2>3, <2>4, OrdinaryReport DEF Emission
  <1>5. CASE ExecLog(t)
    <2> DEFINE next == [exec[t] EXCEPT !.pc = "emit", !.interaction = NextNth(interactions, t)]
    <2>1. /\ next \in Execution /\ next.pc = "emit"
          /\ next.interaction = NextNth(interactions, t)
      BY <1>a, NextNthType DEF Execution, ExecPc, TypeInv, StoreInv, Finite
    <2>2. ExecCompletes(t, next) /\ exec[t].pc = "log" /\ UNCHANGED signals
      BY <1>5 DEF ExecLog, ExecAt
    <2> HIDE DEF next
    <2>3. CASE ExecAttemptFails(t)
      <3>1. PICK e : /\ exec' = [exec EXCEPT ![t] = e]
                     /\ e.pc \in {RestartPc(exec[t].pc), "failed"} /\ Faults' = Faults + 1
        BY <2>3, <1>a, FailedExecution
      <3>2. e.pc \notin Emission
        BY <2>2, <3>1 DEF RestartPc, Emission
      <3> QED
        BY <1>5, <1>b, <2>2, <3>1, <3>2 DEF Reports
    <2>4. CASE exec' = [exec EXCEPT ![t] = [next EXCEPT !.attempt = 1]] /\ UNCHANGED budget
      <3>1. PICK e : /\ exec' = [exec EXCEPT ![t] = e] /\ e.pc = next.pc
                     /\ e.interaction = next.interaction /\ Faults' = Faults
        BY <2>1, <2>4, MovedExecution
      <3> QED
        BY <1>5, <1>b, <2>1, <2>2, <3>1 DEF Reports
    <2> QED
      BY <2>2, <2>3, <2>4 DEF ExecCompletes
  <1>6. CASE ExecEmit(t)
    <2> DEFINE e == [exec[t] EXCEPT !.pc = "backfill", !.signal = Len(signals) + 1]
    <2>1. e.pc = "backfill" /\ e.interaction = exec[t].interaction
      BY <1>a DEF Execution
    <2>2. exec' = [exec EXCEPT ![t] = e] /\ Faults' = Faults /\ UNCHANGED interactions
      BY <1>6 DEF ExecEmit, Faults
    <2> HIDE DEF e
    <2> QED
      BY <1>6, <1>b, <2>1, <2>2 DEF Reports, SameReport
  <1>7. CASE ExecBackfill(t)
    <2> DEFINE e == [exec[t] EXCEPT !.pc = "deliver"]
    <2>1. e.pc = "deliver" /\ e.interaction = exec[t].interaction
      BY <1>a DEF Execution
    <2>2. exec' = [exec EXCEPT ![t] = e] /\ Faults' = Faults /\ UNCHANGED signals
      BY <1>7 DEF ExecBackfill, Faults
    <2> HIDE DEF e
    <2> QED
      BY <1>7, <1>b, <2>1, <2>2 DEF Reports, SameReport
  <1>8. CASE ExecDeliver(t)
    <2> DEFINE next == [exec[t] EXCEPT !.pc = "complete", !.interaction = 0, !.signal = 0,
                                       !.outcome = NoOutcome]
    <2>1. next \in Execution /\ next.pc = "complete"
      BY <1>a DEF Execution, ExecPc
    <2>2. /\ ExecCompletes(t, next) /\ exec[t].pc = "deliver"
          /\ UNCHANGED <<signals, interactions>>
      BY <1>8 DEF ExecDeliver, ExecAt, tables
    <2> HIDE DEF next
    <2>3. CASE ExecAttemptFails(t)
      <3>1. PICK e : /\ exec' = [exec EXCEPT ![t] = e]
                     /\ e.pc \in {RestartPc(exec[t].pc), "failed"} /\ SameReport(t, e)
                     /\ Faults' = Faults + 1
        BY <2>3, <1>a, FailedExecution
      <3>2. e.pc \in {"emit", "failed"} /\ exec[t].pc \in Emission
        BY <2>2, <3>1 DEF RestartPc, Emission
      <3> QED
        BY <1>b, <2>2, <3>1, <3>2 DEF Reports
    <2>4. CASE exec' = [exec EXCEPT ![t] = [next EXCEPT !.attempt = 1]] /\ UNCHANGED budget
      <3>1. PICK e : /\ exec' = [exec EXCEPT ![t] = e] /\ e.pc = next.pc
                     /\ e.interaction = next.interaction /\ Faults' = Faults
        BY <2>1, <2>4, MovedExecution
      <3> QED
        BY <1>b, <2>1, <2>2, <3>1 DEF Reports, Emission
    <2> QED
      BY <2>2, <2>3, <2>4 DEF ExecCompletes
  <1>9. CASE ExecutionFails(t)
    <2>1. ExecAttemptFails(t) /\ UNCHANGED <<signals, interactions>>
      BY <1>9 DEF ExecutionFails, ExecActivityFails, tables
    <2>2. PICK e : /\ exec' = [exec EXCEPT ![t] = e]
                   /\ e.pc \in {RestartPc(exec[t].pc), "failed"} /\ SameReport(t, e)
                   /\ Faults' = Faults + 1
      BY <2>1, <1>a, FailedExecution
    <2>3. \/ e.pc \notin Emission
          \/ exec[t].pc \in Emission /\ e.pc \in {"emit", "failed"}
      BY <2>2 DEF RestartPc, Emission
    <2> QED
      BY <1>b, <2>1, <2>2, <2>3 DEF Reports
  <1> QED
    BY <1>1, <1>2, <1>3, <1>4, <1>5, <1>6, <1>7, <1>8, <1>9 DEF ExecutionRuns, ExecRuns

-----------------------------------------------------------------------------
(* What any step does to the interactions, and to the requests that report.*)
RowsMove ==
  \/ interactions' = interactions /\ Reporting' \subseteq Reporting
  \/ \E t \in DOMAIN exec \cup {0} : LogInteraction(t, 0) /\ Reporting' \subseteq Reporting
  \/ \E q : /\ LogInteraction(0, 0) /\ q.interaction = NextNth(interactions, 0)
            /\ Reporting' \subseteq Reporting \cup {q}
  \/ \E r \in Reporting : \E q : /\ interactions' = interactions
                                 /\ q.interaction = r.interaction
                                 /\ Reporting' \subseteq (Reporting \ {r}) \cup {q}
  \/ \E r \in Reporting : BackfillCallResult(r) /\ Reporting' \subseteq Reporting \ {r}
  \/ \E t \in DOMAIN exec : ExecBackfill(t) /\ Reporting' \subseteq Reporting

\* A request only touches its own.
LEMMA RequestRows ==
  ASSUME TypeInv, NEW r \in requests, RequestRuns(r) \/ RequestFails(r) \/ RequestDies(r)
  PROVE  RowsMove
  <1>a. r \in Request
    BY DEF TypeInv, ApiInv
  <1>1. CASE RecordSmsConsent(r) \/ ConfirmKeyword(r) \/ Dispatch(r) \/ MarkDelivered(r)
               \/ RequestFails(r) \/ RequestDies(r)
    <2>1. [r EXCEPT !.pc = "confirm"].pc = "confirm" /\ [r EXCEPT !.pc = "mark"].pc = "mark"
      BY <1>a DEF Request
    <2>2. \A q \in requests' : \/ q \in requests
                               \/ q \in {[r EXCEPT !.pc = "confirm"], [r EXCEPT !.pc = "mark"]}
      BY <1>1 DEF RecordSmsConsent, ConfirmKeyword, Dispatch, MarkDelivered, RequestFails,
         RequestDies, Becomes, Ends
    <2>3. Reporting' \subseteq Reporting
      BY <2>1, <2>2 DEF Reporting
    <2>4. interactions' = interactions \/ LogInteraction(0, 0)
      BY <1>1 DEF RecordSmsConsent, ConfirmKeyword, Dispatch, MarkDelivered, RequestFails,
         RequestDies, tables
    <2> QED
      BY <2>3, <2>4 DEF RowsMove
  <1>2. CASE EmitCallResult(r)
    <2> DEFINE q == [r EXCEPT !.pc = "backfill", !.signal = Len(signals) + 1]
    <2>1. q.interaction = r.interaction
      BY <1>a DEF Request
    <2>2. /\ requests' = (requests \ {r}) \cup {q} /\ interactions' = interactions
          /\ r \in Reporting
      BY <1>2 DEF EmitCallResult, Reporting
    <2> HIDE DEF q
    <2>3. Reporting' \subseteq (Reporting \ {r}) \cup {q}
      BY <2>2 DEF Reporting
    <2> QED
      BY <2>1, <2>2, <2>3 DEF RowsMove
  <1>3. CASE BackfillCallResult(r)
    <2>1. [r EXCEPT !.pc = "dispatch"].pc = "dispatch"
      BY <1>a DEF Request
    <2>2. /\ requests' = (requests \ {r}) \cup {[r EXCEPT !.pc = "dispatch"]}
          /\ r \in Reporting
      BY <1>3 DEF BackfillCallResult, Becomes, Reporting
    <2>3. Reporting' \subseteq Reporting \ {r}
      BY <2>1, <2>2 DEF Reporting
    <2> QED
      BY <1>3, <2>2, <2>3 DEF RowsMove
  <1> QED
    BY <1>1, <1>2, <1>3 DEF RequestRuns

\* Of the world, only a finished call logs one, and leaves a request to report it.
LEMMA WorldRows ==
  ASSUME TypeInv, World
  PROVE  RowsMove
  <1>1. CASE \/ \E m \in Messages : ReceiveSms(m)
             \/ \E due \in MeetingEnds : ScheduleMeeting(due)
             \/ \E status \in ContactStatus : UpdateContact(status)
    <2>1. \A kind : NewRequest(kind).pc \notin {"emit", "backfill"}
      BY DEF NewRequest
    <2>2. /\ \A q \in requests' : q \in requests \/ \E kind : q = NewRequest(kind)
          /\ interactions' = interactions
      BY <1>1 DEF ReceiveSms, ScheduleMeeting, UpdateContact
    <2>3. Reporting' \subseteq Reporting
      BY <2>1, <2>2 DEF Reporting
    <2> QED
      BY <2>2, <2>3 DEF RowsMove
  <1>2. ASSUME NEW outcome \in VoiceOutcomes, FinalizeVoiceSession(outcome)
        PROVE  RowsMove
    <2> DEFINE q == [kind |-> "call", signal |-> 0, pc |-> "emit",
                     interaction |-> NextNth(interactions, 0), outcome |-> outcome]
    <2>1. q.interaction = NextNth(interactions, 0)
      OBVIOUS
    <2>2. requests' = requests \cup {q} /\ LogInteraction(0, 0)
      BY <1>2 DEF FinalizeVoiceSession
    <2> HIDE DEF q
    <2>3. Reporting' \subseteq Reporting \cup {q}
      BY <2>2 DEF Reporting
    <2> QED
      BY <2>1, <2>2, <2>3 DEF RowsMove
  <1> QED
    BY <1>1, <1>2 DEF World

\* That is all.
LEMMA RowsStep ==
  ASSUME TypeInv, [Next]_vars
  PROVE  RowsMove
  <1>1. CASE Loop \/ UNCHANGED vars \/ Tick
    <2>1. interactions' = interactions /\ requests' = requests
      BY <1>1 DEF Loop, LoopNext, LoopRegister, LoopPop, LoopReadContact, LoopReadState,
         LoopReadConsent, LoopDecide, LoopPatch, LoopMark, LoopActivityFails, LoopCancel,
         LoopInsert, LoopSpawn, tables, vars, Tick
    <2> QED
      BY <2>1 DEF RowsMove, Reporting
  <1>2. ASSUME NEW t \in DOMAIN exec, ExecutionRuns(t) \/ ExecutionFails(t)
        PROVE  RowsMove
    <2>1. PICK e : Reports(t, e)
      BY <1>2, ExecReports
    <2>2. ExecLog(t) => LogInteraction(t, 0)
      BY DEF ExecLog
    <2>3. requests' = requests
      BY <2>1 DEF Reports
    <2> QED
      BY <2>1, <2>2, <2>3 DEF Reports, RowsMove, Reporting
  <1> QED
    BY <1>1, <1>2, RequestRows, WorldRows DEF Next

\* No task loses a row.
RowsGrow ==
  \A t : /\ Cardinality(Of(interactions', t)) >= Cardinality(Of(interactions, t))
         /\ Cardinality(Of(interactions', t)) \in Nat

\* A log gives its row the next number.
LEMMA LoggedNumber ==
  ASSUME TypeInv, NumberedInv, TasksKept, NEW t \in DOMAIN tasks \cup {0}, LogInteraction(t, 0)
  PROVE  NumberedInv' /\ RowsGrow
  <1>1. PICK row : row = [task |-> t, nth |-> NextNth(interactions, t), result |-> 0]
    OBVIOUS
  <1>2. /\ row \notin interactions /\ interactions' = interactions \cup {row}
        /\ Cardinality(Of(interactions', t)) = Cardinality(Of(interactions, t)) + 1
        /\ \A u : u # t => Of(interactions', u) = Of(interactions, u)
        /\ row.nth = Cardinality(Of(interactions, t)) + 1 /\ row.task = t
    BY <1>1, LoggedRow
  <1>3. \A u : Cardinality(Of(interactions, u)) \in Nat
    BY FiniteRows
  <1>4. RowsGrow
    BY <1>2, <1>3 DEF RowsGrow
  <1>5. ASSUME NEW a \in interactions'
        PROVE  /\ a.task \in DOMAIN tasks' \cup {0}
               /\ a.nth \in 1 .. Cardinality(Of(interactions', a.task))
    <2>1. CASE a = row
      BY <1>2, <1>3, <2>1 DEF TasksKept
    <2>2. CASE a \in interactions
      <3>1. /\ a.task \in DOMAIN tasks \cup {0}
            /\ a.nth \in 1 .. Cardinality(Of(interactions, a.task))
        BY <2>2 DEF NumberedInv
      <3> QED
        BY <1>3, <1>4, <3>1 DEF RowsGrow, TasksKept
    <2> QED
      BY <1>2, <2>1, <2>2
  <1>6. \A a, b \in interactions' : a.task = b.task /\ a.nth = b.nth => a = b
    BY <1>2, <1>3 DEF NumberedInv
  <1> QED
    BY <1>4, <1>5, <1>6 DEF NumberedInv

\* A backfill changes no number.
LEMMA BackfilledNumber ==
  ASSUME TypeInv, NumberedInv, TasksKept, NEW t \in DOMAIN tasks \cup {0}, NEW s,
         NEW n \in 1 .. Cardinality(Of(interactions, t)), BackfillResult(t, n, s)
  PROVE  NumberedInv' /\ RowsGrow
  <1>1. PICK new : new = [task |-> t, nth |-> n, result |-> s]
    OBVIOUS
  <1>2. /\ \A u : u # t => Of(interactions', u) = Of(interactions, u)
        /\ Cardinality(Of(interactions', t)) >= Cardinality(Of(interactions, t))
        /\ Cardinality(Of(interactions', t)) \in Nat
        /\ \A row \in interactions' :
             \/ row \in interactions /\ (row.task # t \/ row.nth # n)
             \/ row = new
        /\ new.task = t /\ new.nth = n
    BY <1>1, BackfilledRow
  <1>3. \A u : Cardinality(Of(interactions, u)) \in Nat
    BY FiniteRows
  <1>4. RowsGrow
    BY <1>2, <1>3 DEF RowsGrow
  <1>5. \A a \in interactions' : /\ a.task \in DOMAIN tasks' \cup {0}
                                 /\ a.nth \in 1 .. Cardinality(Of(interactions', a.task))
    BY <1>2, <1>3, <1>4 DEF NumberedInv, RowsGrow, TasksKept
  <1>6. \A a, b \in interactions' : a.task = b.task /\ a.nth = b.nth => a = b
    BY <1>2 DEF NumberedInv
  <1> QED
    BY <1>4, <1>5, <1>6 DEF NumberedInv

\* So the numbers stay, and no task loses a row.
LEMMA NumberedStep ==
  ASSUME TypeInv, NumberedInv, ReportsInv, [Next]_vars
  PROVE  NumberedInv' /\ RowsGrow
  <1>a. TasksKept /\ DOMAIN exec \subseteq DOMAIN tasks
    BY StepKeepsTasks DEF TypeInv, ExecInv
  <1>1. CASE interactions' = interactions
    <2>1. RowsGrow
      BY <1>1, FiniteRows DEF RowsGrow
    <2> QED
      BY <1>1, <1>a, <2>1 DEF NumberedInv, TasksKept
  <1>2. CASE \E t \in DOMAIN exec \cup {0} : LogInteraction(t, 0)
    BY <1>2, <1>a, LoggedNumber
  <1>3. CASE \E r \in Reporting : BackfillCallResult(r)
    BY <1>3, <1>a, BackfilledNumber DEF ReportsInv, BackfillCallResult
  <1>4. ASSUME NEW t \in DOMAIN exec, ExecBackfill(t)
        PROVE  NumberedInv' /\ RowsGrow
    <2>1. PICK n, s : n = exec[t].interaction /\ s = exec[t].signal
      OBVIOUS
    <2>2. n \in 1 .. Cardinality(Of(interactions, t)) /\ BackfillResult(t, n, s)
      BY <1>4, <2>1 DEF ExecBackfill, ExecAt, ReportsInv, Emission
    <2> QED
      BY <1>a, <2>2, BackfilledNumber
  <1> QED
    BY <1>1, <1>2, <1>3, <1>4, RowsStep DEF RowsMove

\* The executions that report.
LEMMA ExecutionsReport ==
  ASSUME TypeInv, NumberedInv, ReportsInv, [Next]_vars,
         NEW t \in DOMAIN exec', exec'[t].pc \in Emission
  PROVE  exec'[t].interaction \in 1 .. Cardinality(Of(interactions', t))
  <1>a. RowsGrow
    BY NumberedStep
  <1>b. \A u : Cardinality(Of(interactions, u)) \in Nat
    BY FiniteRows
  <1>1. CASE t \in DOMAIN exec /\ exec[t].pc \in Emission
               /\ exec'[t].interaction = exec[t].interaction
    BY <1>1, <1>a, <1>b DEF ReportsInv, RowsGrow
  <1>2. ASSUME NEW u \in DOMAIN exec, NEW e, Reports(u, e)
        PROVE  exec'[t].interaction \in 1 .. Cardinality(Of(interactions', t))
    <2>1. exec' = [exec EXCEPT ![u] = e]
      BY <1>2 DEF Reports
    <2>2. CASE t # u
      BY <1>1, <2>1, <2>2
    <2>3. CASE t = u /\ ExecLog(t) /\ e.interaction = NextNth(interactions, t)
      <3>1. PICK row : row = [task |-> t, nth |-> NextNth(interactions, t), result |-> 0]
        OBVIOUS
      <3>2. Cardinality(Of(interactions', t)) = Cardinality(Of(interactions, t)) + 1
        BY <2>3, <3>1, LoggedRow DEF ExecLog
      <3>3. exec'[t].interaction = Cardinality(Of(interactions, t)) + 1
        BY <2>1, <2>3 DEF NextNth
      <3> QED
        BY <1>b, <3>2, <3>3
    <2>4. CASE t = u /\ SameReport(t, e) /\ exec[t].pc \in Emission
      BY <1>1, <2>1, <2>4 DEF SameReport
    <2>5. e = exec'[t] \/ t # u
      BY <2>1
    <2>6. ExecEmit(u) \/ ExecBackfill(u) => exec[u].pc \in Emission
      BY DEF ExecEmit, ExecBackfill, ExecAt, Emission
    <2> QED
      BY <1>2, <2>2, <2>3, <2>4, <2>5, <2>6 DEF Reports
  <1>3. CASE ~\E u \in DOMAIN exec : ExecutionRuns(u) \/ ExecutionFails(u)
    <2>1. Spawns
      BY <1>3, OtherSteps DEF OtherEffect, Next
    <2> QED
      BY <1>1, <2>1 DEF Spawns, Emission
  <1> QED
    BY <1>2, <1>3, ExecReports

\* The requests that do.
LEMMA RequestsReport ==
  ASSUME TypeInv, NumberedInv, ReportsInv, [Next]_vars, NEW r \in Reporting'
  PROVE  /\ r.interaction \in 1 .. Cardinality(Of(interactions', 0))
         /\ \A row \in interactions' : row.task = 0 /\ row.nth = r.interaction => row.result = 0
         /\ \A q \in Reporting' : q.interaction = r.interaction => q = r
  <1> DEFINE Known == /\ r.interaction \in 1 .. Cardinality(Of(interactions', 0))
                      /\ \A row \in interactions' :
                           row.task = 0 /\ row.nth = r.interaction => row.result = 0
                      /\ \A q \in Reporting' : q.interaction = r.interaction => q = r
             Last == Cardinality(Of(interactions, 0))
  <1>a. /\ Last \in Nat /\ Cardinality(Of(interactions', 0)) \in Nat
        /\ Cardinality(Of(interactions', 0)) >= Last
    BY FiniteRows, NumberedStep DEF RowsGrow
  <1> HIDE DEF Last
  <1>b. \A q \in Reporting : q.interaction \in 1 .. Last
    BY DEF ReportsInv, Last
  <1>1. ASSUME interactions' = interactions, Reporting' \subseteq Reporting
        PROVE  Known
    BY <1>1 DEF ReportsInv
  <1>2. ASSUME NEW t \in DOMAIN exec \cup {0}, LogInteraction(t, 0)
        PROVE  /\ \A row \in interactions' : row \in interactions \/ row.result = 0
               /\ t = 0 => Cardinality(Of(interactions', 0)) = Last + 1
               /\ NextNth(interactions, 0) = Last + 1
    <2>1. PICK row : row = [task |-> t, nth |-> NextNth(interactions, t), result |-> 0]
      OBVIOUS
    <2>2. interactions' = interactions \cup {row} /\ row.result = 0
      BY <1>2, <2>1, LoggedRow
    <2>3. Cardinality(Of(interactions', t)) = Cardinality(Of(interactions, t)) + 1
      BY <1>2, <2>1, LoggedRow
    <2> QED
      BY <2>2, <2>3 DEF Last, NextNth
  <1>3. ASSUME NEW t \in DOMAIN exec \cup {0}, LogInteraction(t, 0), Reporting' \subseteq Reporting
        PROVE  Known
    BY <1>2, <1>3, <1>a, <1>b DEF ReportsInv
  <1>4. ASSUME NEW q, LogInteraction(0, 0), q.interaction = NextNth(interactions, 0),
               Reporting' \subseteq Reporting \cup {q}
        PROVE  Known
    <2>1. /\ \A row \in interactions' : row \in interactions \/ row.result = 0
          /\ Cardinality(Of(interactions', 0)) = Last + 1
          /\ q.interaction = Last + 1
      BY <1>2, <1>4
    <2>2. \A row \in interactions : row.task = 0 => row.nth \in 1 .. Last
      BY DEF NumberedInv, Last
    <2>3. CASE r = q
      BY <1>4, <1>a, <1>b, <2>1, <2>2, <2>3
    <2>4. CASE r \in Reporting
      BY <1>4, <1>a, <1>b, <2>1, <2>4 DEF ReportsInv
    <2> QED
      BY <1>4, <2>3, <2>4
  <1>5. ASSUME NEW p \in Reporting, NEW q, interactions' = interactions,
               q.interaction = p.interaction, Reporting' \subseteq (Reporting \ {p}) \cup {q}
        PROVE  Known
    BY <1>5 DEF ReportsInv
  <1>6. ASSUME NEW p \in Reporting, BackfillCallResult(p),
               Reporting' \subseteq Reporting \ {p}
        PROVE  Known
    <2>1. \A row \in interactions' :
            row \in interactions \/ (row.task = 0 /\ row.nth = p.interaction)
      BY <1>6 DEF BackfillCallResult, BackfillResult
    <2>2. r.interaction # p.interaction
      BY <1>6 DEF ReportsInv
    <2> QED
      BY <1>6, <1>a, <1>b, <2>1, <2>2 DEF ReportsInv
  <1>7. ASSUME NEW t \in DOMAIN exec, ExecBackfill(t), Reporting' \subseteq Reporting
        PROVE  Known
    <2>1. t # 0
      BY LenProperties DEF TypeInv, ExecInv, StoreInv, StoreTypeOK
    <2>2. \A row \in interactions' : row \in interactions \/ row.task = t
      BY <1>7 DEF ExecBackfill, BackfillResult
    <2> QED
      BY <1>7, <1>a, <1>b, <2>1, <2>2 DEF ReportsInv
  <1> QED
    BY <1>1, <1>3, <1>4, <1>5, <1>6, <1>7, RowsStep DEF RowsMove

\* Whoever reports knows what it reports.
LEMMA ReportsStep ==
  ASSUME TypeInv, NumberedInv, ReportsInv, [Next]_vars
  PROVE  NumberedInv' /\ ReportsInv'
  BY NumberedStep, ExecutionsReport, RequestsReport DEF ReportsInv

-----------------------------------------------------------------------------
(* Who has a share in the nudges: a result shown, an execution about to    *)
(* insert one, and on the other side interactions and faults.              *)

\* A task that is there stays a follow-up, or none.
LEMMA FollowUpKept ==
  ASSUME TasksKept, NEW t \in DOMAIN tasks
  PROVE  t \in DOMAIN tasks' /\ (IsFollowUp(t)' <=> IsFollowUp(t))
  BY DEF TasksKept, IsFollowUp

\* The signal a call's report holds at its backfill is the id of a row.
LEMMA HeldSignal ==
  ASSUME TypeInv, NEW r \in requests, r.pc = "backfill"
  PROVE  r.signal \in DOMAIN signals /\ r.signal # 0
  BY LenProperties DEF TypeInv, ApiInv, StoreInv, StoreTypeOK

\* A backfill takes no interaction away from those that may have a nudge.
LEMMA BackfilledNudgeable ==
  ASSUME TypeInv, NumberedInv, TasksKept, NEW t \in DOMAIN tasks \cup {0}, NEW n, NEW s,
         s # 0, BackfillResult(t, n, s)
  PROVE  /\ Cardinality(NudgeableInteractions') >= Cardinality(NudgeableInteractions)
         /\ t = 0 /\ (\A row \in interactions : row.task = 0 /\ row.nth = n => row.result = 0) =>
              Cardinality(NudgeableInteractions') >= Cardinality(NudgeableInteractions) + 1
  <1> DEFINE R == {row \in NudgeableInteractions : row.task = t /\ row.nth = n}
  <1>1. PICK new : new = [task |-> t, nth |-> n, result |-> s]
    OBVIOUS
  <1>2. /\ interactions' = {row \in interactions : row.task # t \/ row.nth # n} \cup {new}
        /\ new.task = t /\ new.nth = n /\ new.result = s
    BY <1>1 DEF BackfillResult
  <1>3. \A u \in DOMAIN tasks : IsFollowUp(u)' <=> IsFollowUp(u)
    BY FollowUpKept
  <1>4. \A row \in interactions : row.task \in DOMAIN tasks \cup {0}
    BY DEF NumberedInv
  <1>5. IsFiniteSet(NudgeableInteractions) /\ Cardinality(NudgeableInteractions) \in Nat
    BY FiniteShares
  <1>6. CASE t # 0 /\ IsFollowUp(t)
    <2>1. NudgeableInteractions' = NudgeableInteractions
      BY <1>2, <1>3, <1>4, <1>6 DEF NudgeableInteractions
    <2> QED
      BY <1>5, <1>6, <2>1
  <1>7. CASE t = 0 \/ ~IsFollowUp(t)
    <2>1. /\ NudgeableInteractions' = (NudgeableInteractions \ R) \cup {new}
          /\ R \subseteq NudgeableInteractions /\ new \notin NudgeableInteractions \ R
      BY <1>2, <1>3, <1>4, <1>7 DEF NudgeableInteractions
    <2>2. \A a, b \in R : a = b
      BY DEF NumberedInv, NudgeableInteractions
    <2>3. t = 0 /\ (\A row \in interactions : row.task = 0 /\ row.nth = n => row.result = 0)
            => R = {}
      BY DEF NudgeableInteractions
    <2> HIDE DEF R
    <2>4. Cardinality(NudgeableInteractions') >= Cardinality(NudgeableInteractions)
      BY <1>5, <2>1, <2>2, Replaced
    <2>5. R = {} =>
            Cardinality(NudgeableInteractions') >= Cardinality(NudgeableInteractions) + 1
      <3>1. SUFFICES ASSUME R = {}
                     PROVE  Cardinality(NudgeableInteractions') =
                              Cardinality(NudgeableInteractions) + 1
        BY <1>5
      <3>2. /\ NudgeableInteractions' = NudgeableInteractions \cup {new}
            /\ new \notin NudgeableInteractions
        BY <2>1, <3>1
      <3> QED
        BY <1>5, <3>2, FS_AddElement
    <2> QED
      BY <2>3, <2>4, <2>5
  <1> QED
    BY <1>6, <1>7

\* Neither does a log; one of a message that was no follow-up adds one.
LEMMA LoggedNudgeable ==
  ASSUME TypeInv, NumberedInv, TasksKept, NEW t \in DOMAIN tasks \cup {0}, LogInteraction(t, 0)
  PROVE  /\ Cardinality(NudgeableInteractions') >= Cardinality(NudgeableInteractions)
         /\ t # 0 /\ ~IsFollowUp(t) =>
              Cardinality(NudgeableInteractions') = Cardinality(NudgeableInteractions) + 1
  <1>1. PICK row : row = [task |-> t, nth |-> NextNth(interactions, t), result |-> 0]
    OBVIOUS
  <1>2. /\ row \notin interactions /\ interactions' = interactions \cup {row}
        /\ row.task = t /\ row.result = 0
    BY <1>1, LoggedRow
  <1>3. \A u \in DOMAIN tasks : IsFollowUp(u)' <=> IsFollowUp(u)
    BY FollowUpKept
  <1>4. \A a \in interactions : a.task \in DOMAIN tasks \cup {0}
    BY DEF NumberedInv
  <1>5. IsFiniteSet(NudgeableInteractions) /\ Cardinality(NudgeableInteractions) \in Nat
    BY FiniteShares
  <1>6. CASE t = 0 \/ IsFollowUp(t)
    <2>1. NudgeableInteractions' = NudgeableInteractions
      BY <1>2, <1>3, <1>4, <1>6 DEF NudgeableInteractions
    <2> QED
      BY <1>5, <1>6, <2>1
  <1>7. CASE t # 0 /\ ~IsFollowUp(t)
    <2>1. /\ NudgeableInteractions' = NudgeableInteractions \cup {row}
          /\ row \notin NudgeableInteractions
      BY <1>2, <1>3, <1>4, <1>7 DEF NudgeableInteractions
    <2> QED
      BY <1>5, <2>1, FS_AddElement
  <1> QED
    BY <1>6, <1>7

\* No step does.
LEMMA NudgeableGrow ==
  ASSUME TypeInv, NumberedInv, TrailInv, TasksKept, [Next]_vars
  PROVE  Cardinality(NudgeableInteractions') >= Cardinality(NudgeableInteractions)
  <1>a. Cardinality(NudgeableInteractions) \in Nat
    BY FiniteShares
  <1>1. CASE interactions' = interactions
    <2>1. NudgeableInteractions' = NudgeableInteractions
      BY <1>1, FollowUpKept DEF NudgeableInteractions, NumberedInv
    <2> QED
      BY <1>a, <2>1
  <1>2. CASE \E t \in DOMAIN exec \cup {0} : LogInteraction(t, 0)
    BY <1>2, LoggedNudgeable DEF TypeInv, ExecInv
  <1>3. ASSUME NEW r \in Reporting, BackfillCallResult(r)
        PROVE  Cardinality(NudgeableInteractions') >= Cardinality(NudgeableInteractions)
    <2>1. r.signal # 0
      BY <1>3, HeldSignal DEF Reporting, BackfillCallResult
    <2> QED
      BY <1>3, <2>1, BackfilledNudgeable DEF BackfillCallResult
  <1>4. ASSUME NEW t \in DOMAIN exec, ExecBackfill(t)
        PROVE  Cardinality(NudgeableInteractions') >= Cardinality(NudgeableInteractions)
    <2>1. PICK n, s : n = exec[t].interaction /\ s = exec[t].signal
      OBVIOUS
    <2>2. t \in DOMAIN tasks /\ s # 0 /\ BackfillResult(t, n, s)
      BY <1>4, <2>1, BackfilledSignal DEF ExecBackfill, ExecAt
    <2> QED
      BY <2>2, BackfilledNudgeable
  <1> QED
    BY <1>1, <1>2, <1>3, <1>4, RowsStep DEF RowsMove

\* The balance, when each share grows by as much as is said.
LEMMA Balanced ==
  ASSUME TypeInv, TypeInv', ShareInv, NEW shown \in Int, NEW emitting \in Int,
         NEW nudgeable \in Int, NEW faults \in Int,
         Cardinality(Shown') <= Cardinality(Shown) + shown,
         Cardinality(Emitting') <= Cardinality(Emitting) + emitting,
         Cardinality(NudgeableInteractions') >= Cardinality(NudgeableInteractions) + nudgeable,
         Faults' >= Faults + faults, shown + emitting <= nudgeable + faults
  PROVE  ShareInv'
  <1>1. /\ Cardinality(Shown) \in Nat /\ Cardinality(Emitting) \in Nat
        /\ Cardinality(NudgeableInteractions) \in Nat /\ Faults \in Int
    BY FiniteShares
  <1>2. (/\ Cardinality(Shown) \in Nat /\ Cardinality(Emitting) \in Nat
         /\ Cardinality(NudgeableInteractions) \in Nat /\ Faults \in Int)'
    BY TypeInv', FiniteShares, PTL
  <1> QED
    BY <1>1, <1>2 DEF ShareInv

\* What bounds a set bounds its size.
LEMMA NoMore ==
  ASSUME NEW S, IsFiniteSet(S), NEW T, T \subseteq S
  PROVE  Cardinality(T) <= Cardinality(S) + 0 /\ Cardinality(T) \in Nat
  <1>1. IsFiniteSet(T) /\ Cardinality(T) <= Cardinality(S)
    BY FS_Subset
  <1> QED
    BY <1>1, FS_CardinalityType

\* Signals that stay what they are, and the requests that hold them, show what they showed.
LEMMA ShownKept ==
  ASSUME TypeInv, SignalsKept, DOMAIN signals' \subseteq DOMAIN signals,
         Unlinked \subseteq Unlinked'
  PROVE  Shown' \subseteq Shown
  BY DEF Shown, MayNudge, SignalsKept

\* A signal that is inserted may be shown, if it is a result.
LEMMA ShownInserted ==
  ASSUME TypeInv, SignalsKept, NEW row, InsertSignal(row), Unlinked \subseteq Unlinked'
  PROVE  /\ Shown' \subseteq Shown \cup {Len(signals) + 1}
         /\ \/ row.type # "interaction_result" \/ row.goal = FOLLOW_UP_GOAL
            \/ Len(signals) + 1 \in Unlinked'
            => Shown' \subseteq Shown
  <1>1. /\ \A s \in DOMAIN signals' : s \in DOMAIN signals \/ s = Len(signals) + 1
        /\ signals'[Len(signals) + 1] = row
    BY AppendedRow DEF InsertSignal, TypeInv, StoreInv, StoreTypeOK
  <1>2. \A s \in DOMAIN signals : MayNudge(s)' => MayNudge(s)
    BY DEF MayNudge, SignalsKept
  <1> QED
    BY <1>1, <1>2 DEF Shown, MayNudge

\* Executions that are not asked change nothing about their emission.
LEMMA EmittingKept ==
  ASSUME TypeInv, TasksKept, Spawns
  PROVE  Emitting' \subseteq Emitting
  <1>1. \A t \in DOMAIN exec : IsFollowUp(t)' <=> IsFollowUp(t)
    BY FollowUpKept DEF TypeInv, ExecInv
  <1> QED
    BY <1>1 DEF Emitting, Spawns

\* The others.
LEMMA EmittingMoves ==
  ASSUME TypeInv, TasksKept, NEW t \in DOMAIN exec, NEW e, exec' = [exec EXCEPT ![t] = e]
  PROVE  /\ Emitting' \subseteq Emitting \cup {t}
         /\ e.pc # "emit" \/ IsFollowUp(t) => Emitting' \subseteq Emitting \ {t}
  <1>1. \A u \in DOMAIN exec : IsFollowUp(u)' <=> IsFollowUp(u)
    BY FollowUpKept DEF TypeInv, ExecInv
  <1> QED
    BY <1>1 DEF Emitting

\* A step of an execution keeps the balance.
LEMMA ExecutionShares ==
  ASSUME TypeInv, TypeInv', NumberedInv, TrailInv, ShareInv, SignalsKept, TasksKept, [Next]_vars,
         NEW t \in DOMAIN exec, NEW e, Reports(t, e)
  PROVE  ShareInv'
  <1>a. /\ Cardinality(Shown) \in Nat /\ Cardinality(Emitting) \in Nat
        /\ Cardinality(NudgeableInteractions) \in Nat /\ Faults \in Int
        /\ IsFiniteSet(Shown) /\ IsFiniteSet(Emitting)
    BY FiniteShares
  <1>b. Cardinality(NudgeableInteractions') >= Cardinality(NudgeableInteractions) + 0
    BY <1>a, NudgeableGrow
  <1>c. Unlinked' = Unlinked /\ exec' = [exec EXCEPT ![t] = e]
    BY DEF Reports, Unlinked
  <1>d. Cardinality(Emitting') <= Cardinality(Emitting) + 1
    BY <1>a, <1>c, EmittingMoves, OneMore
  <1>e. e.pc # "emit" \/ IsFollowUp(t) => Cardinality(Emitting') <= Cardinality(Emitting) + 0
    <2>1. SUFFICES ASSUME e.pc # "emit" \/ IsFollowUp(t)
                   PROVE  Cardinality(Emitting') <= Cardinality(Emitting) + 0
      OBVIOUS
    <2>2. Emitting' \subseteq Emitting
      BY <1>c, <2>1, EmittingMoves
    <2> QED
      BY <1>a, <2>2, NoMore
  <1>f. signals' = signals => Cardinality(Shown') <= Cardinality(Shown) + 0
    <2>1. SUFFICES ASSUME signals' = signals
                   PROVE  Cardinality(Shown') <= Cardinality(Shown) + 0
      OBVIOUS
    <2>2. Shown' \subseteq Shown
      BY <1>c, <2>1, ShownKept
    <2> QED
      BY <1>a, <2>2, NoMore
  <1>1. CASE signals' = signals /\ e.pc # "emit" /\ Faults' \in {Faults, Faults + 1}
    BY <1>1, <1>a, <1>b, <1>e, <1>f, Balanced
  <1>2. CASE signals' = signals /\ Faults' = Faults + 1
    BY <1>2, <1>a, <1>b, <1>d, <1>f, Balanced
  <1>3. CASE ExecLog(t) /\ signals' = signals /\ Faults' = Faults
    <2>1. t \in DOMAIN tasks /\ t # 0
      BY LenProperties DEF TypeInv, ExecInv, StoreInv, StoreTypeOK
    <2>2. CASE IsFollowUp(t)
      BY <1>3, <1>a, <1>b, <1>e, <1>f, <2>2, Balanced
    <2>3. CASE ~IsFollowUp(t)
      <3>1. Cardinality(NudgeableInteractions') >= Cardinality(NudgeableInteractions) + 1
        BY <1>3, <1>a, <2>1, <2>3, LoggedNudgeable DEF ExecLog
      <3> QED
        BY <1>3, <1>a, <1>d, <1>f, <3>1, Balanced
    <2> QED
      BY <2>2, <2>3
  <1>4. CASE ExecEmit(t) /\ e.pc = "backfill" /\ Faults' = Faults
    <2>1. PICK row : /\ row = InteractionResult(TaskChannel(t), exec[t].outcome, tasks[t].goal)
                     /\ InsertSignal(row)
      BY <1>4 DEF ExecEmit
    <2>2. row.goal = tasks[t].goal
      BY <2>1 DEF InteractionResult
    <2>3. CASE IsFollowUp(t)
      <3>1. Shown' \subseteq Shown
        BY <1>c, <2>1, <2>2, <2>3, ShownInserted DEF IsFollowUp
      <3>2. Cardinality(Shown') <= Cardinality(Shown) + 0
        BY <1>a, <3>1, NoMore
      <3> QED
        BY <1>4, <1>a, <1>b, <1>e, <2>3, <3>2, Balanced
    <2>4. CASE ~IsFollowUp(t)
      <3>1. Cardinality(Shown') <= Cardinality(Shown) + 1
        BY <1>a, <1>c, <2>1, ShownInserted, OneMore
      <3>2. t \in Emitting
        BY <1>4, <2>4 DEF Emitting, ExecEmit, ExecAt
      <3>3. Emitting' \subseteq Emitting \ {t}
        BY <1>4, <1>c, EmittingMoves
      <3>4. /\ IsFiniteSet(Emitting \ {t})
            /\ Cardinality(Emitting \ {t}) = Cardinality(Emitting) - 1
        BY <1>a, <3>2, FS_RemoveElement
      <3>5. Cardinality(Emitting') <= Cardinality(Emitting) + (-1)
        BY <1>a, <3>3, <3>4, NoMore
      <3> QED
        BY <1>4, <1>a, <1>b, <3>1, <3>5, Balanced
    <2> QED
      BY <2>3, <2>4
  <1> QED
    BY <1>1, <1>2, <1>3, <1>4 DEF Reports, Emission

\* So does a request's.
LEMMA RequestShares ==
  ASSUME TypeInv, TypeInv', NumberedInv, ReportsInv, TrailInv, ShareInv, SignalsKept, TasksKept,
         [Next]_vars, NEW r \in requests, RequestRuns(r) \/ RequestFails(r) \/ RequestDies(r)
  PROVE  ShareInv'
  <1>a. /\ Cardinality(Shown) \in Nat /\ Cardinality(Emitting) \in Nat
        /\ Cardinality(NudgeableInteractions) \in Nat /\ Faults \in Int
        /\ IsFiniteSet(Shown) /\ IsFiniteSet(Emitting)
    BY FiniteShares
  <1>b. Cardinality(NudgeableInteractions') >= Cardinality(NudgeableInteractions) + 0
    BY <1>a, NudgeableGrow
  <1>c. Cardinality(Emitting') <= Cardinality(Emitting) + 0
    <2>1. Spawns
      BY OtherSteps DEF OtherEffect
    <2>2. Emitting' \subseteq Emitting
      BY <2>1, EmittingKept
    <2> QED
      BY <1>a, <2>2, NoMore
  <1>d. r \in Request
    BY DEF TypeInv, ApiInv
  <1>1. CASE RecordSmsConsent(r) \/ ConfirmKeyword(r) \/ MarkDelivered(r) \/ Dispatch(r)
    <2>1. /\ r.pc # "backfill"
          /\ \A q \in requests : q = r \/ q \in requests'
      BY <1>1 DEF RecordSmsConsent, ConfirmKeyword, MarkDelivered, Dispatch, Becomes, Ends
    <2>2. Unlinked \subseteq Unlinked'
      BY <2>1 DEF Unlinked
    <2>3. DOMAIN signals' = DOMAIN signals /\ Faults' = Faults
      BY <1>1 DEF RecordSmsConsent, ConfirmKeyword, MarkDelivered, Dispatch, MarkSignalStatus,
         tables, Faults
    <2>4. Cardinality(Shown') <= Cardinality(Shown) + 0
      BY <1>a, <2>2, <2>3, ShownKept, NoMore
    <2> QED
      BY <1>a, <1>b, <1>c, <2>3, <2>4, Balanced
  <1>2. CASE EmitCallResult(r)
    <2> DEFINE q == [r EXCEPT !.pc = "backfill", !.signal = Len(signals) + 1]
    <2>1. q.pc = "backfill" /\ q.signal = Len(signals) + 1
      BY <1>d DEF Request
    <2>2. requests' = (requests \ {r}) \cup {q} /\ r.pc = "emit"
      BY <1>2 DEF EmitCallResult
    <2> HIDE DEF q
    <2>3. Unlinked \subseteq Unlinked' /\ Len(signals) + 1 \in Unlinked'
      BY <2>1, <2>2 DEF Unlinked
    <2>4. Shown' \subseteq Shown
      BY <1>2, <2>3, ShownInserted DEF EmitCallResult
    <2>5. Cardinality(Shown') <= Cardinality(Shown) + 0 /\ Faults' = Faults
      BY <1>2, <1>a, <2>4, NoMore DEF EmitCallResult, Faults
    <2> QED
      BY <1>a, <1>b, <1>c, <2>5, Balanced
  <1>3. CASE BackfillCallResult(r) \/ RequestFails(r) \/ RequestDies(r)
    <2>1. \A q \in requests : q = r \/ q \in requests'
      BY <1>3 DEF BackfillCallResult, RequestFails, RequestDies, Becomes, Ends
    <2>2. Unlinked \subseteq Unlinked' \cup {r.signal}
      BY <2>1 DEF Unlinked
    <2>3. DOMAIN signals' = DOMAIN signals
      BY <1>3 DEF BackfillCallResult, RequestFails, RequestDies, MarkSignalStatus, tables
    <2>4. Shown' \subseteq Shown \cup {r.signal}
      BY <2>2, <2>3 DEF Shown, MayNudge, SignalsKept
    <2>5. Cardinality(Shown') <= Cardinality(Shown) + 1
      BY <1>a, <2>4, OneMore
    <2>6. CASE BackfillCallResult(r)
      <3>1. r.signal # 0 /\ Faults' = Faults
        BY <2>6, HeldSignal DEF BackfillCallResult, Faults
      <3>2. \A row \in interactions : row.task = 0 /\ row.nth = r.interaction => row.result = 0
        BY <2>6 DEF ReportsInv, Reporting, BackfillCallResult
      <3>3. Cardinality(NudgeableInteractions') >= Cardinality(NudgeableInteractions) + 1
        BY <2>6, <3>1, <3>2, BackfilledNudgeable DEF BackfillCallResult
      <3> QED
        BY <1>a, <1>c, <2>5, <3>1, <3>3, Balanced
    <2>7. CASE RequestFails(r) \/ RequestDies(r)
      <3>1. Faults' = Faults + 1
        BY <2>7, FailureCounts DEF RequestFails, RequestDies
      <3> QED
        BY <1>a, <1>b, <1>c, <2>5, <3>1, Balanced
    <2> QED
      BY <1>3, <2>6, <2>7
  <1> QED
    BY <1>1, <1>2, <1>3 DEF RequestRuns

\* The world, the clock and the loop spend a fault at a time too.
LEMMA OtherFaults ==
  ASSUME TypeInv, UNCHANGED vars \/ Tick \/ Loop \/ World
  PROVE  Faults' \in {Faults, Faults + 1}
  <1>1. CASE UNCHANGED budget
    BY <1>1 DEF Faults
  <1>2. CASE Spend("fault")
    BY <1>2, FailureCounts
  <1>3. CASE \E kind \in BudgetKind \ {"fault"} : Spend(kind)
    BY <1>3 DEF Spend, Faults, TypeInv, StoreInv, StoreTypeOK, BudgetKind
  <1> QED
    BY <1>1, <1>2, <1>3 DEF vars, Tick, Loop, World, ReceiveSms, FinalizeVoiceSession,
       ScheduleMeeting, UpdateContact, LoopNext, LoopRegister, LoopPop, LoopReadContact,
       LoopReadState, LoopReadConsent, LoopDecide, LoopPatch, LoopMark, LoopActivityFails,
       LoopCancel, LoopInsert, LoopSpawn, LoopCompletes, LoopAttemptFails, BudgetKind

\* So do the world, the clock and the loop.
LEMMA OtherShares ==
  ASSUME TypeInv, TypeInv', NumberedInv, TrailInv, ShareInv, SignalsKept, TasksKept,
         [Next]_vars, UNCHANGED vars \/ Tick \/ Loop \/ World
  PROVE  ShareInv'
  <1>a. /\ Cardinality(Shown) \in Nat /\ Cardinality(Emitting) \in Nat
        /\ Cardinality(NudgeableInteractions) \in Nat /\ Faults \in Int
        /\ IsFiniteSet(Shown) /\ IsFiniteSet(Emitting)
    BY FiniteShares
  <1>b. Cardinality(NudgeableInteractions') >= Cardinality(NudgeableInteractions) + 0
    BY <1>a, NudgeableGrow
  <1>c. Cardinality(Emitting') <= Cardinality(Emitting) + 0
    <2>1. Spawns
      BY OtherSteps DEF OtherEffect
    <2>2. Emitting' \subseteq Emitting
      BY <2>1, EmittingKept
    <2> QED
      BY <1>a, <2>2, NoMore
  <1>d. Unlinked \subseteq Unlinked'
    <2>1. requests \subseteq requests'
      BY DEF vars, Tick, Loop, World, ReceiveSms, FinalizeVoiceSession, ScheduleMeeting,
         UpdateContact
    <2> QED
      BY <2>1 DEF Unlinked
  <1>e. Faults' \in {Faults, Faults + 1}
    BY OtherFaults
  <1>1. Shown' \subseteq Shown
    <2>1. CASE DOMAIN signals' = DOMAIN signals
      BY <1>d, <2>1, ShownKept
    <2>2. CASE \E row : InsertSignal(row) /\ row.type # "interaction_result"
      BY <1>d, <2>2, ShownInserted
    <2>3. \A m : InboundSms(m).type # "interaction_result"
      BY DEF InboundSms
    <2>4. CASE UNCHANGED vars \/ Tick \/ Loop
      <3>1. signals' = signals \/ \E s, status : MarkSignalStatus(s, status)
        BY <2>4 DEF vars, Tick, Loop, LoopNext, LoopRegister, LoopPop, LoopReadContact,
           LoopReadState, LoopReadConsent, LoopDecide, LoopPatch, LoopMark, LoopActivityFails,
           LoopCancel, LoopInsert, LoopSpawn, tables
      <3>2. DOMAIN signals' = DOMAIN signals
        BY <3>1 DEF MarkSignalStatus
      <3> QED
        BY <2>1, <3>2
    <2>5. CASE World
      <3>1. ASSUME NEW due \in MeetingEnds, ScheduleMeeting(due)
            PROVE  \E row : InsertSignal(row) /\ row.type # "interaction_result"
        BY <3>1 DEF ScheduleMeeting
      <3>2. ASSUME NEW m \in Messages, ReceiveSms(m)
            PROVE  \/ signals' = signals
                   \/ \E row : InsertSignal(row) /\ row.type # "interaction_result"
        BY <3>2, <2>3 DEF ReceiveSms
      <3>3. \A outcome, status :
              FinalizeVoiceSession(outcome) \/ UpdateContact(status) => signals' = signals
        BY DEF FinalizeVoiceSession, UpdateContact
      <3> QED
        BY <2>1, <2>2, <2>5, <3>1, <3>2, <3>3 DEF World
    <2> QED
      BY <2>4, <2>5
  <1>2. Cardinality(Shown') <= Cardinality(Shown) + 0
    BY <1>a, <1>1, NoMore
  <1> QED
    BY <1>a, <1>b, <1>c, <1>e, <1>2, Balanced

\* At first there are none of them.
LEMMA ShareInit == Init => NumberedInv /\ ReportsInv /\ ShareInv
  <1> SUFFICES ASSUME Init PROVE NumberedInv /\ ReportsInv /\ ShareInv
    OBVIOUS
  <1>1. /\ requests = {} /\ interactions = {} /\ DOMAIN exec = {} /\ DOMAIN signals = {}
        /\ budget = Budget
    BY EmptySeq DEF Init, StoreInit, LoopInit
  <1>2. Faults = 0
    BY <1>1, StoreAssumption DEF Faults, BudgetKind
  <1>3. Shown = {} /\ Emitting = {} /\ NudgeableInteractions = {} /\ Reporting = {}
    BY <1>1 DEF Shown, MayNudge, Emitting, NudgeableInteractions, Reporting
  <1>4. Cardinality({}) = 0
    BY FS_EmptySet
  <1>5. ShareInv
    BY <1>2, <1>3, <1>4 DEF ShareInv
  <1> QED
    BY <1>1, <1>3, <1>5 DEF NumberedInv, ReportsInv

\* Every step keeps the balance.
LEMMA ShareStep ==
  TypeInv /\ TypeInv' /\ TrailInv /\ (NumberedInv /\ ReportsInv /\ ShareInv) /\ [Next]_vars
    => (NumberedInv /\ ReportsInv /\ ShareInv)'
  <1> SUFFICES ASSUME TypeInv, TypeInv', TrailInv, NumberedInv, ReportsInv, ShareInv, [Next]_vars
               PROVE  ShareInv'
    BY ReportsStep
  <1>a. SignalsKept /\ TasksKept
    BY StepKeepsSignals, StepKeepsTasks
  <1>1. ASSUME NEW t \in DOMAIN exec, ExecutionRuns(t) \/ ExecutionFails(t)
        PROVE  ShareInv'
    <2>1. PICK e : Reports(t, e)
      BY <1>1, ExecReports
    <2> QED
      BY <1>a, <2>1, ExecutionShares
  <1>2. ASSUME NEW r \in requests, RequestRuns(r) \/ RequestFails(r) \/ RequestDies(r)
        PROVE  ShareInv'
    BY <1>2, <1>a, RequestShares
  <1>3. CASE UNCHANGED vars \/ Tick \/ Loop \/ World
    BY <1>3, <1>a, OtherShares
  <1> QED
    BY <1>1, <1>2, <1>3 DEF Next

\* So it holds always.
LEMMA ShareInvariant == Spec => [](NumberedInv /\ ReportsInv /\ ShareInv)
  BY ShareInit, ShareStep, TypeInvariant, TrailInvariant, PTL DEF Spec

\* Each nudge was caused by a shown result, and no two by the same.
LEMMA NudgesHaveCauses ==
  ASSUME TypeInv, OnceInv, NudgesInv, OneTaskPerKey
  PROVE  Cardinality(FollowUps) <= Cardinality(Shown) /\ Cardinality(FollowUps) \in Nat
  <1> DEFINE f == [t \in FollowUps |-> CausedBy(t)]
  <1>1. ASSUME NEW t \in FollowUps
        PROVE  CausedBy(t) \in Shown
    <2>1. t \in DOMAIN tasks /\ MayNudge(CausedBy(t)) /\ CausedBy(t) \in DOMAIN signals
      BY DEF FollowUps, NudgesInv, MayNudge
    <2>2. ASSUME NEW r \in requests, r.pc = "backfill", r.signal = CausedBy(t)
          PROVE  FALSE
      <3>1. PICK a : a = <<"request", r, r.signal>>
        OBVIOUS
      <3>2. a \in Custody /\ a[3] = CausedBy(t)
        BY <2>2, <3>1 DEF Custody, RequestHolds
      <3> QED
        BY <2>1, <3>2 DEF OnceInv, TakenOff
    <2> QED
      BY <2>1, <2>2 DEF Shown, Unlinked
  <1>2. ASSUME NEW t \in FollowUps, NEW u \in FollowUps, CausedBy(t) = CausedBy(u)
        PROVE  t = u
    <2>1. /\ t \in DOMAIN tasks /\ tasks[t].idempotency_key = SmsKey(CausedBy(t))
          /\ u \in DOMAIN tasks /\ tasks[u].idempotency_key = SmsKey(CausedBy(u))
      BY DEF FollowUps, NudgesInv
    <2> QED
      BY <1>2, <2>1 DEF OneTaskPerKey
  <1>3. f \in [FollowUps -> Shown] /\ DOMAIN f = FollowUps
    BY <1>1
  <1>4. \A t, u \in DOMAIN f : f[t] = f[u] => t = u
    BY <1>2, <1>3
  <1> HIDE DEF f
  <1>5. f \in Injection(FollowUps, Shown)
    BY <1>3, <1>4 DEF Injection, IsInjective
  <1> QED
    BY <1>5, FiniteShares, FS_Injection, FS_CardinalityType

(* There are at most as many silence follow-ups as calls reported and      *)
(* messages sent that may call for one, and attempts of activities that    *)
(* were reported failed (workflows/task_execution.py: only an emission     *)
(* that is run again reports an interaction twice).                        *)
THEOREM NudgesArePaidFor == Spec => []OneNudgePerInteraction
  <1>1. TypeInv /\ OnceInv /\ NudgesInv /\ OneTaskPerKey /\ ShareInv => OneNudgePerInteraction
    <2> SUFFICES ASSUME TypeInv, OnceInv, NudgesInv, OneTaskPerKey, ShareInv
                 PROVE  Cardinality(FollowUps) <= Cardinality(NudgeableInteractions) + Faults
      BY DEF OneNudgePerInteraction
    <2> QED
      BY NudgesHaveCauses, FiniteShares DEF ShareInv
  <1> QED
    BY <1>1, TypeInvariant, OnceInvariant, NudgesInvariant, OneTaskPerDecision, ShareInvariant, PTL
-----------------------------------------------------------------------------
(* A booked meeting owns the next touch.                                   *)

Booked(state) == state.current_state = MEETING_SCHEDULED_STATE
IsMeeting(t) == tasks[t].goal = POST_MEETING_GOAL

\* There is an email of a meeting, and no text has been answered since.
Unanswered(t) == t \in DOMAIN tasks /\ IsMeeting(t) /\ \A v \in DOMAIN tasks : v > t => ~IsReply(v)
Owing == \E t \in DOMAIN tasks : Unanswered(t)

Plans(goal) == loop.out.tasks # <<>> /\ Head(loop.out.tasks).goal = goal

\* What may let a nudge in: a closed goal, or a run that may have failed.
Excused == (\E s \in DOMAIN signals : Closes(s)) \/ Faults >= DefaultAttempts

\* Attempts are paid for, and a signal has no task before it is decided and has one to spawn.
PlaceInv ==
  /\ Faults >= 0 /\ loop.attempt <= Faults + 1
  /\ loop.pc \in Deciding => \A t \in DOMAIN tasks : CausedBy(t) # loop.signal
  /\ loop.pc = "spawn" => TasksWithKey(Head(loop.out.tasks).idempotency_key) # {}

Behind(t, u) == \E v \in t + 1 .. u - 1 : IsReply(v)

\* The state that the next rule will find, once the patch in hand is written.
NextState == IF loop.pc = "patch" THEN loop.out.state ELSE contact_state

OwnedInv ==
  /\ \A t, u \in DOMAIN tasks : IsMeeting(t) /\ u > t /\ IsFollowUp(u) => Behind(t, u)
  /\ (Owing /\ ~ReplyPlanned) \/ Plans(POST_MEETING_GOAL) => Booked(NextState)
  /\ Owing => ~Plans(FOLLOW_UP_GOAL)

\* In that state only a text is answered, and nothing else changes it but a closing result.
LEMMA EvaluateMeets ==
  ASSUME NEW s, NEW signal, NEW c, NEW state \in ContactState, NEW con, NEW now \in Nat, NEW out,
         out = Evaluate(s, signal, c, state, con, now)
  PROVE  /\ \/ out.tasks = <<>>
            \/ \E type, at :
                 \/ out.tasks = Propose(s, type, at, REPLY_GOAL)
                 \/ /\ out.tasks = Propose(s, type, at, POST_MEETING_GOAL)
                    /\ out.patch /\ Booked(out.state)
                 \/ /\ out.tasks = Propose(s, type, at, FOLLOW_UP_GOAL)
                    /\ ~Booked(state)
         /\ \/ Booked(out.state) \/ ~Booked(state)
            \/ signal.outcome \in {"opt_out", "goal_achieved"}
            \/ \E type, at : out.tasks = Propose(s, type, at, REPLY_GOAL)
  <1>1. CASE out = DecideOnInboundSms(s, signal, c, state, con, now)
    BY <1>1 DEF DecideOnInboundSms, Output
  <1>2. CASE out = DecideOnInteractionResult(s, signal, c, state, con, now)
    BY <1>2 DEF DecideOnInteractionResult, Output, Booked
  <1>3. CASE out = DecideOnMeetingScheduled(s, signal, c, state, con, now)
    <2> DEFINE booked == [state EXCEPT !.current_state = MEETING_SCHEDULED_STATE]
    <2>1. /\ Booked(booked)
          /\ Booked([booked EXCEPT !.next_task_at = signal.due])
      BY DEF Booked, ContactState
    <2> HIDE DEF booked
    <2>2. \/ out = Output(<<>>, state, FALSE, FALSE)
          \/ out = Output(<<>>, booked, TRUE, FALSE)
          \/ out = Output(Propose(s, "email", signal.due, POST_MEETING_GOAL),
                          [booked EXCEPT !.next_task_at = signal.due], TRUE, FALSE)
      BY <1>3 DEF DecideOnMeetingScheduled, booked
    <2> QED
      BY <2>1, <2>2 DEF Output
  <1>4. CASE out = Output(<<>>, state, FALSE, FALSE)
    BY <1>4 DEF Output
  <1> QED
    BY <1>1, <1>2, <1>3, <1>4 DEF Evaluate

\* Faults are only ever added, one at a time.
LEMMA FaultsRise ==
  ASSUME TypeInv, [Next]_vars
  PROVE  Faults \in Int /\ Faults' \in {Faults, Faults + 1}
  <1>a. Faults \in Int
    BY FiniteShares
  <1>1. CASE UNCHANGED vars \/ Tick \/ Loop \/ World
    BY <1>a, <1>1, OtherFaults
  <1>2. ASSUME NEW r \in requests, RequestRuns(r) \/ RequestFails(r) \/ RequestDies(r)
        PROVE  Faults' \in {Faults, Faults + 1}
    <2>1. UNCHANGED budget \/ Spend("fault")
      BY <1>2 DEF RequestRuns, RecordSmsConsent, ConfirmKeyword, EmitCallResult,
         BackfillCallResult, Dispatch, MarkDelivered, RequestFails, RequestDies
    <2> QED
      BY <2>1, FailureCounts DEF Faults
  <1>3. ASSUME NEW t \in DOMAIN exec, ExecutionRuns(t) \/ ExecutionFails(t)
        PROVE  Faults' \in {Faults, Faults + 1}
    BY <1>3, ExecReports DEF Reports
  <1> QED
    BY <1>a, <1>1, <1>2, <1>3 DEF Next

\* An attempt of the loop's is a first one, the same, or the next, which is paid for.
LEMMA LoopAttempts ==
  ASSUME TypeInv, LoopNext
  PROVE  /\ loop.attempt \in Nat
         /\ \/ loop'.attempt \in {1, loop.attempt} /\ loop' # NoRun
            \/ /\ Spend("fault") /\ loop'.attempt \in {1, loop.attempt + 1}
               /\ loop' = NoRun => loop.attempt >= DefaultAttempts
  <1> DEFINE GoesOnUnpaid == loop'.attempt \in {1, loop.attempt} /\ loop' # NoRun
             Pays == /\ Spend("fault") /\ loop'.attempt \in {1, loop.attempt + 1}
                     /\ loop' = NoRun => loop.attempt >= DefaultAttempts
  <1>a. loop \in LoopRun /\ loop.out \in DecisionOutput /\ loop.attempt \in Nat
    BY DEF TypeInv, LoopInv, GoodRun, LoopRun
  <1>b. NoRun.pc = "none" /\ NoRun.attempt = 1 /\ DefaultAttempts \in Nat
    BY LoopAssumption DEF NoRun, IdleRun
  <1>1. ASSUME LoopAttemptFails, loop.pc # "none"
        PROVE  Pays
    <2>1. CASE loop.attempt < DefaultAttempts
      <3>1. loop' = [loop EXCEPT !.attempt = loop.attempt + 1] /\ Spend("fault")
        BY <1>1, <2>1 DEF LoopAttemptFails
      <3>2. loop'.attempt = loop.attempt + 1 /\ loop'.pc = loop.pc
        BY <1>a, <3>1 DEF LoopRun
      <3> QED
        BY <1>1, <1>b, <3>1, <3>2
    <2>2. CASE ~(loop.attempt < DefaultAttempts)
      <3>1. loop' = NoRun /\ Spend("fault")
        BY <1>1, <2>2 DEF LoopAttemptFails
      <3> QED
        BY <1>a, <1>b, <2>2, <3>1
    <2> QED
      BY <2>1, <2>2
  <1>2. ASSUME NEW next \in LoopRun, next.pc # "none", LoopCompletes(next), loop.pc # "none"
        PROVE  GoesOnUnpaid \/ Pays
    <2>1. CASE loop' = [next EXCEPT !.attempt = 1]
      <3>1. loop'.attempt = 1 /\ loop'.pc = next.pc
        BY <1>2, <2>1 DEF LoopRun
      <3> QED
        BY <1>2, <1>b, <3>1
    <2> QED
      BY <1>1, <1>2, <2>1 DEF LoopCompletes
  <1>3. \A out : out.tasks = <<>> => NextTask(out) = Handled
    BY DEF NextTask
  <1>4. Handled.attempt = 1 /\ Handled.pc # "none" /\ Handled \in LoopRun
    <2>1. Handled.attempt = 1 /\ Handled.pc # "none"
      BY DEF Handled, NewRun, IdleRun
    <2>2. GoodRun(Handled, {}, {})
      BY HandledType DEF TypeInv
    <2> QED
      BY <2>1, <2>2 DEF GoodRun
  <1>5. CASE LoopPop \/ LoopReadContact \/ LoopReadConsent
    <2>1. loop'.attempt \in {1, loop.attempt} /\ loop'.pc # "none"
      BY <1>5, <1>a DEF LoopPop, LoopReadContact, LoopReadConsent, LoopRun
    <2> QED
      BY <1>a, <1>b, <2>1
  <1>6. CASE LoopDecide
    <2> DEFINE pc == IF Decision.patch THEN "patch"
                     ELSE IF Decision.cancel THEN "cancel" ELSE "mark"
    <2>1. loop' = [IdleRun(pc, loop.processed) EXCEPT !.signal = loop.signal, !.out = Decision]
      BY <1>6 DEF LoopDecide, Decision
    <2>2. loop'.attempt = 1 /\ loop'.pc = pc
      BY <2>1 DEF IdleRun
    <2> QED
      BY <1>a, <1>b, <2>2
  <1>7. CASE LoopActivityFails
    BY <1>a, <1>1, <1>7 DEF LoopActivityFails
  <1>8. CASE LoopRegister \/ LoopPatch \/ LoopCancel
    <2>1. PICK pc \in LoopPc \ {"none"} :
            loop.pc # "none" /\ LoopCompletes([loop EXCEPT !.pc = pc])
      BY <1>8 DEF LoopRegister, LoopPatch, LoopCancel, LoopPc
    <2>2. [loop EXCEPT !.pc = pc] \in LoopRun /\ [loop EXCEPT !.pc = pc].pc = pc
      BY <1>a DEF LoopRun
    <2> QED
      BY <1>a, <1>2, <2>1, <2>2
  <1>9. CASE LoopReadState
    <2> DEFINE next == [loop EXCEPT !.pc = "consent", !.state = CreatedState]
    <2>1. next \in LoopRun /\ next.pc = "consent"
      BY <1>a, CreatedStateType DEF LoopRun, LoopPc, TypeInv, StoreInv, StoreTypeOK
    <2> QED
      BY <1>a, <1>2, <1>9, <2>1 DEF LoopReadState
  <1>10. CASE LoopInsert
    <2> DEFINE proposed == Head(loop.out.tasks)
               next == [loop EXCEPT !.pc = "spawn", !.task = InsertedTask(proposed)]
    <2>1. proposed \in ProposedTask
      BY <1>10, <1>a, HeadTailProperties
         DEF LoopInsert, TypeInv, LoopInv, GoodRun, DecisionOutput
    <2>2. InsertedTask(proposed) \in Nat
      BY <1>10, <2>1, InsertTaskType DEF LoopInsert, TypeInv, StoreInv, StoreTypeOK
    <2>3. next \in LoopRun /\ next.pc = "spawn"
      BY <1>a, <2>2 DEF LoopRun, LoopPc
    <2> QED
      BY <1>a, <1>2, <1>10, <2>3 DEF LoopInsert
  <1>11. ASSUME NEW out \in DecisionOutput, out.tasks # <<>>
         PROVE  /\ NextTask(out) \in LoopRun /\ NextTask(out).pc = "insert"
                /\ NextTask(out).attempt = loop.attempt
    BY <1>a, <1>11, InsertingType DEF NextTask, LoopRun
  <1>12. CASE LoopMark
    BY <1>2, <1>3, <1>4, <1>11, <1>12, <1>a DEF LoopMark
  <1>13. CASE LoopSpawn
    <2> DEFINE out == [loop.out EXCEPT !.tasks = Tail(loop.out.tasks)]
    <2>1. loop.out.tasks # <<>>
      BY <1>13 DEF LoopSpawn, TypeInv, LoopInv, GoodRun
    <2>2. Tail(loop.out.tasks) \in Seq(ProposedTask)
      BY <1>a, <2>1, HeadTailProperties DEF DecisionOutput
    <2>3. out \in DecisionOutput
      BY <1>a, <2>2 DEF DecisionOutput
    <2>4. loop' = NextTask(out)
      BY <1>13 DEF LoopSpawn
    <2> HIDE DEF out
    <2>5. loop'.attempt \in {1, loop.attempt} /\ loop'.pc # "none"
      BY <1>3, <1>4, <1>11, <2>3, <2>4
    <2> QED
      BY <1>a, <1>b, <2>5
  <1> QED
    BY <1>a, <1>5, <1>6, <1>7, <1>8, <1>9, <1>10, <1>12, <1>13 DEF LoopNext

\* A run that fails has used up its attempts, each of them paid for.
LEMMA DiedIsPaidFor ==
  ASSUME TypeInv, PlaceInv, [Next]_vars, Loop, Ended
  PROVE  Faults' >= DefaultAttempts
  <1>1. Spend("fault") /\ loop.attempt >= DefaultAttempts
    BY LoopAttempts DEF Loop, Ended
  <1>2. Faults' = Faults + 1 /\ Faults \in Int /\ loop.attempt \in Nat /\ DefaultAttempts \in Nat
    BY <1>1, FailureCounts, FaultsRise, LoopAttempts, LoopAssumption DEF Loop
  <1> QED
    BY <1>1, <1>2 DEF PlaceInv

\* What excuses a nudge stays.
LEMMA ExcusedStays ==
  ASSUME TypeInv, [Next]_vars, Excused
  PROVE  Excused'
  <1>1. SignalsKept
    BY StepKeepsSignals
  <1>2. (\E s \in DOMAIN signals : Closes(s)) => (\E s \in DOMAIN signals : Closes(s))'
    BY <1>1 DEF SignalsKept, Closes
  <1>3. Faults >= DefaultAttempts => Faults' >= DefaultAttempts
    BY FaultsRise, LoopAssumption
  <1> QED
    BY <1>2, <1>3 DEF Excused

\* An attempt more is a fault more.
LEMMA AttemptsPaid ==
  ASSUME TypeInv, PlaceInv, [Next]_vars
  PROVE  Faults' >= 0 /\ loop'.attempt <= Faults' + 1
  <1>a. Faults \in Int /\ Faults' \in {Faults, Faults + 1} /\ Faults >= 0
        /\ loop.attempt \in Nat /\ loop.attempt <= Faults + 1
    BY FaultsRise DEF PlaceInv, TypeInv, LoopInv, GoodRun, LoopRun
  <1>1. CASE Loop
    <2>1. CASE loop'.attempt \in {1, loop.attempt}
      BY <1>a, <2>1
    <2>2. CASE Spend("fault") /\ loop'.attempt = loop.attempt + 1
      <3>1. Faults' = Faults + 1
        BY <2>2, FailureCounts
      <3> QED
        BY <1>a, <2>2, <3>1
    <2> QED
      BY <1>1, <2>1, <2>2, LoopAttempts DEF Loop
  <1>2. CASE loop' = loop
    BY <1>2, <1>a
  <1>3. CASE loop' = NewRun
    <2>1. loop'.attempt \in {1, loop.attempt}
      BY <1>3 DEF NewRun, IdleRun
    <2> QED
      BY <1>a, <2>1
  <1> QED
    BY <1>1, <1>2, <1>3, SignalsMove DEF Keeps, Holds, GoesOn, HandsOver

\* While the loop decides no row is inserted, and it decides on a signal just taken.
LEMMA DecidingStep ==
  ASSUME TypeInv, PlaceInv, OnceInv, [Next]_vars, loop'.pc \in Deciding
  PROVE  \A t \in DOMAIN tasks' : CausedBy(t)' # loop'.signal
  <1>1. \/ loop.pc \in Deciding /\ loop'.signal = loop.signal
        \/ Popped
    <2>1. CASE loop' \in {loop, NewRun}
      BY <2>1 DEF NewRun, IdleRun, Deciding
    <2>2. CASE LoopEffect
      <3>1. Rested => loop'.pc \in {"register", "idle"}
        BY RestedRun DEF TypeInv
      <3>2. Decided => loop'.pc \in Applying
        BY DEF Decided, Applying
      <3> QED
        BY <2>2, <3>1, <3>2 DEF LoopEffect, Retried, Ended, Advanced, TurnedTo, NoRun, IdleRun,
           Deciding, Applying
    <2> QED
      BY <2>1, <2>2, SignalsMove DEF Keeps, Holds, GoesOn, HandsOver
  <1>2. \A t \in DOMAIN tasks : CausedBy(t) # loop'.signal
    <2>1. CASE loop.pc \in Deciding /\ loop'.signal = loop.signal
      BY <2>1 DEF PlaceInv
    <2>2. CASE Popped
      <3>1. 1 \in DOMAIN pending /\ pending[1] = loop'.signal
        BY <2>2, HeadTailProperties, LenProperties, EmptySeq DEF Popped, TypeInv, LoopInv
      <3> QED
        BY <3>1 DEF OnceInv, TakenOff
    <2> QED
      BY <1>1, <2>1, <2>2
  <1>3. DOMAIN tasks' \subseteq DOMAIN tasks
    <2>1. loop.pc # "insert"
      BY <1>1 DEF Popped, Deciding
    <2> QED
      BY <2>1, NewTask DEF LoopInsert
  <1>4. TasksKept
    BY StepKeepsTasks
  <1> QED
    BY <1>2, <1>3, <1>4 DEF TasksKept, CausedBy

\* A row is there before it is spawned.
LEMMA SpawningStep ==
  ASSUME TypeInv, PlaceInv, [Next]_vars, loop'.pc = "spawn"
  PROVE  \E t \in DOMAIN tasks' :
           tasks'[t].idempotency_key = Head(loop'.out.tasks).idempotency_key
  <1>1. loop'.out = loop.out /\ \/ loop.pc = "spawn"
                                \/ Loop /\ loop.pc = "insert"
    <2>1. CASE loop' \in {loop, NewRun}
      BY <2>1 DEF NewRun, IdleRun
    <2>2. CASE Loop /\ LoopEffect
      <3>1. Rested => loop'.pc \in {"register", "idle"}
        BY RestedRun DEF TypeInv
      <3> QED
        BY <2>2, <3>1 DEF LoopEffect, Retried, Ended, Advanced, Popped, Decided, TurnedTo, NoRun,
           IdleRun
    <2> QED
      BY <2>1, <2>2, SignalsMove DEF Keeps, Holds, GoesOn, HandsOver
  <1>2. CASE loop.pc = "spawn"
    <2>1. PICK t \in DOMAIN tasks :
            tasks[t].idempotency_key = Head(loop.out.tasks).idempotency_key
      BY <1>2 DEF PlaceInv, TasksWithKey
    <2> QED
      BY <1>1, <2>1, StepKeepsTasks DEF TasksKept
  <1>3. CASE Loop /\ loop.pc = "insert"
    <2>1. LoopInsert
      <3>1. CASE LoopActivityFails
        <4>1. Retried \/ Ended
          BY <3>1, FailedRun DEF LoopActivityFails, TypeInv
        <4> QED
          BY <1>3, <4>1 DEF Retried, Ended, NoRun, IdleRun
      <3> QED
        BY <1>3, <3>1 DEF Loop, LoopNext, LoopRegister, LoopPop, LoopReadContact,
           LoopReadState, LoopReadConsent, LoopDecide, LoopPatch, LoopCancel, LoopMark, LoopSpawn
    <2> DEFINE proposed == Head(loop.out.tasks)
    <2>2. CASE TasksWithKey(proposed.idempotency_key) # {}
      <3>1. tasks' = tasks
        BY <2>1, <2>2 DEF LoopInsert, InsertTask
      <3> QED
        BY <1>1, <2>2, <3>1 DEF TasksWithKey
    <2>3. CASE TasksWithKey(proposed.idempotency_key) = {}
      <3>1. tasks' = Append(tasks, NewTaskRow(proposed))
        BY <2>1, <2>3 DEF LoopInsert, InsertTask
      <3>2. tasks \in Seq(TaskRow)
        BY DEF TypeInv, StoreInv, StoreTypeOK
      <3>3. /\ Len(tasks) + 1 \in DOMAIN tasks'
            /\ tasks'[Len(tasks) + 1] = NewTaskRow(proposed)
        BY <3>1, <3>2, AppendedRow
      <3> QED
        BY <1>1, <3>3 DEF NewTaskRow
    <2> QED
      BY <2>2, <2>3
  <1> QED
    BY <1>1, <1>2, <1>3

\* So PlaceInv is kept.
LEMMA PlaceStep == TypeInv /\ OnceInv /\ PlaceInv /\ [Next]_vars => PlaceInv'
  <1> SUFFICES ASSUME TypeInv, OnceInv, PlaceInv, [Next]_vars PROVE PlaceInv'
    OBVIOUS
  <1>1. Faults' >= 0 /\ loop'.attempt <= Faults' + 1
    BY AttemptsPaid
  <1>2. loop'.pc \in Deciding => \A t \in DOMAIN tasks' : CausedBy(t)' # loop'.signal
    BY DecidingStep
  <1>3. loop'.pc = "spawn" => TasksWithKey(Head(loop.out.tasks).idempotency_key)' # {}
    BY SpawningStep DEF TasksWithKey
  <1> QED
    BY <1>1, <1>2, <1>3 DEF PlaceInv

-----------------------------------------------------------------------------
(* The state that the next rule will find, and what is still unanswered.   *)

\* The state moves only by a decision, unless the run fails.
LEMMA NextStateStep ==
  ASSUME TypeInv, [Next]_vars, ~Decided, ~(Loop /\ Ended)
  PROVE  Booked(NextState') <=> Booked(NextState)
  <1>1. CASE loop.pc # "patch"
    <2>1. loop'.pc # "patch"
      BY <1>1, PatchStep
    <2>2. SameCount
      BY <1>1, CountMoves
    <2> QED
      BY <1>1, <2>1, <2>2 DEF NextState, Booked, SameCount
  <1>2. CASE loop.pc = "patch" /\ loop'.pc = "patch"
    <2>1. loop'.out = loop.out
      BY <1>2, PatchStep
    <2> QED
      BY <1>2, <2>1 DEF NextState, Booked
  <1>3. CASE loop.pc = "patch" /\ loop'.pc # "patch"
    BY <1>3, PatchWritten DEF NextState, Booked
  <1> QED
    BY <1>1, <1>2, <1>3

\* A plan is carried out before it is dropped, unless the run fails.
LEMMA PlanDropped ==
  ASSUME TypeInv, PlanInv, [Next]_vars, loop.out.tasks # <<>>, loop.pc # "spawn",
         ~(Loop /\ Ended)
  PROVE  loop'.out.tasks = loop.out.tasks
  <1>a. loop.pc \in Applying
    BY DEF PlanInv
  <1>1. CASE loop' = loop
    BY <1>1
  <1>2. CASE loop.pc = "none" /\ loop' = NewRun
    BY <1>a, <1>2 DEF Applying
  <1>3. CASE Loop /\ LoopEffect
    BY <1>a, <1>3 DEF LoopEffect, Retried, Advanced, Popped, Decided, TurnedTo, Applying
  <1> QED
    BY <1>1, <1>2, <1>3, SignalsMove DEF Keeps, Holds, GoesOn, HandsOver

\* Rows are numbered in the order in which they were inserted.
LEMMA RowsInOrder ==
  ASSUME TypeInv, NEW t \in DOMAIN tasks
  PROVE  t \in Nat /\ Len(tasks) \in Nat /\ t >= 1 /\ t < Len(tasks) + 1
  <1>1. tasks \in Seq(TaskRow)
    BY DEF TypeInv, StoreInv, StoreTypeOK
  <1> QED
    BY <1>1, LenProperties

\* The goals of the rows that are there stay.
LEMMA GoalsStay ==
  ASSUME TypeInv, [Next]_vars
  PROVE  \A t \in DOMAIN tasks : /\ t \in DOMAIN tasks'
                                 /\ IsReply(t)' <=> IsReply(t)
                                 /\ IsMeeting(t)' <=> IsMeeting(t)
                                 /\ IsFollowUp(t)' <=> IsFollowUp(t)
  BY StepKeepsTasks DEF TasksKept, IsReply, IsMeeting, IsFollowUp

\* What is inserted is what was planned.
LEMMA InsertedGoal ==
  ASSUME TypeInv, [Next]_vars, NEW t \in DOMAIN tasks', t \notin DOMAIN tasks
  PROVE  /\ t = Len(tasks) + 1 /\ loop.pc = "insert"
         /\ IsMeeting(t)' => Plans(POST_MEETING_GOAL)
         /\ IsFollowUp(t)' => Plans(FOLLOW_UP_GOAL)
         /\ \A goal : Plans(goal) => tasks'[t].goal = goal
  BY NewTask DEF NewTaskRow, LoopInsert, Plans, IsMeeting, IsFollowUp

\* An email that nothing answers was unanswered, or is planned.
LEMMA OwingStep ==
  ASSUME TypeInv, [Next]_vars, Owing'
  PROVE  Owing \/ Plans(POST_MEETING_GOAL)
  <1>1. PICK t \in DOMAIN tasks' :
          IsMeeting(t)' /\ \A v \in DOMAIN tasks' : v > t => ~IsReply(v)'
    BY DEF Owing, Unanswered
  <1>2. CASE t \in DOMAIN tasks
    BY <1>1, <1>2, GoalsStay DEF Owing, Unanswered
  <1>3. CASE t \notin DOMAIN tasks
    BY <1>1, <1>3, InsertedGoal
  <1> QED
    BY <1>2, <1>3

\* A planned reply stays planned until its row is there, and then nothing is unanswered.
LEMMA PlannedUntilInserted ==
  ASSUME TypeInv, PlanInv, PlaceInv, [Next]_vars, ~(Loop /\ Ended), ReplyPlanned, Owing'
  PROVE  ReplyPlanned'
  <1>1. loop.pc # "spawn"
    BY DEF PlaceInv, ReplyPlanned
  <1>2. loop'.out.tasks = loop.out.tasks /\ loop.out.tasks # <<>>
    BY <1>1, PlanDropped DEF ReplyPlanned
  <1> DEFINE key == Head(loop.out.tasks).idempotency_key
  <1>3. \A t \in DOMAIN tasks : tasks[t].idempotency_key # key
    BY DEF ReplyPlanned, TasksWithKey
  <1>4. ASSUME NEW t \in DOMAIN tasks', t \notin DOMAIN tasks
        PROVE  FALSE
    <2>1. t = Len(tasks) + 1 /\ IsReply(t)'
      BY <1>4, InsertedGoal DEF Plans, ReplyPlanned, IsReply
    <2>2. PICK u \in DOMAIN tasks' :
            IsMeeting(u)' /\ \A v \in DOMAIN tasks' : v > u => ~IsReply(v)'
      BY DEF Owing, Unanswered
    <2>3. u # t
      BY <2>1, <2>2 DEF IsReply, IsMeeting, REPLY_GOAL, POST_MEETING_GOAL
    <2>4. u \in DOMAIN tasks
      BY <2>1, <2>3, InsertedGoal
    <2>5. t > u
      BY <2>1, <2>4, RowsInOrder
    <2> QED
      BY <1>4, <2>1, <2>2, <2>5
  <1>5. \A t \in DOMAIN tasks' : tasks'[t].idempotency_key # key
    BY <1>3, <1>4, StepKeepsTasks DEF TasksKept
  <1> QED
    BY <1>2, <1>5 DEF ReplyPlanned, TasksWithKey

-----------------------------------------------------------------------------
(* A booked meeting keeps the next touch.                                  *)

\* No nudge is planned behind an email that nothing answers.
LEMMA NoNudgeStep ==
  ASSUME TypeInv, PlanInv, PlaceInv, OwnedInv, [Next]_vars, ~Decided, Owing'
  PROVE  ~Plans(FOLLOW_UP_GOAL)'
  <1>1. ASSUME Plans(FOLLOW_UP_GOAL)' PROVE Plans(FOLLOW_UP_GOAL)
    <2>1. loop'.out.tasks # <<>> /\ loop'.out.tasks = loop.out.tasks
      BY <1>1, PlanKept DEF Plans
    <2> QED
      BY <1>1, <2>1 DEF Plans
  <1>2. ~(Plans(FOLLOW_UP_GOAL) /\ Plans(POST_MEETING_GOAL))
    BY DEF Plans, FOLLOW_UP_GOAL, POST_MEETING_GOAL
  <1> QED
    BY <1>1, <1>2, OwingStep DEF OwnedInv

\* As long as one is unanswered or planned, the state says that a meeting is booked.
LEMMA BookedStep ==
  ASSUME TypeInv, PlanInv, PlaceInv, OwnedInv, [Next]_vars, ~Decided, ~(Loop /\ Ended),
         (Owing' /\ ~ReplyPlanned') \/ Plans(POST_MEETING_GOAL)'
  PROVE  Booked(NextState')
  <1>1. ASSUME Plans(POST_MEETING_GOAL)' PROVE Plans(POST_MEETING_GOAL)
    <2>1. loop'.out.tasks # <<>> /\ loop'.out.tasks = loop.out.tasks
      BY <1>1, PlanKept DEF Plans
    <2> QED
      BY <1>1, <2>1 DEF Plans
  <1>2. ASSUME Owing', ~ReplyPlanned'
        PROVE  (Owing /\ ~ReplyPlanned) \/ Plans(POST_MEETING_GOAL)
    BY <1>2, OwingStep, PlannedUntilInserted
  <1>3. Booked(NextState)
    BY <1>1, <1>2 DEF OwnedInv
  <1> QED
    BY <1>3, NextStateStep

\* A decision takes a booked meeting into account, whatever it is about.
LEMMA DecidedStep ==
  ASSUME TypeInv, PlanInv, PlaceInv, ReadInv, OwnedInv, [Next]_vars, Decided, ~Excused
  PROVE  /\ (Owing' /\ ~ReplyPlanned') \/ Plans(POST_MEETING_GOAL)' => Booked(NextState')
         /\ Owing' => ~Plans(FOLLOW_UP_GOAL)'
  <1> DEFINE s == loop.signal
  <1>a. loop.pc = "decide" /\ loop'.out = Decision /\ loop'.pc # "decide"
        /\ (loop'.pc = "patch" <=> Decision.patch)
    BY DEF Decided
  <1>b. loop.out.tasks = <<>>
    BY <1>a DEF PlanInv, Applying
  <1>c. Owing' => Owing
    BY <1>b, OwingStep DEF Plans
  <1>d. ~ReplyPlanned
    BY <1>b DEF ReplyPlanned
  <1>e. loop.state \in ContactState /\ clock \in Nat /\ s \in DOMAIN signals
    BY <1>a DEF TypeInv, LoopInv, GoodRun, LoopRun, StoreInv, StoreTypeOK
  <1>f. signals[s].outcome \notin {"opt_out", "goal_achieved"}
    BY <1>e DEF Excused, Closes
  <1>g. (Booked(loop.state) <=> Booked(contact_state)) /\ NextState = contact_state
    BY <1>a DEF ReadInv, Booked, NextState
  <1>h. Owing => Booked(loop.state)
    BY <1>d, <1>g DEF OwnedInv
  <1>i. Booked(contact_state)' <=> Booked(contact_state)
    BY <1>a, CountMoves DEF SameCount, Booked
  <1>1. \/ Decision.tasks = <<>>
        \/ \E type, at :
             \/ Decision.tasks = Propose(s, type, at, REPLY_GOAL)
             \/ /\ Decision.tasks = Propose(s, type, at, POST_MEETING_GOAL)
                /\ Decision.patch /\ Booked(Decision.state)
             \/ /\ Decision.tasks = Propose(s, type, at, FOLLOW_UP_GOAL)
                /\ ~Booked(loop.state)
    BY <1>e, EvaluateMeets DEF Decision
  <1>2. \/ Booked(Decision.state) \/ ~Booked(loop.state)
        \/ \E type, at : Decision.tasks = Propose(s, type, at, REPLY_GOAL)
    BY <1>e, <1>f, EvaluateMeets DEF Decision
  <1> HIDE DEF Decision
  <1>3. Booked(NextState') <=> IF Decision.patch THEN Booked(Decision.state)
                               ELSE Booked(contact_state)
    BY <1>a, <1>i DEF NextState, Booked
  <1>4. \A goal : Plans(goal)' <=> Decision.tasks # <<>> /\ Head(Decision.tasks).goal = goal
    BY <1>a DEF Plans
  <1>5. \A type, at, goal : Propose(s, type, at, goal) # <<>>
          /\ Head(Propose(s, type, at, goal)).goal = goal
          /\ Head(Propose(s, type, at, goal)).idempotency_key[1] = s
    <2>1. ASSUME NEW p PROVE <<p>> # <<>> /\ Head(<<p>>) = p
      OBVIOUS
    <2>2. ASSUME NEW type, NEW at, NEW goal
          PROVE  \E p : Propose(s, type, at, goal) = <<p>> /\ p.goal = goal
                         /\ p.idempotency_key[1] = s
      <3> DEFINE p == [idempotency_key |-> DeriveIdempotencyKey(s, type, 0), type |-> type,
                       scheduled_for |-> at, goal |-> goal]
      <3>1. Propose(s, type, at, goal) = <<p>>
        BY DEF Propose
      <3>2. p.goal = goal /\ p.idempotency_key[1] = s
        BY DEF DeriveIdempotencyKey
      <3> HIDE DEF p
      <3> QED
        BY <3>1, <3>2
    <2> QED
      BY <2>1, <2>2
  <1>6. Plans(POST_MEETING_GOAL)' => Booked(NextState')
    BY <1>1, <1>3, <1>4, <1>5 DEF FOLLOW_UP_GOAL, POST_MEETING_GOAL, REPLY_GOAL
  <1>7. Plans(FOLLOW_UP_GOAL)' => ~Booked(loop.state)
    BY <1>1, <1>4, <1>5 DEF FOLLOW_UP_GOAL, POST_MEETING_GOAL, REPLY_GOAL
  <1>8. ASSUME NEW type, NEW at, Decision.tasks = Propose(s, type, at, REPLY_GOAL)
        PROVE  ReplyPlanned'
    <2>1. loop'.out.tasks # <<>> /\ Head(loop'.out.tasks).goal = REPLY_GOAL
          /\ Head(loop'.out.tasks).idempotency_key[1] = s
      BY <1>8, <1>5, <1>a
    <2>2. ASSUME NEW t \in DOMAIN tasks'
          PROVE  tasks'[t].idempotency_key # Head(loop'.out.tasks).idempotency_key
      <3>1. t \in DOMAIN tasks
        BY <1>a, InsertedGoal
      <3>2. CausedBy(t) # s
        BY <1>a, <3>1 DEF PlaceInv, Deciding
      <3> QED
        BY <2>1, <3>1, <3>2, StepKeepsTasks DEF TasksKept, CausedBy
    <2> QED
      BY <2>1, <2>2 DEF ReplyPlanned, TasksWithKey
  <1>9. ASSUME Owing', ~ReplyPlanned'
        PROVE  Booked(NextState')
    BY <1>2, <1>3, <1>8, <1>9, <1>c, <1>g, <1>h
  <1> QED
    BY <1>6, <1>7, <1>9, <1>c, <1>h

\* A nudge behind an email is behind a reply that is behind the email.
LEMMA BehindStep ==
  ASSUME TypeInv, OwnedInv, [Next]_vars,
         NEW t \in DOMAIN tasks', NEW u \in DOMAIN tasks',
         IsMeeting(t)', u > t, IsFollowUp(u)'
  PROVE  Behind(t, u)'
  <1>1. CASE u \in DOMAIN tasks
    <2>1. t \in DOMAIN tasks
      <3>1. CASE t \notin DOMAIN tasks
        <4>1. t = Len(tasks) + 1
          BY <3>1, InsertedGoal
        <4> QED
          BY <1>1, <4>1, RowsInOrder
      <3> QED
        BY <3>1
    <2>2. Behind(t, u)
      BY <1>1, <2>1, GoalsStay DEF OwnedInv
    <2>3. PICK v \in t + 1 .. u - 1 : IsReply(v)
      BY <2>2 DEF Behind
    <2>4. v \in DOMAIN tasks
      <3>1. tasks \in Seq(TaskRow)
        BY DEF TypeInv, StoreInv, StoreTypeOK
      <3>2. DOMAIN tasks = 1 .. Len(tasks) /\ Len(tasks) \in Nat
        BY <3>1, LenProperties
      <3> QED
        BY <1>1, <2>1, <2>3, <3>2
    <2> QED
      BY <2>3, <2>4, GoalsStay DEF Behind, IsReply
  <1>2. CASE u \notin DOMAIN tasks
    <2>1. u = Len(tasks) + 1 /\ Plans(FOLLOW_UP_GOAL)
      BY <1>2, InsertedGoal
    <2>2. t \in DOMAIN tasks
      <3>1. CASE t \notin DOMAIN tasks
        <4>1. t = u
          BY <2>1, <3>1, InsertedGoal
        <4> QED
          BY <4>1 DEF IsMeeting, IsFollowUp, FOLLOW_UP_GOAL, POST_MEETING_GOAL
      <3> QED
        BY <3>1
    <2>3. ~Unanswered(t) /\ IsMeeting(t)
      BY <2>1, <2>2, GoalsStay DEF OwnedInv, Owing
    <2>4. PICK v \in DOMAIN tasks : v > t /\ IsReply(v)
      BY <2>2, <2>3 DEF Unanswered
    <2>5. v \in t + 1 .. u - 1
      BY <2>1, <2>2, <2>4, RowsInOrder
    <2> QED
      BY <2>4, <2>5, GoalsStay DEF Behind, IsReply
  <1> QED
    BY <1>1, <1>2

(* Until something excuses it, no nudge gets behind a meeting.             *)
LEMMA OwnedStep ==
  TypeInv /\ PlanInv /\ PlaceInv /\ ReadInv /\ (Excused \/ OwnedInv) /\ [Next]_vars
    => (Excused \/ OwnedInv)'
  <1> SUFFICES ASSUME TypeInv, PlanInv, PlaceInv, ReadInv, OwnedInv, [Next]_vars, ~Excused
               PROVE  Excused' \/ OwnedInv'
    BY ExcusedStays
  <1>1. CASE Loop /\ Ended
    BY <1>1, DiedIsPaidFor DEF Excused
  <1>2. CASE ~(Loop /\ Ended)
    <2>1. /\ (Owing' /\ ~ReplyPlanned') \/ Plans(POST_MEETING_GOAL)' => Booked(NextState')
          /\ Owing' => ~Plans(FOLLOW_UP_GOAL)'
      BY <1>2, DecidedStep, BookedStep, NoNudgeStep
    <2>2. \A t, u \in DOMAIN tasks' : IsMeeting(t)' /\ u > t /\ IsFollowUp(u)' => Behind(t, u)'
      BY BehindStep
    <2>3. Booked(NextState') <=> Booked(NextState)'
      BY DEF Booked
    <2> QED
      BY <2>1, <2>2, <2>3 DEF OwnedInv
  <1> QED
    BY <1>1, <1>2

\* At first there is nothing to own.
LEMMA OwnedInit == Init => PlaceInv /\ OwnedInv
  <1> SUFFICES ASSUME Init PROVE PlaceInv /\ OwnedInv
    OBVIOUS
  <1>1. /\ DOMAIN tasks = {} /\ loop.pc = "none" /\ loop.attempt = 1 /\ loop.out.tasks = <<>>
        /\ budget = Budget
    BY EmptySeq DEF Init, StoreInit, LoopInit, NoRun, IdleRun, NoOutput, Output
  <1>2. Faults = 0
    BY <1>1, StoreAssumption DEF Faults, BudgetKind
  <1> QED
    BY <1>1, <1>2 DEF PlaceInv, OwnedInv, Owing, Unanswered, Plans

\* So it holds always.
LEMMA OwnedInvariant == Spec => [](PlaceInv /\ (Excused \/ OwnedInv))
  BY OwnedInit, PlaceStep, OwnedStep, TypeInvariant, OnceInvariant, AttemptsInvariant, PTL DEF Spec

(* Behind the email of a booked meeting no silence follow-up is inserted,  *)
(* unless a text was answered in between, a result closed the contact's    *)
(* goal or as many attempts failed as end a run of the loop (decision/     *)
(* rules.py:166-168, "A booked meeting owns the next touch").              *)
THEOREM MeetingKeepsTheTouch == Spec => []MeetingOwnsNextTouch
  <1>1. Excused \/ OwnedInv => MeetingOwnsNextTouch
    BY DEF Excused, OwnedInv, MeetingOwnsNextTouch, IsMeeting, Behind, IsReply
  <1> QED
    BY <1>1, OwnedInvariant, PTL

-----------------------------------------------------------------------------
(* A text that was counted is answered.  What keeps the account is the     *)
(* number of texts counted, or about to be, that have no reply and for     *)
(* which none is planned: each of them cost the attempts of an activity,   *)
(* and the attempts that the one in hand has used up are not spent yet.    *)

\* The count that the next rule will find.
NextCount == NextState.contact_attempts

Unreplied == NextCount - Cardinality(Replies) - (IF ReplyPlanned THEN 1 ELSE 0)

LostInv ==
  /\ loop.attempt >= 1
  /\ DefaultAttempts * Unreplied + loop.attempt <= Faults + 1

\* Count, replies and faults are numbers.
LEMMA UnrepliedType ==
  ASSUME TypeInv
  PROVE  /\ NextCount \in Int /\ Cardinality(Replies) \in Int /\ Unreplied \in Int
         /\ Faults \in Int /\ loop.attempt \in Nat /\ DefaultAttempts \in Nat
  <1>1. contact_state \in ContactState /\ loop \in LoopRun
    BY DEF TypeInv, StoreInv, StoreTypeOK, LoopInv, GoodRun
  <1>2. loop.out.state \in ContactState /\ loop.attempt \in Nat
    BY <1>1 DEF LoopRun, DecisionOutput
  <1>3. NextCount \in Nat
    BY <1>1, <1>2 DEF NextCount, NextState, ContactState
  <1>4. Cardinality(Replies) \in Nat
    BY FiniteReplies
  <1>5. Unreplied \in Int
    <2> DEFINE replies == Cardinality(Replies)
               count == NextCount
    <2>1. Unreplied = count - replies - (IF ReplyPlanned THEN 1 ELSE 0)
      BY DEF Unreplied
    <2> HIDE DEF replies, count
    <2>2. replies \in Nat /\ count \in Nat
      BY <1>3, <1>4 DEF replies, count
    <2> QED
      BY <2>1, <2>2
  <1> QED
    BY <1>2, <1>3, <1>4, <1>5, FiniteShares, LoopAssumption

\* No attempt is made without the failure of the one before, nor is the last.
LEMMA AttemptsAccounted ==
  ASSUME TypeInv, [Next]_vars, loop.attempt >= 1
  PROVE  /\ loop'.attempt >= 1 /\ loop'.attempt + Faults <= loop.attempt + Faults'
         /\ Loop /\ Ended =>
              /\ loop'.attempt = 1 /\ Faults' = Faults + 1 /\ loop.attempt >= DefaultAttempts
  <1>a. Faults \in Int /\ Faults' \in {Faults, Faults + 1} /\ loop.attempt \in Nat
    BY FaultsRise, UnrepliedType
  <1>1. CASE Loop
    <2>1. CASE loop'.attempt \in {1, loop.attempt} /\ loop' # NoRun
      BY <1>a, <2>1 DEF Ended
    <2>2. CASE /\ Spend("fault") /\ loop'.attempt \in {1, loop.attempt + 1}
               /\ loop' = NoRun => loop.attempt >= DefaultAttempts
      <3>1. Faults' = Faults + 1
        BY <2>2, FailureCounts
      <3>2. NoRun.attempt = 1
        BY DEF NoRun, IdleRun
      <3> QED
        BY <1>a, <2>2, <3>1, <3>2 DEF Ended
    <2> QED
      BY <1>1, <2>1, <2>2, LoopAttempts DEF Loop
  <1>2. CASE ~Loop
    <2>1. loop' \in {loop, NewRun}
      BY <1>2, SignalsMove DEF Keeps, Holds, GoesOn, HandsOver
    <2>2. loop'.attempt \in {1, loop.attempt}
      BY <2>1 DEF NewRun, IdleRun
    <2> QED
      BY <1>2, <1>a, <2>2
  <1> QED
    BY <1>1, <1>2

\* The count moves only by a decision, and when a run fails it does not rise.
LEMMA NextCountStep ==
  ASSUME TypeInv, ReadInv, [Next]_vars, ~Decided
  PROVE  NextCount' <= NextCount
  <1>a. NextCount \in Int /\ contact_state.contact_attempts \in Nat
    BY UnrepliedType, CountRises
  <1>1. CASE loop.pc # "patch"
    <2>1. loop'.pc # "patch"
      BY <1>1, PatchStep
    <2>2. SameCount
      BY <1>1, CountMoves
    <2> QED
      BY <1>1, <1>a, <2>1, <2>2 DEF NextCount, NextState, SameCount
  <1>2. CASE loop.pc = "patch" /\ loop'.pc = "patch"
    <2>1. loop'.out = loop.out
      BY <1>2, PatchStep
    <2> QED
      BY <1>2, <1>a, <2>1 DEF NextCount, NextState
  <1>3. CASE loop.pc = "patch" /\ loop'.pc # "patch"
    <2>1. CASE SameCount
      BY <1>3, <1>a, <2>1 DEF NextCount, NextState, SameCount, ReadInv
    <2>2. CASE contact_state' = loop.out.state
      BY <1>3, <1>a, <2>2 DEF NextCount, NextState
    <2> QED
      BY <2>1, <2>2, CountMoves
  <1> QED
    BY <1>1, <1>2, <1>3

\* A planned reply stays planned until its row is there, unless the run fails.
LEMMA ReplyPlannedOn ==
  ASSUME TypeInv, PlanInv, PlaceInv, [Next]_vars, ~(Loop /\ Ended), ReplyPlanned, Replies' = Replies
  PROVE  ReplyPlanned'
  <1>1. loop.pc # "spawn"
    BY DEF PlaceInv, ReplyPlanned
  <1>2. loop'.out.tasks = loop.out.tasks /\ loop.out.tasks # <<>>
    BY <1>1, PlanDropped DEF ReplyPlanned
  <1> DEFINE key == Head(loop.out.tasks).idempotency_key
  <1>3. \A t \in DOMAIN tasks : tasks[t].idempotency_key # key
    BY DEF ReplyPlanned, TasksWithKey
  <1>4. ASSUME NEW t \in DOMAIN tasks', t \notin DOMAIN tasks
        PROVE  FALSE
    <2>1. IsReply(t)'
      BY <1>4, InsertedGoal DEF Plans, ReplyPlanned, IsReply
    <2> QED
      BY <1>4, <2>1 DEF Replies
  <1>5. \A t \in DOMAIN tasks' : tasks'[t].idempotency_key # key
    BY <1>3, <1>4, StepKeepsTasks DEF TasksKept
  <1> QED
    BY <1>2, <1>5 DEF ReplyPlanned, TasksWithKey

\* Outside a failure of the run no reply is lost that was decided.
LEMMA NoReplyLost ==
  ASSUME TypeInv, PlanInv, PlaceInv, ReadInv, [Next]_vars, ~Decided
  PROVE  /\ Unreplied' <= Unreplied + 1
         /\ ~(Loop /\ Ended) => Unreplied' <= Unreplied
  <1> DEFINE old == Cardinality(Replies)
             new == Cardinality(Replies')
             count == NextCount
             recount == NextCount'
             plan == IF ReplyPlanned THEN 1 ELSE 0
             replan == IF ReplyPlanned' THEN 1 ELSE 0
  <1>1. TypeInv'
    BY TypeStep
  <1>2. old \in Int /\ count \in Int
    BY UnrepliedType
  <1>3. new \in Int /\ recount \in Int
    <2>1. (NextCount \in Int /\ Cardinality(Replies) \in Int)'
      BY <1>1, UnrepliedType, PTL
    <2> QED
      BY <2>1
  <1>4. recount <= count
    BY NextCountStep
  <1>5. plan \in {0, 1} /\ replan \in {0, 1}
    OBVIOUS
  <1>6. new = old \/ new = old + 1
    BY OneMoreReply
  <1>7. ~(Loop /\ Ended) => new = old + 1 \/ replan >= plan
    <2>1. CASE Replies' = Replies
      BY <2>1, ReplyPlannedOn
    <2>2. CASE Replies' # Replies
      BY <2>2, OneMoreReply
    <2> QED
      BY <2>1, <2>2
  <1>8. Unreplied = count - old - plan /\ Unreplied' = recount - new - replan
    BY DEF Unreplied
  <1> HIDE DEF old, new, count, recount, plan, replan
  <1> QED
    BY <1>2, <1>3, <1>4, <1>5, <1>6, <1>7, <1>8

\* A text that is counted is given a reply to plan.
LEMMA ReplyDecided ==
  ASSUME TypeInv, PlanInv, PlaceInv, ReadInv, [Next]_vars, Decided
  PROVE  Unreplied' <= Unreplied
  <1> DEFINE s == loop.signal
             count == contact_state.contact_attempts
             old == Cardinality(Replies)
             replan == IF ReplyPlanned' THEN 1 ELSE 0
  <1>a. loop.pc = "decide" /\ loop'.out = Decision /\ loop'.pc # "decide"
        /\ (loop'.pc = "patch" <=> Decision.patch)
    BY DEF Decided
  <1>b. ~ReplyPlanned
    BY <1>a DEF PlanInv, Applying, ReplyPlanned
  <1>c. Replies' = Replies /\ contact_state'.contact_attempts = count
    BY <1>a, OneMoreReply, CountMoves DEF SameCount
  <1>d. count \in Nat /\ old \in Int
    BY CountRises, UnrepliedType
  <1>1. Unreplied = count - old
    <2>1. NextCount = count
      BY <1>a DEF NextCount, NextState
    <2>2. Unreplied = NextCount - old - 0
      BY <1>b DEF Unreplied
    <2> HIDE DEF count, old
    <2> QED
      BY <1>d, <2>1, <2>2
  <1>2. Unreplied' = NextCount' - old - replan
    BY <1>c DEF Unreplied
  <1>3. CASE /\ Decision.patch /\ Decision.tasks = Propose(s, "sms", clock, REPLY_GOAL)
             /\ Decision.state.contact_attempts = count + 1
    <2>1. NextCount' = count + 1
      BY <1>a, <1>3 DEF NextCount, NextState
    <2> DEFINE p == [idempotency_key |-> DeriveIdempotencyKey(s, "sms", 0), type |-> "sms",
                     scheduled_for |-> clock, goal |-> REPLY_GOAL]
    <2>2. loop'.out.tasks = <<p>>
      BY <1>a, <1>3 DEF Propose
    <2>3. p.goal = REPLY_GOAL /\ p.idempotency_key[1] = s
      BY DEF DeriveIdempotencyKey
    <2> HIDE DEF p
    <2>4. /\ loop'.out.tasks # <<>> /\ Head(loop'.out.tasks).goal = REPLY_GOAL
          /\ Head(loop'.out.tasks).idempotency_key[1] = s
      BY <2>2, <2>3
    <2>5. ASSUME NEW t \in DOMAIN tasks'
          PROVE  tasks'[t].idempotency_key # Head(loop'.out.tasks).idempotency_key
      <3>1. t \in DOMAIN tasks
        BY <1>a, InsertedGoal
      <3>2. CausedBy(t) # s
        BY <1>a, <3>1 DEF PlaceInv, Deciding
      <3> QED
        BY <2>4, <3>1, <3>2, StepKeepsTasks DEF TasksKept, CausedBy
    <2>6. ReplyPlanned'
      BY <2>4, <2>5 DEF ReplyPlanned, TasksWithKey
    <2>7. replan = 1
      BY <2>6
    <2> HIDE DEF count, old, replan
    <2> QED
      BY <1>1, <1>2, <1>d, <2>1, <2>7
  <1>4. CASE Decision.state.contact_attempts = count
    <2>1. NextCount' = count
      BY <1>a, <1>c, <1>4 DEF NextCount, NextState
    <2>2. replan \in {0, 1}
      OBVIOUS
    <2> HIDE DEF count, old, replan
    <2> QED
      BY <1>1, <1>2, <1>d, <2>1, <2>2
  <1> HIDE DEF Decision
  <1> QED
    BY <1>3, <1>4, <1>a, DecisionCounts

\* Arithmetic: what one more costs.
LEMMA OneMoreCosts ==
  ASSUME NEW d \in Nat, NEW a \in Int, NEW b \in Int
  PROVE  /\ d * a \in Int /\ d * b \in Int
         /\ b <= a => d * b <= d * a
         /\ b <= a + 1 => d * b <= d * a + d
  <1>1. ASSUME NEW n \in Int, n >= 0 PROVE d * n >= 0 /\ d * n \in Int
    BY <1>1
  <1>2. d * (a - b) = d * a - d * b /\ d * (a + 1 - b) = d * a + d - d * b
    OBVIOUS
  <1>3. b <= a => d * (a - b) >= 0
    BY <1>1
  <1>4. b <= a + 1 => d * (a + 1 - b) >= 0
    BY <1>1
  <1>5. d * a \in Int /\ d * b \in Int
    OBVIOUS
  <1> DEFINE da == d * a
             db == d * b
  <1>6. da \in Int /\ db \in Int
    BY <1>5
  <1>7. (b <= a => da - db >= 0) /\ (b <= a + 1 => da + d - db >= 0)
    BY <1>2, <1>3, <1>4
  <1>8. (b <= a => db <= da) /\ (b <= a + 1 => db <= da + d)
    <2> HIDE DEF da, db
    <2> QED
      BY <1>6, <1>7
  <1> QED
    BY <1>5, <1>8

(* Every reply that is lost is paid for.                                   *)
LEMMA LostStep == TypeInv /\ PlanInv /\ PlaceInv /\ ReadInv /\ LostInv /\ [Next]_vars => LostInv'
  <1> SUFFICES ASSUME TypeInv, PlanInv, PlaceInv, ReadInv, LostInv, [Next]_vars PROVE LostInv'
    OBVIOUS
  <1> DEFINE lost == Unreplied
             relost == Unreplied'
             cost == DefaultAttempts * lost
             recost == DefaultAttempts * relost
             faults == Faults
             refaults == Faults'
             try == loop.attempt
             retry == loop'.attempt
  <1>1. TypeInv'
    BY TypeStep
  <1>2. lost \in Int /\ faults \in Int /\ try \in Nat /\ DefaultAttempts \in Nat
    BY UnrepliedType
  <1>3. relost \in Int /\ refaults \in Int /\ retry \in Nat
    <2>1. (Unreplied \in Int /\ Faults \in Int /\ loop.attempt \in Nat)'
      BY <1>1, UnrepliedType, PTL
    <2> QED
      BY <2>1
  <1>4. /\ retry >= 1 /\ retry + faults <= try + refaults
        /\ Loop /\ Ended => retry = 1 /\ refaults = faults + 1 /\ try >= DefaultAttempts
    BY AttemptsAccounted DEF LostInv
  <1>5. /\ relost <= lost + 1
        /\ ~(Loop /\ Ended) => relost <= lost
    <2>1. CASE Decided
      <3>1. relost <= lost
        BY <2>1, ReplyDecided
      <3> HIDE DEF relost, lost
      <3> QED
        BY <1>2, <1>3, <3>1
    <2>2. CASE ~Decided
      BY <2>2, NoReplyLost
    <2> QED
      BY <2>1, <2>2
  <1>6. cost + try <= faults + 1
    BY DEF LostInv
  <1>7. /\ cost \in Int /\ recost \in Int
        /\ relost <= lost => recost <= cost
        /\ relost <= lost + 1 => recost <= cost + DefaultAttempts
    <2> HIDE DEF lost, relost
    <2> QED
      BY <1>2, <1>3, OneMoreCosts
  <1>8. recost + retry <= refaults + 1
    <2> HIDE DEF lost, relost, cost, recost, faults, refaults, try, retry
    <2>1. CASE Loop /\ Ended
      BY <1>2, <1>3, <1>4, <1>5, <1>6, <1>7, <2>1
    <2>2. CASE ~(Loop /\ Ended)
      BY <1>2, <1>3, <1>4, <1>5, <1>6, <1>7, <2>2
    <2> QED
      BY <2>1, <2>2
  <1> QED
    BY <1>4, <1>8 DEF LostInv

\* At first nothing was counted.
LEMMA LostInit == Init => LostInv
  <1> SUFFICES ASSUME Init PROVE LostInv
    OBVIOUS
  <1>1. /\ DOMAIN tasks = {} /\ loop.pc = "none" /\ loop.attempt = 1 /\ loop.out.tasks = <<>>
        /\ budget = Budget /\ contact_state = NewContactState
    BY EmptySeq DEF Init, StoreInit, LoopInit, NoRun, IdleRun, NoOutput, Output
  <1>2. Faults = 0
    BY <1>1, StoreAssumption DEF Faults, BudgetKind
  <1>3. Replies = {} /\ Cardinality(Replies) = 0
    BY <1>1, FS_EmptySet DEF Replies
  <1>4. NextCount = 0
    BY <1>1 DEF NextCount, NextState, NewContactState
  <1>5. Unreplied = 0
    BY <1>1, <1>3, <1>4 DEF Unreplied, ReplyPlanned
  <1>6. DefaultAttempts * 0 = 0
    BY LoopAssumption
  <1> QED
    BY <1>1, <1>2, <1>5, <1>6 DEF LostInv

\* So it holds always.
LEMMA LostInvariant == Spec => []LostInv
  BY LostInit, LostStep, OwnedInvariant, TypeInvariant, OnceInvariant, AttemptsInvariant, PTL
     DEF Spec

\* What the account says of the tables.
LEMMA LostIsPaidFor ==
  ASSUME TypeInv, PlanInv, PlaceInv, ReadInv, CountedInv, LostInv
  PROVE  CountedTextsHaveReplies
  <1> DEFINE count == contact_state.contact_attempts
             replies == Cardinality(Replies)
             next == NextCount
             plan == IF ReplyPlanned THEN 1 ELSE 0
             hand == IF ReplyInHand THEN 1 ELSE 0
             lost == count - replies - hand
  <1>1. ReplyTasks = Replies
    BY DEF ReplyTasks, Replies, IsReply
  <1>2. replies <= count
    BY DEF CountedInv
  <1>3. /\ count \in Nat /\ replies \in Int /\ next \in Int /\ Unreplied \in Int
        /\ Faults \in Int /\ loop.attempt \in Nat /\ DefaultAttempts \in Nat
    BY UnrepliedType DEF TypeInv, StoreInv, StoreTypeOK, ContactState
  <1>4. count <= next
    BY <1>3 DEF ReadInv, NextCount, NextState
  <1>5. ReplyPlanned => ReplyInHand
    <2> SUFFICES ASSUME ReplyPlanned PROVE ReplyInHand
      OBVIOUS
    <2>1. PICK proposed \in ProposedTask : loop.out.tasks = <<proposed>> /\ loop.pc \in Applying
      BY DEF PlanInv, ReplyPlanned
    <2>2. loop.pc # "spawn"
      BY DEF PlaceInv, ReplyPlanned
    <2>3. 1 \in DOMAIN loop.out.tasks /\ loop.out.tasks[1].goal = REPLY_GOAL
      BY <2>1 DEF ReplyPlanned
    <2> QED
      BY <2>1, <2>2, <2>3 DEF ReplyInHand, Applying
  <1>6. plan <= hand /\ plan \in {0, 1} /\ hand \in {0, 1}
    BY <1>5
  <1>7. Unreplied = next - replies - plan
    BY DEF Unreplied
  <1>8. lost \in Int /\ lost <= Unreplied
    <2> HIDE DEF count, replies, next, plan, hand
    <2> QED
      BY <1>3, <1>4, <1>6, <1>7
  <1>9. DefaultAttempts * lost <= DefaultAttempts * Unreplied
        /\ DefaultAttempts * lost \in Int /\ DefaultAttempts * Unreplied \in Int
    <2> HIDE DEF lost
    <2> QED
      BY <1>3, <1>8, OneMoreCosts
  <1>10. DefaultAttempts * lost <= Faults
    <2> DEFINE a == DefaultAttempts * lost
               b == DefaultAttempts * Unreplied
               try == loop.attempt
               faults == Faults
    <2>1. /\ a <= b /\ a \in Int /\ b \in Int /\ b + try <= faults + 1 /\ try >= 1
          /\ try \in Nat /\ faults \in Int
      BY <1>3, <1>9 DEF LostInv
    <2> HIDE DEF a, b, try, faults
    <2>2. a <= faults
      BY <2>1
    <2> QED
      BY <2>2 DEF a, faults
  <1> QED
    BY <1>1, <1>2, <1>10 DEF CountedTextsHaveReplies

(* There is no reply without a counted text, and a counted text has its    *)
(* reply in a task row or in hand, unless it is one of those that the      *)
(* failed attempts pay for, DefaultAttempts apiece                         *)
(* (contact_loop.py:91-124: the count is patched and the signal marked     *)
(* first, the task is inserted last, and nothing looks at a processed      *)
(* signal again).                                                          *)
THEOREM CountedTextsAreAnswered == Spec => []CountedTextsHaveReplies
  BY LostIsPaidFor, TypeInvariant, OnceInvariant, AttemptsInvariant, OwnedInvariant, CapInvariant,
     LostInvariant, PTL
=============================================================================
