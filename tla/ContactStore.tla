---------------------------- MODULE ContactStore ----------------------------
(***************************************************************************)
(* The Supabase tables of one contact, and what each activity of           *)
(* activities/contact_store.py, activities/logging.py and                  *)
(* activities/channels.py does to them.  Rows are records.  A signal's or  *)
(* a task's id is its index in its table; interactions and sent messages   *)
(* are numbered per task (`nth`), their order across tasks being of no     *)
(* account.  An operator here is the effect of ONE activity attempt; the   *)
(* workflows decide when it runs and whether its completion is reported.   *)
(***************************************************************************)
EXTENDS Decision, FiniteSets

CONSTANTS
  Times,      \* the instants at which the clock is observed (a bound for TLC)
  Messages,   \* Twilio MessageSids the contact's inbound SMS can carry
  NoMessage,  \* the null dedup_key
  Budget      \* how often each kind of environment event may happen (a bound)

BudgetKind == {"fault", "status", "call", "meeting"}

ASSUME StoreAssumption ==
  /\ Times \subseteq Nat
  /\ NoMessage \notin Messages
  /\ Budget \in [BudgetKind -> Nat]

VARIABLES
  clock,          \* workflow.now() and the wall clock
  contact,        \* contacts.status
  consent,        \* the current_consent view: latest decision per channel
  contact_state,  \* the contact_state row
  signals,        \* the signals table
  tasks,          \* the tasks table
  interactions,   \* the interactions table
  outbox,         \* messages handed to Twilio or Gmail for a task, with the time
  budget          \* what is left of Budget

(* History variables, read by properties only.                             *)
VARIABLES
  superseded,     \* tasks canceled before their execution had re-read its row
  barred          \* <<task, why>>: tasks whose execution woke up while sms consent
                  \* was revoked or the contact was dnc, and it was not lifted since

tables == <<contact, consent, contact_state, signals, tasks, interactions, outbox>>
history == <<superseded, barred>>

SignalStatus == {"received", "delivered", "processed", "failed"}
TaskStatus == {"scheduled", "running", "completed", "canceled", "skipped_guardrail"}

(* `channel` is the channel of the SignalEnvelope the row is delivered in; *)
(* outcome, goal and due are the payload's outcome, task_goal, meeting_end *)
SignalRow == [type: SignalType, channel: Channel, outcome: Outcome \cup {NoOutcome},
              goal: Goal \cup {NoGoal}, due: Time,
              dedup_key: Messages \cup {NoMessage}, status: SignalStatus]

\* caused_by_signal_id is the first component of the idempotency key.
TaskRow == [idempotency_key: IdempotencyKey, type: {"sms", "email"},
            scheduled_for: Nat, goal: Goal, status: TaskStatus]

\* task = 0 is a null task_id, result = 0 a null result_signal_id.
InteractionRow == [task: Nat, nth: Nat, result: Nat]

Sent == [task: Nat, nth: Nat, at: Nat]

\* The rows of table T that belong to task t.
Of(T, t) == {row \in T : row.task = t}

NextNth(T, t) == Cardinality(Of(T, t)) + 1

CausedBy(t) == tasks[t].idempotency_key[1]

TaskChannel(t) == IF tasks[t].type = "email" THEN "email" ELSE "sms"

-----------------------------------------------------------------------------
(* Writes.  Each sets exactly one table.                                   *)

InsertSignal(row) == signals' = Append(signals, row)

MarkSignalStatus(s, status) == signals' = [signals EXCEPT ![s].status = status]

TasksWithKey(key) == {t \in DOMAIN tasks : tasks[t].idempotency_key = key}

\* Wrong: the id of the row before the one just inserted.
InsertedTaskBefore(proposed) == Len(tasks)

\* The row insert_task returns: the existing one when the key is taken.
InsertedTask(proposed) ==
  LET taken == TasksWithKey(proposed.idempotency_key)
  IN  IF taken # {} THEN CHOOSE t \in taken : TRUE ELSE Len(tasks) + 1

NewTaskRow(proposed) ==
  [idempotency_key |-> proposed.idempotency_key, type |-> proposed.type,
   scheduled_for |-> proposed.scheduled_for, goal |-> proposed.goal,
   status |-> "scheduled"]

InsertTask(proposed) ==
  tasks' = IF TasksWithKey(proposed.idempotency_key) # {} THEN tasks
           ELSE Append(tasks, NewTaskRow(proposed))

\* update_task_status writes blindly: the row's present status is not looked at.
UpdateTaskStatus(t, status) == tasks' = [tasks EXCEPT ![t].status = status]

IsPendingFollowUp(t) ==
  /\ tasks[t].status = "scheduled"
  /\ tasks[t].type = "sms"
  /\ tasks[t].goal = FOLLOW_UP_GOAL

CancelScheduledFollowUps ==
  tasks' = [t \in DOMAIN tasks |->
              IF IsPendingFollowUp(t) THEN [tasks[t] EXCEPT !.status = "canceled"]
              ELSE tasks[t]]

\* get_or_create_contact_state
CreatedState == [contact_state EXCEPT !.exists = TRUE]

\* set_contact_workflow_id is an UPDATE: it matches no row before the first signal.
SetContactWorkflowId ==
  contact_state' = [contact_state EXCEPT !.linked = @ \/ contact_state.exists]

\* Wrong: the counter is incremented in place, once per attempt.
UpdateContactStateIncrementing(state) ==
  contact_state' = [state EXCEPT !.contact_attempts =
                      IF state.current_state = "awaiting_reply_send"
                      THEN contact_state.contact_attempts + 1 ELSE @]

UpdateContactState(state) == contact_state' = state

LogInteraction(t, result) ==
  interactions' = interactions \cup
    {[task |-> t, nth |-> NextNth(interactions, t), result |-> result]}

\* Wrong: the interaction keeps a null result_signal_id.
BackfillResultSkipped(t, n, s) == interactions' = interactions

BackfillResult(t, n, s) ==
  interactions' = {row \in interactions : row.task # t \/ row.nth # n}
                    \cup {[task |-> t, nth |-> n, result |-> s]}

Send(t) ==
  outbox' = outbox \cup {[task |-> t, nth |-> NextNth(outbox, t), at |-> clock]}

\* Wrong: the payload loses task_goal.
InteractionResultWithoutGoal(channel, outcome, goal) ==
  [type |-> "interaction_result", channel |-> channel, outcome |-> outcome,
   goal |-> NoGoal, due |-> NoTime, dedup_key |-> NoMessage, status |-> "received"]

InteractionResult(channel, outcome, goal) ==
  [type |-> "interaction_result", channel |-> channel, outcome |-> outcome,
   goal |-> goal, due |-> NoTime, dedup_key |-> NoMessage, status |-> "received"]

-----------------------------------------------------------------------------
Spend(kind) ==
  /\ budget[kind] > 0
  /\ budget' = [budget EXCEPT ![kind] = @ - 1]

StoreInit ==
  /\ clock \in Times
  /\ contact = "active"
  /\ consent = [ch \in Channel |-> "none"]
  /\ contact_state = NewContactState
  /\ signals = <<>>
  /\ tasks = <<>>
  /\ interactions = {}
  /\ outbox = {}
  /\ budget = Budget
  /\ superseded = {}
  /\ barred = {}

StoreTypeOK ==
  /\ clock \in Nat
  /\ contact \in ContactStatus
  /\ consent \in [Channel -> Consent]
  /\ contact_state \in ContactState
  /\ signals \in Seq(SignalRow)
  /\ tasks \in Seq(TaskRow)
  /\ interactions \subseteq InteractionRow
  /\ outbox \subseteq Sent
  /\ budget \in [BudgetKind -> Nat]
  /\ superseded \subseteq Nat
  /\ barred \subseteq Nat \X {"consent", "dnc"}
=============================================================================
