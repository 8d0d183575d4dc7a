----------------------------- MODULE AgentLoop ------------------------------
(***************************************************************************)
(* The Mirenta Runtime agent loop for one contact: the HTTP handlers, the  *)
(* contact's ContactLoopWorkflow and the TaskExecutionWorkflows it spawns, *)
(* interleaved over the contact's tables.                                  *)
(*                                                                         *)
(*   signal --> contact loop --> decision --> task --> task execution      *)
(*      ^                                                     |            *)
(*      +----------------- interaction_result ----------------+            *)
(***************************************************************************)
EXTENDS TaskExecution, SignalApi

CONSTANT MaxTasks   \* fairness is stated for the executions of tasks 1 .. MaxTasks

vars == <<clock, tables, budget, history, pending, loop, exec, requests>>

Init == StoreInit /\ LoopInit /\ requests = {}

Tick ==
  /\ \E t \in Times : t > clock /\ clock' = t
  /\ UNCHANGED <<tables, budget, history, pending, loop, exec, requests>>

Loop == LoopNext /\ UNCHANGED requests
ExecutionRuns(t) == ExecRuns(t) /\ UNCHANGED requests
ExecutionFails(t) == ExecActivityFails(t) /\ UNCHANGED requests

World ==
  \/ \E m \in Messages : ReceiveSms(m)
  \/ \E outcome \in VoiceOutcomes : FinalizeVoiceSession(outcome)
  \/ \E due \in MeetingEnds : ScheduleMeeting(due)
  \/ \E status \in ContactStatus : UpdateContact(status)

Next ==
  \/ Tick
  \/ Loop
  \/ \E t \in DOMAIN exec : ExecutionRuns(t) \/ ExecutionFails(t)
  \/ \E r \in requests : RequestRuns(r) \/ RequestFails(r) \/ RequestDies(r)
  \/ World

Spec == Init /\ [][Next]_vars

(* Temporal's workers keep polling and the API finishes the requests it    *)
(* accepted, so the three kinds of process are weakly fair; the outside    *)
(* world owes nothing.  Time passes.  An activity that failed is retried   *)
(* because the step it belongs to stays enabled.                           *)
Fairness ==
  /\ WF_vars(Tick)
  /\ WF_vars(Loop)
  /\ \A t \in 1 .. MaxTasks : WF_vars(ExecutionRuns(t))
  /\ WF_vars(\E r \in requests : RequestRuns(r))

FairSpec == Spec /\ Fairness

-----------------------------------------------------------------------------
(* Every variable has the type of the column or attribute it stands for.   *)
TypeOK == StoreTypeOK /\ LoopTypeOK /\ ExecTypeOK /\ ApiTypeOK

Phase(t) ==
  IF t \notin DOMAIN exec \/ exec[t].pc = "sleep" THEN "asleep"
  ELSE IF exec[t].pc \in {"done", "failed"} THEN "over" ELSE "awake"

Lifecycle == INSTANCE TaskLifecycle WITH
  status <- [t \in DOMAIN tasks |-> tasks[t].status],
  phase <- [t \in DOMAIN tasks |-> Phase(t)],
  sent <- {row.task : row \in outbox}

(* The executions, the loop's cancellations and every repeated attempt of  *)
(* an activity together keep to the life of a task: update_task_status     *)
(* writes blindly (task_execution.py:97), and yet a cancellation is lost   *)
(* only to an execution that was awake already, nothing is sent for a task *)
(* not marked running and a settled task is never reopened.                *)
TasksKeepToTheirLifecycle == Lifecycle!Spec

(* A nudge canceled before its execution woke up is never sent: the re-read*)
(* after the timer sees the cancellation, whatever is in flight meanwhile. *)
SupersededNeverSent == \A row \in outbox : row.task \notin superseded

(* An execution that wakes while the contact has opted out of SMS or is on *)
(* the do-not-contact list sends nothing, unless the bar was lifted since: *)
(* the reads and the check that follow the timer cannot miss it.           *)
BarredNeverSent == \A row \in outbox, b \in barred : b[1] # row.task

IsFollowUp(t) == tasks[t].goal = FOLLOW_UP_GOAL

(* A nudge never begets a nudge: the interaction whose result made the     *)
(* engine schedule a follow-up was not itself a follow-up's.  The goal has *)
(* to survive task row, interaction, signal payload and queue.             *)
NudgeNeverChains ==
  \A t \in DOMAIN tasks, row \in interactions :
    IsFollowUp(t) /\ row.result = CausedBy(t) /\ row.task # 0 => ~IsFollowUp(row.task)

(* The interactions whose result may call for one follow-up: finished      *)
(* calls, and the agent's messages that were not follow-ups themselves.    *)
NudgeableInteractions ==
  {row \in interactions : IF row.task = 0 THEN row.result # 0 ELSE ~IsFollowUp(row.task)}

FollowUps == {t \in DOMAIN tasks : IsFollowUp(t)}

\* The attempts of activities that were reported failed, rightly or not.
Faults == Budget["fault"] - budget["fault"]

(* At most one silence follow-up per interaction that may have one, and one *)
(* more for each attempt reported failed: the emission that is run again   *)
(* inserts and delivers a second result of the same interaction.           *)
OneNudgePerInteraction ==
  Cardinality(FollowUps) <= Cardinality(NudgeableInteractions) + Faults

InboundTexts(S) == {s \in S : signals[s].type = "inbound_sms"}

(* contact_attempts counts an inbound SMS once even when the patch of its  *)
(* decision is applied by several attempts of update_contact_state, and    *)
(* never one that is still waiting in the queue.                           *)
AttemptsNeverOvercounted ==
  LET queued == {pending[i] : i \in DOMAIN pending}
  IN  contact_state.contact_attempts + Cardinality(InboundTexts(queued))
        <= Cardinality(InboundTexts(DOMAIN signals))

ReplyTasks == {t \in DOMAIN tasks : tasks[t].goal = REPLY_GOAL}

\* A reply has been decided, and the run is on its way to inserting its task.
ReplyInHand ==
  /\ loop.pc \in {"patch", "cancel", "mark", "insert"}
  /\ \E i \in DOMAIN loop.out.tasks : loop.out.tasks[i].goal = REPLY_GOAL

(* A text is counted and its signal marked processed before the task of    *)
(* its reply is inserted (contact_loop.py:91-124), so a run that fails in *)
(* between leaves a text that nobody answers and nobody looks at again.    *)
(* That takes all attempts of one activity: no other retry, repetition or  *)
(* interleaving loses a reply that was counted, and none adds one that was *)
(* not.                                                                    *)
CountedTextsHaveReplies ==
  LET counted == contact_state.contact_attempts
      lost == counted - Cardinality(ReplyTasks) - (IF ReplyInHand THEN 1 ELSE 0)
  IN  /\ Cardinality(ReplyTasks) <= counted
      /\ DefaultAttempts * lost <= Faults

(* The replies sent between `opened` and the end of the frequency-cap      *)
(* window that begins there.                                               *)
RepliesWithin(opened) ==
  {row.task : row \in {sent \in outbox :
                         /\ tasks[sent.task].goal = REPLY_GOAL
                         /\ sent.at \in opened .. opened + FREQUENCY_CAP_WINDOW - 1}}

(* In the window opened by the contact's first text fewer replies go out   *)
(* than the cap, however the executions interleave with the loop: a reply  *)
(* is counted when it is decided and checked when it is due, so the one    *)
(* that reaches the cap is already denied.                                 *)
RepliesStayBelowCap ==
  LET opened == contact_state.attempts_window_start
  IN  opened # NoTime => Cardinality(RepliesWithin(opened)) < FREQUENCY_CAP_MAX_ATTEMPTS

(* A completed task left an unbroken trail: an interaction of its own whose*)
(* result signal is recorded and carries the task's goal.                  *)
AuditTrail ==
  \A t \in DOMAIN tasks :
    tasks[t].status = "completed" =>
      \E row \in interactions :
        /\ row.task = t
        /\ row.result \in DOMAIN signals
        /\ signals[row.result].goal = tasks[t].goal

(* A result that closes the contact's goal.                                *)
Closes(s) == signals[s].outcome \in {"opt_out", "goal_achieved"}

(* Once a meeting is booked, no result schedules a nudge behind its email, *)
(* in whatever order booking and results arrive (decision/rules.py:166-168,*)
(* "A booked meeting owns the next touch").  What lets one in is a reply to*)
(* a text in between or a result that closes the goal, both of which       *)
(* overwrite the state the rule looks at, or as many failed attempts as end*)
(* a run, which then may stop between its patch and its insert.            *)
MeetingOwnsNextTouch ==
  \A t, u \in DOMAIN tasks :
    tasks[t].goal = POST_MEETING_GOAL /\ u > t /\ IsFollowUp(u)
      => \/ \E v \in t + 1 .. u - 1 : tasks[v].goal = REPLY_GOAL
         \/ \E s \in DOMAIN signals : Closes(s)
         \/ Faults >= DefaultAttempts

-----------------------------------------------------------------------------
(* Every signal that reaches the queue is eventually run through the       *)
(* decision engine, if no activity exhausts its attempts.                  *)
QueuedSignalIsProcessed ==
  \A s \in 1 .. MaxTasks :
    (\E i \in DOMAIN pending : pending[i] = s)
      ~> (s \in DOMAIN signals /\ signals[s].status = "processed")

Settled == {"completed", "canceled", "skipped_guardrail"}

(* Every task that falls due ends for good: sent, canceled or skipped,     *)
(* with no execution left hanging.                                         *)
DueTaskSettles ==
  \A t \in 1 .. MaxTasks :
    (t \in DOMAIN tasks /\ \E now \in Times : tasks[t].scheduled_for <= now)
      ~> [](ExecAt(t, "done") /\ tasks[t].status \in Settled)

-----------------------------------------------------------------------------
(* What the documentation claims and the code does not deliver.            *)

(* docs/architecture.md:67: "`idempotency_key` guarantees a retried        *)
(* activity never double-sends".                                           *)
NeverDoubleSends == \A row \in outbox : row.nth = 1

(* decision/guardrails.py:82: the cap counts attempts "within the rolling  *)
(* window", so that no window, wherever it begins, has more than the cap.  *)
CapHoldsInEveryWindow ==
  \A row \in outbox : Cardinality(RepliesWithin(row.at)) <= FREQUENCY_CAP_MAX_ATTEMPTS
=============================================================================
