-------------------------- MODULE AgentLoopProofs ---------------------------
(***************************************************************************)
(* The arithmetic of quiet hours, the type of what the decision engine     *)
(* returns, and the type correctness of the agent loop, for every value of *)
(* the constants.                                                          *)
(* TypeOK is not inductive: a decision is typed only if the signal the     *)
(* loop runs through it is a row of the table, so TypeInv also says that   *)
(* every id the loop, an execution or a handler holds is that of a row     *)
(* that exists, and that the sets whose rows are counted are finite.       *)
(***************************************************************************)
EXTENDS AgentLoop, SequenceTheorems, FiniteSetTheorems, TLAPS


-----------------------------------------------------------------------------
(* Hours of the day.                                                       *)

(* The hour of the day is a remainder.                                     *)
LEMMA RemainderBound ==
  ASSUME NEW x \in Nat, NEW d \in Nat \ {0}
  PROVE  x % d \in 0 .. d - 1
  OBVIOUS

\* Division leaves its remainder.
LEMMA RemainderExists ==
  ASSUME NEW x \in Nat, NEW d \in Nat \ {0}
  PROVE  \E q \in Nat : x = d * q + (x % d)
  <1>1. x \div d \in Nat /\ x = d * (x \div d) + (x % d)
    OBVIOUS
  <1> QED
    BY <1>1

\* And no other.
LEMMA RemainderUnique ==
  ASSUME NEW q \in Nat, NEW d \in Nat \ {0}, NEW r \in 0 .. d - 1
  PROVE  (d * q + r) % d = r
  OBVIOUS

(* k hours later on the same day.                                          *)
LEMMA LaterSameDay ==
  ASSUME NEW x \in Nat, NEW k \in Nat, (x % DAY) + k < DAY
  PROVE  (x + k) % DAY = (x % DAY) + k
  <1> DEFINE m == x % DAY
  <1>1. PICK q \in Nat : x = DAY * q + m
    BY RemainderExists, DecisionAssumption
  <1>2. m \in Nat /\ m + k \in 0 .. DAY - 1 /\ DAY \in Nat
    BY RemainderBound, DecisionAssumption
  <1>3. DAY * q \in Nat
    BY <1>2
  <1>4. (DAY * q + (m + k)) % DAY = m + k
    BY <1>2, RemainderUnique, DecisionAssumption
  <1> HIDE DEF m
  <1>5. x + k = DAY * q + (m + k)
    BY <1>1, <1>2, <1>3
  <1>6. (x + k) % DAY = m + k
    BY <1>4, <1>5
  <1> QED
    BY <1>6 DEF m

(* k hours after the next midnight, r hours from x.                        *)
LEMMA LaterNextDay ==
  ASSUME NEW x \in Nat, NEW r \in Nat, (x % DAY) + r = DAY, NEW k \in Nat, k < DAY
  PROVE  (x + r + k) % DAY = k
  <1> DEFINE m == x % DAY
  <1>1. PICK q \in Nat : x = DAY * q + m
    BY RemainderExists, DecisionAssumption
  <1>2. m \in Nat /\ m + r = DAY /\ DAY \in Nat
    BY RemainderBound, DecisionAssumption
  <1>3. DAY * q \in Nat /\ DAY * (q + 1) = DAY * q + DAY
    BY <1>2
  <1>4. (DAY * (q + 1) + k) % DAY = k
    <2>1. q + 1 \in Nat /\ k \in 0 .. DAY - 1 /\ DAY \in Nat \ {0}
      BY DecisionAssumption
    <2> QED
      BY <2>1, RemainderUnique
  <1> HIDE DEF m
  <1>5. x + r + k = DAY * (q + 1) + k
    BY <1>1, <1>2, <1>3
  <1> QED
    BY <1>4, <1>5

\* The contact-local hour is an hour of the day.
LEMMA HourInDay ==
  ASSUME NEW t \in Nat
  PROVE  /\ t + TimezoneOffset \in Nat
         /\ (t + TimezoneOffset) % DAY \in 0 .. DAY - 1
  BY DecisionAssumption, RemainderBound

\* next_allowed_send_time never answers an earlier time.
LEMMA NextAllowedSendTimeType ==
  ASSUME NEW t \in Nat
  PROVE  NextAllowedSendTime(t) \in Nat /\ NextAllowedSendTime(t) >= t
  BY HourInDay, DecisionAssumption DEF NextAllowedSendTime

(* When quiet hours leave some of the day, next_allowed_send_time returns  *)
(* the first allowed hour that is not before its argument: it is not in    *)
(* quiet hours itself and every hour it skipped is, across midnight too.   *)
THEOREM NextAllowedSendTimeIsFirst ==
  ASSUME NEW t \in Nat, QUIET_HOURS_END < QUIET_HOURS_START
  PROVE  /\ ~IsQuietHours(NextAllowedSendTime(t))
         /\ \A u \in t .. NextAllowedSendTime(t) - 1 : IsQuietHours(u)
  <1> DEFINE x == t + TimezoneOffset
             hour == x % DAY
             next == NextAllowedSendTime(t)
  <1>1. /\ x \in Nat
        /\ x = t + TimezoneOffset
        /\ hour \in 0 .. DAY - 1
        /\ hour = x % DAY
        /\ DAY \in Nat \ {0}
    BY HourInDay, DecisionAssumption
  <1>2. IsQuietHours(t) <=> hour >= QUIET_HOURS_START \/ hour < QUIET_HOURS_END
    BY DEF IsQuietHours
  <1>3. next = IF ~IsQuietHours(t) THEN t
               ELSE IF hour < QUIET_HOURS_END THEN t + (QUIET_HOURS_END - hour)
               ELSE t + (DAY - hour) + QUIET_HOURS_END
    BY DEF NextAllowedSendTime
  <1> HIDE DEF x, hour, next
  <1>4. CASE ~IsQuietHours(t)
    BY <1>3, <1>4 DEF next
  <1>5. CASE IsQuietHours(t) /\ hour < QUIET_HOURS_END
    <2> DEFINE wait == QUIET_HOURS_END - hour
    <2>1. wait \in Nat /\ hour + wait = QUIET_HOURS_END /\ hour + wait < DAY
          /\ next = t + wait /\ next + TimezoneOffset = x + wait
      BY <1>1, <1>3, <1>5, DecisionAssumption
    <2> HIDE DEF wait
    <2>a. (x % DAY) + wait < DAY /\ (x % DAY) + wait = QUIET_HOURS_END
      BY <1>1, <2>1
    <2>2. (x + wait) % DAY = QUIET_HOURS_END
      BY <1>1, <2>1, <2>a, LaterSameDay
    <2>3. ~IsQuietHours(next)
      BY <2>1, <2>2, DecisionAssumption DEF IsQuietHours
    <2>4. ASSUME NEW u \in t .. next - 1
          PROVE  IsQuietHours(u)
      <3> DEFINE k == u - t
      <3>1. k \in Nat /\ hour + k < QUIET_HOURS_END /\ hour + k < DAY
            /\ u + TimezoneOffset = x + k
        BY <1>1, <2>1, DecisionAssumption
      <3> HIDE DEF k
      <3>a. (x % DAY) + k < DAY
        BY <1>1, <3>1
      <3>2. (x + k) % DAY = hour + k
        BY <1>1, <3>1, <3>a, LaterSameDay
      <3> QED
        BY <3>1, <3>2 DEF IsQuietHours
    <2> QED
      BY <2>3, <2>4 DEF next
  <1>6. CASE IsQuietHours(t) /\ ~(hour < QUIET_HOURS_END)
    <2> DEFINE rest == DAY - hour
    <2>1. rest \in Nat /\ rest = DAY - hour /\ hour >= QUIET_HOURS_START
          /\ QUIET_HOURS_END < DAY
          /\ next = t + rest + QUIET_HOURS_END
          /\ next + TimezoneOffset = x + rest + QUIET_HOURS_END
      BY <1>1, <1>2, <1>3, <1>6, DecisionAssumption
    <2> HIDE DEF rest
    <2>a. (x % DAY) + rest = DAY
      BY <1>1, <2>1
    <2>2. ASSUME NEW j \in Nat, j < DAY
          PROVE  (x + rest + j) % DAY = j
      BY <1>1, <2>1, <2>2, <2>a, LaterNextDay
    <2>3. ~IsQuietHours(next)
      BY <2>1, <2>2, DecisionAssumption DEF IsQuietHours
    <2>4. ASSUME NEW u \in t .. next - 1
          PROVE  IsQuietHours(u)
      <3> DEFINE k == u - t
      <3>1. k \in Nat /\ u + TimezoneOffset = x + k /\ k < rest + QUIET_HOURS_END
        BY <1>1, <2>1, DecisionAssumption
      <3> HIDE DEF k
      <3>2. CASE k < rest
        <4>1. hour + k < DAY
          BY <1>1, <2>1, <3>1, <3>2, DecisionAssumption
        <4>a. (x % DAY) + k < DAY
          BY <1>1, <4>1
        <4>2. (x + k) % DAY = hour + k
          BY <1>1, <3>1, <4>a, LaterSameDay
        <4>3. hour + k >= QUIET_HOURS_START
          BY <1>1, <2>1, <3>1, DecisionAssumption
        <4> QED
          BY <3>1, <4>2, <4>3 DEF IsQuietHours
      <3>3. CASE k >= rest
        <4> DEFINE j == k - rest
        <4>1. j \in Nat /\ j < QUIET_HOURS_END /\ j < DAY /\ x + k = x + rest + j
          BY <1>1, <2>1, <3>1, <3>3, DecisionAssumption
        <4> HIDE DEF j
        <4>2. (x + rest + j) % DAY = j
          BY <2>2, <4>1
        <4> QED
          BY <3>1, <4>1, <4>2 DEF IsQuietHours
      <3> QED
        BY <2>1, <3>1, <3>2, <3>3
    <2> QED
      BY <2>3, <2>4 DEF next
  <1> QED
    BY <1>4, <1>5, <1>6

-----------------------------------------------------------------------------
(* What the rules return.                                                  *)

\* A rule proposes well-formed tasks.
LEMMA ProposeType ==
  ASSUME NEW s \in Nat, NEW type \in {"sms", "email"}, NEW at \in Nat, NEW goal \in Goal
  PROVE  Propose(s, type, at, goal) \in Seq(ProposedTask)
  <1>1. [idempotency_key |-> <<s, type, 0>>, type |-> type, scheduled_for |-> at, goal |-> goal]
          \in ProposedTask
    BY DEF ProposedTask, IdempotencyKey
  <1> QED
    BY <1>1 DEF Propose, DeriveIdempotencyKey

\* What a rule returns is a DecisionOutput.
LEMMA OutputType ==
  ASSUME NEW T \in Seq(ProposedTask), NEW state \in ContactState,
         NEW patch \in BOOLEAN, NEW cancel \in BOOLEAN
  PROVE  Output(T, state, patch, cancel) \in DecisionOutput
  BY DEF Output, DecisionOutput

\* No task at all is a well-formed proposal.
LEMMA NoTasks == <<>> \in Seq(ProposedTask)
  OBVIOUS

\* The patch of an inbound SMS leaves a contact_state row.
LEMMA CountedState ==
  ASSUME NEW state \in ContactState, NEW n \in Nat, NEW start \in Time,
         NEW current \in CurrentState, NEW next \in Time
  PROVE  [state EXCEPT !.contact_attempts = n, !.attempts_window_start = start,
                       !.current_state = current, !.next_task_at = next] \in ContactState
  BY DEF ContactState

\* So does a patch of current_state alone,
LEMMA MovedState ==
  ASSUME NEW state \in ContactState, NEW current \in CurrentState
  PROVE  [state EXCEPT !.current_state = current] \in ContactState
  BY DEF ContactState

\* one of next_task_at alone,
LEMMA PlannedState ==
  ASSUME NEW state \in ContactState, NEW next \in Time
  PROVE  [state EXCEPT !.next_task_at = next] \in ContactState
  BY DEF ContactState

\* and the patch that closes the conversation.
LEMMA ClosingState ==
  ASSUME NEW state \in ContactState, NEW current \in CurrentState, NEW next \in Time
  PROVE  [state EXCEPT !.current_state = current, !.next_task_at = next] \in ContactState
  BY DEF ContactState

\* decide_on_inbound_sms returns a DecisionOutput for every input.
LEMMA DecideOnInboundSmsType ==
  ASSUME NEW s \in Nat, NEW signal \in SignalRow, NEW c \in ContactStatus,
         NEW state \in ContactState, NEW con \in Consent, NEW now \in Nat
  PROVE  DecideOnInboundSms(s, signal, c, state, con, now) \in DecisionOutput
  <1>1. /\ state.contact_attempts + 1 \in Nat
        /\ (IF state.attempts_window_start = NoTime THEN now ELSE state.attempts_window_start)
             \in Time
        /\ "awaiting_reply_send" \in CurrentState
        /\ NoTime \in Time
    BY DEF ContactState, CurrentState, Time
  <1>2. [state EXCEPT
                 !.contact_attempts = @ + 1,
                 !.attempts_window_start = IF @ = NoTime THEN now ELSE @,
                 !.current_state = "awaiting_reply_send",
                 !.next_task_at = NoTime] \in ContactState
    BY <1>1, CountedState
  <1>3. Propose(s, "sms", now, REPLY_GOAL) \in Seq(ProposedTask)
    BY ProposeType DEF Goal
  <1> QED
    BY <1>2, <1>3, NoTasks, OutputType DEF DecideOnInboundSms

\* decide_on_meeting_scheduled does.
LEMMA DecideOnMeetingScheduledType ==
  ASSUME NEW s \in Nat, NEW signal \in SignalRow, NEW c \in ContactStatus,
         NEW state \in ContactState, NEW con \in Consent, NEW now \in Nat
  PROVE  DecideOnMeetingScheduled(s, signal, c, state, con, now) \in DecisionOutput
  <1> DEFINE booked == [state EXCEPT !.current_state = MEETING_SCHEDULED_STATE]
  <1>1. booked \in ContactState
    BY MovedState DEF CurrentState
  <1>2. CASE signal.due = NoTime
    BY <1>2, NoTasks, OutputType DEF DecideOnMeetingScheduled
  <1>3. CASE signal.due # NoTime
    <2>1. signal.due \in Nat
      BY <1>3 DEF SignalRow, Time
    <2>2. [booked EXCEPT !.next_task_at = signal.due] \in ContactState
      BY <1>1, <2>1, PlannedState DEF Time
    <2>3. Propose(s, "email", signal.due, POST_MEETING_GOAL) \in Seq(ProposedTask)
      BY <2>1, ProposeType DEF Goal
    <2> QED
      BY <1>1, <1>3, <2>2, <2>3, NoTasks, OutputType DEF DecideOnMeetingScheduled
  <1> QED
    BY <1>2, <1>3

\* decide_on_interaction_result does.
LEMMA DecideOnInteractionResultType ==
  ASSUME NEW s \in Nat, NEW signal \in SignalRow, NEW c \in ContactStatus,
         NEW state \in ContactState, NEW con \in Consent, NEW now \in Nat
  PROVE  DecideOnInteractionResult(s, signal, c, state, con, now) \in DecisionOutput
  <1> DEFINE nudge_at == NextAllowedSendTime(now + FOLLOW_UP_DELAY)
  <1> DEFINE active == [state EXCEPT !.current_state = "active"]
  <1>1. nudge_at \in Nat
    <2>1. now + FOLLOW_UP_DELAY \in Nat
      BY DecisionAssumption
    <2> QED
      BY <2>1, NextAllowedSendTimeType
  <1>2. active \in ContactState
    BY MovedState DEF CurrentState
  <1>3. [active EXCEPT !.next_task_at = nudge_at] \in ContactState
    BY <1>1, <1>2, PlannedState DEF Time
  <1>4. [state EXCEPT !.current_state = ClosedState(signal.outcome), !.next_task_at = NoTime]
          \in ContactState
    <2>1. ClosedState(signal.outcome) \in CurrentState /\ NoTime \in Time
      BY DEF ClosedState, CurrentState, Time
    <2> QED
      BY <2>1, ClosingState
  <1>5. Propose(s, "sms", nudge_at, FOLLOW_UP_GOAL) \in Seq(ProposedTask)
    BY <1>1, ProposeType DEF Goal
  <1> HIDE DEF nudge_at
  <1> QED
    BY <1>2, <1>3, <1>4, <1>5, NoTasks, OutputType DEF DecideOnInteractionResult, nudge_at

\* So decision.evaluate does, for every signal type.
LEMMA EvaluateType ==
  ASSUME NEW s \in Nat, NEW signal \in SignalRow, NEW c \in ContactStatus,
         NEW state \in ContactState, NEW con \in Consent, NEW now \in Nat
  PROVE  Evaluate(s, signal, c, state, con, now) \in DecisionOutput
  BY DecideOnInboundSmsType, DecideOnMeetingScheduledType, DecideOnInteractionResultType,
     NoTasks, OutputType DEF Evaluate

-----------------------------------------------------------------------------
(* What is always true of the rows and of who holds their ids.             *)

\* The tables whose rows NextNth counts.
Finite == IsFiniteSet(interactions) /\ IsFiniteSet(outbox)

StoreInv == StoreTypeOK /\ Finite

\* The rows a run of the loop points at are there.
GoodRun(run, signalIds, taskIds) ==
  /\ run \in LoopRun
  /\ run.pc \notin {"none", "register", "idle"} => run.signal \in signalIds
  /\ run.pc \in {"insert", "spawn"} => run.out.tasks # <<>>
  /\ run.pc = "spawn" => run.task \in taskIds

LoopInv ==
  /\ pending \in Seq(DOMAIN signals)
  /\ GoodRun(loop, DOMAIN signals, DOMAIN tasks)

\* So is the signal an execution has inserted and is about to deliver.
GoodExecution(e, signalIds) ==
  /\ e \in Execution
  /\ e.pc \in {"backfill", "deliver"} => e.signal \in signalIds

ExecInv ==
  /\ DOMAIN exec \subseteq DOMAIN tasks
  /\ \A t \in DOMAIN exec : GoodExecution(exec[t], DOMAIN signals)

ApiInv ==
  /\ requests \subseteq Request
  /\ \A r \in requests : r.pc # "emit" => r.signal \in DOMAIN signals

TypeInv == StoreInv /\ LoopInv /\ ExecInv /\ ApiInv

\* No step removes a row that an id can point at.
Grows == DOMAIN signals \subseteq DOMAIN signals' /\ DOMAIN tasks \subseteq DOMAIN tasks'

-----------------------------------------------------------------------------
\* Ids in the queue stay valid while the signals table only grows.
LEMMA PendingKept ==
  ASSUME Grows, signals \in Seq(SignalRow), signals' \in Seq(SignalRow),
         pending \in Seq(DOMAIN signals)
  PROVE  pending \in Seq(DOMAIN signals')
  <1>1. DOMAIN signals \subseteq DOMAIN signals'
    BY DEF Grows
  <1> QED
    BY <1>1, SeqMonotonic

\* A step that leaves the loop alone keeps its invariant.
LEMMA LoopKept ==
  ASSUME LoopInv, Grows, signals \in Seq(SignalRow), signals' \in Seq(SignalRow),
         UNCHANGED <<pending, loop>>
  PROVE  LoopInv'
  BY PendingKept DEF LoopInv, GoodRun, Grows

\* A step that leaves every execution alone keeps theirs.
LEMMA ExecKept ==
  ASSUME ExecInv, Grows, UNCHANGED exec
  PROVE  ExecInv'
  BY DEF ExecInv, GoodExecution, Grows

\* A step that leaves the handlers in flight alone keeps theirs.
LEMMA ApiKept ==
  ASSUME ApiInv, Grows, UNCHANGED requests
  PROVE  ApiInv'
  BY DEF ApiInv, Grows

\* So does one that moves a single execution to a good record.
LEMMA ExecStep ==
  ASSUME ExecInv, Grows, NEW t \in DOMAIN exec, NEW e, GoodExecution(e, DOMAIN signals'),
         exec' = [exec EXCEPT ![t] = e]
  PROVE  ExecInv'
  BY DEF ExecInv, GoodExecution, Grows

\* Tables that do not change have not shrunk.
LEMMA UnchangedGrows ==
  ASSUME UNCHANGED <<signals, tasks>>
  PROVE  Grows
  BY DEF Grows

-----------------------------------------------------------------------------
\* An UPDATE of one row, there or not, keeps a table a table and adds no row.
LEMMA RowUpdate ==
  ASSUME NEW S, NEW table \in Seq(S), NEW i, NEW row, i \in DOMAIN table => row \in S
  PROVE  /\ [table EXCEPT ![i] = row] \in Seq(S)
         /\ DOMAIN [table EXCEPT ![i] = row] = DOMAIN table
  <1>1. CASE i \in DOMAIN table
    BY <1>1, ExceptSeq, LenProperties
  <1>2. CASE i \notin DOMAIN table
    <2>1. table = [table EXCEPT ![i] = row]
      BY <1>2, LenProperties
    <2> QED
      BY <2>1
  <1> QED
    BY <1>1, <1>2

\* A status written over a signal keeps the signals table typed.
LEMMA MarkSignalStatusType ==
  ASSUME signals \in Seq(SignalRow), NEW s, NEW status \in SignalStatus,
         MarkSignalStatus(s, status)
  PROVE  signals' \in Seq(SignalRow) /\ DOMAIN signals' = DOMAIN signals
  <1> DEFINE row == [signals[s] EXCEPT !.status = status]
  <1>1. signals' = [signals EXCEPT ![s] = row]
    BY DEF MarkSignalStatus
  <1>2. s \in DOMAIN signals => row \in SignalRow
    <2>1. s \in DOMAIN signals => signals[s] \in SignalRow
      BY ElementOfSeq, LenProperties
    <2> QED
      BY <2>1 DEF SignalRow
  <1> HIDE DEF row
  <1> QED
    BY <1>1, <1>2, RowUpdate

\* An inserted signal's id is the one the row has in the table.
LEMMA InsertSignalType ==
  ASSUME signals \in Seq(SignalRow), NEW row \in SignalRow, InsertSignal(row)
  PROVE  /\ signals' \in Seq(SignalRow)
         /\ DOMAIN signals \subseteq DOMAIN signals'
         /\ Len(signals) + 1 \in DOMAIN signals'
         /\ Len(signals) + 1 \in Nat
  BY DEF InsertSignal

\* update_task_status keeps the tasks table typed, whatever id it is given.
LEMMA UpdateTaskStatusType ==
  ASSUME tasks \in Seq(TaskRow), NEW t, NEW status \in TaskStatus,
         UpdateTaskStatus(t, status)
  PROVE  tasks' \in Seq(TaskRow) /\ DOMAIN tasks' = DOMAIN tasks
  <1> DEFINE row == [tasks[t] EXCEPT !.status = status]
  <1>1. tasks' = [tasks EXCEPT ![t] = row]
    BY DEF UpdateTaskStatus
  <1>2. t \in DOMAIN tasks => row \in TaskRow
    <2>1. t \in DOMAIN tasks => tasks[t] \in TaskRow
      BY ElementOfSeq, LenProperties
    <2> QED
      BY <2>1 DEF TaskRow
  <1> HIDE DEF row
  <1> QED
    BY <1>1, <1>2, RowUpdate

\* cancel_scheduled_follow_ups keeps the tasks table typed and loses no row.
LEMMA CancelScheduledFollowUpsType ==
  ASSUME tasks \in Seq(TaskRow), CancelScheduledFollowUps
  PROVE  tasks' \in Seq(TaskRow) /\ DOMAIN tasks' = DOMAIN tasks
  <1>1. ASSUME NEW t \in DOMAIN tasks
        PROVE  tasks[t] \in TaskRow /\ [tasks[t] EXCEPT !.status = "canceled"] \in TaskRow
    <2>1. tasks[t] \in TaskRow
      BY ElementOfSeq, LenProperties
    <2> QED
      BY <2>1 DEF TaskRow, TaskStatus
  <1>2. DOMAIN tasks = 1 .. Len(tasks) /\ Len(tasks) \in Nat
    OBVIOUS
  <1>3. tasks' \in [1 .. Len(tasks) -> TaskRow]
    BY <1>1, <1>2 DEF CancelScheduledFollowUps
  <1> QED
    BY <1>2, <1>3, SeqDef

\* The id insert_task answers is that of a row, a new one or the one it found.
LEMMA InsertTaskType ==
  ASSUME tasks \in Seq(TaskRow), NEW proposed \in ProposedTask, InsertTask(proposed)
  PROVE  /\ tasks' \in Seq(TaskRow)
         /\ DOMAIN tasks \subseteq DOMAIN tasks'
         /\ InsertedTask(proposed) \in DOMAIN tasks'
         /\ InsertedTask(proposed) \in Nat
  <1>1. NewTaskRow(proposed) \in TaskRow
    BY DEF NewTaskRow, TaskRow, ProposedTask, TaskStatus
  <1>2. TasksWithKey(proposed.idempotency_key) \subseteq DOMAIN tasks
    BY DEF TasksWithKey
  <1>3. DOMAIN tasks = 1 .. Len(tasks) /\ Len(tasks) \in Nat
    OBVIOUS
  <1>4. CASE TasksWithKey(proposed.idempotency_key) = {}
    BY <1>1, <1>3, <1>4 DEF InsertTask, InsertedTask
  <1>5. CASE TasksWithKey(proposed.idempotency_key) # {}
    <2>1. InsertedTask(proposed) \in TasksWithKey(proposed.idempotency_key)
      BY <1>5 DEF InsertedTask
    <2> QED
      BY <1>2, <1>3, <1>5, <2>1 DEF InsertTask
  <1> QED
    BY <1>4, <1>5

\* Rows of one task are numbered by natural numbers.
LEMMA NextNthType ==
  ASSUME NEW T, IsFiniteSet(T), NEW t
  PROVE  NextNth(T, t) \in Nat
  <1>1. Of(T, t) \in SUBSET T
    BY DEF Of
  <1>2. IsFiniteSet(Of(T, t))
    BY <1>1, FS_Subset
  <1> QED
    BY <1>2, FS_CardinalityType DEF NextNth

\* log_interaction adds one typed row.
LEMMA LogInteractionType ==
  ASSUME interactions \subseteq InteractionRow, IsFiniteSet(interactions),
         NEW t \in Nat, NEW result \in Nat, LogInteraction(t, result)
  PROVE  interactions' \subseteq InteractionRow /\ IsFiniteSet(interactions')
  <1>1. [task |-> t, nth |-> NextNth(interactions, t), result |-> result] \in InteractionRow
    BY NextNthType DEF InteractionRow
  <1> QED
    BY <1>1, FS_AddElement DEF LogInteraction

\* the backfill of result_signal_id rewrites one row.
LEMMA BackfillResultType ==
  ASSUME interactions \subseteq InteractionRow, IsFiniteSet(interactions),
         NEW t \in Nat, NEW n \in Nat, NEW s \in Nat, BackfillResult(t, n, s)
  PROVE  interactions' \subseteq InteractionRow /\ IsFiniteSet(interactions')
  <1> DEFINE others == {row \in interactions : row.task # t \/ row.nth # n}
  <1>1. others \in SUBSET interactions
    OBVIOUS
  <1>2. IsFiniteSet(others)
    BY <1>1, FS_Subset
  <1>3. [task |-> t, nth |-> n, result |-> s] \in InteractionRow
    BY DEF InteractionRow
  <1> QED
    BY <1>1, <1>2, <1>3, FS_AddElement DEF BackfillResult

\* A message handed to a provider is one more row of the outbox.
LEMMA SendType ==
  ASSUME outbox \subseteq Sent, IsFiniteSet(outbox), clock \in Nat, NEW t \in Nat, Send(t)
  PROVE  outbox' \subseteq Sent /\ IsFiniteSet(outbox')
  <1>1. [task |-> t, nth |-> NextNth(outbox, t), at |-> clock] \in Sent
    BY NextNthType DEF Sent
  <1> QED
    BY <1>1, FS_AddElement DEF Send

\* No budget of the environment goes below zero.
LEMMA SpendType ==
  ASSUME budget \in [BudgetKind -> Nat], NEW kind \in BudgetKind, Spend(kind)
  PROVE  budget' \in [BudgetKind -> Nat]
  BY DEF Spend

-----------------------------------------------------------------------------
\* A closed loop and a freshly opened one point at no row.
LEMMA NoRunType == \A S, T : GoodRun(NoRun, S, T) /\ GoodRun(NewRun, S, T)
  BY NoTasks, OutputType DEF GoodRun, NoRun, NewRun, IdleRun, LoopRun, LoopPc, NoOutput,
     ContactStatus, Consent, NewContactState, ContactState, CurrentState, Time

\* Counting attempts disturbs nothing else of a run.
LEMMA AttemptType ==
  ASSUME NEW run, NEW S, NEW T, GoodRun(run, S, T), NEW n \in Nat
  PROVE  GoodRun([run EXCEPT !.attempt = n], S, T)
  BY DEF GoodRun, LoopRun

\* Nor does turning to the next task of a decision.
LEMMA InsertingType ==
  ASSUME NEW run \in LoopRun, NEW out \in DecisionOutput
  PROVE  [run EXCEPT !.pc = "insert", !.out = out, !.task = 0] \in LoopRun
  BY DEF LoopRun, LoopPc

\* A retry, and the failure of the whole workflow after the last one, keep the loop's invariant.
LEMMA LoopAttemptFailsInv ==
  ASSUME LoopInv, Grows, signals \in Seq(SignalRow), signals' \in Seq(SignalRow),
         budget \in [BudgetKind -> Nat], LoopAttemptFails
  PROVE  LoopInv' /\ budget' \in [BudgetKind -> Nat]
  <1>1. budget' \in [BudgetKind -> Nat]
    BY SpendType DEF LoopAttemptFails, BudgetKind
  <1>2. CASE loop.attempt < DefaultAttempts
    <2>1. loop' = [loop EXCEPT !.attempt = @ + 1] /\ pending' = pending
      BY <1>2 DEF LoopAttemptFails
    <2>2. loop.attempt + 1 \in Nat
      BY DEF LoopInv, GoodRun, LoopRun
    <2>3. GoodRun(loop, DOMAIN signals', DOMAIN tasks')
      BY DEF LoopInv, GoodRun, Grows
    <2>4. GoodRun(loop', DOMAIN signals', DOMAIN tasks')
      BY <2>1, <2>2, <2>3, AttemptType
    <2> QED
      BY <1>1, <2>1, <2>4, PendingKept DEF LoopInv
  <1>3. CASE ~(loop.attempt < DefaultAttempts)
    <2>1. loop' = NoRun /\ pending' = <<>>
      BY <1>3 DEF LoopAttemptFails
    <2> QED
      BY <1>1, <2>1, NoRunType DEF LoopInv
  <1> QED
    BY <1>2, <1>3

\* So does a completed activity, whether its completion is reported or lost.
LEMMA LoopCompletesInv ==
  ASSUME LoopInv, Grows, signals \in Seq(SignalRow), signals' \in Seq(SignalRow),
         budget \in [BudgetKind -> Nat],
         NEW next, GoodRun(next, DOMAIN signals', DOMAIN tasks'), LoopCompletes(next)
  PROVE  LoopInv' /\ budget' \in [BudgetKind -> Nat]
  <1>1. GoodRun([next EXCEPT !.attempt = 1], DOMAIN signals', DOMAIN tasks')
    BY AttemptType
  <1> QED
    BY <1>1, LoopAttemptFailsInv, PendingKept DEF LoopCompletes, LoopInv

\* signal-with-start queues an id that is in the table.
LEMMA SignalWithStartInv ==
  ASSUME LoopInv, Grows, signals \in Seq(SignalRow), signals' \in Seq(SignalRow),
         NEW s \in DOMAIN signals', SignalWithStart(s)
  PROVE  LoopInv'
  <1>1. pending' \in Seq(DOMAIN signals')
    BY PendingKept DEF LoopInv, SignalWithStart
  <1>2. GoodRun(loop', DOMAIN signals', DOMAIN tasks')
    BY NoRunType DEF LoopInv, SignalWithStart, GoodRun, Grows
  <1> QED
    BY <1>1, <1>2 DEF LoopInv

\* What follows a handled signal, continue-as-new or the next wait, points at no row.
LEMMA HandledType ==
  ASSUME LoopInv
  PROVE  \A S, T : GoodRun(Handled, S, T)
  <1>1. loop.processed + 1 \in Nat
    BY DEF LoopInv, GoodRun, LoopRun
  <1>2. \A n \in Nat : \A S, T : GoodRun(IdleRun("idle", n), S, T)
    BY NoTasks, OutputType DEF GoodRun, IdleRun, LoopRun, LoopPc, NoOutput,
       ContactStatus, Consent, NewContactState, ContactState, CurrentState, Time
  <1> QED
    BY <1>1, <1>2, NoRunType DEF Handled

\* The loop is at an insertion only while a task of the decision is left.
LEMMA NextTaskType ==
  ASSUME LoopInv, loop.signal \in DOMAIN signals, NEW out \in DecisionOutput
  PROVE  \A T : GoodRun(NextTask(out), DOMAIN signals, T)
  <1>1. CASE out.tasks = <<>>
    BY <1>1, HandledType DEF NextTask
  <1>2. CASE out.tasks # <<>>
    <2>1. NextTask(out) = [loop EXCEPT !.pc = "insert", !.out = out, !.task = 0]
      BY <1>2 DEF NextTask
    <2>2. loop \in LoopRun
      BY DEF LoopInv, GoodRun
    <2>3. NextTask(out) \in LoopRun
      BY <2>1, <2>2, InsertingType
    <2>4. /\ NextTask(out).pc = "insert"
          /\ NextTask(out).out = out
          /\ NextTask(out).signal = loop.signal
      BY <2>1, <2>2 DEF LoopRun
    <2> QED
      BY <1>2, <2>3, <2>4 DEF GoodRun
  <1> QED
    BY <1>1, <1>2

-----------------------------------------------------------------------------
\* A step that writes no table keeps the store's invariant.
LEMMA StoreKept ==
  ASSUME StoreInv, UNCHANGED <<clock, tables, history>>,
         budget' \in [BudgetKind -> Nat]
  PROVE  StoreInv'
  BY DEF StoreInv, StoreTypeOK, Finite, tables, history

\* get_or_create_contact_state answers a contact_state row.
LEMMA CreatedStateType ==
  ASSUME contact_state \in ContactState
  PROVE  CreatedState \in ContactState
  BY DEF CreatedState, ContactState

\* set_contact_workflow_id leaves one, whether or not it matched it.
LEMMA SetContactWorkflowIdType ==
  ASSUME contact_state \in ContactState, SetContactWorkflowId
  PROVE  contact_state' \in ContactState
  <1>1. (contact_state.linked \/ contact_state.exists) \in BOOLEAN
    BY DEF ContactState
  <1> QED
    BY <1>1 DEF SetContactWorkflowId, ContactState

\* After decision.evaluate the run still knows its signal.
LEMMA DecidedType ==
  ASSUME NEW step \in {"patch", "cancel", "mark"}, NEW n \in Nat, NEW S, NEW s \in Nat \cap S,
         NEW out \in DecisionOutput
  PROVE  \A T : GoodRun([IdleRun(step, n) EXCEPT !.signal = s, !.out = out], S, T)
  BY DEF GoodRun, IdleRun, LoopRun, LoopPc, ContactStatus, Consent, NewContactState,
     ContactState, CurrentState, Time

\* A child workflow starts in a good state.
LEMMA NewExecutionType == \A S : GoodExecution(NewExecution, S)
  BY DEF GoodExecution, NewExecution, Execution, ExecPc, ContactStatus, Consent,
     NewContactState, ContactState, CurrentState, Time

\* Every step of ContactLoopWorkflow keeps the type invariant.
LEMMA LoopInvStep ==
  ASSUME TypeInv, LoopNext, UNCHANGED requests
  PROVE  TypeInv'
  <1> USE DEF TypeInv
  <1>1. CASE LoopRegister
    <2>1. contact_state' \in ContactState
      BY <1>1, SetContactWorkflowIdType DEF LoopRegister, StoreInv, StoreTypeOK
    <2>2. Grows /\ signals' = signals
      BY <1>1, UnchangedGrows DEF LoopRegister
    <2>3. GoodRun([loop EXCEPT !.pc = "idle"], DOMAIN signals', DOMAIN tasks')
      BY <1>1 DEF LoopRegister, LoopInv, GoodRun, LoopRun, LoopPc
    <2>4. LoopInv' /\ budget' \in [BudgetKind -> Nat]
      BY <1>1, <2>2, <2>3, LoopCompletesInv DEF LoopRegister, StoreInv, StoreTypeOK
    <2>5. StoreInv'
      BY <1>1, <2>1, <2>4 DEF LoopRegister, StoreInv, StoreTypeOK, Finite, history
    <2> QED
      BY <1>1, <2>2, <2>4, <2>5, ExecKept, ApiKept DEF LoopRegister
  <1>2. CASE LoopPop
    <2>1. Grows /\ UNCHANGED <<clock, tables, history, budget, exec, requests>>
      BY <1>2, UnchangedGrows DEF LoopPop, tables
    <2>2. Head(pending) \in DOMAIN signals /\ Tail(pending) \in Seq(DOMAIN signals)
      BY <1>2, HeadTailProperties DEF LoopPop, LoopInv
    <2>3. GoodRun(loop', DOMAIN signals, DOMAIN tasks)
      <3>1. Head(pending) \in Nat
        BY <2>2, LenProperties DEF StoreInv, StoreTypeOK
      <3>2. loop' = [loop EXCEPT !.pc = "contact", !.signal = Head(pending)]
        BY <1>2 DEF LoopPop
      <3> QED
        BY <2>2, <3>1, <3>2 DEF LoopInv, GoodRun, LoopRun, LoopPc
    <2>4. LoopInv'
      BY <1>2, <2>1, <2>2, <2>3 DEF LoopPop, LoopInv, tables
    <2> QED
      BY <2>1, <2>4, StoreKept, ExecKept, ApiKept DEF StoreInv, StoreTypeOK
  <1>3. CASE LoopReadContact
    <2>1. Grows /\ UNCHANGED <<clock, tables, history, budget, exec, requests, pending>>
      BY <1>3, UnchangedGrows DEF LoopReadContact, tables
    <2>2. GoodRun(loop', DOMAIN signals, DOMAIN tasks)
      BY <1>3 DEF LoopReadContact, LoopInv, GoodRun, LoopRun, LoopPc, StoreInv, StoreTypeOK
    <2>3. LoopInv'
      BY <2>1, <2>2 DEF LoopInv, tables
    <2> QED
      BY <2>1, <2>3, StoreKept, ExecKept, ApiKept DEF StoreInv, StoreTypeOK
  <1>4. CASE LoopReadState
    <2>1. contact_state' = CreatedState /\ CreatedState \in ContactState
      BY <1>4, CreatedStateType DEF LoopReadState, StoreInv, StoreTypeOK
    <2>2. Grows /\ signals' = signals
      BY <1>4, UnchangedGrows DEF LoopReadState
    <2>3. GoodRun([loop EXCEPT !.pc = "consent", !.state = CreatedState],
                  DOMAIN signals', DOMAIN tasks')
      BY <1>4, <2>1 DEF LoopReadState, LoopInv, GoodRun, LoopRun, LoopPc
    <2>4. LoopInv' /\ budget' \in [BudgetKind -> Nat]
      BY <1>4, <2>2, <2>3, LoopCompletesInv DEF LoopReadState, StoreInv, StoreTypeOK
    <2>5. StoreInv'
      BY <1>4, <2>1, <2>4 DEF LoopReadState, StoreInv, StoreTypeOK, Finite, history
    <2> QED
      BY <1>4, <2>2, <2>4, <2>5, ExecKept, ApiKept DEF LoopReadState
  <1>5. CASE LoopReadConsent
    <2>1. Grows /\ UNCHANGED <<clock, tables, history, budget, exec, requests, pending>>
      BY <1>5, UnchangedGrows DEF LoopReadConsent, tables
    <2>2. consent[signals[loop.signal].channel] \in Consent
      <3>1. signals[loop.signal] \in SignalRow
        BY <1>5, ElementOfSeq, LenProperties
           DEF LoopReadConsent, LoopInv, GoodRun, StoreInv, StoreTypeOK
      <3> QED
        BY <3>1 DEF SignalRow, StoreInv, StoreTypeOK
    <2>3. GoodRun(loop', DOMAIN signals, DOMAIN tasks)
      BY <1>5, <2>2 DEF LoopReadConsent, LoopInv, GoodRun, LoopRun, LoopPc
    <2>4. LoopInv'
      BY <2>1, <2>3 DEF LoopInv, tables
    <2> QED
      BY <2>1, <2>4, StoreKept, ExecKept, ApiKept DEF StoreInv, StoreTypeOK
  <1>6. CASE LoopDecide
    <2> DEFINE out == Evaluate(loop.signal, signals[loop.signal], loop.contact, loop.state,
                               loop.consent, clock)
               step == IF out.patch THEN "patch" ELSE IF out.cancel THEN "cancel" ELSE "mark"
    <2>1. Grows /\ UNCHANGED <<clock, tables, history, budget, exec, requests, pending>>
      BY <1>6, UnchangedGrows DEF LoopDecide, tables
    <2>2. out \in DecisionOutput
      <3>1. /\ loop.signal \in Nat
            /\ loop.contact \in ContactStatus
            /\ loop.state \in ContactState
            /\ loop.consent \in Consent
            /\ clock \in Nat
        BY DEF LoopInv, GoodRun, LoopRun, StoreInv, StoreTypeOK
      <3>2. signals[loop.signal] \in SignalRow
        BY <1>6, ElementOfSeq, LenProperties
           DEF LoopDecide, LoopInv, GoodRun, StoreInv, StoreTypeOK
      <3> QED
        BY <3>1, <3>2, EvaluateType
    <2>3. loop.processed \in Nat /\ loop.signal \in Nat /\ loop.signal \in DOMAIN signals
      BY <1>6 DEF LoopDecide, LoopInv, GoodRun, LoopRun
    <2>4. loop' = [IdleRun(step, loop.processed) EXCEPT !.signal = loop.signal, !.out = out]
      BY <1>6 DEF LoopDecide
    <2> HIDE DEF out
    <2>5. step \in {"patch", "cancel", "mark"}
      OBVIOUS
    <2> HIDE DEF step
    <2>6. GoodRun(loop', DOMAIN signals, DOMAIN tasks)
      BY <2>2, <2>3, <2>4, <2>5, DecidedType
    <2>7. LoopInv'
      BY <2>1, <2>6 DEF LoopInv, tables
    <2> QED
      BY <2>1, <2>7, StoreKept, ExecKept, ApiKept DEF StoreInv, StoreTypeOK
  <1>7. CASE LoopPatch
    <2>1. contact_state' \in ContactState
      BY <1>7 DEF LoopPatch, UpdateContactState, LoopInv, GoodRun, LoopRun, DecisionOutput
    <2>2. Grows /\ signals' = signals
      BY <1>7, UnchangedGrows DEF LoopPatch
    <2>3. GoodRun([loop EXCEPT !.pc = IF loop.out.cancel THEN "cancel" ELSE "mark"],
                  DOMAIN signals', DOMAIN tasks')
      BY <1>7, <2>2 DEF LoopPatch, LoopInv, GoodRun, LoopRun, LoopPc
    <2>4. LoopInv' /\ budget' \in [BudgetKind -> Nat]
      BY <1>7, <2>2, <2>3, LoopCompletesInv DEF LoopPatch, StoreInv, StoreTypeOK
    <2>5. StoreInv'
      BY <1>7, <2>1, <2>4 DEF LoopPatch, StoreInv, StoreTypeOK, Finite, history
    <2> QED
      BY <1>7, <2>2, <2>4, <2>5, ExecKept, ApiKept DEF LoopPatch
  <1>8. CASE LoopCancel
    <2>1. tasks' \in Seq(TaskRow) /\ DOMAIN tasks' = DOMAIN tasks
      BY <1>8, CancelScheduledFollowUpsType DEF LoopCancel, StoreInv, StoreTypeOK
    <2>2. Grows /\ signals' = signals
      BY <1>8, <2>1 DEF LoopCancel, Grows
    <2>3. GoodRun([loop EXCEPT !.pc = "mark"], DOMAIN signals', DOMAIN tasks')
      BY <1>8, <2>1, <2>2 DEF LoopCancel, LoopInv, GoodRun, LoopRun, LoopPc
    <2>4. LoopInv' /\ budget' \in [BudgetKind -> Nat]
      BY <1>8, <2>2, <2>3, LoopCompletesInv DEF LoopCancel, StoreInv, StoreTypeOK
    <2>5. superseded' \subseteq Nat
      <3>1. DOMAIN tasks \subseteq Nat
        BY LenProperties DEF StoreInv, StoreTypeOK
      <3> QED
        BY <1>8, <3>1 DEF LoopCancel, StoreInv, StoreTypeOK
    <2>6. StoreInv'
      BY <1>8, <2>1, <2>4, <2>5 DEF LoopCancel, StoreInv, StoreTypeOK, Finite
    <2> QED
      BY <1>8, <2>2, <2>4, <2>6, ExecKept, ApiKept DEF LoopCancel
  <1>9. CASE LoopMark
    <2>1. signals' \in Seq(SignalRow) /\ DOMAIN signals' = DOMAIN signals
      BY <1>9, MarkSignalStatusType DEF LoopMark, StoreInv, StoreTypeOK, SignalStatus
    <2>2. Grows
      BY <1>9, <2>1 DEF LoopMark, Grows
    <2>3. GoodRun(NextTask(loop.out), DOMAIN signals', DOMAIN tasks')
      <3>1. loop.out \in DecisionOutput /\ loop.signal \in DOMAIN signals
        BY <1>9 DEF LoopMark, LoopInv, GoodRun, LoopRun
      <3> QED
        BY <2>1, <3>1, NextTaskType
    <2>4. LoopInv' /\ budget' \in [BudgetKind -> Nat]
      BY <1>9, <2>1, <2>2, <2>3, LoopCompletesInv DEF LoopMark, StoreInv, StoreTypeOK
    <2>5. StoreInv'
      BY <1>9, <2>1, <2>4 DEF LoopMark, StoreInv, StoreTypeOK, Finite, history
    <2> QED
      BY <1>9, <2>2, <2>4, <2>5, ExecKept, ApiKept DEF LoopMark
  <1>10. CASE LoopInsert
    <2> DEFINE proposed == Head(loop.out.tasks)
    <2>1. proposed \in ProposedTask
      <3>1. loop.out.tasks \in Seq(ProposedTask) /\ loop.out.tasks # <<>>
        BY <1>10 DEF LoopInsert, LoopInv, GoodRun, LoopRun, DecisionOutput
      <3> QED
        BY <3>1, HeadTailProperties
    <2> HIDE DEF proposed
    <2>2. /\ tasks' \in Seq(TaskRow)
          /\ DOMAIN tasks \subseteq DOMAIN tasks'
          /\ InsertedTask(proposed) \in DOMAIN tasks'
          /\ InsertedTask(proposed) \in Nat
      <3>1. InsertTask(proposed)
        BY <1>10 DEF LoopInsert, proposed
      <3> QED
        BY <2>1, <3>1, InsertTaskType DEF StoreInv, StoreTypeOK
    <2>3. Grows /\ signals' = signals
      BY <1>10, <2>2 DEF LoopInsert, Grows
    <2>4. GoodRun([loop EXCEPT !.pc = "spawn", !.task = InsertedTask(proposed)],
                  DOMAIN signals', DOMAIN tasks')
      BY <1>10, <2>2, <2>3 DEF LoopInsert, LoopInv, GoodRun, LoopRun, LoopPc
    <2>5. LoopInv' /\ budget' \in [BudgetKind -> Nat]
      BY <1>10, <2>3, <2>4, LoopCompletesInv DEF LoopInsert, StoreInv, StoreTypeOK, proposed
    <2>6. StoreInv'
      BY <1>10, <2>2, <2>5 DEF LoopInsert, StoreInv, StoreTypeOK, Finite, history
    <2> QED
      BY <1>10, <2>3, <2>5, <2>6, ExecKept, ApiKept DEF LoopInsert
  <1>11. CASE LoopSpawn
    <2>1. Grows /\ UNCHANGED <<clock, tables, history, budget, requests, pending>>
      BY <1>11, UnchangedGrows DEF LoopSpawn, tables
    <2>2. GoodRun(loop', DOMAIN signals, DOMAIN tasks)
      <3>1. /\ loop.out.tasks \in Seq(ProposedTask)
            /\ loop.out.tasks # <<>>
            /\ loop.out \in DecisionOutput
            /\ loop.signal \in DOMAIN signals
        BY <1>11 DEF LoopSpawn, LoopInv, GoodRun, LoopRun, DecisionOutput
      <3>2. [loop.out EXCEPT !.tasks = Tail(@)] \in DecisionOutput
        BY <3>1, HeadTailProperties DEF DecisionOutput
      <3>3. loop' = NextTask([loop.out EXCEPT !.tasks = Tail(@)])
        BY <1>11 DEF LoopSpawn
      <3> QED
        BY <3>1, <3>2, <3>3, NextTaskType
    <2>3. LoopInv'
      BY <2>1, <2>2 DEF LoopInv, tables
    <2>4. ExecInv'
      <3>1. loop.task \in DOMAIN tasks
        BY <1>11 DEF LoopSpawn, LoopInv, GoodRun
      <3> QED
        BY <1>11, <2>1, <3>1, NewExecutionType DEF LoopSpawn, ExecInv, tables
    <2> QED
      BY <2>1, <2>3, <2>4, StoreKept, ApiKept DEF StoreInv, StoreTypeOK
  <1>12. CASE LoopActivityFails
    <2>1. Grows /\ UNCHANGED <<clock, tables, history, exec, requests>>
      BY <1>12, UnchangedGrows DEF LoopActivityFails, tables
    <2>2. LoopInv' /\ budget' \in [BudgetKind -> Nat]
      BY <1>12, <2>1, LoopAttemptFailsInv DEF LoopActivityFails, StoreInv, StoreTypeOK, tables
    <2> QED
      BY <2>1, <2>2, StoreKept, ExecKept, ApiKept
  <1> QED
    BY <1>1, <1>2, <1>3, <1>4, <1>5, <1>6, <1>7, <1>8, <1>9, <1>10, <1>11, <1>12 DEF LoopNext

-----------------------------------------------------------------------------
\* A retried activity, and a failed execution, are still good.
LEMMA RetriedType ==
  ASSUME NEW e, NEW S, GoodExecution(e, S), NEW n \in Nat
  PROVE  /\ GoodExecution([e EXCEPT !.attempt = n], S)
         /\ GoodExecution([e EXCEPT !.attempt = n, !.pc = RestartPc(e.pc)], S)
         /\ GoodExecution([e EXCEPT !.pc = "failed"], S)
  BY DEF GoodExecution, Execution, ExecPc, RestartPc

\* A failed attempt of an execution's activity keeps the executions' invariant.
LEMMA ExecAttemptFailsInv ==
  ASSUME ExecInv, Grows, budget \in [BudgetKind -> Nat], NEW t \in DOMAIN exec,
         ExecAttemptFails(t)
  PROVE  ExecInv' /\ budget' \in [BudgetKind -> Nat]
  <1>1. budget' \in [BudgetKind -> Nat]
    BY SpendType DEF ExecAttemptFails, BudgetKind
  <1>2. GoodExecution(exec[t], DOMAIN signals') /\ exec[t].attempt + 1 \in Nat
    BY DEF ExecInv, GoodExecution, Execution, Grows
  <1>3. CASE exec[t].attempt < MaxAttempts(exec[t].pc)
    <2> DEFINE e == [exec[t] EXCEPT !.attempt = exec[t].attempt + 1,
                             !.pc = RestartPc(exec[t].pc)]
    <2>1. exec' = [exec EXCEPT ![t] = e]
      BY <1>3 DEF ExecAttemptFails
    <2>2. GoodExecution(e, DOMAIN signals')
      BY <1>2, RetriedType
    <2> HIDE DEF e
    <2> QED
      BY <1>1, <2>1, <2>2, ExecStep
  <1>4. CASE ~(exec[t].attempt < MaxAttempts(exec[t].pc))
    <2> DEFINE e == [exec[t] EXCEPT !.pc = "failed"]
    <2>1. exec' = [exec EXCEPT ![t] = e]
      BY <1>4 DEF ExecAttemptFails
    <2>2. GoodExecution(e, DOMAIN signals')
      BY <1>2, RetriedType
    <2> HIDE DEF e
    <2> QED
      BY <1>1, <2>1, <2>2, ExecStep
  <1> QED
    BY <1>3, <1>4

\* So does a completed one, reported or not.
LEMMA ExecCompletesInv ==
  ASSUME ExecInv, Grows, budget \in [BudgetKind -> Nat], NEW t \in DOMAIN exec,
         NEW next, GoodExecution(next, DOMAIN signals'), ExecCompletes(t, next)
  PROVE  ExecInv' /\ budget' \in [BudgetKind -> Nat]
  <1>1. CASE ExecAttemptFails(t)
    BY <1>1, ExecAttemptFailsInv
  <1>2. CASE /\ exec' = [exec EXCEPT ![t] = [next EXCEPT !.attempt = 1]]
             /\ UNCHANGED budget
    <2>1. GoodExecution([next EXCEPT !.attempt = 1], DOMAIN signals')
      BY RetriedType
    <2> QED
      BY <1>2, <2>1, ExecStep
  <1> QED
    BY <1>1, <1>2 DEF ExecCompletes

\* A step of an execution that writes no table keeps the type invariant.
LEMMA ExecMovesInv ==
  ASSUME TypeInv, NEW t \in DOMAIN exec, NEW next, GoodExecution(next, DOMAIN signals),
         ExecMoves(t, next), UNCHANGED <<superseded, requests>>,
         barred' \subseteq Nat \X {"consent", "dnc"}
  PROVE  TypeInv'
  <1>1. Grows /\ signals' = signals
    BY UnchangedGrows DEF ExecMoves, tables
  <1>2. ExecInv'
    <2>1. GoodExecution([next EXCEPT !.attempt = 1], DOMAIN signals')
      BY <1>1, RetriedType
    <2> QED
      BY <1>1, <2>1, ExecStep DEF ExecMoves, TypeInv
  <1>3. StoreInv'
    BY DEF TypeInv, StoreInv, StoreTypeOK, Finite, ExecMoves, tables
  <1> QED
    BY <1>1, <1>2, <1>3, LoopKept, ApiKept DEF TypeInv, ExecMoves, StoreInv, StoreTypeOK

\* What an activity answers, stored in the execution's record.
LEMMA AdvancedType ==
  ASSUME NEW e, NEW S, GoodExecution(e, S), NEW pc \in ExecPc \ {"backfill", "deliver"}
  PROVE  /\ GoodExecution([e EXCEPT !.pc = pc], S)
         /\ \A c \in ContactStatus : GoodExecution([e EXCEPT !.pc = pc, !.contact = c], S)
         /\ \A c \in Consent : GoodExecution([e EXCEPT !.pc = pc, !.consent = c], S)
         /\ \A st \in ContactState : GoodExecution([e EXCEPT !.pc = pc, !.state = st], S)
         /\ \A o \in Outcome \cup {NoOutcome} :
              GoodExecution([e EXCEPT !.pc = pc, !.outcome = o], S)
         /\ \A n \in Nat : GoodExecution([e EXCEPT !.pc = pc, !.interaction = n], S)
  BY DEF GoodExecution, Execution

\* A task goes out on a channel.
LEMMA TaskChannelType ==
  ASSUME NEW t
  PROVE  TaskChannel(t) \in Channel
  BY DEF TaskChannel, Channel

\* The signal emit_interaction_result_signal inserts is a signal row.
LEMMA InteractionResultType ==
  ASSUME NEW channel \in Channel, NEW outcome \in Outcome \cup {NoOutcome},
         NEW goal \in Goal \cup {NoGoal}
  PROVE  InteractionResult(channel, outcome, goal) \in SignalRow
  BY DEF InteractionResult, SignalRow, SignalType, SignalStatus, Time

\* Every step of TaskExecutionWorkflow keeps the type invariant.
LEMMA ExecInvStep ==
  ASSUME TypeInv, NEW t \in DOMAIN exec, ExecRuns(t), UNCHANGED requests
  PROVE  TypeInv'
  <1> USE DEF TypeInv
  <1>a. t \in DOMAIN tasks /\ t \in Nat /\ GoodExecution(exec[t], DOMAIN signals)
    BY LenProperties DEF ExecInv, StoreInv, StoreTypeOK
  <1>1. CASE ExecWake(t)
    <2> DEFINE pc == IF tasks[t].status = "canceled" THEN "done" ELSE "contact"
    <2>1. GoodExecution([exec[t] EXCEPT !.pc = pc], DOMAIN signals)
      BY <1>a, AdvancedType DEF ExecPc
    <2>2. barred' \subseteq Nat \X {"consent", "dnc"}
      BY <1>1, <1>a DEF ExecWake, WakesBarred, StoreInv, StoreTypeOK
    <2>3. ExecMoves(t, [exec[t] EXCEPT !.pc = pc]) /\ UNCHANGED <<superseded, requests>>
      BY <1>1 DEF ExecWake
    <2> HIDE DEF pc
    <2> QED
      BY <2>1, <2>2, <2>3, ExecMovesInv
  <1>2. CASE ExecReadContact(t)
    <2>1. GoodExecution([exec[t] EXCEPT !.pc = "state", !.contact = contact], DOMAIN signals)
      BY <1>a, AdvancedType DEF ExecPc, StoreInv, StoreTypeOK
    <2> QED
      BY <1>2, <2>1, ExecMovesInv DEF ExecReadContact, history, StoreInv, StoreTypeOK
  <1>3. CASE ExecReadState(t)
    <2>1. contact_state' = CreatedState /\ CreatedState \in ContactState
      BY <1>3, CreatedStateType DEF ExecReadState, StoreInv, StoreTypeOK
    <2>2. Grows /\ signals' = signals
      BY <1>3, UnchangedGrows DEF ExecReadState
    <2>3. GoodExecution([exec[t] EXCEPT !.pc = "consent", !.state = CreatedState],
                        DOMAIN signals')
      BY <1>a, <2>1, <2>2, AdvancedType DEF ExecPc
    <2>4. ExecInv' /\ budget' \in [BudgetKind -> Nat]
      BY <1>3, <2>2, <2>3, ExecCompletesInv DEF ExecReadState, StoreInv, StoreTypeOK
    <2>5. StoreInv'
      BY <1>3, <2>1, <2>4 DEF ExecReadState, StoreInv, StoreTypeOK, Finite, history
    <2> QED
      BY <1>3, <2>2, <2>4, <2>5, LoopKept, ApiKept DEF ExecReadState, StoreInv, StoreTypeOK
  <1>4. CASE ExecReadConsent(t)
    <2>1. consent[TaskChannel(t)] \in Consent
      BY TaskChannelType DEF StoreInv, StoreTypeOK
    <2>2. GoodExecution([exec[t] EXCEPT !.pc = "check", !.consent = consent[TaskChannel(t)]],
                        DOMAIN signals)
      BY <1>a, <2>1, AdvancedType DEF ExecPc
    <2> QED
      BY <1>4, <2>2, ExecMovesInv DEF ExecReadConsent, history, StoreInv, StoreTypeOK
  <1>5. CASE ExecCheck(t)
    <2>1. \A pc \in {"skip", "start"} :
            GoodExecution([NewExecution EXCEPT !.pc = pc], DOMAIN signals)
      BY NewExecutionType, AdvancedType DEF ExecPc
    <2>2. PICK pc \in {"skip", "start"} : ExecMoves(t, [NewExecution EXCEPT !.pc = pc])
      BY <1>5 DEF ExecCheck
    <2>3. UNCHANGED <<superseded, barred, requests>>
      BY <1>5 DEF ExecCheck, history
    <2> QED
      BY <2>1, <2>2, <2>3, ExecMovesInv DEF StoreInv, StoreTypeOK
  <1>6. CASE ExecSkip(t)
    <2>1. tasks' \in Seq(TaskRow) /\ DOMAIN tasks' = DOMAIN tasks
      BY <1>6, UpdateTaskStatusType DEF ExecSkip, StoreInv, StoreTypeOK, TaskStatus
    <2>2. Grows /\ signals' = signals
      BY <1>6, <2>1 DEF ExecSkip, Grows
    <2>3. GoodExecution([exec[t] EXCEPT !.pc = "done"], DOMAIN signals')
      BY <1>a, <2>2, AdvancedType DEF ExecPc
    <2>4. ExecInv' /\ budget' \in [BudgetKind -> Nat]
      BY <1>6, <2>2, <2>3, ExecCompletesInv DEF ExecSkip, StoreInv, StoreTypeOK
    <2>5. StoreInv'
      BY <1>6, <2>1, <2>4 DEF ExecSkip, StoreInv, StoreTypeOK, Finite, history
    <2> QED
      BY <1>6, <2>2, <2>4, <2>5, LoopKept, ApiKept DEF ExecSkip, StoreInv, StoreTypeOK
  <1>7. CASE ExecStart(t)
    <2> DEFINE pc == IF tasks[t].type = "email" THEN "send" ELSE "interact"
    <2>1. tasks' \in Seq(TaskRow) /\ DOMAIN tasks' = DOMAIN tasks
      BY <1>7, UpdateTaskStatusType DEF ExecStart, StoreInv, StoreTypeOK, TaskStatus
    <2>2. Grows /\ signals' = signals
      BY <1>7, <2>1 DEF ExecStart, Grows
    <2>3. GoodExecution([exec[t] EXCEPT !.pc = pc], DOMAIN signals')
      BY <1>a, <2>2, AdvancedType DEF ExecPc
    <2>4. ExecCompletes(t, [exec[t] EXCEPT !.pc = pc])
      BY <1>7 DEF ExecStart
    <2> HIDE DEF pc
    <2>5. ExecInv' /\ budget' \in [BudgetKind -> Nat]
      BY <2>2, <2>3, <2>4, ExecCompletesInv DEF StoreInv, StoreTypeOK
    <2>6. StoreInv'
      BY <1>7, <2>1, <2>5 DEF ExecStart, StoreInv, StoreTypeOK, Finite, history
    <2> QED
      BY <1>7, <2>2, <2>5, <2>6, LoopKept, ApiKept DEF ExecStart, StoreInv, StoreTypeOK
  <1>8. CASE ExecInteract(t)
    <2>1. PICK draft \in Drafts :
            ExecMoves(t, [exec[t] EXCEPT !.pc = IF draft[1] THEN "send" ELSE "log",
                                         !.outcome = draft[2]])
      BY <1>8 DEF ExecInteract
    <2> DEFINE pc == IF draft[1] THEN "send" ELSE "log"
    <2>2. draft[2] \in Outcome
      BY ExecutionAssumption DEF Outcome, TERMINAL_OUTCOMES
    <2>3. GoodExecution([exec[t] EXCEPT !.pc = pc, !.outcome = draft[2]], DOMAIN signals)
      BY <1>a, <2>2, AdvancedType DEF ExecPc
    <2>4. UNCHANGED <<superseded, barred, requests>>
      BY <1>8 DEF ExecInteract, history
    <2> QED
      BY <2>1, <2>3, <2>4, ExecMovesInv DEF StoreInv, StoreTypeOK
  <1>9. CASE ExecSendSms(t)
    <2>1. outbox' \subseteq Sent /\ IsFiniteSet(outbox')
      BY <1>9, <1>a, SendType DEF ExecSendSms, StoreInv, StoreTypeOK, Finite
    <2>2. Grows /\ signals' = signals
      BY <1>9, UnchangedGrows DEF ExecSendSms
    <2>3. GoodExecution([exec[t] EXCEPT !.pc = "log"], DOMAIN signals')
      BY <1>a, <2>2, AdvancedType DEF ExecPc
    <2>4. ExecInv' /\ budget' \in [BudgetKind -> Nat]
      BY <1>9, <2>2, <2>3, ExecCompletesInv DEF ExecSendSms, StoreInv, StoreTypeOK
    <2>5. StoreInv'
      BY <1>9, <2>1, <2>4 DEF ExecSendSms, StoreInv, StoreTypeOK, Finite, history
    <2> QED
      BY <1>9, <2>2, <2>4, <2>5, LoopKept, ApiKept DEF ExecSendSms, StoreInv, StoreTypeOK
  <1>10. CASE ExecSendEmail(t)
    <2>1. outbox' \subseteq Sent /\ IsFiniteSet(outbox')
      BY <1>10, <1>a, SendType DEF ExecSendEmail, StoreInv, StoreTypeOK, Finite
    <2>2. Grows /\ signals' = signals
      BY <1>10, UnchangedGrows DEF ExecSendEmail
    <2>3. PICK o \in {"progressed", "no_answer"} :
            ExecCompletes(t, [exec[t] EXCEPT !.pc = "log", !.outcome = o])
      BY <1>10 DEF ExecSendEmail
    <2>4. GoodExecution([exec[t] EXCEPT !.pc = "log", !.outcome = o], DOMAIN signals')
      BY <1>a, <2>2, AdvancedType DEF ExecPc, Outcome
    <2>5. ExecInv' /\ budget' \in [BudgetKind -> Nat]
      BY <2>2, <2>3, <2>4, ExecCompletesInv DEF StoreInv, StoreTypeOK
    <2>6. StoreInv'
      BY <1>10, <2>1, <2>5 DEF ExecSendEmail, StoreInv, StoreTypeOK, Finite, history
    <2> QED
      BY <1>10, <2>2, <2>5, <2>6, LoopKept, ApiKept DEF ExecSendEmail, StoreInv, StoreTypeOK
  <1>11. CASE ExecLog(t)
    <2>1. interactions' \subseteq InteractionRow /\ IsFiniteSet(interactions')
      BY <1>11, <1>a, LogInteractionType DEF ExecLog, StoreInv, StoreTypeOK, Finite
    <2>2. Grows /\ signals' = signals
      BY <1>11, UnchangedGrows DEF ExecLog
    <2>3. NextNth(interactions, t) \in Nat
      BY NextNthType DEF StoreInv, Finite
    <2>4. GoodExecution([exec[t] EXCEPT !.pc = "emit", !.interaction = NextNth(interactions, t)],
                        DOMAIN signals')
      BY <1>a, <2>2, <2>3, AdvancedType DEF ExecPc
    <2>5. ExecInv' /\ budget' \in [BudgetKind -> Nat]
      BY <1>11, <2>2, <2>4, ExecCompletesInv DEF ExecLog, StoreInv, StoreTypeOK
    <2>6. StoreInv'
      BY <1>11, <2>1, <2>5 DEF ExecLog, StoreInv, StoreTypeOK, Finite, history
    <2> QED
      BY <1>11, <2>2, <2>5, <2>6, LoopKept, ApiKept DEF ExecLog, StoreInv, StoreTypeOK
  <1>12. CASE ExecEmit(t)
    <2> DEFINE row == InteractionResult(TaskChannel(t), exec[t].outcome, tasks[t].goal)
    <2>1. row \in SignalRow
      <3>1. exec[t].outcome \in Outcome \cup {NoOutcome}
        BY <1>a DEF GoodExecution, Execution
      <3>2. tasks[t].goal \in Goal
        <4>1. tasks[t] \in TaskRow
          BY <1>a, ElementOfSeq, LenProperties DEF StoreInv, StoreTypeOK
        <4> QED
          BY <4>1 DEF TaskRow
      <3> QED
        BY <3>1, <3>2, TaskChannelType, InteractionResultType
    <2>2. InsertSignal(row)
      BY <1>12 DEF ExecEmit
    <2> HIDE DEF row
    <2>3. /\ signals' \in Seq(SignalRow)
          /\ DOMAIN signals \subseteq DOMAIN signals'
          /\ Len(signals) + 1 \in DOMAIN signals'
          /\ Len(signals) + 1 \in Nat
      BY <2>1, <2>2, InsertSignalType DEF StoreInv, StoreTypeOK
    <2>4. Grows
      BY <1>12, <2>3 DEF ExecEmit, Grows
    <2>5. ExecInv'
      <3>1. GoodExecution([exec[t] EXCEPT !.pc = "backfill", !.signal = Len(signals) + 1],
                          DOMAIN signals')
        BY <1>a, <2>3 DEF GoodExecution, Execution, ExecPc
      <3>2. exec' = [exec EXCEPT ![t] = [exec[t] EXCEPT !.pc = "backfill",
                                                        !.signal = Len(signals) + 1]]
        BY <1>12 DEF ExecEmit
      <3> QED
        BY <2>4, <3>1, <3>2, ExecStep
    <2>6. StoreInv'
      BY <1>12, <2>3 DEF ExecEmit, StoreInv, StoreTypeOK, Finite, history
    <2> QED
      BY <1>12, <2>3, <2>4, <2>5, <2>6, LoopKept, ApiKept DEF ExecEmit, StoreInv, StoreTypeOK
  <1>13. CASE ExecBackfill(t)
    <2>1. interactions' \subseteq InteractionRow /\ IsFiniteSet(interactions')
      <3>1. exec[t].interaction \in Nat /\ exec[t].signal \in Nat
        BY <1>a DEF GoodExecution, Execution
      <3> QED
        BY <1>13, <1>a, <3>1, BackfillResultType DEF ExecBackfill, StoreInv, StoreTypeOK, Finite
    <2>2. Grows /\ signals' = signals
      BY <1>13, UnchangedGrows DEF ExecBackfill
    <2>3. ExecInv'
      <3>1. GoodExecution([exec[t] EXCEPT !.pc = "deliver"], DOMAIN signals')
        BY <1>13, <1>a, <2>2 DEF ExecBackfill, ExecAt, GoodExecution, Execution, ExecPc
      <3>2. exec' = [exec EXCEPT ![t] = [exec[t] EXCEPT !.pc = "deliver"]]
        BY <1>13 DEF ExecBackfill
      <3> QED
        BY <2>2, <3>1, <3>2, ExecStep
    <2>4. StoreInv'
      BY <1>13, <2>1 DEF ExecBackfill, StoreInv, StoreTypeOK, Finite, history
    <2> QED
      BY <1>13, <2>2, <2>3, <2>4, LoopKept, ApiKept DEF ExecBackfill, StoreInv, StoreTypeOK
  <1>14. CASE ExecDeliver(t)
    <2>1. Grows /\ UNCHANGED <<clock, tables, history, requests>> /\ signals' = signals
      BY <1>14, UnchangedGrows DEF ExecDeliver, tables
    <2>2. LoopInv'
      <3>1. exec[t].signal \in DOMAIN signals'
        BY <1>14, <1>a, <2>1 DEF ExecDeliver, ExecAt, GoodExecution
      <3> QED
        BY <1>14, <2>1, <3>1, SignalWithStartInv DEF ExecDeliver, StoreInv, StoreTypeOK
    <2>3. ExecInv' /\ budget' \in [BudgetKind -> Nat]
      <3>1. GoodExecution([exec[t] EXCEPT !.pc = "complete", !.interaction = 0, !.signal = 0,
                                          !.outcome = NoOutcome], DOMAIN signals')
        BY <1>a, <2>1 DEF GoodExecution, Execution, ExecPc
      <3> QED
        BY <1>14, <2>1, <3>1, ExecCompletesInv DEF ExecDeliver, StoreInv, StoreTypeOK
    <2> QED
      BY <2>1, <2>2, <2>3, StoreKept, ApiKept
  <1>15. CASE ExecComplete(t)
    <2>1. tasks' \in Seq(TaskRow) /\ DOMAIN tasks' = DOMAIN tasks
      BY <1>15, UpdateTaskStatusType DEF ExecComplete, StoreInv, StoreTypeOK, TaskStatus
    <2>2. Grows /\ signals' = signals
      BY <1>15, <2>1 DEF ExecComplete, Grows
    <2>3. GoodExecution([exec[t] EXCEPT !.pc = "done"], DOMAIN signals')
      BY <1>a, <2>2, AdvancedType DEF ExecPc
    <2>4. ExecInv' /\ budget' \in [BudgetKind -> Nat]
      BY <1>15, <2>2, <2>3, ExecCompletesInv DEF ExecComplete, StoreInv, StoreTypeOK
    <2>5. StoreInv'
      BY <1>15, <2>1, <2>4 DEF ExecComplete, StoreInv, StoreTypeOK, Finite, history
    <2> QED
      BY <1>15, <2>2, <2>4, <2>5, LoopKept, ApiKept DEF ExecComplete, StoreInv, StoreTypeOK
  <1> QED
    BY <1>1, <1>2, <1>3, <1>4, <1>5, <1>6, <1>7, <1>8, <1>9, <1>10, <1>11, <1>12, <1>13,
       <1>14, <1>15 DEF ExecRuns

-----------------------------------------------------------------------------
\* A new or rewritten handler points at a row that is there.
LEMMA ApiAdds ==
  ASSUME ApiInv, Grows, NEW r \in Request, r.pc # "emit" => r.signal \in DOMAIN signals',
         NEW old \in SUBSET requests, requests' = old \cup {r}
  PROVE  ApiInv'
  BY DEF ApiInv, Grows

\* A handler that ends leaves the others alone.
LEMMA ApiEnds ==
  ASSUME ApiInv, Grows, NEW r, Ends(r)
  PROVE  ApiInv'
  BY DEF ApiInv, Grows, Ends

\* A handler that goes on keeps the row it points at.
LEMMA ApiBecomes ==
  ASSUME ApiInv, Grows, NEW r \in requests, r.pc # "emit",
         NEW pc \in {"confirm", "dispatch", "mark"}, Becomes(r, pc)
  PROVE  ApiInv'
  BY DEF ApiInv, Grows, Becomes, Request

\* A handler that has just inserted a signal points at it.
LEMMA NewRequestType ==
  ASSUME NEW kind \in {"text", "stop", "start", "meeting"}, signals \in Seq(SignalRow)
  PROVE  /\ NewRequest(kind) \in Request
         /\ NewRequest(kind).signal = Len(signals) + 1
  BY DEF NewRequest, Request

\* Every step of an HTTP handler keeps the type invariant.
LEMMA RequestStep ==
  ASSUME TypeInv, NEW r \in requests, RequestRuns(r) \/ RequestFails(r) \/ RequestDies(r)
  PROVE  TypeInv'
  <1> USE DEF TypeInv
  <1>a. r \in Request /\ (r.pc # "emit" => r.signal \in DOMAIN signals)
    BY DEF ApiInv
  <1>1. CASE RecordSmsConsent(r)
    <2>1. Grows /\ signals' = signals
      BY <1>1, UnchangedGrows DEF RecordSmsConsent
    <2>2. consent' \in [Channel -> Consent] /\ barred' \subseteq Nat \X {"consent", "dnc"}
      BY <1>1 DEF RecordSmsConsent, StoreInv, StoreTypeOK, Channel, Consent
    <2>3. StoreInv'
      BY <1>1, <2>2 DEF RecordSmsConsent, StoreInv, StoreTypeOK, Finite
    <2>4. ApiInv'
      BY <1>1, <2>1, ApiBecomes DEF RecordSmsConsent
    <2> QED
      BY <1>1, <2>1, <2>3, <2>4, LoopKept, ExecKept DEF RecordSmsConsent, StoreInv, StoreTypeOK
  <1>2. CASE ConfirmKeyword(r)
    <2>1. signals' \in Seq(SignalRow) /\ DOMAIN signals' = DOMAIN signals
      BY <1>2, MarkSignalStatusType DEF ConfirmKeyword, StoreInv, StoreTypeOK, SignalStatus
    <2>2. Grows
      BY <1>2, <2>1 DEF ConfirmKeyword, Grows
    <2>3. interactions' \subseteq InteractionRow /\ IsFiniteSet(interactions')
      BY <1>2, LogInteractionType DEF ConfirmKeyword, StoreInv, StoreTypeOK, Finite
    <2>4. StoreInv'
      BY <1>2, <2>1, <2>3 DEF ConfirmKeyword, StoreInv, StoreTypeOK, Finite, history
    <2>5. ApiInv'
      BY <1>2, <2>2, ApiEnds DEF ConfirmKeyword
    <2> QED
      BY <1>2, <2>1, <2>2, <2>4, <2>5, LoopKept, ExecKept
         DEF ConfirmKeyword, StoreInv, StoreTypeOK
  <1>3. CASE EmitCallResult(r)
    <2> DEFINE row == InteractionResult("voice", r.outcome, NoGoal)
               next == [r EXCEPT !.pc = "backfill", !.signal = Len(signals) + 1]
    <2>1. row \in SignalRow
      BY <1>a, InteractionResultType DEF Request, Channel
    <2>2. InsertSignal(row)
      BY <1>3 DEF EmitCallResult
    <2> HIDE DEF row
    <2>3. /\ signals' \in Seq(SignalRow)
          /\ DOMAIN signals \subseteq DOMAIN signals'
          /\ Len(signals) + 1 \in DOMAIN signals'
          /\ Len(signals) + 1 \in Nat
      BY <2>1, <2>2, InsertSignalType DEF StoreInv, StoreTypeOK
    <2>4. Grows
      BY <1>3, <2>3 DEF EmitCallResult, Grows
    <2>5. next \in Request /\ next.signal \in DOMAIN signals'
      BY <1>a, <2>3 DEF Request
    <2>6. requests' = (requests \ {r}) \cup {next}
      BY <1>3 DEF EmitCallResult
    <2> HIDE DEF next
    <2>7. ApiInv'
      BY <2>4, <2>5, <2>6, ApiAdds
    <2>8. StoreInv'
      BY <1>3, <2>3 DEF EmitCallResult, StoreInv, StoreTypeOK, Finite, history
    <2> QED
      BY <1>3, <2>3, <2>4, <2>7, <2>8, LoopKept, ExecKept
         DEF EmitCallResult, StoreInv, StoreTypeOK
  <1>4. CASE BackfillCallResult(r)
    <2>1. interactions' \subseteq InteractionRow /\ IsFiniteSet(interactions')
      <3>1. r.interaction \in Nat /\ r.signal \in Nat
        BY <1>a DEF Request
      <3> QED
        BY <1>4, <3>1, BackfillResultType DEF BackfillCallResult, StoreInv, StoreTypeOK, Finite
    <2>2. Grows /\ signals' = signals
      BY <1>4, UnchangedGrows DEF BackfillCallResult
    <2>3. StoreInv'
      BY <1>4, <2>1 DEF BackfillCallResult, StoreInv, StoreTypeOK, Finite, history
    <2>4. ApiInv'
      BY <1>4, <2>2, ApiBecomes DEF BackfillCallResult
    <2> QED
      BY <1>4, <2>2, <2>3, <2>4, LoopKept, ExecKept
         DEF BackfillCallResult, StoreInv, StoreTypeOK
  <1>5. CASE Dispatch(r)
    <2>1. Grows /\ UNCHANGED <<clock, tables, budget, history, exec>> /\ signals' = signals
      BY <1>5, UnchangedGrows DEF Dispatch, tables
    <2>2. LoopInv'
      <3>1. r.signal \in DOMAIN signals'
        BY <1>5, <1>a, <2>1 DEF Dispatch
      <3> QED
        BY <1>5, <2>1, <3>1, SignalWithStartInv DEF Dispatch, StoreInv, StoreTypeOK
    <2>3. ApiInv'
      BY <1>5, <2>1, ApiBecomes, ApiEnds DEF Dispatch
    <2> QED
      BY <2>1, <2>2, <2>3, StoreKept, ExecKept DEF StoreInv, StoreTypeOK
  <1>6. CASE MarkDelivered(r)
    <2>1. signals' \in Seq(SignalRow) /\ DOMAIN signals' = DOMAIN signals
      BY <1>6, MarkSignalStatusType DEF MarkDelivered, StoreInv, StoreTypeOK, SignalStatus
    <2>2. Grows
      BY <1>6, <2>1 DEF MarkDelivered, Grows
    <2>3. StoreInv'
      BY <1>6, <2>1 DEF MarkDelivered, StoreInv, StoreTypeOK, Finite, history
    <2>4. ApiInv'
      BY <1>6, <2>2, ApiEnds DEF MarkDelivered
    <2> QED
      BY <1>6, <2>1, <2>2, <2>3, <2>4, LoopKept, ExecKept
         DEF MarkDelivered, StoreInv, StoreTypeOK
  <1>7. CASE RequestFails(r)
    <2>1. signals' \in Seq(SignalRow) /\ DOMAIN signals' = DOMAIN signals
      BY <1>7, MarkSignalStatusType DEF RequestFails, StoreInv, StoreTypeOK, SignalStatus
    <2>2. Grows
      BY <1>7, <2>1 DEF RequestFails, Grows
    <2>3. budget' \in [BudgetKind -> Nat]
      BY <1>7, SpendType DEF RequestFails, StoreInv, StoreTypeOK, BudgetKind
    <2>4. StoreInv'
      BY <1>7, <2>1, <2>3 DEF RequestFails, StoreInv, StoreTypeOK, Finite, history
    <2>5. ApiInv'
      BY <1>7, <2>2, ApiEnds DEF RequestFails
    <2> QED
      BY <1>7, <2>1, <2>2, <2>4, <2>5, LoopKept, ExecKept
         DEF RequestFails, StoreInv, StoreTypeOK
  <1>8. CASE RequestDies(r)
    <2>1. Grows /\ UNCHANGED <<clock, tables, history, pending, loop, exec>>
      BY <1>8, UnchangedGrows DEF RequestDies, tables
    <2>2. budget' \in [BudgetKind -> Nat]
      BY <1>8, SpendType DEF RequestDies, StoreInv, StoreTypeOK, BudgetKind
    <2>3. ApiInv'
      BY <1>8, <2>1, ApiEnds DEF RequestDies
    <2> QED
      BY <2>1, <2>2, <2>3, StoreKept, LoopKept, ExecKept DEF StoreInv, StoreTypeOK
  <1> QED
    BY <1>1, <1>2, <1>3, <1>4, <1>5, <1>6, <1>7, <1>8 DEF RequestRuns

\* So does every event that opens one, and an operator's edit.
LEMMA WorldStep ==
  ASSUME TypeInv, World
  PROVE  TypeInv'
  <1> USE DEF TypeInv
  <1>1. ASSUME NEW m \in Messages, ReceiveSms(m)
        PROVE  TypeInv'
    <2>1. CASE Recorded(m)
      <3>1. Grows /\ signals' = signals /\ requests' = requests
        BY <1>1, <2>1, UnchangedGrows DEF ReceiveSms
      <3>2. StoreInv'
        BY <1>1, <3>1 DEF ReceiveSms, StoreInv, StoreTypeOK, Finite, history
      <3> QED
        BY <1>1, <3>1, <3>2, LoopKept, ExecKept, ApiKept DEF ReceiveSms, StoreInv, StoreTypeOK
    <2>2. CASE ~Recorded(m)
      <3>1. InboundSms(m) \in SignalRow
        BY DEF InboundSms, SignalRow, SignalType, Channel, SignalStatus, Time
      <3>2. InsertSignal(InboundSms(m)) /\ requests' = requests \cup {NewRequest(Text[m])}
        BY <1>1, <2>2 DEF ReceiveSms
      <3>3. /\ signals' \in Seq(SignalRow)
            /\ DOMAIN signals \subseteq DOMAIN signals'
            /\ Len(signals) + 1 \in DOMAIN signals'
        BY <3>1, <3>2, InsertSignalType DEF StoreInv, StoreTypeOK
      <3>4. Grows
        BY <1>1, <3>3 DEF ReceiveSms, Grows
      <3>5. Text[m] \in {"text", "stop", "start"}
        BY ApiAssumption
      <3>6. ApiInv'
        BY <3>2, <3>3, <3>4, <3>5, NewRequestType, ApiAdds DEF StoreInv, StoreTypeOK
      <3>7. StoreInv'
        BY <1>1, <3>3 DEF ReceiveSms, StoreInv, StoreTypeOK, Finite, history
      <3> QED
        BY <1>1, <3>3, <3>4, <3>6, <3>7, LoopKept, ExecKept
           DEF ReceiveSms, StoreInv, StoreTypeOK
    <2> QED
      BY <2>1, <2>2
  <1>2. ASSUME NEW outcome \in VoiceOutcomes, FinalizeVoiceSession(outcome)
        PROVE  TypeInv'
    <2> DEFINE next == [kind |-> "call", signal |-> 0, pc |-> "emit",
                        interaction |-> NextNth(interactions, 0), outcome |-> outcome]
    <2>1. Grows /\ signals' = signals
      BY <1>2, UnchangedGrows DEF FinalizeVoiceSession
    <2>2. interactions' \subseteq InteractionRow /\ IsFiniteSet(interactions')
      BY <1>2, LogInteractionType DEF FinalizeVoiceSession, StoreInv, StoreTypeOK, Finite
    <2>3. budget' \in [BudgetKind -> Nat]
      BY <1>2, SpendType DEF FinalizeVoiceSession, StoreInv, StoreTypeOK, BudgetKind
    <2>4. StoreInv'
      BY <1>2, <2>2, <2>3 DEF FinalizeVoiceSession, StoreInv, StoreTypeOK, Finite, history
    <2>5. next \in Request
      <3>1. NextNth(interactions, 0) \in Nat /\ outcome \in Outcome
        BY NextNthType, ApiAssumption DEF StoreInv, Finite
      <3> QED
        BY <3>1 DEF Request
    <2>6. requests' = requests \cup {next}
      BY <1>2 DEF FinalizeVoiceSession
    <2>7. ApiInv'
      BY <2>1, <2>5, <2>6, ApiAdds
    <2> QED
      BY <1>2, <2>1, <2>4, <2>7, LoopKept, ExecKept
         DEF FinalizeVoiceSession, StoreInv, StoreTypeOK
  <1>3. ASSUME NEW due \in MeetingEnds, ScheduleMeeting(due)
        PROVE  TypeInv'
    <2> DEFINE row == [type |-> "meeting_scheduled", channel |-> "sms", outcome |-> NoOutcome,
                       goal |-> NoGoal, due |-> due, dedup_key |-> NoMessage,
                       status |-> "received"]
    <2>1. row \in SignalRow
      BY ApiAssumption DEF SignalRow, SignalType, Channel, SignalStatus
    <2>2. InsertSignal(row) /\ requests' = requests \cup {NewRequest("meeting")}
      BY <1>3 DEF ScheduleMeeting
    <2> HIDE DEF row
    <2>3. /\ signals' \in Seq(SignalRow)
          /\ DOMAIN signals \subseteq DOMAIN signals'
          /\ Len(signals) + 1 \in DOMAIN signals'
      BY <2>1, <2>2, InsertSignalType DEF StoreInv, StoreTypeOK
    <2>4. Grows
      BY <1>3, <2>3 DEF ScheduleMeeting, Grows
    <2>5. ApiInv'
      BY <2>2, <2>3, <2>4, NewRequestType, ApiAdds DEF StoreInv, StoreTypeOK
    <2>6. budget' \in [BudgetKind -> Nat]
      BY <1>3, SpendType DEF ScheduleMeeting, StoreInv, StoreTypeOK, BudgetKind
    <2>7. StoreInv'
      BY <1>3, <2>3, <2>6 DEF ScheduleMeeting, StoreInv, StoreTypeOK, Finite, history
    <2> QED
      BY <1>3, <2>3, <2>4, <2>5, <2>7, LoopKept, ExecKept
         DEF ScheduleMeeting, StoreInv, StoreTypeOK
  <1>4. ASSUME NEW status \in ContactStatus, UpdateContact(status)
        PROVE  TypeInv'
    <2>1. Grows /\ signals' = signals
      BY <1>4, UnchangedGrows DEF UpdateContact
    <2>2. contact' \in ContactStatus /\ barred' \subseteq Nat \X {"consent", "dnc"}
      BY <1>4 DEF UpdateContact, StoreInv, StoreTypeOK
    <2>3. budget' \in [BudgetKind -> Nat]
      BY <1>4, SpendType DEF UpdateContact, StoreInv, StoreTypeOK, BudgetKind
    <2>4. StoreInv'
      BY <1>4, <2>2, <2>3 DEF UpdateContact, StoreInv, StoreTypeOK, Finite
    <2> QED
      BY <1>4, <2>1, <2>4, LoopKept, ExecKept, ApiKept DEF UpdateContact, StoreInv, StoreTypeOK
  <1> QED
    BY <1>1, <1>2, <1>3, <1>4 DEF World

-----------------------------------------------------------------------------
\* The type invariant holds when the contact has just been created.
LEMMA TypeInit == Init => TypeInv
  <1> SUFFICES ASSUME Init
               PROVE  TypeInv
    OBVIOUS
  <1> USE DEF Init
  <1>1. NewContactState \in ContactState
    BY DEF NewContactState, ContactState, CurrentState, Time
  <1>2. StoreInv
    BY <1>1, StoreAssumption, FS_EmptySet
       DEF StoreInit, StoreInv, StoreTypeOK, Finite, ContactStatus, Consent
  <1>3. LoopInv
    BY NoRunType DEF LoopInit, LoopInv
  <1>4. ExecInv
    BY DEF LoopInit, ExecInv
  <1>5. ApiInv
    BY DEF ApiInv
  <1> QED
    BY <1>2, <1>3, <1>4, <1>5 DEF TypeInv

\* Every step keeps it.
LEMMA TypeStep == TypeInv /\ [Next]_vars => TypeInv'
  <1> SUFFICES ASSUME TypeInv, [Next]_vars
               PROVE  TypeInv'
    OBVIOUS
  <1>1. CASE UNCHANGED vars
    <2>1. Grows /\ UNCHANGED <<clock, tables, history, budget, pending, loop, exec, requests>>
      BY <1>1, UnchangedGrows DEF vars, tables
    <2> QED
      BY <2>1, StoreKept, LoopKept, ExecKept, ApiKept
         DEF TypeInv, StoreInv, StoreTypeOK, tables
  <1>2. CASE Tick
    <2>1. Grows /\ UNCHANGED <<tables, budget, history, pending, loop, exec, requests>>
      BY <1>2, UnchangedGrows DEF Tick, tables
    <2>2. clock' \in Nat
      BY <1>2, StoreAssumption DEF Tick
    <2>3. StoreInv'
      BY <2>1, <2>2 DEF TypeInv, StoreInv, StoreTypeOK, Finite, tables, history
    <2> QED
      BY <2>1, <2>3, LoopKept, ExecKept, ApiKept
         DEF TypeInv, StoreInv, StoreTypeOK, tables
  <1>3. CASE Loop
    BY <1>3, LoopInvStep DEF Loop
  <1>4. ASSUME NEW t \in DOMAIN exec, ExecutionRuns(t)
        PROVE  TypeInv'
    BY <1>4, ExecInvStep DEF ExecutionRuns
  <1>5. ASSUME NEW t \in DOMAIN exec, ExecutionFails(t)
        PROVE  TypeInv'
    <2>1. Grows /\ UNCHANGED <<clock, tables, history, pending, loop, requests>>
      BY <1>5, UnchangedGrows DEF ExecutionFails, ExecActivityFails, tables
    <2>2. ExecInv' /\ budget' \in [BudgetKind -> Nat]
      BY <1>5, <2>1, ExecAttemptFailsInv
         DEF ExecutionFails, ExecActivityFails, TypeInv, StoreInv, StoreTypeOK
    <2> QED
      BY <2>1, <2>2, StoreKept, LoopKept, ApiKept
         DEF TypeInv, StoreInv, StoreTypeOK, tables
  <1>6. ASSUME NEW r \in requests, RequestRuns(r) \/ RequestFails(r) \/ RequestDies(r)
        PROVE  TypeInv'
    BY <1>6, RequestStep
  <1>7. CASE World
    BY <1>7, WorldStep
  <1> QED
    BY <1>1, <1>2, <1>3, <1>4, <1>5, <1>6, <1>7 DEF Next

\* It holds always.
LEMMA TypeInvariant == Spec => []TypeInv
  BY TypeInit, TypeStep, PTL DEF Spec

(* In every reachable state every column and attribute has its type: in    *)
(* particular no activity is ever handed an id of a row that is not there. *)
THEOREM TypeCorrect == Spec => []TypeOK
  <1>1. TypeInv => TypeOK
    BY DEF TypeInv, StoreInv, LoopInv, GoodRun, ExecInv, GoodExecution, ApiInv, TypeOK,
       LoopTypeOK, ExecTypeOK, ApiTypeOK
  <1> QED
    BY <1>1, TypeInvariant, PTL
=============================================================================
