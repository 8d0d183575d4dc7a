------------------------------ MODULE Decision ------------------------------
(***************************************************************************)
(* The decision engine of the Mirenta Runtime: the pure functions of       *)
(* decision/guardrails.py, decision/rules.py and decision/engine.py.  Time *)
(* is a natural number of hours and `now` is always an argument, as in the *)
(* code.  Nothing here is a state machine: the workflows call Evaluate and *)
(* RunHardGuardrails on what they have read.                               *)
(***************************************************************************)
EXTENDS Integers, Sequences

CONSTANTS
  FREQUENCY_CAP_MAX_ATTEMPTS,  \* attempts before the frequency cap denies
  FREQUENCY_CAP_WINDOW,        \* hours the cap stays closed after the window opened
  FOLLOW_UP_DELAY,             \* hours of silence before the nudge
  DAY,                         \* hours in a day
  QUIET_HOURS_START,           \* local hour at which quiet hours begin
  QUIET_HOURS_END,             \* local hour at which quiet hours end
  TimezoneOffset               \* contact-local hour at instant 0

ASSUME DecisionAssumption ==
  /\ FREQUENCY_CAP_MAX_ATTEMPTS \in Nat \ {0}
  /\ FREQUENCY_CAP_WINDOW \in Nat
  /\ FOLLOW_UP_DELAY \in Nat
  /\ DAY \in Nat \ {0}
  /\ QUIET_HOURS_END \in 0 .. DAY
  /\ QUIET_HOURS_START \in QUIET_HOURS_END .. DAY
  /\ TimezoneOffset \in Nat

-----------------------------------------------------------------------------
(* Values.  NoTime is the None of an optional datetime.                    *)

NoTime == -1
Time == Nat \cup {NoTime}

Channel == {"sms", "email", "voice"}
ContactStatus == {"active", "dnc"}
Consent == {"none", "granted", "revoked"}   \* the current_consent row, "none" if there is none

FOLLOW_UP_GOAL == "follow_up_no_response"
POST_MEETING_GOAL == "post_meeting_followup"
REPLY_GOAL == "reply_to_inbound_sms"
Goal == {FOLLOW_UP_GOAL, POST_MEETING_GOAL, REPLY_GOAL}
NoGoal == "none"

TERMINAL_OUTCOMES == {"opt_out", "goal_achieved", "handoff_human"}
Outcome == TERMINAL_OUTCOMES \cup {"progressed", "no_answer"}
NoOutcome == "none"

MEETING_SCHEDULED_STATE == "meeting_scheduled"
CurrentState == {"new", "awaiting_reply_send", "active", "opted_out",
                 "goal_achieved", MEETING_SCHEDULED_STATE}

SignalType == {"inbound_sms", "interaction_result", "meeting_scheduled", "other"}

\* A contact_state row; `exists` says whether the row has been inserted and
\* `linked` whether temporal_workflow_id is set.
ContactState == [exists: BOOLEAN, linked: BOOLEAN, current_state: CurrentState,
                 contact_attempts: Nat, attempts_window_start: Time,
                 next_task_at: Time]

NewContactState == [exists |-> FALSE, linked |-> FALSE, current_state |-> "new",
                    contact_attempts |-> 0, attempts_window_start |-> NoTime,
                    next_task_at |-> NoTime]

\* Wrong: the signal is left out of the hash.
DeriveIdempotencyKeyWithoutSignal(signal_id, task_type, sequence) ==
  <<0, task_type, sequence>>

\* derive_idempotency_key: the triple itself stands for the hashed string.
DeriveIdempotencyKey(signal_id, task_type, sequence) ==
  <<signal_id, task_type, sequence>>

IdempotencyKey == Nat \X {"sms", "email"} \X {0}
ProposedTask == [idempotency_key: IdempotencyKey, type: {"sms", "email"},
                 scheduled_for: Nat, goal: Goal]

(* A DecisionOutput.  `state` is the contact_state snapshot with the patch *)
(* applied (the loop is the only writer of the table, so writing the row   *)
(* back is writing the patch), `patch` says whether the patch is nonempty. *)
DecisionOutput == [tasks: Seq(ProposedTask), state: ContactState,
                   patch: BOOLEAN, cancel: BOOLEAN]

-----------------------------------------------------------------------------
(* Guardrails.                                                             *)

IsQuietHours(t) ==
  LET hour == (t + TimezoneOffset) % DAY
  IN  hour >= QUIET_HOURS_START \/ hour < QUIET_HOURS_END

NextAllowedSendTime(t) ==
  LET hour == (t + TimezoneOffset) % DAY
  IN  IF ~IsQuietHours(t) THEN t
      ELSE IF hour < QUIET_HOURS_END THEN t + (QUIET_HOURS_END - hour)
      ELSE t + (DAY - hour) + QUIET_HOURS_END

CheckDnc(contact) == contact = "dnc"

CheckConsent(consent) == consent = "revoked"

\* Wrong: one attempt too many.
CheckFrequencyCapOffByOne(state, now) ==
  /\ state.attempts_window_start # NoTime
  /\ state.contact_attempts > FREQUENCY_CAP_MAX_ATTEMPTS
  /\ now - state.attempts_window_start < FREQUENCY_CAP_WINDOW

CheckFrequencyCap(state, now) ==
  /\ state.attempts_window_start # NoTime
  /\ state.contact_attempts >= FREQUENCY_CAP_MAX_ATTEMPTS
  /\ now - state.attempts_window_start < FREQUENCY_CAP_WINDOW

\* Wrong: an opt-out is not consulted.
RunHardGuardrailsWithoutConsent(contact, state, consent, now) ==
  CheckDnc(contact) \/ CheckFrequencyCap(state, now)

\* Wrong: a contact marked "dnc" is not consulted.
RunHardGuardrailsWithoutDnc(contact, state, consent, now) ==
  CheckConsent(consent) \/ CheckFrequencyCap(state, now)

\* TRUE when run_hard_guardrails returns at least one denial.
RunHardGuardrails(contact, state, consent, now) ==
  CheckDnc(contact) \/ CheckConsent(consent) \/ CheckFrequencyCap(state, now)

-----------------------------------------------------------------------------
(* One rule per signal type.  `s` is the signal's row id, `signal` the row *)

Output(tasks, state, patch, cancel) ==
  [tasks |-> tasks, state |-> state, patch |-> patch, cancel |-> cancel]

Propose(s, type, scheduled_for, goal) ==
  <<[idempotency_key |-> DeriveIdempotencyKey(s, type, 0), type |-> type,
     scheduled_for |-> scheduled_for, goal |-> goal]>>

\* Wrong: the reply carries the goal of a nudge.
DecideOnInboundSmsAsNudge(s, signal, contact, state, consent, now) ==
  IF RunHardGuardrails(contact, state, consent, now)
  THEN Output(<<>>, state, FALSE, TRUE)
  ELSE Output(Propose(s, "sms", now, FOLLOW_UP_GOAL),
              [state EXCEPT !.contact_attempts = @ + 1], TRUE, TRUE)

DecideOnInboundSms(s, signal, contact, state, consent, now) ==
  IF RunHardGuardrails(contact, state, consent, now)
  THEN Output(<<>>, state, FALSE, TRUE)
  ELSE Output(Propose(s, "sms", now, REPLY_GOAL),
              [state EXCEPT
                 !.contact_attempts = @ + 1,
                 !.attempts_window_start = IF @ = NoTime THEN now ELSE @,
                 !.current_state = "awaiting_reply_send",
                 !.next_task_at = NoTime],
              TRUE, TRUE)

\* signal.due is the payload's meeting_end, NoTime when missing or unparsable.
DecideOnMeetingScheduled(s, signal, contact, state, consent, now) ==
  LET booked == [state EXCEPT !.current_state = MEETING_SCHEDULED_STATE]
  IN  IF signal.due = NoTime
      THEN Output(<<>>, state, FALSE, FALSE)
      ELSE IF RunHardGuardrails(contact, state, consent, now)
      THEN Output(<<>>, booked, TRUE, FALSE)
      ELSE Output(Propose(s, "email", signal.due, POST_MEETING_GOAL),
                  [booked EXCEPT !.next_task_at = signal.due], TRUE, FALSE)

ClosedState(outcome) == IF outcome = "opt_out" THEN "opted_out" ELSE "goal_achieved"

\* Wrong: a follow-up's own result calls for another.
ShouldFollowUpAgain(signal, contact) ==
  signal.outcome \notin TERMINAL_OUTCOMES /\ contact # "dnc"

ShouldFollowUp(signal, contact) ==
  /\ signal.outcome \notin TERMINAL_OUTCOMES
  /\ signal.goal # FOLLOW_UP_GOAL
  /\ contact # "dnc"

\* Wrong: a booked meeting is not looked at.
DecideOnInteractionResultIgnoringMeeting(s, signal, contact, state, consent, now) ==
  LET nudge_at == NextAllowedSendTime(now + FOLLOW_UP_DELAY)
  IN  IF ShouldFollowUp(signal, contact)
      THEN Output(Propose(s, "sms", nudge_at, FOLLOW_UP_GOAL),
                  [state EXCEPT !.current_state = "active"], TRUE, FALSE)
      ELSE Output(<<>>, state, TRUE, FALSE)

\* Every branch patches at least last_contacted_at, so `patch` is TRUE.
DecideOnInteractionResult(s, signal, contact, state, consent, now) ==
  LET nudge_at == NextAllowedSendTime(now + FOLLOW_UP_DELAY)
      active == [state EXCEPT !.current_state = "active"]
  IN  IF signal.outcome \in {"opt_out", "goal_achieved"}
      THEN Output(<<>>, [state EXCEPT !.current_state = ClosedState(signal.outcome),
                                      !.next_task_at = NoTime], TRUE, FALSE)
      ELSE IF state.current_state = MEETING_SCHEDULED_STATE
      THEN Output(<<>>, state, TRUE, FALSE)
      ELSE IF ShouldFollowUp(signal, contact)
              /\ ~RunHardGuardrails(contact, state, consent, now)
      THEN Output(Propose(s, "sms", nudge_at, FOLLOW_UP_GOAL),
                  [active EXCEPT !.next_task_at = nudge_at], TRUE, FALSE)
      ELSE Output(<<>>, active, TRUE, FALSE)

Evaluate(s, signal, contact, state, consent, now) ==
  CASE signal.type = "inbound_sms" ->
         DecideOnInboundSms(s, signal, contact, state, consent, now)
    [] signal.type = "interaction_result" ->
         DecideOnInteractionResult(s, signal, contact, state, consent, now)
    [] signal.type = "meeting_scheduled" ->
         DecideOnMeetingScheduled(s, signal, contact, state, consent, now)
    [] OTHER -> Output(<<>>, state, FALSE, FALSE)
=============================================================================
