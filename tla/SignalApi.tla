------------------------------ MODULE SignalApi -----------------------------
(***************************************************************************)
(* The HTTP handlers through which the outside world reaches a contact's   *)
(* loop: the Twilio SMS webhook with its STOP/START fast path              *)
(* (app/api/routers/signals.py, app/services/sms_interaction.py), the end  *)
(* of a voice call and a booked meeting (app/api/routers/voice.py), and an *)
(* operator's edit of contacts.status (app/api/routers/contacts.py).  A    *)
(* handler runs concurrently with both workflows and can fail or die       *)
(* between two of its writes; nothing runs it again.                       *)
(***************************************************************************)
EXTENDS ContactLoop

CONSTANTS
  Text,           \* Text[m]: what message m says
  VoiceOutcomes,  \* outcomes the voice agent reports
  MeetingEnds     \* meeting_end values of bookings

ASSUME ApiAssumption ==
  /\ Text \in [Messages -> {"text", "stop", "start"}]
  /\ VoiceOutcomes \subseteq Outcome
  /\ MeetingEnds \subseteq Time

VARIABLE requests   \* HTTP handlers in flight

(* signal is the row the handler has inserted (0: none yet); interaction   *)
(* and outcome are those of a finished call.                               *)
Request == [kind: {"text", "stop", "start", "meeting", "call"}, signal: Nat,
            pc: {"consent", "confirm", "emit", "backfill", "dispatch", "mark"},
            interaction: Nat, outcome: Outcome \cup {NoOutcome}]

NewRequest(kind) ==
  [kind |-> kind, signal |-> Len(signals) + 1,
   pc |-> IF kind \in {"stop", "start"} THEN "consent" ELSE "dispatch",
   interaction |-> 0, outcome |-> NoOutcome]

Becomes(r, pc) == requests' = (requests \ {r}) \cup {[r EXCEPT !.pc = pc]}
Ends(r) == requests' = requests \ {r}

-----------------------------------------------------------------------------
InboundSms(m) ==
  [type |-> "inbound_sms", channel |-> "sms", outcome |-> NoOutcome, goal |-> NoGoal,
   due |-> NoTime, dedup_key |-> m, status |-> "received"]

Recorded(m) == \E s \in DOMAIN signals : signals[s].dedup_key = m

(* The webhook records message m and goes on to route it; a replay finds   *)
(* dedup_key taken, answers with the existing row and does nothing more.   *)
ReceiveSms(m) ==
  /\ IF Recorded(m) THEN UNCHANGED <<signals, requests>>
     ELSE /\ InsertSignal(InboundSms(m))
          /\ requests' = requests \cup {NewRequest(Text[m])}
  /\ UNCHANGED <<clock, contact, consent, contact_state, tasks, interactions, outbox,
                 budget, history, pending, loop, exec>>

(* Fast path: the consent row is appended first ...                        *)
RecordSmsConsent(r) ==
  /\ r.pc = "consent"
  /\ consent' = [consent EXCEPT !["sms"] = IF r.kind = "stop" THEN "revoked" ELSE "granted"]
  /\ barred' = IF r.kind = "stop" THEN barred
               ELSE {b \in barred : b[2] = "dnc" \/ TaskChannel(b[1]) # "sms"}
  /\ Becomes(r, "confirm")
  /\ UNCHANGED <<clock, contact, contact_state, signals, tasks, interactions, outbox,
                 budget, superseded, pending, loop, exec>>

\* ... then the confirmation is sent and logged, and the signal is processed.
ConfirmKeyword(r) ==
  /\ r.pc = "confirm"
  /\ LogInteraction(0, 0)
  /\ MarkSignalStatus(r.signal, "processed")
  /\ Ends(r)
  /\ UNCHANGED <<clock, contact, consent, contact_state, tasks, outbox, budget, history,
                 pending, loop, exec>>

(* start_workflow, by the webhook or by an emit_* function it calls        *)
Dispatch(r) ==
  /\ r.pc = "dispatch"
  /\ SignalWithStart(r.signal)
  /\ IF r.kind = "text" THEN Becomes(r, "mark") ELSE Ends(r)
  /\ UNCHANGED <<clock, tables, budget, history, exec>>

\* The webhook's last write, not ordered with anything the loop does.
MarkDelivered(r) ==
  /\ r.pc = "mark"
  /\ MarkSignalStatus(r.signal, "delivered")
  /\ Ends(r)
  /\ UNCHANGED <<clock, contact, consent, contact_state, tasks, interactions, outbox,
                 budget, history, pending, loop, exec>>

(* A step of the handler raises: the webhook marks its signal failed and   *)
(* still answers 200; an emit is logged or answers 500.                    *)
RequestFails(r) ==
  /\ Spend("fault")
  /\ IF r.kind \in {"meeting", "call"} THEN UNCHANGED signals
     ELSE MarkSignalStatus(r.signal, "failed")
  /\ Ends(r)
  /\ UNCHANGED <<clock, contact, consent, contact_state, tasks, interactions, outbox,
                 history, pending, loop, exec>>

\* The API process dies.
RequestDies(r) ==
  /\ Spend("fault")
  /\ Ends(r)
  /\ UNCHANGED <<clock, tables, history, pending, loop, exec>>

-----------------------------------------------------------------------------
\* finalize_voice_session logs the call ...
FinalizeVoiceSession(outcome) ==
  /\ Spend("call")
  /\ LogInteraction(0, 0)
  /\ requests' = requests \cup
       {[kind |-> "call", signal |-> 0, pc |-> "emit",
         interaction |-> NextNth(interactions, 0), outcome |-> outcome]}
  /\ UNCHANGED <<clock, contact, consent, contact_state, signals, tasks, outbox, history,
                 pending, loop, exec>>

\* ... inserts its result signal, which carries no task_goal ...
EmitCallResult(r) ==
  /\ r.pc = "emit"
  /\ InsertSignal(InteractionResult("voice", r.outcome, NoGoal))
  /\ requests' = (requests \ {r}) \cup
       {[r EXCEPT !.pc = "backfill", !.signal = Len(signals) + 1]}
  /\ UNCHANGED <<clock, contact, consent, contact_state, tasks, interactions, outbox,
                 budget, history, pending, loop, exec>>

\* ... and links the two; Dispatch does the rest.
BackfillCallResult(r) ==
  /\ r.pc = "backfill"
  /\ BackfillResult(0, r.interaction, r.signal)
  /\ Becomes(r, "dispatch")
  /\ UNCHANGED <<clock, contact, consent, contact_state, signals, tasks, outbox, budget,
                 history, pending, loop, exec>>

(* voice_schedule_meeting, once the slot is booked.  The envelope says     *)
(* channel "sms", whatever the row says.                                   *)
ScheduleMeeting(due) ==
  /\ Spend("meeting")
  /\ InsertSignal([type |-> "meeting_scheduled", channel |-> "sms", outcome |-> NoOutcome,
                   goal |-> NoGoal, due |-> due, dedup_key |-> NoMessage,
                   status |-> "received"])
  /\ requests' = requests \cup {NewRequest("meeting")}
  /\ UNCHANGED <<clock, contact, consent, contact_state, tasks, interactions, outbox,
                 history, pending, loop, exec>>

\* An organization member edits the contact's status.
UpdateContact(status) ==
  /\ Spend("status")
  /\ status # contact
  /\ contact' = status
  /\ barred' = IF status = "dnc" THEN barred ELSE {b \in barred : b[2] = "consent"}
  /\ UNCHANGED <<clock, consent, contact_state, signals, tasks, interactions, outbox,
                 superseded, pending, loop, exec, requests>>

RequestRuns(r) ==
  \/ RecordSmsConsent(r) \/ ConfirmKeyword(r) \/ EmitCallResult(r) \/ BackfillCallResult(r)
  \/ Dispatch(r) \/ MarkDelivered(r)

ApiTypeOK == requests \subseteq Request
=============================================================================
