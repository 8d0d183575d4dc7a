# Verification of the Mirenta Runtime

TLA+ modules, TLC runs and TLAPS proofs for the Mirenta backend. Paths are relative to `src/`.

The Runtime talks to *contacts* of an organization by SMS, voice and email. Whatever happens to a
contact becomes a row of `signals`; a durable workflow per contact runs each signal through a
deterministic decision engine; the engine proposes tasks; a durable workflow per task waits until
the task is due, checks the guardrails again, lets an LLM draft the message, sends it, logs the
interaction and emits its result as a new signal:

    signal --> contact loop --> decision --> task --> task execution
       ^                                                    |
       +---------------- interaction_result ----------------+

## 1. Inventory

### Modelled

| Component | State it keeps | Operations | Interacts with |
|---|---|---|---|
| decision engine (`decision/`) | none | `evaluate`, one rule per signal type, hard guardrails, quiet hours, idempotency key | called by both workflows |
| tables of a contact (`supabase/migrations/0003`–`0006`, `activities/`) | `contacts.status`, `consent`, `contact_state`, `signals`, `tasks`, `interactions` | one activity per read or write | written by handlers, loop and executions, without transactions across calls |
| contact loop (`workflows/contact_loop.py`) | in-memory queue `_pending`, counter `_processed` | register, pop, handle a signal in up to ten activities, continue-as-new | signal-with-start from handlers and executions; starts executions |
| task execution (`workflows/task_execution.py`) | its position, what it has read | timer, re-read, guardrails, interaction, send, log, emit, complete | Twilio, Gmail, the loop |
| webhooks (`app/api/routers/signals.py`, `voice.py`, `app/services/sms_interaction.py`, `app/api/twilio_utils.py`) | a request in flight | find organization, check signature, find or create contact, record, route, STOP/START, dispatch, mark, dial | read what provisioning writes; insert signals, start the loop, write consent |
| voice finalization (`app/api/routers/voice.py`) | a request in flight | log a call, emit its result | starts the loop |
| booking API (`voice.py`, `app/services/calendar.py`, `email.py`) | a request in flight | availability, book, confirm by mail, re-enter the loop | Google, the loop |
| calendar service (`app/services/calendar.py`) | none: the calendar is Google's | resolve hours, weekdays and length, query free/busy, open slots, book | called by the booking API |
| voice agent (`livekit_agent/src/`) | the call's data: address, look-up under way, what was offered | bootstrap, three tools with a 30-second client, finalize | calls the booking API |
| Google connection (`google_oauth.py`, `google_client.py`) | one credential per organization | connect, callback, store; POSTs that are tried again | credential read by every booking request |
| organization provisioning (`organizations.py`, `twilio_client.py`, `supabase/migrations/0001`, `0009`) | organization, members, secret; subaccount and number at Twilio | insert, owner, subaccount, search, buy, service, attach, publish, secret; edits, memberships | Twilio; rows read by the webhooks |
| contacts API (`app/api/routers/contacts.py`) | none | edit of `status` | read by both workflows and by incoming calls |
| SMS agent graph (`app/core/langgraph/`, `activities/interactions.py`) | one checkpointed thread per contact: turns, goal, draft, guardrail attempts and feedback, next node | start or resume the graph, compose, check the draft, retry or escalate, return | run by the executions' `run_interaction`, asks the LLM service |
| LLM service (`app/services/llm/service.py`) | the index of the current default model, shared by all calls | call, retry a model, switch to the next, give up | called by every graph at once |

What makes each of them correct:

- *Decision engine*: a rule never proposes past a hard denial; a nudge is proposed only after an
  interaction that may have one, at an hour outside quiet hours; a booked meeting keeps nudges away.
- *Tables*: counters count an event once, and what is counted is answered; a completed task can be traced
  through its interaction to the signal that reports it.
- *Contact loop*: signals are handled one at a time, every queued one is handled in spite of retries
  and continue-as-new.
- *Task execution*: a task canceled or barred while it slept sends nothing; a settled task stays
  settled; every due task ends.
- *Webhooks*: a text is recorded once, for the organization that has the number, and what was
  answered has been routed; a barred caller is not put through.
- *Calendar service*: an answer consists of the earliest open slots of the week, whatever was asked.
- *Booking API and voice agent*: what a caller is told is booked is booked; confirmations go out for
  booked meetings, to the address read back; nothing but a stale offer double-books.
- *Google connection*: a lost answer costs at most one duplicate each.
- *Provisioning*: an organization reported as created has its owner; its row never shows half of
  what was set up at Twilio; a number bought stays its buyer's.
- *SMS agent graph*: what it returns has passed the guardrails or apologises, after a bounded number of
  drafts, whatever other run shares the thread; without overlap each reply answers its own turn.
- *LLM service*: a call that gives up has asked every model, and every call ends.

### Not modelled

| Part | Why |
|---|---|
| authentication, profiles, knowledge | single-row CRUD behind a membership check; the only state shared with the loop is text for the prompt |
| configuration, logging, metrics, middleware, client caches | I/O and values with no protocol state (`execute_query`'s retry of writes is modelled where it is used) |
| operator endpoints that list or insert (`create_signal`, `list_signals`, contacts list, timeline), deletion of a contact | reads, rows that never reach a loop, and a cascade that ends the model |
| streaming, chat history and clearing in `langgraph/base.py`; the voice graph | nothing calls them on the path of a task; the voice graph has the nodes of the SMS graph |
| console session and speech pipeline of the voice agent, spelling of addresses | no state shared with the backend |
| signature of the OAuth state, encryption of tokens, MIME | data: a callback succeeds or ends in an error |
| clock changes inside the week looked ahead | one offset is assumed; see the hazard at `app/services/calendar.py:190` |

The behaviours that are hard to test, each at its line, are the `hazards` of `PROJECT.json`: retries
of an activity or a POST that took effect, reads that are stale when used, blind status writes racing
each other, signals handled in an order nobody intended, half-finished chains of external calls,
processes dying between two writes.

## 2. Modules

| Module | Models | State | Actions |
|---|---|---|---|
| `Decision` | `decision/*.py` | none: operators | – |
| `ContactStore` | the contact's tables and the effect of one attempt of each activity | `clock contact consent contact_state signals tasks interactions outbox budget`, history `superseded barred` | operators on one table each |
| `ContactLoop` | `ContactLoopWorkflow` and signal-with-start | `pending loop exec` | one per activity of `run` and `_handle_signal` |
| `TaskExecution` | `TaskExecutionWorkflow`, SMS and email branch | `exec[t]` | one per activity |
| `SignalApi` | routing of a text, STOP/START, end of call, booking, status edit, as the loop sees them | `requests` | one per write of a handler, failure, death |
| `AgentLoop` (`MCAgentLoop`) | their composition, time, fairness, the properties | all | `Next` |
| `TaskLifecycle` | *abstract*: what a task row is promised | `status phase sent` | schedule, cancel, wake, skip, start, send, complete, fail |
| `SmsGraph` (`MCSmsGraph`) | `run_interaction`, `get_response`, the two nodes of the SMS graph | `thread`, `runs`, `faults`, history `undisturbed` | begin, invoke, resume, compose, guardrails, return, fail, die, time out |
| `LlmFallback` (`MCLlmFallback`) | `LLMService.call` | `current_model_index`, `calls` | call, end, retry, give up, next model (one-off or shared) |
| `CalendarSlots` | slot arithmetic of `calendar.py`, and a reference definition of the right answer | none: operators | – |
| `Availability` (`MCAvailability`) | one availability request | question, world, answer | query, compute |
| `GoogleAccount` | OAuth flow, and the effects of a POST to Google | `credential flows blocks events mails calm`, history `stale` | connect, error, exchange, store, owner blocks |
| `VoiceApi` | `availability` and `schedule-meeting` | `requests followups lookups` | look-up: load, query; booking: load, book, find recipient, mail, emit, each lost or repeated |
| `VoiceAgent` | the agent's job for a call | `calls offered told` | bootstrap, ask and read out (or not), the other two tools, answer or time-out, close |
| `VoiceBooking` (`MCVoiceBooking`) | composition of the last three with an owner of the calendar | all | `Next` |
| `Organizations` | `create_organization` with `provision_org_twilio`, edits, memberships, constraints and row policies | `organizations members secrets creations holder subaccounts calm`, history `marred` | one per call to the database or Twilio |
| `TwilioWebhook` | both webhooks from number to signal | `contacts barred called signals webhooks` | one per query |
| `OrgSetup` (`MCOrgSetup`) | composition of the last two | all | `Next` |
| `Tenancy` | *abstract*: whose number, whose message | `owner recorded` | acquire, record |
| `AgentLoopProofs`, `DeliveryProofs`, `SmsGraphProofs`, `LlmFallbackProofs`, `CalendarProofs`, `AvailabilityProofs`, `VoiceBookingProofs`, `OrgSetupProofs` | theorems | – | – |

The detailed specifications implement the abstract ones under refinement mappings stated where they
are used: `AgentLoop!Lifecycle` (a task's status, the phase of its execution, the tasks something was
sent for) and `OrgSetup!Promise` (the holder of each number at Twilio, the organization each signal
was recorded for). The two meet the rest of the project at two points: what `RouteText` starts is
`SignalApi`'s handling of a text, and what `EmitMeetingScheduled` and `SessionCloses` start are
`SignalApi`'s `ScheduleMeeting` and `FinalizeVoiceSession`.

**Correspondence.** A workflow's program counter `pc` names the activity it runs next; what it has
read so far (`contact`, `state`, `consent`) is kept in its record, so that a stale read is a stale
field. Each table is a variable of its own; a row's id is its index. `signals[s].channel` is the
channel of the `SignalEnvelope`. A patch of `contact_state` is applied to the snapshot the loop
read: the loop is the only writer of that row, so writing the snapshot back is writing the patch.
`outbox` is what Twilio or Gmail were handed, with the time. The map in `PROJECT.json` gives every
definition's lines.

**Activities.** Temporal runs an activity at least once. Every action of a workflow that writes is
`effect /\ (completion reaches the workflow \/ it is lost)`; a lost completion, like a failure before
the effect (`LoopActivityFails`, `ExecActivityFails`), counts an attempt and leaves the workflow at
the same activity; after the last attempt the workflow fails (the loop's queue goes with it, an
execution simply stops). Reads whose completion is lost are covered by the failure before the
effect. `emit_interaction_result_signal` is one activity with three visible steps and is retried
from the first. A worker crash between activities is absorbed by Temporal's replay.

**Handlers** run once: they fail (`RequestFails`) or die (`RequestDies`) between two writes.

**Time** is in whole hours, the clock takes values in `Times` and only moves forward.

**Left out**, and why it does not matter to the properties: payload texts, `memory_summary`,
`last_contacted_at`, denial details (no guard reads them); the first `get_task` of an execution
(reads only `scheduled_for`, which nobody updates); `get_organization` (a read, merged with the step
it precedes); contact statuses other than `dnc` (only `dnc` is compared) and outcomes that are
neither terminal nor tested (`progressed` and `no_answer` stand for them); the send, log and mark of
the STOP/START confirmation are one step, since nothing else touches those rows; deletion of a
contact (it cascades to every table here); an activity attempt that goes on running after Temporal
has given it up for dead, beside its own retry; other contacts (workflows, queue and rows are per
contact). What the LLM drafts is a choice: a reply, none, or an escalation.

**The drafting of a message** is one activity to `TaskExecution` and a system of its own to
`SmsGraph`: the attempts of `run_interaction` of all tasks of one contact are runs over the
contact's one LangGraph thread. `SmsGraph` needs nothing of the loop but that tasks may overlap
and attempts may be repeated, so the two are checked apart: its runs end with a reply that has been
checked or with a failure, and both are choices of `ExecInteract`. Assumed of LangGraph (external):
`aget_state` and the start of `ainvoke` each read the latest checkpoint of the thread; a run works on
its copy and writes it back after each node; `ainvoke(input)` starts from the entry point, while
`Command(resume=...)` goes on with the next node, and a resume value nobody waits for is dropped.
Assumed of Temporal: a timed-out attempt is retried although it may still be running. The
messages of the thread are reduced to whose turns are in it and what the last AI turn is;
`channel_constraints` and `knowledge` are kept in the thread exactly as the goal is, which stands for
them. What `_check_draft` looks for is reduced to whether it finds something.

`LlmFallback` has one step per await: between two of them the event loop runs nothing else. The
history fields `tried` and `disturbed` serve the property only.

**Booking.** A request of `schedule-meeting` is a record with the `pc` of the call to Google or the
database it makes next. `google_client`'s POSTs are tried again after a time-out or a 5xx although Google
may have acted, so an effect and the loss of its answer are one step with two outcomes (`PostIsLost`);
the attempt number tells apart the events of one request. The agent's tool call is a separate record: it
can stop waiting (`ToolTimesOut`) while the request runs on. A look-up (`lookups`) has a step per await
too: the tool asks (`AskAvailability`), the endpoint loads the credential (`LoadForAvailability`), then
gets an access token and Google's free/busy answer for the account it loaded (`QueryCalendar`), and the
answer is on its way until it is read out (`ReadOut`) or dropped by an error or the tool's time-out
(`LookUpFails`); bookings, owners' entries and reconnections fall between any two of them. Two pairs stay
one step each: the token and the query, both made for the account that was loaded, and the query and the
slots computed from its answer, since no await lies between. A call has one look-up at a time; one that
was given up only reads, so what becomes of it does not matter. `offered` is what was read out in a call
(the first five slots of an answer); that the language model books only slots from a list it was given is
its instructions' rule, and the one assumption about it. The history variable `stale` marks a slot of an
answer, read out or still on its way, that was taken or whose calendar was replaced since Google answered
(or, of the calendar, since the credential was loaded). `Disturbances` bounds losses, deaths, OAuth
attempts and owners' entries together. Times are minutes from midnight of the day of the lookup. Google
is external: it holds calendars and mails, and checks nothing.

**Organizations.** A creation is a record with its `pc` along the chain of calls; `Raised` is where
an exception leads at each point (an error answer before the owner is in, swallowed after it).
`execute_query` repeats a write after a transient error: an insert that had taken effect is then a
duplicate and raises (`Acknowledged`, and `Loses` in the webhooks). An organization id also names its
Twilio subaccount. Unique indexes and the row policies of `0001_organizations.sql` are guards. Users
who may do nothing are not modelled beyond those guards. A webhook goes to whichever number somebody
holds, and is signed with the token of the account that holds it. `marred`, and the fields `early`,
`was_barred` and `lost` of a webhook, are history for the properties. Assumed of the configuration:
the parent token and `LIVEKIT_SIP_URI` are set. No code writes consent for voice, so `dnc` is the only
denial of a call. Twilio is external: it sells each number once, signs, and may deliver twice.

## 3. Runs

The runs of the agent loop instantiate `MCAgentLoop`. The constants of the code are kept where the run is about them
(`FREQUENCY_CAP_WINDOW` 24 h, `FOLLOW_UP_DELAY` 72 h, quiet hours 21–8) and two attempts stand for
five (of the two, the first can fail and the second be the last: more attempts repeat the first
case). `Budget` bounds the events of the environment: `fault` (a failed or lost activity, a failed or
dead request), `status` (edits), `call`, `meeting`. The clock takes one or two values: an hour of
the day, and one past the timer under study. `MAX_SIGNALS_PER_RUN = 1` makes continue-as-new
compete with every signal. `MaxTasks` 4 is enough for every decision the events of a run can lead to.
Deadlock is not checked: once every message is handled and every timer out of reach, the system
rightly waits.

| Run | What it asks | Bounds, and why they are enough | States |
|---|---|---|---|
| `chat` | is a text counted twice (`AttemptsNeverOvercounted`), or counted and not answered, or answered and not counted (`CountedTextsHaveReplies`); does the cap hold (`RepliesStayBelowCap`); does a completed task leave its trail (`AuditTrail`); does a repeated emission add more than one nudge (`OneNudgePerInteraction`); types | two texts, interchangeable (symmetry: nothing tells them apart), two faults anywhere, which are the attempts of an activity: a retry can succeed, or end the run; cap 2 so that the second text reaches it | 1,292,723 |
| `supersede` | is a nudge canceled in its sleep, or whose contact was barred in it, ever sent (`SupersededNeverSent`, `BarredNeverSent`); can nudges chain (`NudgeNeverChains`) or multiply (`OneNudgePerInteraction`); does every step keep to `TaskLifecycle` (`TasksKeepToTheirLifecycle`) | a text, a call and an edit of the contact, hours 12 and 90: the nudge of either is due at 90, and may be canceled before, at or after its wake-up; replies and escalations | 1,217,558 |
| `calls` | does an execution that wakes after a STOP send (`BarredNeverSent`); does a booked meeting keep nudges away, in every order of the signals (`MeetingOwnsNextTouch`) | a text, a STOP, a call and a booking: one of each makes every order of results and booking; nothing fails and nothing closes the goal, so that a reply in between is the only excuse left; one hour, since no order depends on it; `MAX_SIGNALS_PER_RUN` 4 | 1,503,212 |
| `liveness` | is a queued signal processed, does a due task settle | a text, a fault, hours 12 and 90; under `FairSpec` | 23,057 |
| `sms_graph` | is whatever a run returns checked (`RepliesAreChecked`), are its drafts bounded (`DraftsAreBounded`), does each reply answer its own turn when nothing overlaps (`UndisturbedSeesPriorTurns`) | two tasks of two attempts, so that up to four runs overlap on the thread; 2 guardrail attempts for 3 (one to retry, one to escalate); one fault: a raise, a death or a time-out, anywhere | 2,281,444 |
| `llm_fallback` | does a call that gives up have asked every model (`UndisturbedTriesEveryModel`), does every call end (`CallsEnd`) | two default calls and a one-off call, 3 models (4 in the registry; 3 tell the next from the previous), 2 attempts for 3 | 186,075 |
| `availability` | are the slots answered the right ones (`AnswersAreRight`, against a definition without loops: free, acceptable, the earliest, as many as there are) | 144 questions with hours at and beyond the edges of the day and lengths at and beyond the edges of the band, two minutes of the day, two weekdays, every subset of three entries: one that touches a slot, one over midnight, one at the end of the week | 13,824 |
| `voice_booking` | is what a caller is told true (`ToldMeansBooked`); who gets confirmations (`ConfirmationsMatchBookings`); when can two bookings collide (`DoubleBookingNeedsStaleOffer`), when is one booked twice (`DuplicatesAreLostAnswers`) | two calls, two booking requests, two accounts, 2 attempts for 3, one disturbance anywhere: enough for a request that outlives its tool call to meet the second one. Calls and accounts are interchangeable. The question has one slot, on the last of the seven days, and the owner's entry overlaps it, so every two bookings compete; several slots are left to `availability` and to the theorems, which have any questions and entries. A look-up is five steps, between any of which the other call books, the owner enters something or an account is connected | 545,943 |
| `org_setup` | does what is created have an owner and a whole set-up (`OrganizationsHaveOwners`, `ProvisioningIsWhole`); does what arrives reach the right organization, once, and get routed (`MessagesStayInTheirOrganization`, `InboundIsHeard`, `AnsweredTextIsRouted`, `NumbersHaveOneTenant`); is a barred caller put through (`BarredCallersAreNotDialed`) | two organizations, asked for by one user or two, with one slug or two and with or without a phone; one number for sale, which both may find; a text and a call of one contact, each delivered up to twice; one disturbance anywhere | 1,603,807 |
| `double_send` | *violation*: `docs/architecture.md:67`, a retried activity never double-sends | a text, a fault | – |
| `rolling_cap` | *violation*: `decision/guardrails.py:82`, the cap holds within the rolling window | two texts a day apart, cap 1 | – |
| `thread_goal` | *violation*: `nodes/compose.py:37`, the draft is for the task's goal | two tasks of one attempt | – |

Bounds left tight: no run texts START (it writes the consent row back and lifts the bars, which only
permits more); `org_setup` and `voice_booking` have one disturbance, so that two independent failures
are covered by the theorems of section 4 and not by TLC.

**Fairness** (`FairSpec`). Temporal's workers keep polling, so the loop and each execution are weakly
fair; the API finishes a request it accepted, so its steps are weakly fair taken together; time
passes. Nothing is assumed of the outside world, and faults are never forced. A step that failed is
enabled again until its attempts are spent, so weak fairness is what a retry policy gives. In
`LlmFallback` the step of a call is weakly fair: a request that is out is answered, fails or runs into
the total budget, which outcome is not assumed. A `SmsGraph` run has no liveness property: the bound
on its drafts is a safety property. `VoiceBooking`, `Availability` and `OrgSetup` claim safety only: a
request may die at every step and nobody takes it up again.

**Findings.** The three violations are disagreements between the code and what it says of itself:

- `send_sms_message` is retried up to three times and has no key of its own: a send that took effect
  and was reported failed goes out twice. `idempotency_key` protects the row, not the message.
- `attempts_window_start` is set once and `contact_attempts` never reset: after the first window has
  passed the cap never denies again.
- `compose` prefers the goal in the checkpointed thread to the task's, and the thread is the
  contact's: from the second interaction on every message is drafted for the goal of the first.

Seen while modelling, without a run of their own. Of the loop: the webhook writes `delivered` after
`start_workflow` returned, over the loop's `processed` (`signals.py:164`); `decide_on_inbound_sms`
overwrites `meeting_scheduled`, so a text between a booking and the result of the call lets that result
schedule a nudge behind the post-meeting email, and so do a result that closes the goal and a run that
fails after its patch and before its insert (`MeetingOwnsNextTouch` names these as the only ways); a
reply is counted when decided and checked when executed, so the cap of 3 lets two replies out in the first
window (`RepliesStayBelowCap` states exactly this); a task canceled between an execution's re-read
and its write of `running` is sent; a STOP that lands after the execution read the consent is too
late; `set_contact_workflow_id` runs before the row it updates exists and does nothing for a new
contact; a text is counted and its signal marked processed before its task is inserted, so a run that exhausts
the attempts of an activity in between loses the reply (`CountedTextsHaveReplies` allows one for each
`DefaultAttempts` failures, and no other); `meeting_scheduled` is gated on SMS consent when decided (the envelope
says `sms`) and on email consent when executed; a retried emission leaves two result signals for one
interaction, and so possibly two nudges (`OneNudgePerInteraction` allows one more per failed attempt, and no other).

Of the graph and the LLM service: `guardrail_attempts` is never reset, so that after three checked
drafts in a contact's life the next rejected one escalates at once; the knowledge of the first
interaction is kept like its goal; an attempt that died in the graph makes the next one resume it and
drop its own message, and possibly return the previous reply again; a run whose thread another run
has left in the middle raises when it looks for the interrupt; concurrent default calls that switch
models make each other ask a model twice and skip another, so that `docs/llm-service.md:61` ("stops
after one full cycle") holds of the number of models asked but not of which; that document draws a
non-retryable error as the end of the call, while the code, and `LlmFallback`, go on to the next model.

Of bookings: nothing looks at the calendar again between an offer and its booking; a POST that timed
out is made again, so that one booking may become two events; `booked_event_id` in `call_state.py` is
never set, the booking's answer carries no event id, and so the agent cannot recognise a booking it has
made before; a tool that timed out says there was a problem although the meeting may be booked.

Of organizations: the policy "First member of a brand-new org self-inserts as owner"
(`0001_organizations.sql:129`) compares `m.org_id` with itself, so that a user who is in an
organization already cannot own a second one, and leaves its row, and slug, behind; nothing that was
opened or bought at Twilio is given back when a later step fails; the number bought overwrites a phone
entered meanwhile; between the update of the row and the write of the secret the organization's own
webhooks are turned down; a text whose insert was repeated by `execute_query` takes itself for a replay
and is answered without being routed (`AnsweredTextIsRouted` bounds it to disturbed deliveries).

## 4. Proofs

For every value of the constants that meets the `ASSUME`s (any messages, any instants, any number
of faults, calls, bookings and edits, any attempts and thresholds):

| Theorem | Says |
|---|---|
| `AgentLoopProofs!NextAllowedSendTimeIsFirst` | `next_allowed_send_time` returns the first hour outside quiet hours, across midnight, at any offset |
| `AgentLoopProofs!TypeCorrect` | `Spec => []TypeOK` |
| `DeliveryProofs!CountedTextsAreAnswered` | `Spec => []CountedTextsHaveReplies` |
| `DeliveryProofs!SupersededIsNeverSent` | `Spec => []SupersededNeverSent` |
| `DeliveryProofs!BarredIsNeverSent` | `Spec => []BarredNeverSent` |
| `SmsGraphProofs!SubagentTypeCorrect` | `Spec => []SubagentTypeOK` |
| `SmsGraphProofs!DraftsBounded` | `Spec => []DraftsAreBounded` |
| `SmsGraphProofs!RepliesChecked` | `Spec => []RepliesAreChecked` |
| `SmsGraphProofs!UndisturbedRunsShareTheThread` | `Spec => []UndisturbedSeesPriorTurns` |
| `LlmFallbackProofs!LlmTypeCorrect` | `Spec => []LlmTypeOK` |
| `LlmFallbackProofs!GivesUpAfterEveryModel` | `Spec => []UndisturbedTriesEveryModel` |
| `DeliveryProofs!TasksKeepTheirLifecycle` | `AgentLoop` implements `TaskLifecycle` |
| `DeliveryProofs!CompletedLeavesTrail` | `Spec => []AuditTrail` |
| `DeliveryProofs!NudgesNeverChain` | `Spec => []NudgeNeverChains` |
| `DeliveryProofs!AttemptsAreNeverOvercounted` | `Spec => []AttemptsNeverOvercounted` |
| `DeliveryProofs!RepliesAreCapped` | `Spec => []RepliesStayBelowCap` |
| `DeliveryProofs!NudgesArePaidFor` | `Spec => []OneNudgePerInteraction` |
| `DeliveryProofs!MeetingKeepsTheTouch` | `Spec => []MeetingOwnsNextTouch` |
| `AvailabilityProofs!AnswersAreAlwaysRight` | `Spec => []AnswersAreRight` |
| `VoiceBookingProofs!BookingTypes` | `Spec => []TypeOK` |
| `VoiceBookingProofs!ToldIsBooked` | `Spec => []ToldMeansBooked` |
| `VoiceBookingProofs!ConfirmationsAreTrue` | `Spec => []ConfirmationsMatchBookings` |
| `VoiceBookingProofs!DoubleBookingsAreStale` | `Spec => DoubleBookingNeedsStaleOffer`, an action property |
| `VoiceBookingProofs!DuplicatesArePaidFor` | `Spec => []DuplicatesAreLostAnswers` |
| `OrgSetupProofs!OrgSetupTypes` | `Spec => []TypeOK` |
| `OrgSetupProofs!MessagesStay` | `Spec => []MessagesStayInTheirOrganization` |
| `OrgSetupProofs!BarredAreNotDialed` | `Spec => []BarredCallersAreNotDialed` |
| `OrgSetupProofs!AnsweredIsRouted` | `Spec => []AnsweredTextIsRouted` |
| `OrgSetupProofs!CreatedAreOwned` | `Spec => []OrganizationsHaveOwners` |
| `OrgSetupProofs!WholeProvisioning` | `Spec => []ProvisioningIsWhole` |
| `OrgSetupProofs!InboundHeard` | `Spec => []InboundIsHeard` |
| `OrgSetupProofs!OneTenant` | `OrgSetup` implements `Tenancy` |

*Assumptions.* `DecisionAssumption` (quiet hours are hours of a day: the end not after the start; the
frequency cap is at least one, without which no window has fewer replies than the cap),
`StoreAssumption`, `LoopAssumption`, `ExecutionAssumption`, and each module's own (`…Assumption`):
constants have their types, placeholders such as `NoAccount` are none of the values they stand beside,
and there is at least one attempt. The theorem on quiet hours also needs them to leave some of
the day.

*Type correctness.* `TypeOK` is not inductive: a decision has the right type only if the signal it
is about is a row of the table. `TypeInv` adds that every id held by the loop (in the queue, being
handled, just inserted), by an execution or by a handler is that of an existing row, that a loop
about to insert has a task left to insert, and that the tables whose rows are counted are finite.
Tables only grow (`Grows`), so every part not touched by a step is kept by one lemma each
(`LoopKept`, `ExecKept`, `ApiKept`), and each action only accounts for what it writes.

*Delivery.* `DeliveryInv` has three parts. `SentInv`: a message that is out belongs to an execution
past its check. `SupersededInv`: a superseded task is still canceled – nobody but its own execution
writes its status, and that one sleeps or has ended – and has sent nothing. `BarredInv`: a bar that
was up at the wake-up and not lifted is still up, so whichever of contact and consent the execution
has read by now, it has read the bar, and the check denies. The lemma `ExecEffect` first reduces the
fifteen actions and the failure of an execution to one relation `Effect`; `OtherSteps` does the same
for everything else; the invariants are then proved against these two.

*Lifecycle.* The refinement needs to know which statuses a task can have at each `pc` of its execution
(`Fits`): `update_task_status` writes blindly, so what is proved is that the status it overwrites is
one that `TaskLifecycle` lets it overwrite. The relation `Lives` says where a step leaves an execution
and what it does to the row and the outbox; its disjuncts are matched with the abstract actions, once
each, and `OthersLive` leaves three actions of the loop.

*Trail.* `AuditTrail` says nothing of a task that is not completed, and it is the execution's `pc` that
knows what is still to come. `TrailInv` says it: at the backfill the execution holds a signal that
carries the task's goal, from the delivery on an interaction of the task has its result. A repeated
emission starts over from the insert, so the interaction may be linked anew, but only to such a signal
(`ResultsInv`). `NudgesInv` follows the goal the other way, from the signal through the decision being
carried out to the row: a nudge, proposed or inserted, was caused by a recorded signal whose goal is
not the follow-up's. Both rest on `StepKeepsSignals` and `StepKeepsTasks` – no step rewrites a goal or
a key – and together they exclude the chain.

*Counting.* `contact_attempts` is written by one process, so what the loop has read is what is there
when it writes (`ReadInv`). A signal is, from its insertion on, with one request or execution, or once
in the queue, or taken off it, for good (`OnceInv`, over `Custody`), and what is left of a decision is
one proposal for the signal in hand (`PlanInv`). So the texts taken and decided bound the count
(`AttemptsInv`): a patch applied by several attempts writes the same value. For the cap, every reply
is counted, the planned one at the latest by the patch in hand (`CountedInv`), the first text that
counts opens the window and nobody moves it (`WindowInv`), and an execution past its check was allowed
when fewer replies than the cap had been decided up to its own, or when the window was over
(`CapInv`). The last reply of a window was allowed with all the others counted: fewer than the cap.

*Lost replies.* `LostInv` keeps the account of `CountedTextsHaveReplies` at every point of a run: the
texts counted, or about to be by the patch in hand, that have no row and no plan for one (`Unreplied`)
cost `DefaultAttempts` faults each, and the attempts that the activity in hand has used up are faults
not spent yet. A decision that counts a text plans its reply, under a key no row has, because no task
was caused by a signal that is still being decided (`PlaceInv`); a plan is kept until its row is there
(`ReplyPlannedOn`), through the patch, the cancellations, the mark and every retry; only a run that
fails drops it, and that run has just made its last attempt (`AttemptsAccounted`). Keys are not taken
for granted here: were they derived without the signal, the second text would find the first one's row.

*Nudges.* A nudge is caused by a result, and no two by the same (`NudgesInv`, and `OneTaskPerKey`, a
lemma on `insert_task`: both would have its `SmsKey`); being taken off the queue, that result is no longer with the request that
backfills it (`OnceInv`). So nudges map injectively to the results *shown*. `ShareInv` weighs these
and the executions about to emit against the interactions that may call for a nudge and the failed
attempts: an execution pays with its interaction, which it logs before it emits, and one that emits
again was sent back by a failure. It needs interactions to be numbered per task (`NumberedInv`) and
each call to be reported by one request (`ReportsInv`).

*Meetings.* The rule looks at `current_state` alone. `OwnedInv` says that while a meeting's email has
not been followed by a reply, planned or inserted, the state that the next decision will find – that of
the patch in hand, if there is one – is `meeting_scheduled`, and no nudge is in hand. A reply has a row
before its decision is dropped (`PlaceInv`: at `spawn` its key has one; before the decision the signal
has none), unless the run fails, and a run that fails has paid for every attempt: `PlaceInv` keeps the
attempt at most one above the faults. A result that closes the goal is the other excuse, and both are
for good (`Excused`).

*Subagent.* `DraftsAreBounded` is not inductive, since the count of attempts a run reads may be one it
finds in the thread. `SubagentInv` adds what relates a run to its *copy*: the drafts it composed are
at most the attempts its copy counts, and it composes again only below the maximum (`Proper`). A
resumed run takes the thread's attempts over, but has composed nothing yet. `ThreadInv` says that a
thread at its end has a checked AI turn unless it is new, and no run that means to resume thinks
otherwise: that is why a run that resumes a finished graph still returns a checked message. Every
action is an instance of one relation `Becomes`, which `BecomesKeeps` settles once. That an
undisturbed run sees the turns before its own is `UndisturbedInv`: as long as nothing overlaps or
fails, at most one run is in flight, its copy is the thread, at the node it is about to take, and
between two runs the thread is at its end, so the next one starts anew and adds its turn (`Faithful`).

*Fallback.* The inductive invariant relates the position of an undisturbed call to where it started:
having tried `n` models it has asked the `n` that follow its start around the circle, and a default
call stands where the shared index points. After as many steps as there are models the circle is
closed; the lemmas on `%` are the arithmetic of that.

*Slots.* `CalendarProofs` has the arithmetic: the window is in order and inside a day, the length is in
its band, so the `i`-th start of the two nested loops lies in its day's window and no later than the
free/busy query reaches. That the answer is free follows (`OpenSlotsAreFree`, on which the bookings rest).
That it is also right (`AnswersAreRight`) is a matter of order: candidates are numbered by (day, place in the day),
which is the order of their starts; what the query returns is as good as the calendar for every
candidate; and the first `MAX_SLOTS_RETURNED` acceptable ones are an initial segment, since the
least number left out would have been returned.

*Bookings.* `ToldMeansBooked` and `ConfirmationsMatchBookings` follow from `Sound`: a request past its
insert is booked, its slot was offered in its call, its address is the one it was made with, and a
request nobody has made has left nothing behind. Every step of a request is first shown to be an
instance of `RequestEffect` and `WorldEffect`. `DoubleBookingNeedsStaleOffer` needs two more
invariants: a slot read out, or in an answer on its way to the caller, that is not marked stale is free in
the connected calendar (`OffersAreFree`, which rests on the lemma on slots for the moment Google
answers, and on the marks for every step after it), and a request about to insert into another calendar than the connected
one holds a marked offer (`RequestsAreCurrent`). So a booking that clashes had a marked one.
`DuplicatesAreLostAnswers` is `Counted` without its last term: surplus events and mails, and the
requests whose POST took effect and is to be made again, are at most the answers lost.

*Organizations.* `Sound` says that a bought number is held by an organization, that a stored secret is
the organization's own, and that a webhook past its signature belongs to the organization that holds
the number: the token it was checked with can only have been that one's, and numbers are never given
back. The refinement to `Tenancy` follows: only `BuyNumber` acquires, only `InsertSignal` records, all
else stutters. The five other properties have a strengthening each. `Provisioned` says at every point of
a creation how far its subaccount, number, row and secret have come, and that a row which has not
been disturbed shows no phone but the one asked for or the one bought; a creation that raises at the
purchase or at the row has then met the organization that holds the number or has it entered
(`Preempted`, which is never taken back). `Owned` says that nobody belongs to an organization before its
owner does. `Barring` follows a barred caller from the lookup to the check: bars are only added, so
the contact read is barred too. `Texts` says that a text received and not routed has a delivery at its
route or a disturbed one. `Accountable` says of a webhook at its signature that it is excused, or has
found the organization that holds the number and finds its token: by the time of the lookup the
creation was over, so `Provisioned` gave the row this number, and phones are unique.

Every inductive invariant named here was checked by TLC on an instance of its module before it was
proved. Two properties changed on the way, where TLC found the statement false on an instance with
faults: `OneNudgePerInteraction` now says what a failed attempt can add, and `MeetingOwnsNextTouch`,
which no longer asks whether the email is still waiting, names what lets a nudge in.

*Model-checked only.* The liveness properties `QueuedSignalIsProcessed`, `DueTaskSettles` and `CallsEnd`,
which are beyond the prover. Every invariant and every action property of a passing run is a theorem.

## 5. Plan

1. Proofs: abstract specifications for the two components that have none, the contact's thread
   (`SmsGraph`) and the calendar (`VoiceBooking`), and their refinement.
2. The rest of `langgraph/base.py`: chat history and clearing against a run in flight.
3. A clock change within the week looked ahead: local days of 23 and 25 hours against the free/busy
   range.
4. A second contact in `OrgSetup` and START in `calls`, when the instances can be made smaller.
