---------------------------- MODULE Availability ----------------------------
(***************************************************************************)
(* One get_availability request (app/services/calendar.py, reached through *)
(* POST /internal/voice/availability): whatever the question, the time and *)
(* the calendar, what is answered is compared with what should have been.  *)
(***************************************************************************)
EXTENDS CalendarSlots

CONSTANTS
  Asks,       \* questions
  Times,      \* the minute of the request
  Weekdays,   \* the day of the request, Monday = 0
  Entries     \* what a calendar may hold

ASSUME AvailabilityAssumption ==
  /\ Asks \subseteq Ask
  /\ Times \subseteq 0 .. MINUTES_PER_DAY - 1
  /\ Weekdays \subseteq 0 .. 6
  /\ Entries \subseteq Nat \X Nat

VARIABLES
  ask, now, today, calendar,   \* the question, and the world it is put to
  pc,
  busy,                        \* what the free/busy query returned
  slots                        \* the answer

vars == <<ask, now, today, calendar, pc, busy, slots>>

Init ==
  /\ ask \in Asks
  /\ now \in Times
  /\ today \in Weekdays
  /\ calendar \in SUBSET Entries
  /\ pc = "query"
  /\ busy = {}
  /\ slots = {}

Query ==
  /\ pc = "query"
  /\ busy' = QueryFreeBusy(now, calendar)
  /\ pc' = "compute"
  /\ UNCHANGED <<ask, now, today, calendar, slots>>

Compute ==
  /\ pc = "compute"
  /\ slots' = ComputeOpenSlots(now, today, busy, ask)
  /\ pc' = "answered"
  /\ UNCHANGED <<ask, now, today, calendar, busy>>

Next == Query \/ Compute

Spec == Init /\ [][Next]_vars

-----------------------------------------------------------------------------
(* The answer is the earliest open slots of the coming week, at most as    *)
(* many as are returned, all of the length asked for: the free/busy query  *)
(* reaches as far as the slots do, and the two loops of compute_open_slots *)
(* skip, step and stop where they should.                                  *)
AnswersAreRight == pc = "answered" => IsRightAnswer(slots, now, today, calendar, ask)
=============================================================================
