--------------------------- MODULE CalendarSlots ----------------------------
(***************************************************************************)
(* The slot arithmetic of app/services/calendar.py: from what the caller   *)
(* asked for and what the calendar marks busy to the list of open slots.   *)
(* Instants are minutes counted from midnight of the day of the lookup, in *)
(* the organization's timezone; no clock change falls in the week ahead.   *)
(***************************************************************************)
EXTENDS Integers, FiniteSets

HOUR == 60
MINUTES_PER_DAY == 24 * HOUR

SLOT_MINUTES == 30
MIN_SLOT_MINUTES == 30
MAX_SLOT_MINUTES == 60
BOOKING_WINDOW_DAYS == 7
MAX_SLOTS_RETURNED == 12
DEFAULT_START_HOUR == 9
DEFAULT_END_HOUR == 17

Unset == -1   \* a parameter the caller left out (None)

Least(a, b) == IF a <= b THEN a ELSE b
Greatest(a, b) == IF a >= b THEN a ELSE b

StartHour(earliest_hour) ==
  IF earliest_hour = Unset THEN DEFAULT_START_HOUR ELSE Greatest(0, Least(23, earliest_hour))

EndHour(start, latest_hour) ==
  CASE latest_hour # Unset -> Greatest(1, Least(24, latest_hour))
    [] latest_hour = Unset /\ start >= DEFAULT_END_HOUR -> 24
    [] OTHER -> DEFAULT_END_HOUR

ResolveHourWindow(earliest_hour, latest_hour) ==
  LET start == StartHour(earliest_hour)
      end == EndHour(start, latest_hour)
  IN  <<start, IF end <= start THEN Least(24, start + 1) ELSE end>>

ClampSlotMinutes(minutes) ==
  IF minutes \in {Unset, 0} THEN SLOT_MINUTES
  ELSE Greatest(MIN_SLOT_MINUTES, Least(MAX_SLOT_MINUTES, minutes))

UnknownDay == 7   \* a name parse_weekdays does not recognize

\* {} is None: no restriction.
ParseWeekdays(names) == names \ {UnknownDay}

Overlaps(slot, busy) == \E block \in busy : slot[1] < block[2] /\ block[1] < slot[2]

-----------------------------------------------------------------------------
(* A question: weekday names, length and hours, each possibly unset.       *)
Ask == [weekdays: SUBSET (0 .. UnknownDay), duration: Nat \cup {Unset},
        earliest: Int, latest: Int]

Step(ask) == ClampSlotMinutes(ask.duration)
Window(ask) == ResolveHourWindow(ask.earliest, ask.latest)

SlotsPerDay(ask) == ((Window(ask)[2] - Window(ask)[1]) * HOUR) \div Step(ask)

DayAllowed(ask, today, day) ==
  LET day_filter == ParseWeekdays(ask.weekdays)
  IN  day_filter = {} \/ (today + day) % 7 \in day_filter

\* The i-th start the two nested loops of compute_open_slots try.
CandidateDay(ask, i) == (i - 1) \div SlotsPerDay(ask)
Candidate(ask, i) ==
  CandidateDay(ask, i) * MINUTES_PER_DAY + Window(ask)[1] * HOUR
    + ((i - 1) % SlotsPerDay(ask)) * Step(ask)
CandidateSlot(ask, i) == <<Candidate(ask, i), Candidate(ask, i) + Step(ask)>>

IsOpen(now, today, busy, ask, i) ==
  /\ DayAllowed(ask, today, CandidateDay(ask, i))
  /\ Candidate(ask, i) >= now
  /\ ~Overlaps(CandidateSlot(ask, i), busy)

FirstOf(n, indices) == {i \in indices : Cardinality({j \in indices : j < i}) < n}

(* compute_open_slots; today is the weekday (Monday = 0) of now.  The list *)
(* it returns is in the order of time, so it is as good as a set.          *)
ComputeOpenSlots(now, today, busy, ask) ==
  LET open == {i \in 1 .. BOOKING_WINDOW_DAYS * SlotsPerDay(ask) :
                 IsOpen(now, today, busy, ask, i)}
  IN  {CandidateSlot(ask, i) : i \in FirstOf(MAX_SLOTS_RETURNED, open)}

\* Wrong: the calendar is asked about one day less than the slots cover.
QueryFreeBusyShort(now, events) ==
  {e \in events : e[2] > now /\ e[1] < now + (BOOKING_WINDOW_DAYS - 1) * MINUTES_PER_DAY}

\* What Google's free/busy tells of the week that begins now.
QueryFreeBusy(now, events) ==
  {e \in events : e[2] > now /\ e[1] < now + BOOKING_WINDOW_DAYS * MINUTES_PER_DAY}

GetAvailability(now, today, events, ask) ==
  ComputeOpenSlots(now, today, QueryFreeBusy(now, events), ask)

-----------------------------------------------------------------------------
(* What an answer ought to be, said without the loops: the earliest of the *)
(* starts on the caller's grid that are allowed, ahead and free.           *)
DayStarts(ask, day) ==
  LET first == day * MINUTES_PER_DAY + Window(ask)[1] * HOUR
      last == day * MINUTES_PER_DAY + Window(ask)[2] * HOUR - Step(ask)
  IN  {t \in {first + k * Step(ask) : k \in 0 .. MINUTES_PER_DAY \div Step(ask)} : t <= last}

OpenStarts(now, today, events, ask) ==
  UNION {{t \in DayStarts(ask, day) :
            /\ t >= now
            /\ \A e \in events : e[2] <= t \/ t + Step(ask) <= e[1]} :
         day \in {d \in 0 .. BOOKING_WINDOW_DAYS - 1 : DayAllowed(ask, today, d)}}

IsRightAnswer(slots, now, today, events, ask) ==
  LET open == OpenStarts(now, today, events, ask)
      told == {slot[1] : slot \in slots}
  IN  /\ told \subseteq open
      /\ slots = {<<t, t + Step(ask)>> : t \in told}
      /\ Cardinality(told) <= MAX_SLOTS_RETURNED
      /\ \A t \in open \ told :
           /\ Cardinality(told) = MAX_SLOTS_RETURNED
           /\ \A u \in told : u < t
=============================================================================
