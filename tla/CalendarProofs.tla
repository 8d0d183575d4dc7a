--------------------------- MODULE CalendarProofs ---------------------------
(***************************************************************************)
(* The slots get_availability computes are free, ahead and within the      *)
(* hours asked for, whatever is asked and whatever the calendar holds.     *)
(***************************************************************************)
EXTENDS CalendarSlots, FiniteSetTheorems, WellFoundedInduction, TLAPS

(* resolve_hour_window returns hours of one day, in order, for any input.  *)
LEMMA WindowIsOrdered ==
  ASSUME NEW q \in Ask
  PROVE  /\ Window(q) = <<Window(q)[1], Window(q)[2]>>
         /\ Window(q)[1] \in 0 .. 23
         /\ Window(q)[2] \in 1 .. 24
         /\ Window(q)[1] < Window(q)[2]
<1>1. q.earliest \in Int /\ q.latest \in Int
  BY DEF Ask
<1>2. StartHour(q.earliest) \in 0 .. 23
  BY <1>1 DEF StartHour, Unset, DEFAULT_START_HOUR, Greatest, Least
<1>3. ASSUME NEW start \in 0 .. 23
      PROVE  EndHour(start, q.latest) \in 1 .. 24
  <2>1. CASE q.latest # Unset
    BY <1>1, <2>1 DEF EndHour, Greatest, Least
  <2>2. CASE q.latest = Unset
    BY <2>2 DEF EndHour, DEFAULT_END_HOUR
  <2> QED
    BY <2>1, <2>2
<1>4. EndHour(StartHour(q.earliest), q.latest) \in 1 .. 24
  BY <1>2, <1>3
<1> QED
  BY <1>2, <1>4 DEF Window, ResolveHourWindow, Least

(* clamp_slot_minutes keeps a meeting between half an hour and an hour.    *)
LEMMA StepIsClamped ==
  ASSUME NEW q \in Ask
  PROVE  Step(q) \in 30 .. 60
BY DEF Ask, Step, ClampSlotMinutes, Unset, SLOT_MINUTES, MIN_SLOT_MINUTES,
       MAX_SLOT_MINUTES, Least, Greatest

(* At least one slot fits into the window, and all of them do.             *)
LEMMA SlotsFitWindow ==
  ASSUME NEW q \in Ask
  PROVE  /\ SlotsPerDay(q) \in Nat \ {0}
         /\ SlotsPerDay(q) * Step(q) <= (Window(q)[2] - Window(q)[1]) * HOUR
<1> DEFINE minutes == (Window(q)[2] - Window(q)[1]) * HOUR
<1>1. minutes \in Nat /\ minutes >= 60
  BY WindowIsOrdered DEF HOUR
<1>2. Step(q) \in 30 .. 60
  BY StepIsClamped
<1>3. ASSUME NEW m \in Nat, m >= 60, NEW s \in 30 .. 60
      PROVE  m \div s \in Nat \ {0} /\ (m \div s) * s <= m
  <2>1. m = s * (m \div s) + (m % s) /\ m \div s \in Int /\ m % s \in 0 .. s - 1
    OBVIOUS
  <2>2. m \div s > 0
    BY <1>3, <2>1
  <2> QED
    BY <2>1, <2>2
<1> QED
  BY <1>1, <1>2, <1>3 DEF SlotsPerDay

(* The i-th start tried lies in the window of one of the seven days.       *)
LEMMA CandidateInWindow ==
  ASSUME NEW q \in Ask, NEW i \in 1 .. BOOKING_WINDOW_DAYS * SlotsPerDay(q)
  PROVE  /\ CandidateDay(q, i) \in 0 .. 6
         /\ Candidate(q, i) \in Nat
         /\ CandidateDay(q, i) * MINUTES_PER_DAY + Window(q)[1] * HOUR <= Candidate(q, i)
         /\ Candidate(q, i) + Step(q)
              <= CandidateDay(q, i) * MINUTES_PER_DAY + Window(q)[2] * HOUR
<1> DEFINE n == SlotsPerDay(q)
           d == (i - 1) \div n
           k == (i - 1) % n
<1>1. n \in Nat \ {0} /\ n * Step(q) <= (Window(q)[2] - Window(q)[1]) * HOUR
  BY SlotsFitWindow
<1>2. i - 1 \in Nat /\ i - 1 < 7 * n
  BY <1>1 DEF BOOKING_WINDOW_DAYS
<1>3. d \in 0 .. 6 /\ k \in 0 .. n - 1
  <2>1. ASSUME NEW a \in Nat, NEW b \in Nat \ {0}, a < 7 * b
        PROVE  a \div b \in 0 .. 6 /\ a % b \in 0 .. b - 1
    <3>1. /\ a = b * (a \div b) + (a % b)
          /\ a \div b \in Int /\ a % b \in 0 .. b - 1
      OBVIOUS
    <3>2. ASSUME NEW c \in Int, NEW m \in 0 .. b - 1, a = b * c + m
          PROVE  c \in 0 .. 6
      <4>1. ~(c < 0)
        <5>1. ASSUME c <= -1 PROVE b * c <= -b
          BY <5>1
        <5> QED
          BY <5>1, <3>2
      <4>2. ~(c >= 7)
        <5>1. ASSUME c >= 7 PROVE b * c >= 7 * b
          BY <5>1
        <5> QED
          BY <5>1, <3>2, <2>1
      <4> QED
        BY <4>1, <4>2
    <3> QED
      BY <3>1, <3>2
  <2> QED
    BY <1>1, <1>2, <2>1
<1>4. k * Step(q) >= 0 /\ (k + 1) * Step(q) <= n * Step(q)
  <2>1. ASSUME NEW a \in Nat, NEW b \in Nat, NEW s \in Nat, a + 1 <= b
        PROVE  a * s >= 0 /\ (a + 1) * s <= b * s
    BY <2>1
  <2>2. Step(q) \in Nat
    BY StepIsClamped
  <2>3. k \in Nat /\ n \in Nat /\ k + 1 <= n
    BY <1>1, <1>3
  <2> HIDE DEF n, k
  <2> QED
    BY <2>1, <2>2, <2>3
<1>5. Step(q) \in 30 .. 60 /\ (k + 1) * Step(q) = k * Step(q) + Step(q)
  BY <1>1, <1>3, StepIsClamped
<1>6. Window(q)[1] \in 0 .. 23 /\ Window(q)[2] \in 1 .. 24
  BY WindowIsOrdered
<1>7. CandidateDay(q, i) = d
  BY DEF CandidateDay
<1>8. Candidate(q, i) = d * MINUTES_PER_DAY + Window(q)[1] * HOUR + k * Step(q)
  BY DEF Candidate, CandidateDay
<1> HIDE DEF n, d, k
<1>9. k * Step(q) \in Nat /\ k * Step(q) + Step(q) <= (Window(q)[2] - Window(q)[1]) * HOUR
  BY <1>1, <1>3, <1>4, <1>5, <1>6 DEF HOUR
<1>10. ASSUME NEW day \in 0 .. 6, NEW w1 \in 0 .. 23, NEW w2 \in 1 .. 24,
              NEW p \in Nat, NEW s \in 30 .. 60, p + s <= (w2 - w1) * HOUR
       PROVE  /\ day * MINUTES_PER_DAY + w1 * HOUR + p \in Nat
              /\ day * MINUTES_PER_DAY + w1 * HOUR <= day * MINUTES_PER_DAY + w1 * HOUR + p
              /\ day * MINUTES_PER_DAY + w1 * HOUR + p + s <= day * MINUTES_PER_DAY + w2 * HOUR
  BY <1>10 DEF HOUR, MINUTES_PER_DAY
<1> QED
  BY <1>3, <1>5, <1>6, <1>7, <1>8, <1>9, <1>10

(* compute_open_slots returns slots that touch nothing busy, begin in the  *)
(* future and stay inside the hours of one of the seven days.              *)
LEMMA OpenSlotsAreFree ==
  ASSUME NEW q \in Ask, NEW t \in Nat, NEW weekday, NEW marked,
         NEW slot \in ComputeOpenSlots(t, weekday, marked, q)
  PROVE  /\ ~Overlaps(slot, marked)
         /\ slot \in Nat \X Nat
         /\ t <= slot[1] /\ slot[1] < slot[2]
         /\ \E day \in 0 .. 6 :
              /\ day * MINUTES_PER_DAY + Window(q)[1] * HOUR <= slot[1]
              /\ slot[2] <= day * MINUTES_PER_DAY + Window(q)[2] * HOUR
<1>1. PICK i \in 1 .. BOOKING_WINDOW_DAYS * SlotsPerDay(q) :
              slot = CandidateSlot(q, i) /\ IsOpen(t, weekday, marked, q, i)
  BY DEF ComputeOpenSlots, FirstOf
<1>2. slot = <<Candidate(q, i), Candidate(q, i) + Step(q)>>
  BY <1>1 DEF CandidateSlot
<1>3. ~Overlaps(slot, marked) /\ t <= slot[1]
  BY <1>1, <1>2 DEF IsOpen
<1>4. Step(q) \in 30 .. 60
  BY StepIsClamped
<1>5. /\ CandidateDay(q, i) \in 0 .. 6
      /\ Candidate(q, i) \in Nat
      /\ CandidateDay(q, i) * MINUTES_PER_DAY + Window(q)[1] * HOUR <= Candidate(q, i)
      /\ Candidate(q, i) + Step(q)
           <= CandidateDay(q, i) * MINUTES_PER_DAY + Window(q)[2] * HOUR
  BY CandidateInWindow
<1>6. slot \in Nat \X Nat /\ slot[1] < slot[2]
  BY <1>2, <1>4, <1>5
<1> QED
  BY <1>2, <1>3, <1>5, <1>6

(* The week the free/busy query covers contains every slot of the seven    *)
(* days: what it leaves out of the calendar cannot touch one.              *)
LEMMA QueryReachesEverySlot ==
  ASSUME NEW q \in Ask, NEW t \in Nat, NEW weekday, NEW marked \in SUBSET (Nat \X Nat),
         NEW slot \in GetAvailability(t, weekday, marked, q)
  PROVE  /\ \A entry \in marked : entry[2] <= slot[1] \/ slot[2] <= entry[1]
         /\ slot \in Nat \X Nat
         /\ t <= slot[1] /\ slot[1] < slot[2]
         /\ \E day \in 0 .. 6 :
              /\ day * MINUTES_PER_DAY + Window(q)[1] * HOUR <= slot[1]
              /\ slot[2] <= day * MINUTES_PER_DAY + Window(q)[2] * HOUR
<1>1. /\ ~Overlaps(slot, QueryFreeBusy(t, marked))
      /\ slot \in Nat \X Nat
      /\ t <= slot[1] /\ slot[1] < slot[2]
      /\ \E day \in 0 .. 6 :
           /\ day * MINUTES_PER_DAY + Window(q)[1] * HOUR <= slot[1]
           /\ slot[2] <= day * MINUTES_PER_DAY + Window(q)[2] * HOUR
  BY OpenSlotsAreFree DEF GetAvailability
<1>2. slot[2] <= 7 * MINUTES_PER_DAY
  <2>1. PICK day \in 0 .. 6 : slot[2] <= day * MINUTES_PER_DAY + Window(q)[2] * HOUR
    BY <1>1
  <2>2. Window(q)[2] \in 1 .. 24
    BY WindowIsOrdered
  <2> QED
    BY <2>1, <2>2, <1>1 DEF MINUTES_PER_DAY, HOUR
<1>3. ASSUME NEW entry \in marked
      PROVE  entry[2] <= slot[1] \/ slot[2] <= entry[1]
  <2>1. entry[1] \in Nat /\ entry[2] \in Nat
    OBVIOUS
  <2>2. CASE entry \in QueryFreeBusy(t, marked)
    <3>1. ~(slot[1] < entry[2] /\ entry[1] < slot[2])
      BY <1>1, <2>2 DEF Overlaps
    <3> QED
      BY <1>1, <2>1, <3>1
  <2>3. CASE entry \notin QueryFreeBusy(t, marked)
    <3>1. ~(entry[2] > t /\ entry[1] < t + BOOKING_WINDOW_DAYS * MINUTES_PER_DAY)
      BY <2>3 DEF QueryFreeBusy
    <3> QED
      BY <1>1, <1>2, <2>1, <3>1 DEF BOOKING_WINDOW_DAYS, MINUTES_PER_DAY, HOUR
  <2> QED
    BY <2>2, <2>3
<1> QED
  BY <1>1, <1>3

-----------------------------------------------------------------------------
(* That nothing is missing from the answer: the loops try every start on   *)
(* the caller's grid, in the order of time, and stop at the right one.     *)

\* What fits into m minutes, s at a time.
LEMMA FloorOfDivision ==
  ASSUME NEW m \in Nat, NEW s \in Nat \ {0}
  PROVE  /\ m \div s \in Nat
         /\ \A k \in Nat : (k + 1) * s <= m <=> k + 1 <= m \div s
<1>1. m = s * (m \div s) + (m % s) /\ m \div s \in Int /\ m % s \in 0 .. s - 1
  OBVIOUS
<1>2. ASSUME NEW c \in Int, NEW r \in 0 .. s - 1, m = s * c + r
      PROVE  /\ c \in Nat
             /\ \A k \in Nat : (k + 1) * s <= m <=> k + 1 <= c
  <2>1. ~(c < 0)
    <3>1. ASSUME c <= -1 PROVE s * c <= -s
      BY <3>1
    <3> QED
      BY <3>1, <1>2
  <2>2. ASSUME NEW k \in Nat, k + 1 <= c
        PROVE  (k + 1) * s <= m
    <3>1. (k + 1) * s <= c * s
      BY <2>2
    <3> QED
      BY <3>1, <1>2
  <2>3. ASSUME NEW k \in Nat, c + 1 <= k + 1
        PROVE  ~((k + 1) * s <= m)
    <3>1. (c + 1) * s <= (k + 1) * s
      BY <2>3
    <3>2. (c + 1) * s = s * c + s
      OBVIOUS
    <3> QED
      BY <3>1, <3>2, <1>2
  <2> QED
    BY <2>1, <2>2, <2>3
<1> QED
  BY <1>1, <1>2

\* Quotient and remainder are unique.
LEMMA DivisionIsUnique ==
  ASSUME NEW d \in Nat, NEW n \in Nat \ {0}, NEW k \in 0 .. n - 1
  PROVE  (d * n + k) \div n = d /\ (d * n + k) % n = k
<1> DEFINE a == d * n + k
<1>1. a \in Nat
  OBVIOUS
<1> HIDE DEF a
<1>2. a = n * (a \div n) + (a % n) /\ a \div n \in Int /\ a % n \in 0 .. n - 1
  BY <1>1
<1>3. ASSUME NEW c \in Int, NEW r \in 0 .. n - 1, a = n * c + r
      PROVE  c = d /\ r = k
  <2>1. n * c + r = n * d + k
    BY <1>3 DEF a
  <2>2. ~(c <= d - 1)
    <3>1. ASSUME c <= d - 1 PROVE n * c <= n * (d - 1)
      BY <3>1
    <3>2. n * (d - 1) = n * d - n
      OBVIOUS
    <3> QED
      BY <2>1, <3>1, <3>2
  <2>3. ~(c >= d + 1)
    <3>1. ASSUME c >= d + 1 PROVE n * c >= n * (d + 1)
      BY <3>1
    <3>2. n * (d + 1) = n * d + n
      OBVIOUS
    <3> QED
      BY <2>1, <3>1, <3>2
  <2>4. c = d
    BY <2>2, <2>3
  <2> QED
    BY <2>1, <2>4
<1> QED
  BY <1>2, <1>3 DEF a

(* The numbers of the candidates are the pairs of a day and a place in it. *)
LEMMA CandidateOfPlace ==
  ASSUME NEW q \in Ask, NEW d \in 0 .. 6, NEW k \in 0 .. SlotsPerDay(q) - 1
  PROVE  LET i == d * SlotsPerDay(q) + k + 1
         IN  /\ i \in 1 .. BOOKING_WINDOW_DAYS * SlotsPerDay(q)
             /\ CandidateDay(q, i) = d
             /\ Candidate(q, i) = d * MINUTES_PER_DAY + Window(q)[1] * HOUR + k * Step(q)
<1> DEFINE n == SlotsPerDay(q)
           i == d * n + k + 1
<1>1. n \in Nat \ {0}
  BY SlotsFitWindow
<1>2. i - 1 = d * n + k /\ i \in 1 .. 7 * n
  <2>1. d * n <= 6 * n /\ d * n >= 0 /\ d * n \in Int
    BY <1>1
  <2> QED
    BY <1>1, <2>1
<1>3. (d * n + k) \div n = d /\ (d * n + k) % n = k
  <2>1. d \in Nat /\ k \in 0 .. n - 1
    OBVIOUS
  <2> HIDE DEF n
  <2> QED
    BY <1>1, <2>1, DivisionIsUnique
<1>4. CandidateDay(q, i) = (i - 1) \div n
  BY DEF CandidateDay
<1>5. Candidate(q, i) = ((i - 1) \div n) * MINUTES_PER_DAY + Window(q)[1] * HOUR
                          + ((i - 1) % n) * Step(q)
  BY DEF Candidate, CandidateDay
<1> HIDE DEF i
<1>6. (i - 1) \div n = d /\ (i - 1) % n = k
  BY <1>2, <1>3
<1> QED
  BY <1>2, <1>4, <1>5, <1>6 DEF i, BOOKING_WINDOW_DAYS

\* Every number is such a pair.
LEMMA PlaceOfCandidate ==
  ASSUME NEW q \in Ask, NEW i \in 1 .. BOOKING_WINDOW_DAYS * SlotsPerDay(q)
  PROVE  \E d \in 0 .. 6, k \in 0 .. SlotsPerDay(q) - 1 :
           /\ i = d * SlotsPerDay(q) + k + 1
           /\ CandidateDay(q, i) = d
           /\ Candidate(q, i) = d * MINUTES_PER_DAY + Window(q)[1] * HOUR + k * Step(q)
<1> DEFINE n == SlotsPerDay(q)
           d == (i - 1) \div n
           k == (i - 1) % n
<1>1. n \in Nat \ {0}
  BY SlotsFitWindow
<1>2. i - 1 \in Nat
  BY <1>1 DEF BOOKING_WINDOW_DAYS
<1>3. i - 1 = n * d + k /\ k \in 0 .. n - 1 /\ d \in Int
  BY <1>1, <1>2
<1>4. d \in 0 .. 6
  BY CandidateInWindow DEF CandidateDay
<1>5. CandidateDay(q, i) = d
  BY DEF CandidateDay
<1>6. Candidate(q, i) = d * MINUTES_PER_DAY + Window(q)[1] * HOUR + k * Step(q)
  BY DEF Candidate, CandidateDay
<1> HIDE DEF d, k, n
<1>7. i = d * n + k + 1
  BY <1>1, <1>2, <1>3, <1>4
<1> QED
  BY <1>3, <1>4, <1>5, <1>6, <1>7 DEF n

(* The two loops try the starts in the order of time, each of them once.   *)
LEMMA CandidatesAscend ==
  ASSUME NEW q \in Ask,
         NEW i \in 1 .. BOOKING_WINDOW_DAYS * SlotsPerDay(q),
         NEW j \in 1 .. BOOKING_WINDOW_DAYS * SlotsPerDay(q), i < j
  PROVE  Candidate(q, i) < Candidate(q, j)
<1> DEFINE n == SlotsPerDay(q)
<1>1. PICK d \in 0 .. 6, k \in 0 .. n - 1 :
         /\ i = d * n + k + 1 /\ CandidateDay(q, i) = d
         /\ Candidate(q, i) = d * MINUTES_PER_DAY + Window(q)[1] * HOUR + k * Step(q)
  BY PlaceOfCandidate
<1>2. PICK e \in 0 .. 6, l \in 0 .. n - 1 :
         /\ j = e * n + l + 1 /\ CandidateDay(q, j) = e
         /\ Candidate(q, j) = e * MINUTES_PER_DAY + Window(q)[1] * HOUR + l * Step(q)
  BY PlaceOfCandidate
<1>3. n \in Nat \ {0} /\ Step(q) \in 30 .. 60
  BY SlotsFitWindow, StepIsClamped
<1>4. Window(q)[1] \in 0 .. 23 /\ Window(q)[2] \in 1 .. 24
  BY WindowIsOrdered
<1> HIDE DEF n
<1>5. d <= e
  <2>1. ASSUME e + 1 <= d PROVE (e + 1) * n <= d * n
    BY <1>3, <2>1
  <2>2. (e + 1) * n = e * n + n
    BY <1>3
  <2> QED
    BY <1>1, <1>2, <1>3, <2>1, <2>2
<1>6. CASE d = e
  <2>1. k < l
    BY <1>1, <1>2, <1>3, <1>6
  <2>2. k * Step(q) < l * Step(q)
    <3>1. ASSUME NEW s \in 30 .. 60, NEW a \in Nat, NEW b \in Nat, a < b
          PROVE  a * s < b * s
      BY <3>1
    <3> QED
      BY <1>3, <2>1, <3>1
  <2>3. k * Step(q) \in Int /\ l * Step(q) \in Int
    BY <1>3
  <2> QED
    BY <1>1, <1>2, <1>4, <1>6, <2>2, <2>3 DEF MINUTES_PER_DAY, HOUR
<1>7. CASE d < e
  <2>1. /\ Candidate(q, i) \in Nat /\ Candidate(q, j) \in Nat
        /\ Candidate(q, i) + Step(q) <= d * MINUTES_PER_DAY + Window(q)[2] * HOUR
        /\ e * MINUTES_PER_DAY + Window(q)[1] * HOUR <= Candidate(q, j)
    BY <1>1, <1>2, CandidateInWindow
  <2> QED
    BY <1>3, <1>4, <1>7, <2>1 DEF MINUTES_PER_DAY, HOUR
<1> QED
  BY <1>5, <1>6, <1>7

(* The starts a caller may be given on a day are the ones tried that day.  *)
LEMMA DayStartsAreTried ==
  ASSUME NEW q \in Ask, NEW day \in 0 .. 6
  PROVE  DayStarts(q, day) =
           {day * MINUTES_PER_DAY + Window(q)[1] * HOUR + k * Step(q) :
              k \in 0 .. SlotsPerDay(q) - 1}
<1> DEFINE n == SlotsPerDay(q)
           m == (Window(q)[2] - Window(q)[1]) * HOUR
           first == day * MINUTES_PER_DAY + Window(q)[1] * HOUR
           last == day * MINUTES_PER_DAY + Window(q)[2] * HOUR - Step(q)
           K == 0 .. MINUTES_PER_DAY \div Step(q)
<1>1. Step(q) \in Nat \ {0} /\ Step(q) \in 30 .. 60
  BY StepIsClamped
<1>2. Window(q)[1] \in 0 .. 23 /\ Window(q)[2] \in 1 .. 24 /\ Window(q)[1] < Window(q)[2]
  BY WindowIsOrdered
<1>3. m \in Nat /\ m <= MINUTES_PER_DAY /\ MINUTES_PER_DAY \in Nat /\ first \in Nat
  BY <1>2 DEF MINUTES_PER_DAY, HOUR
<1>4. last - first = m - Step(q) /\ last \in Int
  BY <1>1, <1>2 DEF MINUTES_PER_DAY, HOUR
<1>5. n = m \div Step(q)
  BY DEF SlotsPerDay
<1> HIDE DEF m, first, last, n
<1>6. n \in Nat /\ \A k \in Nat : (k + 1) * Step(q) <= m <=> k + 1 <= n
  BY <1>1, <1>3, <1>5, FloorOfDivision
<1>7. /\ MINUTES_PER_DAY \div Step(q) \in Nat
      /\ \A k \in Nat : (k + 1) * Step(q) <= MINUTES_PER_DAY
                          <=> k + 1 <= MINUTES_PER_DAY \div Step(q)
  BY <1>1, <1>3, FloorOfDivision
<1>8. \A k \in Nat : first + k * Step(q) <= last <=> k + 1 <= n
  <2> SUFFICES ASSUME NEW k \in Nat
               PROVE  first + k * Step(q) <= last <=> k + 1 <= n
    OBVIOUS
  <2>1. (k + 1) * Step(q) = k * Step(q) + Step(q) /\ k * Step(q) \in Nat
    BY <1>1
  <2>2. first + k * Step(q) <= last <=> (k + 1) * Step(q) <= m
    BY <1>1, <1>3, <1>4, <2>1
  <2> QED
    BY <1>6, <2>2
<1>9. ASSUME NEW k \in 0 .. n - 1
      PROVE  k \in K
  <2>1. k \in Nat /\ k + 1 <= n
    BY <1>6
  <2>2. (k + 1) * Step(q) <= m /\ (k + 1) * Step(q) \in Nat
    BY <1>1, <1>6, <2>1
  <2>3. k + 1 <= MINUTES_PER_DAY \div Step(q)
    BY <1>3, <1>7, <2>1, <2>2
  <2> QED
    BY <1>7, <2>1, <2>3
<1>10. DayStarts(q, day) = {t \in {first + k * Step(q) : k \in K} : t <= last}
  BY DEF DayStarts, first, last
<1>11. K \subseteq Nat
  BY <1>7
<1> HIDE DEF K
<1>12. {t \in {first + k * Step(q) : k \in K} : t <= last}
         = {first + k * Step(q) : k \in 0 .. n - 1}
  <2>1. ASSUME NEW k \in K, first + k * Step(q) <= last
        PROVE  k \in 0 .. n - 1
    BY <1>6, <1>8, <1>11, <2>1
  <2>2. ASSUME NEW k \in 0 .. n - 1
        PROVE  k \in K /\ first + k * Step(q) <= last
    BY <1>6, <1>8, <1>9
  <2> QED
    BY <2>1, <2>2
<1> QED
  BY <1>10, <1>12 DEF first, n

(* Of numbered things, the first n are n of them, unless there are fewer,  *)
(* and all the others come after them.                                     *)
LEMMA FirstOfIsInitial ==
  ASSUME NEW N \in Nat, NEW S \in SUBSET (1 .. N), NEW n \in Nat
  PROVE  /\ IsFiniteSet(FirstOf(n, S))
         /\ Cardinality(FirstOf(n, S)) <= n
         /\ \A i \in S \ FirstOf(n, S) :
              /\ Cardinality(FirstOf(n, S)) = n
              /\ \A j \in FirstOf(n, S) : j < i
<1> DEFINE Before == [i \in S |-> {j \in S : j < i}]
           rank == [i \in S |-> Cardinality(Before[i])]
           F == FirstOf(n, S)
<1>1. IsFiniteSet(S) /\ S \subseteq Nat
  <2>1. IsFiniteSet(1 .. N)
    BY FS_Interval
  <2>2. IsFiniteSet(S)
    BY <2>1, FS_Subset
  <2> QED
    BY <2>2
<1>2. \A i \in S : Before[i] = {j \in S : j < i} /\ rank[i] = Cardinality(Before[i])
  OBVIOUS
<1>3. F = {i \in S : rank[i] < n}
  BY DEF FirstOf
<1> HIDE DEF Before, rank, F
<1>4. \A i \in S : Before[i] \in SUBSET S /\ IsFiniteSet(Before[i]) /\ rank[i] \in Nat
  <2> SUFFICES ASSUME NEW i \in S
               PROVE  Before[i] \in SUBSET S /\ IsFiniteSet(Before[i]) /\ rank[i] \in Nat
    OBVIOUS
  <2>1. Before[i] \in SUBSET S
    BY <1>2
  <2> QED
    BY <1>1, <1>2, <2>1, FS_Subset, FS_CardinalityType
<1>5. ASSUME NEW i \in S, NEW j \in S, i < j
      PROVE  rank[i] < rank[j]
  <2>1. Before[i] = {k \in S : k < i} /\ Before[j] = {k \in S : k < j}
    BY <1>2
  <2>2. \A k \in S : k < i => k < j
    BY <1>1, <1>5
  <2>3. Before[i] \cup {i} \in SUBSET Before[j]
    BY <1>5, <2>1, <2>2
  <2>4. i \notin Before[i]
    BY <1>1, <2>1
  <2>5. /\ IsFiniteSet(Before[i]) /\ IsFiniteSet(Before[j])
        /\ rank[i] \in Nat /\ rank[j] \in Nat
        /\ rank[i] = Cardinality(Before[i]) /\ rank[j] = Cardinality(Before[j])
    BY <1>2, <1>4
  <2>6. Cardinality(Before[i] \cup {i}) = rank[i] + 1
    BY <2>4, <2>5, FS_AddElement
  <2>7. Cardinality(Before[i] \cup {i}) <= rank[j]
    BY <2>3, <2>5, FS_Subset
  <2> QED
    BY <2>5, <2>6, <2>7
<1>6. F \in SUBSET S /\ IsFiniteSet(F) /\ Cardinality(F) \in Nat
  <2>1. F \in SUBSET S
    BY <1>3
  <2> QED
    BY <1>1, <2>1, FS_Subset, FS_CardinalityType
<1>7. Cardinality(F) <= n
  <2> DEFINE f == [i \in F |-> rank[i]]
  <2>1. f \in [F -> 0 .. n - 1]
    <3>1. \A i \in F : i \in S /\ rank[i] < n
      BY <1>3
    <3>2. \A i \in S : rank[i] \in Nat
      BY <1>4
    <3>3. \A i \in F : rank[i] \in 0 .. n - 1
      <4> SUFFICES ASSUME NEW i \in F PROVE rank[i] \in 0 .. n - 1
        OBVIOUS
      <4>1. rank[i] \in Nat /\ rank[i] < n
        BY <3>1, <3>2
      <4> QED
        BY <4>1
    <3> QED
      BY <3>3
  <2>2. \A i, j \in F : f[i] = f[j] => i = j
    <3> SUFFICES ASSUME NEW i \in F, NEW j \in F, i # j PROVE rank[i] # rank[j]
      BY DEF f
    <3>1. i \in S /\ j \in S /\ (i < j \/ j < i)
      BY <1>1, <1>6
    <3> QED
      BY <1>4, <1>5, <3>1
  <2>3. f \in Injection(F, 0 .. n - 1)
    BY <2>1, <2>2 DEF Injection, IsInjective
  <2>4. IsFiniteSet(0 .. n - 1) /\ Cardinality(0 .. n - 1) = n
    BY FS_Interval
  <2> HIDE DEF f
  <2> QED
    BY <2>3, <2>4, FS_Injection
<1>8. ASSUME NEW i \in S \ F, NEW j \in F
      PROVE  j < i
  <2>1. ~(rank[i] < n) /\ rank[j] < n /\ i # j /\ i \in S /\ j \in S
    BY <1>3, <1>8
  <2>2. ~(i < j)
    BY <1>4, <1>5, <2>1
  <2> QED
    BY <1>1, <2>1, <2>2
<1>9. ASSUME S \ F # {}
      PROVE  Cardinality(F) = n
  <2>1. PICK m \in S \ F : \A y \in S \ F : ~(y < m)
    <3> DEFINE T == {Before[i] : i \in S \ F}
               R == StrictSubsetOrdering(S)
    <3>1. T \subseteq FiniteSubsetsOf(S) /\ T # {}
      BY <1>4, <1>9 DEF FiniteSubsetsOf
    <3>2. IsWellFoundedOn(R, FiniteSubsetsOf(S))
      BY FS_StrictSubsetOrderingWellFounded
    <3> HIDE DEF R
    <3>3. PICK x \in T : \A z \in T : <<z, x>> \notin R
      BY <3>1, <3>2, WFMin
    <3>4. PICK m \in S \ F : x = Before[m]
      BY <3>3
    <3>5. ASSUME NEW y \in S \ F, y < m
          PROVE  FALSE
      <4>1. Before[y] = {k \in S : k < y} /\ Before[m] = {k \in S : k < m}
        BY <1>2
      <4>2. \A k \in S : k < y => k < m
        BY <1>1, <3>5
      <4>3. Before[y] \subseteq Before[m]
        BY <4>1, <4>2
      <4>4. y \in Before[m] /\ y \notin Before[y]
        BY <1>1, <3>5, <4>1
      <4>5. <<Before[y], Before[m]>> \in R
        BY <1>4, <4>3, <4>4 DEF R, StrictSubsetOrdering
      <4> QED
        BY <3>3, <3>4, <4>5
    <3> QED
      BY <3>5
  <2>2. Before[m] \in SUBSET F
    BY <1>2, <2>1
  <2>3. rank[m] <= Cardinality(F)
    BY <1>2, <1>6, <2>2, FS_Subset
  <2>4. n <= rank[m]
    BY <1>3, <1>4
  <2> QED
    BY <1>4, <1>6, <1>7, <2>3, <2>4
<1> QED
  BY <1>6, <1>7, <1>8, <1>9 DEF F

(* What the free/busy query leaves out of the calendar touches no start of *)
(* the seven days.                                                         *)
LEMMA QueryIsAsGoodAsCalendar ==
  ASSUME NEW q \in Ask, NEW t \in Nat, NEW marked \in SUBSET (Nat \X Nat),
         NEW i \in 1 .. BOOKING_WINDOW_DAYS * SlotsPerDay(q), Candidate(q, i) >= t
  PROVE  ~Overlaps(CandidateSlot(q, i), QueryFreeBusy(t, marked))
           <=> \A entry \in marked :
                 entry[2] <= Candidate(q, i) \/ Candidate(q, i) + Step(q) <= entry[1]
<1> DEFINE b == Candidate(q, i)
           s == Step(q)
           Q == QueryFreeBusy(t, marked)
<1>1. b \in Nat /\ s \in 30 .. 60
  BY CandidateInWindow, StepIsClamped
<1>2. b + s <= 7 * MINUTES_PER_DAY
  BY CandidateInWindow, WindowIsOrdered, StepIsClamped DEF MINUTES_PER_DAY, HOUR
<1>3. Overlaps(CandidateSlot(q, i), Q) <=> \E entry \in Q : b < entry[2] /\ entry[1] < b + s
  BY DEF Overlaps, CandidateSlot
<1>4. Q = {e \in marked : e[2] > t /\ e[1] < t + 7 * MINUTES_PER_DAY}
  BY DEF QueryFreeBusy, BOOKING_WINDOW_DAYS
<1>5. MINUTES_PER_DAY \in Nat
  BY DEF MINUTES_PER_DAY, HOUR
<1> HIDE DEF b, s, Q
<1>6. \A entry \in marked : b < entry[2] /\ entry[1] < b + s => entry \in Q
  BY <1>1, <1>2, <1>4, <1>5 DEF b
<1>7. \A entry \in marked : ~(b < entry[2] /\ entry[1] < b + s)
                              <=> entry[2] <= b \/ b + s <= entry[1]
  BY <1>1
<1> QED
  BY <1>3, <1>4, <1>6, <1>7 DEF b, s, Q

(* The open starts of the specification are those of the loops.            *)
LEMMA OpenStartsAreTried ==
  ASSUME NEW q \in Ask, NEW t \in Nat, NEW weekday, NEW marked \in SUBSET (Nat \X Nat)
  PROVE  OpenStarts(t, weekday, marked, q) =
           {Candidate(q, i) : i \in {j \in 1 .. BOOKING_WINDOW_DAYS * SlotsPerDay(q) :
                                       IsOpen(t, weekday, QueryFreeBusy(t, marked), q, j)}}
<1> DEFINE I == 1 .. BOOKING_WINDOW_DAYS * SlotsPerDay(q)
           Q == QueryFreeBusy(t, marked)
           Free(b) == \A e \in marked : e[2] <= b \/ b + Step(q) <= e[1]
           open == {j \in I : IsOpen(t, weekday, Q, q, j)}
           D == {d \in 0 .. BOOKING_WINDOW_DAYS - 1 : DayAllowed(q, weekday, d)}
<1>1. OpenStarts(t, weekday, marked, q) =
        UNION {{b \in DayStarts(q, day) : b >= t /\ Free(b)} : day \in D}
  BY DEF OpenStarts
<1>2. \A j \in I : IsOpen(t, weekday, Q, q, j)
                     <=> /\ DayAllowed(q, weekday, CandidateDay(q, j))
                         /\ Candidate(q, j) >= t
                         /\ Free(Candidate(q, j))
  BY QueryIsAsGoodAsCalendar DEF IsOpen
<1>3. ASSUME NEW b, NEW day \in D, b \in DayStarts(q, day), b >= t, Free(b)
      PROVE  \E j \in open : b = Candidate(q, j)
  <2>1. day \in 0 .. 6 /\ DayAllowed(q, weekday, day)
    BY DEF BOOKING_WINDOW_DAYS
  <2>2. PICK k \in 0 .. SlotsPerDay(q) - 1 :
          b = day * MINUTES_PER_DAY + Window(q)[1] * HOUR + k * Step(q)
    BY <1>3, <2>1, DayStartsAreTried
  <2> DEFINE j == day * SlotsPerDay(q) + k + 1
  <2>3. j \in I /\ CandidateDay(q, j) = day /\ Candidate(q, j) = b
    BY <2>1, <2>2, CandidateOfPlace
  <2> HIDE DEF j
  <2> QED
    BY <1>2, <1>3, <2>1, <2>3
<1>4. ASSUME NEW j \in open
      PROVE  \E day \in D : /\ Candidate(q, j) \in DayStarts(q, day)
                            /\ Candidate(q, j) >= t /\ Free(Candidate(q, j))
  <2>1. PICK d \in 0 .. 6, k \in 0 .. SlotsPerDay(q) - 1 :
          /\ CandidateDay(q, j) = d
          /\ Candidate(q, j) = d * MINUTES_PER_DAY + Window(q)[1] * HOUR + k * Step(q)
    BY PlaceOfCandidate
  <2>2. Candidate(q, j) \in DayStarts(q, d)
    BY <2>1, DayStartsAreTried
  <2>3. d \in D /\ Candidate(q, j) >= t /\ Free(Candidate(q, j))
    BY <1>2, <2>1 DEF BOOKING_WINDOW_DAYS
  <2> QED
    BY <2>2, <2>3
<1> HIDE DEF I, Q, Free, open, D
<1>5. OpenStarts(t, weekday, marked, q) = {Candidate(q, i) : i \in open}
  BY <1>1, <1>3, <1>4
<1> QED
  BY <1>5 DEF open, I, Q

(* get_availability is right: what compute_open_slots makes of the         *)
(* free/busy answer is the first MAX_SLOTS_RETURNED of the open starts of  *)
(* the coming week, for every question, minute, weekday and calendar.      *)
LEMMA AvailabilityIsRight ==
  ASSUME NEW q \in Ask, NEW t \in Nat, NEW weekday, NEW marked \in SUBSET (Nat \X Nat)
  PROVE  IsRightAnswer(GetAvailability(t, weekday, marked, q), t, weekday, marked, q)
<1> DEFINE N == BOOKING_WINDOW_DAYS * SlotsPerDay(q)
           open == {j \in 1 .. N : IsOpen(t, weekday, QueryFreeBusy(t, marked), q, j)}
           first == FirstOf(MAX_SLOTS_RETURNED, open)
           answer == GetAvailability(t, weekday, marked, q)
           told == {slot[1] : slot \in answer}
<1>1. N \in Nat /\ open \in SUBSET (1 .. N) /\ MAX_SLOTS_RETURNED \in Nat
  BY SlotsFitWindow DEF BOOKING_WINDOW_DAYS, MAX_SLOTS_RETURNED
<1>2. answer = {CandidateSlot(q, i) : i \in first}
  BY DEF GetAvailability, ComputeOpenSlots
<1>3. OpenStarts(t, weekday, marked, q) = {Candidate(q, i) : i \in open}
  BY OpenStartsAreTried
<1>4. first \subseteq open
  BY DEF FirstOf
<1>5. \A i, j \in open : i < j => Candidate(q, i) < Candidate(q, j)
  BY CandidatesAscend
<1>6. \A i \in open : Candidate(q, i) \in Nat
  BY CandidateInWindow
<1> HIDE DEF N, open, first, answer
<1>7. /\ IsFiniteSet(first) /\ Cardinality(first) <= MAX_SLOTS_RETURNED
      /\ \A i \in open \ first : /\ Cardinality(first) = MAX_SLOTS_RETURNED
                                 /\ \A j \in first : j < i
  BY <1>1, FirstOfIsInitial DEF first
<1>8. told = {Candidate(q, i) : i \in first}
  <2>1. \A i \in first : CandidateSlot(q, i)[1] = Candidate(q, i)
    BY DEF CandidateSlot
  <2>2. told = {CandidateSlot(q, i)[1] : i \in first}
    BY <1>2
  <2> QED
    BY <2>1, <2>2
<1>9. answer = {<<b, b + Step(q)>> : b \in told}
  <2>1. \A i \in first : CandidateSlot(q, i) = <<Candidate(q, i), Candidate(q, i) + Step(q)>>
    BY DEF CandidateSlot
  <2> HIDE DEF told
  <2> QED
    BY <1>2, <1>8, <2>1
<1> HIDE DEF told
<1>10. Cardinality(told) = Cardinality(first)
  <2> DEFINE f == [i \in first |-> Candidate(q, i)]
  <2>1. \A i, j \in first : f[i] = f[j] => i = j
    <3> SUFFICES ASSUME NEW i \in first, NEW j \in first, i # j
                 PROVE  Candidate(q, i) # Candidate(q, j)
      OBVIOUS
    <3>1. i \in open /\ j \in open /\ (i < j \/ j < i)
      BY <1>1, <1>4
    <3> QED
      BY <1>5, <1>6, <3>1
  <2>2. f \in [first -> told] /\ \A b \in told : \E i \in first : f[i] = b
    BY <1>8
  <2>3. f \in Bijection(first, told)
    BY <2>1, <2>2 DEF Bijection, Injection, Surjection, IsInjective
  <2>4. ExistsBijection(first, told)
    BY <2>3 DEF ExistsBijection
  <2> QED
    BY <1>7, <2>4, FS_Bijection
<1>11. told \subseteq OpenStarts(t, weekday, marked, q)
  BY <1>3, <1>4, <1>8
<1>12. ASSUME NEW b \in OpenStarts(t, weekday, marked, q) \ told
       PROVE  /\ Cardinality(told) = MAX_SLOTS_RETURNED
              /\ \A u \in told : u < b
  <2>1. PICK i \in open : b = Candidate(q, i)
    BY <1>3, <1>12
  <2>2. i \in open \ first
    BY <1>8, <2>1
  <2> QED
    BY <1>4, <1>5, <1>7, <1>8, <1>10, <2>1, <2>2
<1> QED
  BY <1>7, <1>9, <1>10, <1>11, <1>12 DEF IsRightAnswer, told, answer
=============================================================================
