------------------------- MODULE AvailabilityProofs -------------------------
(***************************************************************************)
(* The answer to one get_availability request, for every question, minute, *)
(* weekday and calendar.                                                   *)
(***************************************************************************)
EXTENDS Availability, CalendarProofs

(* What is computed is computed from what was queried.                     *)
Answering ==
  /\ ask \in Ask
  /\ now \in Nat
  /\ calendar \in SUBSET (Nat \X Nat)
  /\ pc = "compute" => busy = QueryFreeBusy(now, calendar)
  /\ slots = IF pc = "answered" THEN GetAvailability(now, today, calendar, ask) ELSE {}

LEMMA AnsweringHolds == Spec => []Answering
<1>1. Init => Answering
  BY AvailabilityAssumption DEF Init, Answering, MINUTES_PER_DAY, HOUR
<1>2. Answering /\ [Next]_vars => Answering'
  <2> SUFFICES ASSUME Answering, [Next]_vars PROVE Answering'
    OBVIOUS
  <2>1. CASE Query
    BY <2>1 DEF Query, Answering
  <2>2. CASE Compute
    BY <2>2 DEF Compute, Answering, GetAvailability
  <2>3. CASE UNCHANGED vars
    BY <2>3 DEF vars, Answering
  <2> QED
    BY <2>1, <2>2, <2>3 DEF Next
<1> QED
  BY <1>1, <1>2, PTL DEF Spec

(* The answer is the right one: the first MAX_SLOTS_RETURNED of the open   *)
(* starts of the coming week on the caller's grid, none left out, none     *)
(* repeated, each of the length asked for.                                 *)
THEOREM AnswersAreAlwaysRight == Spec => []AnswersAreRight
<1>1. Answering => AnswersAreRight
  BY AvailabilityIsRight DEF Answering, AnswersAreRight
<1> QED
  BY <1>1, AnsweringHolds, PTL
=============================================================================
