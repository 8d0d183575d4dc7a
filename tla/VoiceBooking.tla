---------------------------- MODULE VoiceBooking ----------------------------
(***************************************************************************)
(* Booking a meeting on the phone: voice agents in concurrent calls, the   *)
(* backend's booking requests, the organization's Google connection and    *)
(* the owner of the calendar.                                              *)
(***************************************************************************)
EXTENDS VoiceAgent

vars == <<credential, flows, blocks, events, mails, calm, stale,
          requests, followups, lookups, calls, offered, told>>

\* The calls, their look-ups among them.
agents == <<lookups, calls, offered, told>>

Init == GoogleInit /\ ApiInit /\ AgentInit

Connect(f) ==
  /\ \/ StartGoogleConnect(f) \/ CallbackEndsInError(f) \/ StoreFails(f)
     \/ \E account \in Accounts : ExchangeCode(f, account)
     \/ StoreCredential(f, Offers)
  /\ UNCHANGED <<requests, followups, agents>>

World ==
  /\ \E account \in Accounts, slot \in OwnerSlots : OwnerBlocks(account, slot, Offers)
  /\ UNCHANGED <<requests, followups, agents>>

Serve(r) ==
  /\ RequestRuns(r, Offers)
  /\ UNCHANGED agents

Answers(c) ==
  /\ LoadForAvailability(c) \/ QueryCalendar(c)
  /\ UNCHANGED <<calls, offered, told>>

Crash(r) ==
  /\ RequestDies(r)
  /\ UNCHANGED agents

Next ==
  \/ World
  \/ \E f \in Flows : Connect(f)
  \/ \E c \in Calls : CallRuns(c) \/ Answers(c)
  \/ \E r \in RequestIds : Serve(r) \/ Crash(r)

Spec == Init /\ [][Next]_vars

-----------------------------------------------------------------------------
(* Every variable has the type of what it stands for.                      *)
TypeOK == GoogleTypeOK /\ ApiTypeOK /\ AgentTypeOK

Booked(r) == \E e \in events : e.request = r /\ e.slot = requests[r].slot

(* When the agent says "Booked for ...", the meeting is in a calendar, at  *)
(* that time, through retries, time-outs, crashes and reconnections.       *)
ToldMeansBooked == \A r \in told : Booked(r)

(* A confirmation or a post-meeting follow-up is only ever sent for a      *)
(* meeting that is in a calendar, and the confirmation to the address that *)
(* was read back before the booking (livekit_agent/src/scheduling_tools.py:*)
(* 137-138), whatever has been spelled since.                              *)
ConfirmationsMatchBookings ==
  /\ \A r \in followups : Booked(r)
  /\ \A m \in mails : Booked(m.request) /\ requests[m.request].email \in {NoAddress, m.to}

(* Nothing compares a booking with the calendar again, so two meetings can *)
(* collide: but only when the slot had been taken since Google answered    *)
(* the look-up that found it in that call, or another calendar connected   *)
(* since the look-up loaded the credential.  The answer may have been on   *)
(* its way to the caller, or the booking on its way to Google, by then.    *)
DoubleBookingNeedsStaleOffer ==
  [][\A e \in events' \ events : e.clash => <<e.request[1], e.slot>> \in stale]_vars

\* Disturbances that were neither an OAuth attempt nor an owner's entry.
Lost == Disturbances - calm - Cardinality(blocks)
          - Cardinality({f \in Flows : flows[f].pc # "unused"})

(* A request puts its meeting into the calendar, and its confirmation into *)
(* the mail, once, plus once for each answer of Google's that was lost.    *)
DuplicatesAreLostAnswers ==
  LET extra(T) == Cardinality(T) - Cardinality({row.request : row \in T})
  IN  extra(events) + extra(mails) <= Lost
=============================================================================
