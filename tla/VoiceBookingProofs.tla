------------------------- MODULE VoiceBookingProofs -------------------------
(***************************************************************************)
(* Bookings, for any number of calls, requests, accounts, reconnections,   *)
(* lost answers and crashes.                                               *)
(***************************************************************************)
EXTENDS VoiceBooking, CalendarProofs

Known(r) == ~At(r, "unused")

(* What a request has come to: it asks for a slot that was read out in its *)
(* call, has what its next step needs, and is booked only if its event is  *)
(* there.                                                                  *)
RequestSound(r) ==
  /\ Known(r) => requests[r].slot \in offered[r[1]]
  /\ requests[r].pc \in {"insert", "mail"} => requests[r].account \in Accounts
  /\ At(r, "mail") => Recipient(r) \in Addresses
  /\ requests[r].pc \in {"recipient", "mail", "emit"} => requests[r].booked
  /\ requests[r].booked => Booked(r)

Sound ==
  /\ \A r \in RequestIds : RequestSound(r)
  /\ \A e \in events : Known(e.request)
  /\ \A r \in told \cup followups : Known(r) /\ Booked(r)
  /\ \A m \in mails : /\ Known(m.request) /\ Booked(m.request)
                      /\ requests[m.request].email \in {NoAddress, m.to}
  /\ \A c \in Calls, n \in 1 .. MaxRequests : n > calls[c].requested => ~Known(<<c, n>>)

(* Unless it is marked, a slot that was offered, or is about to be, is     *)
(* free in the connected calendar, and a request is about to book it       *)
(* there.                                                                  *)
OffersAreFree ==
  \A c \in Calls : \A slot \in Found(c) :
    <<c, slot>> \notin stale => ~Overlaps(slot, Calendar(credential))

RequestsAreCurrent ==
  \A r \in RequestIds :
    At(r, "insert") /\ requests[r].account # credential => <<r[1], requests[r].slot>> \in stale

-----------------------------------------------------------------------------
(* What any step of a request can do, whichever of them it is.             *)
RequestEffect(r, q) ==
  /\ Known(r)
  /\ requests' = [requests EXCEPT ![r] = q]
  /\ q.pc # "unused" /\ q.slot = requests[r].slot /\ q.email = requests[r].email
  /\ q.pc \in {"insert", "mail"} => q.account \in Accounts
  /\ q.pc = "mail" => Recipient(r) \in Addresses
  /\ q.pc \in {"recipient", "mail", "emit"} => q.booked
  /\ q.booked => \/ requests[r].booked
                 \/ \E e \in events' : e.request = r /\ e.slot = requests[r].slot

WorldEffect(r) ==
  /\ events \subseteq events'
  /\ \A e \in events' \ events : e \in Event /\ e.request = r
  /\ followups' \subseteq followups \cup {r}
  /\ r \in followups' => r \in followups \/ requests[r].booked
  /\ mails \subseteq mails'
  /\ \A m \in mails' \ mails : /\ m \in Mail /\ m.request = r /\ requests[r].booked
                               /\ requests[r].email \in {NoAddress, m.to}
  /\ calm' \in Nat
  /\ stale' \subseteq Calls \X Intervals
  /\ UNCHANGED <<google, agents>>

LEMMA MovedRequest ==
  ASSUME NEW q \in Request, NEW pc \in RequestPc, NEW n \in Nat,
         NEW account \in Accounts \cup {NoAccount}
  PROVE  /\ [q EXCEPT !.pc = pc] \in Request
         /\ [q EXCEPT !.pc = pc, !.attempt = n] \in Request
         /\ [q EXCEPT !.pc = pc, !.account = account] \in Request
         /\ [q EXCEPT !.pc = pc, !.booked = TRUE, !.attempt = n] \in Request
         /\ [q EXCEPT !.pc = pc, !.email_sent = TRUE, !.attempt = n] \in Request
BY DEF Request

LEMMA RetriedRequest ==
  ASSUME NEW q \in Request, NEW n \in Nat
  PROVE  [q EXCEPT !.attempt = n] \in Request
BY DEF Request

LEMMA SpendIsNat ==
  ASSUME calm \in Nat, Disturbed
  PROVE  calm' \in Nat
BY DEF Disturbed

LEMMA OffersAreTyped ==
  ASSUME ApiTypeOK, AgentTypeOK
  PROVE  Offers \subseteq Calls \X Intervals
<1>1. \A c \in Calls : Found(c) \subseteq Intervals
  BY DEF Found, ApiTypeOK, AgentTypeOK, LookUp
<1> QED
  BY <1>1 DEF Offers

(* A POST that is lost leaves the request where it is, or sends it where   *)
(* the exception goes.                                                     *)
LEMMA LostPost ==
  ASSUME NEW r \in RequestIds, NEW raised, PostIsLost(r, raised),
         requests[r] \in Request, calm \in Nat
  PROVE  /\ calm' \in Nat
         /\ \/ requests' = [requests EXCEPT ![r] = raised]
            \/ requests' = [requests EXCEPT ![r] = [requests[r] EXCEPT !.attempt = @ + 1]]
BY SpendIsNat DEF PostIsLost, RequestMoves

LEMMA RequestsMove ==
  ASSUME TypeOK, Sound, NEW r \in RequestIds, Serve(r) \/ Crash(r)
  PROVE  (\E q \in Request : RequestEffect(r, q)) /\ WorldEffect(r)
<1> DEFINE q0 == requests[r]
<1>1. /\ q0 \in Request /\ calm \in Nat /\ stale \subseteq Calls \X Intervals
      /\ events \subseteq Event /\ mails \subseteq Mail
      /\ credential \in Accounts \cup {NoAccount}
  BY DEF TypeOK, ApiTypeOK, GoogleTypeOK
<1>2. RequestSound(r) /\ Offers \subseteq Calls \X Intervals
  BY OffersAreTyped DEF Sound, TypeOK
<1>3. r[1] \in Calls /\ (Known(r) => q0.slot \in Intervals)
  BY <1>2 DEF RequestSound, TypeOK, AgentTypeOK, RequestIds
<1>4. CASE LoadCredential(r) /\ UNCHANGED agents
  <2>1. Known(r)
    BY <1>4 DEF LoadCredential, At, Known
  <2>2. WorldEffect(r)
    BY <1>1, <1>4 DEF LoadCredential, WorldEffect
  <2>3. CASE credential = NoAccount
    <3> DEFINE q == [q0 EXCEPT !.pc = "answered"]
    <3>1. q \in Request /\ requests' = [requests EXCEPT ![r] = q]
      BY <1>1, <1>4, <2>3, MovedRequest DEF LoadCredential, RequestMoves, RequestPc
    <3>2. RequestEffect(r, q)
      BY <1>1, <1>2, <2>1, <3>1 DEF RequestEffect, Request
    <3> QED
      BY <2>2, <3>1, <3>2
  <2>4. CASE credential # NoAccount
    <3> DEFINE q == [q0 EXCEPT !.pc = "insert", !.account = credential]
    <3>1. q \in Request /\ requests' = [requests EXCEPT ![r] = q]
      BY <1>1, <1>4, <2>4, MovedRequest DEF LoadCredential, RequestMoves, RequestPc
    <3>2. RequestEffect(r, q)
      BY <1>1, <1>2, <2>1, <2>4, <3>1 DEF RequestEffect, Request
    <3> QED
      BY <2>2, <3>1, <3>2
  <2> QED
    BY <2>3, <2>4
<1>5. ASSUME At(r, "insert"),
             \/ requests' = [requests EXCEPT ![r] = InsertFailed(r)]
             \/ requests' = [requests EXCEPT ![r] = [q0 EXCEPT !.attempt = @ + 1]]
      PROVE  \E q \in Request : RequestEffect(r, q)
  <2>1. Known(r) /\ q0.attempt \in Nat
    BY <1>1, <1>5 DEF At, Known, Request
  <2>2. CASE requests' = [requests EXCEPT ![r] = InsertFailed(r)]
    <3>1. InsertFailed(r) \in Request
      BY <1>1, MovedRequest DEF InsertFailed, RequestPc
    <3>2. RequestEffect(r, InsertFailed(r))
      BY <1>1, <1>2, <2>1, <2>2 DEF RequestEffect, Request, InsertFailed
    <3> QED
      BY <3>1, <3>2
  <2>3. CASE requests' = [requests EXCEPT ![r] = [q0 EXCEPT !.attempt = @ + 1]]
    <3> DEFINE q == [q0 EXCEPT !.attempt = q0.attempt + 1]
    <3>1. q \in Request /\ requests' = [requests EXCEPT ![r] = q]
      <4>1. q0.attempt + 1 \in Nat
        BY <2>1
      <4>2. q \in Request
        BY <1>1, <4>1, RetriedRequest
      <4> QED
        BY <2>3, <4>2
    <3>2. RequestEffect(r, q)
      BY <1>1, <1>2, <1>5, <2>1, <3>1 DEF RequestEffect, Request, RequestSound, At
    <3> QED
      BY <3>1, <3>2
  <2> QED
    BY <1>5, <2>2, <2>3
<1>6. CASE BookMeeting(r, Offers) /\ UNCHANGED agents
  <2>1. At(r, "insert") /\ Known(r) /\ q0.slot \in Intervals
    BY <1>3, <1>6 DEF BookMeeting, At, Known
  <2> DEFINE e0 == [account |-> q0.account, slot |-> q0.slot, request |-> r,
                    nth |-> q0.attempt, clash |-> Clashes(q0.account, q0.slot, r)]
  <2>2. events' = events \cup {e0}
    BY <1>6 DEF BookMeeting, InsertEvent
  <2>3. e0 \in Event
    <3>1. q0.account \in Accounts /\ q0.attempt \in Nat
      BY <1>1, <1>2, <2>1 DEF RequestSound, At, Request
    <3>2. Clashes(q0.account, q0.slot, r) \in BOOLEAN
      BY DEF Clashes, Overlaps
    <3> QED
      BY <2>1, <3>1, <3>2 DEF Event
  <2>9. e0.request = r /\ e0.slot = q0.slot
    OBVIOUS
  <2> HIDE DEF e0
  <2>4. calm' \in Nat
    BY <1>1, <1>6, LostPost DEF BookMeeting
  <2>5. stale' \subseteq Calls \X Intervals
    BY <1>1, <1>2, <1>6 DEF BookMeeting
  <2>6. WorldEffect(r)
    BY <1>6, <2>2, <2>3, <2>4, <2>5, <2>9 DEF BookMeeting, WorldEffect
  <2>7. CASE RequestMoves(r, InsertAnswered(r))
    <3> DEFINE q == InsertAnswered(r)
    <3>1. q \in Request /\ requests' = [requests EXCEPT ![r] = q]
      BY <1>1, <2>7, MovedRequest DEF InsertAnswered, RequestMoves, RequestPc
    <3>2. \E e \in events' : e.request = r /\ e.slot = q0.slot
      BY <2>2, <2>9
    <3>3. RequestEffect(r, q)
      BY <1>1, <2>1, <3>1, <3>2 DEF RequestEffect, InsertAnswered, Request
    <3> QED
      BY <2>6, <3>1, <3>3
  <2>8. CASE PostIsLost(r, InsertFailed(r))
    BY <1>1, <1>5, <2>1, <2>6, <2>8, LostPost
  <2> QED
    BY <1>6, <2>7, <2>8 DEF BookMeeting
<1>7. CASE InsertIsLost(r) /\ UNCHANGED agents
  <2>1. At(r, "insert") /\ PostIsLost(r, InsertFailed(r))
    BY <1>7 DEF InsertIsLost
  <2>2. WorldEffect(r)
    BY <1>1, <1>7, <2>1, LostPost DEF InsertIsLost, WorldEffect
  <2> QED
    BY <1>1, <1>5, <2>1, <2>2, LostPost
<1>8. CASE FindRecipient(r) /\ UNCHANGED agents
  <2>1. Known(r) /\ At(r, "recipient")
    BY <1>8 DEF FindRecipient, At, Known
  <2>2. WorldEffect(r)
    BY <1>1, <1>8 DEF FindRecipient, WorldEffect
  <2>3. q0.booked
    BY <1>2, <2>1 DEF RequestSound, At
  <2>4. CASE Recipient(r) = NoAddress \/ credential = NoAccount
    <3> DEFINE q == [q0 EXCEPT !.pc = "emit"]
    <3>1. q \in Request /\ requests' = [requests EXCEPT ![r] = q]
      BY <1>1, <1>8, <2>4, MovedRequest DEF FindRecipient, RequestMoves, RequestPc
    <3>2. RequestEffect(r, q)
      BY <1>1, <2>1, <2>3, <3>1 DEF RequestEffect, Request
    <3> QED
      BY <2>2, <3>1, <3>2
  <2>5. CASE ~(Recipient(r) = NoAddress \/ credential = NoAccount)
    <3> DEFINE q == [q0 EXCEPT !.pc = "mail", !.account = credential]
    <3>1. q \in Request /\ requests' = [requests EXCEPT ![r] = q]
      BY <1>1, <1>8, <2>5, MovedRequest DEF FindRecipient, RequestMoves, RequestPc
    <3>2. Recipient(r) \in Addresses
      BY <1>1, <1>3, <2>5, ApiAssumption DEF Recipient, Request
    <3>3. RequestEffect(r, q)
      BY <1>1, <2>1, <2>3, <2>5, <3>1, <3>2 DEF RequestEffect, Request
    <3> QED
      BY <2>2, <3>1, <3>3
  <2> QED
    BY <2>4, <2>5
<1>9. ASSUME At(r, "mail"),
             \/ requests' = [requests EXCEPT ![r] = MailFailed(r)]
             \/ requests' = [requests EXCEPT ![r] = [q0 EXCEPT !.attempt = @ + 1]]
      PROVE  \E q \in Request : RequestEffect(r, q)
  <2>1. Known(r) /\ q0.attempt \in Nat /\ q0.booked /\ Recipient(r) \in Addresses
    BY <1>1, <1>2, <1>9 DEF At, Known, Request, RequestSound
  <2>2. CASE requests' = [requests EXCEPT ![r] = MailFailed(r)]
    <3>1. MailFailed(r) \in Request
      BY <1>1, MovedRequest DEF MailFailed, RequestPc
    <3>2. RequestEffect(r, MailFailed(r))
      BY <1>1, <2>1, <2>2 DEF RequestEffect, Request, MailFailed
    <3> QED
      BY <3>1, <3>2
  <2>3. CASE requests' = [requests EXCEPT ![r] = [q0 EXCEPT !.attempt = @ + 1]]
    <3> DEFINE q == [q0 EXCEPT !.attempt = q0.attempt + 1]
    <3>1. q \in Request /\ requests' = [requests EXCEPT ![r] = q]
      <4>1. q0.attempt + 1 \in Nat
        BY <2>1
      <4>2. q \in Request
        BY <1>1, <4>1, RetriedRequest
      <4> QED
        BY <2>3, <4>2
    <3>2. RequestEffect(r, q)
      BY <1>1, <1>2, <1>9, <2>1, <3>1 DEF RequestEffect, Request, RequestSound, At
    <3> QED
      BY <3>1, <3>2
  <2> QED
    BY <1>9, <2>2, <2>3
<1>10. CASE SendConfirmation(r) /\ UNCHANGED agents
  <2>1. /\ At(r, "mail") /\ Known(r) /\ q0.booked /\ Recipient(r) \in Addresses
        /\ q0.account \in Accounts /\ q0.attempt \in Nat
    BY <1>1, <1>2, <1>10 DEF SendConfirmation, At, Known, RequestSound, Request
  <2> DEFINE m0 == [to |-> Recipient(r), account |-> q0.account, request |-> r,
                    nth |-> q0.attempt]
  <2>2. mails' = mails \cup {m0}
    BY <1>10 DEF SendConfirmation, SendGmail
  <2>3. m0 \in Mail /\ m0.request = r /\ q0.email \in {NoAddress, m0.to}
    BY <2>1 DEF Mail, Recipient
  <2>4. calm' \in Nat
    BY <1>1, <1>10, LostPost DEF SendConfirmation
  <2>5. WorldEffect(r)
    BY <1>1, <1>10, <2>1, <2>2, <2>3, <2>4 DEF SendConfirmation, WorldEffect
  <2>6. CASE RequestMoves(r, [q0 EXCEPT !.pc = "emit", !.email_sent = TRUE, !.attempt = 1])
    <3> DEFINE q == [q0 EXCEPT !.pc = "emit", !.email_sent = TRUE, !.attempt = 1]
    <3>1. q \in Request /\ requests' = [requests EXCEPT ![r] = q]
      BY <1>1, <2>6, MovedRequest DEF RequestMoves, RequestPc
    <3>2. RequestEffect(r, q)
      BY <1>1, <2>1, <3>1 DEF RequestEffect, Request
    <3> QED
      BY <2>5, <3>1, <3>2
  <2>7. CASE PostIsLost(r, MailFailed(r))
    BY <1>1, <1>9, <2>1, <2>5, <2>7, LostPost
  <2> QED
    BY <1>10, <2>6, <2>7 DEF SendConfirmation
<1>11. CASE ConfirmationIsLost(r) /\ UNCHANGED agents
  <2>1. /\ At(r, "mail")
        /\ \/ PostIsLost(r, MailFailed(r))
           \/ Disturbed /\ RequestMoves(r, MailFailed(r))
    BY <1>11 DEF ConfirmationIsLost
  <2>2. calm' \in Nat
    BY <1>1, <2>1, LostPost, SpendIsNat
  <2>3. WorldEffect(r)
    BY <1>1, <1>11, <2>2 DEF ConfirmationIsLost, WorldEffect
  <2> QED
    BY <1>1, <1>9, <2>1, <2>3, LostPost DEF RequestMoves
<1>12. CASE EmitMeetingScheduled(r) /\ UNCHANGED agents
  <2>1. Known(r) /\ q0.booked
    BY <1>2, <1>12 DEF EmitMeetingScheduled, At, Known, RequestSound
  <2>2. calm' \in Nat
    BY <1>1, <1>12, SpendIsNat DEF EmitMeetingScheduled
  <2>3. WorldEffect(r)
    BY <1>1, <1>12, <2>1, <2>2 DEF EmitMeetingScheduled, WorldEffect
  <2> DEFINE q == [q0 EXCEPT !.pc = "answered"]
  <2>4. q \in Request /\ requests' = [requests EXCEPT ![r] = q]
    BY <1>1, <1>12, MovedRequest DEF EmitMeetingScheduled, RequestMoves, RequestPc
  <2>5. RequestEffect(r, q)
    BY <1>1, <2>1, <2>4 DEF RequestEffect, Request
  <2> QED
    BY <2>3, <2>4, <2>5
<1>13. CASE RequestDies(r) /\ UNCHANGED agents
  <2>1. Known(r)
    BY <1>13 DEF RequestDies, At, Known
  <2>2. calm' \in Nat
    BY <1>1, <1>13, SpendIsNat DEF RequestDies
  <2>3. WorldEffect(r)
    BY <1>1, <1>13, <2>2 DEF RequestDies, WorldEffect
  <2> DEFINE q == [q0 EXCEPT !.pc = "failed"]
  <2>4. q \in Request /\ requests' = [requests EXCEPT ![r] = q]
    BY <1>1, <1>13, MovedRequest DEF RequestDies, RequestMoves, RequestPc
  <2>5. RequestEffect(r, q)
    BY <1>1, <2>1, <2>4 DEF RequestEffect, Request
  <2> QED
    BY <2>3, <2>4, <2>5
<1> QED
  BY <1>4, <1>6, <1>7, <1>8, <1>10, <1>11, <1>12, <1>13 DEF Serve, Crash, RequestRuns

-----------------------------------------------------------------------------
(* What Google's answer leaves open is free in the calendar asked about.   *)
LEMMA AnswersSlotsAreFree ==
  ASSUME TypeOK, NEW account, NEW ask \in Ask,
         NEW slot \in GetAvailability(NOW, TODAY, Calendar(account), ask)
  PROVE  slot \in Intervals /\ ~Overlaps(slot, Calendar(account))
<1>1. Calendar(account) \in SUBSET (Nat \X Nat)
  BY DEF TypeOK, GoogleTypeOK, Calendar, Event, Intervals
<1>2. NOW \in Nat
  BY GoogleAssumption
<1>4. /\ \A entry \in Calendar(account) : entry[2] <= slot[1] \/ slot[2] <= entry[1]
      /\ slot \in Nat \X Nat /\ slot[1] < slot[2]
  BY <1>1, <1>2, QueryReachesEverySlot
<1>5. ASSUME NEW entry \in Calendar(account)
      PROVE  ~(slot[1] < entry[2] /\ entry[1] < slot[2])
  <2>1. /\ entry[1] \in Nat /\ entry[2] \in Nat /\ slot[1] \in Nat /\ slot[2] \in Nat
        /\ entry[2] <= slot[1] \/ slot[2] <= entry[1]
    BY <1>1, <1>4
  <2> QED
    BY <2>1
<1> QED
  BY <1>4, <1>5 DEF Intervals, Overlaps

(* A step of an agent other than ScheduleMeeting: no slot is offered but   *)
(* one that was found, and a booking is told once it is one.               *)
QuietCall ==
  /\ calls' \in [Calls -> Call]
  /\ \A c \in Calls : calls'[c].requested = calls[c].requested
  /\ lookups' \in [Calls -> LookUp]
  /\ offered' \in [Calls -> SUBSET Intervals]
  /\ \A c \in Calls : offered[c] \subseteq offered'[c] /\ Found(c)' \subseteq Found(c)
  /\ \A r \in told' \ told : r \in RequestIds /\ Known(r) /\ requests[r].booked
  /\ calm' \in Nat
  /\ UNCHANGED <<api, stale>>

(* A call without a look-up.                                               *)
LEMMA IdleIsTyped == Idle \in LookUp /\ Idle.slots = {}
<1>1. AnyTime \in Ask
  <2>1. {} \in SUBSET (0 .. UnknownDay) /\ Unset \in Int
    BY DEF Unset
  <2> QED
    BY <2>1 DEF AnyTime, Ask
<1> QED
  BY <1>1 DEF Idle, LookUp

\* A look-up that is made.
LEMMA LookUpsAreTyped ==
  ASSUME NEW q \in LookUp, NEW ask \in Ask
  PROVE  /\ [q EXCEPT !.pc = "load", !.ask = ask] \in LookUp
         /\ [q EXCEPT !.pc = "load", !.ask = ask].slots = q.slots
BY DEF LookUp

LEMMA AgentsAreQuiet ==
  ASSUME TypeOK, NEW c \in Calls, CallRuns(c),
         ~\E slot \in offered[c] : ScheduleMeeting(c, slot)
  PROVE  QuietCall
<1>1. /\ calls \in [Calls -> Call] /\ offered \in [Calls -> SUBSET Intervals]
      /\ calm \in Nat /\ lookups \in [Calls -> LookUp]
  BY DEF TypeOK, AgentTypeOK, ApiTypeOK, GoogleTypeOK
<1>14. ASSUME UNCHANGED <<lookups, offered>>
       PROVE  \A d \in Calls : offered[d] \subseteq offered'[d] /\ Found(d)' \subseteq Found(d)
  BY <1>14 DEF Found
<1>2. ASSUME NEW phase \in CallPhase, NEW email \in Addresses \cup {NoAddress},
             NEW n \in Nat, NEW w \in 0 .. MaxRequests, NEW d \in Calls
      PROVE  /\ [calls[d] EXCEPT !.phase = phase] \in Call
             /\ [calls[d] EXCEPT !.phase = phase, !.waiting = w] \in Call
             /\ [calls[d] EXCEPT !.email = email] \in Call
             /\ [calls[d] EXCEPT !.asked = n] \in Call
             /\ [calls[d] EXCEPT !.waiting = w] \in Call
  BY <1>1 DEF Call
<1>3. NoAddress \in Addresses \cup {NoAddress} /\ 0 \in Nat /\ 0 \in 0 .. MaxRequests
  BY GoogleAssumption
<1>4. CASE Bootstrap(c)
  <2>1. calm' \in Nat
    BY <1>1, <1>4, SpendIsNat DEF Bootstrap
  <2>2. PICK phase \in CallPhase : calls' = [calls EXCEPT ![c] = [calls[c] EXCEPT !.phase = phase]]
    BY <1>4 DEF Bootstrap, CallPhase
  <2>3. [calls[c] EXCEPT !.phase = phase] \in Call
    BY <1>2, <1>3
  <2> QED
    BY <1>1, <1>4, <1>14, <2>1, <2>2, <2>3 DEF Bootstrap, QuietCall, Call
<1>5. ASSUME NEW ask \in Asks, AskAvailability(c, ask)
      PROVE  QuietCall
  <2> DEFINE q == [lookups[c] EXCEPT !.pc = "load", !.ask = ask]
  <2>1. calls' = [calls EXCEPT ![c] = [calls[c] EXCEPT !.asked = calls[c].asked + 1]]
    BY <1>5 DEF AskAvailability
  <2>2. [calls[c] EXCEPT !.asked = calls[c].asked + 1] \in Call
    BY <1>1 DEF Call
  <2>3. lookups' = [lookups EXCEPT ![c] = q]
    BY <1>5 DEF AskAvailability
  <2>4. q \in LookUp /\ q.slots = lookups[c].slots
    BY <1>1, AgentAssumption, LookUpsAreTyped
  <2> HIDE DEF q
  <2>5. UNCHANGED <<api, stale, calm, offered, told>>
    BY <1>5 DEF AskAvailability
  <2>6. \A d \in Calls : Found(d)' \subseteq Found(d)
    BY <1>1, <2>3, <2>4, <2>5 DEF Found
  <2> QED
    BY <1>1, <2>1, <2>2, <2>3, <2>4, <2>5, <2>6 DEF QuietCall, Call
<1>10. Idle \in LookUp /\ Idle.slots = {}
  BY IdleIsTyped
<1>11. ASSUME lookups' = [lookups EXCEPT ![c] = Idle], offered' = offered
       PROVE  lookups' \in [Calls -> LookUp] /\ \A d \in Calls : Found(d)' \subseteq Found(d)
  BY <1>1, <1>10, <1>11 DEF Found
<1>12. CASE ReadOut(c)
  <2>1. /\ lookups' = [lookups EXCEPT ![c] = Idle]
        /\ offered' = [offered EXCEPT ![c] = offered[c] \cup Spoken(lookups[c].slots)]
        /\ UNCHANGED <<api, stale, calm, calls, told>>
    BY <1>12 DEF ReadOut
  <2>2. Spoken(lookups[c].slots) \subseteq lookups[c].slots
    BY DEF Spoken
  <2>3. lookups[c].slots \subseteq Intervals
    BY <1>1 DEF LookUp
  <2>4. lookups' \in [Calls -> LookUp] /\ offered' \in [Calls -> SUBSET Intervals]
    BY <1>1, <1>10, <2>1, <2>2, <2>3
  <2>5. \A d \in Calls : offered[d] \subseteq offered'[d] /\ Found(d)' \subseteq Found(d)
    BY <1>1, <1>10, <2>1, <2>2 DEF Found
  <2> QED
    BY <1>1, <2>1, <2>4, <2>5 DEF QuietCall
<1>13. CASE LookUpFails(c)
  <2>1. /\ lookups' = [lookups EXCEPT ![c] = Idle]
        /\ UNCHANGED <<api, stale, calm, calls, offered, told>>
    BY <1>13 DEF LookUpFails
  <2> QED
    BY <1>1, <1>11, <2>1 DEF QuietCall
<1>6. ASSUME NEW address \in Spelled, CaptureEmail(c, address)
      PROVE  QuietCall
  <2>1. calls' = [calls EXCEPT ![c] = [calls[c] EXCEPT !.email = address]]
    BY <1>6 DEF CaptureEmail
  <2>2. [calls[c] EXCEPT !.email = address] \in Call
    BY <1>1, AgentAssumption DEF Call
  <2> QED
    BY <1>1, <1>6, <1>14, <2>1, <2>2 DEF CaptureEmail, QuietCall, Call
<1>7. CASE ToolReturns(c)
  <2> DEFINE r == <<c, calls[c].waiting>>
  <2>1. calls' = [calls EXCEPT ![c] = [calls[c] EXCEPT !.waiting = 0]]
    BY <1>7 DEF ToolReturns
  <2>2. [calls[c] EXCEPT !.waiting = 0] \in Call
    BY <1>1, <1>3 DEF Call
  <2>3. r \in RequestIds
    BY <1>1, <1>7, GoogleAssumption DEF ToolReturns, Call, RequestIds
  <2>4. \A x \in told' \ told : x = r /\ SaysBooked(r)
    BY <1>7 DEF ToolReturns
  <2>5. SaysBooked(r) => Known(r) /\ requests[r].booked
    BY DEF SaysBooked, Known, At
  <2>6. UNCHANGED <<api, lookups, calm, stale, offered>>
    BY <1>7 DEF ToolReturns
  <2> HIDE DEF r
  <2> QED
    BY <1>1, <1>14, <2>1, <2>2, <2>3, <2>4, <2>5, <2>6 DEF QuietCall, Call
<1>8. CASE ToolTimesOut(c)
  <2>1. calls' = [calls EXCEPT ![c] = [calls[c] EXCEPT !.waiting = 0]]
    BY <1>8 DEF ToolTimesOut
  <2>2. [calls[c] EXCEPT !.waiting = 0] \in Call
    BY <1>1, <1>3 DEF Call
  <2> QED
    BY <1>1, <1>8, <1>14, <2>1, <2>2 DEF ToolTimesOut, QuietCall, Call
<1>9. CASE SessionCloses(c)
  <2>1. calls' = [calls EXCEPT ![c] = [calls[c] EXCEPT !.phase = "finalized", !.waiting = 0]]
    BY <1>9 DEF SessionCloses
  <2>2. [calls[c] EXCEPT !.phase = "finalized", !.waiting = 0] \in Call
    BY <1>1, <1>3 DEF Call, CallPhase
  <2> QED
    BY <1>1, <1>9, <1>11, <2>1, <2>2 DEF SessionCloses, QuietCall, Call
<1> QED
  BY <1>4, <1>5, <1>6, <1>7, <1>8, <1>9, <1>12, <1>13 DEF CallRuns

(* ScheduleMeeting opens a request nobody knew.                            *)
LEMMA MeetingIsRequested ==
  ASSUME TypeOK, Sound, NEW c \in Calls, NEW slot \in offered[c], ScheduleMeeting(c, slot)
  PROVE  \E n \in 1 .. MaxRequests :
           /\ n = calls[c].requested + 1
           /\ ~Known(<<c, n>>) /\ <<c, n>> \in RequestIds
           /\ requests' = [requests EXCEPT ![<<c, n>>] = NewRequest(slot, calls[c].email)]
           /\ NewRequest(slot, calls[c].email) \in Request
           /\ calls' \in [Calls -> Call]
           /\ calls' = [calls EXCEPT ![c].requested = n, ![c].waiting = n]
           /\ UNCHANGED <<google, events, mails, followups, lookups, calm, stale, offered, told>>
<1> DEFINE n == calls[c].requested + 1
<1>1. /\ calls \in [Calls -> Call] /\ calls[c] \in Call /\ slot \in Intervals
  BY DEF TypeOK, AgentTypeOK
<1>2. n \in 1 .. MaxRequests /\ <<c, n>> \in RequestIds
  BY <1>1, GoogleAssumption DEF ScheduleMeeting, RequestIds, Call
<1>3. n > calls[c].requested
  BY <1>1 DEF Call
<1>4. ~Known(<<c, n>>)
  BY <1>2, <1>3 DEF Sound
<1>5. NewRequest(slot, calls[c].email) \in Request
  BY <1>1 DEF NewRequest, UnusedRequest, Request, RequestPc, Call
<1>6. [calls[c] EXCEPT !.requested = n, !.waiting = n] \in Call
  <2>1. n \in 0 .. MaxRequests
    BY <1>2, GoogleAssumption
  <2> HIDE DEF n
  <2> QED
    BY <1>1, <2>1 DEF Call
<1>7. calls' = [calls EXCEPT ![c].requested = n, ![c].waiting = n]
  BY DEF ScheduleMeeting
<1>8. calls' \in [Calls -> Call]
  <2>1. calls' = [calls EXCEPT ![c] = [calls[c] EXCEPT !.requested = n, !.waiting = n]]
    BY <1>7
  <2> HIDE DEF n
  <2> QED
    BY <1>1, <1>6, <2>1
<1>9. /\ requests' = [requests EXCEPT ![<<c, n>>] = NewRequest(slot, calls[c].email)]
      /\ UNCHANGED <<google, events, mails, followups, lookups, calm, stale, offered, told>>
  BY DEF ScheduleMeeting
<1> HIDE DEF n
<1>10. n = calls[c].requested + 1
  BY DEF n
<1> QED
  BY <1>2, <1>4, <1>5, <1>7, <1>8, <1>9, <1>10

-----------------------------------------------------------------------------
(* The endpoint's steps of a look-up.  Those it finds are free where it    *)
(* asked, and marked unless that is still the connected calendar.          *)
LEMMA AnswersMove ==
  ASSUME TypeOK, NEW c \in Calls, Answers(c)
  PROVE  /\ lookups' \in [Calls -> LookUp]
         /\ stale \subseteq stale' /\ stale' \subseteq Calls \X Intervals
         /\ \A d \in Calls : \A slot \in Found(d)' :
              slot \in Found(d) \/ <<d, slot>> \in stale' \/ ~Overlaps(slot, Calendar(credential))
         /\ UNCHANGED <<google, events, mails, calm, requests, followups, calls, offered, told>>
<1>1. /\ lookups \in [Calls -> LookUp] /\ stale \subseteq Calls \X Intervals
      /\ credential \in Accounts \cup {NoAccount}
  BY DEF TypeOK, ApiTypeOK, GoogleTypeOK
<1>2. UNCHANGED <<google, events, mails, calm, requests, followups, calls, offered, told>>
  BY DEF Answers, LoadForAvailability, QueryCalendar
<1>3. CASE LoadForAvailability(c)
  <2>1. stale' = stale
    BY <1>3 DEF LoadForAvailability
  <2>2. PICK pc \in {"answered", "query"} :
          lookups' = [lookups EXCEPT ![c] = [lookups[c] EXCEPT !.pc = pc, !.account = credential]]
    BY <1>3 DEF LoadForAvailability
  <2> DEFINE q == [lookups[c] EXCEPT !.pc = pc, !.account = credential]
  <2>3. q \in LookUp /\ q.slots = lookups[c].slots
    BY <1>1 DEF LookUp
  <2>4. lookups' = [lookups EXCEPT ![c] = q]
    BY <2>2
  <2> HIDE DEF q
  <2>5. lookups' \in [Calls -> LookUp]
    BY <1>1, <2>3, <2>4
  <2>6. \A d \in Calls : Found(d)' = Found(d)
    BY <1>1, <1>2, <2>3, <2>4 DEF Found
  <2> QED
    BY <1>1, <1>2, <2>1, <2>5, <2>6
<1>4. CASE QueryCalendar(c)
  <2> DEFINE account == lookups[c].account
             slots == GetAvailability(NOW, TODAY, Calendar(account), lookups[c].ask)
             q == [lookups[c] EXCEPT !.pc = "answered", !.slots = slots]
  <2>1. lookups' = [lookups EXCEPT ![c] = q]
    BY <1>4 DEF QueryCalendar
  <2>2. stale' = IF account = credential THEN stale ELSE stale \cup ({c} \X slots)
    BY <1>4 DEF QueryCalendar
  <2>3. lookups[c].ask \in Ask
    BY <1>1 DEF LookUp
  <2>4. \A slot \in slots : slot \in Intervals /\ ~Overlaps(slot, Calendar(account))
    BY <2>3, AnswersSlotsAreFree
  <2> HIDE DEF slots
  <2>5. q \in LookUp /\ q.slots = slots
    BY <1>1, <2>4 DEF LookUp
  <2> HIDE DEF q
  <2>6. lookups' \in [Calls -> LookUp]
    BY <1>1, <2>1, <2>5
  <2>7. stale \subseteq stale' /\ stale' \subseteq Calls \X Intervals
    BY <1>1, <2>2, <2>4
  <2>8. ASSUME NEW d \in Calls, NEW slot \in Found(d)', slot \notin Found(d)
        PROVE  <<d, slot>> \in stale' \/ ~Overlaps(slot, Calendar(credential))
    <3>1. d = c /\ slot \in slots
      BY <1>1, <1>2, <2>1, <2>5, <2>8 DEF Found
    <3> QED
      BY <2>2, <2>4, <3>1
  <2> QED
    BY <1>2, <2>6, <2>7, <2>8
<1> QED
  BY <1>3, <1>4 DEF Answers

(* Reconnecting, and the owners of the calendars.                          *)
LEMMA OutsideMoves ==
  ASSUME TypeOK, World \/ \E f \in Flows : Connect(f)
  PROVE  /\ GoogleTypeOK'
         /\ UNCHANGED <<events, mails, requests, followups, agents>>
<1>1. GoogleTypeOK /\ Offers \subseteq Calls \X Intervals
  BY OffersAreTyped DEF TypeOK
<1>2. /\ flows \in [Flows -> Flow] /\ calm \in Nat /\ stale \subseteq Calls \X Intervals
      /\ credential \in Accounts \cup {NoAccount} /\ blocks \subseteq Accounts \X Intervals
      /\ events \subseteq Event /\ mails \subseteq Mail
  BY <1>1 DEF GoogleTypeOK
<1>3. ASSUME NEW f \in Flows, NEW pc \in {"consent", "store", "connected", "error"},
             NEW account \in Accounts
      PROVE  /\ [flows EXCEPT ![f].pc = pc] \in [Flows -> Flow]
             /\ [flows EXCEPT ![f].pc = pc, ![f].account = account] \in [Flows -> Flow]
  BY <1>2 DEF Flow
<1>4. ASSUME NEW f \in Flows, NEW pc \in {"consent", "store", "connected", "error"}
      PROVE  [flows EXCEPT ![f].pc = pc] \in [Flows -> Flow]
  BY <1>2, <1>4 DEF Flow
<1>5. CASE World
  <2>1. PICK account \in Accounts, slot \in OwnerSlots : OwnerBlocks(account, slot, Offers)
    BY <1>5 DEF World
  <2>2. calm' \in Nat
    BY <1>2, <2>1, SpendIsNat DEF OwnerBlocks
  <2>3. blocks' \subseteq Accounts \X Intervals
    BY <1>2, <2>1, GoogleAssumption DEF OwnerBlocks
  <2>4. stale' \subseteq Calls \X Intervals
    BY <1>1, <1>2, <2>1 DEF OwnerBlocks
  <2>5. UNCHANGED <<requests, followups, agents>>
    BY <1>5 DEF World
  <2>6. UNCHANGED <<credential, flows, events, mails>>
    BY <2>1 DEF OwnerBlocks
  <2> QED
    BY <1>2, <2>2, <2>3, <2>4, <2>5, <2>6 DEF GoogleTypeOK
<1>6. ASSUME NEW f \in Flows, Connect(f)
      PROVE  /\ GoogleTypeOK'
             /\ UNCHANGED <<events, mails, requests, followups, agents>>
  <2>1. UNCHANGED <<requests, followups, agents>>
    BY <1>6 DEF Connect
  <2>2. CASE StartGoogleConnect(f)
    <3>1. calm' \in Nat
      BY <1>2, <2>2, SpendIsNat DEF StartGoogleConnect
    <3> QED
      BY <1>2, <1>4, <2>1, <2>2, <3>1 DEF StartGoogleConnect, GoogleTypeOK
  <2>3. CASE CallbackEndsInError(f)
    BY <1>2, <1>4, <2>1, <2>3 DEF CallbackEndsInError, GoogleTypeOK
  <2>4. CASE StoreFails(f)
    <3>1. calm' \in Nat
      BY <1>2, <2>4, SpendIsNat DEF StoreFails
    <3> QED
      BY <1>2, <1>4, <2>1, <2>4, <3>1 DEF StoreFails, GoogleTypeOK
  <2>5. CASE \E account \in Accounts : ExchangeCode(f, account)
    <3>1. PICK account \in Accounts : ExchangeCode(f, account)
      BY <2>5
    <3>2. flows' \in [Flows -> Flow]
      <4>1. flows' = [flows EXCEPT ![f].pc = "store", ![f].account = account]
        BY <3>1 DEF ExchangeCode
      <4> QED
        BY <1>3, <4>1
    <3>3. UNCHANGED <<credential, blocks, events, mails, calm, stale>>
      BY <3>1 DEF ExchangeCode
    <3> QED
      BY <1>2, <2>1, <3>2, <3>3 DEF GoogleTypeOK
  <2>6. CASE StoreCredential(f, Offers)
    <3>1. credential' \in Accounts \cup {NoAccount}
      BY <1>2, <2>6 DEF StoreCredential, Flow
    <3>2. stale' \subseteq Calls \X Intervals
      BY <1>1, <1>2, <2>6 DEF StoreCredential
    <3> QED
      BY <1>2, <1>4, <2>1, <2>6, <3>1, <3>2 DEF StoreCredential, GoogleTypeOK
  <2> QED
    BY <1>6, <2>2, <2>3, <2>4, <2>5, <2>6 DEF Connect
<1> QED
  BY <1>5, <1>6

-----------------------------------------------------------------------------
LEMMA TypeStep ==
  ASSUME TypeOK, Sound, [Next]_vars
  PROVE  TypeOK'
<1>1. CASE World \/ \E f \in Flows : Connect(f)
  BY <1>1, OutsideMoves DEF TypeOK, ApiTypeOK, AgentTypeOK, agents
<1>2. ASSUME NEW c \in Calls, CallRuns(c)
      PROVE  TypeOK'
  <2>1. CASE \E slot \in offered[c] : ScheduleMeeting(c, slot)
    <3>1. PICK slot \in offered[c] : ScheduleMeeting(c, slot)
      BY <2>1
    <3>2. PICK n \in 1 .. MaxRequests :
            /\ requests' = [requests EXCEPT ![<<c, n>>] = NewRequest(slot, calls[c].email)]
            /\ NewRequest(slot, calls[c].email) \in Request
            /\ calls' \in [Calls -> Call]
            /\ UNCHANGED <<google, events, mails, followups, lookups, calm, stale, offered, told>>
      BY <3>1, MeetingIsRequested
    <3>3. requests' \in [RequestIds -> Request]
      BY <3>2 DEF TypeOK, ApiTypeOK
    <3> QED
      BY <3>2, <3>3 DEF TypeOK, GoogleTypeOK, ApiTypeOK, AgentTypeOK, google
  <2>2. CASE ~\E slot \in offered[c] : ScheduleMeeting(c, slot)
    <3>1. QuietCall
      BY <1>2, <2>2, AgentsAreQuiet
    <3>2. told' \subseteq RequestIds
      BY <3>1 DEF QuietCall, TypeOK, AgentTypeOK
    <3> QED
      BY <3>1, <3>2 DEF QuietCall, TypeOK, GoogleTypeOK, ApiTypeOK, AgentTypeOK, api
  <2> QED
    BY <2>1, <2>2
<1>5. ASSUME NEW c \in Calls, Answers(c)
      PROVE  TypeOK'
  BY <1>5, AnswersMove DEF TypeOK, GoogleTypeOK, ApiTypeOK, AgentTypeOK, google
<1>3. ASSUME NEW r \in RequestIds, Serve(r) \/ Crash(r)
      PROVE  TypeOK'
  <2>1. (\E q \in Request : RequestEffect(r, q)) /\ WorldEffect(r)
    BY <1>3, RequestsMove
  <2>2. requests' \in [RequestIds -> Request]
    BY <2>1 DEF RequestEffect, TypeOK, ApiTypeOK
  <2>3. events' \subseteq Event /\ mails' \subseteq Mail /\ followups' \subseteq RequestIds
    BY <2>1 DEF WorldEffect, TypeOK, ApiTypeOK, GoogleTypeOK
  <2> QED
    BY <2>1, <2>2, <2>3
       DEF WorldEffect, TypeOK, ApiTypeOK, GoogleTypeOK, AgentTypeOK, google, agents
<1>4. CASE UNCHANGED vars
  BY <1>4 DEF vars, TypeOK, ApiTypeOK, GoogleTypeOK, AgentTypeOK
<1> QED
  BY <1>1, <1>2, <1>3, <1>4, <1>5 DEF Next

(* Sound depends on these variables alone.                                 *)
LEMMA SoundFrame ==
  ASSUME Sound, UNCHANGED <<requests, events, mails, followups, calls, offered, told>>
  PROVE  Sound'
BY DEF Sound, RequestSound, Booked, Known, At, Recipient

LEMMA SoundRequests ==
  ASSUME TypeOK, Sound, NEW r \in RequestIds, Serve(r) \/ Crash(r)
  PROVE  Sound'
<1>1. PICK q \in Request : RequestEffect(r, q)
  BY RequestsMove
<1>2. WorldEffect(r)
  BY RequestsMove
<1>3. requests \in [RequestIds -> Request]
  BY DEF TypeOK, ApiTypeOK
<1>4. requests'[r] = q /\ \A x \in RequestIds \ {r} : requests'[x] = requests[x]
  BY <1>1, <1>3 DEF RequestEffect
<1>5. \A x \in RequestIds : /\ Known(x) => Known(x)'
                            /\ requests'[x].slot = requests[x].slot
                            /\ requests'[x].email = requests[x].email
  BY <1>1, <1>4 DEF RequestEffect, Known, At
<1>6. \A x \in RequestIds : Booked(x) => Booked(x)'
  BY <1>2, <1>5 DEF Booked, WorldEffect
<1>7. requests[r].booked => Booked(r)
  BY DEF Sound, RequestSound
<1>8. \A x \in RequestIds : RequestSound(x)'
  <2>1. ASSUME NEW x \in RequestIds, x # r
        PROVE  RequestSound(x)'
    <3>1. RequestSound(x)
      BY DEF Sound
    <3>2. offered' = offered
      BY <1>2 DEF WorldEffect, agents
    <3> QED
      BY <1>4, <1>6, <2>1, <3>1, <3>2 DEF RequestSound, Known, At, Recipient
  <2>2. RequestSound(r)'
    <3>1. requests'[r].slot \in offered'[r[1]]
      BY <1>1, <1>2, <1>5 DEF WorldEffect, agents, RequestEffect, Sound, RequestSound
    <3>2. requests'[r].pc \in {"insert", "mail"} => requests'[r].account \in Accounts
      BY <1>1, <1>4 DEF RequestEffect
    <3>3. At(r, "mail")' => Recipient(r)' \in Addresses
      BY <1>1, <1>4, <1>5 DEF RequestEffect, At, Recipient
    <3>4. requests'[r].pc \in {"recipient", "mail", "emit"} => requests'[r].booked
      BY <1>1, <1>4 DEF RequestEffect
    <3>5. requests'[r].booked => Booked(r)'
      <4>1. CASE requests[r].booked
        BY <1>6, <1>7, <4>1
      <4>2. CASE ~requests[r].booked /\ requests'[r].booked
        BY <1>1, <1>4, <1>5, <4>2 DEF RequestEffect, Booked
      <4> QED
        BY <4>1, <4>2
    <3> QED
      BY <3>1, <3>2, <3>3, <3>4, <3>5 DEF RequestSound
  <2> QED
    BY <2>1, <2>2
<1>9. Known(r) /\ Known(r)'
  BY <1>1, <1>5 DEF RequestEffect
<1>10. \A e \in events' : Known(e.request)'
  <2>1. \A e \in events : e.request \in RequestIds /\ Known(e.request)
    BY DEF Sound, TypeOK, GoogleTypeOK, Event
  <2> QED
    BY <1>2, <1>5, <1>9, <2>1 DEF WorldEffect
<1>11. \A x \in told' \cup followups' : Known(x)' /\ Booked(x)'
  <2>1. \A x \in told \cup followups : x \in RequestIds /\ Known(x) /\ Booked(x)
    BY DEF Sound, TypeOK, ApiTypeOK, AgentTypeOK
  <2>2. told' = told
    BY <1>2 DEF WorldEffect, agents
  <2>3. \A x \in followups' \ followups : x = r /\ Booked(r)
    BY <1>2, <1>7 DEF WorldEffect
  <2> QED
    BY <1>5, <1>6, <1>9, <2>1, <2>2, <2>3
<1>12. \A m \in mails' : /\ Known(m.request)' /\ Booked(m.request)'
                         /\ requests'[m.request].email \in {NoAddress, m.to}
  <2>1. \A m \in mails : /\ m.request \in RequestIds /\ Known(m.request) /\ Booked(m.request)
                         /\ requests[m.request].email \in {NoAddress, m.to}
    BY DEF Sound, TypeOK, GoogleTypeOK, Mail
  <2>2. \A m \in mails' \ mails : /\ m.request = r /\ requests[r].booked
                                  /\ requests[r].email \in {NoAddress, m.to}
    BY <1>2 DEF WorldEffect
  <2> QED
    BY <1>5, <1>6, <1>7, <1>9, <2>1, <2>2
<1>13. \A c \in Calls, n \in 1 .. MaxRequests : n > calls'[c].requested => ~Known(<<c, n>>)'
  <2>1. calls' = calls
    BY <1>2 DEF WorldEffect, agents
  <2>2. \A c \in Calls, n \in 1 .. MaxRequests : <<c, n>> \in RequestIds
    BY DEF RequestIds
  <2> QED
    BY <1>4, <1>9, <2>1, <2>2 DEF Sound, Known, At, RequestEffect
<1> QED
  BY <1>8, <1>10, <1>11, <1>12, <1>13 DEF Sound

LEMMA SoundQuietly ==
  ASSUME TypeOK, Sound, QuietCall
  PROVE  Sound'
<1>1. UNCHANGED <<requests, events, mails, followups>>
  BY DEF QuietCall, api
<1>2. \A r \in RequestIds : RequestSound(r)'
  <2>1. ASSUME NEW r \in RequestIds
        PROVE  RequestSound(r)'
    <3>1. RequestSound(r) /\ r[1] \in Calls
      BY DEF Sound, RequestIds
    <3> QED
      BY <1>1, <3>1 DEF QuietCall, RequestSound, Known, At, Recipient, Booked
  <2> QED
    BY <2>1
<1>3. \A x \in told' \cup followups' : Known(x)' /\ Booked(x)'
  <2>1. \A x \in told' \ told : x \in RequestIds /\ Known(x) /\ requests[x].booked
    BY DEF QuietCall
  <2>2. \A x \in told' \cup followups' : Known(x) /\ Booked(x)
    BY <1>1, <2>1 DEF Sound, RequestSound
  <2> QED
    BY <1>1, <2>2 DEF Known, At, Booked
<1> QED
  BY <1>1, <1>2, <1>3 DEF Sound, QuietCall, Known, At, Booked

LEMMA SoundMeeting ==
  ASSUME TypeOK, Sound, NEW c \in Calls, NEW slot \in offered[c], ScheduleMeeting(c, slot)
  PROVE  Sound'
<1>1. PICK n \in 1 .. MaxRequests :
        /\ n = calls[c].requested + 1
        /\ ~Known(<<c, n>>) /\ <<c, n>> \in RequestIds
        /\ requests' = [requests EXCEPT ![<<c, n>>] = NewRequest(slot, calls[c].email)]
        /\ calls' = [calls EXCEPT ![c].requested = n, ![c].waiting = n]
        /\ UNCHANGED <<google, events, mails, followups, lookups, calm, stale, offered, told>>
  BY MeetingIsRequested
<1> DEFINE r == <<c, n>>
<1>2. /\ requests \in [RequestIds -> Request] /\ calls \in [Calls -> Call]
      /\ requests'[r] = NewRequest(slot, calls[c].email)
      /\ \A x \in RequestIds \ {r} : requests'[x] = requests[x]
  BY <1>1 DEF TypeOK, ApiTypeOK, AgentTypeOK
<1>3. /\ requests'[r].pc = "load" /\ requests'[r].slot = slot /\ ~requests'[r].booked
      /\ r[1] = c
  BY <1>2 DEF NewRequest, UnusedRequest
<1> HIDE DEF r
<1>4. \A x \in RequestIds : Known(x) => x # r /\ requests'[x] = requests[x]
  BY <1>1, <1>2 DEF r
<1>5. \A x \in RequestIds : Known(x) => Known(x)' /\ (Booked(x) => Booked(x)')
  BY <1>1, <1>4 DEF Known, At, Booked
<1>6. \A x \in RequestIds : RequestSound(x)'
  <2>1. ASSUME NEW x \in RequestIds, x # r
        PROVE  RequestSound(x)'
    <3>1. RequestSound(x) /\ requests'[x] = requests[x]
      BY <1>2, <2>1 DEF Sound
    <3> QED
      BY <1>1, <3>1 DEF RequestSound, Known, At, Recipient, Booked
  <2>2. RequestSound(r)'
    BY <1>1, <1>3 DEF RequestSound, At
  <2> QED
    BY <2>1, <2>2
<1>7. \A e \in events' : Known(e.request)'
  <2>1. \A e \in events : e.request \in RequestIds /\ Known(e.request)
    BY DEF Sound, TypeOK, GoogleTypeOK, Event
  <2> QED
    BY <1>1, <1>5, <2>1
<1>8. \A x \in told' \cup followups' : Known(x)' /\ Booked(x)'
  <2>1. \A x \in told \cup followups : x \in RequestIds /\ Known(x) /\ Booked(x)
    BY DEF Sound, TypeOK, ApiTypeOK, AgentTypeOK
  <2> QED
    BY <1>1, <1>5, <2>1
<1>9. \A m \in mails' : /\ Known(m.request)' /\ Booked(m.request)'
                        /\ requests'[m.request].email \in {NoAddress, m.to}
  <2>1. \A m \in mails : /\ m.request \in RequestIds /\ Known(m.request) /\ Booked(m.request)
                         /\ requests[m.request].email \in {NoAddress, m.to}
    BY DEF Sound, TypeOK, GoogleTypeOK, Mail
  <2> QED
    BY <1>1, <1>4, <1>5, <2>1
<1>10. ASSUME NEW d \in Calls, NEW k \in 1 .. MaxRequests, k > calls'[d].requested
       PROVE  ~Known(<<d, k>>)'
  <2>1. calls[d].requested \in Nat /\ calls[c].requested \in Nat
    BY <1>2 DEF Call
  <2>2. calls'[d].requested = IF d = c THEN n ELSE calls[d].requested
    BY <1>1, <1>2 DEF Call
  <2>3. k > calls[d].requested /\ <<d, k>> # r
    BY <1>1, <1>10, <2>1, <2>2 DEF r
  <2>4. ~Known(<<d, k>>) /\ <<d, k>> \in RequestIds
    BY <2>3 DEF Sound, RequestIds
  <2> QED
    BY <1>2, <2>3, <2>4 DEF Known, At
<1> QED
  BY <1>6, <1>7, <1>8, <1>9, <1>10 DEF Sound

LEMMA SoundStep ==
  ASSUME TypeOK, Sound, [Next]_vars
  PROVE  Sound'
<1>1. CASE World \/ \E f \in Flows : Connect(f)
  BY <1>1, OutsideMoves, SoundFrame DEF agents
<1>2. ASSUME NEW c \in Calls, CallRuns(c)
      PROVE  Sound'
  BY <1>2, AgentsAreQuiet, SoundQuietly, SoundMeeting
<1>3. ASSUME NEW r \in RequestIds, Serve(r) \/ Crash(r)
      PROVE  Sound'
  BY <1>3, SoundRequests
<1>4. CASE UNCHANGED vars
  BY <1>4, SoundFrame DEF vars
<1>5. ASSUME NEW c \in Calls, Answers(c)
      PROVE  Sound'
  BY <1>5, AnswersMove, SoundFrame
<1> QED
  BY <1>1, <1>2, <1>3, <1>4, <1>5 DEF Next

LEMMA InitIsSound == Init => TypeOK /\ Sound
<1> SUFFICES ASSUME Init PROVE TypeOK /\ Sound
  OBVIOUS
<1>1. GoogleTypeOK
  BY GoogleAssumption DEF Init, GoogleInit, GoogleTypeOK, Flow
<1>2. ApiTypeOK
  <2>1. UnusedRequest \in Request
    BY DEF UnusedRequest, Request, RequestPc
  <2>2. Idle \in LookUp
    BY IdleIsTyped
  <2> QED
    BY <2>1, <2>2 DEF Init, ApiInit, ApiTypeOK
<1>3. AgentTypeOK
  <2>1. NewCall \in Call
    BY GoogleAssumption DEF NewCall, Call, CallPhase
  <2> QED
    BY <2>1 DEF Init, AgentInit, AgentTypeOK
<1>4. \A r \in RequestIds : requests[r] = UnusedRequest
  BY DEF Init, ApiInit
<1>5. Sound
  <2>1. \A r \in RequestIds : RequestSound(r) /\ ~Known(r)
    BY <1>4 DEF RequestSound, Known, At, UnusedRequest
  <2>2. \A c \in Calls, n \in 1 .. MaxRequests : <<c, n>> \in RequestIds
    BY DEF RequestIds
  <2>3. events = {} /\ mails = {} /\ told = {} /\ followups = {}
    BY DEF Init, GoogleInit, ApiInit, AgentInit
  <2> QED
    BY <2>1, <2>2, <2>3 DEF Sound
<1> QED
  BY <1>1, <1>2, <1>3, <1>5 DEF TypeOK

(* Rows, requests and calls keep the types of what they stand for, and an  *)
(* interval never ends before it begins, from the slot loops to the event. *)
THEOREM BookingTypes == Spec => []TypeOK
<1>1. TypeOK /\ Sound /\ [Next]_vars => TypeOK' /\ Sound'
  BY TypeStep, SoundStep
<1> QED
  BY <1>1, InitIsSound, PTL DEF Spec

LEMMA SoundHolds == Spec => [](TypeOK /\ Sound)
<1>1. TypeOK /\ Sound /\ [Next]_vars => TypeOK' /\ Sound'
  BY TypeStep, SoundStep
<1> QED
  BY <1>1, InitIsSound, PTL DEF Spec

(* When the agent says "Booked for ...", the event is in a calendar: no    *)
(* retry, time-out, crash or reconnection makes it say so of a meeting     *)
(* that is not.                                                            *)
THEOREM ToldIsBooked == Spec => []ToldMeansBooked
<1>1. Sound => ToldMeansBooked
  BY DEF Sound, ToldMeansBooked
<1> QED
  BY <1>1, SoundHolds, PTL

(* Every confirmation and every follow-up is for a meeting that exists,    *)
(* and a confirmation goes to the address that was read back.              *)
THEOREM ConfirmationsAreTrue == Spec => []ConfirmationsMatchBookings
<1>1. Sound => ConfirmationsMatchBookings
  BY DEF Sound, ConfirmationsMatchBookings
<1> QED
  BY <1>1, SoundHolds, PTL

-----------------------------------------------------------------------------
LEMMA OverlapsOne ==
  ASSUME NEW slot, NEW T
  PROVE  Overlaps(slot, T) <=> \E x \in T : Overlaps(slot, {x})
BY DEF Overlaps

(* An offer stays free or is marked, whatever is added to the calendar.    *)
LEMMA MarkedWhenTaken ==
  ASSUME NEW taken, OffersAreFree, UNCHANGED <<credential, lookups, offered>>,
         stale \subseteq stale',
         \A x \in Calendar(credential)' \ Calendar(credential) : x = taken,
         taken \in Calendar(credential)' =>
           \A o \in Offers : Overlaps(o[2], {taken}) => o \in stale'
  PROVE  OffersAreFree'
<1> SUFFICES ASSUME NEW c \in Calls, NEW slot \in Found(c), <<c, slot>> \notin stale',
                    Overlaps(slot, Calendar(credential)')
             PROVE  FALSE
  BY DEF OffersAreFree, Found
<1>1. ~Overlaps(slot, Calendar(credential))
  BY DEF OffersAreFree
<1>2. PICK x \in Calendar(credential)' : Overlaps(slot, {x})
  BY OverlapsOne
<1>3. x \notin Calendar(credential)
  BY <1>1, <1>2, OverlapsOne
<1>4. x = taken /\ <<c, slot>> \in Offers
  BY <1>2, <1>3 DEF Offers
<1> QED
  BY <1>2, <1>4

LEMMA OffersStep ==
  ASSUME TypeOK, Sound, OffersAreFree, [Next]_vars
  PROVE  OffersAreFree'
<1>1. CASE World
  <2>1. PICK account \in Accounts, slot \in OwnerSlots : OwnerBlocks(account, slot, Offers)
    BY <1>1 DEF World
  <2>2. UNCHANGED <<credential, events, lookups, offered>>
    BY <1>1, <2>1 DEF World, OwnerBlocks, agents
  <2>3. /\ blocks' = blocks \cup {<<account, slot>>}
        /\ stale' = stale \cup {o \in Offers : account = credential /\ Overlaps(o[2], {slot})}
    BY <2>1 DEF OwnerBlocks
  <2>4. CASE account = credential
    <3>1. \A x \in Calendar(credential)' \ Calendar(credential) : x = slot
      BY <2>2, <2>3 DEF Calendar
    <3> QED
      BY <2>2, <2>3, <2>4, <3>1, MarkedWhenTaken
  <2>5. CASE account # credential
    <3>1. Calendar(credential)' = Calendar(credential)
      BY <2>2, <2>3, <2>5 DEF Calendar
    <3> QED
      BY <2>2, <2>3, <3>1 DEF OffersAreFree, Found
  <2> QED
    BY <2>4, <2>5
<1>2. ASSUME NEW f \in Flows, Connect(f)
      PROVE  OffersAreFree'
  <2>1. UNCHANGED <<blocks, events, lookups, offered>>
    BY <1>2 DEF Connect, agents, StartGoogleConnect, CallbackEndsInError, StoreFails,
                ExchangeCode, StoreCredential
  <2>2. CASE credential' = credential
    <3>1. stale \subseteq stale'
      BY <1>2 DEF Connect, StartGoogleConnect, CallbackEndsInError, StoreFails,
                  ExchangeCode, StoreCredential
    <3> QED
      BY <2>1, <2>2, <3>1 DEF OffersAreFree, Calendar, Found
  <2>3. CASE credential' # credential
    <3>1. Offers \subseteq stale'
      BY <1>2, <2>3 DEF Connect, StartGoogleConnect, CallbackEndsInError, StoreFails,
                        ExchangeCode, StoreCredential
    <3>2. \A c \in Calls : \A slot \in Found(c) : <<c, slot>> \in Offers
      BY DEF Offers
    <3> QED
      BY <2>1, <3>1, <3>2 DEF OffersAreFree, Found
  <2> QED
    BY <2>2, <2>3
<1>3. ASSUME NEW c \in Calls, CallRuns(c)
      PROVE  OffersAreFree'
  <2>1. CASE QuietCall
    <3>1. UNCHANGED <<credential, blocks, events, stale>>
      BY <2>1 DEF QuietCall, api
    <3>2. Calendar(credential)' = Calendar(credential)
      BY <3>1 DEF Calendar
    <3> QED
      BY <2>1, <3>1, <3>2 DEF QuietCall, OffersAreFree
  <2>2. CASE \E slot \in offered[c] : ScheduleMeeting(c, slot)
    <3>1. UNCHANGED <<credential, blocks, events, stale, lookups, offered>>
      BY <2>2 DEF ScheduleMeeting, google
    <3> QED
      BY <3>1 DEF OffersAreFree, Calendar, Found
  <2> QED
    BY <1>3, <2>1, <2>2, AgentsAreQuiet
<1>4. ASSUME NEW r \in RequestIds, Serve(r) \/ Crash(r)
      PROVE  OffersAreFree'
  <2>1. UNCHANGED <<credential, blocks, lookups, offered>>
    BY <1>4, RequestsMove DEF WorldEffect, google, agents
  <2>2. CASE BookMeeting(r, Offers)
    <3>1. stale' = stale \cup {o \in Offers : /\ requests[r].account = credential
                                              /\ Overlaps(o[2], {requests[r].slot})}
      BY <2>2 DEF BookMeeting
    <3>2. PICK e \in events' : /\ events' = events \cup {e}
                               /\ e.account = requests[r].account /\ e.slot = requests[r].slot
      <4> DEFINE e0 == [account |-> requests[r].account, slot |-> requests[r].slot,
                        request |-> r, nth |-> requests[r].attempt,
                        clash |-> Clashes(requests[r].account, requests[r].slot, r)]
      <4>1. events' = events \cup {e0}
        BY <2>2 DEF BookMeeting, InsertEvent
      <4>2. e0.account = requests[r].account /\ e0.slot = requests[r].slot
        OBVIOUS
      <4> HIDE DEF e0
      <4>3. e0 \in events'
        BY <4>1
      <4> QED
        BY <4>1, <4>2, <4>3
    <3>3. CASE requests[r].account = credential
      <4>1. \A x \in Calendar(credential)' \ Calendar(credential) : x = requests[r].slot
        BY <2>1, <3>2 DEF Calendar
      <4> QED
        BY <2>1, <3>1, <3>3, <4>1, MarkedWhenTaken
    <3>4. CASE requests[r].account # credential
      <4>1. Calendar(credential)' = Calendar(credential)
        BY <2>1, <3>2, <3>4 DEF Calendar
      <4> QED
        BY <2>1, <3>1, <4>1 DEF OffersAreFree, Found
    <3> QED
      BY <3>3, <3>4
  <2>3. CASE ~BookMeeting(r, Offers)
    <3>1. UNCHANGED <<events, stale>>
      BY <1>4, <2>3 DEF Serve, Crash, RequestRuns, LoadCredential, InsertIsLost, FindRecipient,
                        SendConfirmation, ConfirmationIsLost, EmitMeetingScheduled, RequestDies
    <3> QED
      BY <2>1, <3>1 DEF OffersAreFree, Calendar, Found
  <2> QED
    BY <2>2, <2>3
<1>5. CASE UNCHANGED vars
  BY <1>5 DEF vars, OffersAreFree, Calendar, Found
<1>6. ASSUME NEW c \in Calls, Answers(c)
      PROVE  OffersAreFree'
  <2>1. /\ stale \subseteq stale'
        /\ \A d \in Calls : \A slot \in Found(d)' :
             slot \in Found(d) \/ <<d, slot>> \in stale' \/ ~Overlaps(slot, Calendar(credential))
    BY <1>6, AnswersMove
  <2>2. UNCHANGED <<credential, blocks, events>>
    BY <1>6, AnswersMove DEF google
  <2>3. Calendar(credential)' = Calendar(credential)
    BY <2>2 DEF Calendar
  <2> QED
    BY <2>1, <2>3 DEF OffersAreFree
<1> QED
  BY <1>1, <1>2, <1>3, <1>4, <1>5, <1>6 DEF Next

LEMMA CurrentStep ==
  ASSUME TypeOK, Sound, RequestsAreCurrent, [Next]_vars
  PROVE  RequestsAreCurrent'
<1>1. requests \in [RequestIds -> Request] /\ \A r \in RequestIds : RequestSound(r)
  BY DEF TypeOK, ApiTypeOK, Sound
<1>2. ASSUME UNCHANGED <<requests, credential>>, stale \subseteq stale'
      PROVE  RequestsAreCurrent'
  BY <1>2 DEF RequestsAreCurrent, At
<1>3. CASE World
  <2>1. UNCHANGED <<requests, credential>> /\ stale \subseteq stale'
    BY <1>3 DEF World, OwnerBlocks
  <2> QED
    BY <1>2, <2>1
<1>4. ASSUME NEW f \in Flows, Connect(f)
      PROVE  RequestsAreCurrent'
  <2>1. requests' = requests /\ stale \subseteq stale'
    BY <1>4 DEF Connect, StartGoogleConnect, CallbackEndsInError, StoreFails, ExchangeCode,
                StoreCredential
  <2>2. CASE credential' = credential
    BY <1>2, <2>1, <2>2
  <2>3. CASE credential' # credential
    <3>1. Offers \subseteq stale'
      BY <1>4, <2>3 DEF Connect, StartGoogleConnect, CallbackEndsInError, StoreFails,
                        ExchangeCode, StoreCredential
    <3>2. ASSUME NEW r \in RequestIds, At(r, "insert")
          PROVE  <<r[1], requests[r].slot>> \in Offers
      BY <1>1, <3>2 DEF RequestSound, Known, At, Offers, Found, RequestIds
    <3> QED
      BY <2>1, <3>1, <3>2 DEF RequestsAreCurrent, At
  <2> QED
    BY <2>2, <2>3
<1>5. ASSUME NEW c \in Calls, CallRuns(c)
      PROVE  RequestsAreCurrent'
  <2>1. CASE QuietCall
    BY <1>2, <2>1 DEF QuietCall, api
  <2>2. CASE \E slot \in offered[c] : ScheduleMeeting(c, slot)
    <3>1. PICK slot \in offered[c] : ScheduleMeeting(c, slot)
      BY <2>2
    <3>2. PICK n \in 1 .. MaxRequests :
            /\ <<c, n>> \in RequestIds
            /\ requests' = [requests EXCEPT ![<<c, n>>] = NewRequest(slot, calls[c].email)]
            /\ UNCHANGED <<google, stale>>
      BY <3>1, MeetingIsRequested
    <3>3. requests'[<<c, n>>].pc = "load"
      BY <1>1, <3>2 DEF NewRequest, UnusedRequest
    <3> QED
      BY <1>1, <3>2, <3>3 DEF RequestsAreCurrent, At, google
  <2> QED
    BY <1>5, <2>1, <2>2, AgentsAreQuiet
<1>6. ASSUME NEW r \in RequestIds, Serve(r) \/ Crash(r)
      PROVE  RequestsAreCurrent'
  <2>1. PICK q \in Request : RequestEffect(r, q)
    BY <1>6, RequestsMove
  <2>2. credential' = credential /\ stale \subseteq stale'
    BY <1>6 DEF Serve, Crash, RequestRuns, LoadCredential, BookMeeting, InsertIsLost,
                FindRecipient, SendConfirmation, ConfirmationIsLost, EmitMeetingScheduled,
                RequestDies, google
  <2>3. /\ requests'[r] = q /\ q.slot = requests[r].slot
        /\ \A x \in RequestIds \ {r} : requests'[x] = requests[x]
    BY <1>1, <2>1 DEF RequestEffect
  <2>4. q.pc = "insert" =>
          q.account = credential \/ (At(r, "insert") /\ q.account = requests[r].account)
    <3>1. CASE LoadCredential(r)
      BY <1>1, <2>3, <3>1 DEF LoadCredential, RequestMoves, Request
    <3>2. CASE BookMeeting(r, Offers)
      BY <1>1, <2>3, <3>2 DEF BookMeeting, RequestMoves, InsertAnswered, PostIsLost,
                              InsertFailed, Request
    <3>3. CASE InsertIsLost(r)
      BY <1>1, <2>3, <3>3 DEF InsertIsLost, PostIsLost, RequestMoves, InsertFailed, Request
    <3>4. CASE FindRecipient(r)
      BY <1>1, <2>3, <3>4 DEF FindRecipient, RequestMoves, Request
    <3>5. CASE SendConfirmation(r) \/ ConfirmationIsLost(r)
      <4>1. requests[r].pc = "mail"
        BY <3>5 DEF SendConfirmation, ConfirmationIsLost, At
      <4>2. requests[r] \in Request /\ r \in DOMAIN requests
        BY <1>1
      <4>3. CASE PostIsLost(r, MailFailed(r))
        BY <2>3, <4>1, <4>2, <4>3 DEF PostIsLost, RequestMoves, MailFailed, Request
      <4>4. CASE RequestMoves(r, MailFailed(r))
        BY <2>3, <4>2, <4>4 DEF RequestMoves, MailFailed, Request
      <4>5. CASE RequestMoves(r, [requests[r] EXCEPT !.pc = "emit", !.email_sent = TRUE,
                                                     !.attempt = 1])
        BY <2>3, <4>2, <4>5 DEF RequestMoves, Request
      <4> QED
        BY <3>5, <4>3, <4>4, <4>5 DEF SendConfirmation, ConfirmationIsLost
    <3>6. CASE EmitMeetingScheduled(r) \/ RequestDies(r)
      BY <1>1, <2>3, <3>6 DEF EmitMeetingScheduled, RequestDies, RequestMoves, Request
    <3> QED
      BY <1>6, <3>1, <3>2, <3>3, <3>4, <3>5, <3>6 DEF Serve, Crash, RequestRuns
  <2> QED
    BY <2>2, <2>3, <2>4 DEF RequestsAreCurrent, At
<1>7. CASE UNCHANGED vars
  BY <1>2, <1>7 DEF vars
<1>8. ASSUME NEW c \in Calls, Answers(c)
      PROVE  RequestsAreCurrent'
  BY <1>2, <1>8, AnswersMove DEF google
<1> QED
  BY <1>3, <1>4, <1>5, <1>6, <1>7, <1>8 DEF Next

(* An insert that clashes was made for an offer that was marked: what an   *)
(* unmarked one would clash with would be in the connected calendar.       *)
LEMMA ClashIsMarked ==
  ASSUME TypeOK, Sound, OffersAreFree, RequestsAreCurrent, NEW r \in RequestIds,
         At(r, "insert"), Clashes(requests[r].account, requests[r].slot, r)
  PROVE  <<r[1], requests[r].slot>> \in stale
<1> SUFFICES ASSUME <<r[1], requests[r].slot>> \notin stale
             PROVE  FALSE
  OBVIOUS
<1>1. r[1] \in Calls /\ requests[r].slot \in offered[r[1]]
  BY DEF Sound, RequestSound, Known, At, RequestIds
<1>2. requests[r].account = credential
  BY DEF RequestsAreCurrent
<1>3. ~Overlaps(requests[r].slot, Calendar(credential))
  BY <1>1 DEF OffersAreFree, Found
<1> QED
  BY <1>2, <1>3 DEF Clashes, Overlaps, Calendar

(* Two meetings collide only when a slot was booked that had been taken    *)
(* since Google answered the look-up it came from, or whose calendar had   *)
(* been replaced since that look-up loaded the credential: for any number  *)
(* of callers, accounts, look-ups that fail and lost answers.              *)
THEOREM DoubleBookingsAreStale == Spec => DoubleBookingNeedsStaleOffer
<1>1. Init => OffersAreFree /\ RequestsAreCurrent
  BY DEF Init, AgentInit, ApiInit, OffersAreFree, RequestsAreCurrent, At, UnusedRequest,
         Found, Idle
<1>2. /\ TypeOK /\ Sound /\ OffersAreFree /\ RequestsAreCurrent /\ [Next]_vars
      => TypeOK' /\ Sound' /\ OffersAreFree' /\ RequestsAreCurrent'
  BY TypeStep, SoundStep, OffersStep, CurrentStep
<1>3. ASSUME TypeOK, Sound, OffersAreFree, RequestsAreCurrent, [Next]_vars
      PROVE  \A e \in events' \ events : e.clash => <<e.request[1], e.slot>> \in stale
  <2>1. ASSUME NEW r \in RequestIds, BookMeeting(r, Offers), NEW e \in events' \ events, e.clash
        PROVE  <<e.request[1], e.slot>> \in stale
    <3> DEFINE slot == requests[r].slot
               clash == Clashes(requests[r].account, slot, r)
    <3>1. At(r, "insert")
      BY <2>1 DEF BookMeeting
    <3>2. e = [account |-> requests[r].account, slot |-> slot, request |-> r,
               nth |-> requests[r].attempt, clash |-> clash]
      BY <2>1 DEF BookMeeting, InsertEvent
    <3> HIDE DEF clash
    <3>3. e.request = r /\ e.slot = slot /\ e.clash = clash
      BY <3>2
    <3>4. clash
      BY <2>1, <3>3
    <3> QED
      BY <1>3, <3>1, <3>3, <3>4, ClashIsMarked DEF clash
  <2>2. ASSUME ~\E r \in RequestIds : BookMeeting(r, Offers)
        PROVE  events' = events
    <3>1. CASE World \/ \E f \in Flows : Connect(f)
      BY <1>3, <3>1, OutsideMoves
    <3>2. ASSUME NEW c \in Calls, CallRuns(c)
          PROVE  events' = events
      BY <3>2 DEF CallRuns, Bootstrap, AskAvailability, ReadOut, LookUpFails, CaptureEmail,
                  ScheduleMeeting, ToolReturns, ToolTimesOut, SessionCloses, api
    <3>3. ASSUME NEW r \in RequestIds, Serve(r) \/ Crash(r)
          PROVE  events' = events
      BY <2>2, <3>3 DEF Serve, Crash, RequestRuns, LoadCredential, InsertIsLost, FindRecipient,
                        SendConfirmation, ConfirmationIsLost, EmitMeetingScheduled, RequestDies
    <3>4. CASE UNCHANGED vars
      BY <3>4 DEF vars
    <3>5. ASSUME NEW c \in Calls, Answers(c)
          PROVE  events' = events
      BY <1>3, <3>5, AnswersMove
    <3> QED
      BY <1>3, <3>1, <3>2, <3>3, <3>4, <3>5 DEF Next
  <2> QED
    BY <2>1, <2>2
<1> QED
  BY <1>1, <1>2, <1>3, InitIsSound, PTL DEF Spec, DoubleBookingNeedsStaleOffer

-----------------------------------------------------------------------------
(* How many meetings and confirmations there are too many.                 *)

(* The requests that have rows in a table, and how many rows there are     *)
(* beyond one for each of them.                                            *)
Asked(T) == {row.request : row \in T}
Surplus(T) == Cardinality(T) - Cardinality(Asked(T))

Started == {f \in Flows : flows[f].pc # "unused"}

(* Requests whose POST has taken effect and is to be made again, since its *)
(* answer was lost: a duplicate that is still to come and has been paid for.*)
Pending ==
  {r \in RequestIds : \/ At(r, "insert") /\ r \in Asked(events)
                      \/ At(r, "mail") /\ r \in Asked(mails)}

AllFinite ==
  /\ IsFiniteSet(events) /\ IsFiniteSet(Asked(events))
  /\ IsFiniteSet(mails) /\ IsFiniteSet(Asked(mails))
  /\ IsFiniteSet(blocks) /\ IsFiniteSet(Started)

RowsComeInOrder ==
  /\ \A e \in events : requests[e.request].pc \notin {"unused", "load"}
  /\ \A m \in mails : requests[m.request].pc \notin {"unused", "load", "insert", "recipient"}

Counted ==
  /\ AllFinite
  /\ RowsComeInOrder
  /\ Surplus(events) + Surplus(mails) + Cardinality(Pending) <= Lost

\* One more row of a table.
LEMMA OneMoreRow ==
  ASSUME NEW T, NEW row, IsFiniteSet(T), IsFiniteSet(Asked(T))
  PROVE  LET U == T \cup {row}
         IN  /\ IsFiniteSet(U) /\ IsFiniteSet(Asked(U))
             /\ Asked(U) = Asked(T) \cup {row.request}
             /\ Surplus(T) \in Int /\ Surplus(U) \in Int
             /\ row.request \notin Asked(T) => Surplus(U) <= Surplus(T)
             /\ Surplus(U) <= Surplus(T) + 1
<1> DEFINE U == T \cup {row}
           x == row.request
<1>1. Asked(U) = Asked(T) \cup {x}
  BY DEF Asked
<1>2. /\ IsFiniteSet(U) /\ IsFiniteSet(Asked(U))
      /\ Cardinality(U) = IF row \in T THEN Cardinality(T) ELSE Cardinality(T) + 1
      /\ Cardinality(Asked(U)) = IF x \in Asked(T) THEN Cardinality(Asked(T))
                                 ELSE Cardinality(Asked(T)) + 1
  BY <1>1, FS_AddElement
<1>3. /\ Cardinality(T) \in Nat /\ Cardinality(Asked(T)) \in Nat
      /\ Cardinality(U) \in Nat /\ Cardinality(Asked(U)) \in Nat
  BY <1>2, FS_CardinalityType
<1> HIDE DEF U, x
<1>4. Cardinality(U) <= Cardinality(T) + 1 /\ Cardinality(Asked(T)) <= Cardinality(Asked(U))
  BY <1>2, <1>3
<1>5. x \notin Asked(T) => Cardinality(Asked(U)) = Cardinality(Asked(T)) + 1
  BY <1>2
<1>6. /\ Surplus(T) = Cardinality(T) - Cardinality(Asked(T))
      /\ Surplus(U) = Cardinality(U) - Cardinality(Asked(U))
  BY DEF Surplus
<1>7. /\ Surplus(T) \in Int /\ Surplus(U) \in Int
      /\ x \notin Asked(T) => Surplus(U) <= Surplus(T)
      /\ Surplus(U) <= Surplus(T) + 1
  BY <1>3, <1>4, <1>5, <1>6
<1> QED
  BY <1>1, <1>2, <1>7 DEF U, x

(* The numbers that are compared.                                          *)
Numbers ==
  /\ Surplus(events) \in Int /\ Surplus(mails) \in Int
  /\ IsFiniteSet(Pending) /\ Cardinality(Pending) \in Nat
  /\ Cardinality(blocks) \in Nat /\ Cardinality(Started) \in Nat
  /\ calm \in Nat /\ Disturbances \in Nat
  /\ Lost = Disturbances - calm - Cardinality(blocks) - Cardinality(Started)
  /\ Lost \in Int

\* They are numbers.
LEMMA CountsAreNumbers == TypeOK /\ AllFinite => Numbers
<1> SUFFICES ASSUME TypeOK, AllFinite PROVE Numbers
  OBVIOUS
<1>1. /\ Cardinality(events) \in Nat /\ Cardinality(Asked(events)) \in Nat
      /\ Cardinality(mails) \in Nat /\ Cardinality(Asked(mails)) \in Nat
      /\ Cardinality(blocks) \in Nat /\ Cardinality(Started) \in Nat
  BY FS_CardinalityType DEF AllFinite
<1>2. IsFiniteSet(Pending)
  <2>1. IsFiniteSet(Asked(events) \cup Asked(mails))
    BY FS_Union DEF AllFinite
  <2>2. Pending \in SUBSET (Asked(events) \cup Asked(mails))
    BY DEF Pending
  <2> QED
    BY <2>1, <2>2, FS_Subset
<1>3. Cardinality(Pending) \in Nat
  BY <1>2, FS_CardinalityType
<1>4. calm \in Nat /\ Disturbances \in Nat
  BY GoogleAssumption DEF TypeOK, GoogleTypeOK
<1>5. Lost = Disturbances - calm - Cardinality(blocks) - Cardinality(Started)
  BY DEF Lost, Started
<1>6. Surplus(events) \in Int /\ Surplus(mails) \in Int
  BY <1>1 DEF Surplus
<1> QED
  BY <1>1, <1>2, <1>3, <1>4, <1>5, <1>6 DEF Numbers

-----------------------------------------------------------------------------
(* What a step of the request r may do to the count.  A row is only added  *)
(* at the place where the request is pending if it has one already; where  *)
(* the answer comes the request is pending no more, and where none comes a *)
(* disturbance is spent.                                                   *)
Accounted(r) ==
  /\ calm' = calm \/ calm' = calm - 1
  /\ \/ UNCHANGED <<events, mails>> /\ (calm' = calm => r \notin Pending')
     \/ /\ At(r, "insert")
        /\ mails' = mails
        /\ \E e \in events' : events' = events \cup {e} /\ e.request = r
        /\ calm' = calm => r \notin Pending'
     \/ /\ At(r, "mail")
        /\ events' = events
        /\ \E m \in mails' : mails' = mails \cup {m} /\ m.request = r
        /\ calm' = calm => r \notin Pending'

\* The other requests are as pending as they were.
LEMMA OthersStayPending ==
  ASSUME TypeOK, NEW r \in RequestIds,
         \A x \in RequestIds \ {r} : requests'[x] = requests[x],
         \A e \in events' \ events : e.request = r, events \subseteq events',
         \A m \in mails' \ mails : m.request = r, mails \subseteq mails'
  PROVE  Pending' \ {r} = Pending \ {r}
<1>1. \A x : x # r => (x \in Asked(events') <=> x \in Asked(events))
  BY DEF Asked
<1>2. \A x : x # r => (x \in Asked(mails') <=> x \in Asked(mails))
  BY DEF Asked
<1>3. \A x \in RequestIds \ {r} :
        /\ At(x, "insert")' <=> At(x, "insert")
        /\ At(x, "mail")' <=> At(x, "mail")
  BY DEF At
<1>4. Asked(events)' = Asked(events') /\ Asked(mails)' = Asked(mails')
  BY DEF Asked
<1>5. \A x \in RequestIds \ {r} : x \in Pending' <=> x \in Pending
  BY <1>1, <1>2, <1>3, <1>4 DEF Pending
<1>6. Pending \subseteq RequestIds /\ Pending' \subseteq RequestIds
  BY DEF Pending
<1> QED
  BY <1>5, <1>6

\* A step that is accounted for keeps the count.
LEMMA AccountedKeeps ==
  ASSUME TypeOK, Counted, TypeOK', NEW r \in RequestIds, Accounted(r),
         \A x \in RequestIds \ {r} : requests'[x] = requests[x],
         UNCHANGED <<blocks, flows>>
  PROVE  /\ AllFinite'
         /\ (Surplus(events) + Surplus(mails) + Cardinality(Pending) <= Lost)'
<1>1. AllFinite
  BY DEF Counted
<1>2. /\ blocks' = blocks /\ Started' = Started
  BY DEF Started
<1>3. \/ UNCHANGED <<events, mails>> /\ (calm' = calm => r \notin Pending')
      \/ /\ At(r, "insert") /\ mails' = mails
         /\ \E e \in events' : events' = events \cup {e} /\ e.request = r
         /\ calm' = calm => r \notin Pending'
      \/ /\ At(r, "mail") /\ events' = events
         /\ \E m \in mails' : mails' = mails \cup {m} /\ m.request = r
         /\ calm' = calm => r \notin Pending'
  BY DEF Accounted
<1>4. Pending' \ {r} = Pending \ {r}
  <2>1. /\ \A e \in events' \ events : e.request = r
        /\ events \subseteq events'
        /\ \A m \in mails' \ mails : m.request = r
        /\ mails \subseteq mails'
    BY <1>3
  <2> QED
    BY <2>1, OthersStayPending
<1>5. AllFinite'
  <2>1. CASE UNCHANGED <<events, mails>>
    BY <1>1, <1>2, <2>1 DEF AllFinite, Asked
  <2>2. ASSUME NEW e, events' = events \cup {e}, mails' = mails
        PROVE  AllFinite'
    <3>1. IsFiniteSet(events \cup {e}) /\ IsFiniteSet(Asked(events \cup {e}))
      BY <1>1, OneMoreRow DEF AllFinite
    <3> QED
      BY <1>1, <1>2, <2>2, <3>1 DEF AllFinite, Asked
  <2>3. ASSUME NEW m, mails' = mails \cup {m}, events' = events
        PROVE  AllFinite'
    <3>1. IsFiniteSet(mails \cup {m}) /\ IsFiniteSet(Asked(mails \cup {m}))
      BY <1>1, OneMoreRow DEF AllFinite
    <3> QED
      BY <1>1, <1>2, <2>3, <3>1 DEF AllFinite, Asked
  <2> QED
    BY <1>3, <2>1, <2>2, <2>3
<1> DEFINE before == IF r \in Pending THEN 1 ELSE 0
           after == IF r \in Pending' THEN 1 ELSE 0
           spent == calm - calm'
           grown == Surplus(events)' + Surplus(mails)' - Surplus(events) - Surplus(mails)
<1>6. /\ Surplus(events) \in Int /\ Surplus(mails) \in Int
      /\ Surplus(events)' \in Int /\ Surplus(mails)' \in Int
      /\ IsFiniteSet(Pending) /\ IsFiniteSet(Pending')
      /\ Cardinality(Pending) \in Nat /\ Cardinality(Pending') \in Nat
      /\ calm \in Nat /\ calm' \in Nat
      /\ Lost \in Int /\ Lost' = Lost + spent
  <2>1. Numbers
    BY <1>1, CountsAreNumbers
  <2>2. Numbers'
    BY <1>5, CountsAreNumbers, PTL
  <2> QED
    BY <1>2, <2>1, <2>2 DEF Numbers
<1>7. Cardinality(Pending') = Cardinality(Pending) - before + after
  <2>1. /\ Cardinality(Pending \ {r}) = Cardinality(Pending) - before
        /\ Cardinality(Pending' \ {r}) = Cardinality(Pending') - after
    BY <1>6, FS_RemoveElement
  <2>2. before \in Int /\ after \in Int
    OBVIOUS
  <2>3. Cardinality(Pending \ {r}) = Cardinality(Pending' \ {r})
    BY <1>4
  <2>4. Cardinality(Pending) \in Nat /\ Cardinality(Pending') \in Nat
    BY <1>6
  <2> HIDE DEF before, after
  <2> QED
    BY <2>1, <2>2, <2>3, <2>4
<1>8. grown <= before /\ grown <= 1 /\ grown \in Int
  <2>1. CASE UNCHANGED <<events, mails>>
    <3>1. Surplus(events)' = Surplus(events) /\ Surplus(mails)' = Surplus(mails)
      BY <2>1 DEF Surplus, Asked
    <3> QED
      BY <1>6, <3>1
  <2>2. ASSUME NEW e, events' = events \cup {e}, e.request = r, mails' = mails, At(r, "insert")
        PROVE  grown <= before /\ grown <= 1
    <3>1. /\ r \notin Asked(events) => Surplus(events \cup {e}) <= Surplus(events)
          /\ Surplus(events \cup {e}) <= Surplus(events) + 1
      BY <1>1, <2>2, OneMoreRow DEF AllFinite
    <3>2. Surplus(events)' = Surplus(events \cup {e}) /\ Surplus(mails)' = Surplus(mails)
      BY <2>2 DEF Surplus, Asked
    <3>3. r \in Asked(events) => r \in Pending
      BY <2>2 DEF Pending
    <3> QED
      BY <1>6, <3>1, <3>2, <3>3
  <2>3. ASSUME NEW m, mails' = mails \cup {m}, m.request = r, events' = events, At(r, "mail")
        PROVE  grown <= before /\ grown <= 1
    <3>1. /\ r \notin Asked(mails) => Surplus(mails \cup {m}) <= Surplus(mails)
          /\ Surplus(mails \cup {m}) <= Surplus(mails) + 1
      BY <1>1, <2>3, OneMoreRow DEF AllFinite
    <3>2. Surplus(mails)' = Surplus(mails \cup {m}) /\ Surplus(events)' = Surplus(events)
      BY <2>3 DEF Surplus, Asked
    <3>3. r \in Asked(mails) => r \in Pending
      BY <2>3 DEF Pending
    <3> QED
      BY <1>6, <3>1, <3>2, <3>3
  <2> QED
    BY <1>3, <1>6, <2>1, <2>2, <2>3
<1>9. after <= spent /\ after \in Int /\ before \in Int /\ spent \in Int
  <2>1. calm' = calm => r \notin Pending'
    BY <1>3
  <2>2. calm' = calm \/ calm' = calm - 1
    BY DEF Accounted
  <2>3. /\ after = 0 \/ after = 1
        /\ before = 0 \/ before = 1
        /\ r \notin Pending' => after = 0
    OBVIOUS
  <2>4. calm \in Nat /\ calm' \in Nat
    BY <1>6
  <2> HIDE DEF after, before
  <2>5. CASE calm' = calm
    <3>1. after = 0 /\ calm - calm' = 0
      BY <2>1, <2>3, <2>4, <2>5
    <3> QED
      BY <2>3, <3>1
  <2>6. CASE calm' = calm - 1
    <3>1. calm - calm' = 1
      BY <2>4, <2>6
    <3> QED
      BY <2>3, <3>1
  <2> QED
    BY <2>2, <2>5, <2>6
<1>10. Surplus(events) + Surplus(mails) + Cardinality(Pending) <= Lost
  BY DEF Counted
<1>11. grown + Surplus(events) + Surplus(mails) = Surplus(events)' + Surplus(mails)'
  BY <1>6
<1> HIDE DEF before, after, spent, grown
<1>12. grown + after <= before + spent
  BY <1>8, <1>9
<1>13. Surplus(events)' + Surplus(mails)' + Cardinality(Pending') <= Lost'
  BY <1>6, <1>7, <1>8, <1>9, <1>10, <1>11, <1>12
<1> QED
  BY <1>5, <1>13

-----------------------------------------------------------------------------
(* A request moves on: nothing brings it back to where it was loaded, and  *)
(* once it may mail it does not insert.                                    *)
MovesOn(r) ==
  \E q : /\ requests' = [requests EXCEPT ![r] = q]
         /\ q.pc \notin {"unused", "load"}
         /\ q.pc \in {"insert", "recipient"} => requests[r].pc \in {"load", "insert"}

\* Where it moves to.
LEMMA MovesTo ==
  ASSUME NEW r \in RequestIds, NEW q, requests' = [requests EXCEPT ![r] = q],
         \/ q.pc \in {"emit", "failed"}
         \/ q.pc = requests[r].pc /\ q.pc \in {"insert", "mail"}
  PROVE  MovesOn(r)
<1>1. q.pc \notin {"unused", "load"}
  OBVIOUS
<1>2. q.pc \in {"insert", "recipient"} => requests[r].pc \in {"load", "insert"}
  OBVIOUS
<1> QED
  BY <1>1, <1>2, Zenon DEF MovesOn

\* A POST is not acknowledged.
LEMMA LostPostMovesOn ==
  ASSUME TypeOK, NEW r \in RequestIds, NEW raised, PostIsLost(r, raised),
         requests[r].pc \in {"insert", "mail"}, raised.pc \in {"emit", "failed"}
  PROVE  MovesOn(r) /\ calm' = calm - 1
<1>1. requests[r] \in Request
  BY DEF TypeOK, ApiTypeOK
<1>2. calm' = calm - 1
  BY DEF PostIsLost, Disturbed
<1>3. CASE requests' = [requests EXCEPT ![r] = raised]
  BY <1>2, <1>3, MovesTo
<1>4. CASE requests' = [requests EXCEPT ![r] = [requests[r] EXCEPT !.attempt = @ + 1]]
  <2> DEFINE q == [requests[r] EXCEPT !.attempt = @ + 1]
  <2>1. q.pc = requests[r].pc
    BY <1>1 DEF Request
  <2> HIDE DEF q
  <2> QED
    BY <1>2, <1>4, <2>1, MovesTo DEF q
<1> QED
  BY <1>2, <1>3, <1>4 DEF PostIsLost, RequestMoves

\* Where a request has got to, and whether it is pending there.
LEMMA NotPending ==
  ASSUME NEW r \in RequestIds,
         \/ requests'[r].pc \notin {"insert", "mail"}
         \/ requests'[r].pc = "insert" /\ r \notin Asked(events')
         \/ requests'[r].pc = "mail" /\ r \notin Asked(mails')
  PROVE  r \notin Pending'
<1>1. Asked(events)' = Asked(events') /\ Asked(mails)' = Asked(mails')
  BY DEF Asked
<1> QED
  BY <1>1 DEF Pending, At

\* A request goes on without a row.
LEMMA NoRowCounts ==
  ASSUME TypeOK, RowsComeInOrder, NEW r \in RequestIds,
         LoadCredential(r) \/ FindRecipient(r)
  PROVE  Accounted(r) /\ MovesOn(r)
<1> DEFINE q0 == requests[r]
<1>1. q0 \in Request /\ requests \in [RequestIds -> Request]
  BY DEF TypeOK, ApiTypeOK
<1>2. UNCHANGED <<events, mails, calm>>
  BY DEF LoadCredential, FindRecipient
<1>3. CASE LoadCredential(r)
  <2>1. PICK q \in {[q0 EXCEPT !.pc = "answered"],
                    [q0 EXCEPT !.pc = "insert", !.account = credential]} :
          requests' = [requests EXCEPT ![r] = q]
    BY <1>3 DEF LoadCredential, RequestMoves
  <2>2. q.pc \in {"answered", "insert"} /\ q0.pc = "load"
    BY <1>1, <1>3, <2>1 DEF Request, LoadCredential, At
  <2>3. requests'[r] = q
    BY <1>1, <2>1
  <2>4. r \notin Asked(events')
    BY <1>2, <2>2 DEF RowsComeInOrder, Asked
  <2>5. r \notin Pending'
    BY <2>2, <2>3, <2>4, NotPending
  <2> QED
    BY <1>2, <2>1, <2>2, <2>5 DEF Accounted, MovesOn
<1>4. CASE FindRecipient(r)
  <2>1. PICK q \in {[q0 EXCEPT !.pc = "emit"],
                    [q0 EXCEPT !.pc = "mail", !.account = credential]} :
          requests' = [requests EXCEPT ![r] = q]
    BY <1>4 DEF FindRecipient, RequestMoves
  <2>2. q.pc \in {"emit", "mail"} /\ q0.pc = "recipient"
    BY <1>1, <1>4, <2>1 DEF Request, FindRecipient, At
  <2>3. requests'[r] = q
    BY <1>1, <2>1
  <2>4. r \notin Asked(mails')
    BY <1>2, <2>2 DEF RowsComeInOrder, Asked
  <2>5. r \notin Pending'
    BY <2>2, <2>3, <2>4, NotPending
  <2> QED
    BY <1>2, <2>1, <2>2, <2>5 DEF Accounted, MovesOn
<1> QED
  BY <1>3, <1>4

\* An event is inserted, or is not.
LEMMA InsertCounts ==
  ASSUME TypeOK, NEW r \in RequestIds, BookMeeting(r, Offers) \/ InsertIsLost(r)
  PROVE  Accounted(r) /\ MovesOn(r)
<1> DEFINE q0 == requests[r]
<1>1. q0 \in Request /\ requests \in [RequestIds -> Request] /\ calm \in Nat
  BY DEF TypeOK, ApiTypeOK, GoogleTypeOK
<1>2. q0.pc = "insert" /\ At(r, "insert")
  BY DEF BookMeeting, InsertIsLost, At
<1>3. InsertFailed(r).pc = "failed" /\ InsertAnswered(r).pc = "recipient"
  BY <1>1 DEF InsertFailed, InsertAnswered, Request
<1>4. ASSUME PostIsLost(r, InsertFailed(r))
      PROVE  MovesOn(r) /\ calm' = calm - 1 /\ calm' # calm
  BY <1>1, <1>2, <1>3, <1>4, LostPostMovesOn
<1>5. CASE InsertIsLost(r)
  BY <1>4, <1>5 DEF InsertIsLost, Accounted
<1>6. CASE BookMeeting(r, Offers)
  <2> DEFINE e0 == [account |-> q0.account, slot |-> q0.slot, request |-> r,
                    nth |-> q0.attempt, clash |-> Clashes(q0.account, q0.slot, r)]
  <2>1. events' = events \cup {e0} /\ mails' = mails
    BY <1>6 DEF BookMeeting, InsertEvent
  <2>2. e0.request = r
    OBVIOUS
  <2> HIDE DEF e0
  <2>3. \E e \in events' : events' = events \cup {e} /\ e.request = r
    BY <2>1, <2>2
  <2>4. CASE RequestMoves(r, InsertAnswered(r)) /\ UNCHANGED calm
    <3>1. requests'[r] = InsertAnswered(r)
      BY <1>1, <2>4 DEF RequestMoves
    <3>2. r \notin Pending'
      BY <1>3, <3>1, NotPending
    <3>3. MovesOn(r)
      BY <1>2, <1>3, <2>4 DEF MovesOn, RequestMoves
    <3> QED
      BY <1>2, <2>1, <2>3, <2>4, <3>2, <3>3 DEF Accounted
  <2>5. CASE PostIsLost(r, InsertFailed(r))
    BY <1>2, <1>4, <2>1, <2>3, <2>5 DEF Accounted
  <2> QED
    BY <1>6, <2>4, <2>5 DEF BookMeeting
<1> QED
  BY <1>5, <1>6

\* A confirmation is sent, or is not.
LEMMA MailCounts ==
  ASSUME TypeOK, NEW r \in RequestIds, SendConfirmation(r) \/ ConfirmationIsLost(r)
  PROVE  Accounted(r) /\ MovesOn(r)
<1> DEFINE q0 == requests[r]
<1>1. q0 \in Request /\ requests \in [RequestIds -> Request] /\ calm \in Nat
  BY DEF TypeOK, ApiTypeOK, GoogleTypeOK
<1>2. q0.pc = "mail" /\ At(r, "mail")
  BY DEF SendConfirmation, ConfirmationIsLost, At
<1>3. MailFailed(r).pc = "emit"
  BY <1>1 DEF MailFailed, Request
<1>4. ASSUME PostIsLost(r, MailFailed(r)) \/ (Disturbed /\ RequestMoves(r, MailFailed(r)))
      PROVE  MovesOn(r) /\ calm' = calm - 1 /\ calm' # calm
  <2>1. CASE PostIsLost(r, MailFailed(r))
    BY <1>1, <1>2, <1>3, <2>1, LostPostMovesOn
  <2>2. CASE Disturbed /\ RequestMoves(r, MailFailed(r))
    <3>1. requests' = [requests EXCEPT ![r] = MailFailed(r)] /\ calm' = calm - 1
      BY <2>2 DEF Disturbed, RequestMoves
    <3> QED
      <4>1. MovesOn(r)
        BY <1>3, <3>1, MovesTo
      <4> QED
        BY <1>1, <3>1, <4>1
  <2> QED
    BY <1>4, <2>1, <2>2
<1>5. CASE ConfirmationIsLost(r)
  BY <1>4, <1>5 DEF ConfirmationIsLost, Accounted
<1>6. CASE SendConfirmation(r)
  <2> DEFINE m0 == [to |-> Recipient(r), account |-> q0.account, request |-> r,
                    nth |-> q0.attempt]
             q == [q0 EXCEPT !.pc = "emit", !.email_sent = TRUE, !.attempt = 1]
  <2>1. mails' = mails \cup {m0} /\ events' = events
    BY <1>6 DEF SendConfirmation, SendGmail
  <2>2. m0.request = r /\ q.pc = "emit"
    BY <1>1 DEF Request
  <2> HIDE DEF m0
  <2>3. \E m \in mails' : mails' = mails \cup {m} /\ m.request = r
    BY <2>1, <2>2
  <2>4. CASE RequestMoves(r, q) /\ UNCHANGED calm
    <3> HIDE DEF q
    <3>1. requests'[r] = q
      BY <1>1, <2>4 DEF RequestMoves
    <3>2. r \notin Pending'
      BY <2>2, <3>1, NotPending
    <3>3. MovesOn(r)
      BY <2>2, <2>4 DEF MovesOn, RequestMoves
    <3> QED
      BY <1>2, <2>1, <2>3, <2>4, <3>2, <3>3 DEF Accounted
  <2>5. CASE PostIsLost(r, MailFailed(r))
    BY <1>2, <1>4, <2>1, <2>3, <2>5 DEF Accounted
  <2> QED
    BY <1>6, <2>4, <2>5 DEF SendConfirmation
<1> QED
  BY <1>5, <1>6

\* A request ends.
LEMMA EndCounts ==
  ASSUME TypeOK, NEW r \in RequestIds, EmitMeetingScheduled(r) \/ RequestDies(r)
  PROVE  Accounted(r) /\ MovesOn(r)
<1>1. requests[r] \in Request /\ requests \in [RequestIds -> Request]
  BY DEF TypeOK, ApiTypeOK
<1>2. PICK q \in {[requests[r] EXCEPT !.pc = "answered"], [requests[r] EXCEPT !.pc = "failed"]} :
        requests' = [requests EXCEPT ![r] = q]
  BY DEF EmitMeetingScheduled, RequestDies, RequestMoves
<1>3. q.pc \in {"answered", "failed"} /\ requests'[r] = q
  BY <1>1, <1>2 DEF Request
<1>4. r \notin Pending'
  BY <1>3, NotPending
<1>5. UNCHANGED <<events, mails>> /\ (calm' = calm \/ calm' = calm - 1)
  BY DEF EmitMeetingScheduled, RequestDies, Disturbed
<1> QED
  BY <1>2, <1>3, <1>4, <1>5 DEF Accounted, MovesOn

\* Every step of a request keeps the count.
LEMMA RequestsCount ==
  ASSUME TypeOK, Sound, Counted, TypeOK', NEW r \in RequestIds, Serve(r) \/ Crash(r)
  PROVE  Counted'
<1>1. RowsComeInOrder
  BY DEF Counted
<1>2. Accounted(r) /\ MovesOn(r)
  BY <1>1, NoRowCounts, InsertCounts, MailCounts, EndCounts DEF Serve, Crash, RequestRuns
<1>3. UNCHANGED <<blocks, flows>>
  BY RequestsMove DEF WorldEffect, google
<1>4. PICK q : /\ requests' = [requests EXCEPT ![r] = q]
               /\ q.pc \notin {"unused", "load"}
               /\ q.pc \in {"insert", "recipient"} => requests[r].pc \in {"load", "insert"}
  BY <1>2 DEF MovesOn
<1>5. requests'[r] = q /\ \A x \in RequestIds \ {r} : requests'[x] = requests[x]
  BY <1>4 DEF TypeOK, ApiTypeOK
<1>6. RowsComeInOrder'
  <2>1. ASSUME NEW e \in events'
        PROVE  requests'[e.request].pc \notin {"unused", "load"}
    <3>1. e \in events \/ e.request = r
      BY <1>2 DEF Accounted
    <3>2. e \in events => e.request \in RequestIds
      BY DEF TypeOK, GoogleTypeOK, Event
    <3> QED
      BY <1>1, <1>4, <1>5, <3>1, <3>2 DEF RowsComeInOrder
  <2>2. ASSUME NEW m \in mails'
        PROVE  requests'[m.request].pc \notin {"unused", "load", "insert", "recipient"}
    <3>1. m \in mails \/ (m.request = r /\ requests[r].pc = "mail")
      BY <1>2 DEF Accounted, At
    <3>2. m \in mails => m.request \in RequestIds
      BY DEF TypeOK, GoogleTypeOK, Mail
    <3> QED
      BY <1>1, <1>4, <1>5, <3>1, <3>2 DEF RowsComeInOrder
  <2> QED
    BY <2>1, <2>2 DEF RowsComeInOrder
<1> QED
  BY <1>2, <1>3, <1>5, <1>6, AccountedKeeps DEF Counted

-----------------------------------------------------------------------------
(* Everyone else.                                                          *)

\* A step that touches no row and leaves every request as pending as it was.
LEMMA QuietKeepsCount ==
  ASSUME TypeOK, Counted, TypeOK', UNCHANGED <<events, mails>>,
         Pending' = Pending, RowsComeInOrder',
         IsFiniteSet(blocks'), IsFiniteSet(Started'), Lost <= Lost'
  PROVE  Counted'
<1>1. AllFinite'
  BY DEF Counted, AllFinite, Asked
<1>2. Numbers /\ Numbers'
  <2>1. Numbers
    BY CountsAreNumbers DEF Counted
  <2>2. Numbers'
    BY <1>1, CountsAreNumbers, PTL
  <2> QED
    BY <2>1, <2>2
<1>3. Surplus(events)' = Surplus(events) /\ Surplus(mails)' = Surplus(mails)
  BY DEF Surplus, Asked
<1>4. Surplus(events) + Surplus(mails) + Cardinality(Pending) <= Lost
  BY DEF Counted
<1>5. Surplus(events)' + Surplus(mails)' + Cardinality(Pending') <= Lost'
  BY <1>2, <1>3, <1>4 DEF Numbers
<1> QED
  BY <1>1, <1>5 DEF Counted

\* Without a change to requests and rows there is none to what is pending.
LEMMA SameRequests ==
  ASSUME UNCHANGED <<events, mails, requests>>
  PROVE  /\ Pending' = Pending
         /\ RowsComeInOrder => RowsComeInOrder'
BY DEF Pending, At, Asked, RowsComeInOrder

\* An owner's entry and an OAuth attempt have been paid for.
LEMMA OutsideCounts ==
  ASSUME TypeOK, Counted, TypeOK', World \/ \E f \in Flows : Connect(f)
  PROVE  Counted'
<1>1. UNCHANGED <<events, mails, requests>>
  BY OutsideMoves
<1>2. AllFinite /\ RowsComeInOrder
  BY DEF Counted
<1>3. Numbers
  BY <1>2, CountsAreNumbers
<1>4. Lost' = Disturbances - calm' - Cardinality(blocks') - Cardinality(Started')
  BY DEF Lost, Started
<1>5. calm' \in Nat
  BY DEF TypeOK, GoogleTypeOK
<1>6. CASE World
  <2>1. PICK x : blocks' = blocks \cup {x} /\ calm' = calm - 1 /\ flows' = flows
    BY <1>6 DEF World, OwnerBlocks, Disturbed
  <2>2. IsFiniteSet(blocks') /\ Cardinality(blocks') <= Cardinality(blocks) + 1
    <3>1. IsFiniteSet(blocks) /\ Cardinality(blocks) \in Nat
      BY <1>2, <1>3 DEF AllFinite, Numbers
    <3>2. /\ IsFiniteSet(blocks \cup {x})
          /\ Cardinality(blocks \cup {x}) =
               IF x \in blocks THEN Cardinality(blocks) ELSE Cardinality(blocks) + 1
      BY <3>1, FS_AddElement
    <3> QED
      BY <2>1, <3>1, <3>2
  <2>3. Started' = Started
    BY <2>1 DEF Started
  <2>4. Cardinality(blocks') \in Nat
    BY <2>2, FS_CardinalityType
  <2>5. Lost <= Lost'
    BY <1>3, <1>4, <1>5, <2>1, <2>2, <2>3, <2>4 DEF Numbers
  <2> QED
    BY <1>1, <1>2, <2>2, <2>3, <2>5, SameRequests, QuietKeepsCount DEF AllFinite
<1>7. ASSUME NEW f \in Flows, Connect(f)
      PROVE  Counted'
  <2>1. blocks' = blocks /\ flows \in [Flows -> Flow]
    BY <1>7 DEF Connect, StartGoogleConnect, CallbackEndsInError, StoreFails, ExchangeCode,
                StoreCredential, TypeOK, GoogleTypeOK
  <2>2. CASE StartGoogleConnect(f)
    <3>1. Started' = Started \cup {f} /\ calm' = calm - 1
      BY <2>1, <2>2 DEF StartGoogleConnect, Disturbed, Started, Flow
    <3>2. IsFiniteSet(Started') /\ Cardinality(Started') <= Cardinality(Started) + 1
      <4>1. IsFiniteSet(Started) /\ Cardinality(Started) \in Nat
        BY <1>2, <1>3 DEF AllFinite, Numbers
      <4> QED
        BY <3>1, <4>1, FS_AddElement
    <3>3. Cardinality(Started') \in Nat
      BY <3>2, FS_CardinalityType
    <3>4. Lost <= Lost'
      BY <1>3, <1>4, <1>5, <2>1, <3>1, <3>2, <3>3 DEF Numbers
    <3> QED
      BY <1>1, <1>2, <2>1, <3>2, <3>4, SameRequests, QuietKeepsCount DEF AllFinite
  <2>3. CASE ~StartGoogleConnect(f)
    <3>1. Started' = Started
      <4>1. flows[f].pc \in {"consent", "store"}
        BY <1>7, <2>3 DEF Connect, CallbackEndsInError, StoreFails, ExchangeCode, StoreCredential
      <4>2. \A g \in Flows \ {f} : flows'[g] = flows[g]
        BY <1>7, <2>1, <2>3
           DEF Connect, CallbackEndsInError, StoreFails, ExchangeCode, StoreCredential
      <4>3. flows'[f].pc \in {"error", "store", "connected"}
        BY <1>7, <2>1, <2>3
           DEF Connect, CallbackEndsInError, StoreFails, ExchangeCode, StoreCredential, Flow
      <4> QED
        BY <4>1, <4>2, <4>3 DEF Started
    <3>2. calm' \in {calm, calm - 1}
      BY <1>7, <2>3 DEF Connect, CallbackEndsInError, StoreFails, ExchangeCode, StoreCredential,
                        Disturbed
    <3>3. Lost <= Lost'
      BY <1>3, <1>4, <1>5, <2>1, <3>1, <3>2 DEF Numbers
    <3> QED
      BY <1>1, <1>2, <2>1, <3>1, <3>3, SameRequests, QuietKeepsCount DEF AllFinite
  <2> QED
    BY <2>2, <2>3
<1> QED
  BY <1>6, <1>7

\* The agents touch no row, and the requests they open have none.
LEMMA AgentsCount ==
  ASSUME TypeOK, Sound, Counted, TypeOK', NEW c \in Calls, CallRuns(c)
  PROVE  Counted'
<1>1. AllFinite /\ RowsComeInOrder /\ Numbers
  BY CountsAreNumbers DEF Counted
<1>2. UNCHANGED <<events, mails, blocks, flows>>
  BY DEF CallRuns, Bootstrap, AskAvailability, ReadOut, LookUpFails, CaptureEmail,
         ScheduleMeeting, ToolReturns, ToolTimesOut, SessionCloses, api, google
<1>3. calm' \in {calm, calm - 1}
  BY DEF CallRuns, Bootstrap, AskAvailability, ReadOut, LookUpFails, CaptureEmail,
         ScheduleMeeting, ToolReturns, ToolTimesOut, SessionCloses, Disturbed
<1>4. IsFiniteSet(blocks') /\ IsFiniteSet(Started') /\ Lost <= Lost'
  <2>1. Started' = Started
    BY <1>2 DEF Started
  <2>2. Lost' = Disturbances - calm' - Cardinality(blocks') - Cardinality(Started')
    BY DEF Lost, Started
  <2> QED
    BY <1>1, <1>2, <1>3, <2>1, <2>2 DEF AllFinite, Numbers
<1>5. Pending' = Pending /\ RowsComeInOrder'
  <2>1. CASE \E slot \in offered[c] : ScheduleMeeting(c, slot)
    <3>1. PICK slot \in offered[c] : ScheduleMeeting(c, slot)
      BY <2>1
    <3>2. PICK n \in 1 .. MaxRequests :
            /\ ~Known(<<c, n>>) /\ <<c, n>> \in RequestIds
            /\ requests' = [requests EXCEPT ![<<c, n>>] = NewRequest(slot, calls[c].email)]
      BY <3>1, MeetingIsRequested
    <3> DEFINE r == <<c, n>>
    <3>3. /\ requests[r].pc = "unused" /\ requests'[r] = NewRequest(slot, calls[c].email)
          /\ r \in RequestIds
          /\ \A x \in RequestIds \ {r} : requests'[x] = requests[x]
      BY <3>2 DEF Known, At, TypeOK, ApiTypeOK
    <3>4. requests'[r].pc = "load"
      BY <3>3 DEF NewRequest, UnusedRequest
    <3> HIDE DEF r
    <3>5. r \notin Pending /\ r \notin Pending'
      BY <3>3, <3>4 DEF Pending, At
    <3>6. Pending' \ {r} = Pending \ {r}
      BY <1>2, <3>3, OthersStayPending
    <3>7. RowsComeInOrder'
      <4>1. /\ \A e \in events : e.request \in RequestIds
            /\ \A m \in mails : m.request \in RequestIds
        BY DEF TypeOK, GoogleTypeOK, Event, Mail
      <4> QED
        BY <1>1, <1>2, <3>3, <4>1 DEF RowsComeInOrder
    <3> QED
      BY <3>5, <3>6, <3>7
  <2>2. CASE ~\E slot \in offered[c] : ScheduleMeeting(c, slot)
    <3>1. UNCHANGED requests
      BY <2>2 DEF CallRuns, Bootstrap, AskAvailability, ReadOut, LookUpFails, CaptureEmail,
                  ToolReturns, ToolTimesOut, SessionCloses, api
    <3> QED
      BY <1>1, <1>2, <3>1, SameRequests
  <2> QED
    BY <2>1, <2>2
<1> QED
  BY <1>2, <1>4, <1>5, QuietKeepsCount

\* Every step keeps the count.
LEMMA CountedStep ==
  ASSUME TypeOK, Sound, Counted, [Next]_vars, TypeOK'
  PROVE  Counted'
<1>1. CASE UNCHANGED vars
  BY <1>1 DEF vars, Counted, AllFinite, RowsComeInOrder, Asked, Started, Surplus, Pending, At, Lost
<1>2. ASSUME NEW c \in Calls, Answers(c)
      PROVE  Counted'
  <2>1. UNCHANGED <<flows, blocks, events, mails, calm, requests>>
    BY <1>2, AnswersMove DEF google
  <2> QED
    BY <2>1 DEF Counted, AllFinite, RowsComeInOrder, Asked, Started, Surplus, Pending, At, Lost
<1>3. CASE Next
  BY <1>2, <1>3, OutsideCounts, AgentsCount, RequestsCount DEF Next
<1> QED
  BY <1>1, <1>3

\* Nothing has been counted at first.
LEMMA CountedInit == Init => Counted
<1> SUFFICES ASSUME Init PROVE Counted
  OBVIOUS
<1>1. events = {} /\ mails = {} /\ blocks = {} /\ calm = Disturbances
  BY DEF Init, GoogleInit
<1>2. Asked(events) = {} /\ Asked(mails) = {}
  BY <1>1 DEF Asked
<1>3. Started = {}
  BY DEF Init, GoogleInit, Started
<1>4. Pending = {}
  BY <1>2 DEF Pending
<1>5. IsFiniteSet({}) /\ Cardinality({}) = 0
  BY FS_EmptySet
<1>6. AllFinite /\ RowsComeInOrder
  BY <1>1, <1>2, <1>3, <1>5 DEF AllFinite, RowsComeInOrder
<1>7. Surplus(events) = 0 /\ Surplus(mails) = 0
  BY <1>1, <1>2, <1>5 DEF Surplus
<1>8. Lost = 0
  <2>1. Lost = Disturbances - calm - Cardinality(blocks) - Cardinality(Started)
    BY DEF Lost, Started
  <2> QED
    BY <1>1, <1>3, <1>5, <2>1, GoogleAssumption
<1> QED
  BY <1>4, <1>5, <1>6, <1>7, <1>8 DEF Counted

(* A request is written into the calendar, and its confirmation mailed,    *)
(* once, plus once for each answer of Google's that was lost: the retries  *)
(* of google_client.py are the only source of duplicates, for any number   *)
(* of calls, requests, attempts and disturbances.                          *)
THEOREM DuplicatesArePaidFor == Spec => []DuplicatesAreLostAnswers
<1>1. TypeOK /\ Sound /\ Counted /\ [Next]_vars => TypeOK' /\ Sound' /\ Counted'
  BY TypeStep, SoundStep, CountedStep
<1>2. TypeOK /\ Counted => DuplicatesAreLostAnswers
  <2> SUFFICES ASSUME TypeOK, Counted PROVE DuplicatesAreLostAnswers
    OBVIOUS
  <2>1. Numbers
    BY CountsAreNumbers DEF Counted
  <2>2. Surplus(events) + Surplus(mails) <= Lost
    BY <2>1 DEF Counted, Numbers
  <2> QED
    BY <2>2 DEF DuplicatesAreLostAnswers, Surplus, Asked
<1> QED
  BY <1>1, <1>2, InitIsSound, CountedInit, PTL DEF Spec
=============================================================================
