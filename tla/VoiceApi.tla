------------------------------ MODULE VoiceApi ------------------------------
(***************************************************************************)
(* The endpoints through which the voice agent books a meeting             *)
(* (app/api/routers/voice.py with app/services/calendar.py and             *)
(* app/services/email.py).  A request books the event, mails the           *)
(* confirmation and re-enters the contact's loop, in this order.  It runs  *)
(* to its end even when the agent has stopped waiting for it.  A look-up   *)
(* loads the credential, asks Google and answers, a step each.             *)
(***************************************************************************)
EXTENDS GoogleAccount

CONSTANTS
  TODAY,         \* weekday of the run, Monday = 0
  NoAddress,
  EmailOnFile    \* contacts.email of each caller

ASSUME ApiAssumption ==
  /\ TODAY \in 0 .. 6
  /\ NoAddress \notin Addresses
  /\ EmailOnFile \in [Calls -> Addresses \cup {NoAddress}]

VARIABLES
  requests,   \* POST /internal/voice/schedule-meeting, by call and number
  followups,  \* requests whose meeting_scheduled signal went out
  lookups     \* POST /internal/voice/availability, one at a time in a call

NoSlot == <<0, 0>>

RequestPc == {"unused", "load", "insert", "recipient", "mail", "emit", "answered", "failed"}
Request == [pc: RequestPc, slot: Intervals \cup {NoSlot}, email: Addresses \cup {NoAddress},
            account: Accounts \cup {NoAccount}, attempt: Nat,
            booked: BOOLEAN, email_sent: BOOLEAN]

UnusedRequest == [pc |-> "unused", slot |-> NoSlot, email |-> NoAddress,
                  account |-> NoAccount, attempt |-> 1, booked |-> FALSE,
                  email_sent |-> FALSE]

(* account is the one whose credential was loaded, slots the answer's.     *)
LookUp == [pc: {"idle", "load", "query", "answered"}, ask: Ask,
           account: Accounts \cup {NoAccount}, slots: SUBSET Intervals]

AnyTime == [weekdays |-> {}, duration |-> Unset, earliest |-> Unset, latest |-> Unset]
Idle == [pc |-> "idle", ask |-> AnyTime, account |-> NoAccount, slots |-> {}]

\* Wrong: start and end in each other's place.
NewRequestSwapped(slot, email) ==
  [UnusedRequest EXCEPT !.pc = "load", !.slot = <<slot[2], slot[1]>>, !.email = email]

NewRequest(slot, email) == [UnusedRequest EXCEPT !.pc = "load", !.slot = slot, !.email = email]

At(r, pc) == requests[r].pc = pc

RequestMoves(r, next) == requests' = [requests EXCEPT ![r] = next]

(* A POST to Google is not acknowledged: it is made again, until the       *)
(* attempts are used up, and then the exception goes on as `raised`.       *)
PostIsLost(r, raised) ==
  /\ Disturbed
  /\ RequestMoves(r, IF requests[r].attempt < GoogleAttempts
                     THEN [requests[r] EXCEPT !.attempt = @ + 1]
                     ELSE raised)

google == <<credential, flows, blocks>>

-----------------------------------------------------------------------------
(* load_org_google_credential and refresh_access_token.  An organization   *)
(* without credential is answered booked = False.                          *)
LoadCredential(r) ==
  /\ At(r, "load")
  /\ RequestMoves(r, IF credential = NoAccount
                     THEN [requests[r] EXCEPT !.pc = "answered"]
                     ELSE [requests[r] EXCEPT !.pc = "insert", !.account = credential])
  /\ UNCHANGED <<google, events, mails, calm, stale, followups>>

\* The exception that leaves book_meeting is a 500.
InsertFailed(r) == [requests[r] EXCEPT !.pc = "failed"]

\* Wrong: Google's 201 is not the success that was expected, and the POST is made again.
InsertAnsweredUnnoticed(r) ==
  IF requests[r].attempt < GoogleAttempts
  THEN [requests[r] EXCEPT !.attempt = @ + 1]
  ELSE [requests[r] EXCEPT !.pc = "recipient", !.booked = TRUE, !.attempt = 1]

InsertAnswered(r) == [requests[r] EXCEPT !.pc = "recipient", !.booked = TRUE, !.attempt = 1]

(* insert_event takes effect: the event is there, and is not compared with *)
(* what else the calendar holds.  Its answer may be lost.                  *)
BookMeeting(r, offers) ==
  /\ At(r, "insert")
  /\ InsertEvent(requests[r].account, requests[r].slot, r, requests[r].attempt)
  /\ stale' = stale \cup {o \in offers : /\ requests[r].account = credential
                                         /\ Overlaps(o[2], {requests[r].slot})}
  /\ \/ RequestMoves(r, InsertAnswered(r)) /\ UNCHANGED calm
     \/ PostIsLost(r, InsertFailed(r))
  /\ UNCHANGED <<google, mails, followups>>

\* insert_event does not reach Google, or Google fails.
InsertIsLost(r) ==
  /\ At(r, "insert")
  /\ PostIsLost(r, InsertFailed(r))
  /\ UNCHANGED <<google, events, mails, stale, followups>>

\* Wrong: the address on file comes first.
RecipientOnFileFirst(r) ==
  IF EmailOnFile[r[1]] # NoAddress THEN EmailOnFile[r[1]] ELSE requests[r].email

Recipient(r) ==
  IF requests[r].email # NoAddress THEN requests[r].email ELSE EmailOnFile[r[1]]

(* _send_confirmation_email finds its recipient and loads the credential   *)
(* anew: there may be no one to write to, or another account by now.       *)
FindRecipient(r) ==
  /\ At(r, "recipient")
  /\ RequestMoves(r, IF Recipient(r) = NoAddress \/ credential = NoAccount
                     THEN [requests[r] EXCEPT !.pc = "emit"]
                     ELSE [requests[r] EXCEPT !.pc = "mail", !.account = credential])
  /\ UNCHANGED <<google, events, mails, calm, stale, followups>>

MailFailed(r) == [requests[r] EXCEPT !.pc = "emit", !.attempt = 1]

\* send_gmail takes effect; its answer may be lost, and the mail sent again.
SendConfirmation(r) ==
  /\ At(r, "mail")
  /\ SendGmail(requests[r].account, Recipient(r), r, requests[r].attempt)
  /\ \/ /\ RequestMoves(r, [requests[r] EXCEPT !.pc = "emit", !.email_sent = TRUE,
                                               !.attempt = 1])
        /\ UNCHANGED calm
     \/ PostIsLost(r, MailFailed(r))
  /\ UNCHANGED <<google, events, stale, followups>>

\* A mail that is lost, or refused at once, does not fail the booking.
ConfirmationIsLost(r) ==
  /\ At(r, "mail")
  /\ PostIsLost(r, MailFailed(r)) \/ (Disturbed /\ RequestMoves(r, MailFailed(r)))
  /\ UNCHANGED <<google, events, mails, stale, followups>>

(* _emit_meeting_scheduled: from here the booking is AgentLoop's           *)
(* ScheduleMeeting.  A failure is logged and forgotten.                    *)
EmitMeetingScheduled(r) ==
  /\ At(r, "emit")
  /\ \/ followups' = followups \cup {r} /\ UNCHANGED calm
     \/ Disturbed /\ UNCHANGED followups
  /\ RequestMoves(r, [requests[r] EXCEPT !.pc = "answered"])
  /\ UNCHANGED <<google, events, mails, stale>>

\* The API process dies, or a query of the request fails.
RequestDies(r) ==
  /\ requests[r].pc \notin {"unused", "answered", "failed"}
  /\ Disturbed
  /\ RequestMoves(r, [requests[r] EXCEPT !.pc = "failed"])
  /\ UNCHANGED <<google, events, mails, stale, followups>>

-----------------------------------------------------------------------------
(* get_availability awaits the organization's credential: without one the  *)
(* answer is connected = False, and no slots ...                           *)
LoadForAvailability(c) ==
  /\ lookups[c].pc = "load"
  /\ lookups' = [lookups EXCEPT ![c].pc = IF credential = NoAccount THEN "answered" ELSE "query",
                                ![c].account = credential]
  /\ UNCHANGED <<google, events, mails, calm, stale, requests, followups>>

(* ... and then an access token and Google's free/busy answer, from which  *)
(* the slots follow.  What that account's calendar shows at this moment is *)
(* what they are free of: by now another account may be connected.         *)
QueryCalendar(c) ==
  LET account == lookups[c].account
      slots == GetAvailability(NOW, TODAY, Calendar(account), lookups[c].ask)
  IN  /\ lookups[c].pc = "query"
      /\ lookups' = [lookups EXCEPT ![c].pc = "answered", ![c].slots = slots]
      /\ stale' = IF account = credential THEN stale ELSE stale \cup ({c} \X slots)
      /\ UNCHANGED <<google, events, mails, calm, requests, followups>>

RequestRuns(r, offers) ==
  \/ LoadCredential(r) \/ BookMeeting(r, offers) \/ InsertIsLost(r) \/ FindRecipient(r)
  \/ SendConfirmation(r) \/ ConfirmationIsLost(r) \/ EmitMeetingScheduled(r)

ApiInit ==
  /\ requests = [r \in RequestIds |-> UnusedRequest]
  /\ followups = {}
  /\ lookups = [c \in Calls |-> Idle]

ApiTypeOK ==
  /\ requests \in [RequestIds -> Request]
  /\ followups \subseteq RequestIds
  /\ lookups \in [Calls -> LookUp]
=============================================================================
