--------------------------- MODULE GoogleAccount ----------------------------
(***************************************************************************)
(* An organization's connection to Google: the OAuth flow that stores its  *)
(* credential (app/api/routers/google_oauth.py), and the POST requests     *)
(* made with it (app/services/clients/google_client.py), each of which is  *)
(* tried again after a timeout or a 5xx, whether or not Google had already *)
(* acted on it.                                                            *)
(***************************************************************************)
EXTENDS CalendarSlots

CONSTANTS
  Calls,           \* phone calls bridged to the voice agent
  MaxRequests,     \* booking requests, of all calls together (a bound)
  Accounts,        \* Google accounts an admin can connect
  NoAccount,       \* no row in organization_google_credentials
  Addresses,       \* e-mail addresses
  Flows,           \* OAuth attempts
  GoogleAttempts,  \* stop_after_attempt of the Google client
  NOW,             \* minutes since midnight: the calls are over soon
  OwnerSlots,      \* intervals the calendars' owners may block themselves
  Disturbances     \* requests lost, processes killed, OAuth attempts and owners'
                   \* entries, all together (a bound)

Intervals == {slot \in Nat \X Nat : slot[1] < slot[2]}

ASSUME GoogleAssumption ==
  /\ NoAccount \notin Accounts
  /\ MaxRequests \in Nat
  /\ GoogleAttempts \in Nat \ {0}
  /\ NOW \in Nat
  /\ OwnerSlots \subseteq Intervals
  /\ Disturbances \in Nat

VARIABLES
  credential,  \* the account of the organization_google_credentials row
  flows,       \* OAuth attempts: their progress and the account chosen
  blocks,      \* <<account, slot>>: what an owner entered in a calendar
  events,      \* events the backend inserted
  mails,       \* messages sent from a connected mailbox
  calm,        \* how many Disturbances are left
  stale        \* <<call, slot>> offered in that call and not sure to be free any more
               \* (history variable)

RequestIds == Calls \X (1 .. MaxRequests)

Flow == [pc: {"unused", "consent", "store", "connected", "error"},
         account: Accounts \cup {NoAccount}]

\* nth tells apart the events, and the mails, of one request.
Event == [account: Accounts, slot: Intervals, request: RequestIds, nth: Nat, clash: BOOLEAN]
Mail == [to: Addresses, account: Accounts, request: RequestIds, nth: Nat]

Disturbed == calm > 0 /\ calm' = calm - 1

\* What account's calendar shows: the owner's entries and the booked events.
Calendar(account) ==
  {b[2] : b \in {entry \in blocks : entry[1] = account}}
    \cup {e.slot : e \in {event \in events : event.account = account}}

-----------------------------------------------------------------------------
(* start_google_connect: the user is sent to Google with a signed state.   *)
StartGoogleConnect(f) ==
  /\ flows[f].pc = "unused"
  /\ Disturbed
  /\ flows' = [flows EXCEPT ![f].pc = "consent"]
  /\ UNCHANGED <<credential, blocks, events, mails, stale>>

(* google_oauth_callback up to the exchange: the user declined, the state  *)
(* is forged or has expired, Google refused the code or sent no refresh    *)
(* token ...                                                               *)
CallbackEndsInError(f) ==
  /\ flows[f].pc = "consent"
  /\ flows' = [flows EXCEPT ![f].pc = "error"]
  /\ UNCHANGED <<credential, blocks, events, mails, calm, stale>>

\* ... or tokens of the account the user chose are in hand ...
ExchangeCode(f, account) ==
  /\ flows[f].pc = "consent"
  /\ flows' = [flows EXCEPT ![f].pc = "store", ![f].account = account]
  /\ UNCHANGED <<credential, blocks, events, mails, calm, stale>>

(* ... and replace the organization's credential, whoever stored it and    *)
(* whatever was looked up with it.                                         *)
StoreCredential(f, offers) ==
  /\ flows[f].pc = "store"
  /\ credential' = flows[f].account
  /\ stale' = IF credential' = credential THEN stale ELSE stale \cup offers
  /\ flows' = [flows EXCEPT ![f].pc = "connected"]
  /\ UNCHANGED <<blocks, events, mails, calm>>

\* The upsert fails.
StoreFails(f) ==
  /\ flows[f].pc = "store"
  /\ Disturbed
  /\ flows' = [flows EXCEPT ![f].pc = "error"]
  /\ UNCHANGED <<credential, blocks, events, mails, stale>>

-----------------------------------------------------------------------------
(* The effects of a POST that Google acts on.  Neither looks at what is    *)
(* there already; `clash` is for the properties only.                      *)

\* What slot would run into, duplicates of the same request aside.
Clashes(account, slot, request) ==
  \/ Overlaps(slot, {b[2] : b \in {entry \in blocks : entry[1] = account}})
  \/ Overlaps(slot, {e.slot : e \in {event \in events : /\ event.account = account
                                                        /\ event.request # request}})

InsertEvent(account, slot, request, nth) ==
  events' = events \cup {[account |-> account, slot |-> slot, request |-> request,
                          nth |-> nth, clash |-> Clashes(account, slot, request)]}

SendGmail(account, to, request, nth) ==
  mails' = mails \cup
    {[to |-> to, account |-> account, request |-> request, nth |-> nth]}

\* The owner of a calendar blocks some time.
OwnerBlocks(account, slot, offers) ==
  /\ Disturbed
  /\ blocks' = blocks \cup {<<account, slot>>}
  /\ stale' = stale \cup {o \in offers : account = credential /\ Overlaps(o[2], {slot})}
  /\ UNCHANGED <<credential, flows, events, mails>>

GoogleInit ==
  /\ credential \in Accounts \cup {NoAccount}
  /\ flows = [f \in Flows |-> [pc |-> "unused", account |-> NoAccount]]
  /\ blocks = {}
  /\ events = {}
  /\ mails = {}
  /\ calm = Disturbances
  /\ stale = {}

GoogleTypeOK ==
  /\ credential \in Accounts \cup {NoAccount}
  /\ flows \in [Flows -> Flow]
  /\ blocks \subseteq Accounts \X Intervals
  /\ events \subseteq Event
  /\ mails \subseteq Mail
  /\ calm \in Nat
  /\ stale \subseteq Calls \X Intervals
=============================================================================
