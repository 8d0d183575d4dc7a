--------------------------- MODULE TwilioWebhook ----------------------------
(***************************************************************************)
(* The two Twilio webhooks, from the number called to the signal recorded  *)
(* and routed (app/api/routers/signals.py, app/api/routers/voice.py,       *)
(* app/api/twilio_utils.py, app/services/sms_interaction.py).  Webhooks    *)
(* run concurrently, and Twilio may deliver the same one again.  What      *)
(* routing a text leads to is the business of SignalApi.                   *)
(***************************************************************************)
EXTENDS Organizations

CONSTANTS
  Sids,         \* texts and calls, by their MessageSid or CallSid
  Kind,         \* Kind[s]: "sms" or "call"
  Senders,      \* phone numbers of contacts
  From,         \* From[s]: the sender of s
  Deliveries,   \* how often Twilio delivers one webhook (a bound)
  NoOrg

ASSUME WebhookAssumption ==
  /\ Kind \in [Sids -> {"sms", "call"}]
  /\ From \in [Sids -> Senders]
  /\ Deliveries \in Nat
  /\ NoOrg \notin Orgs

VARIABLES
  contacts,   \* rows of contacts, <<organization, phone>>, unique
  barred,     \* contacts set to dnc
  called,     \* the number each text or call went to
  signals,    \* signals recorded, by sid
  webhooks    \* deliveries, by sid and number

WebhookIds == Sids \X (1 .. Deliveries)

NoSignal == [org |-> NoOrg, status |-> "none"]
Signal == [org: Orgs \cup {NoOrg},
           status: {"none", "received", "delivered", "ignored", "failed"}]

(* org is the row found; denied says that a call's caller was barred when  *)
(* the contact was read, early that the number's organization was still    *)
(* being set up when its row was looked for, was_barred that the caller    *)
(* was barred then, lost that a step of the webhook was disturbed (the     *)
(* last three are history).                                                *)
Webhook == [pc: {"unused", "find_org", "signature", "find_contact", "insert_contact",
                 "insert_signal", "check", "route", "answered", "dialed", "refused",
                 "failed"},
            org: Orgs \cup {NoOrg}, denied: BOOLEAN, early: BOOLEAN,
            was_barred: BOOLEAN, lost: BOOLEAN]

Reaches(w, pc) == webhooks[w].pc = pc
Goes(w, pc) == webhooks' = [webhooks EXCEPT ![w].pc = pc] /\ UNCHANGED <<calm, marred>>
Loses(w, pc) ==
  /\ calm > 0 /\ calm' = calm - 1 /\ UNCHANGED marred
  /\ webhooks' = [webhooks EXCEPT ![w].pc = pc, ![w].lost = TRUE]

\* Wrong: the columns in each other's place.
CallerSwapped(w) == <<From[w[1]], webhooks[w].org>>

Caller(w) == <<webhooks[w].org, From[w[1]]>>

provisioning == <<tables, creations, twilio>>

-----------------------------------------------------------------------------
(* Twilio calls the webhook of a number somebody holds, and may do so      *)
(* again before or after it had an answer.                                 *)
Receive(w, n) ==
  /\ webhooks[w].pc = "unused"
  /\ holder[n] # NoAccount
  /\ IF w[2] = 1 THEN UNCHANGED calm
     ELSE called[w[1]] = n /\ calm > 0 /\ calm' = calm - 1
  /\ called' = [called EXCEPT ![w[1]] = n]
  /\ webhooks' = [webhooks EXCEPT ![w].pc = "find_org"]
  /\ UNCHANGED <<provisioning, marred, contacts, barred, signals>>

FindOrgByPhone(w) ==
  LET n == called[w[1]]
      found == {o \in DOMAIN organizations : organizations[o].phone = n}
  IN  /\ Reaches(w, "find_org")
      /\ \E o \in IF found = {} THEN {NoOrg} ELSE found :
           webhooks' = [webhooks EXCEPT
             ![w].pc = "signature", ![w].org = o,
             ![w].was_barred = Kind[w[1]] = "call" /\ <<o, From[w[1]]>> \in barred,
             ![w].early = holder[n] \in Orgs /\ creations[holder[n]].pc \in Busy]
      /\ UNCHANGED <<provisioning, calm, marred, contacts, barred, called, signals>>

\* Wrong: the parent's token, as before there were subaccounts.
AuthTokenOfParent(o) == Parent

\* resolve_twilio_auth_token: the account whose token the request is checked with.
AuthToken(o) == IF o \in Orgs /\ secrets[o] # NoAccount THEN secrets[o] ELSE Parent

\* Wrong: a request that cannot be checked with the organization's own token passes.
SignatureValidIfStored(o, n) == o \notin Orgs \/ secrets[o] \in {NoAccount, holder[n]}

\* Twilio signs with the token of the account that holds the number.
SignatureValid(o, n) == AuthToken(o) = holder[n]

\* 403 for the signature, 404 for the organization.
ValidateSignature(w) ==
  LET o == webhooks[w].org
  IN  /\ Reaches(w, "signature")
      /\ Goes(w, IF SignatureValid(o, called[w[1]]) /\ o # NoOrg THEN "find_contact" ELSE "refused")
      /\ UNCHANGED <<provisioning, contacts, barred, called, signals>>

(* get_or_create_contact_by_phone.  The row found is the one check_dnc     *)
(* will look at.                                                           *)
FindContact(w) ==
  /\ Reaches(w, "find_contact")
  /\ webhooks' = [webhooks EXCEPT
       ![w].pc = IF Caller(w) \in contacts THEN "insert_signal" ELSE "insert_contact",
       ![w].denied = Kind[w[1]] = "call" /\ Caller(w) \in barred]
  /\ UNCHANGED <<provisioning, calm, marred, contacts, barred, called, signals>>

(* Another webhook may have made the contact since: a 500.  So may this    *)
(* one, when the insert was not acknowledged and is made again.            *)
InsertContact(w) ==
  /\ Reaches(w, "insert_contact")
  /\ contacts' = contacts \cup {Caller(w)}
  /\ IF Caller(w) \in contacts THEN Goes(w, "failed")
     ELSE Goes(w, "insert_signal") \/ Loses(w, "failed")
  /\ UNCHANGED <<provisioning, barred, called, signals>>

\* Wrong: one row by contact.
RecordedForContact(w) ==
  \E s \in Sids : From[s] = From[w[1]] /\ signals[s].org = webhooks[w].org

Recorded(w) == signals[w[1]] # NoSignal

\* Wrong: a call that is known already has been let in before.
AfterDuplicateUnchecked(kind) == IF kind = "sms" THEN "answered" ELSE "dialed"

\* A text recorded before is answered with its row; a call goes on with it.
AfterDuplicate(kind) == IF kind = "sms" THEN "answered" ELSE "check"

(* An insert that took effect without acknowledgement is made again, and   *)
(* then finds dedup_key taken: the webhook takes itself for a replay.      *)
InsertSignal(w) ==
  LET s == w[1]
  IN  /\ Reaches(w, "insert_signal")
      /\ IF Recorded(w)
         THEN Goes(w, AfterDuplicate(Kind[s])) /\ UNCHANGED signals
         ELSE /\ signals' = [signals EXCEPT ![s] =
                               [org |-> webhooks[w].org, status |-> "received"]]
              /\ \/ Goes(w, IF Kind[s] = "sms" THEN "route" ELSE "check")
                 \/ Loses(w, AfterDuplicate(Kind[s]))
      /\ UNCHANGED <<provisioning, contacts, barred, called>>

(* The keyword fast path or signal-with-start; an exception leaves the     *)
(* signal failed and answers 200 all the same.                             *)
RouteText(w) ==
  /\ Reaches(w, "route")
  /\ \/ Goes(w, "answered") /\ signals' = [signals EXCEPT ![w[1]].status = "delivered"]
     \/ Loses(w, "answered") /\ signals' = [signals EXCEPT ![w[1]].status = "failed"]
  /\ UNCHANGED <<provisioning, contacts, barred, called>>

\* A barred caller is turned away, any other dialed into the SIP trunk.
AnswerCall(w) ==
  LET denied == webhooks[w].denied
  IN  /\ Reaches(w, "check")
      /\ Goes(w, IF denied THEN "answered" ELSE "dialed")
      /\ signals' = [signals EXCEPT ![w[1]].status = IF denied THEN "ignored" ELSE "delivered"]
      /\ UNCHANGED <<provisioning, contacts, barred, called>>

\* A query fails for good, or the process dies.
WebhookFails(w) ==
  /\ webhooks[w].pc \notin {"unused", "answered", "dialed", "refused", "failed"}
  /\ Loses(w, "failed")
  /\ UNCHANGED <<provisioning, contacts, barred, called, signals>>

\* A member of the organization sets a contact to do-not-contact.
BarContact(contact) ==
  /\ contact \in contacts \ barred
  /\ barred' = barred \cup {contact}
  /\ UNCHANGED <<provisioning, calm, marred, contacts, called, signals, webhooks>>

WebhookRuns(w) ==
  \/ FindOrgByPhone(w) \/ ValidateSignature(w) \/ FindContact(w) \/ InsertContact(w)
  \/ InsertSignal(w) \/ RouteText(w) \/ AnswerCall(w) \/ WebhookFails(w)

WebhookInit ==
  /\ contacts = {}
  /\ barred = {}
  /\ called = [s \in Sids |-> NoPhone]
  /\ signals = [s \in Sids |-> NoSignal]
  /\ webhooks = [w \in WebhookIds |->
       [pc |-> "unused", org |-> NoOrg, denied |-> FALSE, early |-> FALSE,
        was_barred |-> FALSE, lost |-> FALSE]]

WebhookTypeOK ==
  /\ contacts \subseteq Orgs \X Senders
  /\ barred \subseteq contacts
  /\ called \in [Sids -> Phones \cup {NoPhone}]
  /\ signals \in [Sids -> Signal]
  /\ webhooks \in [WebhookIds -> Webhook]
=============================================================================
