------------------------------ MODULE OrgSetup ------------------------------
(***************************************************************************)
(* Organizations being created and provisioned, edited by their members,   *)
(* and called by their contacts, all at the same time.                     *)
(***************************************************************************)
EXTENDS TwilioWebhook

vars == <<organizations, members, secrets, creations, holder, subaccounts, calm, marred,
          contacts, barred, called, signals, webhooks>>

inbound == <<contacts, barred, called, signals, webhooks>>

Init == OrganizationsInit /\ WebhookInit

Create(o) ==
  /\ CreateOrganization(o) \/ CreationRuns(o) \/ CreationStops(o)
  /\ UNCHANGED inbound

Edit(o, u) ==
  /\ \/ \E phone \in Typed : UpdateOrganization(o, u, phone)
     \/ \E v \in Users, role \in {"owner", "admin", "member"} : AddOrganizationMember(o, u, v, role)
  /\ UNCHANGED inbound

Call(w) == (\E n \in Phones : Receive(w, n)) \/ WebhookRuns(w)

Next ==
  \/ \E o \in Orgs : Create(o) \/ \E u \in Users : Edit(o, u)
  \/ \E w \in WebhookIds : Call(w)
  \/ \E contact \in contacts : BarContact(contact)

Spec == Init /\ [][Next]_vars

-----------------------------------------------------------------------------
(* Every variable has the type of what it stands for.                      *)
TypeOK == OrganizationsTypeOK /\ WebhookTypeOK

HasOwner(o) == \E m \in members : m.org = o /\ m.user = creations[o].user /\ m.role = "owner"

(* An organization its creator was told of belongs to him.  A row that no  *)
(* one owns, and whose slug nobody can take again, is left over only where *)
(* the creation was disturbed, or where its creator was in another         *)
(* organization: the policy described as "First member of a brand-new org  *)
(* self-inserts as owner" (0001_organizations.sql:129) turns him down.     *)
OrganizationsHaveOwners ==
  \A o \in DOMAIN organizations : creations[o].pc \in Over =>
    \/ HasOwner(o)
    \/ /\ creations[o].pc # "created"
       /\ \/ o \in marred
          \/ \E m \in members : m.org # o /\ m.user = creations[o].user

\* Somebody else has entered the number found for o, now or before an edit.
Preempted(o) ==
  \E p \in Orgs \ {o} : \/ p \in marred
                        \/ creations[p].phone = creations[o].number
                        \/ holder[creations[o].number] = p

(* What the handler bought for an organization ends up on its row, with    *)
(* the token its webhooks are checked with, or the creation was disturbed, *)
(* or no number was left, or it was sold or entered by another between the *)
(* search and the update.  A row that shows a subaccount has its number    *)
(* bought and attached there.                                              *)
ProvisioningIsWhole ==
  /\ \A o \in DOMAIN organizations : organizations[o].subaccount = o =>
       subaccounts[o] = "attached" /\ holder[creations[o].number] = o
  /\ \A o \in Orgs : /\ creations[o].pc \in Over /\ o \notin marred
                     /\ subaccounts[o] # "none"
                     => \/ secrets[o] = o /\ organizations[o].phone = creations[o].number
                        \/ creations[o].number = NoPhone
                        \/ Preempted(o)

(* Numbers change hands, are entered twice and lack their secret for a     *)
(* while: a text or call to a number an organization bought is still never *)
(* recorded for another organization.                                      *)
MessagesStayInTheirOrganization ==
  \A s \in Sids : signals[s] # NoSignal /\ called[s] \in Numbers =>
                    signals[s].org = holder[called[s]]

\* The abstract tenancy of the bought numbers.
Promise == INSTANCE Tenancy WITH
  Nobody <- NoAccount,
  owner <- [n \in Numbers |-> holder[n]],
  recorded <- [s \in Sids |-> IF signals[s] # NoSignal /\ called[s] \in Numbers
                              THEN signals[s].org ELSE NoAccount]

(* Buying a number, and recording what arrives there, implement Tenancy:   *)
(* no number is taken over, no text or call is recorded twice or moved to  *)
(* another organization, whatever fails, is edited or delivered again.     *)
NumbersHaveOneTenant == Promise!Spec

(* A webhook to a bought number is turned down only while, or because, its *)
(* organization was not set up undisturbed; and is lost without            *)
(* disturbance only when two webhooks create the same contact.             *)
InboundIsHeard ==
  \A w \in WebhookIds :
    LET o == holder[called[w[1]]] IN
    /\ webhooks[w].pc = "refused" /\ called[w[1]] \in Numbers =>
         webhooks[w].early \/ o \in marred \/ Preempted(o)
    /\ webhooks[w].pc = "failed" =>
         \/ webhooks[w].lost
         \/ \E v \in WebhookIds \ {w} : Caller(v) = Caller(w)

(* A text that was answered has been routed, is being routed by another    *)
(* delivery, or a delivery of it was disturbed: nothing routes it later.   *)
AnsweredTextIsRouted ==
  \A w \in WebhookIds :
    Kind[w[1]] = "sms" /\ webhooks[w].pc = "answered" =>
      \/ signals[w[1]].status \in {"delivered", "failed"}
      \/ \E v \in WebhookIds : v[1] = w[1] /\ (webhooks[v].lost \/ webhooks[v].pc = "route")

(* No delivery of a call dials the agent for a caller who was barred when  *)
(* it arrived, and a call that was dialed has its signal.                  *)
BarredCallersAreNotDialed ==
  \A w \in WebhookIds : webhooks[w].pc = "dialed" =>
    ~webhooks[w].was_barred /\ signals[w[1]] # NoSignal
=============================================================================
