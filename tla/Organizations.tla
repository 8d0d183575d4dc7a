--------------------------- MODULE Organizations ----------------------------
(***************************************************************************)
(* Creating an organization and its own Twilio account                     *)
(* (app/api/routers/organizations.py, app/services/clients/                *)
(* twilio_client.py) under the constraints and row policies of the         *)
(* database (supabase/migrations/0001, 0009).  The handler makes a chain   *)
(* of calls to the database and to Twilio, none of them in a transaction;  *)
(* other creations and members' edits run in between.                      *)
(***************************************************************************)
EXTENDS Naturals, FiniteSets

CONSTANTS
  Orgs,          \* the uuid each POST /organizations draws
  Users, Slugs,
  Numbers,       \* numbers Twilio sells
  Legacy,        \* numbers of the parent account
  NoPhone,
  Typed,         \* phone numbers a user may enter himself
  Bodies,        \* who may ask for which slug and phone
  Parent,        \* the parent Twilio account
  NoAccount,
  Disturbances   \* calls that fail, processes that die, edits by members and
                 \* webhooks delivered again, all together (a bound)

Phones == Numbers \cup Legacy

ASSUME OrganizationsAssumption ==
  /\ NoPhone \notin Phones
  /\ Numbers \cap Legacy = {}
  /\ Typed \subseteq Phones
  /\ Bodies \subseteq [user: Users, slug: Slugs, phone: Typed \cup {NoPhone}]
  /\ {Parent, NoAccount} \cap Orgs = {} /\ Parent # NoAccount
  /\ Disturbances \in Nat

\* The subaccount opened for an organization goes by the organization's id.
Accounts == Orgs \cup {Parent, NoAccount}

VARIABLES
  organizations,  \* rows of organizations, by id
  members,        \* rows of organization_members
  secrets,        \* organization_twilio_secrets: whose auth token is stored
  creations,      \* the POST /organizations requests
  holder,         \* the Twilio account that holds each number
  subaccounts,    \* how far each organization's subaccount has been set up
  calm,           \* how many Disturbances are left
  marred          \* organizations whose creation or row was disturbed
                  \* (history variable)

Row == [slug: Slugs, phone: Phones \cup {NoPhone}, subaccount: Orgs \cup {NoAccount}]
Member == [org: Orgs, user: Users, role: {"owner", "admin", "member"}]

Provisioning == {"subaccount", "search", "buy", "service", "attach", "publish", "secret"}
Busy == {"insert", "owner"} \cup Provisioning
Over == {"created", "refused", "died"}
Creation == [pc: Busy \cup Over \cup {"unused"}, user: Users, slug: Slugs,
             phone: Phones \cup {NoPhone}, number: Numbers \cup {NoPhone}]

twilio == <<holder, subaccounts>>
tables == <<organizations, members, secrets>>

Disturbed(o) == calm > 0 /\ calm' = calm - 1 /\ marred' = marred \cup {o}

At(o, pc) == creations[o].pc = pc
Moves(o, pc) == creations' = [creations EXCEPT ![o].pc = pc]

\* Wrong: every exception is swallowed.
RaisedSwallowed(o) == "created"

\* An exception is a 400 or a 500 until the owner is in, and swallowed from then on.
Raised(o) == IF creations[o].pc \in Provisioning THEN "created" ELSE "refused"

(* A call took effect: the handler goes on, or never hears of it.  An      *)
(* insert that execute_query then makes again is a duplicate, and raises.  *)
Acknowledged(o, next) ==
  \/ Moves(o, next) /\ UNCHANGED <<calm, marred>>
  \/ Moves(o, Raised(o)) /\ Disturbed(o)

\* The call raises.
Raises(o) == Moves(o, Raised(o)) /\ UNCHANGED <<calm, marred>>

\* organizations.phone is unique when set.
PhoneTaken(o, phone) ==
  phone # NoPhone /\ \E p \in DOMAIN organizations \ {o} : organizations[p].phone = phone

IsAdmin(u, o) == \E m \in members : m.org = o /\ m.user = u /\ m.role \in {"owner", "admin"}

-----------------------------------------------------------------------------
CreateOrganization(o) ==
  /\ At(o, "unused")
  /\ Moves(o, "insert")
  /\ UNCHANGED <<tables, twilio, calm, marred>>

InsertOrganization(o) ==
  LET c == creations[o]
      row == [slug |-> c.slug, phone |-> c.phone, subaccount |-> NoAccount]
  IN  /\ At(o, "insert")
      /\ IF \/ \E p \in DOMAIN organizations : organizations[p].slug = c.slug
            \/ PhoneTaken(o, c.phone)
         THEN Raises(o) /\ UNCHANGED organizations
         ELSE /\ organizations' = [p \in DOMAIN organizations \cup {o} |->
                                     IF p = o THEN row ELSE organizations[p]]
              /\ Acknowledged(o, "owner")
      /\ UNCHANGED <<members, secrets, twilio>>

(* The policy's "not exists" compares m.org_id with itself, over the rows  *)
(* the user may see: it holds of a user who is in no organization at all.  *)
MayInsertOwner(u, o) == (\A m \in members : m.user # u) \/ IsAdmin(u, o)

(* The owner's row, and the organization read back.  Only an organization  *)
(* that came without a phone is provisioned.                               *)
InsertOwner(o) ==
  LET c == creations[o]
  IN  /\ At(o, "owner")
      /\ IF MayInsertOwner(c.user, o)
         THEN /\ members' = members \cup {[org |-> o, user |-> c.user, role |-> "owner"]}
              /\ Acknowledged(o, IF organizations[o].phone = NoPhone THEN "subaccount"
                                                                   ELSE "created")
         ELSE Raises(o) /\ UNCHANGED members
      /\ UNCHANGED <<organizations, secrets, twilio>>

-----------------------------------------------------------------------------
(* provision_org_twilio: nothing but the search is tried again, and        *)
(* nothing that was set up is taken down.                                  *)
CreateSubaccount(o) ==
  /\ At(o, "subaccount")
  /\ subaccounts' = [subaccounts EXCEPT ![o] = "open"]
  /\ Acknowledged(o, "search")
  /\ UNCHANGED <<tables, holder>>

FindAvailableNumber(o) ==
  /\ At(o, "search")
  /\ IF \E n \in Numbers : holder[n] = NoAccount
     THEN \E n \in Numbers :
            /\ holder[n] = NoAccount
            /\ creations' = [creations EXCEPT ![o].pc = "buy", ![o].number = n]
            /\ UNCHANGED <<calm, marred>>
     ELSE Raises(o)
  /\ UNCHANGED <<tables, twilio>>

\* The number may have been sold since it was found.
BuyNumber(o) ==
  LET n == creations[o].number
  IN  /\ At(o, "buy")
      /\ IF holder[n] = NoAccount
         THEN /\ holder' = [holder EXCEPT ![n] = o]
              /\ Acknowledged(o, "service")
         ELSE Raises(o) /\ UNCHANGED holder
      /\ UNCHANGED <<tables, subaccounts>>

CreateService(o) ==
  /\ At(o, "service")
  /\ subaccounts' = [subaccounts EXCEPT ![o] = "service"]
  /\ Acknowledged(o, "attach")
  /\ UNCHANGED <<tables, holder>>

AttachNumber(o) ==
  /\ At(o, "attach")
  /\ subaccounts' = [subaccounts EXCEPT ![o] = "attached"]
  /\ Acknowledged(o, "publish")
  /\ UNCHANGED <<tables, holder>>

\* The row gets phone and SIDs, whatever phone it has got in the meantime.
PublishNumber(o) ==
  LET n == creations[o].number
  IN  /\ At(o, "publish")
      /\ IF PhoneTaken(o, n) THEN Raises(o) /\ UNCHANGED organizations
         ELSE /\ organizations' = [organizations EXCEPT ![o].phone = n, ![o].subaccount = o]
              /\ Acknowledged(o, "secret")
      /\ UNCHANGED <<members, secrets, twilio>>

\* Wrong: the token of the client that opened the subaccount.
StoreParentSecret(o) ==
  /\ At(o, "secret")
  /\ secrets' = [secrets EXCEPT ![o] = Parent]
  /\ Acknowledged(o, "created")
  /\ UNCHANGED <<organizations, members, twilio>>

StoreSecret(o) ==
  /\ At(o, "secret")
  /\ secrets' = [secrets EXCEPT ![o] = o]
  /\ Acknowledged(o, "created")
  /\ UNCHANGED <<organizations, members, twilio>>

\* A call fails for good without effect, or the process dies.
CreationStops(o) ==
  /\ creations[o].pc \in Busy
  /\ Disturbed(o)
  /\ \E pc \in {Raised(o), "died"} : Moves(o, pc)
  /\ UNCHANGED <<tables, twilio>>

-----------------------------------------------------------------------------
(* update_organization; the SIDs stay.  Nobody but an admin gets through.  *)
UpdateOrganization(o, u, phone) ==
  /\ o \in DOMAIN organizations /\ IsAdmin(u, o)
  /\ ~PhoneTaken(o, phone)
  /\ organizations' = [organizations EXCEPT ![o].phone = phone]
  /\ Disturbed(o)
  /\ UNCHANGED <<members, secrets, creations, twilio>>

AddOrganizationMember(o, admin, u, role) ==
  /\ IsAdmin(admin, o)
  /\ \A m \in members : m.org = o => m.user # u
  /\ members' = members \cup {[org |-> o, user |-> u, role |-> role]}
  /\ Disturbed(o)
  /\ UNCHANGED <<organizations, secrets, creations, twilio>>

CreationRuns(o) ==
  \/ InsertOrganization(o) \/ InsertOwner(o)
  \/ CreateSubaccount(o) \/ FindAvailableNumber(o) \/ BuyNumber(o)
  \/ CreateService(o) \/ AttachNumber(o) \/ PublishNumber(o) \/ StoreSecret(o)

\* Who will ask for what is settled, when is not.
OrganizationsInit ==
  /\ organizations = [o \in {} |-> [phone |-> NoPhone]]
  /\ members = {}
  /\ secrets = [o \in Orgs |-> NoAccount]
  /\ \E body \in [Orgs -> Bodies] :
       creations = [o \in Orgs |->
         [pc |-> "unused", user |-> body[o].user, slug |-> body[o].slug,
          phone |-> body[o].phone, number |-> NoPhone]]
  /\ holder = [n \in Phones |-> IF n \in Legacy THEN Parent ELSE NoAccount]
  /\ subaccounts = [o \in Orgs |-> "none"]
  /\ calm = Disturbances
  /\ marred = {}

OrganizationsTypeOK ==
  /\ DOMAIN organizations \subseteq Orgs
  /\ \A o \in DOMAIN organizations : organizations[o] \in Row
  /\ members \subseteq Member
  /\ secrets \in [Orgs -> Orgs \cup {NoAccount}]
  /\ creations \in [Orgs -> Creation]
  /\ holder \in [Phones -> Accounts]
  /\ subaccounts \in [Orgs -> {"none", "open", "service", "attached"}]
  /\ calm \in 0 .. Disturbances
  /\ marred \subseteq Orgs
=============================================================================
