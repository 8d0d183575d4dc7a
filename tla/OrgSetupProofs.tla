--------------------------- MODULE OrgSetupProofs ---------------------------
(***************************************************************************)
(* The invariants of OrgSetup, and that OrgSetup implements Tenancy, for   *)
(* every value of the constants.  Sound follows a webhook: once its        *)
(* signature is accepted, the organization found is the one that holds the *)
(* number, because a secret is only ever stored for the organization whose *)
(* account it opens, and no number that was bought is held by the parent   *)
(* account.  The others strengthen one property each: Barring a barred     *)
(* caller's way through a call, Texts that of a text to its route, Owned   *)
(* and Provisioned how far a creation has come, Accountable and Preceded   *)
(* what a webhook that is turned down or fails has met with.               *)
(***************************************************************************)
EXTENDS OrgSetup, TLAPS

Pcs == Busy \cup Over \cup {"unused"}

\* The organization's row is there; a number has been chosen.
Kept == {"owner"} \cup Provisioning
Chosen == {"buy", "service", "attach", "publish", "secret"}

GoodCreation(c, o, ids) ==
  /\ c \in Creation
  /\ c.pc \in Kept => o \in ids
  /\ c.pc \in Chosen => c.number \in Numbers

CreationsInv == \A o \in Orgs : GoodCreation(creations[o], o, DOMAIN organizations)

OrgsInv ==
  /\ OrganizationsTypeOK
  /\ CreationsInv
  /\ \A o \in Orgs : secrets[o] \in {o, NoAccount}
  /\ \A n \in Numbers : holder[n] \in Orgs \cup {NoAccount}

\* Webhooks whose signature was accepted, and which are still running.
Accepted == {"find_contact", "insert_contact", "insert_signal", "check", "route"}

GoodWebhook(w) ==
  /\ webhooks[w].pc # "unused" =>
       called[w[1]] \in Phones /\ holder[called[w[1]]] # NoAccount
  /\ webhooks[w].pc = "unused" /\ w[2] = 1 => called[w[1]] = NoPhone
  /\ webhooks[w].pc \in Accepted =>
       /\ webhooks[w].org \in Orgs
       /\ called[w[1]] \in Numbers => webhooks[w].org = holder[called[w[1]]]
  /\ webhooks[w].pc \in {"check", "route"} => signals[w[1]].org \in Orgs

GoodSignal(s) ==
  /\ signals[s] = NoSignal \/ signals[s].org \in Orgs
  /\ called[s] = NoPhone => signals[s] = NoSignal
  /\ signals[s] # NoSignal /\ called[s] \in Numbers => signals[s].org = holder[called[s]]

InboundInv ==
  /\ WebhookTypeOK
  /\ \A w \in WebhookIds : GoodWebhook(w)
  /\ \A s \in Sids : GoodSignal(s)

Sound == OrgsInv /\ InboundInv

-----------------------------------------------------------------------------
(* Creations.                                                              *)

(* A creation moves to another point.                                      *)
LEMMA MovesGood ==
  ASSUME OrgsInv, NEW o \in Orgs, NEW pc \in Pcs, Moves(o, pc),
         DOMAIN organizations \subseteq DOMAIN organizations',
         pc \in Kept => o \in DOMAIN organizations',
         pc \in Chosen => creations[o].number \in Numbers
  PROVE  creations' \in [Orgs -> Creation] /\ CreationsInv'
  <1> DEFINE c == [creations[o] EXCEPT !.pc = pc]
  <1>1. /\ creations \in [Orgs -> Creation]
        /\ creations' = [creations EXCEPT ![o] = c]
    BY DEF OrgsInv, OrganizationsTypeOK, Moves
  <1>2. c \in Creation /\ c.pc = pc /\ c.number = creations[o].number
    BY <1>1 DEF Creation, Pcs
  <1> HIDE DEF c
  <1>3. creations' \in [Orgs -> Creation]
    BY <1>1, <1>2
  <1>4. ASSUME NEW p \in Orgs
        PROVE  GoodCreation(creations'[p], p, DOMAIN organizations')
    <2>1. CASE p = o
      BY <1>1, <1>2, <2>1 DEF GoodCreation
    <2>2. CASE p # o
      BY <1>1, <2>2 DEF OrgsInv, CreationsInv, GoodCreation
    <2> QED
      BY <2>1, <2>2
  <1> QED
    BY <1>3, <1>4 DEF CreationsInv

\* Where a creation that raised goes on.
LEMMA RaisedPc ==
  ASSUME NEW o \in Orgs
  PROVE  Raised(o) \in Pcs /\ Raised(o) \notin Kept /\ Raised(o) \notin Chosen
  BY DEF Raised, Pcs, Over, Kept, Chosen, Provisioning

Disturbances1 == calm' \in 0 .. Disturbances /\ marred' \subseteq Orgs

(* A call that raises changes no row.                                      *)
LEMMA RaisesGood ==
  ASSUME OrgsInv, NEW o \in Orgs, Raises(o), UNCHANGED organizations
  PROVE  creations' \in [Orgs -> Creation] /\ CreationsInv' /\ Disturbances1
  BY MovesGood, RaisedPc DEF Raises, OrgsInv, OrganizationsTypeOK, Disturbances1

(* A call that took effect, heard of or not.                               *)
LEMMA AcknowledgedGood ==
  ASSUME OrgsInv, NEW o \in Orgs, NEW next \in Pcs, Acknowledged(o, next),
         DOMAIN organizations \subseteq DOMAIN organizations',
         next \in Kept => o \in DOMAIN organizations',
         next \in Chosen => creations[o].number \in Numbers
  PROVE  creations' \in [Orgs -> Creation] /\ CreationsInv' /\ Disturbances1
  <1>1. CASE Moves(o, next) /\ UNCHANGED <<calm, marred>>
    BY <1>1, MovesGood DEF OrgsInv, OrganizationsTypeOK, Disturbances1
  <1>2. CASE Moves(o, Raised(o)) /\ Disturbed(o)
    <2>1. creations' \in [Orgs -> Creation] /\ CreationsInv'
      BY <1>2, MovesGood, RaisedPc
    <2>2. Disturbances1
      BY <1>2, OrganizationsAssumption
         DEF Disturbed, OrgsInv, OrganizationsTypeOK, Disturbances1
    <2> QED
      BY <2>1, <2>2
  <1> QED
    BY <1>1, <1>2 DEF Acknowledged

\* A number that is held stays held.
HolderGrows == \A n \in Phones : holder[n] # NoAccount => holder'[n] = holder[n]

(* Whoever changes only creations, and as these lemmas say, keeps OrgsInv. *)
LEMMA TablesKept ==
  ASSUME OrgsInv, creations' \in [Orgs -> Creation], CreationsInv', Disturbances1,
         UNCHANGED <<tables, twilio>>
  PROVE  OrgsInv' /\ HolderGrows
  BY DEF OrgsInv, OrganizationsTypeOK, Disturbances1, tables, twilio, HolderGrows

\* Each step of a creation keeps OrgsInv and the numbers that are held.
LEMMA CreateStep ==
  ASSUME OrgsInv, NEW o \in Orgs,
         CreateOrganization(o) \/ CreationRuns(o) \/ CreationStops(o)
  PROVE  OrgsInv' /\ HolderGrows
  <1> DEFINE c == creations[o]
  <1>0. c \in Creation /\ GoodCreation(c, o, DOMAIN organizations)
    BY DEF OrgsInv, OrganizationsTypeOK, CreationsInv
  <1>1. CASE CreateOrganization(o)
    <2>1. /\ Moves(o, "insert") /\ UNCHANGED <<tables, twilio, calm, marred>>
          /\ "insert" \in Pcs \ (Kept \cup Chosen)
      BY <1>1 DEF CreateOrganization, Pcs, Busy, Kept, Chosen, Provisioning
    <2>2. creations' \in [Orgs -> Creation] /\ CreationsInv'
      BY <2>1, MovesGood DEF tables
    <2> QED
      BY <2>1, <2>2, TablesKept DEF Disturbances1, OrgsInv, OrganizationsTypeOK
  <1>2. CASE InsertOrganization(o)
    <2> DEFINE row == [slug |-> c.slug, phone |-> c.phone, subaccount |-> NoAccount]
    <2>1. UNCHANGED <<members, secrets, twilio>>
      BY <1>2 DEF InsertOrganization
    <2>2. CASE Raises(o) /\ UNCHANGED organizations
      BY <2>1, <2>2, RaisesGood, TablesKept DEF tables
    <2>3. CASE /\ organizations' = [p \in DOMAIN organizations \cup {o} |->
                                      IF p = o THEN row ELSE organizations[p]]
               /\ Acknowledged(o, "owner")
      <3>1. row \in Row
        BY <1>0 DEF Creation, Row
      <3> HIDE DEF row
      <3>2. /\ DOMAIN organizations' = DOMAIN organizations \cup {o}
            /\ \A p \in DOMAIN organizations' : organizations'[p] \in Row
        BY <2>3, <3>1 DEF OrgsInv, OrganizationsTypeOK
      <3>3. "owner" \in Pcs \ Chosen
        BY DEF Pcs, Busy, Chosen
      <3>4. creations' \in [Orgs -> Creation] /\ CreationsInv' /\ Disturbances1
        BY <2>3, <3>2, <3>3, AcknowledgedGood
      <3> QED
        BY <2>1, <3>2, <3>4
           DEF OrgsInv, OrganizationsTypeOK, Disturbances1, twilio, HolderGrows
    <2> QED
      BY <1>2, <2>2, <2>3 DEF InsertOrganization
  <1>3. CASE InsertOwner(o)
    <2> DEFINE owner == [org |-> o, user |-> c.user, role |-> "owner"]
               next == IF organizations[o].phone = NoPhone THEN "subaccount" ELSE "created"
    <2>1. UNCHANGED <<organizations, secrets, twilio>> /\ o \in DOMAIN organizations
      BY <1>0, <1>3 DEF InsertOwner, At, GoodCreation, Kept
    <2>2. CASE Raises(o) /\ UNCHANGED members
      BY <2>1, <2>2, RaisesGood, TablesKept DEF tables
    <2>3. CASE members' = members \cup {owner} /\ Acknowledged(o, next)
      <3>1. owner \in Member
        BY <1>0 DEF Creation, Member
      <3>2. next \in Pcs \ Chosen
        BY DEF Pcs, Busy, Over, Provisioning, Chosen
      <3> HIDE DEF owner, next
      <3>3. creations' \in [Orgs -> Creation] /\ CreationsInv' /\ Disturbances1
        BY <2>1, <2>3, <3>2, AcknowledgedGood
      <3> QED
        BY <2>1, <2>3, <3>1, <3>3
           DEF OrgsInv, OrganizationsTypeOK, Disturbances1, twilio, HolderGrows
    <2> QED
      BY <1>3, <2>2, <2>3 DEF InsertOwner
  <1>4. CASE CreateSubaccount(o) \/ CreateService(o) \/ AttachNumber(o)
    <2>1. /\ UNCHANGED <<tables, holder>>
          /\ o \in DOMAIN organizations
          /\ subaccounts' \in [Orgs -> {"none", "open", "service", "attached"}]
      BY <1>0, <1>4 DEF CreateSubaccount, CreateService, AttachNumber, OrgsInv,
         OrganizationsTypeOK, GoodCreation, Kept, Provisioning, At
    <2>2. creations' \in [Orgs -> Creation] /\ CreationsInv' /\ Disturbances1
      <3>1. /\ c.pc \in Chosen => c.number \in Numbers
            /\ {"search", "attach", "publish"} \subseteq Pcs
            /\ "search" \notin Chosen
        BY <1>0 DEF GoodCreation, Pcs, Busy, Provisioning, Chosen
      <3>2. \/ Acknowledged(o, "search")
            \/ c.pc \in Chosen /\ (Acknowledged(o, "attach") \/ Acknowledged(o, "publish"))
        BY <1>4 DEF CreateSubaccount, CreateService, AttachNumber, At, Chosen
      <3> QED
        BY <2>1, <3>1, <3>2, AcknowledgedGood DEF tables
    <2> QED
      BY <2>1, <2>2 DEF OrgsInv, OrganizationsTypeOK, Disturbances1, tables, HolderGrows
  <1>5. CASE FindAvailableNumber(o)
    <2>1. UNCHANGED <<tables, twilio>> /\ o \in DOMAIN organizations
      BY <1>0, <1>5 DEF FindAvailableNumber, GoodCreation, Kept, Provisioning, At
    <2>2. CASE Raises(o)
      BY <2>1, <2>2, RaisesGood, TablesKept DEF tables
    <2>3. ASSUME NEW n \in Numbers,
                 creations' = [creations EXCEPT ![o].pc = "buy", ![o].number = n],
                 UNCHANGED <<calm, marred>>
          PROVE  OrgsInv' /\ HolderGrows
      <3> DEFINE d == [c EXCEPT !.pc = "buy", !.number = n]
      <3>1. d \in Creation /\ d.number = n
        BY <1>0 DEF Creation, Busy, Provisioning
      <3>2. creations' = [creations EXCEPT ![o] = d]
        BY <2>3
      <3> HIDE DEF d
      <3>3. creations' \in [Orgs -> Creation]
        BY <3>1, <3>2 DEF OrgsInv, OrganizationsTypeOK
      <3>4. CreationsInv'
        BY <2>1, <3>1, <3>2, <3>3
           DEF OrgsInv, OrganizationsTypeOK, CreationsInv, GoodCreation, tables
      <3> QED
        BY <2>1, <2>3, <3>3, <3>4, TablesKept DEF Disturbances1, OrgsInv, OrganizationsTypeOK
    <2> QED
      BY <1>5, <2>2, <2>3 DEF FindAvailableNumber
  <1>6. CASE BuyNumber(o)
    <2> DEFINE n == c.number
    <2>1. /\ UNCHANGED <<tables, subaccounts>>
          /\ o \in DOMAIN organizations /\ n \in Numbers
      BY <1>0, <1>6 DEF BuyNumber, GoodCreation, Kept, Provisioning, At, Chosen
    <2>2. CASE Raises(o) /\ UNCHANGED holder
      BY <2>1, <2>2, RaisesGood, TablesKept DEF tables, twilio
    <2>3. CASE /\ holder[n] = NoAccount
               /\ holder' = [holder EXCEPT ![n] = o]
               /\ Acknowledged(o, "service")
      <3>1. "service" \in Pcs
        BY DEF Pcs, Busy, Provisioning
      <3>2. creations' \in [Orgs -> Creation] /\ CreationsInv' /\ Disturbances1
        BY <2>1, <2>3, <3>1, AcknowledgedGood DEF tables
      <3> HIDE DEF n
      <3>3. /\ holder' \in [Phones -> Accounts]
            /\ \A m \in Numbers : holder'[m] \in Orgs \cup {NoAccount}
            /\ HolderGrows
        BY <2>1, <2>3 DEF OrgsInv, OrganizationsTypeOK, Accounts, Phones, HolderGrows
      <3> QED
        BY <2>1, <3>2, <3>3 DEF OrgsInv, OrganizationsTypeOK, Disturbances1, tables
    <2> QED
      BY <1>6, <2>2, <2>3 DEF BuyNumber
  <1>7. CASE PublishNumber(o)
    <2> DEFINE n == c.number
    <2>1. /\ UNCHANGED <<members, secrets, twilio>>
          /\ o \in DOMAIN organizations /\ n \in Numbers
      BY <1>0, <1>7 DEF PublishNumber, GoodCreation, Kept, Provisioning, At, Chosen
    <2>2. CASE Raises(o) /\ UNCHANGED organizations
      BY <2>1, <2>2, RaisesGood, TablesKept DEF tables
    <2>3. CASE /\ organizations' = [organizations EXCEPT ![o].phone = n, ![o].subaccount = o]
               /\ Acknowledged(o, "secret")
      <3>1. /\ DOMAIN organizations' = DOMAIN organizations
            /\ \A p \in DOMAIN organizations' : organizations'[p] \in Row
        BY <2>1, <2>3 DEF OrgsInv, OrganizationsTypeOK, Row, Phones
      <3>2. "secret" \in Pcs
        BY DEF Pcs, Busy, Provisioning
      <3>3. creations' \in [Orgs -> Creation] /\ CreationsInv' /\ Disturbances1
        BY <2>1, <2>3, <3>1, <3>2, AcknowledgedGood
      <3> QED
        BY <2>1, <3>1, <3>3
           DEF OrgsInv, OrganizationsTypeOK, Disturbances1, twilio, HolderGrows
    <2> QED
      BY <1>7, <2>2, <2>3 DEF PublishNumber
  <1>8. CASE StoreSecret(o)
    <2>1. /\ UNCHANGED <<organizations, members, twilio>>
          /\ secrets' = [secrets EXCEPT ![o] = o]
          /\ Acknowledged(o, "created") /\ "created" \in Pcs \ (Kept \cup Chosen)
      BY <1>8 DEF StoreSecret, Pcs, Over, Kept, Chosen, Provisioning
    <2>2. creations' \in [Orgs -> Creation] /\ CreationsInv' /\ Disturbances1
      BY <2>1, AcknowledgedGood
    <2> QED
      BY <2>1, <2>2 DEF OrgsInv, OrganizationsTypeOK, Disturbances1, twilio, HolderGrows
  <1>9. CASE CreationStops(o)
    <2>1. PICK pc \in {Raised(o), "died"} : Moves(o, pc)
      BY <1>9 DEF CreationStops
    <2>2. pc \in Pcs /\ pc \notin Kept /\ pc \notin Chosen
      BY RaisedPc DEF Pcs, Over, Kept, Chosen, Provisioning
    <2>3. creations' \in [Orgs -> Creation] /\ CreationsInv'
      BY <1>9, <2>1, <2>2, MovesGood DEF CreationStops, tables
    <2>4. Disturbances1
      BY <1>9, OrganizationsAssumption
         DEF CreationStops, Disturbed, OrgsInv, OrganizationsTypeOK, Disturbances1
    <2> QED
      BY <1>9, <2>3, <2>4, TablesKept DEF CreationStops
  <1> QED
    BY <1>1, <1>2, <1>3, <1>4, <1>5, <1>6, <1>7, <1>8, <1>9 DEF CreationRuns

\* So does an edit by a member.
LEMMA EditStep ==
  ASSUME OrgsInv, NEW o \in Orgs, NEW u \in Users, Edit(o, u)
  PROVE  OrgsInv' /\ HolderGrows
  <1>1. ASSUME NEW phone \in Typed, UpdateOrganization(o, u, phone)
        PROVE  OrgsInv' /\ HolderGrows
    <2>1. /\ DOMAIN organizations' = DOMAIN organizations
          /\ \A p \in DOMAIN organizations' : organizations'[p] \in Row
      BY <1>1, OrganizationsAssumption
         DEF UpdateOrganization, OrgsInv, OrganizationsTypeOK, Row
    <2>2. Disturbances1
      BY <1>1, OrganizationsAssumption
         DEF UpdateOrganization, Disturbed, OrgsInv, OrganizationsTypeOK, Disturbances1
    <2> QED
      BY <1>1, <2>1, <2>2
         DEF UpdateOrganization, OrgsInv, OrganizationsTypeOK, CreationsInv, Disturbances1,
             twilio, HolderGrows
  <1>2. ASSUME NEW v \in Users, NEW role \in {"owner", "admin", "member"},
               AddOrganizationMember(o, u, v, role)
        PROVE  OrgsInv' /\ HolderGrows
    <2>1. [org |-> o, user |-> v, role |-> role] \in Member
      BY DEF Member
    <2>2. Disturbances1
      BY <1>2, OrganizationsAssumption
         DEF AddOrganizationMember, Disturbed, OrgsInv, OrganizationsTypeOK, Disturbances1
    <2> QED
      BY <1>2, <2>1, <2>2
         DEF AddOrganizationMember, OrgsInv, OrganizationsTypeOK, CreationsInv, Disturbances1,
             twilio, HolderGrows
  <1> QED
    BY <1>1, <1>2 DEF Edit

-----------------------------------------------------------------------------
(* Webhooks.                                                               *)

\* Nothing but a webhook changes what came in.
LEMMA InboundKept ==
  ASSUME Sound, HolderGrows, UNCHANGED inbound
  PROVE  InboundInv'
  <1>1. /\ WebhookTypeOK' /\ Numbers \subseteq Phones
        /\ UNCHANGED <<called, signals, webhooks>>
    BY DEF Sound, InboundInv, WebhookTypeOK, inbound, Phones
  <1>2. ASSUME NEW w \in WebhookIds
        PROVE  GoodWebhook(w)'
    <2>1. GoodWebhook(w) /\ NoAccount \notin Orgs
      BY OrganizationsAssumption DEF Sound, InboundInv
    <2>2. "unused" \notin Accepted
      BY DEF Accepted
    <2> QED
      BY <1>1, <2>1, <2>2 DEF GoodWebhook, HolderGrows
  <1>3. ASSUME NEW s \in Sids
        PROVE  GoodSignal(s)'
    <2>1. GoodSignal(s) /\ NoAccount \notin Orgs
      BY OrganizationsAssumption DEF Sound, InboundInv
    <2> QED
      BY <1>1, <2>1 DEF GoodSignal, HolderGrows
  <1> QED
    BY <1>1, <1>2, <1>3 DEF InboundInv

(* A running webhook goes on as x.                                         *)
LEMMA WebhookMoves ==
  ASSUME InboundInv, NEW w \in WebhookIds, NEW x \in Webhook,
         webhooks' = [webhooks EXCEPT ![w] = x], webhooks[w].pc # "unused", x.pc # "unused",
         UNCHANGED <<holder, called>>,
         contacts' \subseteq Orgs \X Senders, barred' \subseteq contacts',
         signals' \in [Sids -> Signal],
         \A s \in Sids : signals[s].org \in Orgs => signals'[s].org = signals[s].org,
         \A s \in Sids : GoodSignal(s)',
         x.pc \in Accepted =>
           /\ x.org \in Orgs
           /\ called[w[1]] \in Numbers => x.org = holder[called[w[1]]],
         x.pc \in {"check", "route"} => signals'[w[1]].org \in Orgs
  PROVE  InboundInv'
  <1>1. webhooks \in [WebhookIds -> Webhook]
    BY DEF InboundInv, WebhookTypeOK
  <1>2. WebhookTypeOK'
    BY <1>1 DEF InboundInv, WebhookTypeOK
  <1>3. ASSUME NEW v \in WebhookIds
        PROVE  GoodWebhook(v)'
    <2>1. GoodWebhook(v) /\ v[1] \in Sids
      BY DEF InboundInv, WebhookIds
    <2>2. CASE v = w
      BY <1>1, <2>1, <2>2 DEF GoodWebhook
    <2>3. CASE v # w
      BY <1>1, <2>1, <2>3 DEF GoodWebhook
    <2> QED
      BY <2>2, <2>3
  <1> QED
    BY <1>2, <1>3 DEF InboundInv

\* A webhook at one of these points has been received.
LEMMA RunningWebhook ==
  ASSUME InboundInv, NEW w \in WebhookIds
  PROVE  /\ webhooks \in [WebhookIds -> Webhook] /\ webhooks[w] \in Webhook
         /\ w[1] \in Sids /\ GoodWebhook(w) /\ GoodSignal(w[1])
         /\ signals \in [Sids -> Signal]
         /\ contacts \subseteq Orgs \X Senders /\ barred \subseteq contacts
         /\ "unused" \notin Accepted
  BY DEF InboundInv, WebhookTypeOK, WebhookIds, Accepted

\* Only the pc changes, no signal, and no contact is forgotten.
LEMMA PcMoves ==
  ASSUME InboundInv, NEW w \in WebhookIds, NEW x \in Webhook,
         webhooks' = [webhooks EXCEPT ![w] = x], webhooks[w].pc # "unused", x.pc # "unused",
         UNCHANGED <<holder, called, signals, barred>>,
         contacts' \subseteq Orgs \X Senders, contacts \subseteq contacts',
         x.org = webhooks[w].org,
         x.pc \in Accepted => webhooks[w].pc \in Accepted,
         x.pc \in {"check", "route"} => signals[w[1]].org \in Orgs
  PROVE  InboundInv'
  <1>1. /\ GoodWebhook(w) /\ barred \subseteq contacts
        /\ signals \in [Sids -> Signal] /\ \A s \in Sids : GoodSignal(s)
    BY DEF InboundInv, WebhookTypeOK
  <1>2. \A s \in Sids : GoodSignal(s)'
    BY <1>1 DEF GoodSignal
  <1> QED
    BY <1>1, <1>2, WebhookMoves DEF GoodWebhook

(* A recorded signal changes its status.                                   *)
LEMMA StatusKeepsOrg ==
  ASSUME InboundInv, NEW s \in Sids, signals[s].org \in Orgs,
         NEW status \in {"received", "delivered", "ignored", "failed"},
         signals' = [signals EXCEPT ![s].status = status], UNCHANGED <<holder, called>>
  PROVE  /\ signals' \in [Sids -> Signal]
         /\ \A q \in Sids : signals'[q].org = signals[q].org
         /\ \A q \in Sids : GoodSignal(q)'
  <1> DEFINE row == [signals[s] EXCEPT !.status = status]
  <1>1. /\ signals \in [Sids -> Signal] /\ \A q \in Sids : GoodSignal(q)
        /\ signals' = [signals EXCEPT ![s] = row]
    BY DEF InboundInv, WebhookTypeOK
  <1>2. row \in Signal /\ row.org = signals[s].org
    BY <1>1 DEF Signal
  <1> HIDE DEF row
  <1>3. signals[s] # NoSignal
    BY WebhookAssumption DEF NoSignal
  <1>4. ASSUME NEW q \in Sids
        PROVE  signals'[q].org = signals[q].org /\ GoodSignal(q)'
    <2>1. CASE q = s
      BY <1>1, <1>2, <1>3, <2>1 DEF GoodSignal
    <2>2. CASE q # s
      BY <1>1, <2>2 DEF GoodSignal
    <2> QED
      BY <2>1, <2>2
  <1> QED
    BY <1>1, <1>2, <1>4

\* What a webhook's step leaves alone.
LEMMA OrgsKept ==
  ASSUME OrgsInv, UNCHANGED provisioning, Disturbances1
  PROVE  OrgsInv'
  BY DEF OrgsInv, OrganizationsTypeOK, CreationsInv, Disturbances1, provisioning, tables, twilio

(* Goes and Loses change the pc, and Loses remembers the disturbance.      *)
LEMMA GoesOrLoses ==
  ASSUME Sound, NEW w \in WebhookIds, NEW pc, Goes(w, pc) \/ Loses(w, pc),
         pc \in {"find_contact", "insert_signal", "check", "route", "answered", "dialed",
                 "refused", "failed"}
  PROVE  /\ Disturbances1
         /\ \E x \in Webhook : /\ webhooks' = [webhooks EXCEPT ![w] = x]
                               /\ x.pc = pc /\ x.org = webhooks[w].org
  <1>1. webhooks[w] \in Webhook
    BY RunningWebhook DEF Sound
  <1>2. Disturbances1
    BY OrganizationsAssumption
       DEF Goes, Loses, Sound, OrgsInv, OrganizationsTypeOK, Disturbances1
  <1>3. CASE Goes(w, pc)
    <2> DEFINE x == [webhooks[w] EXCEPT !.pc = pc]
    <2>1. x \in Webhook /\ x.pc = pc /\ x.org = webhooks[w].org
      BY <1>1 DEF Webhook
    <2>2. webhooks' = [webhooks EXCEPT ![w] = x]
      BY <1>3 DEF Goes
    <2> HIDE DEF x
    <2> QED
      BY <1>2, <2>1, <2>2
  <1>4. CASE Loses(w, pc)
    <2> DEFINE x == [webhooks[w] EXCEPT !.pc = pc, !.lost = TRUE]
    <2>1. x \in Webhook /\ x.pc = pc /\ x.org = webhooks[w].org
      BY <1>1 DEF Webhook
    <2>2. webhooks' = [webhooks EXCEPT ![w] = x]
      BY <1>4 DEF Loses
    <2> HIDE DEF x
    <2> QED
      BY <1>2, <2>1, <2>2
  <1> QED
    BY <1>3, <1>4

\* A webhook arrives: the number is settled by the first delivery.
LEMMA ReceiveStep ==
  ASSUME Sound, NEW w \in WebhookIds, NEW n \in Phones, Receive(w, n)
  PROVE  Sound'
  <1>1. /\ webhooks \in [WebhookIds -> Webhook] /\ w[1] \in Sids /\ w \in Sids \X Nat
        /\ called \in [Sids -> Phones \cup {NoPhone}]
        /\ NoPhone \notin Phones /\ Numbers \subseteq Phones
    BY OrganizationsAssumption, WebhookAssumption
       DEF Sound, InboundInv, WebhookTypeOK, WebhookIds, Phones
  <1>2. /\ webhooks[w].pc = "unused" /\ holder[n] # NoAccount
        /\ called' = [called EXCEPT ![w[1]] = n]
        /\ webhooks' = [webhooks EXCEPT ![w].pc = "find_org"]
        /\ UNCHANGED <<provisioning, marred, contacts, barred, signals>>
    BY DEF Receive
  <1>3. called[w[1]] \in {n, NoPhone} /\ (w[2] = 1 => called[w[1]] = NoPhone)
    <2>1. GoodWebhook(w)
      BY DEF Sound, InboundInv
    <2> QED
      BY <1>2, <2>1 DEF GoodWebhook, Receive
  <1>4. OrgsInv'
    <2>1. Disturbances1
      BY <1>2, OrganizationsAssumption
         DEF Receive, Sound, OrgsInv, OrganizationsTypeOK, Disturbances1
    <2> QED
      BY <1>2, <2>1, OrgsKept DEF Sound
  <1>5. UNCHANGED holder
    BY <1>2 DEF provisioning, twilio
  <1>6. WebhookTypeOK'
    <2>1. [webhooks[w] EXCEPT !.pc = "find_org"] \in Webhook
      BY <1>1 DEF Webhook
    <2> QED
      BY <1>1, <1>2, <2>1 DEF Sound, InboundInv, WebhookTypeOK
  <1>7. ASSUME NEW v \in WebhookIds
        PROVE  GoodWebhook(v)'
    <2>1. GoodWebhook(v) /\ v[1] \in Sids /\ "find_org" \notin Accepted \cup {"unused", "check", "route"}
      BY DEF Sound, InboundInv, WebhookIds, Accepted
    <2>2. webhooks[w] \in Webhook /\ (v = w => webhooks'[v].pc = "find_org")
            /\ (v # w => webhooks'[v] = webhooks[v])
      BY <1>1, <1>2 DEF Webhook
    <2>3. CASE v = w
      BY <1>1, <1>2, <1>5, <2>1, <2>2, <2>3 DEF GoodWebhook
    <2>4. CASE v # w /\ v[1] # w[1]
      BY <1>1, <1>2, <1>5, <2>1, <2>2, <2>4 DEF GoodWebhook
    <2>5. CASE v # w /\ v[1] = w[1]
      <3>1. called'[v[1]] = n
        BY <1>1, <1>2, <2>5
      <3>2. CASE webhooks[v].pc # "unused"
        <4>1. called[v[1]] = n
          BY <1>1, <1>3, <2>1, <2>5, <3>2 DEF GoodWebhook
        <4> QED
          BY <1>2, <1>5, <2>1, <2>2, <2>5, <3>1, <3>2, <4>1 DEF GoodWebhook
      <3>3. CASE webhooks[v].pc = "unused"
        <4>1. v[2] # 1
          <5>1. CASE w[2] = 1
            BY <1>1, <2>5, <5>1 DEF WebhookIds
          <5>2. CASE w[2] # 1
            <6>1. called[w[1]] = n
              BY <5>2 DEF Receive
            <6> QED
              BY <1>1, <2>1, <2>5, <3>3, <6>1 DEF GoodWebhook
          <5> QED
            BY <5>1, <5>2
        <4> QED
          BY <1>2, <2>1, <2>2, <2>5, <3>3, <4>1 DEF GoodWebhook, Accepted
      <3> QED
        BY <3>2, <3>3
    <2> QED
      BY <2>3, <2>4, <2>5
  <1>8. ASSUME NEW s \in Sids
        PROVE  GoodSignal(s)'
    <2>1. GoodSignal(s)
      BY DEF Sound, InboundInv
    <2>2. CASE s = w[1] /\ called[s] = NoPhone
      BY <1>1, <1>2, <2>1, <2>2 DEF GoodSignal
    <2>3. CASE s # w[1] \/ called[s] = n
      <3>1. called'[s] = called[s]
        BY <1>1, <1>2, <2>3
      <3> QED
        BY <1>2, <1>5, <2>1, <3>1 DEF GoodSignal
    <2> QED
      BY <1>3, <2>2, <2>3
  <1> QED
    BY <1>4, <1>6, <1>7, <1>8 DEF Sound, InboundInv

(* The organization whose token the signature was made with holds the      *)
(* number.                                                                 *)
LEMMA AcceptedIsHolder ==
  ASSUME OrgsInv, NEW o \in Orgs, NEW n \in Numbers, SignatureValid(o, n),
         holder[n] # NoAccount
  PROVE  o = holder[n]
  BY OrganizationsAssumption DEF OrgsInv, SignatureValid, AuthToken

\* A webhook on its way to the signal.
LEMMA LookupStep ==
  ASSUME Sound, NEW w \in WebhookIds,
         FindOrgByPhone(w) \/ ValidateSignature(w) \/ FindContact(w) \/ InsertContact(w)
  PROVE  Sound'
  <1>0. /\ webhooks \in [WebhookIds -> Webhook] /\ webhooks[w] \in Webhook
        /\ w[1] \in Sids /\ GoodWebhook(w) /\ "unused" \notin Accepted
        /\ contacts \subseteq Orgs \X Senders /\ barred \subseteq contacts
    BY RunningWebhook DEF Sound
  <1>1. CASE FindOrgByPhone(w)
    <2>1. PICK o \in Orgs \cup {NoOrg} :
            webhooks' = [webhooks EXCEPT
              ![w].pc = "signature", ![w].org = o,
              ![w].was_barred = Kind[w[1]] = "call" /\ <<o, From[w[1]]>> \in barred,
              ![w].early = holder[called[w[1]]] \in Orgs
                             /\ creations[holder[called[w[1]]]].pc \in Busy]
      BY <1>1 DEF FindOrgByPhone, Sound, OrgsInv, OrganizationsTypeOK
    <2> DEFINE wb == (Kind[w[1]] = "call" /\ <<o, From[w[1]]>> \in barred)
               e == (holder[called[w[1]]] \in Orgs /\ creations[holder[called[w[1]]]].pc \in Busy)
               x == [webhooks[w] EXCEPT !.pc = "signature", !.org = o,
                       !.was_barred = wb, !.early = e]
    <2>2. wb \in BOOLEAN /\ e \in BOOLEAN
      OBVIOUS
    <2>3. webhooks' = [webhooks EXCEPT ![w] = x]
      BY <2>1
    <2> HIDE DEF wb, e
    <2>4. x \in Webhook /\ x.pc = "signature"
      BY <1>0, <2>2 DEF Webhook
    <2> HIDE DEF x
    <2>5. UNCHANGED <<provisioning, calm, marred, contacts, barred, called, signals>>
      BY <1>1 DEF FindOrgByPhone
    <2>6. webhooks[w].pc # "unused" /\ "signature" \notin Accepted
      BY <1>1 DEF FindOrgByPhone, Reaches, Accepted
    <2>7. InboundInv'
      <3>1. \A s \in Sids : GoodSignal(s)'
        BY <2>5 DEF Sound, InboundInv, GoodSignal, provisioning, twilio
      <3> QED
        BY <1>0, <2>3, <2>4, <2>5, <2>6, <3>1, WebhookMoves
           DEF Sound, InboundInv, WebhookTypeOK, provisioning, twilio
    <2> QED
      BY <2>5, <2>7, OrgsKept DEF Sound, Disturbances1, OrgsInv, OrganizationsTypeOK
  <1>2. CASE ValidateSignature(w)
    <2> DEFINE o == webhooks[w].org
               pc == IF SignatureValid(o, called[w[1]]) /\ o # NoOrg THEN "find_contact"
                     ELSE "refused"
    <2>1. /\ webhooks[w].pc = "signature" /\ Goes(w, pc)
          /\ UNCHANGED <<provisioning, contacts, barred, called, signals>>
      BY <1>2 DEF ValidateSignature, Reaches
    <2>2. PICK x \in Webhook : /\ webhooks' = [webhooks EXCEPT ![w] = x]
                               /\ x.pc = pc /\ x.org = o
      BY <2>1, GoesOrLoses
    <2>3. Disturbances1
      BY <2>1, GoesOrLoses
    <2>4. pc \in Accepted => /\ o \in Orgs
                             /\ called[w[1]] \in Numbers => o = holder[called[w[1]]]
      <3>1. pc \in Accepted => SignatureValid(o, called[w[1]]) /\ o \in Orgs
        BY <1>0 DEF Accepted, Webhook
      <3>2. holder[called[w[1]]] # NoAccount
        BY <1>0, <2>1 DEF GoodWebhook
      <3> QED
        BY <3>1, <3>2, AcceptedIsHolder DEF Sound
    <2>5. \A s \in Sids : GoodSignal(s)'
      BY <2>1 DEF Sound, InboundInv, GoodSignal, provisioning, twilio
    <2>6. pc \notin {"unused", "check", "route"}
      OBVIOUS
    <2> HIDE DEF pc
    <2>7. /\ UNCHANGED <<holder, called, signals>>
          /\ contacts' \subseteq Orgs \X Senders /\ barred' \subseteq contacts'
          /\ signals' \in [Sids -> Signal]
      BY <1>0, <2>1, RunningWebhook DEF Sound, provisioning, twilio
    <2>8. InboundInv'
      <3>1. x.pc \in Accepted => /\ x.org \in Orgs
                                 /\ called[w[1]] \in Numbers => x.org = holder[called[w[1]]]
        BY <2>2, <2>4
      <3>2. /\ webhooks[w].pc # "unused" /\ x.pc # "unused"
            /\ x.pc \in {"check", "route"} => signals'[w[1]].org \in Orgs
            /\ \A s \in Sids : signals[s].org \in Orgs => signals'[s].org = signals[s].org
        BY <2>1, <2>2, <2>6, <2>7
      <3>3. webhooks' = [webhooks EXCEPT ![w] = x] /\ InboundInv
        BY <2>2 DEF Sound
      <3> HIDE DEF o
      <3> QED
        BY <2>5, <2>7, <3>1, <3>2, <3>3, WebhookMoves
    <2> QED
      BY <2>1, <2>3, <2>8, OrgsKept DEF Sound
  <1>3. CASE FindContact(w)
    <2> DEFINE d == (Kind[w[1]] = "call" /\ Caller(w) \in barred)
               pc == IF Caller(w) \in contacts THEN "insert_signal" ELSE "insert_contact"
               x == [webhooks[w] EXCEPT !.pc = pc, !.denied = d]
    <2>1. /\ webhooks' = [webhooks EXCEPT ![w] = x]
          /\ webhooks[w].pc = "find_contact"
          /\ UNCHANGED <<provisioning, calm, marred, contacts, barred, called, signals>>
      BY <1>3 DEF FindContact, Reaches
    <2>2. d \in BOOLEAN /\ pc \in {"insert_signal", "insert_contact"}
      OBVIOUS
    <2> HIDE DEF d, pc
    <2>3. x \in Webhook /\ x.pc = pc /\ x.org = webhooks[w].org
      BY <1>0, <2>2 DEF Webhook
    <2> HIDE DEF x
    <2>4. InboundInv'
      BY <1>0, <2>1, <2>2, <2>3, PcMoves DEF Sound, Accepted, provisioning, twilio
    <2> QED
      BY <2>1, <2>4, OrgsKept DEF Sound, Disturbances1, OrgsInv, OrganizationsTypeOK
  <1>4. CASE InsertContact(w)
    <2>1. /\ webhooks[w].pc = "insert_contact"
          /\ contacts' = contacts \cup {Caller(w)}
          /\ UNCHANGED <<provisioning, barred, called, signals>>
      BY <1>4 DEF InsertContact, Reaches
    <2>2. PICK pc \in {"insert_signal", "failed"} : Goes(w, pc) \/ Loses(w, pc)
      BY <1>4 DEF InsertContact
    <2>3. PICK x \in Webhook : /\ webhooks' = [webhooks EXCEPT ![w] = x]
                               /\ x.pc = pc /\ x.org = webhooks[w].org
      BY <2>2, GoesOrLoses
    <2>4. Disturbances1
      BY <2>2, GoesOrLoses
    <2>5. Caller(w) \in Orgs \X Senders
      BY <1>0, <2>1, WebhookAssumption DEF GoodWebhook, Accepted, Caller
    <2>6. InboundInv'
      BY <1>0, <2>1, <2>2, <2>3, <2>5, PcMoves DEF Sound, Accepted, provisioning, twilio
    <2> QED
      BY <2>1, <2>4, <2>6, OrgsKept DEF Sound
  <1> QED
    BY <1>1, <1>2, <1>3, <1>4

(* A webhook records its signal or finds it recorded.                      *)
LEMMA RecordStep ==
  ASSUME Sound, NEW w \in WebhookIds, InsertSignal(w)
  PROVE  Sound'
  <1> DEFINE s == w[1]
             row == [org |-> webhooks[w].org, status |-> "received"]
  <1>0. /\ webhooks \in [WebhookIds -> Webhook] /\ webhooks[w] \in Webhook
        /\ s \in Sids /\ GoodWebhook(w) /\ GoodSignal(s) /\ signals \in [Sids -> Signal]
        /\ contacts \subseteq Orgs \X Senders /\ barred \subseteq contacts
    BY RunningWebhook DEF Sound
  <1>1. /\ webhooks[w].pc = "insert_signal"
        /\ UNCHANGED <<provisioning, contacts, barred, called>>
    BY DEF InsertSignal, Reaches
  <1>2. /\ webhooks[w].org \in Orgs
        /\ called[s] \in Numbers => webhooks[w].org = holder[called[s]]
        /\ called[s] # NoPhone
    BY <1>0, <1>1, OrganizationsAssumption DEF GoodWebhook, Accepted
  <1>3. PICK pc \in {"answered", "check", "route"} : Goes(w, pc) \/ Loses(w, pc)
    BY <1>0, WebhookAssumption DEF InsertSignal, AfterDuplicate
  <1>4. PICK x \in Webhook : /\ webhooks' = [webhooks EXCEPT ![w] = x]
                             /\ x.pc = pc /\ x.org = webhooks[w].org
    BY <1>3, GoesOrLoses
  <1>5. Disturbances1
    BY <1>3, GoesOrLoses
  <1>6. CASE signals[s] # NoSignal /\ UNCHANGED signals
    <2>1. signals[s].org \in Orgs
      BY <1>0, <1>6 DEF GoodSignal
    <2>2. InboundInv'
      BY <1>0, <1>1, <1>3, <1>4, <1>6, <2>1, PcMoves DEF Sound, Accepted, provisioning, twilio
    <2> QED
      BY <1>1, <1>5, <2>2, OrgsKept DEF Sound
  <1>7. CASE signals[s] = NoSignal /\ signals' = [signals EXCEPT ![s] = row]
    <2>1. row \in Signal /\ row.org = webhooks[w].org
      BY <1>2 DEF Signal
    <2> HIDE DEF row
    <2>2. /\ signals' \in [Sids -> Signal] /\ signals'[s].org = webhooks[w].org
          /\ \A q \in Sids : signals[q].org \in Orgs => signals'[q].org = signals[q].org
      <3>1. signals[s].org \notin Orgs
        BY <1>7, WebhookAssumption DEF NoSignal
      <3> QED
        BY <1>0, <1>7, <2>1, <3>1
    <2>3. ASSUME NEW q \in Sids
          PROVE  GoodSignal(q)'
      <3>1. GoodSignal(q) /\ UNCHANGED <<holder, called>>
        BY <1>1 DEF Sound, InboundInv, provisioning, twilio
      <3>2. CASE q = s
        BY <1>0, <1>2, <1>7, <2>2, <3>1, <3>2 DEF GoodSignal
      <3>3. CASE q # s
        BY <1>0, <1>7, <3>1, <3>3 DEF GoodSignal
      <3> QED
        BY <3>2, <3>3
    <2>4. pc \notin {"unused"} /\ webhooks[w].pc # "unused"
      BY <1>1
    <2>5. InboundInv'
      BY <1>0, <1>1, <1>2, <1>4, <2>2, <2>3, <2>4, WebhookMoves
         DEF Sound, provisioning, twilio
    <2> QED
      BY <1>1, <1>5, <2>5, OrgsKept DEF Sound
  <1> QED
    BY <1>6, <1>7 DEF InsertSignal, Recorded

(* A webhook's end.                                                        *)
LEMMA EndStep ==
  ASSUME Sound, NEW w \in WebhookIds, RouteText(w) \/ AnswerCall(w) \/ WebhookFails(w)
  PROVE  Sound'
  <1>0. /\ webhooks \in [WebhookIds -> Webhook] /\ webhooks[w] \in Webhook
        /\ w[1] \in Sids /\ GoodWebhook(w) /\ signals \in [Sids -> Signal]
        /\ contacts \subseteq Orgs \X Senders /\ barred \subseteq contacts
    BY RunningWebhook DEF Sound
  <1>1. UNCHANGED <<provisioning, contacts, barred, called>> /\ webhooks[w].pc # "unused"
    BY DEF RouteText, AnswerCall, WebhookFails, Reaches
  <1>2. PICK pc \in {"answered", "dialed", "failed"} : Goes(w, pc) \/ Loses(w, pc)
    BY DEF RouteText, AnswerCall, WebhookFails
  <1>3. PICK x \in Webhook : /\ webhooks' = [webhooks EXCEPT ![w] = x]
                             /\ x.pc = pc /\ x.org = webhooks[w].org
    BY <1>2, GoesOrLoses
  <1>4. Disturbances1
    BY <1>2, GoesOrLoses
  <1>5. CASE WebhookFails(w)
    <2>1. InboundInv'
      BY <1>0, <1>1, <1>2, <1>3, <1>5, PcMoves
         DEF WebhookFails, Sound, Accepted, provisioning, twilio
    <2> QED
      BY <1>1, <1>4, <2>1, OrgsKept DEF Sound
  <1>6. CASE RouteText(w) \/ AnswerCall(w)
    <2>1. signals[w[1]].org \in Orgs
      BY <1>0, <1>6 DEF RouteText, AnswerCall, Reaches, GoodWebhook
    <2>2. PICK status \in {"delivered", "failed", "ignored"} :
            signals' = [signals EXCEPT ![w[1]].status = status]
      BY <1>6 DEF RouteText, AnswerCall
    <2>3. /\ signals' \in [Sids -> Signal]
          /\ \A q \in Sids : signals'[q].org = signals[q].org
          /\ \A q \in Sids : GoodSignal(q)'
      BY <1>0, <1>1, <2>1, <2>2, StatusKeepsOrg DEF Sound, provisioning, twilio
    <2>4. pc \notin Accepted /\ pc \notin {"unused", "check", "route"}
      BY <1>2 DEF Accepted
    <2>5. InboundInv'
      BY <1>0, <1>1, <1>3, <2>3, <2>4, WebhookMoves DEF Sound, provisioning, twilio
    <2> QED
      BY <1>1, <1>4, <2>5, OrgsKept DEF Sound
  <1> QED
    BY <1>5, <1>6

-----------------------------------------------------------------------------
\* The invariant holds at first ...
LEMMA SoundInit == Init => Sound
  <1> SUFFICES ASSUME Init PROVE Sound
    OBVIOUS
  <1>1. OrganizationsInit /\ WebhookInit
    BY DEF Init
  <1>2. ASSUME NEW o \in Orgs
        PROVE  creations[o] \in Creation /\ creations[o].pc = "unused"
    <2>1. PICK body \in [Orgs -> Bodies] :
            creations = [p \in Orgs |->
              [pc |-> "unused", user |-> body[p].user, slug |-> body[p].slug,
               phone |-> body[p].phone, number |-> NoPhone]]
      BY <1>1 DEF OrganizationsInit
    <2>2. body[o] \in [user: Users, slug: Slugs, phone: Phones \cup {NoPhone}]
      BY OrganizationsAssumption
    <2> QED
      BY <2>1, <2>2 DEF Creation
  <1>3. OrganizationsTypeOK
    <2>1. creations \in [Orgs -> Creation]
      BY <1>1, <1>2 DEF OrganizationsInit
    <2>2. holder \in [Phones -> Accounts] /\ subaccounts \in [Orgs -> {"none"}]
      BY <1>1 DEF OrganizationsInit, Accounts
    <2> QED
      BY <1>1, <2>1, <2>2, OrganizationsAssumption DEF OrganizationsInit, OrganizationsTypeOK
  <1>4. OrgsInv
    <2>1. CreationsInv
      BY <1>2 DEF CreationsInv, GoodCreation, Kept, Chosen, Provisioning
    <2>2. \A n \in Numbers : holder[n] = NoAccount
      BY <1>1, OrganizationsAssumption DEF OrganizationsInit, Phones
    <2> QED
      BY <1>1, <1>3, <2>1, <2>2 DEF OrgsInv, OrganizationsInit
  <1>5. InboundInv
    <2>1. WebhookTypeOK
      BY <1>1 DEF WebhookInit, WebhookTypeOK, Signal, NoSignal, Webhook
    <2>2. ASSUME NEW w \in WebhookIds
          PROVE  GoodWebhook(w)
      <3>1. w[1] \in Sids /\ webhooks[w].pc = "unused" /\ called[w[1]] = NoPhone
        BY <1>1 DEF WebhookInit, WebhookIds
      <3> QED
        BY <3>1 DEF GoodWebhook, Accepted
    <2>3. \A s \in Sids : GoodSignal(s)
      BY <1>1 DEF WebhookInit, GoodSignal
    <2> QED
      BY <2>1, <2>2, <2>3 DEF InboundInv
  <1> QED
    BY <1>4, <1>5 DEF Sound

\* ... and every step keeps it.
LEMMA SoundStep ==
  ASSUME Sound, [Next]_vars
  PROVE  Sound'
  <1>1. CASE UNCHANGED vars
    <2>1. UNCHANGED inbound /\ HolderGrows
      BY <1>1 DEF vars, inbound, HolderGrows
    <2>2. OrgsInv'
      BY <1>1, OrgsKept
         DEF Sound, vars, provisioning, tables, twilio, Disturbances1, OrgsInv,
             OrganizationsTypeOK
    <2> QED
      BY <2>1, <2>2, InboundKept DEF Sound
  <1>2. ASSUME NEW o \in Orgs, Create(o)
        PROVE  Sound'
    BY <1>2, CreateStep, InboundKept DEF Create, Sound
  <1>3. ASSUME NEW o \in Orgs, NEW u \in Users, Edit(o, u)
        PROVE  Sound'
    <2>1. UNCHANGED inbound
      BY <1>3 DEF Edit
    <2> QED
      BY <1>3, <2>1, EditStep, InboundKept DEF Sound
  <1>4. ASSUME NEW w \in WebhookIds, Call(w)
        PROVE  Sound'
    BY <1>4, ReceiveStep, LookupStep, RecordStep, EndStep DEF Call, WebhookRuns
  <1>5. ASSUME NEW contact \in contacts, BarContact(contact)
        PROVE  Sound'
    <2>1. OrgsInv'
      BY <1>5, OrgsKept DEF BarContact, Sound, Disturbances1, OrgsInv, OrganizationsTypeOK
    <2>2. WebhookTypeOK'
      BY <1>5 DEF BarContact, Sound, InboundInv, WebhookTypeOK
    <2>3. UNCHANGED <<holder, called, signals, webhooks>>
      BY <1>5 DEF BarContact, provisioning, twilio
    <2>4. (\A w \in WebhookIds : GoodWebhook(w)') /\ (\A s \in Sids : GoodSignal(s)')
      BY <2>3 DEF Sound, InboundInv, GoodWebhook, GoodSignal
    <2> QED
      BY <2>1, <2>2, <2>4 DEF Sound, InboundInv
  <1> QED
    BY <1>1, <1>2, <1>3, <1>4, <1>5 DEF Next

\* It holds always.
LEMMA SoundAlways == Spec => []Sound
  BY SoundInit, SoundStep, PTL DEF Spec

(* Every variable keeps its type, whatever is created, edited, called and  *)
(* lost.                                                                   *)
THEOREM OrgSetupTypes == Spec => []TypeOK
  <1>1. Sound => TypeOK
    BY DEF Sound, OrgsInv, InboundInv, TypeOK
  <1> QED
    BY <1>1, SoundAlways, PTL

(* A text or call to a number an organization bought is never recorded for *)
(* another organization.                                                   *)
THEOREM MessagesStay == Spec => []MessagesStayInTheirOrganization
  <1>1. Sound => MessagesStayInTheirOrganization
    BY DEF Sound, InboundInv, GoodSignal, MessagesStayInTheirOrganization
  <1> QED
    BY <1>1, SoundAlways, PTL

-----------------------------------------------------------------------------
(* What a webhook's step does to its record.                               *)

\* The record of w, and no other, goes on to pc.
Onward(w, pc) ==
  /\ webhooks' = [webhooks EXCEPT ![w] = webhooks'[w]]
  /\ webhooks'[w].pc = pc

\* What was found out about a webhook stays.
SameFacts(w) ==
  /\ webhooks'[w].org = webhooks[w].org
  /\ webhooks'[w].early = webhooks[w].early
  /\ webhooks'[w].was_barred = webhooks[w].was_barred
  /\ webhooks[w].lost => webhooks'[w].lost

LEMMA GoesOnward ==
  ASSUME Sound, NEW w \in WebhookIds, NEW pc, Goes(w, pc) \/ Loses(w, pc)
  PROVE  /\ Onward(w, pc) /\ SameFacts(w)
         /\ webhooks'[w].denied = webhooks[w].denied
         /\ Loses(w, pc) => webhooks'[w].lost
         /\ UNCHANGED marred
  <1>1. webhooks \in [WebhookIds -> Webhook] /\ webhooks[w] \in Webhook
    BY RunningWebhook DEF Sound
  <1> QED
    BY <1>1 DEF Goes, Loses, Onward, SameFacts, Webhook

LEMMA ReceivedOnward ==
  ASSUME Sound, NEW w \in WebhookIds, NEW n \in Phones, Receive(w, n)
  PROVE  Onward(w, "find_org") /\ SameFacts(w)
  <1>1. webhooks \in [WebhookIds -> Webhook] /\ webhooks[w] \in Webhook
    BY RunningWebhook DEF Sound
  <1> QED
    BY <1>1 DEF Receive, Onward, SameFacts, Webhook

\* o is what FindOrgByPhone may find.
FoundBy(o, n) ==
  LET found == {p \in DOMAIN organizations : organizations[p].phone = n}
  IN  o \in IF found = {} THEN {NoOrg} ELSE found

LEMMA FoundOnward ==
  ASSUME Sound, NEW w \in WebhookIds, FindOrgByPhone(w)
  PROVE  /\ Onward(w, "signature")
         /\ FoundBy(webhooks'[w].org, called[w[1]])
         /\ webhooks'[w].was_barred <=>
              Kind[w[1]] = "call" /\ <<webhooks'[w].org, From[w[1]]>> \in barred
         /\ webhooks'[w].early <=> /\ holder[called[w[1]]] \in Orgs
                                   /\ creations[holder[called[w[1]]]].pc \in Busy
         /\ webhooks[w].lost => webhooks'[w].lost
  <1>1. webhooks \in [WebhookIds -> Webhook] /\ webhooks[w] \in Webhook
    BY RunningWebhook DEF Sound
  <1>2. PICK o : /\ FoundBy(o, called[w[1]])
                 /\ webhooks' = [webhooks EXCEPT
                      ![w].pc = "signature", ![w].org = o,
                      ![w].was_barred = Kind[w[1]] = "call" /\ <<o, From[w[1]]>> \in barred,
                      ![w].early = holder[called[w[1]]] \in Orgs
                                     /\ creations[holder[called[w[1]]]].pc \in Busy]
    BY DEF FindOrgByPhone, FoundBy
  <1>3. webhooks'[w].org = o
    BY <1>1, <1>2 DEF Webhook
  <1> QED
    BY <1>1, <1>2, <1>3 DEF Onward, Webhook

LEMMA ContactOnward ==
  ASSUME Sound, NEW w \in WebhookIds, FindContact(w)
  PROVE  /\ Onward(w, IF Caller(w) \in contacts THEN "insert_signal" ELSE "insert_contact")
         /\ SameFacts(w)
         /\ webhooks'[w].denied <=> Kind[w[1]] = "call" /\ Caller(w) \in barred
  <1>1. webhooks \in [WebhookIds -> Webhook] /\ webhooks[w] \in Webhook
    BY RunningWebhook DEF Sound
  <1> QED
    BY <1>1 DEF FindContact, Onward, SameFacts, Webhook

-----------------------------------------------------------------------------
(* Callers who are barred.                                                 *)

(* A caller who was barred when the organization was looked up is barred   *)
(* when the contact is read, and so denied at the end.                     *)
Barring(w) ==
  /\ webhooks[w].pc \in {"unused", "find_org"} => ~webhooks[w].was_barred
  /\ webhooks[w].was_barred => Kind[w[1]] = "call" /\ Caller(w) \in barred
  /\ webhooks[w].was_barred /\ webhooks[w].pc \in {"insert_contact", "insert_signal", "check"}
       => webhooks[w].denied
  /\ webhooks[w].pc = "dialed" => ~webhooks[w].was_barred /\ signals[w[1]] # NoSignal

AllBarring == \A w \in WebhookIds : Barring(w)

\* A webhook goes on; no bar and no signal is dropped.
LEMMA BarringMoves ==
  ASSUME Sound, AllBarring, NEW w \in WebhookIds, NEW pc, Onward(w, pc),
         barred \subseteq barred',
         \A s \in Sids : signals[s] # NoSignal => signals'[s] # NoSignal,
         Barring(w)'
  PROVE  AllBarring'
  <1> SUFFICES ASSUME NEW v \in WebhookIds, v # w PROVE Barring(v)'
    BY DEF AllBarring
  <1>1. webhooks'[v] = webhooks[v] /\ v[1] \in Sids /\ Barring(v)
    BY DEF Sound, InboundInv, WebhookTypeOK, WebhookIds, Onward, AllBarring
  <1> QED
    BY <1>1 DEF Barring, Caller

LEMMA BarringStep ==
  ASSUME Sound, AllBarring, [Next]_vars
  PROVE  AllBarring'
  <1>1. CASE UNCHANGED <<signals, webhooks>> /\ barred \subseteq barred'
    BY <1>1 DEF AllBarring, Barring, Caller
  <1>2. ASSUME NEW w \in WebhookIds, Call(w)
        PROVE  AllBarring'
    <2>0. /\ w[1] \in Sids /\ Barring(w) /\ GoodWebhook(w)
          /\ signals \in [Sids -> Signal] /\ NoOrg \notin Orgs
      BY RunningWebhook, WebhookAssumption DEF Sound, AllBarring
    <2>1. ASSUME NEW n \in Phones, Receive(w, n)
          PROVE  AllBarring'
      <3>1. Onward(w, "find_org") /\ SameFacts(w) /\ UNCHANGED <<barred, signals>>
              /\ webhooks[w].pc = "unused"
        BY <2>1, ReceivedOnward DEF Receive
      <3>2. Barring(w)'
        BY <2>0, <3>1 DEF Barring, Onward, SameFacts
      <3> QED
        BY <3>1, <3>2, BarringMoves
    <2>2. CASE FindOrgByPhone(w)
      <3>1. /\ Onward(w, "signature") /\ UNCHANGED <<barred, signals>>
            /\ webhooks'[w].was_barred =>
                 Kind[w[1]] = "call" /\ <<webhooks'[w].org, From[w[1]]>> \in barred
        BY <2>2, FoundOnward DEF FindOrgByPhone
      <3>2. Barring(w)'
        BY <3>1 DEF Barring, Onward, Caller
      <3> QED
        BY <3>1, <3>2, BarringMoves
    <2>3. CASE FindContact(w)
      <3>1. PICK pc \in {"insert_signal", "insert_contact"} :
              /\ Onward(w, pc) /\ SameFacts(w) /\ UNCHANGED <<barred, signals>>
              /\ webhooks'[w].denied <=> Kind[w[1]] = "call" /\ Caller(w) \in barred
        BY <2>3, ContactOnward DEF FindContact
      <3>2. Barring(w)'
        BY <2>0, <3>1 DEF Barring, Onward, SameFacts, Caller
      <3> QED
        BY <3>1, <3>2, BarringMoves
    <2>4. ASSUME NEW pc, Goes(w, pc) \/ Loses(w, pc), UNCHANGED barred,
                 \A s \in Sids : signals[s] # NoSignal => signals'[s] # NoSignal,
                 webhooks[w].pc \notin {"unused", "find_org"}, pc \notin {"unused", "find_org"},
                 pc \in {"insert_contact", "insert_signal", "check"} =>
                   webhooks[w].pc \in {"insert_contact", "insert_signal", "check"},
                 pc = "dialed" => /\ webhooks[w].pc = "check" /\ ~webhooks[w].denied
                                  /\ signals'[w[1]] # NoSignal
          PROVE  AllBarring'
      <3>1. Onward(w, pc) /\ SameFacts(w) /\ webhooks'[w].denied = webhooks[w].denied
        BY <2>4, GoesOnward
      <3>2. Barring(w)'
        BY <2>0, <2>4, <3>1 DEF Barring, Onward, SameFacts, Caller
      <3> QED
        BY <2>4, <3>1, <3>2, BarringMoves
    <2>5. CASE ValidateSignature(w)
      BY <2>4, <2>5 DEF ValidateSignature, Reaches
    <2>6. CASE InsertContact(w)
      BY <2>4, <2>6 DEF InsertContact, Reaches
    <2>7. CASE InsertSignal(w)
      <3>1. \A s \in Sids : signals[s] # NoSignal => signals'[s] # NoSignal
        BY <2>0, <2>7 DEF InsertSignal, Recorded
      <3>2. PICK pc \in {"answered", "check", "route"} : Goes(w, pc) \/ Loses(w, pc)
        BY <2>7 DEF InsertSignal, AfterDuplicate
      <3> QED
        BY <2>4, <2>7, <3>1, <3>2 DEF InsertSignal, Reaches
    <2>8. CASE RouteText(w) \/ AnswerCall(w)
      <3>1. signals[w[1]].org \in Orgs
        BY <2>0, <2>8 DEF RouteText, AnswerCall, Reaches, GoodWebhook
      <3>2. PICK status \in {"delivered", "failed", "ignored"} :
              signals' = [signals EXCEPT ![w[1]].status = status]
        BY <2>8 DEF RouteText, AnswerCall
      <3>3. \A s \in Sids : signals[s] # NoSignal => signals'[s] # NoSignal
        BY <2>0, <3>2 DEF Signal, NoSignal
      <3>4. signals'[w[1]] # NoSignal
        BY <2>0, <3>2 DEF Signal, NoSignal
      <3>5. webhooks[w].pc \in {"check", "route"} /\ UNCHANGED barred
        BY <2>8 DEF RouteText, AnswerCall, Reaches
      <3>6. PICK pc \in {"answered", "dialed"} :
              /\ Goes(w, pc) \/ Loses(w, pc)
              /\ pc = "dialed" => webhooks[w].pc = "check" /\ ~webhooks[w].denied
        BY <2>8 DEF RouteText, AnswerCall, Reaches
      <3> QED
        BY <2>4, <3>3, <3>4, <3>5, <3>6
    <2>9. CASE WebhookFails(w)
      <3>1. Onward(w, "failed") /\ SameFacts(w) /\ UNCHANGED <<barred, signals>>
        BY <2>9, GoesOnward DEF WebhookFails
      <3>2. Barring(w)'
        BY <2>0, <3>1 DEF Barring, Onward, SameFacts, Caller
      <3> QED
        BY <3>1, <3>2, BarringMoves
    <2> QED
      BY <1>2, <2>1, <2>2, <2>3, <2>5, <2>6, <2>7, <2>8, <2>9 DEF Call, WebhookRuns
  <1>3. ASSUME NEW contact \in contacts, BarContact(contact)
        PROVE  AllBarring'
    BY <1>1, <1>3 DEF BarContact
  <1>4. CASE UNCHANGED inbound
    BY <1>1, <1>4 DEF inbound
  <1>5. CASE UNCHANGED vars
    BY <1>1, <1>5 DEF vars
  <1> QED
    BY <1>2, <1>3, <1>4, <1>5 DEF Next, Create, Edit

(* No delivery of a call dials the agent for a caller who was barred when  *)
(* it arrived, however often it is delivered and whenever the bar is set.  *)
THEOREM BarredAreNotDialed == Spec => []BarredCallersAreNotDialed
  <1>1. Init => AllBarring
    BY DEF Init, WebhookInit, AllBarring, Barring
  <1>2. Sound /\ AllBarring /\ [Next]_vars => AllBarring'
    BY BarringStep
  <1>3. AllBarring => BarredCallersAreNotDialed
    BY DEF AllBarring, Barring, BarredCallersAreNotDialed
  <1> QED
    BY <1>1, <1>2, <1>3, SoundAlways, PTL DEF Spec

-----------------------------------------------------------------------------
(* Texts.                                                                  *)

\* A text received and not yet routed is about to be, or was disturbed.
TextRouted(s) ==
  Kind[s] = "sms" =>
    /\ signals[s] # NoSignal => signals[s].status \in {"received", "delivered", "failed"}
    /\ signals[s] # NoSignal /\ signals[s].status = "received" =>
         \E v \in WebhookIds : v[1] = s /\ (webhooks[v].lost \/ webhooks[v].pc = "route")

TextAnswered(w) ==
  Kind[w[1]] = "sms" =>
    /\ webhooks[w].pc \notin {"check", "dialed"}
    /\ webhooks[w].pc = "answered" => signals[w[1]] # NoSignal

Texts == (\A s \in Sids : TextRouted(s)) /\ (\A w \in WebhookIds : TextAnswered(w))

LEMMA TextsMove ==
  ASSUME Sound, Texts, NEW w \in WebhookIds, NEW pc, Onward(w, pc),
         \A s \in Sids \ {w[1]} : signals'[s] = signals[s],
         signals[w[1]] # NoSignal => signals'[w[1]] # NoSignal,
         TextRouted(w[1])', TextAnswered(w)'
  PROVE  Texts'
  <1>1. \A v \in WebhookIds : v[1] \in Sids /\ (v # w => webhooks'[v] = webhooks[v])
    BY DEF Sound, InboundInv, WebhookTypeOK, WebhookIds, Onward
  <1>2. ASSUME NEW v \in WebhookIds, v # w
        PROVE  TextAnswered(v)'
    <2>1. TextAnswered(v) /\ v[1] \in Sids /\ webhooks'[v] = webhooks[v]
      BY <1>1, <1>2 DEF Texts
    <2> QED
      BY <2>1 DEF TextAnswered
  <1>3. ASSUME NEW s \in Sids, s # w[1]
        PROVE  TextRouted(s)'
    <2>1. TextRouted(s) /\ signals'[s] = signals[s]
      BY <1>3 DEF Texts
    <2>2. \A v \in WebhookIds : v[1] = s => webhooks'[v] = webhooks[v]
      BY <1>1, <1>3
    <2> QED
      BY <2>1, <2>2 DEF TextRouted
  <1> QED
    BY <1>2, <1>3 DEF Texts

\* A step that leaves the signals alone, and abandons no routing unseen.
LEMMA QuietTexts ==
  ASSUME Sound, Texts, NEW w \in WebhookIds, NEW pc, Onward(w, pc), UNCHANGED signals,
         webhooks[w].lost => webhooks'[w].lost,
         webhooks[w].pc = "route" => webhooks'[w].lost,
         pc \notin {"check", "dialed"},
         pc = "answered" => signals[w[1]] # NoSignal
  PROVE  Texts'
  <1>1. \A v \in WebhookIds : v # w => webhooks'[v] = webhooks[v]
    BY DEF Sound, InboundInv, WebhookTypeOK, Onward
  <1>2. TextRouted(w[1]) /\ w[1] \in Sids
    BY DEF Texts, WebhookIds
  <1>3. TextRouted(w[1])'
    BY <1>1, <1>2 DEF TextRouted
  <1>4. TextAnswered(w)'
    BY DEF TextAnswered, Onward
  <1> QED
    BY <1>3, <1>4, TextsMove

LEMMA TextsStep ==
  ASSUME Sound, Texts, [Next]_vars
  PROVE  Texts'
  <1>1. CASE UNCHANGED <<signals, webhooks>>
    BY <1>1 DEF Texts, TextRouted, TextAnswered
  <1>2. ASSUME NEW w \in WebhookIds, Call(w)
        PROVE  Texts'
    <2>0. /\ w[1] \in Sids /\ TextRouted(w[1]) /\ TextAnswered(w) /\ GoodWebhook(w)
          /\ signals \in [Sids -> Signal] /\ NoOrg \notin Orgs
      BY RunningWebhook, WebhookAssumption DEF Sound, Texts
    <2>1. ASSUME NEW n \in Phones, Receive(w, n)
          PROVE  Texts'
      BY <2>1, ReceivedOnward, QuietTexts DEF Receive, SameFacts
    <2>2. CASE FindOrgByPhone(w)
      BY <2>2, FoundOnward, QuietTexts DEF FindOrgByPhone, Reaches
    <2>3. CASE FindContact(w)
      <3>1. PICK pc \in {"insert_signal", "insert_contact"} :
              Onward(w, pc) /\ SameFacts(w) /\ UNCHANGED signals
        BY <2>3, ContactOnward DEF FindContact
      <3> QED
        BY <2>3, <3>1, QuietTexts DEF FindContact, Reaches, SameFacts
    <2>4. CASE ValidateSignature(w) \/ InsertContact(w) \/ WebhookFails(w)
      <3>1. PICK pc \in {"find_contact", "refused", "failed", "insert_signal"} :
              /\ Goes(w, pc) \/ Loses(w, pc)
              /\ webhooks[w].pc = "route" => Loses(w, pc)
              /\ UNCHANGED signals
        BY <2>4 DEF ValidateSignature, InsertContact, WebhookFails, Reaches
      <3>2. Onward(w, pc) /\ SameFacts(w) /\ (Loses(w, pc) => webhooks'[w].lost)
        BY <3>1, GoesOnward
      <3> QED
        BY <3>1, <3>2, QuietTexts DEF SameFacts
    <2>5. CASE InsertSignal(w)
      <3>1. CASE Recorded(w) /\ Kind[w[1]] = "sms" /\ UNCHANGED signals
        <4>1. Onward(w, "answered") /\ SameFacts(w) /\ webhooks[w].pc = "insert_signal"
          BY <2>5, <3>1, GoesOnward DEF InsertSignal, AfterDuplicate, Reaches
        <4> QED
          BY <3>1, <4>1, QuietTexts DEF SameFacts, Recorded
      <3> DEFINE row == [org |-> webhooks[w].org, status |-> "received"]
      <3>2. CASE ~Recorded(w) /\ Kind[w[1]] = "sms"
        <4>1. signals' = [signals EXCEPT ![w[1]] = row]
          BY <2>5, <3>2 DEF InsertSignal
        <4>2. row # NoSignal /\ row.status = "received"
          BY DEF NoSignal
        <4>3. PICK pc \in {"route", "answered"} :
                Onward(w, pc) /\ (pc = "answered" => webhooks'[w].lost)
          BY <2>5, <3>2, GoesOnward DEF InsertSignal, AfterDuplicate
        <4> HIDE DEF row
        <4>4. TextRouted(w[1])' /\ TextAnswered(w)' /\ signals'[w[1]] # NoSignal
          BY <2>0, <4>1, <4>2, <4>3 DEF TextRouted, TextAnswered, Onward
        <4> QED
          BY <2>0, <4>1, <4>3, <4>4, TextsMove
      <3>3. CASE Kind[w[1]] = "call"
        <4>1. Onward(w, "check")
          BY <2>5, <3>3, GoesOnward DEF InsertSignal, AfterDuplicate
        <4>2. /\ \A s \in Sids \ {w[1]} : signals'[s] = signals[s]
              /\ signals[w[1]] # NoSignal => signals'[w[1]] # NoSignal
          BY <2>0, <2>5 DEF InsertSignal, Recorded
        <4>3. TextRouted(w[1])' /\ TextAnswered(w)'
          BY <3>3 DEF TextRouted, TextAnswered
        <4> QED
          BY <4>1, <4>2, <4>3, TextsMove
      <3> QED
        BY <2>0, <2>5, <3>1, <3>2, <3>3, WebhookAssumption DEF InsertSignal
    <2>6. CASE RouteText(w) \/ AnswerCall(w)
      <3>1. signals[w[1]].org \in Orgs /\ webhooks[w].pc \in {"route", "check"}
        BY <2>0, <2>6 DEF RouteText, AnswerCall, Reaches, GoodWebhook
      <3>2. PICK pc \in {"answered", "dialed"} : Goes(w, pc) \/ Loses(w, pc)
        BY <2>6 DEF RouteText, AnswerCall
      <3>3. PICK status : /\ signals' = [signals EXCEPT ![w[1]].status = status]
                          /\ RouteText(w) => status \in {"delivered", "failed"}
        BY <2>6 DEF RouteText, AnswerCall, Reaches
      <3>4. /\ \A s \in Sids \ {w[1]} : signals'[s] = signals[s]
            /\ signals'[w[1]].status = status /\ signals'[w[1]] # NoSignal
        BY <2>0, <3>1, <3>3 DEF Signal, NoSignal
      <3>5. Onward(w, pc)
        BY <3>2, GoesOnward
      <3>6. CASE Kind[w[1]] = "sms"
        <4>1. RouteText(w) /\ pc = "answered"
          <5>1. RouteText(w)
            BY <2>0, <2>6, <3>6 DEF AnswerCall, Reaches, TextAnswered
          <5>2. webhooks'[w].pc = "answered"
            BY <5>1, GoesOnward DEF RouteText, Onward
          <5> QED
            BY <3>5, <5>1, <5>2 DEF Onward
        <4>2. TextRouted(w[1])' /\ TextAnswered(w)'
          BY <3>3, <3>4, <3>5, <4>1 DEF TextRouted, TextAnswered, Onward
        <4> QED
          BY <3>4, <3>5, <4>2, TextsMove
      <3>7. CASE Kind[w[1]] # "sms"
        <4>1. TextRouted(w[1])' /\ TextAnswered(w)'
          BY <3>7 DEF TextRouted, TextAnswered
        <4> QED
          BY <3>4, <3>5, <4>1, TextsMove
      <3> QED
        BY <3>6, <3>7
    <2> QED
      BY <1>2, <2>1, <2>2, <2>3, <2>4, <2>5, <2>6 DEF Call, WebhookRuns
  <1>3. ASSUME NEW contact \in contacts, BarContact(contact)
        PROVE  Texts'
    BY <1>1, <1>3 DEF BarContact
  <1>4. CASE UNCHANGED inbound
    BY <1>1, <1>4 DEF inbound
  <1>5. CASE UNCHANGED vars
    BY <1>1, <1>5 DEF vars
  <1> QED
    BY <1>2, <1>3, <1>4, <1>5 DEF Next, Create, Edit

(* A text that was answered has been routed, is being routed, or one of    *)
(* its deliveries was disturbed.                                           *)
THEOREM AnsweredIsRouted == Spec => []AnsweredTextIsRouted
  <1>1. Init => Texts
    BY DEF Init, WebhookInit, Texts, TextRouted, TextAnswered
  <1>2. Sound /\ Texts /\ [Next]_vars => Texts'
    BY TextsStep
  <1>3. Texts => AnsweredTextIsRouted
    BY DEF Texts, TextRouted, TextAnswered, AnsweredTextIsRouted, WebhookIds
  <1> QED
    BY <1>1, <1>2, <1>3, SoundAlways, PTL DEF Spec

-----------------------------------------------------------------------------
(* Owners.                                                                 *)

\* The creation of o, and no other, goes on to pc.
Advances(o, pc) ==
  /\ creations' = [creations EXCEPT ![o] = creations'[o]]
  /\ creations'[o].pc = pc
  /\ creations'[o].user = creations[o].user
  /\ creations'[o].phone = creations[o].phone
  /\ creations'[o].number = creations[o].number

LEMMA MovesAdvance ==
  ASSUME OrgsInv, NEW o \in Orgs, NEW pc, Moves(o, pc)
  PROVE  Advances(o, pc)
  <1>1. creations \in [Orgs -> Creation] /\ creations[o] \in Creation
    BY DEF OrgsInv, OrganizationsTypeOK
  <1> QED
    BY <1>1 DEF Moves, Advances, Creation

\* A call that took effect leads on, or was disturbed.
LEMMA AcknowledgedAdvance ==
  ASSUME OrgsInv, NEW o \in Orgs, NEW next, Acknowledged(o, next)
  PROVE  \/ Advances(o, next) /\ UNCHANGED marred
         \/ Advances(o, Raised(o)) /\ marred' = marred \cup {o}
  BY MovesAdvance DEF Acknowledged, Disturbed

(* Until its owner is in, nobody belongs to an organization; the policy    *)
(* that turns him down has found him in another.                           *)
Owned(o) ==
  /\ creations[o].pc \in {"unused", "insert"} => o \notin DOMAIN organizations
  /\ creations[o].pc \in {"unused", "insert", "owner"} => \A m \in members : m.org # o
  /\ creations[o].pc \in Provisioning \cup {"created"} => HasOwner(o)
  /\ creations[o].pc \in {"refused", "died"} /\ o \in DOMAIN organizations =>
       \/ o \in marred \/ HasOwner(o)
       \/ \E m \in members : m.org # o /\ m.user = creations[o].user

AllOwned == \A o \in Orgs : Owned(o)

LEMMA OwnedAdvances ==
  ASSUME OrgsInv, AllOwned, NEW o \in Orgs, NEW pc, Advances(o, pc), Owned(o)',
         DOMAIN organizations' \ {o} \subseteq DOMAIN organizations,
         members \subseteq members', \A m \in members' \ members : m.org = o,
         marred \subseteq marred'
  PROVE  AllOwned'
  <1> SUFFICES ASSUME NEW p \in Orgs, p # o PROVE Owned(p)'
    BY DEF AllOwned
  <1>1. creations'[p] = creations[p] /\ Owned(p)
    BY DEF OrgsInv, OrganizationsTypeOK, Advances, AllOwned
  <1> QED
    BY <1>1 DEF Owned, HasOwner

LEMMA OwnedCreation ==
  ASSUME OrgsInv, AllOwned, NEW o \in Orgs,
         CreateOrganization(o) \/ CreationRuns(o) \/ CreationStops(o)
  PROVE  AllOwned'
  <1>0. /\ creations \in [Orgs -> Creation] /\ creations[o] \in Creation
        /\ Owned(o) /\ GoodCreation(creations[o], o, DOMAIN organizations)
    BY DEF OrgsInv, OrganizationsTypeOK, CreationsInv, AllOwned
  <1>1. CASE CreateOrganization(o)
    <2>1. /\ Advances(o, "insert") /\ UNCHANGED <<organizations, members, marred>>
          /\ creations[o].pc = "unused"
      BY <1>1, MovesAdvance DEF CreateOrganization, At, tables
    <2>2. Owned(o)'
      BY <1>0, <2>1 DEF Owned, Advances, Provisioning
    <2> QED
      BY <2>1, <2>2, OwnedAdvances
  <1>2. CASE InsertOrganization(o)
    <2>1. /\ creations[o].pc = "insert" /\ UNCHANGED members /\ Raised(o) = "refused"
      BY <1>2 DEF InsertOrganization, At, Raised, Provisioning
    <2>2. CASE Raises(o) /\ UNCHANGED organizations
      <3>1. Advances(o, "refused") /\ UNCHANGED marred
        BY <2>1, <2>2, MovesAdvance DEF Raises
      <3>2. Owned(o)'
        BY <1>0, <2>1, <2>2, <3>1 DEF Owned, Advances, Provisioning
      <3> QED
        BY <2>1, <2>2, <3>1, <3>2, OwnedAdvances
    <2>3. CASE DOMAIN organizations' = DOMAIN organizations \cup {o} /\ Acknowledged(o, "owner")
      <3>1. \/ Advances(o, "owner") /\ UNCHANGED marred
            \/ Advances(o, "refused") /\ marred' = marred \cup {o}
        BY <2>1, <2>3, AcknowledgedAdvance
      <3>2. Owned(o)'
        BY <1>0, <2>1, <3>1 DEF Owned, Advances, Provisioning
      <3> QED
        BY <2>1, <2>3, <3>1, <3>2, OwnedAdvances
    <2> QED
      BY <1>2, <2>2, <2>3 DEF InsertOrganization
  <1>3. CASE InsertOwner(o)
    <2> DEFINE row == [org |-> o, user |-> creations[o].user, role |-> "owner"]
    <2>1. /\ creations[o].pc = "owner" /\ UNCHANGED organizations /\ Raised(o) = "refused"
      BY <1>3 DEF InsertOwner, At, Raised, Provisioning
    <2>2. CASE ~MayInsertOwner(creations[o].user, o) /\ Raises(o) /\ UNCHANGED members
      <3>1. Advances(o, "refused") /\ UNCHANGED marred
        BY <2>1, <2>2, MovesAdvance DEF Raises
      <3>2. \E m \in members : m.org # o /\ m.user = creations[o].user
        BY <1>0, <2>1, <2>2 DEF MayInsertOwner, Owned
      <3>3. Owned(o)'
        BY <2>1, <2>2, <3>1, <3>2 DEF Owned, Advances, Provisioning
      <3> QED
        BY <2>1, <2>2, <3>1, <3>3, OwnedAdvances
    <2>3. ASSUME members' = members \cup {row},
                 NEW next \in {"subaccount", "created"}, Acknowledged(o, next)
          PROVE  AllOwned'
      <3>1. PICK pc \in {"subaccount", "created", "refused"} :
              Advances(o, pc) /\ marred \subseteq marred'
        BY <2>1, <2>3, AcknowledgedAdvance
      <3>2. HasOwner(o)'
        <4>1. row \in members' /\ row.org = o /\ row.role = "owner"
              /\ row.user = creations'[o].user
          BY <2>3, <3>1 DEF Advances
        <4> HIDE DEF row
        <4> QED
          BY <4>1 DEF HasOwner
      <3>3. Owned(o)'
        BY <3>1, <3>2 DEF Owned, Advances
      <3>4. \A m \in members' \ members : m.org = o
        BY <2>3
      <3> QED
        BY <2>1, <2>3, <3>1, <3>3, <3>4, OwnedAdvances
    <2>4. CASE MayInsertOwner(creations[o].user, o)
      <3> DEFINE next == IF organizations[o].phone = NoPhone THEN "subaccount" ELSE "created"
      <3>1. next \in {"subaccount", "created"}
        OBVIOUS
      <3>2. members' = members \cup {row} /\ Acknowledged(o, next)
        BY <1>3, <2>4 DEF InsertOwner
      <3> HIDE DEF next, row
      <3> QED
        BY <2>3, <3>1, <3>2
    <2> QED
      BY <1>3, <2>2, <2>4 DEF InsertOwner
  <1>4. ASSUME NEW pc \in Provisioning \cup {"created"}, creations[o].pc \in Provisioning,
               creations' = [creations EXCEPT ![o] = creations'[o]],
               creations'[o].pc = pc, creations'[o].user = creations[o].user,
               DOMAIN organizations' = DOMAIN organizations, UNCHANGED members,
               marred \subseteq marred'
        PROVE  AllOwned'
    <2>1. HasOwner(o)'
      BY <1>0, <1>4 DEF Owned, HasOwner
    <2>2. Owned(o)'
      BY <1>4, <2>1 DEF Owned, Provisioning
    <2>3. ASSUME NEW p \in Orgs, p # o
          PROVE  Owned(p)'
      <3>1. creations'[p] = creations[p] /\ Owned(p)
        BY <1>0, <1>4, <2>3 DEF AllOwned
      <3> QED
        BY <1>4, <3>1 DEF Owned, HasOwner
    <2> QED
      BY <2>2, <2>3 DEF AllOwned
  <1>5. CASE FindAvailableNumber(o)
    <2>1. /\ creations[o].pc = "search" /\ UNCHANGED <<organizations, members>>
          /\ Raised(o) = "created"
      BY <1>5 DEF FindAvailableNumber, At, Raised, Provisioning, tables
    <2>2. /\ creations' = [creations EXCEPT ![o] = creations'[o]]
          /\ creations'[o].pc \in {"buy", "created"}
          /\ creations'[o].user = creations[o].user /\ UNCHANGED marred
      BY <1>0, <1>5, <2>1 DEF FindAvailableNumber, Raises, Moves, Creation
    <2> QED
      BY <1>4, <2>1, <2>2 DEF Provisioning
  <1>6. CASE \/ CreateSubaccount(o) \/ BuyNumber(o) \/ CreateService(o) \/ AttachNumber(o)
             \/ PublishNumber(o) \/ StoreSecret(o)
    <2>1. creations[o].pc \in Provisioning /\ UNCHANGED members /\ Raised(o) = "created"
      BY <1>6 DEF CreateSubaccount, BuyNumber, CreateService, AttachNumber, PublishNumber,
         StoreSecret, At, Raised, Provisioning, tables
    <2>2. DOMAIN organizations' = DOMAIN organizations
      BY <1>6 DEF CreateSubaccount, BuyNumber, CreateService, AttachNumber, PublishNumber,
         StoreSecret, tables
    <2>3. \/ Raises(o)
          \/ \E next \in {"search", "service", "attach", "publish", "secret", "created"} :
               Acknowledged(o, next)
      BY <1>6 DEF CreateSubaccount, BuyNumber, CreateService, AttachNumber, PublishNumber,
         StoreSecret
    <2>4. PICK pc \in {"search", "service", "attach", "publish", "secret", "created"} :
            Advances(o, pc) /\ marred \subseteq marred'
      BY <2>1, <2>3, MovesAdvance, AcknowledgedAdvance DEF Raises
    <2> QED
      BY <1>4, <2>1, <2>2, <2>4 DEF Advances, Provisioning
  <1>7. CASE CreationStops(o)
    <2>1. PICK pc \in {Raised(o), "died"} : Advances(o, pc)
      BY <1>7, MovesAdvance DEF CreationStops
    <2>2. /\ marred' = marred \cup {o} /\ UNCHANGED <<organizations, members>>
          /\ Raised(o) = "created" => creations[o].pc \in Provisioning
      BY <1>7 DEF CreationStops, Disturbed, Raised, tables
    <2>3. Owned(o)'
      BY <1>0, <2>1, <2>2 DEF Owned, Advances, HasOwner, Raised, Provisioning
    <2> QED
      BY <2>1, <2>2, <2>3, OwnedAdvances
  <1> QED
    BY <1>1, <1>2, <1>3, <1>5, <1>6, <1>7 DEF CreationRuns

LEMMA OwnedEdit ==
  ASSUME OrgsInv, AllOwned, NEW o \in Orgs, NEW u \in Users, Edit(o, u)
  PROVE  AllOwned'
  <1>1. /\ UNCHANGED creations /\ members \subseteq members' /\ marred \subseteq marred'
        /\ DOMAIN organizations' = DOMAIN organizations
        /\ \A m \in members' \ members : m.org = o /\ \E n \in members : n.org = o
    BY DEF Edit, UpdateOrganization, AddOrganizationMember, Disturbed, IsAdmin
  <1> SUFFICES ASSUME NEW p \in Orgs PROVE Owned(p)'
    BY DEF AllOwned
  <1>2. Owned(p)
    BY DEF AllOwned
  <1> QED
    BY <1>1, <1>2 DEF Owned, HasOwner

\* Webhooks leave the creations alone.
LEMMA WebhooksKeepCreations ==
  ASSUME [Next]_vars, ~\E o \in Orgs : Create(o) \/ \E u \in Users : Edit(o, u)
  PROVE  UNCHANGED <<provisioning, marred>>
  <1>1. ASSUME NEW w \in WebhookIds, Call(w)
        PROVE  UNCHANGED <<provisioning, marred>>
    BY <1>1 DEF Call, Receive, WebhookRuns, FindOrgByPhone, ValidateSignature, FindContact,
       InsertContact, InsertSignal, RouteText, AnswerCall, WebhookFails, Goes, Loses
  <1>2. ASSUME NEW contact \in contacts, BarContact(contact)
        PROVE  UNCHANGED <<provisioning, marred>>
    BY <1>2 DEF BarContact
  <1> QED
    BY <1>1, <1>2 DEF Next, vars, provisioning, tables, twilio

LEMMA OwnedStep ==
  ASSUME Sound, AllOwned, [Next]_vars
  PROVE  AllOwned'
  <1>1. CASE UNCHANGED <<provisioning, marred>>
    BY <1>1 DEF AllOwned, Owned, HasOwner, provisioning, tables
  <1> QED
    BY <1>1, WebhooksKeepCreations, OwnedCreation, OwnedEdit DEF Create, Sound

(* An organization its creator was told of belongs to him; a row that no   *)
(* one owns is left over only where the creation was disturbed, or its     *)
(* creator was in another organization.                                    *)
THEOREM CreatedAreOwned == Spec => []OrganizationsHaveOwners
  <1>1. Init => AllOwned
    BY DEF Init, OrganizationsInit, AllOwned, Owned, Provisioning
  <1>2. Sound /\ AllOwned /\ [Next]_vars => AllOwned'
    BY OwnedStep
  <1>3. Sound /\ AllOwned => OrganizationsHaveOwners
    BY DEF Sound, OrgsInv, OrganizationsTypeOK, AllOwned, Owned, OrganizationsHaveOwners, Over
  <1> QED
    BY <1>1, <1>2, <1>3, SoundAlways, PTL DEF Spec

-----------------------------------------------------------------------------
(* Provisioning.                                                           *)

Early == {"unused", "insert", "owner", "subaccount"}
Bought == {"service", "attach", "publish", "secret"}

\* How far the creation of o has come at Twilio.
SetUp(o) ==
  LET c == creations[o] IN
  /\ c.pc \in Early => subaccounts[o] = "none"
  /\ c.pc \in {"search", "buy"} => subaccounts[o] # "none"
  /\ c.pc \in Early \cup {"search"} => c.number = NoPhone
  /\ c.pc \in Early \cup {"search", "buy"} => \A n \in Numbers : holder[n] # o
  /\ \A n \in Numbers : holder[n] = o => c.number = n /\ subaccounts[o] # "none"
  /\ c.pc \in Bought => holder[c.number] = o
  /\ c.pc \in {"publish", "secret"} => subaccounts[o] = "attached"
  /\ c.pc = "secret" => o \in marred \/ organizations[o].phone = c.number

\* What the row of o may show in the meantime.
RowSetUp(o) ==
  o \in DOMAIN organizations =>
    /\ organizations[o].subaccount = o =>
         /\ creations[o].pc \in {"secret", "created", "died"}
         /\ subaccounts[o] = "attached"
         /\ creations[o].number \in Numbers /\ holder[creations[o].number] = o
    /\ \/ o \in marred
       \/ organizations[o].phone \in {NoPhone, creations[o].phone}
       \/ organizations[o].phone \in Numbers /\ holder[organizations[o].phone] = o

\* How the creation of o ends.
EndSetUp(o) ==
  creations[o].pc \in Over /\ o \notin marred /\ subaccounts[o] # "none" =>
    \/ /\ o \in DOMAIN organizations /\ secrets[o] = o
       /\ organizations[o].phone = creations[o].number
    \/ creations[o].number = NoPhone
    \/ creations[o].number \in Numbers /\ Preempted(o)

Provisioned(o) == SetUp(o) /\ RowSetUp(o) /\ EndSetUp(o)
AllProvisioned == \A o \in Orgs : Provisioned(o)

\* What never changes back.
Onwards ==
  /\ HolderGrows
  /\ marred \subseteq marred'
  /\ \A p \in Orgs : creations'[p].phone = creations[p].phone

LEMMA PreemptedStays ==
  ASSUME OrgsInv, Onwards, NEW o \in Orgs, Preempted(o),
         creations[o].number \in Numbers, creations'[o].number = creations[o].number
  PROVE  Preempted(o)'
  <1>1. creations[o].number \in Phones /\ NoAccount \notin Orgs
    BY OrganizationsAssumption DEF Phones
  <1>2. PICK p \in Orgs \ {o} : \/ p \in marred
                                \/ creations[p].phone = creations[o].number
                                \/ holder[creations[o].number] = p
    BY DEF Preempted
  <1>3. \/ p \in marred'
        \/ creations'[p].phone = creations'[o].number
        \/ holder'[creations'[o].number] = p
    BY <1>1, <1>2 DEF Onwards, HolderGrows
  <1> QED
    BY <1>3 DEF Preempted

(* What one organization's step does leaves the others as they were.       *)
LEMMA OthersProvisioned ==
  ASSUME OrgsInv, Onwards, NEW p \in Orgs, Provisioned(p),
         creations'[p] = creations[p], subaccounts'[p] = subaccounts[p],
         secrets'[p] = secrets[p],
         p \in DOMAIN organizations' <=> p \in DOMAIN organizations,
         p \in DOMAIN organizations => organizations'[p] = organizations[p],
         \A n \in Numbers : holder'[n] = p => holder[n] = p
  PROVE  Provisioned(p)'
  <1>0. /\ GoodCreation(creations[p], p, DOMAIN organizations) /\ NoAccount \notin Orgs
        /\ \A n \in Numbers : holder[n] = p => holder'[n] = p
        /\ creations[p].pc \in Bought => creations[p].number \in Numbers
    BY OrganizationsAssumption
       DEF OrgsInv, CreationsInv, GoodCreation, Onwards, HolderGrows, Phones, Bought, Chosen
  <1>1. SetUp(p)'
    BY <1>0 DEF Provisioned, SetUp, Onwards, GoodCreation, Kept, Provisioning
  <1>2. RowSetUp(p)'
    BY <1>0 DEF Provisioned, RowSetUp, Onwards
  <1>3. EndSetUp(p)'
    BY PreemptedStays DEF Provisioned, EndSetUp, Onwards
  <1> QED
    BY <1>1, <1>2, <1>3 DEF Provisioned

(* The creation of o itself.                                               *)
LEMMA CreationProvisioned ==
  ASSUME OrgsInv, AllProvisioned, NEW o \in Orgs, HolderGrows,
         CreateOrganization(o) \/ CreationRuns(o) \/ CreationStops(o)
  PROVE  Provisioned(o)'
  <1> USE DEF Provisioned, SetUp, RowSetUp, EndSetUp, Early, Bought, Over
  <1>0. /\ creations[o] \in Creation /\ GoodCreation(creations[o], o, DOMAIN organizations)
        /\ Provisioned(o) /\ subaccounts \in [Orgs -> {"none", "open", "service", "attached"}]
        /\ secrets \in [Orgs -> Orgs \cup {NoAccount}] /\ NoAccount \notin Orgs
        /\ holder \in [Phones -> Accounts] /\ Numbers \subseteq Phones /\ NoPhone \notin Phones
    BY OrganizationsAssumption DEF OrgsInv, OrganizationsTypeOK, CreationsInv, AllProvisioned,
       Phones
  <1>1. CASE CreateOrganization(o)
    <2>1. /\ Advances(o, "insert") /\ creations[o].pc = "unused"
          /\ UNCHANGED <<organizations, secrets, holder, subaccounts, marred>>
      BY <1>1, MovesAdvance DEF CreateOrganization, At, tables, twilio
    <2> QED
      BY <1>0, <2>1 DEF Advances
  <1>2. CASE InsertOrganization(o)
    <2> DEFINE row == [slug |-> creations[o].slug, phone |-> creations[o].phone,
                       subaccount |-> NoAccount]
    <2>1. /\ creations[o].pc = "insert" /\ UNCHANGED <<secrets, holder, subaccounts>>
          /\ Raised(o) = "refused"
      BY <1>2 DEF InsertOrganization, At, Raised, Provisioning, twilio
    <2>2. CASE Raises(o) /\ UNCHANGED organizations
      <3>1. Advances(o, "refused") /\ UNCHANGED marred
        BY <2>1, <2>2, MovesAdvance DEF Raises
      <3> QED
        BY <1>0, <2>1, <2>2, <3>1 DEF Advances
    <2>3. CASE /\ organizations' = [p \in DOMAIN organizations \cup {o} |->
                                      IF p = o THEN row ELSE organizations[p]]
               /\ Acknowledged(o, "owner")
      <3>1. \/ Advances(o, "owner") /\ UNCHANGED marred
            \/ Advances(o, "refused") /\ marred' = marred \cup {o}
        BY <2>1, <2>3, AcknowledgedAdvance
      <3>2. o \in DOMAIN organizations' /\ organizations'[o] = row
        BY <2>3
      <3> QED
        BY <1>0, <2>1, <3>1, <3>2 DEF Advances
    <2> QED
      BY <1>2, <2>2, <2>3 DEF InsertOrganization
  <1>3. CASE InsertOwner(o)
    <2>1. /\ creations[o].pc = "owner"
          /\ UNCHANGED <<organizations, secrets, holder, subaccounts>>
          /\ Raised(o) = "refused"
      BY <1>3 DEF InsertOwner, At, Raised, Provisioning, twilio
    <2>2. Raises(o) \/ Acknowledged(o, "subaccount") \/ Acknowledged(o, "created")
      BY <1>3 DEF InsertOwner
    <2>3. PICK pc \in {"subaccount", "created", "refused"} :
            Advances(o, pc) /\ marred \subseteq marred'
      BY <2>1, <2>2, MovesAdvance, AcknowledgedAdvance DEF Raises
    <2> QED
      BY <1>0, <2>1, <2>3 DEF Advances
  <1>4. CASE FindAvailableNumber(o)
    <2>1. /\ creations[o].pc = "search" /\ Raised(o) = "created"
          /\ UNCHANGED <<organizations, secrets, holder, subaccounts>>
      BY <1>4 DEF FindAvailableNumber, At, Raised, Provisioning, tables, twilio
    <2>2. /\ UNCHANGED marred /\ creations'[o].phone = creations[o].phone
          /\ \/ creations'[o].pc = "created" /\ creations'[o].number = NoPhone
             \/ creations'[o].pc = "buy"
      <3>1. creations \in [Orgs -> Creation]
        BY DEF OrgsInv, OrganizationsTypeOK
      <3> QED
        BY <1>0, <1>4, <2>1, <3>1 DEF FindAvailableNumber, Raises, Moves, Creation
    <2> QED
      BY <1>0, <2>1, <2>2
  <1>5. CASE CreateSubaccount(o) \/ CreateService(o) \/ AttachNumber(o)
    <2>1. /\ UNCHANGED <<organizations, secrets, holder>> /\ Raised(o) = "created"
          /\ \/ /\ creations[o].pc = "subaccount" /\ Acknowledged(o, "search")
             \/ /\ creations[o].pc = "service" /\ Acknowledged(o, "attach")
             \/ /\ creations[o].pc = "attach" /\ Acknowledged(o, "publish")
                /\ subaccounts'[o] = "attached"
          /\ subaccounts'[o] # "none"
      BY <1>0, <1>5 DEF CreateSubaccount, CreateService, AttachNumber, At, Raised,
         Provisioning, tables
    <2>2. \/ Advances(o, "search") /\ creations[o].pc = "subaccount" /\ UNCHANGED marred
          \/ Advances(o, "attach") /\ creations[o].pc = "service" /\ UNCHANGED marred
          \/ /\ Advances(o, "publish") /\ creations[o].pc = "attach" /\ UNCHANGED marred
             /\ subaccounts'[o] = "attached"
          \/ /\ Advances(o, "created") /\ creations[o].pc \in {"subaccount", "service", "attach"}
             /\ marred' = marred \cup {o}
      BY <2>1, AcknowledgedAdvance
    <2> QED
      BY <1>0, <2>1, <2>2 DEF Advances
  <1>6. CASE BuyNumber(o)
    <2> DEFINE n == creations[o].number
    <2>1. /\ UNCHANGED <<organizations, secrets, subaccounts>> /\ Raised(o) = "created"
          /\ creations[o].pc = "buy" /\ n \in Numbers
      BY <1>0, <1>6 DEF BuyNumber, At, Raised, Provisioning, tables, GoodCreation, Chosen
    <2>2. CASE holder[n] # NoAccount /\ Raises(o) /\ UNCHANGED holder
      <3>1. Advances(o, "created") /\ UNCHANGED marred
        BY <2>1, <2>2, MovesAdvance DEF Raises
      <3>2. holder[n] \in Orgs \ {o}
        BY <1>0, <2>1, <2>2 DEF OrgsInv
      <3>3. creations'[o].number \in Numbers /\ Preempted(o)'
        BY <2>1, <2>2, <3>1, <3>2 DEF Preempted, Advances
      <3> QED
        BY <1>0, <2>1, <2>2, <3>1, <3>3 DEF Advances
    <2>3. CASE /\ holder[n] = NoAccount
               /\ holder' = [holder EXCEPT ![n] = o]
               /\ Acknowledged(o, "service")
      <3>1. \/ Advances(o, "service") /\ UNCHANGED marred
            \/ Advances(o, "created") /\ marred' = marred \cup {o}
        BY <2>1, <2>3, AcknowledgedAdvance
      <3>2. \A m \in Numbers : holder'[m] = o => m = n
        BY <1>0, <2>1, <2>3
      <3>3. holder'[n] = o
        BY <1>0, <2>1, <2>3
      <3>4. subaccounts[o] # "none" => subaccounts'[o] # "none"
        BY <2>1
      <3> QED
        BY <1>0, <2>1, <3>1, <3>2, <3>3, <3>4 DEF Advances
    <2> QED
      BY <1>6, <2>2, <2>3 DEF BuyNumber
  <1>7. CASE PublishNumber(o)
    <2> DEFINE n == creations[o].number
    <2>1. /\ UNCHANGED <<secrets, holder, subaccounts>> /\ Raised(o) = "created"
          /\ creations[o].pc = "publish" /\ n \in Numbers /\ o \in DOMAIN organizations
      BY <1>0, <1>7 DEF PublishNumber, At, Raised, Provisioning, twilio, GoodCreation, Chosen,
         Kept
    <2>2. CASE PhoneTaken(o, n) /\ Raises(o) /\ UNCHANGED organizations
      <3>1. Advances(o, "created") /\ UNCHANGED marred
        BY <2>1, <2>2, MovesAdvance DEF Raises
      <3>2. PICK p \in DOMAIN organizations \ {o} : organizations[p].phone = n
        BY <2>2 DEF PhoneTaken
      <3>3. p \in Orgs /\ Provisioned(p) /\ holder[n] = o /\ n # NoPhone
        BY <1>0, <2>1 DEF OrgsInv, OrganizationsTypeOK, AllProvisioned
      <3>4. p \in marred \/ creations[p].phone = n
        BY <3>2, <3>3
      <3>5. creations'[p].phone = creations[p].phone
        BY <3>1, <3>2, <3>3 DEF Advances, OrgsInv, OrganizationsTypeOK
      <3>6. creations'[o].number \in Numbers /\ Preempted(o)'
        BY <2>1, <3>1, <3>2, <3>3, <3>4, <3>5 DEF Preempted, Advances
      <3> QED
        BY <1>0, <2>1, <2>2, <3>1, <3>6 DEF Advances
    <2>3. CASE /\ organizations' = [organizations EXCEPT ![o].phone = n, ![o].subaccount = o]
               /\ Acknowledged(o, "secret")
      <3>1. \/ Advances(o, "secret") /\ UNCHANGED marred
            \/ Advances(o, "created") /\ marred' = marred \cup {o}
        BY <2>1, <2>3, AcknowledgedAdvance
      <3>2. o \in DOMAIN organizations' /\ organizations'[o].phone = n
        BY <2>1, <2>3 DEF OrgsInv, OrganizationsTypeOK, Row
      <3> QED
        BY <1>0, <2>1, <3>1, <3>2 DEF Advances
    <2> QED
      BY <1>7, <2>2, <2>3 DEF PublishNumber
  <1>8. CASE StoreSecret(o)
    <2>1. /\ UNCHANGED <<organizations, holder, subaccounts>> /\ Raised(o) = "created"
          /\ creations[o].pc = "secret" /\ o \in DOMAIN organizations /\ secrets'[o] = o
          /\ Acknowledged(o, "created")
      BY <1>0, <1>8 DEF StoreSecret, At, Raised, Provisioning, twilio, GoodCreation, Kept
    <2>2. Advances(o, "created") /\ (UNCHANGED marred \/ marred' = marred \cup {o})
      BY <2>1, AcknowledgedAdvance
    <2> QED
      BY <1>0, <2>1, <2>2 DEF Advances
  <1>9. CASE CreationStops(o)
    <2>1. /\ UNCHANGED <<organizations, secrets, holder, subaccounts>>
          /\ marred' = marred \cup {o}
          /\ Raised(o) = "refused" => creations[o].pc \in {"insert", "owner"}
      BY <1>9 DEF CreationStops, Disturbed, Raised, tables, twilio, Busy
    <2>2. PICK pc \in {Raised(o), "died"} : Advances(o, pc) /\ pc \in Over
      BY <1>9, MovesAdvance DEF CreationStops, Raised
    <2> QED
      BY <1>0, <2>1, <2>2 DEF Advances
  <1> QED
    BY <1>1, <1>2, <1>3, <1>4, <1>5, <1>6, <1>7, <1>8, <1>9 DEF CreationRuns

\* What a creation does to the requests, and to the record of what was disturbed.
LEMMA CreationRecord ==
  ASSUME OrgsInv, NEW o \in Orgs,
         CreateOrganization(o) \/ CreationRuns(o) \/ CreationStops(o)
  PROVE  /\ \A p \in Orgs : /\ creations'[p].phone = creations[p].phone
                            /\ p # o => creations'[p] = creations[p]
         /\ marred \subseteq marred'
  <1>1. creations \in [Orgs -> Creation] /\ creations[o] \in Creation
    BY DEF OrgsInv, OrganizationsTypeOK
  <1>2. \/ \E pc : Moves(o, pc)
        \/ \E n : creations' = [creations EXCEPT ![o].pc = "buy", ![o].number = n]
    BY DEF CreateOrganization, CreationRuns, CreationStops, InsertOrganization, InsertOwner,
       CreateSubaccount, FindAvailableNumber, BuyNumber, CreateService, AttachNumber,
       PublishNumber, StoreSecret, Acknowledged, Raises
  <1>3. \A p \in Orgs : /\ creations'[p].phone = creations[p].phone
                        /\ p # o => creations'[p] = creations[p]
    BY <1>1, <1>2 DEF Moves, Creation
  <1>4. marred \subseteq marred'
    BY DEF CreateOrganization, CreationRuns, CreationStops, InsertOrganization, InsertOwner,
       CreateSubaccount, FindAvailableNumber, BuyNumber, CreateService, AttachNumber,
       PublishNumber, StoreSecret, Acknowledged, Raises, Disturbed
  <1> QED
    BY <1>3, <1>4

\* A creation leaves the rows, the account and the numbers of others alone.
LEMMA CreationKeepsOthers ==
  ASSUME OrgsInv, NEW o \in Orgs, NEW p \in Orgs, p # o,
         CreateOrganization(o) \/ CreationRuns(o) \/ CreationStops(o)
  PROVE  /\ subaccounts'[p] = subaccounts[p] /\ secrets'[p] = secrets[p]
         /\ p \in DOMAIN organizations' <=> p \in DOMAIN organizations
         /\ p \in DOMAIN organizations => organizations'[p] = organizations[p]
         /\ \A n \in Numbers : holder'[n] = p => holder[n] = p
  <1>0. /\ subaccounts \in [Orgs -> {"none", "open", "service", "attached"}]
        /\ secrets \in [Orgs -> Orgs \cup {NoAccount}]
        /\ holder \in [Phones -> Accounts] /\ Numbers \subseteq Phones
    BY DEF OrgsInv, OrganizationsTypeOK, Phones
  <1>1. \/ UNCHANGED <<tables, twilio>>
        \/ InsertOrganization(o) \/ InsertOwner(o) \/ CreateSubaccount(o) \/ BuyNumber(o)
        \/ CreateService(o) \/ AttachNumber(o) \/ PublishNumber(o) \/ StoreSecret(o)
    BY DEF CreateOrganization, CreationRuns, CreationStops, FindAvailableNumber
  <1>2. subaccounts'[p] = subaccounts[p] /\ secrets'[p] = secrets[p]
    BY <1>0, <1>1 DEF InsertOrganization, InsertOwner, CreateSubaccount, BuyNumber,
       CreateService, AttachNumber, PublishNumber, StoreSecret, tables, twilio
  <1>3. /\ p \in DOMAIN organizations' <=> p \in DOMAIN organizations
        /\ p \in DOMAIN organizations => organizations'[p] = organizations[p]
    BY <1>1 DEF InsertOrganization, InsertOwner, CreateSubaccount, BuyNumber, CreateService,
       AttachNumber, PublishNumber, StoreSecret, tables
  <1>4. \A n \in Numbers : holder'[n] = p => holder[n] = p
    BY <1>0, <1>1 DEF InsertOrganization, InsertOwner, CreateSubaccount, BuyNumber,
       CreateService, AttachNumber, PublishNumber, StoreSecret, twilio
  <1> QED
    BY <1>2, <1>3, <1>4

LEMMA ProvisionedCreation ==
  ASSUME OrgsInv, AllProvisioned, NEW o \in Orgs,
         CreateOrganization(o) \/ CreationRuns(o) \/ CreationStops(o)
  PROVE  AllProvisioned' /\ Onwards
  <1>1. HolderGrows
    BY CreateStep
  <1>2. Provisioned(o)'
    BY <1>1, CreationProvisioned
  <1>3. /\ \A p \in Orgs : /\ creations'[p].phone = creations[p].phone
                           /\ p # o => creations'[p] = creations[p]
        /\ marred \subseteq marred'
    BY CreationRecord
  <1>4. Onwards
    BY <1>1, <1>3 DEF Onwards
  <1>5. ASSUME NEW p \in Orgs, p # o
        PROVE  Provisioned(p)'
    <2>1. Provisioned(p) /\ creations'[p] = creations[p]
      BY <1>3, <1>5 DEF AllProvisioned
    <2>2. /\ subaccounts'[p] = subaccounts[p] /\ secrets'[p] = secrets[p]
          /\ p \in DOMAIN organizations' <=> p \in DOMAIN organizations
          /\ p \in DOMAIN organizations => organizations'[p] = organizations[p]
          /\ \A n \in Numbers : holder'[n] = p => holder[n] = p
      BY <1>5, CreationKeepsOthers
    <2> QED
      BY <1>4, <2>1, <2>2, OthersProvisioned
  <1> QED
    BY <1>2, <1>4, <1>5 DEF AllProvisioned

\* An edit of the row of o is seen in marred.
LEMMA ProvisionedEdit ==
  ASSUME OrgsInv, AllProvisioned, NEW o \in Orgs, NEW u \in Users, Edit(o, u)
  PROVE  AllProvisioned' /\ Onwards
  <1>1. /\ UNCHANGED <<secrets, creations, holder, subaccounts>> /\ marred' = marred \cup {o}
        /\ DOMAIN organizations' = DOMAIN organizations
        /\ \A p \in DOMAIN organizations :
             /\ organizations'[p].subaccount = organizations[p].subaccount
             /\ p # o => organizations'[p] = organizations[p]
    BY DEF Edit, UpdateOrganization, AddOrganizationMember, Disturbed, twilio, OrgsInv,
       OrganizationsTypeOK, Row
  <1>2. Onwards
    BY <1>1 DEF Onwards, HolderGrows
  <1>3. Provisioned(o)'
    <2>1. Provisioned(o)
      BY DEF AllProvisioned
    <2> QED
      BY <1>1, <2>1 DEF Provisioned, SetUp, RowSetUp, EndSetUp
  <1>4. ASSUME NEW p \in Orgs, p # o
        PROVE  Provisioned(p)'
    BY <1>1, <1>2, <1>4, OthersProvisioned DEF AllProvisioned
  <1> QED
    BY <1>2, <1>3, <1>4 DEF AllProvisioned

LEMMA ProvisionedStep ==
  ASSUME Sound, AllProvisioned, [Next]_vars
  PROVE  AllProvisioned' /\ Onwards
  <1>1. CASE UNCHANGED <<provisioning, marred>>
    <2>1. Onwards
      BY <1>1 DEF Onwards, HolderGrows, provisioning, twilio
    <2> QED
      BY <1>1, <2>1, OthersProvisioned DEF AllProvisioned, provisioning, tables, twilio, Sound
  <1> QED
    BY <1>1, WebhooksKeepCreations, ProvisionedCreation, ProvisionedEdit DEF Create, Sound

LEMMA ProvisionedAlways == Spec => []AllProvisioned
  <1>1. Init => AllProvisioned
    <2> SUFFICES ASSUME Init, NEW o \in Orgs PROVE Provisioned(o)
      BY DEF AllProvisioned
    <2>1. /\ creations[o].pc = "unused" /\ creations[o].number = NoPhone
          /\ o \notin DOMAIN organizations /\ subaccounts[o] = "none"
      BY DEF Init, OrganizationsInit
    <2>2. \A n \in Numbers : holder[n] # o
      BY OrganizationsAssumption DEF Init, OrganizationsInit, Phones
    <2> QED
      BY <2>1, <2>2 DEF Provisioned, SetUp, RowSetUp, EndSetUp, Early, Bought, Over
  <1>2. Sound /\ AllProvisioned /\ [Next]_vars => AllProvisioned'
    BY ProvisionedStep
  <1> QED
    BY <1>1, <1>2, SoundAlways, PTL DEF Spec

(* What was bought for an organization ends up on its row with its token,  *)
(* unless its creation was disturbed, no number was left, or the number    *)
(* went to another; a row that shows a subaccount has its number there.    *)
THEOREM WholeProvisioning == Spec => []ProvisioningIsWhole
  <1>1. Sound /\ AllProvisioned => ProvisioningIsWhole
    BY DEF Sound, OrgsInv, OrganizationsTypeOK, AllProvisioned, Provisioned, RowSetUp, EndSetUp,
       ProvisioningIsWhole
  <1> QED
    BY <1>1, SoundAlways, ProvisionedAlways, PTL

-----------------------------------------------------------------------------
(* Webhooks that are turned down.                                          *)

PhonesUnique ==
  \A o, p \in DOMAIN organizations :
    organizations[o].phone = organizations[p].phone => o = p \/ organizations[o].phone = NoPhone

LEMMA UniqueStep ==
  ASSUME OrgsInv, PhonesUnique, [Next]_vars
  PROVE  PhonesUnique'
  <1>1. CASE UNCHANGED organizations
    BY <1>1 DEF PhonesUnique
  <1>2. ASSUME NEW o \in Orgs, NEW phone, ~PhoneTaken(o, phone),
               o \in DOMAIN organizations', organizations'[o].phone = phone,
               DOMAIN organizations' = DOMAIN organizations \cup {o},
               \A p \in DOMAIN organizations \ {o} : organizations'[p] = organizations[p]
        PROVE  PhonesUnique'
    BY <1>2 DEF PhonesUnique, PhoneTaken
  <1>3. ASSUME NEW o \in Orgs, Create(o)
        PROVE  PhonesUnique'
    <2>1. \/ UNCHANGED organizations \/ InsertOrganization(o) \/ PublishNumber(o)
      BY <1>3 DEF Create, CreateOrganization, CreationRuns, CreationStops, InsertOwner,
         CreateSubaccount, FindAvailableNumber, BuyNumber, CreateService, AttachNumber,
         StoreSecret, tables
    <2>2. CASE InsertOrganization(o) /\ organizations' # organizations
      <3> DEFINE row == [slug |-> creations[o].slug, phone |-> creations[o].phone,
                         subaccount |-> NoAccount]
      <3>1. /\ ~PhoneTaken(o, creations[o].phone)
            /\ organizations' = [p \in DOMAIN organizations \cup {o} |->
                                   IF p = o THEN row ELSE organizations[p]]
        BY <2>2 DEF InsertOrganization
      <3>2. row.phone = creations[o].phone
        OBVIOUS
      <3> HIDE DEF row
      <3> QED
        BY <1>2, <3>1, <3>2
    <2>3. CASE PublishNumber(o) /\ organizations' # organizations
      <3>1. /\ ~PhoneTaken(o, creations[o].number) /\ o \in DOMAIN organizations
            /\ organizations' = [organizations EXCEPT ![o].phone = creations[o].number,
                                                      ![o].subaccount = o]
        BY <2>3 DEF PublishNumber, At, OrgsInv, CreationsInv, GoodCreation, Kept, Provisioning
      <3>2. organizations[o] \in Row
        BY <3>1 DEF OrgsInv, OrganizationsTypeOK
      <3> QED
        BY <1>2, <3>1, <3>2 DEF Row
    <2> QED
      BY <1>1, <2>1, <2>2, <2>3
  <1>4. ASSUME NEW o \in Orgs, NEW u \in Users, Edit(o, u)
        PROVE  PhonesUnique'
    <2>1. ASSUME NEW phone \in Typed, UpdateOrganization(o, u, phone)
          PROVE  PhonesUnique'
      <3>1. organizations[o] \in Row
        BY <2>1 DEF UpdateOrganization, OrgsInv, OrganizationsTypeOK
      <3> QED
        BY <1>2, <2>1, <3>1 DEF UpdateOrganization, Row
    <2> QED
      BY <1>1, <1>4, <2>1 DEF Edit, AddOrganizationMember
  <1> QED
    BY <1>1, <1>3, <1>4, WebhooksKeepCreations DEF provisioning, tables

\* The number was not set up undisturbed when its organization was looked for.
Excused(w) ==
  \/ webhooks[w].early
  \/ holder[called[w[1]]] \in marred
  \/ Preempted(holder[called[w[1]]])

\* The organization found is the one that holds the number, and has its token.
Known(w) ==
  /\ webhooks[w].org = holder[called[w[1]]]
  /\ secrets[webhooks[w].org] = webhooks[w].org

Settled == {"signature", "find_contact", "insert_contact", "insert_signal", "check", "route",
            "answered", "dialed", "refused", "failed"}
Past == Settled \ {"signature", "find_contact", "insert_contact"}

Accountable(w) ==
  webhooks[w].pc \in {"signature", "refused"} /\ called[w[1]] \in Numbers =>
    Excused(w) \/ (webhooks[w].pc = "signature" /\ Known(w))

\* Whoever fails undisturbed was preceded by another webhook of that contact.
Preceded(w) ==
  webhooks[w].pc = "failed" /\ ~webhooks[w].lost =>
    \E v \in WebhookIds \ {w} : Caller(v) = Caller(w) /\ webhooks[v].pc \in Settled

Created(contact) == \E v \in WebhookIds : Caller(v) = contact /\ webhooks[v].pc \in Past

AllHeard ==
  /\ PhonesUnique
  /\ \A w \in WebhookIds : Accountable(w) /\ Preceded(w)
  /\ \A contact \in contacts : Created(contact)

(* The excuse stays, whatever happens to the organization.                 *)
LEMMA ExcusedStays ==
  ASSUME Sound, AllProvisioned, AllProvisioned', Onwards, NEW w \in WebhookIds,
         called[w[1]] \in Numbers, called'[w[1]] = called[w[1]],
         webhooks[w].pc # "unused", webhooks'[w].early = webhooks[w].early, Excused(w)
  PROVE  Excused(w)'
  <1> DEFINE n == called[w[1]]
             h == holder[n]
  <1>1. /\ n \in Numbers /\ n \in Phones /\ h \in Orgs /\ holder'[n] = h
        /\ called'[w[1]] = n
    <2>1. GoodWebhook(w) /\ \A m \in Numbers : holder[m] \in Orgs \cup {NoAccount}
      BY DEF Sound, InboundInv, OrgsInv
    <2> QED
      BY <2>1 DEF GoodWebhook, Onwards, HolderGrows
  <1>2. creations[h].number = n /\ creations'[h].number = n
    BY <1>1 DEF AllProvisioned, Provisioned, SetUp
  <1>3. Preempted(h) => Preempted(h)'
    BY <1>1, <1>2, PreemptedStays DEF Sound
  <1>4. marred \subseteq marred'
    BY DEF Onwards
  <1>5. h' = h
    BY <1>1
  <1>6. webhooks[w].early \/ h \in marred \/ Preempted(h)
    BY DEF Excused
  <1>7. webhooks'[w].early \/ h \in marred' \/ Preempted(h)'
    BY <1>3, <1>4, <1>6
  <1> QED
    BY <1>1, <1>7 DEF Excused, Preempted

\* So does the acquaintance.
LEMMA KnownStays ==
  ASSUME Sound, HolderGrows, NEW w \in WebhookIds, called[w[1]] \in Numbers,
         called'[w[1]] = called[w[1]], webhooks[w].pc # "unused",
         webhooks'[w].org = webhooks[w].org, Known(w),
         \A o \in Orgs : secrets[o] = o => secrets'[o] = o
  PROVE  Known(w)'
  <1>1. /\ GoodWebhook(w) /\ called[w[1]] \in Phones
        /\ \A m \in Numbers : holder[m] \in Orgs \cup {NoAccount}
    BY DEF Sound, InboundInv, OrgsInv, Phones
  <1>2. holder'[called[w[1]]] = holder[called[w[1]]] /\ webhooks[w].org \in Orgs
    BY <1>1 DEF GoodWebhook, HolderGrows, Known
  <1> QED
    BY <1>2 DEF Known

LEMMA SecretsStay ==
  ASSUME OrgsInv, [Next]_vars
  PROVE  \A o \in Orgs : secrets[o] = o => secrets'[o] = o
  <1>1. secrets \in [Orgs -> Orgs \cup {NoAccount}]
    BY DEF OrgsInv, OrganizationsTypeOK
  <1>2. ASSUME NEW o \in Orgs, Create(o) \/ \E u \in Users : Edit(o, u)
        PROVE  UNCHANGED secrets \/ secrets' = [secrets EXCEPT ![o] = o]
    BY <1>2 DEF Create, CreateOrganization, CreationRuns, CreationStops, InsertOrganization,
       InsertOwner, CreateSubaccount, FindAvailableNumber, BuyNumber, CreateService,
       AttachNumber, PublishNumber, StoreSecret, Edit, UpdateOrganization,
       AddOrganizationMember, tables
  <1> QED
    BY <1>1, <1>2, WebhooksKeepCreations DEF provisioning, tables

(* What the step of one webhook leaves of the others, and of itself.       *)
LEMMA CallOnward ==
  ASSUME Sound, NEW w \in WebhookIds, Call(w)
  PROVE  /\ \A v \in WebhookIds \ {w} : webhooks'[v] = webhooks[v]
         /\ webhooks[w].pc \in Settled => SameFacts(w) /\ webhooks'[w].pc \in Settled
         /\ webhooks[w].pc \in Past => webhooks'[w].pc \in Past
         /\ \A v \in WebhookIds : webhooks[v].pc # "unused" => called'[v[1]] = called[v[1]]
  <1>1. /\ webhooks \in [WebhookIds -> Webhook] /\ \A v \in WebhookIds : GoodWebhook(v)
        /\ called \in [Sids -> Phones \cup {NoPhone}] /\ w[1] \in Sids /\ NoPhone \notin Phones
        /\ \A v \in WebhookIds : v[1] \in Sids
    BY OrganizationsAssumption DEF Sound, InboundInv, WebhookTypeOK, WebhookIds
  <1>2. ASSUME NEW n \in Phones, Receive(w, n)
        PROVE  /\ Onward(w, "find_org") /\ webhooks[w].pc = "unused"
               /\ \A v \in WebhookIds : webhooks[v].pc # "unused" => called'[v[1]] = called[v[1]]
    <2>1. /\ Onward(w, "find_org") /\ webhooks[w].pc = "unused"
          /\ called' = [called EXCEPT ![w[1]] = n]
          /\ w[2] # 1 => called[w[1]] = n
      BY <1>2, ReceivedOnward DEF Receive
    <2>2. ASSUME NEW v \in WebhookIds, webhooks[v].pc # "unused"
          PROVE  called'[v[1]] = called[v[1]]
      BY <1>1, <2>1, <2>2 DEF GoodWebhook
    <2> QED
      BY <2>1, <2>2
  <1>3. CASE FindOrgByPhone(w)
    BY <1>1, <1>3, FoundOnward DEF FindOrgByPhone, Reaches, Onward, Settled, Past
  <1>4. CASE FindContact(w)
    BY <1>1, <1>4, ContactOnward DEF FindContact, Reaches, Onward, Settled, Past
  <1>5. CASE \/ ValidateSignature(w) \/ InsertContact(w) \/ InsertSignal(w) \/ RouteText(w)
             \/ AnswerCall(w) \/ WebhookFails(w)
    <2>1. PICK pc \in Settled : /\ Goes(w, pc) \/ Loses(w, pc)
                                /\ webhooks[w].pc \in Past => pc \in Past
                                /\ UNCHANGED called
      BY <1>5 DEF ValidateSignature, InsertContact, InsertSignal, RouteText, AnswerCall,
         WebhookFails, Reaches, AfterDuplicate, Settled, Past
    <2>2. Onward(w, pc) /\ SameFacts(w)
      BY <2>1, GoesOnward
    <2> QED
      BY <1>1, <2>1, <2>2 DEF Onward
  <1> QED
    BY <1>1, <1>2, <1>3, <1>4, <1>5 DEF Call, WebhookRuns, Onward, Settled, Past

\* Nothing but the organizations changes.
LEMMA HeardElsewhere ==
  ASSUME Sound, AllProvisioned, AllProvisioned', Onwards, PhonesUnique', AllHeard,
         UNCHANGED <<contacts, called, webhooks>>,
         \A o \in Orgs : secrets[o] = o => secrets'[o] = o
  PROVE  AllHeard'
  <1>1. ASSUME NEW w \in WebhookIds
        PROVE  Accountable(w)'
    <2>1. Accountable(w)
      BY DEF AllHeard
    <2> QED
      BY <2>1, ExcusedStays, KnownStays DEF Accountable, Onwards
  <1> QED
    BY <1>1 DEF AllHeard, Preceded, Created, Caller

\* A webhook that was settled stays settled, and keeps its caller.
LEMMA CallersStay ==
  ASSUME Sound, NEW w \in WebhookIds, Call(w), NEW v \in WebhookIds
  PROVE  /\ webhooks[v].pc \in Settled => Caller(v)' = Caller(v) /\ webhooks'[v].pc \in Settled
         /\ webhooks[v].pc \in Past => webhooks'[v].pc \in Past
  <1>1. CASE v = w
    BY <1>1, CallOnward DEF Caller, SameFacts
  <1>2. CASE v # w
    BY <1>2, CallOnward DEF Caller
  <1> QED
    BY <1>1, <1>2

\* The webhooks that do not run.
LEMMA OthersHeard ==
  ASSUME Sound, AllProvisioned, AllProvisioned', Onwards, AllHeard,
         NEW w \in WebhookIds, Call(w), UNCHANGED <<provisioning, marred>>,
         NEW v \in WebhookIds, v # w
  PROVE  Accountable(v)' /\ Preceded(v)'
  <1>1. /\ Accountable(v) /\ Preceded(v) /\ webhooks'[v] = webhooks[v]
        /\ webhooks[v].pc # "unused" => called'[v[1]] = called[v[1]]
        /\ webhooks[v].pc \in {"signature", "refused"} => webhooks[v].pc # "unused"
    BY CallOnward DEF AllHeard
  <1>2. \A o \in Orgs : secrets[o] = o => secrets'[o] = o
    BY DEF provisioning, tables
  <1>3. Accountable(v)'
    BY <1>1, <1>2, ExcusedStays, KnownStays DEF Accountable, Onwards
  <1>4. Preceded(v)'
    <2> SUFFICES ASSUME webhooks'[v].pc = "failed", ~webhooks'[v].lost
                 PROVE  \E u \in WebhookIds \ {v} : /\ Caller(u)' = Caller(v)'
                                                    /\ webhooks'[u].pc \in Settled
      BY DEF Preceded
    <2>1. PICK u \in WebhookIds \ {v} : Caller(u) = Caller(v) /\ webhooks[u].pc \in Settled
      BY <1>1 DEF Preceded
    <2>2. Caller(v)' = Caller(v)
      BY <1>1 DEF Caller
    <2> QED
      BY <2>1, <2>2, CallersStay
  <1> QED
    BY <1>3, <1>4

(* What the lookup finds, once the organization has been set up.           *)
LEMMA FoundIsKnown ==
  ASSUME Sound, AllProvisioned, PhonesUnique, NEW w \in WebhookIds, FindOrgByPhone(w),
         called[w[1]] \in Numbers, ~Excused(w)', UNCHANGED provisioning, UNCHANGED marred
  PROVE  Known(w)'
  <1> DEFINE n == called[w[1]]
             h == holder[n]
  <1>1. /\ h \in Orgs /\ UNCHANGED <<called, holder, creations, secrets, organizations>>
        /\ webhooks[w].pc # "unused"
    <2>1. GoodWebhook(w) /\ \A m \in Numbers : holder[m] \in Orgs \cup {NoAccount}
      BY DEF Sound, InboundInv, OrgsInv
    <2> QED
      BY <2>1 DEF GoodWebhook, FindOrgByPhone, Reaches, provisioning, tables, twilio
  <1>2. h \notin marred /\ ~Preempted(h) /\ creations[h].pc \notin Busy
    BY <1>1, FoundOnward DEF Excused, Preempted
  <1>3. creations[h].number = n /\ subaccounts[h] # "none" /\ EndSetUp(h) /\ SetUp(h)
    BY <1>1 DEF AllProvisioned, Provisioned, SetUp
  <1>4. creations[h].pc \in Over
    <2>1. creations[h].pc \in Over \cup {"unused"}
      BY <1>1, <1>2 DEF Sound, OrgsInv, OrganizationsTypeOK, Creation
    <2> QED
      BY <1>1, <1>3, <2>1 DEF SetUp, Early
  <1>5. n # NoPhone
    BY OrganizationsAssumption DEF Phones
  <1>6. h \in DOMAIN organizations /\ secrets[h] = h /\ organizations[h].phone = n
    BY <1>2, <1>3, <1>4, <1>5 DEF EndSetUp
  <1>7. {p \in DOMAIN organizations : organizations[p].phone = n} = {h}
    BY <1>5, <1>6 DEF PhonesUnique
  <1>8. FoundBy(webhooks'[w].org, n)
    BY FoundOnward
  <1>9. webhooks'[w].org = h
    BY <1>7, <1>8 DEF FoundBy
  <1> QED
    BY <1>1, <1>6, <1>9 DEF Known

\* The webhook that runs.
LEMMA CallHeard ==
  ASSUME Sound, AllProvisioned, AllProvisioned', Onwards, AllHeard,
         NEW w \in WebhookIds, Call(w), UNCHANGED <<provisioning, marred>>
  PROVE  Accountable(w)' /\ Preceded(w)' /\ \A contact \in contacts' : Created(contact)'
  <1>0. /\ Accountable(w) /\ Preceded(w) /\ GoodWebhook(w)
        /\ \A contact \in contacts : Created(contact)'
    BY CallersStay DEF AllHeard, Created, Sound, InboundInv, Past, Settled
  <1>1. ASSUME NEW pc, Onward(w, pc), pc \notin {"signature", "refused", "failed"},
               UNCHANGED contacts
        PROVE  Accountable(w)' /\ Preceded(w)' /\ \A contact \in contacts' : Created(contact)'
    BY <1>0, <1>1 DEF Accountable, Preceded, Onward
  <1>2. ASSUME NEW n \in Phones, Receive(w, n)
        PROVE  Onward(w, "find_org") /\ UNCHANGED contacts
    BY <1>2, ReceivedOnward DEF Receive
  <1>3. CASE FindOrgByPhone(w)
    <2>1. Onward(w, "signature") /\ UNCHANGED <<contacts, called>>
      BY <1>3, FoundOnward DEF FindOrgByPhone
    <2>2. called[w[1]] \in Numbers /\ ~Excused(w)' => Known(w)'
      BY <1>3, FoundIsKnown DEF AllHeard
    <2> QED
      BY <1>0, <2>1, <2>2 DEF Accountable, Preceded, Onward
  <1>4. CASE ValidateSignature(w)
    <2> DEFINE pc == IF SignatureValid(webhooks[w].org, called[w[1]]) /\ webhooks[w].org # NoOrg
                     THEN "find_contact" ELSE "refused"
    <2>1. /\ Onward(w, pc) /\ SameFacts(w) /\ UNCHANGED <<contacts, called>>
          /\ webhooks[w].pc = "signature"
      BY <1>4, GoesOnward DEF ValidateSignature, Reaches
    <2>2. called[w[1]] \in Numbers /\ pc = "refused" => Excused(w)
      <3>1. /\ called[w[1]] \in Numbers =>
                 holder[called[w[1]]] \in Orgs \cup {NoAccount}
                   /\ holder[called[w[1]]] # NoAccount
            /\ NoOrg \notin Orgs /\ NoAccount \notin Orgs
        BY <1>0, <2>1, WebhookAssumption, OrganizationsAssumption
           DEF GoodWebhook, Sound, OrgsInv
      <3> QED
        BY <1>0, <2>1, <3>1 DEF Accountable, Known, SignatureValid, AuthToken
    <2>3. called[w[1]] \in Numbers /\ pc = "refused" => Excused(w)'
      BY <2>1, <2>2, ExcusedStays DEF SameFacts
    <2>4. pc # "failed" /\ pc # "signature"
      OBVIOUS
    <2> HIDE DEF pc
    <2> QED
      BY <1>0, <2>1, <2>3, <2>4 DEF Accountable, Preceded, Onward
  <1>5. CASE FindContact(w)
    <2>1. PICK pc \in {"insert_signal", "insert_contact"} : Onward(w, pc) /\ UNCHANGED contacts
      BY <1>5, ContactOnward DEF FindContact
    <2> QED
      BY <1>1, <2>1
  <1>6. CASE InsertContact(w)
    <2>1. PICK pc \in {"failed", "insert_signal"} :
            /\ Goes(w, pc) \/ Loses(w, pc)
            /\ pc = "failed" => Caller(w) \in contacts \/ Loses(w, pc)
      BY <1>6 DEF InsertContact
    <2>2. webhooks[w].pc = "insert_contact" /\ contacts' = contacts \cup {Caller(w)}
      BY <1>6 DEF InsertContact, Reaches
    <2>3. Onward(w, pc) /\ SameFacts(w) /\ (Loses(w, pc) => webhooks'[w].lost)
      BY <2>1, GoesOnward
    <2>4. Caller(w)' = Caller(w)
      BY <2>3 DEF Caller, SameFacts
    <2>5. Caller(w)' = Caller(w) /\ webhooks'[w].pc \in Past
      BY <2>3, <2>4 DEF Onward, Past, Settled
    <2>6. Accountable(w)'
      BY <2>3 DEF Accountable, Onward
    <2>7. Preceded(w)'
      <3> SUFFICES ASSUME webhooks'[w].pc = "failed", ~webhooks'[w].lost
                   PROVE  \E v \in WebhookIds \ {w} : /\ Caller(v)' = Caller(w)'
                                                      /\ webhooks'[v].pc \in Settled
        BY DEF Preceded
      <3>1. Caller(w) \in contacts
        BY <2>1, <2>3 DEF Onward
      <3>2. PICK v \in WebhookIds : Caller(v) = Caller(w) /\ webhooks[v].pc \in Past
        BY <3>1 DEF AllHeard, Created
      <3>3. v # w /\ webhooks[v].pc \in Settled
        BY <2>2, <3>2 DEF Past
      <3> QED
        BY <2>4, <3>2, <3>3, CallersStay
    <2> QED
      BY <1>0, <2>2, <2>5, <2>6, <2>7 DEF Created
  <1>7. CASE InsertSignal(w) \/ RouteText(w) \/ AnswerCall(w)
    <2>1. PICK pc \in {"answered", "check", "route", "dialed"} : Goes(w, pc) \/ Loses(w, pc)
      BY <1>7 DEF InsertSignal, RouteText, AnswerCall, AfterDuplicate
    <2>2. Onward(w, pc) /\ UNCHANGED contacts
      BY <1>7, <2>1, GoesOnward DEF InsertSignal, RouteText, AnswerCall
    <2> QED
      BY <1>1, <2>2
  <1>8. CASE WebhookFails(w)
    <2>1. Onward(w, "failed") /\ webhooks'[w].lost /\ UNCHANGED contacts
      BY <1>8, GoesOnward DEF WebhookFails
    <2> QED
      BY <1>0, <2>1 DEF Accountable, Preceded, Onward
  <1> QED
    BY <1>1, <1>2, <1>3, <1>4, <1>5, <1>6, <1>7, <1>8 DEF Call, WebhookRuns

LEMMA HeardStep ==
  ASSUME Sound, AllProvisioned, AllProvisioned', Onwards, AllHeard, [Next]_vars
  PROVE  AllHeard'
  <1>0. PhonesUnique' /\ \A o \in Orgs : secrets[o] = o => secrets'[o] = o
    BY UniqueStep, SecretsStay DEF AllHeard, Sound
  <1>1. CASE UNCHANGED <<contacts, called, webhooks>>
    BY <1>0, <1>1, HeardElsewhere
  <1>2. ASSUME NEW w \in WebhookIds, Call(w)
        PROVE  AllHeard'
    <2>1. UNCHANGED <<provisioning, marred>>
      BY <1>2 DEF Call, Receive, WebhookRuns, FindOrgByPhone, ValidateSignature, FindContact,
         InsertContact, InsertSignal, RouteText, AnswerCall, WebhookFails, Goes, Loses
    <2>2. ASSUME NEW v \in WebhookIds
          PROVE  Accountable(v)' /\ Preceded(v)'
      BY <1>2, <2>1, <2>2, CallHeard, OthersHeard
    <2> QED
      BY <1>0, <1>2, <2>1, <2>2, CallHeard DEF AllHeard
  <1>3. ASSUME NEW contact \in contacts, BarContact(contact)
        PROVE  AllHeard'
    BY <1>1, <1>3 DEF BarContact
  <1>4. CASE UNCHANGED inbound
    BY <1>1, <1>4 DEF inbound
  <1>5. CASE UNCHANGED vars
    BY <1>1, <1>5 DEF vars
  <1> QED
    BY <1>2, <1>3, <1>4, <1>5 DEF Next, Create, Edit

(* A webhook to a bought number is turned down only while, or because, its *)
(* organization was not set up undisturbed, and fails undisturbed only     *)
(* when another webhook has just made the same contact.                    *)
THEOREM InboundHeard == Spec => []InboundIsHeard
  <1>1. Init => AllHeard
    BY DEF Init, OrganizationsInit, WebhookInit, AllHeard, PhonesUnique, Accountable, Preceded
  <1>2. Sound /\ AllProvisioned /\ AllHeard /\ [Next]_vars /\ AllProvisioned' => AllHeard'
    BY ProvisionedStep, HeardStep
  <1>3. AllHeard => InboundIsHeard
    BY DEF AllHeard, Accountable, Preceded, Excused, InboundIsHeard
  <1> QED
    BY <1>1, <1>2, <1>3, SoundAlways, ProvisionedAlways, PTL DEF Spec

-----------------------------------------------------------------------------
(* OrgSetup implements Tenancy.                                            *)

Owner == [n \in Numbers |-> holder[n]]
RecordedFor(s) ==
  IF signals[s] # NoSignal /\ called[s] \in Numbers THEN signals[s].org ELSE NoAccount
RecordedAll == [s \in Sids |-> RecordedFor(s)]

\* Nothing that concerns the abstract state happens.
LEMMA Stutters ==
  ASSUME \A n \in Numbers : holder'[n] = holder[n],
         \A s \in Sids : RecordedFor(s)' = RecordedFor(s)
  PROVE  UNCHANGED <<Owner, RecordedAll>>
  BY DEF Owner, RecordedAll

(* A number bought is a number acquired.                                   *)
LEMMA BuyingAcquires ==
  ASSUME Sound, NEW o \in Orgs, BuyNumber(o), UNCHANGED inbound
  PROVE  \/ UNCHANGED <<Owner, RecordedAll>>
         \/ \E n \in Numbers : Promise!Acquire(n, o)
  <1> DEFINE n == creations[o].number
  <1>1. n \in Numbers /\ Numbers \subseteq Phones /\ holder \in [Phones -> Accounts]
    BY DEF Sound, OrgsInv, OrganizationsTypeOK, CreationsInv, GoodCreation, BuyNumber, At,
       Chosen, Phones
  <1>2. CASE UNCHANGED holder
    <2>1. UNCHANGED <<holder, signals, called>>
      BY <1>2 DEF inbound
    <2> QED
      BY <2>1, Stutters DEF RecordedFor
  <1>3. CASE holder[n] = NoAccount /\ holder' = [holder EXCEPT ![n] = o]
    <2>1. Owner' = [Owner EXCEPT ![n] = o] /\ Owner[n] = NoAccount
      BY <1>1, <1>3 DEF Owner
    <2>2. RecordedAll' = RecordedAll
      BY DEF RecordedAll, RecordedFor, inbound
    <2> HIDE DEF n
    <2> QED
      BY <1>1, <2>1, <2>2 DEF Promise!Acquire, Owner, RecordedAll, RecordedFor
  <1> QED
    BY <1>2, <1>3 DEF BuyNumber, Raises

(* A signal inserted is a text or call recorded, when it came in on a      *)
(* number that was bought.                                                 *)
LEMMA InsertingRecords ==
  ASSUME Sound, NEW w \in WebhookIds, InsertSignal(w)
  PROVE  \/ UNCHANGED <<Owner, RecordedAll>>
         \/ \E s \in Sids, n \in Numbers : Promise!Record(s, n)
  <1> DEFINE s == w[1]
             n == called[w[1]]
             row == [org |-> webhooks[w].org, status |-> "received"]
  <1>1. /\ s \in Sids /\ signals \in [Sids -> Signal] /\ UNCHANGED <<holder, called>>
        /\ webhooks[w].org \in Orgs /\ NoAccount \notin Orgs
        /\ n \in Numbers => webhooks[w].org = holder[n]
    <2>1. GoodWebhook(w)
      BY DEF Sound, InboundInv
    <2> QED
      BY <2>1, RunningWebhook, OrganizationsAssumption
         DEF Sound, InsertSignal, Reaches, GoodWebhook, Accepted, provisioning, twilio
  <1>2. CASE UNCHANGED signals
    BY <1>1, <1>2, Stutters DEF RecordedFor
  <1>3. CASE signals[s] = NoSignal /\ signals' = [signals EXCEPT ![s] = row]
    <2>1. /\ \A q \in Sids \ {s} : RecordedFor(q)' = RecordedFor(q)
          /\ RecordedFor(s) = NoAccount
      BY <1>1, <1>3 DEF RecordedFor
    <2>2. CASE n \notin Numbers
      <3>1. RecordedFor(s)' = RecordedFor(s)
        BY <1>1, <2>1, <2>2 DEF RecordedFor
      <3> QED
        BY <1>1, <2>1, <3>1, Stutters
    <2>3. CASE n \in Numbers
      <3>1. RecordedFor(s)' = holder[n]
        <4>1. signals'[s] = row /\ row # NoSignal /\ row.org = holder[n]
          BY <1>1, <1>3, <2>3 DEF NoSignal
        <4> QED
          BY <1>1, <2>3, <4>1 DEF RecordedFor
      <3>2. /\ RecordedAll' = [RecordedAll EXCEPT ![s] = Owner[n]]
            /\ RecordedAll[s] = NoAccount /\ Owner[n] # NoAccount /\ Owner' = Owner
        BY <1>1, <2>1, <2>3, <3>1 DEF RecordedAll, Owner
      <3> HIDE DEF n, s
      <3> QED
        BY <1>1, <2>3, <3>2 DEF Promise!Record, Owner, RecordedAll, RecordedFor
    <2> QED
      BY <2>2, <2>3
  <1> QED
    BY <1>2, <1>3 DEF InsertSignal, Recorded

(* The other steps of a webhook, and what members do, leave the abstract   *)
(* state alone.                                                            *)
LEMMA OthersStutter ==
  ASSUME Sound, NEW w \in WebhookIds, Call(w), ~InsertSignal(w)
  PROVE  UNCHANGED <<Owner, RecordedAll>>
  <1>1. UNCHANGED holder /\ w[1] \in Sids
    BY DEF Call, Receive, WebhookRuns, FindOrgByPhone, ValidateSignature, FindContact,
       InsertContact, RouteText, AnswerCall, WebhookFails, provisioning, twilio, WebhookIds
  <1>2. ASSUME NEW n \in Phones, Receive(w, n)
        PROVE  UNCHANGED <<Owner, RecordedAll>>
    <2>1. /\ called \in [Sids -> Phones \cup {NoPhone}] /\ GoodSignal(w[1]) /\ GoodWebhook(w)
          /\ called' = [called EXCEPT ![w[1]] = n] /\ UNCHANGED signals
      BY <1>1, <1>2 DEF Sound, InboundInv, WebhookTypeOK, Receive
    <2>2. called[w[1]] = n \/ signals[w[1]] = NoSignal
      BY <1>2, <2>1 DEF Receive, GoodWebhook, GoodSignal
    <2>3. \A s \in Sids : RecordedFor(s)' = RecordedFor(s)
      BY <2>1, <2>2 DEF RecordedFor
    <2> QED
      BY <1>1, <2>3, Stutters
  <1>3. CASE UNCHANGED <<called, signals>>
    BY <1>1, <1>3, Stutters DEF RecordedFor
  <1>4. CASE RouteText(w) \/ AnswerCall(w)
    <2>1. signals[w[1]].org \in Orgs /\ UNCHANGED called
      BY <1>4 DEF RouteText, AnswerCall, Reaches, Sound, InboundInv, GoodWebhook
    <2>2. PICK status \in {"delivered", "failed", "ignored"} :
            signals' = [signals EXCEPT ![w[1]].status = status]
      BY <1>4 DEF RouteText, AnswerCall
    <2>3. \A s \in Sids : /\ signals'[s].org = signals[s].org
                          /\ signals[s] # NoSignal <=> signals[s].org \in Orgs
                          /\ signals'[s] # NoSignal <=> signals'[s].org \in Orgs
      <3>1. Sound' /\ NoOrg \notin Orgs
        BY <1>4, EndStep, WebhookAssumption
      <3>2. \A s \in Sids : signals'[s].org = signals[s].org
        BY <1>1, <2>1, <2>2, StatusKeepsOrg DEF Sound
      <3> QED
        BY <3>1, <3>2 DEF Sound, InboundInv, GoodSignal, NoSignal
    <2>4. \A s \in Sids : RecordedFor(s)' = RecordedFor(s)
      BY <2>1, <2>3 DEF RecordedFor
    <2> QED
      BY <1>1, <2>4, Stutters
  <1> QED
    BY <1>2, <1>3, <1>4
       DEF Call, WebhookRuns, FindOrgByPhone, ValidateSignature, FindContact, InsertContact,
           WebhookFails

\* Every step is one of Tenancy's or leaves its variables alone.
LEMMA StepRefines ==
  ASSUME Sound, [Next]_vars
  PROVE  Promise!Next \/ UNCHANGED <<Owner, RecordedAll>>
  <1>1. CASE UNCHANGED <<holder, called, signals>>
    BY <1>1, Stutters DEF RecordedFor
  <1>2. ASSUME NEW o \in Orgs, BuyNumber(o), UNCHANGED inbound
        PROVE  Promise!Next \/ UNCHANGED <<Owner, RecordedAll>>
    BY <1>2, BuyingAcquires DEF Promise!Next
  <1>3. ASSUME NEW w \in WebhookIds, Call(w)
        PROVE  Promise!Next \/ UNCHANGED <<Owner, RecordedAll>>
    BY <1>3, InsertingRecords, OthersStutter DEF Promise!Next
  <1>4. ASSUME NEW o \in Orgs, Create(o) \/ \E u \in Users : Edit(o, u)
        PROVE  (BuyNumber(o) /\ UNCHANGED inbound) \/ UNCHANGED <<holder, called, signals>>
    BY <1>4 DEF Create, CreateOrganization, CreationRuns, CreationStops, InsertOrganization,
       InsertOwner, CreateSubaccount, FindAvailableNumber, CreateService, AttachNumber,
       PublishNumber, StoreSecret, Edit, UpdateOrganization, AddOrganizationMember, twilio,
       inbound
  <1>5. ASSUME NEW contact \in contacts, BarContact(contact)
        PROVE  UNCHANGED <<holder, called, signals>>
    BY <1>5 DEF BarContact, provisioning, twilio
  <1>6. CASE UNCHANGED vars
    BY <1>1, <1>6 DEF vars
  <1> QED
    BY <1>1, <1>2, <1>3, <1>4, <1>5, <1>6 DEF Next

(* OrgSetup implements Tenancy: what was bought stays its buyer's, and     *)
(* what arrives there is recorded once and for the buyer.                  *)
THEOREM OneTenant == Spec => NumbersHaveOneTenant
  <1>1. Init => Promise!Init
    <2> SUFFICES ASSUME Init PROVE Promise!Init
      OBVIOUS
    <2>1. \A n \in Numbers : holder[n] = NoAccount
      BY OrganizationsAssumption DEF Init, OrganizationsInit, Phones
    <2>2. \A s \in Sids : signals[s] = NoSignal
      BY DEF Init, WebhookInit
    <2> QED
      BY <2>1, <2>2 DEF Promise!Init
  <1>2. Sound /\ [Next]_vars => [Promise!Next]_<<Owner, RecordedAll>>
    BY StepRefines
  <1> QED
    BY <1>1, <1>2, SoundAlways, PTL
       DEF Spec, NumbersHaveOneTenant, Promise!Spec, Owner, RecordedAll, RecordedFor
=============================================================================
