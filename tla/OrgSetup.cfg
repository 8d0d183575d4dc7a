SPECIFICATION Spec
CONSTANTS
  o1 = o1
  o2 = o2
  u1 = u1
  u2 = u2
  n1 = n1
  n2 = n2
  s1 = s1
  s2 = s2
  ann = ann
  Orgs = {o1, o2}
  Users = {u1, u2}
  Slugs = {"a", "b"}
  Numbers = {n1}
  Legacy = {n2}
  NoPhone = NoPhone
  Typed = {n1, n2}
  Bodies <- Posts
  Parent = Parent
  NoAccount = NoAccount
  NoOrg = NoOrg
  Disturbances = 1
  Sids = {s1, s2}
  Kind <- Kinds
  Senders = {ann}
  From <- Sender
  Deliveries = 2
SYMMETRY Alike
INVARIANTS
  TypeOK
  OrganizationsHaveOwners
  ProvisioningIsWhole
  MessagesStayInTheirOrganization
  InboundIsHeard
  AnsweredTextIsRouted
  BarredCallersAreNotDialed
PROPERTIES
  NumbersHaveOneTenant
CHECK_DEADLOCK FALSE
