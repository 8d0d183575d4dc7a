----------------------------- MODULE MCOrgSetup -----------------------------
(* An instance of OrgSetup for TLC: two organizations, two numbers, and a  *)
(* contact who texts and calls.                                            *)
EXTENDS OrgSetup, TLC

CONSTANTS o1, o2, u1, u2, n1, n2, s1, s2, ann

Kinds == s1 :> "sms" @@ s2 :> "call"
Sender == [s \in Sids |-> ann]

Post(user, slug, phone) == [user |-> user, slug |-> slug, phone |-> phone]
Posts == {Post(u1, "a", NoPhone), Post(u2, "b", NoPhone), Post(u1, "b", n2)}

Alike == Permutations(Orgs)
=============================================================================
