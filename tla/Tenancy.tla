------------------------------ MODULE Tenancy -------------------------------
(***************************************************************************)
(* What organizations are promised about phone numbers: a number that one  *)
(* of them has got is its own for good, and whatever arrives at a number   *)
(* is recorded once, for the organization that has it.                     *)
(***************************************************************************)
CONSTANTS Orgs, Numbers, Sids, Nobody

VARIABLES
  owner,     \* the organization that has each number
  recorded   \* the organization each text or call was recorded for

Init ==
  /\ owner = [n \in Numbers |-> Nobody]
  /\ recorded = [s \in Sids |-> Nobody]

Acquire(n, o) ==
  /\ owner[n] = Nobody
  /\ owner' = [owner EXCEPT ![n] = o]
  /\ UNCHANGED recorded

Record(s, n) ==
  /\ recorded[s] = Nobody
  /\ owner[n] # Nobody
  /\ recorded' = [recorded EXCEPT ![s] = owner[n]]
  /\ UNCHANGED owner

Next ==
  \/ \E n \in Numbers, o \in Orgs : Acquire(n, o)
  \/ \E s \in Sids, n \in Numbers : Record(s, n)

Spec == Init /\ [][Next]_<<owner, recorded>>
=============================================================================
