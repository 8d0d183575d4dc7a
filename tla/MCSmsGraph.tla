----------------------------- MODULE MCSmsGraph -----------------------------
(* Instances of SmsGraph for TLC. *)
EXTENDS SmsGraph

CONSTANTS t1, t2

\* A reply and, for the second task, a silence follow-up.
Goals == [t \in Tasks |-> IF t = t2 THEN "follow_up_no_response" ELSE "reply_to_inbound_sms"]
=============================================================================
