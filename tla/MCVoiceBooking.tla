--------------------------- MODULE MCVoiceBooking ---------------------------
(* An instance of VoiceBooking for TLC: an hour on Sunday, the last day of *)
(* the week, and an owner whose own entry would overlap it.                *)
EXTENDS VoiceBooking, TLC

CONSTANTS c1, c2, a1, a2, ann, bob

OnFile == [c \in Calls |-> bob]

Hour == [weekdays |-> {6, UnknownDay}, duration |-> 90, earliest |-> Unset, latest |-> 10]
Questions == {Hour}

Owners == {<<6 * MINUTES_PER_DAY + 9 * HOUR + 30, 6 * MINUTES_PER_DAY + 11 * HOUR>>}

Alike == Permutations(Accounts) \cup Permutations(Calls)
=============================================================================
