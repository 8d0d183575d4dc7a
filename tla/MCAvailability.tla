--------------------------- MODULE MCAvailability ---------------------------
(* Questions, times and calendars for TLC: hours at and beyond the edges of *)
(* the day, lengths at and beyond the edges of the band, entries that touch *)
(* a slot, cover one, reach over midnight, and lie at the end of the week.  *)
EXTENDS Availability

Questions == [weekdays: {{}, {UnknownDay}, {2, 6}},
              duration: {Unset, 15, 45, 90},
              earliest: {Unset, 0, 8, 23},
              latest: {Unset, 1, 10}]

Instants == {0, 9 * HOUR + 10}

Calendar == {<<8 * HOUR, 9 * HOUR + 30>>, <<23 * HOUR + 15, 33 * HOUR>>,
             <<6 * MINUTES_PER_DAY + 9 * HOUR + 15, 6 * MINUTES_PER_DAY + 10 * HOUR>>}
=============================================================================
