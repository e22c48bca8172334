------------------------- MODULE AppointmentCalendar -------------------------
(***************************************************************************)
(* What the appointment store promises to everybody who shares it: a       *)
(* booking takes a free slot at once, moves to a free slot at once, or is  *)
(* given up for good.                                                      *)
(***************************************************************************)
CONSTANTS
    Ids,            \* the database's appointment ids
    Available,      \* the slots on offer
    Overlaps        \* pairs of slots of one resource that overlap

VARIABLE row        \* per id: its booked slot, "absent" or "cancelled"

Taken(i) == {j \in Ids \ {i} : row[j] \in Available}
Free(s, i) == s \in Available /\ \A j \in Taken(i) : <<row[j], s>> \notin Overlaps

Book(i, s) == row[i] = "absent" /\ Free(s, i) /\ row' = [row EXCEPT ![i] = s]

Move(i, s) == row[i] \in Available /\ Free(s, i) /\ row' = [row EXCEPT ![i] = s]

GiveUp(i) == row[i] \in Available /\ row' = [row EXCEPT ![i] = "cancelled"]

CalendarInit == row = [i \in Ids |-> "absent"]

CalendarNext == \E i \in Ids : GiveUp(i) \/ \E s \in Available : Book(i, s) \/ Move(i, s)

CalendarSpec == CalendarInit /\ [][CalendarNext]_row
=============================================================================
