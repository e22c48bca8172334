------------------------ MODULE MCAppointmentBooking ------------------------
(* TLC instance of AppointmentBooking: two conversations with one           *)
(* appointment each, and three slots, two of which overlap.                 *)
EXTENDS AppointmentBooking

CONSTANTS c1, c2, s1, s2, s3

MCOverlaps == ({s1, s2} \X {s1, s2}) \union {<<s3, s3>>}

\* Bound: the first user asks for s1 and says everything there is; the
\* second asks for s2, and only ever books, moves and cancels.
Spoken ==
    \A c \in Conversations :
        /\ said[c].fresh => wish[c][said[c].id] = IF c = c1 THEN s1 ELSE s2
        /\ c # c1 => said[c].kind \in {"none", "slot", "yes", "cancel"}

\* Hearing a turn touches nothing another conversation sees, so it can wait
\* until its response is the next to act: one turn at a time is enough.
OneTurn == Cardinality({c \in Conversations : pc[c] = "turn"}) <= 1

\* Nothing reads the history.
WithoutHistory == <<row, pc, said, stale, offer, beliefs>>
=============================================================================
