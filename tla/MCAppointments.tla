---------------------------- MODULE MCAppointments ----------------------------
(* Instance of Appointments for TLC.                                       *)
EXTENDS Appointments, TLC

CONSTANTS b1, b2, s1, s2, r1, r2

\* Of two booking jobs and two requests at most three run.
Bound ==
    Cardinality({b \in Bookers : job[Book(b)].attempts > 0})
        + Cardinality({r \in Requests : ~Unasked(r)}) <= 3

Symmetry == Permutations({b1, b2}) \cup Permutations({s1, s2}) \cup Permutations({r1, r2})
=============================================================================
