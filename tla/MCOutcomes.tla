----------------------------- MODULE MCOutcomes -----------------------------
(* Instances of Outcomes for TLC. *)
EXTENDS Outcomes, FiniteSets

CONSTANTS u1, u2, b1, b2

\* A request of the user against another, and against a beat; two beats.
Pairs == {{u1, u2}, {u1, b1}, {b1, b2}}

\* Without a beat nothing is drafted by itself; two beats may draft twice.
FollowUps == [c \in Pairs |-> Cardinality(c \cap Beats)]
=============================================================================
