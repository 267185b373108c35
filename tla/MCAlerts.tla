------------------------------ MODULE MCAlerts ------------------------------
(* Instances of Alerts for TLC. *)
EXTENDS Alerts

CONSTANTS s1, u1, u2

\* The last event, with which a burst rolls out of the list, is for behaviours of
\* one tenant whose connection holds.
Simple == log \in Seq({u1}) /\ session # u2 /\ history.outages = 0 /\ history.drops = 0
MCNext == Next /\ (Len(log') = MaxEvents => Simple')

MCSpec == Init /\ [][MCNext]_vars /\ Progress
=============================================================================
