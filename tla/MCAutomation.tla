---------------------------- MODULE MCAutomation ----------------------------
(* Instances of Automation for TLC. *)
EXTENDS Automation

CONSTANTS p1, p2, r1, r2, x1, x2

AllRequests == {{r1, r2}}

\* A circuit is opened again and again only where nothing else makes the run
\* hard: Redis answers, and transitions do not overlap checks.
MCNext == Next /\ (trips' > 1 => mode = "calm")

MCSpec == Init /\ [][MCNext]_vars /\ Fairness
=============================================================================
