------------------------------- MODULE MCParts -------------------------------
(***************************************************************************)
(* Small instances of two parts, each by itself: the review queue with the *)
(* adapter endpoints, and the browser workers with their tasks.  A         *)
(* behaviour explores one of them.  They share no variable; Handoff has    *)
(* what they do together.                                                  *)
(***************************************************************************)
EXTENDS MCReviewQueue, MCTaskPool

VARIABLE part    \* "queue" or "pool"

allVars == <<part, vars, poolVars>>

MCInit ==
    /\ part \in {"queue", "pool"}
    /\ Init /\ PoolInit
    /\ part = "pool" => platform = "manual" /\ row = BlankRow

\* Tasks settle; the queue always has something left to do.
Rest == part = "pool" /\ UNCHANGED allVars

MCNext ==
    \/ part = "queue" /\ AdapterNext /\ UNCHANGED <<part, poolVars>>
    \/ part = "pool" /\ PoolNext /\ UNCHANGED <<part, vars>>
    \/ Rest

\* Nothing is asked of the queue; while it runs, no worker has a task.
MCSpec == MCInit /\ [][MCNext]_allVars /\ PoolFairness
=============================================================================
