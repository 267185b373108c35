----------------------------- MODULE MCTaskPool ------------------------------
(* Small instances of TaskPool. *)
EXTENDS TaskPool

CONSTANTS w1, w2

TwoWorkers == {w1, w2}
OneWorker  == {w1}
NoOne      == {}
=============================================================================
