------------------------------ MODULE MCHandoff ------------------------------
(* Small instances of Handoff. *)
EXTENDS Handoff, MCTaskPool

CONSTANTS u1, a1, a2

OneEach   == {u1, w1}
OneAndTwo == {u1, w1, w2}
Approvals == {a1, a2}
Approval  == {a1}
=============================================================================
