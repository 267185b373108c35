-------------------------- MODULE AdapterEndpoints --------------------------
(***************************************************************************)
(* The write endpoints of backend/app/routers/adapters.py.  They dispatch  *)
(* an approved row of the review queue beside submit_proposal: both look   *)
(* at the status (_load_approved_item), neither at the row's platform, and *)
(* neither claims the row.                                                 *)
(***************************************************************************)
EXTENDS ReviewQueue

CONSTANT MaxBids    \* bound: calls of freelancer_bid per approval

\* The loaded row shows an approval; it pays for what the handler sends.  (A
\* skipped fiverr offer stays "approved" although its token is gone, and what
\* is sent for it is charged to nobody.)
Charge(r, arrived) ==
    LET t == req[r].snap.token
    IN  IF t = NoToken THEN UNCHANGED ledger ELSE Dispatch(r, t, arrived)

\* Before anything is sent: no bidder id, a project id that is no number, no
\* agency member, an open circuit; or an attempt that does not arrive and is
\* the last, or is refused.  The row stays approved.
Refused(r) ==
    /\ req[r].op \in {"bid", "agency"} /\ req[r].pc = "dispatch"
    /\ Done(r)
    /\ UNCHANGED <<row, ledger, handedOff, platform>>

-----------------------------------------------------------------------------
(* freelancer_bid                                                          *)

WithinBound(t) == t # NoToken => ledger[t].calls < MaxBids

ReadBid(r) ==
    /\ row.status = "approved"
    /\ WithinBound(row.token)
    /\ Load(r, "bid", "dispatch")

\* The bid is placed, and audited unless its answer is lost or bad; the row
\* keeps its status either way.
SendBid(r) ==
    /\ At(r, "bid", "dispatch")
    /\ Charge(r, <<Bid(req[r].snap)>>)
    /\ Done(r)
    /\ UNCHANGED <<row, handedOff, platform>>

\* The POST is repeated, as in RepeatBid.
RepeatSend(r) ==
    /\ At(r, "bid", "dispatch")
    /\ req[r].tries + 1 < MaxAttempts
    /\ Charge(r, <<Bid(req[r].snap)>>) \/ Charge(r, <<>>)
    /\ req' = [req EXCEPT ![r].tries = @ + 1]
    /\ UNCHANGED <<row, handedOff, platform>>

-----------------------------------------------------------------------------
(* upwork_submit_proposal                                                  *)

ReadAgency(r) ==
    /\ row.status = "approved"
    /\ Load(r, "agency", "dispatch")

\* The browser task commits; the row's status follows (Finish).
EnqueueAgency(r) ==
    /\ At(r, "agency", "dispatch")
    /\ req[r].snap.reviewed
    /\ Charge(r, <<Typed(req[r].snap)>>)
    /\ handedOff' = TRUE
    /\ Goto(r, "finish", req[r].snap, NoToken)
    /\ UNCHANGED <<row, platform>>

-----------------------------------------------------------------------------
AdapterArrive(r)   == ReadBid(r) \/ ReadAgency(r)
AdapterContinue(r) == SendBid(r) \/ RepeatSend(r) \/ EnqueueAgency(r) \/ Refused(r)

AdapterNext == Next \/ \E r \in Requests : AdapterArrive(r) \/ AdapterContinue(r)

AdapterSpec == Init /\ [][AdapterNext]_vars
=============================================================================
