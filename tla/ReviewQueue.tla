----------------------------- MODULE ReviewQueue -----------------------------
(***************************************************************************)
(* The review queue of backend/app/routers/proposals.py, projected onto    *)
(* one row of proposal_queue, and every handler that writes its status.    *)
(*                                                                         *)
(* A handler loads the row into its session, decides on that snapshot, and *)
(* commits later; the session UPDATEs only the columns that differ from    *)
(* the snapshot and checks no version (database.py: autoflush and          *)
(* expire_on_commit are off).  Each handler is therefore a read action     *)
(* and one action per commit or external call, and the requests in         *)
(* Requests interleave between them.  With a single request the same       *)
(* module describes the queue when nothing overlaps.                       *)
(*                                                                         *)
(* A row holds a draft twice: the text the reviewer judges (proposal_text) *)
(* and the text the browser worker types (humanized_text).  The bid amount *)
(* follows proposal_text and is left out, except that a revert which       *)
(* changes only the bid counts as a change.  The variable ledger is        *)
(* history: a token stands for one approval, and records the text it was   *)
(* given for and what left on its strength.                                *)
(*                                                                         *)
(* A bid leaves in a call of FreelancerAdapter.place_bid, and the call     *)
(* repeats its POST (ratelimit.py, request_with_retry) while no answer, or *)
(* a bad one, comes.  Each attempt is a step, so one call can deliver      *)
(* several bids, and a crash, or anything else, may fall between them.     *)
(***************************************************************************)
EXTENDS Naturals, Sequences

CONSTANTS Requests,   \* request handlers that may overlap
          Texts,      \* texts of drafts
          NoText,     \* an empty text, or no text in the request body
          Tokens,     \* approvals (bounds how many are given)
          NoToken,
          MaxAttempts,  \* of request_with_retry
          Platforms   \* subset of {"freelancer", "upwork", "fiverr", "manual"}

ASSUME NoTextAssumption  == NoText \notin Texts
ASSUME NoTokenAssumption == NoToken \notin Tokens
ASSUME AttemptsAssumption == MaxAttempts \in Nat \ {0}

VARIABLES row,        \* the proposal_queue row
          req,        \* req[r]: what handler r is doing
          ledger,     \* history of the approvals
          handedOff,  \* a browser task has been enqueued for the row
          platform    \* the row's platform; never changes

vars == <<row, req, ledger, handedOff, platform>>

Statuses == {"pending_review", "generation_failed", "approved", "submitting",
             "rejected", "submitted", "queued_for_browser",
             "submitted_unverified", "failed"}

Row == [status    : Statuses,
        text      : Texts \cup {NoText},
        humanized : Texts \cup {NoText},      \* what the browser is to type
        versions  : Seq(Texts \cup {NoText}),
        flagged   : BOOLEAN,                  \* needs_review
        reviewed  : BOOLEAN,                  \* reviewed_by is set
        token     : Tokens \cup {NoToken}]    \* the approval behind "approved"

\* A handler: its operation, where it stands, the row as it loaded it, the
\* draft in the request body, the approval it holds, and how many POSTs of its
\* call were in vain.
Handler == [op    : {"none", "approve", "bulk", "reject", "mark", "revert",
                     "submit", "generate", "verdict", "bid", "agency"},
            pc    : {"idle", "commit", "refresh", "enqueue", "claim",
                     "dispatch", "finish", "fail"},
            snap  : Row,
            body  : Texts \cup {NoText},
            token : Tokens \cup {NoToken},
            tries : Nat]

\* A text that left: as a bid through the platform's API, or with a task for
\* the browser worker.
Sending == [channel : {"api", "browser"}, text : Texts \cup {NoText}]

\* What the history records of one approval: the text it was given for, the
\* calls of an adapter it paid for, and what these delivered.
Entry == [minted : BOOLEAN, text : Texts \cup {NoText}, calls : Nat, sent : Seq(Sending)]

BlankRow == [status |-> "generation_failed", text |-> NoText, humanized |-> NoText,
             versions |-> <<>>, flagged |-> TRUE, reviewed |-> FALSE, token |-> NoToken]

Idle == [op |-> "none", pc |-> "idle", snap |-> BlankRow, body |-> NoText,
         token |-> NoToken, tries |-> 0]

NoEntry == [minted |-> FALSE, text |-> NoText, calls |-> 0, sent |-> <<>>]

\* Approving a fiverr buyer request dispatches it; nothing else does.
AutoDispatch == platform = "fiverr"

\* What a successful generation leaves: the humanized text goes to the
\* reviewer, unless it is empty; the raw draft is the first version.
Drafted(snap, human, draft, f) ==
    [snap EXCEPT !.status = "pending_review", !.token = NoToken, !.humanized = human,
                 !.text = IF human = NoText THEN draft ELSE human,
                 !.versions = Append(@, draft), !.flagged = f]

\* What the fiverr monitor queues for a buyer request.
Offered(offer) == [BlankRow EXCEPT !.status = "pending_review", !.text = offer,
                                   !.humanized = offer, !.flagged = FALSE]

-----------------------------------------------------------------------------
Init ==
    /\ platform \in Platforms
    /\ IF AutoDispatch
       THEN \E offer \in Texts : row = Offered(offer)
       ELSE \/ row = BlankRow
            \/ \E human \in Texts \cup {NoText}, draft \in Texts, f \in BOOLEAN :
                  row = Drafted(BlankRow, human, draft, f)
    /\ req = [r \in Requests |-> Idle]
    /\ ledger = [t \in Tokens |-> NoEntry]
    /\ handedOff = FALSE

\* What an UPDATE leaves in the row: a column is written only when the
\* session changed it.  The token belongs to the status column.
Flush(snap, new) ==
    [status    |-> IF new.status # snap.status THEN new.status ELSE row.status,
     text      |-> IF new.text # snap.text THEN new.text ELSE row.text,
     humanized |-> IF new.humanized # snap.humanized THEN new.humanized ELSE row.humanized,
     versions  |-> IF new.versions # snap.versions THEN new.versions ELSE row.versions,
     flagged   |-> IF new.flagged # snap.flagged THEN new.flagged ELSE row.flagged,
     reviewed  |-> IF new.reviewed # snap.reviewed THEN new.reviewed ELSE row.reviewed,
     token     |-> IF new.status # snap.status THEN new.token ELSE row.token]

\* A request arrives and its handler loads the row.
Begin(r, op, pc, body, token) ==
    /\ req[r] = Idle
    /\ req' = [req EXCEPT ![r] = [op |-> op, pc |-> pc, snap |-> row,
                                  body |-> body, token |-> token, tries |-> 0]]
    /\ UNCHANGED <<row, platform>>

Load(r, op, pc) == Begin(r, op, pc, NoText, NoToken) /\ UNCHANGED <<ledger, handedOff>>

At(r, op, pc) == req[r].op = op /\ req[r].pc = pc
Goto(r, pc, snap, token) ==
    req' = [req EXCEPT ![r].pc = pc, ![r].snap = snap, ![r].token = token, ![r].tries = 0]
Done(r) == req' = [req EXCEPT ![r] = Idle]

\* The call that approval t pays for begins or goes on, and delivers what is
\* in arrived: something, or nothing.
Dispatch(r, t, arrived) ==
    ledger' = [ledger EXCEPT ![t].calls = IF req[r].tries = 0 THEN @ + 1 ELSE @,
                             ![t].sent  = @ \o arrived]

\* What a bid carries: proposal_text.
Bid(snap) == [channel |-> "api", text |-> snap.text]

\* What the worker types: humanized_text or, if that is empty, proposal_text.
Typed(snap) == [channel |-> "browser",
                text    |-> IF snap.humanized = NoText THEN snap.text ELSE snap.humanized]

-----------------------------------------------------------------------------
(* approve_proposal and bulk_approve                                       *)

\* The reviewer's click is the approval: it is given for the draft in the
\* body or, without one, for the draft the row holds.
Click(r, op, body) ==
    \E t \in Tokens :
       /\ ~ledger[t].minted
       /\ ledger' = [ledger EXCEPT ![t].minted = TRUE,
                                   ![t].text = IF body = NoText THEN row.text ELSE body]
       /\ Begin(r, op, "commit", body, t)
       /\ UNCHANGED handedOff

ReadApprove(r) ==
    /\ row.status = "pending_review"
    /\ \E body \in Texts \cup {NoText} : Click(r, "approve", body)

ReadBulk(r) ==
    /\ row.status = "pending_review"
    /\ ~row.flagged
    /\ Click(r, "bulk", NoText)

\* The commit of an approval; a row that is dispatched at once leaves the
\* token with the handler, every other row keeps it for a later submit.
Approve(r, new, next) ==
    /\ row' = Flush(req[r].snap,
                    [new EXCEPT !.token = IF AutoDispatch THEN NoToken ELSE req[r].token])
    /\ IF AutoDispatch THEN Goto(r, next, new, req[r].token) ELSE Done(r)
    /\ UNCHANGED <<ledger, handedOff, platform>>

CommitApprove(r) ==
    LET snap   == req[r].snap
        edited == req[r].body \notin {NoText, snap.text}
        judged == [snap EXCEPT !.status = "approved", !.reviewed = TRUE]
    IN  /\ At(r, "approve", "commit")
        /\ Approve(r, IF edited THEN [judged EXCEPT !.text = req[r].body,
                                                    !.versions = Append(@, snap.text)]
                                ELSE judged,
                   "refresh")

\* Whether the object is still in the session or loaded afresh for the
\* dispatch is up to the garbage collector (the identity map is weak).
CommitBulk(r) ==
    /\ At(r, "bulk", "commit")
    /\ \E next \in {"refresh", "enqueue"} :
          Approve(r, [req[r].snap EXCEPT !.status = "approved", !.reviewed = TRUE,
                                         !.versions = Append(@, req[r].snap.text)],
                  next)

\* _dispatch_fiverr_offer: no account or an open circuit leaves the row as it is.
Refresh(r) ==
    /\ req[r].pc = "refresh"
    /\ Goto(r, "enqueue", row, req[r].token)
    /\ UNCHANGED <<row, ledger, handedOff, platform>>

SkipOffer(r) ==
    /\ req[r].pc = "enqueue"
    /\ Done(r)
    /\ UNCHANGED <<row, ledger, handedOff, platform>>

EnqueueOffer(r) ==
    /\ req[r].pc = "enqueue"
    /\ Dispatch(r, req[r].token, <<Typed(req[r].snap)>>)
    /\ handedOff' = TRUE
    /\ Goto(r, "finish", req[r].snap, NoToken)
    /\ UNCHANGED <<row, platform>>

-----------------------------------------------------------------------------
(* reject_proposal, mark_submitted, revert_version                         *)

ReadReject(r) ==
    /\ row.status = "pending_review"
    /\ Load(r, "reject", "commit")

CommitReject(r) ==
    /\ At(r, "reject", "commit")
    /\ row' = Flush(req[r].snap, [req[r].snap EXCEPT !.status = "rejected", !.reviewed = TRUE,
                                                     !.token = NoToken])
    /\ Done(r)
    /\ UNCHANGED <<ledger, handedOff, platform>>

ReadMark(r) ==
    /\ row.status \in {"approved", "failed"}
    /\ Load(r, "mark", "commit")

CommitMark(r) ==
    /\ At(r, "mark", "commit")
    /\ row' = Flush(req[r].snap, [req[r].snap EXCEPT !.status = "submitted", !.token = NoToken])
    /\ Done(r)
    /\ UNCHANGED <<ledger, handedOff, platform>>

\* Mutant of ReadRevert: any settled row can be reverted.
RevertAny(r) ==
    /\ row.status # "submitting"
    /\ row.versions # <<>>
    /\ Load(r, "revert", "commit")

ReadRevert(r) ==
    /\ row.status \in {"pending_review", "approved"}
    /\ row.versions # <<>>
    /\ Load(r, "revert", "commit")

\* Mutant of Reverted: the approval survives the change.
RevertKeepsApproval(snap, text, newBid) == [snap EXCEPT !.text = text]

\* Only a version that differs from the snapshot re-enters the review boundary.
Reverted(snap, text, newBid) ==
    IF text = snap.text /\ ~newBid
    THEN snap
    ELSE [snap EXCEPT !.text = text, !.status = "pending_review",
                      !.reviewed = FALSE, !.token = NoToken]

CommitRevert(r) ==
    /\ At(r, "revert", "commit")
    /\ \E k \in DOMAIN req[r].snap.versions, newBid \in BOOLEAN :
          row' = Flush(req[r].snap, Reverted(req[r].snap, req[r].snap.versions[k], newBid))
    /\ Done(r)
    /\ UNCHANGED <<ledger, handedOff, platform>>

-----------------------------------------------------------------------------
(* submit_proposal                                                         *)

ReadSubmit(r) == Load(r, "submit", "claim")

\* Mutant of Claim: check-then-act on the loaded row.
ClaimOnSnapshot(r) ==
    /\ At(r, "submit", "claim")
    /\ req[r].snap.status = "approved"
    /\ row' = [row EXCEPT !.status = "submitting", !.token = NoToken]
    /\ Goto(r, "dispatch", [req[r].snap EXCEPT !.status = "submitting"], req[r].snap.token)
    /\ UNCHANGED <<ledger, handedOff, platform>>

\* UPDATE ... WHERE status = 'approved'; the session's copy follows only if
\* it, too, was 'approved' (synchronize_session evaluates the criteria on it).
Claim(r) ==
    LET snap == req[r].snap
    IN  /\ At(r, "submit", "claim")
        /\ row.status = "approved"
        /\ row' = [row EXCEPT !.status = "submitting", !.token = NoToken]
        /\ Goto(r, "dispatch",
                IF snap.status = "approved" THEN [snap EXCEPT !.status = "submitting"] ELSE snap,
                row.token)
        /\ UNCHANGED <<ledger, handedOff, platform>>

ClaimLost(r) ==
    /\ At(r, "submit", "claim")
    /\ row.status # "approved"
    /\ Done(r)
    /\ UNCHANGED <<row, ledger, handedOff, platform>>

SetStatus(r, status, token) ==
    /\ row' = Flush(req[r].snap, [req[r].snap EXCEPT !.status = status, !.token = token])
    /\ Done(r)
    /\ UNCHANGED <<ledger, handedOff, platform>>

\* Mutant of Release: the claim is kept.
ReleaseForgets(r) ==
    /\ At(r, "submit", "dispatch")
    /\ Done(r)
    /\ UNCHANGED <<row, ledger, handedOff, platform>>

\* Mutant of Release: a POST that got a bad answer releases the claim, too.
ReleaseAfterAttempt(r) == At(r, "submit", "dispatch") /\ SetStatus(r, "approved", req[r].token)

\* HTTPException before the dispatch: no bidder id, no agency member, circuit
\* open, or a platform without an automated channel.  place_bid raises none.
Release(r) ==
    /\ At(r, "submit", "dispatch")
    /\ req[r].tries = 0
    /\ SetStatus(r, "approved", req[r].token)

\* Any other exception: before anything was sent, or an attempt that did not
\* arrive and was the last, or was refused.
FailDispatch(r) ==
    /\ At(r, "submit", "dispatch")
    /\ platform \in {"freelancer", "upwork"}
    /\ SetStatus(r, "failed", NoToken)

\* The bid reaches the platform, and no further attempt is made: its answer is
\* good ("finish"); or it is not and ends the call, or none comes to the last
\* attempt ("fail").
PlaceBid(r) ==
    /\ At(r, "submit", "dispatch")
    /\ platform = "freelancer"
    /\ Dispatch(r, req[r].token, <<Bid(req[r].snap)>>)
    /\ \E pc \in {"finish", "fail"} : Goto(r, pc, req[r].snap, NoToken)
    /\ UNCHANGED <<row, handedOff, platform>>

\* A transport error, a timeout, 429 or 5xx: the POST is repeated, whether or
\* not the platform took the bid.
RepeatBid(r) ==
    /\ At(r, "submit", "dispatch")
    /\ platform = "freelancer"
    /\ req[r].tries + 1 < MaxAttempts
    /\ \/ Dispatch(r, req[r].token, <<Bid(req[r].snap)>>)
       \/ Dispatch(r, req[r].token, <<>>)
    /\ req' = [req EXCEPT ![r].tries = @ + 1]
    /\ UNCHANGED <<row, handedOff, platform>>

\* Mutant of EnqueueUpwork: an enqueue that takes long is repeated.
EnqueueTwice(r) ==
    /\ At(r, "submit", "dispatch")
    /\ platform = "upwork"
    /\ req[r].snap.reviewed
    /\ Dispatch(r, req[r].token, <<Typed(req[r].snap)>>)
    /\ handedOff' = TRUE
    /\ \/ Goto(r, "finish", req[r].snap, NoToken)
       \/ Goto(r, "dispatch", req[r].snap, req[r].token)
    /\ UNCHANGED <<row, platform>>

\* adapter.submit_proposal refuses a missing approved_by; then the task commits.
EnqueueUpwork(r) ==
    /\ At(r, "submit", "dispatch")
    /\ platform = "upwork"
    /\ req[r].snap.reviewed
    /\ Dispatch(r, req[r].token, <<Typed(req[r].snap)>>)
    /\ handedOff' = TRUE
    /\ Goto(r, "finish", req[r].snap, NoToken)
    /\ UNCHANGED <<row, platform>>

\* The last commit of submit_proposal and of _dispatch_fiverr_offer.
Finish(r) ==
    /\ req[r].pc = "finish"
    /\ SetStatus(r, IF req[r].op = "submit" /\ platform = "freelancer"
                    THEN "submitted" ELSE "queued_for_browser", NoToken)

FailSent(r) == At(r, "submit", "fail") /\ SetStatus(r, "failed", NoToken)

-----------------------------------------------------------------------------
(* generate_and_queue on a generation_failed row (Celery), and the verdict *)
(* of the browser worker (_apply_submission_outcome)                       *)

ReadGenerate(r) ==
    /\ row.status = "generation_failed"
    /\ Load(r, "generate", "commit")

CommitGenerate(r) ==
    LET snap == req[r].snap
    IN  /\ At(r, "generate", "commit")
        /\ \E human \in Texts \cup {NoText}, draft \in Texts, f \in BOOLEAN :
              row' = Flush(snap, Drafted(snap, human, draft, f))
        /\ Done(r)
        /\ UNCHANGED <<ledger, handedOff, platform>>

GenerateFails(r) ==
    /\ At(r, "generate", "commit")
    /\ Done(r)
    /\ UNCHANGED <<row, ledger, handedOff, platform>>

\* A task that is taken back from its worker may bring a verdict more than
\* once; Handoff says which verdicts there are.
ReadVerdict(r) == handedOff /\ Load(r, "verdict", "commit")

Verdicts == {"submitted", "failed", "submitted_unverified"}

\* Only a row that was loaded as queued_for_browser takes the verdict.
Conclude(r, v) ==
    /\ At(r, "verdict", "commit")
    /\ IF req[r].snap.status = "queued_for_browser"
       THEN SetStatus(r, v, NoToken)
       ELSE Done(r) /\ UNCHANGED <<row, ledger, handedOff, platform>>

CommitVerdict(r) == \E v \in Verdicts : Conclude(r, v)

-----------------------------------------------------------------------------
\* What users and the scheduler start, and how it goes on ...
Ask(r) == \/ ReadApprove(r) \/ ReadBulk(r) \/ ReadReject(r) \/ ReadMark(r)
          \/ ReadRevert(r) \/ ReadSubmit(r) \/ ReadGenerate(r)

Proceed(r) == \/ CommitApprove(r) \/ CommitBulk(r) \/ Refresh(r) \/ SkipOffer(r)
              \/ CommitReject(r) \/ CommitMark(r) \/ CommitRevert(r)
              \/ Claim(r) \/ ClaimLost(r) \/ Release(r) \/ FailDispatch(r) \/ PlaceBid(r)
              \/ RepeatBid(r) \/ Finish(r) \/ FailSent(r) \/ CommitGenerate(r) \/ GenerateFails(r)

\* ... the steps that give the row to the browser workers ...
HandOver(r) == EnqueueOffer(r) \/ EnqueueUpwork(r)

\* ... and the verdicts that come back.
Arrive(r)   == Ask(r) \/ ReadVerdict(r)
Continue(r) == Proceed(r) \/ HandOver(r) \/ CommitVerdict(r)

Next == \E r \in Requests : Arrive(r) \/ Continue(r)

Spec == Init /\ [][Next]_vars

\* The process of a handler dies: what it has written or sent stays, and nobody
\* takes up the rest.
Crash(r) ==
    /\ req[r] # Idle
    /\ Done(r)
    /\ UNCHANGED <<row, ledger, handedOff, platform>>

CrashNext == Next \/ \E r \in Requests : Crash(r)

CrashSpec == Init /\ [][CrashNext]_vars

-----------------------------------------------------------------------------
(* Properties.  The first group holds however the handlers overlap and     *)
(* wherever they die.                                                      *)

\* Every variable stays in its type.
TypeOK ==
    /\ row \in Row
    /\ req \in [Requests -> Handler]
    /\ ledger \in [Tokens -> Entry]
    /\ handedOff \in BOOLEAN
    /\ platform \in Platforms

Holds(r, t) == req[r].token = t
Held(t) == row.token = t \/ \E r \in Requests : Holds(r, t)

\* One approval pays for at most one call of an adapter, whatever retries,
\* double clicks, overtaking handlers and crashes do: the conditional UPDATE
\* of submit_proposal is the only way from "approved" to a dispatch, and it is
\* committed before anything is sent.  One call delivers one browser task, or
\* at most as many bids as request_with_retry makes attempts.
OneCallPerApproval ==
    \A t \in Tokens :
       /\ ledger[t].calls <= 1
       /\ Len(ledger[t].sent) <= MaxAttempts
       /\ \A k \in DOMAIN ledger[t].sent :
             ledger[t].sent[k].channel = "browser" => Len(ledger[t].sent) = 1

\* (What the claim of submit_proposal is for, and its code does not reach.)

\* One approval places at most one bid.
AtMostOncePerApproval == \A t \in Tokens : Len(ledger[t].sent) <= 1

\* A token that is in somebody's hand was minted, and is in one hand only: the
\* row's while it is "approved", or one handler's.  Nothing was spent on it
\* but what the call of that very handler has delivered so far.
TokenInOneHand ==
    /\ row.token # NoToken => row.status = "approved" /\ ~AutoDispatch
    /\ \A t \in Tokens :
          /\ Held(t) => ledger[t].minted
          /\ ledger[t].calls = 0 => ledger[t].sent = <<>>
          /\ ~ledger[t].minted \/ row.token = t => ledger[t].calls = 0
          /\ \A r, q \in Requests : Holds(r, t) /\ Holds(q, t) => r = q
          /\ \A r \in Requests : Holds(r, t) =>
                /\ row.token # t
                /\ ledger[t].calls = IF req[r].tries = 0 THEN 0 ELSE 1
                /\ Len(ledger[t].sent) <= req[r].tries
                /\ \A k \in DOMAIN ledger[t].sent : ledger[t].sent[k].channel = "api"

\* What handler h needs in hand where it stands.
Backed(h) ==
    /\ h.pc \in {"refresh", "enqueue"} => AutoDispatch /\ h.token # NoToken
    /\ h.op \in {"approve", "bulk"} /\ h.pc = "commit" => h.token # NoToken
    /\ h.pc = "dispatch" /\ ~AutoDispatch => h.token # NoToken
    /\ h.op = "submit" /\ AutoDispatch => h.token = NoToken
    /\ h.tries > 0 => h.op = "submit" /\ h.pc = "dispatch" /\ platform = "freelancer"
    /\ h.tries < MaxAttempts

\* Whoever is about to dispatch, or to repeat what it dispatched, has an
\* approval in hand, and an approved row that a submit may claim carries one.
DispatchBacked ==
    /\ row.status = "approved" /\ ~AutoDispatch => row.token # NoToken
    /\ \A r \in Requests : Backed(req[r])

\* Where an approval stands in its life.
Life(t) == IF ~ledger[t].minted        THEN "unused"
           ELSE IF ledger[t].calls > 0 THEN IF Held(t) THEN "calling" ELSE "spent"
           ELSE IF Held(t)             THEN "open"
           ELSE "void"

\* The approvals of the row behave as ApprovalLedger says.
Ledger == INSTANCE ApprovalLedger WITH life <- [t \in Tokens |-> Life(t)],
                                       uses <- [t \in Tokens |-> Len(ledger[t].sent)]
LedgerSpec == Ledger!LedgerSpec

(* The second group holds when requests do not overlap and none dies.      *)

\* What is dispatched is the text the spent approval was given for.  Even
\* with one request at a time it holds only of the bids placed through the
\* API (BidAsApproved), not of what the browser types.
SentAsApproved ==
    \A t \in Tokens : \A k \in DOMAIN ledger[t].sent : ledger[t].sent[k].text = ledger[t].text

\* A bid carries the very text its approval was given for: an edit at
\* approval is what is sent, a revert voids the approval.
BidAsApproved ==
    \A t \in Tokens : \A k \in DOMAIN ledger[t].sent :
       ledger[t].sent[k].channel = "api" => ledger[t].sent[k].text = ledger[t].text

\* An approved row holds the very draft its approval was given for, and
\* names a reviewer.
ApprovedAsJudged ==
    row.status = "approved" =>
       /\ row.reviewed
       /\ row.token # NoToken => row.text = ledger[row.token].text

\* A row that was rejected, or whose draft has been sent or handed to the
\* browser, never becomes dispatchable or reviewable again.
Closed == {"rejected", "submitted", "queued_for_browser", "submitted_unverified"}
ClosedForGood == [][row.status \in Closed => row'.status \in Closed \cup {"failed"}]_vars

\* A row is in "submitting" only while the handler that claimed it is at work
\* on it: no way out of submit_proposal leaves the claim behind.
ClaimIsHeld ==
    row.status = "submitting" =>
       \E r \in Requests : req[r].op = "submit" /\ req[r].pc \in {"dispatch", "finish", "fail"}
=============================================================================
