-------------------------- MODULE ReviewQueueProofs --------------------------
(***************************************************************************)
(* ReviewQueue spends every approval on one call of an adapter at most,    *)
(* for any number of overlapping handlers, drafts, approvals and attempts  *)
(* per call.  While requests do not overlap, what leaves as a bid is what  *)
(* was approved, the adapter endpoints included.                           *)
(***************************************************************************)
EXTENDS AdapterEndpoints, TLAPS

\* A flushed snapshot is a row.
LEMMA FlushIsRow ==
    ASSUME row \in Row, NEW snap \in Row, NEW new \in Row
    PROVE  Flush(snap, new) \in Row
BY DEF Flush, Row

\* The drafts a handler may put in a row keep the row well typed.
LEMMA DraftedIsRow ==
    ASSUME NEW snap \in Row, NEW human \in Texts \cup {NoText}, NEW draft \in Texts,
           NEW f \in BOOLEAN
    PROVE  Drafted(snap, human, draft, f) \in Row
<1>1. Append(snap.versions, draft) \in Seq(Texts \cup {NoText})
  BY DEF Row
<1> QED
  BY <1>1 DEF Drafted, Row, Statuses

\* Initially every variable is in its type.
LEMMA InitTypeOK == Init => TypeOK
<1> SUFFICES ASSUME Init PROVE TypeOK
  OBVIOUS
<1>1. BlankRow \in Row
  BY DEF BlankRow, Row, Statuses
<1>2. \A offer \in Texts : Offered(offer) \in Row
  BY <1>1 DEF Offered, Row, Statuses
<1>2a. row \in Row
  BY <1>1, <1>2, DraftedIsRow DEF Init
<1>3. Idle \in Handler /\ NoEntry \in Entry
  BY <1>1 DEF Idle, Handler, NoEntry, Entry
<1> QED
  BY <1>2a, <1>3 DEF Init, TypeOK

-----------------------------------------------------------------------------
(* The building blocks of the actions keep the variables in their types.   *)

LEMMA IdleIsHandler == Idle \in Handler
BY DEF Idle, Handler, BlankRow, Row, Statuses

LEMMA BeginType ==
    ASSUME TypeOK, NEW r \in Requests, NEW op, NEW pc, NEW body, NEW token,
           [op |-> op, pc |-> pc, snap |-> row, body |-> body, token |-> token,
            tries |-> 0] \in Handler,
           Begin(r, op, pc, body, token)
    PROVE  row' \in Row /\ req' \in [Requests -> Handler] /\ platform' \in Platforms
BY DEF Begin, TypeOK

LEMMA LoadType ==
    ASSUME TypeOK, NEW r \in Requests,
           NEW op \in {"reject", "mark", "revert", "submit", "generate", "verdict"},
           NEW pc \in {"commit", "claim"}, Load(r, op, pc)
    PROVE  TypeOK'
<1>1. [op |-> op, pc |-> pc, snap |-> row, body |-> NoText, token |-> NoToken, tries |-> 0] \in Handler
  BY DEF Handler, TypeOK
<1> QED
  BY <1>1, BeginType DEF Load, TypeOK

LEMMA GotoType ==
    ASSUME TypeOK, NEW r \in Requests,
           NEW pc \in {"refresh", "enqueue", "dispatch", "finish", "fail"},
           NEW snap \in Row, NEW token \in Tokens \cup {NoToken}, Goto(r, pc, snap, token)
    PROVE  req' \in [Requests -> Handler]
<1>1. req[r] \in Handler
  BY DEF TypeOK
<1>2. [req[r] EXCEPT !.pc = pc, !.snap = snap, !.token = token, !.tries = 0] \in Handler
  BY <1>1 DEF Handler
<1> QED
  BY <1>2 DEF Goto, TypeOK

LEMMA DoneType ==
    ASSUME TypeOK, NEW r \in Requests, Done(r)
    PROVE  req' \in [Requests -> Handler]
BY IdleIsHandler DEF Done, TypeOK

LEMMA HandlerType ==
    ASSUME TypeOK, NEW r \in Requests
    PROVE  /\ req[r].snap \in Row /\ req[r].body \in Texts \cup {NoText}
           /\ req[r].token \in Tokens \cup {NoToken} /\ req[r].tries \in Nat
BY DEF TypeOK, Handler

LEMMA ChargedEntry ==
    ASSUME NEW e \in Entry, NEW c \in Nat, NEW q \in Seq(Sending)
    PROVE  [e EXCEPT !.calls = c, !.sent = q] \in Entry
BY DEF Entry

LEMMA DispatchType ==
    ASSUME TypeOK, NEW r \in Requests, NEW id, NEW arrived \in Seq(Sending), Dispatch(r, id, arrived)
    PROVE  ledger' \in [Tokens -> Entry]
<1>1. ASSUME NEW t \in Tokens
      PROVE  [ledger[t] EXCEPT !.calls = IF req[r].tries = 0 THEN @ + 1 ELSE @,
                               !.sent = @ \o arrived] \in Entry
  <2>1. ledger[t] \in Entry /\ ledger[t].calls \in Nat /\ ledger[t].sent \o arrived \in Seq(Sending)
    BY DEF TypeOK, Entry
  <2>2. (IF req[r].tries = 0 THEN ledger[t].calls + 1 ELSE ledger[t].calls) \in Nat
    BY <2>1
  <2> QED
    BY <2>1, <2>2, ChargedEntry
<1> QED
  BY <1>1 DEF Dispatch, TypeOK

\* An attempt delivers something or nothing.
LEMMA ArrivedType ==
    ASSUME NEW s \in Sending
    PROVE  <<s>> \in Seq(Sending) /\ <<>> \in Seq(Sending)
OBVIOUS

LEMMA TriesType ==
    ASSUME TypeOK, NEW r \in Requests, req' = [req EXCEPT ![r].tries = @ + 1]
    PROVE  req' \in [Requests -> Handler]
<1>1. req[r] \in Handler /\ req[r].tries + 1 \in Nat
  BY HandlerType DEF TypeOK
<1>2. [req[r] EXCEPT !.tries = req[r].tries + 1] \in Handler
  BY <1>1 DEF Handler
<1> QED
  BY <1>2 DEF TypeOK

\* The text a bid or the worker takes from the handler's copy of the row.
LEMMA SentType ==
    ASSUME TypeOK, NEW r \in Requests
    PROVE  Bid(req[r].snap) \in Sending /\ Typed(req[r].snap) \in Sending
BY HandlerType DEF Row, Bid, Typed, Sending

LEMMA SetStatusType ==
    ASSUME TypeOK, NEW r \in Requests, NEW status \in Statuses,
           NEW token \in Tokens \cup {NoToken}, SetStatus(r, status, token)
    PROVE  TypeOK'
<1>1. [req[r].snap EXCEPT !.status = status, !.token = token] \in Row
  BY HandlerType DEF Row
<1>2. row' \in Row
  BY <1>1, HandlerType, FlushIsRow DEF SetStatus, TypeOK
<1> QED
  BY <1>2, DoneType DEF SetStatus, TypeOK

LEMMA ApproveType ==
    ASSUME TypeOK, NEW r \in Requests, NEW new \in Row,
           NEW next \in {"refresh", "enqueue"}, Approve(r, new, next)
    PROVE  TypeOK'
<1>1. req[r].token \in Tokens \cup {NoToken} /\ req[r].snap \in Row
  BY HandlerType
<1>2. [new EXCEPT !.token = IF AutoDispatch THEN NoToken ELSE req[r].token] \in Row
  BY <1>1 DEF Row
<1>3. row' \in Row
  BY <1>1, <1>2, FlushIsRow DEF Approve, TypeOK
<1>4. req' \in [Requests -> Handler]
  <2>1. CASE AutoDispatch
    BY <1>1, <2>1, GotoType DEF Approve
  <2>2. CASE ~AutoDispatch
    BY <2>2, DoneType DEF Approve
  <2> QED
    BY <2>1, <2>2
<1> QED
  BY <1>3, <1>4 DEF Approve, TypeOK

\* The click that gives an approval.
LEMMA ClickType ==
    ASSUME TypeOK, NEW r \in Requests, NEW op \in {"approve", "bulk"},
           NEW body \in Texts \cup {NoText}, Click(r, op, body)
    PROVE  TypeOK'
<1>1. PICK t \in Tokens :
         /\ ledger' = [ledger EXCEPT ![t].minted = TRUE,
                                     ![t].text = IF body = NoText THEN row.text ELSE body]
         /\ Begin(r, op, "commit", body, t)
         /\ UNCHANGED handedOff
  BY DEF Click
<1>2. row.text \in Texts \cup {NoText} /\ ledger[t] \in Entry
  BY DEF TypeOK, Row
<1>3. [ledger[t] EXCEPT !.minted = TRUE, !.text = IF body = NoText THEN row.text ELSE body]
         \in Entry
  BY <1>2 DEF Entry
<1>4. ledger' \in [Tokens -> Entry]
  BY <1>1, <1>3 DEF TypeOK
<1>5. [op |-> op, pc |-> "commit", snap |-> row, body |-> body, token |-> t, tries |-> 0] \in Handler
  BY DEF Handler, TypeOK
<1> QED
  BY <1>1, <1>4, <1>5, BeginType DEF TypeOK

-----------------------------------------------------------------------------
(* Every action keeps the types.                                           *)

LEMMA NextTypeOK == TypeOK /\ [Next]_vars => TypeOK'
<1> SUFFICES ASSUME TypeOK, [Next]_vars PROVE TypeOK'
  OBVIOUS
<1>1. ASSUME NEW r \in Requests, Arrive(r) PROVE TypeOK'
  <2>1. CASE ReadApprove(r)
    BY <2>1, ClickType DEF ReadApprove
  <2>2. CASE ReadBulk(r)
    BY <2>2, ClickType DEF ReadBulk
  <2>3. CASE \/ ReadReject(r) \/ ReadMark(r) \/ ReadRevert(r) \/ ReadSubmit(r)
             \/ ReadGenerate(r) \/ ReadVerdict(r)
    BY <2>3, LoadType DEF ReadReject, ReadMark, ReadRevert, ReadSubmit, ReadGenerate, ReadVerdict
  <2> QED
    BY <1>1, <2>1, <2>2, <2>3 DEF Arrive, Ask
<1>2. ASSUME NEW r \in Requests, Continue(r) PROVE TypeOK'
  <2> DEFINE snap == req[r].snap
  <2>1. /\ snap \in Row /\ req[r].body \in Texts \cup {NoText}
        /\ req[r].token \in Tokens \cup {NoToken}
    BY HandlerType
  <2>2. \A text \in Texts \cup {NoText} : Append(snap.versions, text) \in Seq(Texts \cup {NoText})
    BY <2>1 DEF Row
  <2>3. CASE CommitApprove(r)
    <3> DEFINE judged == [snap EXCEPT !.status = "approved", !.reviewed = TRUE]
               new == IF req[r].body \notin {NoText, snap.text}
                      THEN [judged EXCEPT !.text = req[r].body,
                                          !.versions = Append(@, snap.text)]
                      ELSE judged
    <3>1. judged \in Row /\ judged.versions = snap.versions
      BY <2>1 DEF Row, Statuses
    <3>2. Append(judged.versions, snap.text) \in Seq(Texts \cup {NoText})
      BY <2>1, <2>2, <3>1 DEF Row
    <3>3. new \in Row
      BY <2>1, <3>1, <3>2 DEF Row
    <3>4. Approve(r, new, "refresh")
      BY <2>3 DEF CommitApprove
    <3> HIDE DEF new
    <3> QED
      BY <3>3, <3>4, ApproveType
  <2>4. CASE CommitBulk(r)
    <3> DEFINE new == [snap EXCEPT !.status = "approved", !.reviewed = TRUE,
                                   !.versions = Append(@, snap.text)]
    <3>1. Append(snap.versions, snap.text) \in Seq(Texts \cup {NoText})
      BY <2>1, <2>2 DEF Row
    <3>2. new \in Row
      BY <2>1, <3>1 DEF Row, Statuses
    <3>3. \E next \in {"refresh", "enqueue"} : Approve(r, new, next)
      BY <2>4 DEF CommitBulk
    <3> HIDE DEF new
    <3> QED
      BY <3>2, <3>3, ApproveType
  <2>5. CASE Refresh(r)
    BY <2>1, <2>5, GotoType DEF Refresh, TypeOK
  <2>6. CASE SkipOffer(r) \/ ClaimLost(r) \/ GenerateFails(r)
    BY <2>6, DoneType DEF SkipOffer, ClaimLost, GenerateFails, TypeOK
  <2>7. CASE EnqueueOffer(r) \/ EnqueueUpwork(r)
    BY <2>1, <2>7, GotoType, DispatchType, SentType, ArrivedType DEF EnqueueOffer, EnqueueUpwork, TypeOK
  <2>8. CASE CommitReject(r)
    <3>1. [snap EXCEPT !.status = "rejected", !.reviewed = TRUE, !.token = NoToken] \in Row
      BY <2>1 DEF Row, Statuses
    <3> QED
      BY <2>1, <2>8, <3>1, FlushIsRow, DoneType DEF CommitReject, TypeOK
  <2>9. CASE CommitMark(r)
    <3>1. [snap EXCEPT !.status = "submitted", !.token = NoToken] \in Row
      BY <2>1 DEF Row, Statuses
    <3> QED
      BY <2>1, <2>9, <3>1, FlushIsRow, DoneType DEF CommitMark, TypeOK
  <2>10. CASE CommitRevert(r)
    <3>1. PICK k \in DOMAIN snap.versions, newBid \in BOOLEAN :
             row' = Flush(snap, Reverted(snap, snap.versions[k], newBid))
      BY <2>10 DEF CommitRevert
    <3>2. snap.versions[k] \in Texts \cup {NoText}
      BY <2>1, <3>1 DEF Row
    <3>3. Reverted(snap, snap.versions[k], newBid) \in Row
      BY <2>1, <3>2 DEF Reverted, Row, Statuses
    <3> QED
      BY <2>1, <2>10, <3>1, <3>3, FlushIsRow, DoneType DEF CommitRevert, TypeOK
  <2>11. CASE Claim(r)
    <3>1. /\ [snap EXCEPT !.status = "submitting"] \in Row
          /\ [row EXCEPT !.status = "submitting", !.token = NoToken] \in Row
          /\ row.token \in Tokens \cup {NoToken}
      BY <2>1 DEF TypeOK, Row, Statuses
    <3>2. \E loaded \in Row : Goto(r, "dispatch", loaded, row.token)
      BY <2>1, <2>11, <3>1 DEF Claim
    <3> QED
      BY <2>11, <3>1, <3>2, GotoType DEF Claim, TypeOK
  <2>12. CASE Release(r) \/ FailDispatch(r) \/ Finish(r) \/ FailSent(r)
    BY <2>1, <2>12, SetStatusType DEF Release, FailDispatch, Finish, FailSent, Statuses
  <2>13. CASE PlaceBid(r)
    BY <2>1, <2>13, GotoType, DispatchType, SentType, ArrivedType DEF PlaceBid, TypeOK
  <2>16. CASE RepeatBid(r)
    BY <2>1, <2>16, TriesType, DispatchType, SentType, ArrivedType DEF RepeatBid, TypeOK
  <2>14. CASE CommitGenerate(r)
    BY <2>1, <2>14, DraftedIsRow, FlushIsRow, DoneType DEF CommitGenerate, TypeOK
  <2>15. CASE CommitVerdict(r)
    <3>1. CASE \E v \in Verdicts : SetStatus(r, v, NoToken)
      BY <3>1, SetStatusType DEF Verdicts, Statuses
    <3>2. CASE Done(r) /\ UNCHANGED <<row, ledger, handedOff, platform>>
      BY <3>2, DoneType DEF TypeOK
    <3> QED
      BY <2>15, <3>1, <3>2 DEF CommitVerdict, Conclude
  <2> QED
    BY <1>2, <2>3, <2>4, <2>5, <2>6, <2>7, <2>8, <2>9, <2>10, <2>11, <2>12, <2>13, <2>14,
       <2>15, <2>16 DEF Continue, Proceed, HandOver
<1>3. CASE UNCHANGED vars
  BY <1>3 DEF vars, TypeOK
<1> QED
  BY <1>1, <1>2, <1>3 DEF Next

LEMMA CrashTypeOK == TypeOK /\ [CrashNext]_vars => TypeOK'
<1>1. ASSUME TypeOK, NEW r \in Requests, Crash(r) PROVE TypeOK'
  BY <1>1, DoneType DEF Crash, TypeOK
<1> QED
  BY <1>1, NextTypeOK DEF CrashNext

\* Type correctness: every reachable state of the queue is well typed.
THEOREM TypeCorrect == CrashSpec => []TypeOK
BY InitTypeOK, CrashTypeOK, PTL DEF CrashSpec

-----------------------------------------------------------------------------
(* One approval, one call.  OneCallPerApproval alone is not inductive: a   *)
(* dispatch preserves it only if nothing was spent on the token but what   *)
(* this call delivered (TokenInOneHand), and if the token is real and the  *)
(* attempts are counted (DispatchBacked).                                  *)

Safe == TokenInOneHand /\ DispatchBacked /\ OneCallPerApproval

LEMMA InitSafe == Init => Safe
<1> SUFFICES ASSUME Init PROVE Safe
  OBVIOUS
<1> DEFINE Untouched(w) == w.token = NoToken /\ w.status \in {"pending_review", "generation_failed"}
<1>a. Untouched(BlankRow)
  BY DEF BlankRow
<1>b. ASSUME NEW human, NEW draft, NEW f
      PROVE  Untouched(Drafted(BlankRow, human, draft, f)) /\ Untouched(Offered(draft))
  BY DEF Drafted, Offered, BlankRow
<1>1. /\ Untouched(row)
      /\ \A r \in Requests : req[r] = Idle
      /\ \A t \in Tokens : ledger[t] = NoEntry
  BY <1>a, <1>b DEF Init
<1>2. /\ Idle.token = NoToken /\ Idle.pc = "idle" /\ Idle.op = "none" /\ Idle.tries = 0
      /\ NoEntry.sent = <<>> /\ NoEntry.calls = 0
  BY DEF Idle, NoEntry
<1>3. TokenInOneHand
  BY <1>1, <1>2, NoTokenAssumption DEF TokenInOneHand, Held, Holds
<1>4. DispatchBacked
  BY <1>1, <1>2, AttemptsAssumption DEF DispatchBacked, Backed
<1>5. OneCallPerApproval
  BY <1>1, <1>2, AttemptsAssumption DEF OneCallPerApproval
<1> QED
  BY <1>3, <1>4, <1>5 DEF Safe

\* What a step may do to the approvals: let go of some, of which one at most
\* has been used; give one; or use one that is in somebody's hand.
Same(u)  == ledger'[u] = ledger[u] /\ (Held(u)' <=> Held(u))
Ended(u) == Held(u) /\ ~Held(u)' /\ ledger[u].calls > 0
LetGo    == /\ ledger' = ledger
            /\ \A u \in Tokens : Held(u)' => Held(u)
            /\ \A u, v \in Tokens : Ended(u) /\ Ended(v) => u = v
Given(t) == /\ ~ledger[t].minted
            /\ ledger'[t].minted /\ ledger'[t].calls = 0 /\ ledger'[t].sent = <<>> /\ Held(t)'
            /\ \A u \in Tokens \ {t} : Same(u)
Used(t)  == /\ Held(t)
            /\ ledger'[t].minted /\ ledger'[t].calls = 1
            /\ ledger[t].calls > 0 => Len(ledger[t].sent) < MaxAttempts
            /\ Len(ledger'[t].sent) \in {Len(ledger[t].sent), Len(ledger[t].sent) + 1}
            /\ \A u \in Tokens \ {t} : Same(u)

Step == Safe' /\ (LetGo \/ \E t \in Tokens : Given(t) \/ Used(t))

\* Handler r hands its token to the row, takes the row's, or lets go of one.
LEMMA MoveToken ==
    ASSUME TypeOK, TypeOK', Safe, NEW r \in Requests, NEW h \in Handler,
           req' = [req EXCEPT ![r] = h], UNCHANGED <<ledger, platform>>,
           row'.token \in {NoToken, row.token, req[r].token},
           h.token \in {NoToken, row.token, req[r].token},
           row'.token = h.token => h.token = NoToken,
           row'.token # NoToken => row'.status = "approved" /\ ~AutoDispatch,
           row'.status = "approved" /\ ~AutoDispatch => row'.token # NoToken,
           Backed(h), h.tries = 0,
           req[r].tries = 0 \/ (row'.token \in {NoToken, row.token} /\ h.token = NoToken)
    PROVE  Step
<1>1. req'[r] = h /\ \A q \in Requests : q # r => req'[q] = req[q]
  BY DEF TypeOK
<1>2. AutoDispatch' = AutoDispatch
  BY DEF AutoDispatch
<1>3. \A t \in Tokens : Held(t)' => Held(t)
  BY <1>1, NoTokenAssumption DEF Held, Holds
<1>4. ASSUME NEW t \in Tokens, NEW p \in Requests, NEW q \in Requests,
             Holds(p, t)', Holds(q, t)'
      PROVE  p = q
  BY <1>1, <1>4, NoTokenAssumption DEF Safe, TokenInOneHand, Holds, Held
<1>5. ASSUME NEW t \in Tokens, NEW p \in Requests, Holds(p, t)'
      PROVE  row'.token # t
  BY <1>1, <1>5, NoTokenAssumption DEF Safe, TokenInOneHand, Holds, Held
<1>9. ASSUME NEW t \in Tokens, row'.token = t
      PROVE  ledger[t].calls = 0
  BY <1>9, NoTokenAssumption DEF Safe, TokenInOneHand, Holds
<1>10. ASSUME NEW t \in Tokens, NEW p \in Requests, Holds(p, t)'
       PROVE  /\ ledger[t].calls = IF req'[p].tries = 0 THEN 0 ELSE 1
              /\ Len(ledger[t].sent) <= req'[p].tries
              /\ \A k \in DOMAIN ledger[t].sent : ledger[t].sent[k].channel = "api"
  <2>1. CASE p # r
    BY <1>1, <1>10, <2>1 DEF Safe, TokenInOneHand, Holds
  <2>2. CASE p = r
    <3>1. req'[p].tries = 0 /\ ledger[t].calls = 0
      BY <1>1, <1>10, <2>2, NoTokenAssumption DEF Safe, TokenInOneHand, Holds
    <3>2. ledger[t].sent = <<>>
      BY <3>1 DEF Safe, TokenInOneHand
    <3> QED
      BY <3>1, <3>2
  <2> QED
    BY <2>1, <2>2
<1>6. TokenInOneHand'
  <2>1. row'.token # NoToken => row'.status = "approved" /\ ~AutoDispatch'
    BY <1>2
  <2>2. ASSUME NEW t \in Tokens
        PROVE  /\ Held(t)' => ledger'[t].minted
               /\ ledger'[t].calls = 0 => ledger'[t].sent = <<>>
               /\ ~ledger'[t].minted \/ row'.token = t => ledger'[t].calls = 0
    BY <1>3, <1>9 DEF Safe, TokenInOneHand
  <2> QED
    BY <2>1, <2>2, <1>4, <1>5, <1>10 DEF TokenInOneHand
<1>11. ASSUME NEW t \in Tokens, Ended(t)
       PROVE  req[r].token = t
  <2>1. row.token # t
    BY <1>11 DEF Ended, Safe, TokenInOneHand
  <2> QED
    BY <1>1, <1>11, <2>1 DEF Ended, Held, Holds
<1>7. DispatchBacked'
  BY <1>1, <1>2 DEF Safe, DispatchBacked, Backed
<1>8. OneCallPerApproval'
  BY DEF Safe, OneCallPerApproval
<1>12. LetGo
  BY <1>3, <1>11 DEF LetGo
<1> QED
  BY <1>6, <1>7, <1>8, <1>12 DEF Safe, Step

\* A new approval enters the hand of the handler that carries the click.
LEMMA ClickToken ==
    ASSUME TypeOK, TypeOK', Safe, NEW r \in Requests, NEW op \in {"approve", "bulk"},
           NEW body \in Texts \cup {NoText}, Click(r, op, body)
    PROVE  Step
<1>1. PICK t \in Tokens :
         /\ ~ledger[t].minted
         /\ ledger' = [ledger EXCEPT ![t].minted = TRUE,
                                     ![t].text = IF body = NoText THEN row.text ELSE body]
         /\ Begin(r, op, "commit", body, t)
  BY DEF Click
<1>2. /\ row' = row /\ AutoDispatch' = AutoDispatch
      /\ req'[r].token = t /\ req'[r].pc = "commit" /\ req'[r].op \in {"approve", "bulk"}
      /\ req'[r].tries = 0
      /\ \A q \in Requests : q # r => req'[q] = req[q]
  BY <1>1 DEF Begin, TypeOK, AutoDispatch
<1>3. \A u \in Tokens : /\ ledger'[u].sent = ledger[u].sent /\ ledger'[u].calls = ledger[u].calls
                        /\ u # t => ledger'[u] = ledger[u]
      /\ ledger'[t].minted
  BY <1>1 DEF TypeOK, Entry
<1>4. ~Held(t) /\ ledger[t].calls = 0 /\ ledger[t].sent = <<>> /\ row.token # t
  BY <1>1 DEF Safe, TokenInOneHand, Held
<1>5. \A u \in Tokens \ {t} : Held(u)' <=> Held(u)
  <2>1. req[r].token = NoToken
    BY <1>1 DEF Begin, Idle
  <2> QED
    BY <1>2, <2>1, NoTokenAssumption DEF Held, Holds
<1>6. TokenInOneHand'
  <2>1. row'.token # NoToken => row'.status = "approved" /\ ~AutoDispatch'
    BY <1>2 DEF Safe, TokenInOneHand
  <2>2. ASSUME NEW u \in Tokens
        PROVE  /\ Held(u)' => ledger'[u].minted
               /\ ledger'[u].calls = 0 => ledger'[u].sent = <<>>
               /\ ~ledger'[u].minted \/ row'.token = u => ledger'[u].calls = 0
    <3>1. CASE u = t
      BY <1>3, <1>4, <3>1
    <3>2. CASE u # t
      BY <1>2, <1>3, <1>5, <3>2 DEF Safe, TokenInOneHand
    <3> QED
      BY <3>1, <3>2
  <2>3. ASSUME NEW u \in Tokens, NEW p \in Requests, NEW q \in Requests,
               Holds(p, u)', Holds(q, u)'
        PROVE  p = q
    BY <1>2, <1>4, <2>3 DEF Safe, TokenInOneHand, Held, Holds
  <2>4. ASSUME NEW u \in Tokens, NEW p \in Requests, Holds(p, u)'
        PROVE  row'.token # u
    BY <1>2, <1>4, <2>4 DEF Safe, TokenInOneHand, Held, Holds
  <2>5. ASSUME NEW u \in Tokens, NEW p \in Requests, Holds(p, u)'
        PROVE  /\ ledger'[u].calls = IF req'[p].tries = 0 THEN 0 ELSE 1
               /\ Len(ledger'[u].sent) <= req'[p].tries
               /\ \A k \in DOMAIN ledger'[u].sent : ledger'[u].sent[k].channel = "api"
    <3>1. CASE p # r
      BY <1>2, <1>3, <2>5, <3>1 DEF Safe, TokenInOneHand, Holds
    <3>2. CASE p = r
      <4>1. u = t /\ req'[p].tries = 0 /\ ledger'[u].calls = 0 /\ ledger'[u].sent = <<>>
        BY <1>2, <1>3, <1>4, <2>5, <3>2 DEF Holds
      <4> QED
        BY <4>1
    <3> QED
      BY <3>1, <3>2
  <2> QED
    BY <2>1, <2>2, <2>3, <2>4, <2>5 DEF TokenInOneHand
<1>7. DispatchBacked'
  <2>1. platform' = platform
    BY <1>1 DEF Begin
  <2> QED
    BY <1>2, <2>1, NoTokenAssumption, AttemptsAssumption DEF Safe, DispatchBacked, Backed
<1>8. OneCallPerApproval'
  BY <1>3 DEF Safe, OneCallPerApproval
<1>9. Given(t)
  <2>1. ledger'[t].sent = <<>> /\ ledger'[t].calls = 0 /\ Held(t)'
    BY <1>2, <1>3, <1>4 DEF Held, Holds
  <2> QED
    BY <1>1, <1>3, <1>5, <2>1 DEF Given, Same
<1> QED
  BY <1>6, <1>7, <1>8, <1>9 DEF Safe, Step

\* What one attempt delivers adds at most one to what was delivered.
LEMMA Delivered ==
    ASSUME NEW sent \in Seq(Sending), NEW s \in Sending, NEW arrived \in {<<>>, <<s>>}
    PROVE  /\ sent \o arrived \in Seq(Sending)
           /\ Len(sent \o arrived) = Len(sent) + Len(arrived)
           /\ Len(arrived) \in {0, 1}
           /\ DOMAIN (sent \o arrived) = 1 .. Len(sent \o arrived)
           /\ \A k \in DOMAIN (sent \o arrived) :
                 IF k <= Len(sent) THEN k \in DOMAIN sent /\ (sent \o arrived)[k] = sent[k]
                                   ELSE (sent \o arrived)[k] = s
<1>1. CASE arrived = <<>>
  <2>1. Len(arrived) = 0 /\ arrived \in Seq(Sending)
    BY <1>1
  <2>2. sent \o arrived = sent /\ Len(sent) \in Nat /\ DOMAIN sent = 1 .. Len(sent)
    BY <1>1
  <2> QED
    BY <1>1, <2>1, <2>2
<1>2. CASE arrived = <<s>>
  <2>1. Len(arrived) = 1 /\ arrived \in Seq(Sending) /\ arrived # <<>>
    BY <1>2
  <2>2. sent \o arrived = Append(sent, s) /\ Len(sent) \in Nat /\ DOMAIN sent = 1 .. Len(sent)
    BY <1>2
  <2> QED
    BY <2>1, <2>2
<1> QED
  BY <1>1, <1>2

\* An attempt of the call that the approval in hand pays for, which nobody else
\* holds: the handler goes on as h, and keeps the approval only to repeat a bid.
LEMMA DispatchToken ==
    ASSUME TypeOK, TypeOK', Safe, NEW r \in Requests, req[r].token # NoToken,
           NEW s \in Sending, NEW arrived \in {<<>>, <<s>>}, Dispatch(r, req[r].token, arrived),
           NEW h \in Handler, req' = [req EXCEPT ![r] = h], Backed(h),
           h.token = NoToken \/ (h.token = req[r].token /\ h.tries = req[r].tries + 1),
           s.channel = "api" \/ (req[r].tries = 0 /\ h.token = NoToken),
           UNCHANGED <<row, platform>>
    PROVE  Step
<1>a. PICK t \in Tokens : t = req[r].token
  BY HandlerType
<1> DEFINE tries == req[r].tries
           sent  == ledger[t].sent
<1>1. /\ ledger[t].minted /\ Holds(r, t) /\ Held(t) /\ row.token # t
      /\ tries \in Nat /\ tries < MaxAttempts /\ ledger[t] \in Entry /\ sent \in Seq(Sending)
      /\ ledger[t].calls = IF tries = 0 THEN 0 ELSE 1
      /\ Len(sent) <= tries /\ Len(sent) \in Nat
      /\ \A k \in DOMAIN sent : sent[k].channel = "api"
  <2>1. Holds(r, t) /\ Held(t)
    BY <1>a DEF Held, Holds
  <2>2. tries \in Nat /\ tries < MaxAttempts
    BY HandlerType DEF Safe, DispatchBacked, Backed
  <2>3. ledger[t] \in Entry /\ sent \in Seq(Sending)
    BY DEF TypeOK, Entry
  <2>4. Len(sent) \in Nat
    BY <2>3
  <2> QED
    BY <2>1, <2>2, <2>3, <2>4 DEF Safe, TokenInOneHand
<1>2. /\ row' = row /\ AutoDispatch' = AutoDispatch
      /\ req'[r] = h /\ \A q \in Requests : q # r => req'[q] = req[q]
  BY DEF TypeOK, AutoDispatch
<1>3. /\ ledger'[t].sent = sent \o arrived /\ ledger'[t].calls = 1
      /\ ledger'[t].minted
      /\ \A u \in Tokens : u # t => ledger'[u] = ledger[u]
  <2>1. ledger'[t] = [ledger[t] EXCEPT !.calls = IF req[r].tries = 0 THEN ledger[t].calls + 1
                                                                     ELSE ledger[t].calls,
                                       !.sent = ledger[t].sent \o arrived]
    BY <1>a DEF Dispatch, TypeOK
  <2>2. \A u \in Tokens : u # t => ledger'[u] = ledger[u]
    BY <1>a DEF Dispatch, TypeOK
  <2>3. ledger'[t].calls = 1
    BY <1>1, <2>1 DEF Entry
  <2> QED
    BY <1>1, <2>1, <2>2, <2>3 DEF Entry
<1>4. /\ Len(ledger'[t].sent) \in {Len(sent), Len(sent) + 1}
      /\ \A k \in DOMAIN ledger'[t].sent :
            \/ k \in DOMAIN sent /\ ledger'[t].sent[k] = sent[k]
            \/ ledger'[t].sent[k] = s /\ Len(ledger'[t].sent) = Len(sent) + 1
  <2>1. PICK all : all = ledger'[t].sent
    OBVIOUS
  <2>2. /\ Len(all) = Len(sent) + Len(arrived) /\ Len(arrived) \in {0, 1}
        /\ DOMAIN all = 1 .. Len(all)
        /\ \A k \in DOMAIN all : IF k <= Len(sent) THEN k \in DOMAIN sent /\ all[k] = sent[k]
                                                   ELSE all[k] = s
    BY <1>1, <1>3, <2>1, Delivered
  <2>6. PICK m \in Nat, d \in {0, 1} : m = Len(sent) /\ d = Len(arrived)
    BY <1>1, <2>2
  <2>7. Len(all) = m + d
    BY <2>2, <2>6
  <2>3. ASSUME NEW k \in DOMAIN all, ~(k <= Len(sent))
        PROVE  Len(all) = Len(sent) + 1
    <3>1. k \in 1 .. m + d /\ ~(k <= m)
      BY <2>2, <2>3, <2>6, <2>7
    <3>2. d = 1
      BY <3>1
    <3> QED
      BY <2>6, <2>7, <3>2
  <2>4. Len(all) \in {Len(sent), Len(sent) + 1}
    <3>1. CASE d = 0
      BY <2>6, <2>7, <3>1
    <3>2. CASE d = 1
      BY <2>6, <2>7, <3>2
    <3> QED
      BY <3>1, <3>2
  <2>5. ASSUME NEW k \in DOMAIN all
        PROVE  \/ k \in DOMAIN sent /\ all[k] = sent[k]
               \/ all[k] = s /\ Len(all) = Len(sent) + 1
    BY <2>2, <2>3
  <2> QED
    BY <2>1, <2>4, <2>5
<1>5. Held(t)' <=> h.token = t
  BY <1>1, <1>2, NoTokenAssumption DEF Safe, TokenInOneHand, Held, Holds
<1>6. \A u \in Tokens \ {t} : Held(u)' <=> Held(u)
  BY <1>a, <1>2, NoTokenAssumption DEF Held, Holds
<1>7. TokenInOneHand'
  <2>1. row'.token # NoToken => row'.status = "approved" /\ ~AutoDispatch'
    BY <1>2 DEF Safe, TokenInOneHand
  <2>2. ASSUME NEW u \in Tokens
        PROVE  /\ Held(u)' => ledger'[u].minted
               /\ ledger'[u].calls = 0 => ledger'[u].sent = <<>>
               /\ ~ledger'[u].minted \/ row'.token = u => ledger'[u].calls = 0
    <3>1. CASE u = t
      BY <1>1, <1>2, <1>3, <3>1
    <3>2. CASE u # t
      BY <1>2, <1>3, <1>6, <3>2 DEF Safe, TokenInOneHand
    <3> QED
      BY <3>1, <3>2
  <2>3. ASSUME NEW u \in Tokens, NEW p \in Requests, NEW q \in Requests,
               Holds(p, u)', Holds(q, u)'
        PROVE  p = q
    BY <1>a, <1>2, <2>3, NoTokenAssumption DEF Safe, TokenInOneHand, Held, Holds
  <2>4. ASSUME NEW u \in Tokens, NEW p \in Requests, Holds(p, u)'
        PROVE  row'.token # u
    BY <1>a, <1>2, <2>4, NoTokenAssumption DEF Safe, TokenInOneHand, Held, Holds
  <2>5. ASSUME NEW u \in Tokens, NEW p \in Requests, Holds(p, u)'
        PROVE  /\ ledger'[u].calls = IF req'[p].tries = 0 THEN 0 ELSE 1
               /\ Len(ledger'[u].sent) <= req'[p].tries
               /\ \A k \in DOMAIN ledger'[u].sent : ledger'[u].sent[k].channel = "api"
    <3>1. CASE p # r
      <4>1. Holds(p, u) /\ u # t /\ req'[p] = req[p]
        BY <1>1, <1>2, <2>5, <3>1 DEF Safe, TokenInOneHand, Holds
      <4>2. ledger'[u] = ledger[u]
        BY <1>3, <4>1
      <4> QED
        BY <4>1, <4>2 DEF Safe, TokenInOneHand
    <3>2. CASE p = r
      <4>1. u = t /\ h.tries = tries + 1 /\ s.channel = "api" /\ req'[p] = h
        BY <1>a, <1>2, <2>5, <3>2, NoTokenAssumption DEF Holds
      <4>2. req'[p].tries # 0 /\ Len(ledger'[t].sent) <= tries + 1
        BY <1>1, <1>4, <4>1
      <4>3. \A k \in DOMAIN ledger'[t].sent : ledger'[t].sent[k].channel = "api"
        BY <1>1, <1>4, <4>1
      <4> QED
        BY <1>3, <4>1, <4>2, <4>3
    <3> QED
      BY <3>1, <3>2
  <2> QED
    BY <2>1, <2>2, <2>3, <2>4, <2>5 DEF TokenInOneHand
<1>8. DispatchBacked'
  BY <1>2 DEF Safe, DispatchBacked, Backed
<1>9. OneCallPerApproval'
  <2>1. Len(ledger'[t].sent) <= MaxAttempts
    BY <1>1, <1>4, AttemptsAssumption
  <2>2. ASSUME NEW k \in DOMAIN ledger'[t].sent, ledger'[t].sent[k].channel = "browser"
        PROVE  Len(ledger'[t].sent) = 1
    <3>1. ledger'[t].sent[k] = s /\ Len(ledger'[t].sent) = Len(sent) + 1 /\ tries = 0
      BY <1>1, <1>4, <2>2
    <3> QED
      BY <1>1, <3>1
  <2> DEFINE Once(e) == /\ e.calls <= 1
                        /\ Len(e.sent) <= MaxAttempts
                        /\ \A k \in DOMAIN e.sent :
                              e.sent[k].channel = "browser" => Len(e.sent) = 1
  <2>3. \A u \in Tokens : Once(ledger[u])
    BY DEF Safe, OneCallPerApproval
  <2>4. Once(ledger'[t])
    BY <1>3, <2>1, <2>2
  <2>5. \A u \in Tokens : Once(ledger'[u])
    <3> HIDE DEF Once
    <3> QED
      BY <1>3, <2>3, <2>4
  <2> QED
    BY <2>5 DEF OneCallPerApproval
<1>10. Used(t)
  <2>1. ledger[t].calls > 0 => Len(ledger[t].sent) < MaxAttempts
    BY <1>1, AttemptsAssumption
  <2> QED
    BY <1>1, <1>3, <1>4, <1>6, <2>1 DEF Used, Same
<1> QED
  BY <1>7, <1>8, <1>9, <1>10 DEF Safe, Step

-----------------------------------------------------------------------------
(* Every action keeps Safe.                                                *)

\* A flush that takes the row's status away from "approved" takes the token
\* with it; one that leaves the status alone leaves the token.
LEMMA SettleToken ==
    ASSUME TypeOK, TypeOK', Safe, NEW r \in Requests, NEW new,
           new.token = NoToken, new.status # "approved" \/ new.status = req[r].snap.status,
           row' = Flush(req[r].snap, new), Done(r), UNCHANGED <<ledger, platform>>
    PROVE  Step
<1>1. \/ row'.status = row.status /\ row'.token = row.token
      \/ row'.status # "approved" /\ row'.token = NoToken
  BY DEF Flush
<1>2. Idle \in Handler /\ Idle.token = NoToken /\ Idle.tries = 0 /\ Backed(Idle)
  BY IdleIsHandler, AttemptsAssumption DEF Idle, Backed
<1>3. req' = [req EXCEPT ![r] = Idle]
  BY DEF Done
<1> QED
  BY <1>1, <1>2, <1>3, MoveToken DEF Safe, TokenInOneHand, DispatchBacked

\* A handler that ends without touching the row.
LEMMA QuitToken ==
    ASSUME TypeOK, TypeOK', Safe, NEW r \in Requests, Done(r), UNCHANGED <<row, ledger, platform>>
    PROVE  Step
<1>1. Idle \in Handler /\ Idle.token = NoToken /\ Idle.tries = 0 /\ Backed(Idle)
  BY IdleIsHandler, AttemptsAssumption DEF Idle, Backed
<1> QED
  BY <1>1, MoveToken DEF Done, Safe, TokenInOneHand, DispatchBacked

\* A handler that arrives without an approval.
LEMMA LoadToken ==
    ASSUME TypeOK, TypeOK', Safe, NEW r \in Requests,
           NEW op \in {"reject", "mark", "revert", "submit", "generate", "verdict"},
           NEW pc \in {"commit", "claim"}, Begin(r, op, pc, NoText, NoToken), UNCHANGED ledger
    PROVE  Step
<1> DEFINE h == [op |-> op, pc |-> pc, snap |-> row, body |-> NoText, token |-> NoToken, tries |-> 0]
<1>1. h \in Handler /\ h.token = NoToken /\ h.tries = 0 /\ Backed(h)
  BY AttemptsAssumption DEF Handler, TypeOK, Backed
<1>2. req' = [req EXCEPT ![r] = h] /\ row' = row /\ platform' = platform
  BY DEF Begin
<1> HIDE DEF h
<1> QED
  BY <1>1, <1>2, MoveToken DEF Safe, TokenInOneHand, DispatchBacked

\* The commit of an approval: the token stays with the row, or with the
\* handler that dispatches at once.
LEMMA ApproveToken ==
    ASSUME TypeOK, TypeOK', Safe, NEW r \in Requests, NEW new \in Row, new.status = "approved",
           NEW next \in {"refresh", "enqueue"}, req[r].op \in {"approve", "bulk"},
           req[r].pc = "commit", Approve(r, new, next)
    PROVE  Step
<1>1. req[r] \in Handler /\ req[r].token # NoToken /\ req[r].tries = 0 /\ new \in Row
  BY HandlerType DEF TypeOK, Safe, DispatchBacked, Backed
<1>2. CASE AutoDispatch
  <2> DEFINE h == [req[r] EXCEPT !.pc = next, !.snap = new, !.token = req[r].token, !.tries = 0]
  <2>1. req' = [req EXCEPT ![r] = h]
    BY <1>2 DEF Approve, Goto, TypeOK
  <2>2. /\ h \in Handler /\ h.token = req[r].token /\ h.tries = 0 /\ h.pc = next
        /\ h.op = req[r].op
    BY <1>1 DEF Handler
  <2>4. Backed(h)
    BY <1>1, <1>2, <2>2, AttemptsAssumption DEF Backed
  <2>3. row'.token \in {row.token, NoToken} /\ row'.token = NoToken
    BY <1>2 DEF Approve, Flush, Row, Safe, TokenInOneHand
  <2> HIDE DEF h
  <2> QED
    BY <1>1, <1>2, <2>1, <2>2, <2>3, <2>4, MoveToken DEF Approve
<1>3. CASE ~AutoDispatch
  <2>1. Idle \in Handler /\ Idle.token = NoToken /\ Idle.tries = 0 /\ Backed(Idle)
    BY IdleIsHandler, AttemptsAssumption DEF Idle, Backed
  <2>2. \/ row'.status = row.status /\ row'.token = row.token
        \/ row'.status = "approved" /\ row'.token = req[r].token
    BY <1>3 DEF Approve, Flush, Row
  <2>3. req' = [req EXCEPT ![r] = Idle] /\ UNCHANGED <<ledger, platform>>
    BY <1>3 DEF Approve, Done
  <2> QED
    BY <1>1, <1>3, <2>1, <2>2, <2>3, MoveToken DEF Safe, TokenInOneHand, DispatchBacked
<1> QED
  BY <1>2, <1>3

LEMMA SetStatusToken ==
    ASSUME TypeOK, TypeOK', Safe, NEW r \in Requests,
           NEW status \in Statuses \ {"approved"}, SetStatus(r, status, NoToken)
    PROVE  Step
<1> DEFINE new == [req[r].snap EXCEPT !.status = status, !.token = NoToken]
<1>1. new.token = NoToken /\ new.status # "approved"
  BY HandlerType DEF Row
<1>2. row' = Flush(req[r].snap, new) /\ Done(r) /\ UNCHANGED <<ledger, platform>>
  BY DEF SetStatus
<1> HIDE DEF new
<1> QED
  BY <1>1, <1>2, SettleToken

LEMMA NextStep == TypeOK /\ TypeOK' /\ Safe /\ [Next]_vars => Step
<1> SUFFICES ASSUME TypeOK, TypeOK', Safe, [Next]_vars PROVE Step
  OBVIOUS
<1>1. ASSUME NEW r \in Requests, Arrive(r) PROVE Step
  <2>1. CASE ReadApprove(r) \/ ReadBulk(r)
    BY <2>1, ClickToken DEF ReadApprove, ReadBulk
  <2>2. CASE ReadReject(r) \/ ReadMark(r) \/ ReadRevert(r) \/ ReadSubmit(r)
             \/ ReadGenerate(r) \/ ReadVerdict(r)
    BY <2>2, LoadToken DEF ReadReject, ReadMark, ReadRevert, ReadSubmit, ReadGenerate,
                           ReadVerdict, Load
  <2> QED
    BY <1>1, <2>1, <2>2 DEF Arrive, Ask
<1>2. ASSUME NEW r \in Requests, Continue(r) PROVE Step
  <2> DEFINE snap == req[r].snap
  <2>1. req[r] \in Handler /\ snap \in Row /\ Backed(req[r])
    BY DEF TypeOK, Handler, Safe, DispatchBacked
  <2>2. \A text \in Texts \cup {NoText} : Append(snap.versions, text) \in Seq(Texts \cup {NoText})
    BY <2>1 DEF Row
  <2>3. CASE CommitApprove(r)
    <3> DEFINE judged == [snap EXCEPT !.status = "approved", !.reviewed = TRUE]
               new == IF req[r].body \notin {NoText, snap.text}
                      THEN [judged EXCEPT !.text = req[r].body,
                                          !.versions = Append(@, snap.text)]
                      ELSE judged
    <3>1. judged \in Row /\ judged.versions = snap.versions /\ judged.status = "approved"
      BY <2>1 DEF Row, Statuses
    <3>2. Append(judged.versions, snap.text) \in Seq(Texts \cup {NoText})
      BY <2>1, <2>2, <3>1 DEF Row
    <3>3. new \in Row /\ new.status = "approved"
      BY <2>1, <3>1, <3>2 DEF Row, Handler
    <3>4. Approve(r, new, "refresh") /\ req[r].op = "approve" /\ req[r].pc = "commit"
      BY <2>3 DEF CommitApprove, At
    <3> HIDE DEF new
    <3> QED
      BY <3>3, <3>4, ApproveToken
  <2>4. CASE CommitBulk(r)
    <3> DEFINE new == [snap EXCEPT !.status = "approved", !.reviewed = TRUE,
                                   !.versions = Append(@, snap.text)]
    <3>1. Append(snap.versions, snap.text) \in Seq(Texts \cup {NoText})
      BY <2>1, <2>2 DEF Row
    <3>2. new \in Row /\ new.status = "approved"
      BY <2>1, <3>1 DEF Row, Statuses
    <3>3. /\ \E next \in {"refresh", "enqueue"} : Approve(r, new, next)
          /\ req[r].op = "bulk" /\ req[r].pc = "commit"
      BY <2>4 DEF CommitBulk, At
    <3> HIDE DEF new
    <3> QED
      BY <3>2, <3>3, ApproveToken
  <2>5. CASE Refresh(r)
    <3> DEFINE h == [req[r] EXCEPT !.pc = "enqueue", !.snap = row, !.token = req[r].token,
                                   !.tries = 0]
    <3>1. req' = [req EXCEPT ![r] = h]
      BY <2>1, <2>5 DEF Refresh, Goto, TypeOK
    <3>4. req[r].tries = 0 /\ req[r].pc = "refresh"
      BY <2>1, <2>5, HandlerType DEF Refresh, Backed
    <3>5. row \in Row /\ req[r].token \in Tokens \cup {NoToken}
      BY HandlerType DEF TypeOK
    <3>6. h \in Handler /\ h.token = req[r].token /\ h.tries = 0 /\ h.pc = "enqueue" /\ h.op = req[r].op
      BY <2>1, <3>5 DEF Handler
    <3>2. h \in Handler /\ h.token = req[r].token /\ h.tries = 0 /\ Backed(h)
      <4> HIDE DEF h
      <4> QED
        BY <2>1, <3>4, <3>6, AttemptsAssumption DEF Backed
    <3>3. row'.token = h.token => h.token = NoToken
      BY <2>1, <2>5, <3>2 DEF Refresh, Safe, TokenInOneHand, Holds, Handler
    <3> HIDE DEF h
    <3> QED
      BY <2>5, <3>1, <3>2, <3>3, <3>4, MoveToken DEF Refresh, Safe, TokenInOneHand, DispatchBacked
  <2>6. CASE SkipOffer(r) \/ ClaimLost(r) \/ GenerateFails(r)
    BY <2>6, QuitToken DEF SkipOffer, ClaimLost, GenerateFails
  <2>7. CASE EnqueueOffer(r) \/ EnqueueUpwork(r) \/ PlaceBid(r)
    <3>1. req[r].token # NoToken
      BY <2>1, <2>7 DEF EnqueueOffer, EnqueueUpwork, PlaceBid, Backed, At, AutoDispatch
    <3>2. PICK pc \in {"finish", "fail"} : Goto(r, pc, snap, NoToken)
      BY <2>7 DEF EnqueueOffer, EnqueueUpwork, PlaceBid
    <3> DEFINE h == [req[r] EXCEPT !.pc = pc, !.snap = snap, !.token = NoToken, !.tries = 0]
    <3>3. req' = [req EXCEPT ![r] = h]
      BY <2>1, <3>2 DEF Goto, TypeOK
    <3>7. h \in Handler /\ h.token = NoToken /\ h.tries = 0 /\ h.pc = pc /\ h.op = req[r].op
      BY <2>1 DEF Handler
    <3> HIDE DEF h
    <3>4. h \in Handler /\ h.token = NoToken /\ Backed(h)
      BY <2>1, <3>7, AttemptsAssumption DEF Backed
    <3>5. CASE PlaceBid(r)
      <4>1. PICK s \in Sending : s = Bid(snap) /\ s.channel = "api"
        BY SentType DEF Bid
      <4>2. Dispatch(r, req[r].token, <<s>>) /\ UNCHANGED <<row, platform>>
        BY <3>5, <4>1 DEF PlaceBid
      <4> QED
        BY <3>1, <3>3, <3>4, <4>1, <4>2, DispatchToken
    <3>6. CASE EnqueueOffer(r) \/ EnqueueUpwork(r)
      <4>1. PICK s \in Sending : s = Typed(snap)
        BY SentType
      <4>2. Dispatch(r, req[r].token, <<s>>) /\ UNCHANGED <<row, platform>>
        BY <3>6, <4>1 DEF EnqueueOffer, EnqueueUpwork
      <4>3. req[r].tries = 0
        BY <2>1, <3>6, HandlerType DEF EnqueueOffer, EnqueueUpwork, Backed, At
      <4> QED
        BY <3>1, <3>3, <3>4, <4>2, <4>3, DispatchToken
    <3> QED
      BY <2>7, <3>5, <3>6
  <2>16. CASE RepeatBid(r)
    <3> DEFINE h == [req[r] EXCEPT !.tries = req[r].tries + 1]
    <3>1. /\ req[r].token # NoToken /\ req[r].op = "submit" /\ req[r].pc = "dispatch"
          /\ req[r].tries \in Nat /\ platform = "freelancer"
      BY <2>1, <2>16, HandlerType DEF RepeatBid, Backed, At, AutoDispatch
    <3>2. req' = [req EXCEPT ![r] = h] /\ UNCHANGED <<row, platform>>
      BY <2>16 DEF RepeatBid
    <3>3. h \in Handler /\ h.token = req[r].token /\ h.tries = req[r].tries + 1
      BY <2>1, <3>1 DEF Handler
    <3>4. h.op = "submit" /\ h.pc = "dispatch" /\ h.tries < MaxAttempts
      BY <2>1, <2>16, <3>1 DEF RepeatBid, Handler
    <3> HIDE DEF h
    <3>5. Backed(h)
      BY <3>1, <3>3, <3>4 DEF Backed, AutoDispatch
    <3>6. PICK s \in Sending : s = Bid(snap) /\ s.channel = "api"
      BY SentType DEF Bid
    <3>7. PICK arrived \in {<<>>, <<s>>} : Dispatch(r, req[r].token, arrived)
      BY <2>16, <3>6 DEF RepeatBid
    <3> QED
      BY <3>1, <3>2, <3>3, <3>5, <3>6, <3>7, DispatchToken
  <2>8. CASE CommitReject(r)
    <3> DEFINE new == [snap EXCEPT !.status = "rejected", !.reviewed = TRUE, !.token = NoToken]
    <3>1. new.token = NoToken /\ new.status # "approved"
      BY <2>1 DEF Row
    <3>2. row' = Flush(snap, new) /\ Done(r) /\ UNCHANGED <<ledger, platform>>
      BY <2>8 DEF CommitReject
    <3> HIDE DEF new
    <3> QED
      BY <3>1, <3>2, SettleToken
  <2>9. CASE CommitMark(r)
    <3> DEFINE new == [snap EXCEPT !.status = "submitted", !.token = NoToken]
    <3>1. new.token = NoToken /\ new.status # "approved"
      BY <2>1 DEF Row
    <3>2. row' = Flush(snap, new) /\ Done(r) /\ UNCHANGED <<ledger, platform>>
      BY <2>9 DEF CommitMark
    <3> HIDE DEF new
    <3> QED
      BY <3>1, <3>2, SettleToken
  <2>10. CASE CommitRevert(r)
    <3>1. PICK k \in DOMAIN snap.versions, newBid \in BOOLEAN :
             row' = Flush(snap, Reverted(snap, snap.versions[k], newBid))
      BY <2>10 DEF CommitRevert
    <3>2. Done(r) /\ UNCHANGED <<ledger, platform>>
      BY <2>10 DEF CommitRevert
    <3>3. CASE snap.versions[k] = snap.text /\ ~newBid
      <4>1. row' = row
        BY <2>1, <3>1, <3>3 DEF Reverted, Flush, TypeOK, Row
      <4> QED
        BY <3>2, <4>1, QuitToken
    <3>4. CASE ~(snap.versions[k] = snap.text /\ ~newBid)
      <4> DEFINE new == [snap EXCEPT !.text = snap.versions[k], !.status = "pending_review",
                                     !.reviewed = FALSE, !.token = NoToken]
      <4>1. new.token = NoToken /\ new.status # "approved"
        BY <2>1 DEF Row
      <4>2. row' = Flush(snap, new)
        BY <3>1, <3>4 DEF Reverted
      <4> HIDE DEF new
      <4> QED
        BY <3>2, <4>1, <4>2, SettleToken
    <3> QED
      BY <3>3, <3>4
  <2>11. CASE Claim(r)
    <3> DEFINE loaded == IF snap.status = "approved" THEN [snap EXCEPT !.status = "submitting"] ELSE snap
               h == [req[r] EXCEPT !.pc = "dispatch", !.snap = loaded, !.token = row.token,
                                   !.tries = 0]
    <3>1. loaded \in Row /\ row \in Row
      BY <2>1 DEF Row, Statuses, TypeOK
    <3>2. req' = [req EXCEPT ![r] = h]
      BY <2>11 DEF Claim, Goto, TypeOK
    <3>a. req[r].op = "submit" /\ row.token \in Tokens \cup {NoToken}
      BY <2>11, <3>1 DEF Claim, At, Row
    <3>3. /\ h \in Handler /\ h.token = row.token /\ h.pc = "dispatch" /\ h.op = "submit"
          /\ h.tries = 0
      <4> HIDE DEF loaded
      <4> QED
        BY <2>1, <3>1, <3>a DEF Handler
    <3>4. Backed(h)
      BY <2>11, <3>3, AttemptsAssumption
         DEF Claim, Backed, Safe, DispatchBacked, TokenInOneHand
    <3>5. /\ row'.token = NoToken /\ row'.status = "submitting" /\ UNCHANGED <<ledger, platform>>
          /\ req[r].tries = 0
      BY <2>1, <2>11, <3>1, HandlerType DEF Claim, Row, Backed, At
    <3> HIDE DEF h
    <3> QED
      BY <3>2, <3>3, <3>4, <3>5, MoveToken
  <2>12. CASE Release(r)
    <3> DEFINE new == [snap EXCEPT !.status = "approved", !.token = req[r].token]
    <3>1. row' = Flush(snap, new) /\ req' = [req EXCEPT ![r] = Idle] /\ UNCHANGED <<ledger, platform>>
      BY <2>12 DEF Release, SetStatus, Done
    <3>2. Idle \in Handler /\ Idle.token = NoToken /\ Idle.tries = 0 /\ Backed(Idle)
      BY IdleIsHandler, AttemptsAssumption DEF Idle, Backed
    <3>10. req[r].tries = 0
      BY <2>12 DEF Release
    <3>3. new.status = "approved" /\ new.token = req[r].token
      BY <2>1 DEF Row
    <3>4. \/ row'.status = row.status /\ row'.token = row.token
          \/ row'.status = "approved" /\ row'.token = req[r].token
      BY <3>1, <3>3 DEF Flush
    <3>5. AutoDispatch => req[r].token = NoToken
      BY <2>1, <2>12 DEF Release, At, Backed
    <3>6. ~AutoDispatch => req[r].token # NoToken
      BY <2>1, <2>12 DEF Release, At, Backed
    <3> HIDE DEF new
    <3>7. row'.token \in {NoToken, row.token, req[r].token}
      BY <3>4
    <3>8. row'.token # NoToken => row'.status = "approved" /\ ~AutoDispatch
      BY <3>4, <3>5 DEF Safe, TokenInOneHand
    <3>9. row'.status = "approved" /\ ~AutoDispatch => row'.token # NoToken
      BY <3>4, <3>6 DEF Safe, DispatchBacked
    <3> QED
      BY <3>1, <3>2, <3>7, <3>8, <3>9, <3>10, MoveToken
  <2>13. CASE FailDispatch(r) \/ Finish(r) \/ FailSent(r)
    BY <2>13, SetStatusToken DEF FailDispatch, Finish, FailSent, Statuses
  <2>14. CASE CommitGenerate(r)
    <3>1. PICK human \in Texts \cup {NoText}, draft \in Texts, f \in BOOLEAN :
             row' = Flush(snap, Drafted(snap, human, draft, f))
      BY <2>14 DEF CommitGenerate
    <3>2. /\ Drafted(snap, human, draft, f).token = NoToken
          /\ Drafted(snap, human, draft, f).status # "approved"
      BY <2>1 DEF Drafted, Row
    <3> QED
      BY <2>14, <3>1, <3>2, SettleToken DEF CommitGenerate
  <2>15. CASE CommitVerdict(r)
    <3>1. CASE \E v \in Verdicts : SetStatus(r, v, NoToken)
      BY <3>1, SetStatusToken DEF Verdicts, Statuses
    <3>2. CASE Done(r) /\ UNCHANGED <<row, ledger, handedOff, platform>>
      BY <3>2, QuitToken
    <3> QED
      BY <2>15, <3>1, <3>2 DEF CommitVerdict, Conclude
  <2> QED
    BY <1>2, <2>3, <2>4, <2>5, <2>6, <2>7, <2>8, <2>9, <2>10, <2>11, <2>12, <2>13, <2>14,
       <2>15, <2>16 DEF Continue, Proceed, HandOver
<1>3. CASE UNCHANGED vars
  BY <1>3 DEF vars, Step, LetGo, Ended, Safe, TokenInOneHand, DispatchBacked,
              OneCallPerApproval, Held, Holds, Backed, AutoDispatch
<1> QED
  BY <1>1, <1>2, <1>3 DEF Next

LEMMA CrashStep == TypeOK /\ TypeOK' /\ Safe /\ [CrashNext]_vars => Step
<1>1. ASSUME TypeOK, TypeOK', Safe, NEW r \in Requests, Crash(r) PROVE Step
  BY <1>1, QuitToken DEF Crash
<1> QED
  BY <1>1, NextStep DEF CrashNext

\* However many handlers overlap and wherever they die: an approval is in one
\* hand, the row's or one handler's; nothing was spent on it but by the call of
\* that very handler, attempt by attempt; and nobody dispatches without one.
THEOREM SafeInvariant == CrashSpec => []Safe
<1>1. TypeOK /\ Safe /\ [CrashNext]_vars => Safe'
  BY CrashTypeOK, CrashStep DEF Step
<1> QED
  BY <1>1, InitSafe, TypeCorrect, PTL DEF CrashSpec

\* No approval pays for two calls of an adapter, and what its one call delivers
\* is one browser task, or no more bids than request_with_retry makes attempts,
\* however many handlers overlap and wherever they die.
THEOREM OneCallForAnApproval == CrashSpec => []OneCallPerApproval
<1>1. Safe => OneCallPerApproval
  BY DEF Safe
<1> QED
  BY <1>1, SafeInvariant, PTL

\* Handler r stands where its next step may send something.
Dispatching(r) == req[r].pc = "enqueue" \/ (req[r].pc = "dispatch" /\ ~AutoDispatch)

\* Approval t was given, is in the hand of handler r and in no other, and has
\* paid for nothing, unless r is repeating its own call: then for that call
\* only, and for no more bids than it has made attempts.
PaysOnlyFor(t, r) ==
    /\ Holds(r, t) /\ ledger[t].minted
    /\ row.token # t /\ \A q \in Requests \ {r} : ~Holds(q, t)
    /\ IF req[r].tries = 0 THEN ledger[t].calls = 0 /\ ledger[t].sent = <<>>
                           ELSE ledger[t].calls = 1 /\ Len(ledger[t].sent) <= req[r].tries

\* Whoever is about to dispatch, however stale the copy of the row it decided
\* on, holds an approval of its own that has paid for nothing else.
THEOREM DispatchIsBacked ==
    CrashSpec => [](\A r \in Requests : Dispatching(r) => \E t \in Tokens : PaysOnlyFor(t, r))
<1>1. ASSUME TypeOK, Safe, NEW r \in Requests, Dispatching(r)
      PROVE  \E t \in Tokens : PaysOnlyFor(t, r)
  <2>1. req[r].token # NoToken
    BY <1>1 DEF Dispatching, Safe, DispatchBacked, Backed
  <2>2. PICK t \in Tokens : Holds(r, t)
    BY <1>1, <2>1, HandlerType DEF Holds
  <2>3. Held(t) /\ row.token # t /\ \A q \in Requests \ {r} : ~Holds(q, t)
    BY <1>1, <2>2 DEF Held, Safe, TokenInOneHand
  <2>4. /\ ledger[t].minted /\ (ledger[t].calls = 0 => ledger[t].sent = <<>>)
        /\ ledger[t].calls = IF req[r].tries = 0 THEN 0 ELSE 1
        /\ Len(ledger[t].sent) <= req[r].tries
    BY <1>1, <2>2, <2>3 DEF Safe, TokenInOneHand
  <2> QED
    BY <2>2, <2>3, <2>4 DEF PaysOnlyFor
<1>2. TypeOK /\ Safe => \A r \in Requests : Dispatching(r) => \E t \in Tokens : PaysOnlyFor(t, r)
  BY <1>1
<1> QED
  BY <1>2, TypeCorrect, SafeInvariant, PTL

-----------------------------------------------------------------------------
(* The approvals of the row behave as ApprovalLedger says.                 *)

\* Initially no approval has been given.
LEMMA InitLedger == Init => Ledger!LedgerInit
BY DEF Init, Ledger!LedgerInit, Life, NoEntry

\* What a step does to the approvals is a step of the ledger.
LEMMA StepLedger ==
    ASSUME TypeOK, TypeOK', Safe, Step
    PROVE  Ledger!LedgerNext \/ UNCHANGED Ledger!ledgerVars
<1> DEFINE life == [t \in Tokens |-> Life(t)]
           uses == [t \in Tokens |-> Len(ledger[t].sent)]
<1>1. ASSUME NEW t \in Tokens
      PROVE  /\ ledger[t].sent \in Seq(Sending) /\ ledger'[t].sent \in Seq(Sending)
             /\ ledger[t].calls \in Nat /\ Len(ledger[t].sent) \in Nat
             /\ Held(t) => ledger[t].minted
             /\ Held(t)' => ledger'[t].minted
             /\ ~ledger[t].minted => ledger[t].calls = 0
             /\ ledger[t].calls = 0 => ledger[t].sent = <<>>
  BY DEF TypeOK, Entry, Safe, Step, TokenInOneHand
<1>2. ASSUME NEW t \in Tokens, Same(t)
      PROVE  Life(t)' = Life(t) /\ Len(ledger'[t].sent) = Len(ledger[t].sent)
  BY <1>2 DEF Same, Life
<1>3. CASE LetGo
  <2> DEFINE V == {t \in Tokens : Life(t) = "open" /\ ~Held(t)'}
  <2>1. \A t \in Tokens : Life(t)' = IF t \in V THEN "void"
                                     ELSE IF Ended(t) THEN "spent" ELSE Life(t)
    BY <1>3, <1>1 DEF LetGo, Life, Ended
  <2>2. V \in Ledger!OpenSets
    BY DEF Ledger!OpenSets
  <2>4. uses' = uses
    BY <1>3 DEF LetGo
  <2>5. CASE \A t \in Tokens : ~Ended(t)
    <3>1. life' = Ledger!Voided(V)
      BY <2>1, <2>5 DEF Ledger!Voided
    <3> QED
      BY <2>2, <2>4, <3>1 DEF Ledger!LedgerNext, Ledger!Lapse
  <2>6. ASSUME NEW t \in Tokens, Ended(t) PROVE Ledger!Settle(t)
    <3>1. Life(t) = "calling" /\ t \notin V
      BY <1>1, <2>6 DEF Life, Ended
    <3>2. \A u \in Tokens \ {t} : ~Ended(u)
      BY <1>3, <2>6 DEF LetGo
    <3>3. life' = [Ledger!Voided(V) EXCEPT ![t] = "spent"]
      BY <2>1, <2>6, <3>1, <3>2 DEF Ledger!Voided
    <3> QED
      BY <2>2, <2>4, <3>1, <3>3 DEF Ledger!Settle
  <2> QED
    BY <2>5, <2>6 DEF Ledger!LedgerNext
<1>4. ASSUME NEW t \in Tokens, Given(t) PROVE Ledger!Grant(t)
  <2>1. Life(t) = "unused" /\ Life(t)' = "open" /\ Len(ledger'[t].sent) = Len(ledger[t].sent)
    BY <1>1, <1>4 DEF Given, Life
  <2>2. {} \in Ledger!OpenSets
    BY DEF Ledger!OpenSets
  <2>3. life' = [Ledger!Voided({}) EXCEPT ![t] = "open"]
    BY <1>2, <1>4, <2>1 DEF Given, Ledger!Voided
  <2>4. uses' = uses
    BY <1>2, <1>4, <2>1 DEF Given
  <2> QED
    BY <2>1, <2>2, <2>3, <2>4 DEF Ledger!Grant
<1>5. ASSUME NEW t \in Tokens, Used(t) PROVE Ledger!Call(t) \/ Ledger!Repeat(t)
  <2>1. Life(t) = IF ledger[t].calls = 0 THEN "open" ELSE "calling"
    BY <1>1, <1>5 DEF Used, Life
  <2>2. Life(t)' \in {"calling", "spent"}
    BY <1>5 DEF Used, Life
  <2>3. life' = [life EXCEPT ![t] = Life(t)']
    BY <1>2, <1>5 DEF Used
  <2>4. \E n \in {0, 1} : uses' = [uses EXCEPT ![t] = @ + n]
    <3>1. PICK n \in {0, 1} : Len(ledger'[t].sent) = Len(ledger[t].sent) + n
      BY <1>1, <1>5 DEF Used
    <3>2. \A u \in Tokens \ {t} : Len(ledger'[u].sent) = Len(ledger[u].sent)
      BY <1>2, <1>5 DEF Used
    <3>3. uses' = [uses EXCEPT ![t] = @ + n]
      BY <3>1, <3>2
    <3> QED
      BY <3>3
  <2>5. ledger[t].calls > 0 => uses[t] < MaxAttempts
    BY <1>5 DEF Used
  <2>6. life[t] = Life(t)
    OBVIOUS
  <2>7. \E stage \in {"calling", "spent"} : life' = [life EXCEPT ![t] = stage]
    BY <2>2, <2>3
  <2>10. ledger[t].calls \in Nat
    BY <1>1
  <2> HIDE DEF life, uses
  <2>8. CASE ledger[t].calls = 0
    BY <2>1, <2>4, <2>6, <2>7, <2>8 DEF Ledger!Call, life, uses
  <2>9. CASE ledger[t].calls # 0
    <3>1. life[t] = "calling" /\ uses[t] < MaxAttempts
      BY <2>1, <2>5, <2>6, <2>9, <2>10
    <3> QED
      BY <2>4, <2>7, <3>1 DEF Ledger!Repeat, life, uses
  <2> QED
    BY <2>8, <2>9
<1> QED
  BY <1>3, <1>4, <1>5 DEF Step, Ledger!LedgerNext

\* The queue implements the ledger: an approval is given once, pays for one
\* call and only while it is open, the call delivers no more than MaxAttempts
\* messages, and an approval that was overtaken or spent never comes back.
THEOREM ImplementsLedger == CrashSpec => LedgerSpec
<1>1. TypeOK /\ TypeOK' /\ Safe /\ [CrashNext]_vars => [Ledger!LedgerNext]_(Ledger!ledgerVars)
  BY CrashStep, StepLedger
<1> QED
  BY <1>1, InitLedger, TypeCorrect, SafeInvariant, PTL
     DEF CrashSpec, LedgerSpec, Ledger!LedgerSpec

-----------------------------------------------------------------------------
(* While requests do not overlap, the adapter endpoints included.  That a  *)
(* bid carries what was judged is not inductive: it needs that the row's   *)
(* approval was given for the row's text, and that a handler's copy of the *)
(* row is the row, as nobody else writes it.                               *)

Alone(r)  == \A q \in Requests \ {r} : req[q] = Idle
NoOverlap == \A r \in Requests : req[r] = Idle \/ Alone(r)

\* Only an approval that was given has been dispatched.
GivenFirst == \A t \in Tokens : ~ledger[t].minted => ledger[t].sent = <<>>

Minted(t) == t # NoToken => ledger[t].minted

\* What handler h knows of the row and of the approval it holds, where it stands.
Knows(h) ==
    /\ Minted(h.token)
    /\ h.pc \in {"commit", "claim"} => h.snap = row
    /\ h.pc = "dispatch" /\ h.op \in {"bid", "agency"} => h.snap = row /\ row.status = "approved"
    /\ h.pc = "dispatch" /\ h.op = "submit" =>
          /\ row.status = "submitting" /\ h.snap.status = "submitting" /\ row.reviewed
          /\ row.text = h.snap.text
          /\ h.token # NoToken => ledger[h.token].text = row.text
    /\ h.pc = "commit" /\ h.op \in {"approve", "bulk", "reject"} => row.status = "pending_review"
    /\ h.pc = "commit" /\ h.op \in {"approve", "bulk"} /\ h.token # NoToken =>
          ledger[h.token].text = IF h.body = NoText THEN row.text ELSE h.body
    /\ h.pc = "commit" /\ h.op = "bulk" => h.body = NoText
    /\ h.pc = "commit" /\ h.op = "revert" => row.status \in {"pending_review", "approved"}
    /\ h.pc = "commit" /\ h.op = "generate" => row.status = "generation_failed"

Judged == /\ Minted(row.token) /\ GivenFirst
          /\ ApprovedAsJudged /\ BidAsApproved
          /\ \A r \in Requests : Knows(req[r])

\* The adapter endpoints keep the types.
LEMMA ChargeType ==
    ASSUME TypeOK, NEW r \in Requests, NEW arrived \in Seq(Sending), Charge(r, arrived)
    PROVE  ledger' \in [Tokens -> Entry]
BY DispatchType DEF Charge, TypeOK

LEMMA AdapterTypeOK == TypeOK /\ [AdapterNext]_vars => TypeOK'
<1> SUFFICES ASSUME TypeOK, [AdapterNext]_vars PROVE TypeOK'
  OBVIOUS
<1>1. CASE [Next]_vars
  BY <1>1, NextTypeOK
<1>2. ASSUME NEW r \in Requests, AdapterArrive(r) PROVE TypeOK'
  <2>1. PICK op \in {"bid", "agency"} : Load(r, op, "dispatch")
    BY <1>2 DEF AdapterArrive, ReadBid, ReadAgency
  <2>2. [op |-> op, pc |-> "dispatch", snap |-> row, body |-> NoText, token |-> NoToken, tries |-> 0]
          \in Handler
    BY DEF Handler, TypeOK
  <2> QED
    BY <2>1, <2>2, BeginType DEF Load, TypeOK
<1>3. ASSUME NEW r \in Requests, AdapterContinue(r) PROVE TypeOK'
  <2>1. Bid(req[r].snap) \in Sending /\ Typed(req[r].snap) \in Sending /\ req[r].snap \in Row
    BY SentType, HandlerType
  <2>2. CASE SendBid(r)
    BY <2>1, <2>2, ChargeType, ArrivedType, DoneType DEF SendBid, TypeOK
  <2>3. CASE EnqueueAgency(r)
    BY <2>1, <2>3, ChargeType, ArrivedType, GotoType DEF EnqueueAgency, TypeOK
  <2>4. CASE Refused(r)
    BY <2>4, DoneType DEF Refused, TypeOK
  <2>5. CASE RepeatSend(r)
    BY <2>1, <2>5, ChargeType, ArrivedType, TriesType DEF RepeatSend, TypeOK
  <2> QED
    BY <1>3, <2>2, <2>3, <2>4, <2>5 DEF AdapterContinue
<1> QED
  BY <1>1, <1>2, <1>3 DEF AdapterNext

THEOREM AdapterTypeCorrect == AdapterSpec => []TypeOK
BY InitTypeOK, AdapterTypeOK, PTL DEF AdapterSpec

\* Initially nothing is approved.
LEMMA InitJudged == Init => Judged
<1> SUFFICES ASSUME Init PROVE Judged
  OBVIOUS
<1> DEFINE Untouched(w) == w.token = NoToken /\ w.status # "approved"
<1>1. Untouched(BlankRow)
  BY DEF BlankRow
<1>2. ASSUME NEW human, NEW draft, NEW f
      PROVE  Untouched(Drafted(BlankRow, human, draft, f)) /\ Untouched(Offered(draft))
  BY DEF Drafted, Offered, BlankRow
<1>3. Untouched(row)
  BY <1>1, <1>2 DEF Init
<1>4. \A t \in Tokens : ledger[t].sent = <<>>
  BY DEF Init, NoEntry
<1>5. \A r \in Requests : Knows(req[r])
  BY DEF Init, Knows, Minted, Idle
<1> QED
  BY <1>3, <1>4, <1>5 DEF Judged, Minted, GivenFirst, ApprovedAsJudged, BidAsApproved

\* What the only handler at work knows is all there is to know.
LEMMA OnlyOne ==
    ASSUME TypeOK, NEW r \in Requests, Alone(r), NEW h, req' = [req EXCEPT ![r] = h],
           Knows(h)'
    PROVE  \A q \in Requests : Knows(req[q])'
<1>1. Knows(Idle)'
  BY DEF Knows, Minted, Idle
<1> QED
  BY <1>1 DEF TypeOK, Alone, Knows, Minted

\* The approval stays what it was, or the row is not approved any more.
Faithful ==
    \/ /\ row'.status = row.status /\ row'.text = row.text
       /\ row'.reviewed = row.reviewed /\ row'.token = row.token
    \/ row'.status # "approved" /\ row'.token = NoToken

LEMMA RowJudged ==
    ASSUME Judged, UNCHANGED ledger, Faithful
    PROVE  Minted(row.token)' /\ GivenFirst' /\ ApprovedAsJudged' /\ BidAsApproved'
BY DEF Judged, Faithful, Minted, GivenFirst, ApprovedAsJudged, BidAsApproved

\* A handler that goes on without sending anything.
LEMMA GoesOnJudged ==
    ASSUME TypeOK, Judged, NEW r \in Requests, Alone(r), NEW h,
           req' = [req EXCEPT ![r] = h], Knows(h)', UNCHANGED ledger, Faithful
    PROVE  Judged'
BY RowJudged, OnlyOne DEF Judged

\* A handler that ends.
LEMMA EndsJudged ==
    ASSUME TypeOK, Judged, NEW r \in Requests, Alone(r), Done(r), UNCHANGED ledger, Faithful
    PROVE  Judged'
<1>1. Knows(Idle)'
  BY DEF Knows, Minted, Idle
<1> QED
  BY <1>1, GoesOnJudged DEF Done

\* A handler that settles the row.
LEMMA SetStatusJudged ==
    ASSUME TypeOK, Judged, NEW r \in Requests, Alone(r),
           NEW status \in Statuses \ {"approved"}, SetStatus(r, status, NoToken)
    PROVE  Judged' /\ row'.status \in {row.status, status}
<1> DEFINE snap == req[r].snap
           new == [snap EXCEPT !.status = status, !.token = NoToken]
<1>1. snap \in Row
  BY HandlerType
<1>2. /\ new.status = status /\ new.token = NoToken
      /\ new.text = snap.text /\ new.reviewed = snap.reviewed
  BY <1>1 DEF Row
<1>3. row' = Flush(snap, new) /\ Done(r) /\ UNCHANGED ledger
  BY DEF SetStatus
<1> HIDE DEF new
<1>4. Faithful /\ row'.status \in {row.status, status}
  BY <1>2, <1>3 DEF Flush, Faithful
<1> QED
  BY <1>3, <1>4, EndsJudged

\* A handler whose call delivers something or nothing on the strength of an
\* approval, or of none.
LEMMA SendsJudged ==
    ASSUME TypeOK, Judged, NEW r \in Requests, Alone(r), NEW h,
           req' = [req EXCEPT ![r] = h], Knows(h), h.token \in Tokens \cup {NoToken},
           NEW t \in Tokens \cup {NoToken}, Minted(t),
           NEW s \in Sending, NEW arrived \in {<<>>, <<s>>},
           IF t = NoToken THEN UNCHANGED ledger ELSE Dispatch(r, t, arrived),
           s.channel = "api" /\ t # NoToken => s.text = ledger[t].text,
           UNCHANGED row
    PROVE  Judged'
<1>2. CASE t = NoToken
  <2>1. Knows(h)'
    BY <1>2 DEF Knows, Minted
  <2> QED
    BY <1>2, <2>1, GoesOnJudged DEF Faithful
<1>3. CASE t # NoToken
  <2>1. ledger[t] \in Entry /\ ledger[t].minted /\ ledger[t].sent \in Seq(Sending)
    BY <1>3 DEF TypeOK, Minted, Entry
  <2>3. ledger'[t] = [ledger[t] EXCEPT !.calls = IF req[r].tries = 0 THEN ledger[t].calls + 1
                                                                     ELSE ledger[t].calls,
                                       !.sent = ledger[t].sent \o arrived]
    BY <1>3 DEF Dispatch, TypeOK
  <2>4. /\ ledger'[t].sent = ledger[t].sent \o arrived
        /\ ledger'[t].text = ledger[t].text /\ ledger'[t].minted
    BY <2>1, <2>3 DEF Entry
  <2>5. \A u \in Tokens : u # t => ledger'[u] = ledger[u]
    BY <1>3 DEF Dispatch, TypeOK
  <2>6. \A u \in Tokens : /\ ledger'[u].minted <=> ledger[u].minted
                          /\ ledger'[u].text = ledger[u].text
    <3>1. ASSUME NEW u \in Tokens
          PROVE  (ledger'[u].minted <=> ledger[u].minted) /\ ledger'[u].text = ledger[u].text
      <4>1. CASE u = t
        BY <2>1, <2>4, <4>1
      <4>2. CASE u # t
        BY <2>5, <4>2
      <4> QED
        BY <4>1, <4>2
    <3> QED
      BY <3>1
  <2>7. BidAsApproved'
    <3> SUFFICES ASSUME NEW u \in Tokens, NEW k \in DOMAIN ledger'[u].sent,
                        ledger'[u].sent[k].channel = "api"
                 PROVE  ledger'[u].sent[k].text = ledger'[u].text
      BY DEF BidAsApproved
    <3>1. CASE u # t
      BY <2>5, <3>1 DEF Judged, BidAsApproved
    <3>2. CASE u = t
      <4>1. \/ k \in DOMAIN ledger[t].sent /\ ledger'[t].sent[k] = ledger[t].sent[k]
            \/ ledger'[t].sent[k] = s
        <5>1. k \in DOMAIN (ledger[t].sent \o arrived)
          BY <2>4, <3>2
        <5> QED
          BY <2>1, <2>4, <5>1, Delivered
      <4> QED
        BY <1>3, <2>4, <3>2, <4>1 DEF Judged, BidAsApproved
    <3> QED
      BY <3>1, <3>2
  <2>8. GivenFirst'
    BY <2>4, <2>5, <2>6 DEF Judged, GivenFirst
  <2>9. Minted(row.token)' /\ ApprovedAsJudged'
    <3>1. row.token \in Tokens \cup {NoToken}
      BY DEF TypeOK, Row
    <3> QED
      BY <2>6, <3>1 DEF Judged, Minted, ApprovedAsJudged
  <2>10. Knows(h)'
    BY <2>6 DEF Knows, Minted
  <2> QED
    BY <2>7, <2>8, <2>9, <2>10, OnlyOne DEF Judged
<1> QED
  BY <1>2, <1>3

\* What a step keeps, and what it never undoes.
JudgedStep == Judged' /\ (row.status \in Closed => row'.status \in Closed \cup {"failed"})

\* A handler that arrives.
LEMMA LoadJudged ==
    ASSUME TypeOK, Judged, NEW r \in Requests, Alone(r),
           NEW op \in {"reject", "mark", "revert", "submit", "generate", "verdict", "bid", "agency"},
           NEW pc \in {"commit", "claim", "dispatch"}, pc = "dispatch" => op \in {"bid", "agency"},
           op \in {"bid", "agency"} => row.status = "approved",
           op = "revert" => row.status \in {"pending_review", "approved"},
           op = "generate" => row.status = "generation_failed",
           op = "reject" => row.status = "pending_review",
           Begin(r, op, pc, NoText, NoToken), UNCHANGED ledger
    PROVE  JudgedStep
<1>0. PICK h : h = [op |-> op, pc |-> pc, snap |-> row, body |-> NoText, token |-> NoToken, tries |-> 0]
  OBVIOUS
<1>1. req' = [req EXCEPT ![r] = h] /\ row' = row
  BY <1>0 DEF Begin
<1>2. Knows(h)'
  BY <1>0, <1>1 DEF Knows, Minted
<1>3. Faithful
  BY <1>1 DEF Faithful
<1> QED
  BY <1>1, <1>2, <1>3, GoesOnJudged DEF JudgedStep

\* The click records what it judges.
LEMMA ClickJudged ==
    ASSUME TypeOK, Judged, NEW r \in Requests, Alone(r), NEW op \in {"approve", "bulk"},
           NEW body \in Texts \cup {NoText}, op = "bulk" => body = NoText,
           row.status = "pending_review", Click(r, op, body)
    PROVE  JudgedStep
<1>1. PICK t \in Tokens :
         /\ ~ledger[t].minted
         /\ ledger' = [ledger EXCEPT ![t].minted = TRUE,
                                     ![t].text = IF body = NoText THEN row.text ELSE body]
         /\ Begin(r, op, "commit", body, t)
  BY DEF Click
<1>0. PICK h : h = [op |-> op, pc |-> "commit", snap |-> row, body |-> body, token |-> t, tries |-> 0]
  OBVIOUS
<1>2. req' = [req EXCEPT ![r] = h] /\ row' = row
  BY <1>0, <1>1 DEF Begin
<1>3. /\ ledger'[t].minted /\ ledger'[t].sent = ledger[t].sent
      /\ ledger'[t].text = IF body = NoText THEN row.text ELSE body
      /\ \A u \in Tokens : u # t => ledger'[u] = ledger[u]
  BY <1>1 DEF TypeOK, Entry
<1>4. ledger[t].sent = <<>>
  BY <1>1 DEF Judged, GivenFirst
<1>5. Knows(h)'
  BY <1>0, <1>2, <1>3 DEF Knows, Minted
<1>6. GivenFirst' /\ BidAsApproved'
  BY <1>3, <1>4 DEF Judged, GivenFirst, BidAsApproved
<1>7. Minted(row.token)' /\ ApprovedAsJudged'
  <2>1. row.token \in Tokens \cup {NoToken} /\ row.token # t
    BY <1>1, NoTokenAssumption DEF TypeOK, Row, Judged, Minted
  <2> QED
    BY <1>2, <1>3, <2>1 DEF Judged, Minted, ApprovedAsJudged
<1>8. Judged'
  BY <1>2, <1>5, <1>6, <1>7, OnlyOne DEF Judged
<1> QED
  BY <1>2, <1>8 DEF JudgedStep

\* The commit of an approval puts the judged text in the row.
LEMMA ApproveJudged ==
    ASSUME TypeOK, Judged, NEW r \in Requests, Alone(r), NEW new \in Row,
           NEW next \in {"refresh", "enqueue"},
           new.status = "approved", new.reviewed,
           req[r].pc = "commit", req[r].op \in {"approve", "bulk"},
           req[r].token # NoToken => ledger[req[r].token].text = new.text,
           Approve(r, new, next)
    PROVE  JudgedStep
<1> DEFINE token == IF AutoDispatch THEN NoToken ELSE req[r].token
           written == [new EXCEPT !.token = token]
<1>1. /\ req[r] \in Handler /\ req[r].snap = row /\ row.status = "pending_review"
      /\ Minted(req[r].token) /\ req[r].token \in Tokens \cup {NoToken} /\ row \in Row
  BY HandlerType DEF TypeOK, Judged, Knows
<1>2. /\ written.status = "approved" /\ written.text = new.text /\ written.reviewed
      /\ written.token = token
  BY DEF Row
<1>3. row' = Flush(row, written) /\ UNCHANGED ledger
  BY <1>1 DEF Approve
<1> HIDE DEF written
<1>4. row'.status = "approved" /\ row'.text = new.text /\ row'.reviewed /\ row'.token = token
  BY <1>1, <1>2, <1>3 DEF Flush
<1>5. Minted(row.token)' /\ ApprovedAsJudged'
  BY <1>1, <1>3, <1>4 DEF Minted, ApprovedAsJudged
<1>6. GivenFirst' /\ BidAsApproved'
  BY <1>3 DEF Judged, GivenFirst, BidAsApproved
<1>7. PICK h : req' = [req EXCEPT ![r] = h] /\ Knows(h)'
  <2>1. CASE AutoDispatch
    <3>0. PICK h : h = [req[r] EXCEPT !.pc = next, !.snap = new, !.token = req[r].token, !.tries = 0]
      OBVIOUS
    <3>1. req' = [req EXCEPT ![r] = h]
      BY <2>1, <3>0 DEF Approve, Goto, TypeOK
    <3>2. h.pc = next /\ h.token = req[r].token
      BY <1>1, <3>0 DEF Handler
    <3>3. Knows(h)'
      BY <1>1, <1>3, <3>2 DEF Knows, Minted
    <3> QED
      BY <3>1, <3>3
  <2>2. CASE ~AutoDispatch
    <3>1. req' = [req EXCEPT ![r] = Idle]
      BY <2>2 DEF Approve, Done
    <3>2. Knows(Idle)'
      BY DEF Knows, Minted, Idle
    <3> QED
      BY <3>1, <3>2
  <2> QED
    BY <2>1, <2>2
<1>8. Judged'
  BY <1>5, <1>6, <1>7, OnlyOne DEF Judged
<1> QED
  BY <1>1, <1>8 DEF JudgedStep, Closed

LEMMA ArriveJudged ==
    ASSUME TypeOK, Judged, NEW r \in Requests, Alone(r), Arrive(r)
    PROVE  JudgedStep
<1>1. CASE ReadApprove(r) \/ ReadBulk(r)
  BY <1>1, ClickJudged DEF ReadApprove, ReadBulk
<1>2. CASE ReadMark(r) \/ ReadSubmit(r) \/ ReadVerdict(r)
  BY <1>2, LoadJudged DEF ReadMark, ReadSubmit, ReadVerdict, Load
<1>3. CASE ReadReject(r) \/ ReadRevert(r) \/ ReadGenerate(r)
  BY <1>3, LoadJudged DEF ReadReject, ReadRevert, ReadGenerate, Load
<1> QED
  BY <1>1, <1>2, <1>3 DEF Arrive, Ask

\* A handler that settles the row as closed or failed.
LEMMA ClosesJudged ==
    ASSUME TypeOK, Judged, NEW r \in Requests, Alone(r),
           NEW status \in Statuses \ {"approved"}, SetStatus(r, status, NoToken),
           status \in Closed \cup {"failed"}
    PROVE  JudgedStep
BY SetStatusJudged DEF JudgedStep

LEMMA ContinueJudged ==
    ASSUME TypeOK, Judged, NEW r \in Requests, Alone(r), Continue(r)
    PROVE  JudgedStep
<1> DEFINE snap == req[r].snap
<1>1. /\ req[r] \in Handler /\ snap \in Row /\ row \in Row /\ Knows(req[r])
      /\ req[r].token \in Tokens \cup {NoToken}
  BY HandlerType DEF TypeOK, Judged
<1>2. \A text \in Texts \cup {NoText} : Append(snap.versions, text) \in Seq(Texts \cup {NoText})
  BY <1>1 DEF Row
<1>3. ASSUME Done(r), UNCHANGED <<row, ledger>> PROVE JudgedStep
  BY <1>3, EndsJudged DEF Faithful, JudgedStep
<1>4. ASSUME Done(r), UNCHANGED ledger, snap = row, NEW new, row' = Flush(snap, new),
             new.status # "approved", new.token = NoToken, new.status # row.status,
             row.status \notin Closed \/ new.status \in Closed \cup {"failed"}
      PROVE  JudgedStep
  <2>1. row'.status = new.status /\ row'.token = NoToken
    BY <1>4 DEF Flush
  <2> QED
    BY <1>4, <2>1, EndsJudged DEF Faithful, JudgedStep
<1>5. CASE CommitApprove(r)
  <2> DEFINE judged == [snap EXCEPT !.status = "approved", !.reviewed = TRUE]
             new == IF req[r].body \notin {NoText, snap.text}
                    THEN [judged EXCEPT !.text = req[r].body,
                                        !.versions = Append(@, snap.text)]
                    ELSE judged
  <2>0. /\ At(r, "approve", "commit") /\ Approve(r, new, "refresh")
        /\ req[r].body \in Texts \cup {NoText} /\ snap = row
        /\ req[r].token # NoToken =>
              ledger[req[r].token].text = IF req[r].body = NoText THEN snap.text ELSE req[r].body
    BY <1>1, <1>5, HandlerType DEF CommitApprove, At, Knows
  <2>1. /\ judged \in Row /\ judged.versions = snap.versions /\ judged.status = "approved"
        /\ judged.reviewed /\ judged.text = snap.text
    BY <1>1 DEF Row, Statuses
  <2>2. Append(judged.versions, snap.text) \in Seq(Texts \cup {NoText})
    BY <1>1, <1>2, <2>1 DEF Row
  <2>3. /\ new \in Row /\ new.status = "approved" /\ new.reviewed
        /\ new.text = IF req[r].body = NoText THEN snap.text ELSE req[r].body
    <3> HIDE DEF judged
    <3> QED
      BY <2>0, <2>1, <2>2 DEF Row
  <2> HIDE DEF new
  <2> QED
    BY <2>0, <2>3, ApproveJudged DEF At
<1>6. CASE CommitBulk(r)
  <2> DEFINE new == [snap EXCEPT !.status = "approved", !.reviewed = TRUE,
                                 !.versions = Append(@, snap.text)]
  <2>1. Append(snap.versions, snap.text) \in Seq(Texts \cup {NoText})
    BY <1>1, <1>2 DEF Row
  <2>2. new \in Row /\ new.status = "approved" /\ new.reviewed /\ new.text = snap.text
    BY <1>1, <2>1 DEF Row, Statuses
  <2>3. /\ \E next \in {"refresh", "enqueue"} : Approve(r, new, next)
        /\ At(r, "bulk", "commit")
    BY <1>6 DEF CommitBulk
  <2>4. req[r].token # NoToken => ledger[req[r].token].text = snap.text
    BY <1>1, <2>3 DEF At, Knows
  <2> HIDE DEF new
  <2> QED
    BY <2>2, <2>3, <2>4, ApproveJudged DEF At
<1>7. CASE Refresh(r)
  <2>0. PICK h : h = [req[r] EXCEPT !.pc = "enqueue", !.snap = row, !.token = req[r].token,
                                    !.tries = 0]
    OBVIOUS
  <2>1. req' = [req EXCEPT ![r] = h] /\ UNCHANGED <<row, ledger>>
    BY <1>7, <2>0 DEF Refresh, Goto, TypeOK
  <2>2. h.pc = "enqueue" /\ h.token = req[r].token
    BY <1>1, <2>0 DEF Handler
  <2>3. Knows(h)'
    BY <1>1, <2>1, <2>2 DEF Knows, Minted
  <2> QED
    BY <2>1, <2>3, GoesOnJudged DEF Faithful, JudgedStep
<1>8. CASE SkipOffer(r) \/ ClaimLost(r) \/ GenerateFails(r)
  BY <1>3, <1>8 DEF SkipOffer, ClaimLost, GenerateFails
<1>9. CASE EnqueueOffer(r) \/ EnqueueUpwork(r) \/ PlaceBid(r) \/ RepeatBid(r)
  <2>1. PICK s \in {Bid(snap), Typed(snap)} :
           /\ Dispatch(r, req[r].token, <<s>>) \/ Dispatch(r, req[r].token, <<>>)
           /\ UNCHANGED row
           /\ s = Bid(snap) => At(r, "submit", "dispatch")
    <3>1. Bid(snap) # Typed(snap)
      BY DEF Bid, Typed
    <3>2. CASE PlaceBid(r)
      BY <3>2 DEF PlaceBid
    <3>3. CASE RepeatBid(r)
      BY <3>3 DEF RepeatBid
    <3>4. CASE EnqueueOffer(r) \/ EnqueueUpwork(r)
      BY <3>1, <3>4 DEF EnqueueOffer, EnqueueUpwork
    <3> QED
      BY <1>9, <3>2, <3>3, <3>4
  <2>2. PICK h : /\ req' = [req EXCEPT ![r] = h] /\ Knows(h)
                 /\ h.token \in Tokens \cup {NoToken}
    <3>1. CASE RepeatBid(r)
      <4>0. PICK h : h = [req[r] EXCEPT !.tries = req[r].tries + 1]
        OBVIOUS
      <4>1. req' = [req EXCEPT ![r] = h]
        BY <3>1, <4>0 DEF RepeatBid
      <4>2. /\ h.op = req[r].op /\ h.pc = req[r].pc /\ h.snap = snap /\ h.body = req[r].body
            /\ h.token = req[r].token
        BY <1>1, <4>0 DEF Handler
      <4> QED
        BY <1>1, <4>1, <4>2 DEF Knows
    <3>2. CASE EnqueueOffer(r) \/ EnqueueUpwork(r) \/ PlaceBid(r)
      <4>1. PICK pc \in {"finish", "fail"} : Goto(r, pc, snap, NoToken)
        BY <3>2 DEF EnqueueOffer, EnqueueUpwork, PlaceBid
      <4>2. PICK h : h = [req[r] EXCEPT !.pc = pc, !.snap = snap, !.token = NoToken, !.tries = 0]
        OBVIOUS
      <4>3. req' = [req EXCEPT ![r] = h] /\ h.token = NoToken /\ h.pc \in {"finish", "fail"}
        BY <1>1, <4>1, <4>2 DEF Goto, Handler, TypeOK
      <4> QED
        BY <4>3 DEF Knows, Minted
    <3> QED
      BY <1>9, <3>1, <3>2
  <2>5. s \in Sending
    BY <2>1, SentType
  <2>6. s.channel = "api" /\ req[r].token # NoToken => s.text = ledger[req[r].token].text
    <3>1. CASE s = Typed(snap)
      BY <3>1 DEF Typed
    <3>2. CASE s = Bid(snap)
      BY <1>1, <2>1, <3>2 DEF Bid, At, Knows
    <3> QED
      BY <2>1, <3>1, <3>2
  <2>7. PICK t \in Tokens \cup {NoToken} : t = req[r].token
    BY <1>1
  <2>8. PICK arrived \in {<<>>, <<s>>} :
           IF t = NoToken THEN UNCHANGED ledger ELSE Dispatch(r, t, arrived)
    <3>1. CASE t = NoToken
      BY <2>1, <2>7, <3>1, NoTokenAssumption DEF Dispatch, TypeOK
    <3>2. CASE t # NoToken
      BY <2>1, <2>7, <3>2
    <3> QED
      BY <3>1, <3>2
  <2>9. Judged'
    BY <1>1, <2>1, <2>2, <2>5, <2>6, <2>7, <2>8, SendsJudged DEF Knows
  <2> QED
    BY <2>1, <2>9 DEF JudgedStep
<1>10. CASE CommitReject(r)
  <2> DEFINE new == [snap EXCEPT !.status = "rejected", !.reviewed = TRUE, !.token = NoToken]
  <2>1. /\ new.status = "rejected" /\ new.token = NoToken
        /\ row' = Flush(snap, new) /\ Done(r) /\ UNCHANGED ledger
    BY <1>1, <1>10 DEF Row, CommitReject
  <2>2. snap = row /\ row.status = "pending_review"
    BY <1>1, <1>10 DEF CommitReject, At, Knows
  <2> HIDE DEF new
  <2>3. Faithful /\ row'.status = "rejected"
    BY <2>1, <2>2 DEF Flush, Faithful
  <2> QED
    BY <2>1, <2>3, EndsJudged DEF JudgedStep, Closed
<1>11. CASE CommitMark(r)
  <2> DEFINE new == [snap EXCEPT !.status = "submitted", !.token = NoToken]
  <2>1. /\ new.status = "submitted" /\ new.token = NoToken
        /\ new.text = snap.text /\ new.reviewed = snap.reviewed
        /\ row' = Flush(snap, new) /\ Done(r) /\ UNCHANGED ledger
    BY <1>1, <1>11 DEF Row, CommitMark
  <2> HIDE DEF new
  <2>2. Faithful /\ row'.status \in {row.status, "submitted"}
    BY <2>1 DEF Flush, Faithful
  <2> QED
    BY <2>1, <2>2, EndsJudged DEF JudgedStep, Closed
<1>12. CASE CommitRevert(r)
  <2>1. PICK k \in DOMAIN snap.versions, newBid \in BOOLEAN :
           row' = Flush(snap, Reverted(snap, snap.versions[k], newBid))
    BY <1>12 DEF CommitRevert
  <2>2. /\ Done(r) /\ UNCHANGED ledger /\ snap = row
        /\ row.status \in {"pending_review", "approved"}
    BY <1>1, <1>12 DEF CommitRevert, At, Knows
  <2>3. CASE snap.versions[k] = snap.text /\ ~newBid
    <3>1. row' = row
      BY <1>1, <2>1, <2>3 DEF Reverted, Flush, Row
    <3> QED
      BY <1>3, <2>2, <3>1
  <2>4. CASE ~(snap.versions[k] = snap.text /\ ~newBid)
    <3> DEFINE new == [snap EXCEPT !.text = snap.versions[k], !.status = "pending_review",
                                   !.reviewed = FALSE, !.token = NoToken]
    <3>1. new.token = NoToken /\ new.status = "pending_review"
      BY <1>1 DEF Row
    <3>2. row' = Flush(snap, new)
      BY <2>1, <2>4 DEF Reverted
    <3> HIDE DEF new
    <3>3. row'.status = "pending_review"
      BY <2>2, <3>1, <3>2 DEF Flush
    <3>4. row'.token \in {row.token, NoToken} /\ Minted(row'.token)
      BY <3>1, <3>2 DEF Flush, Judged, Minted
    <3>5. Knows(Idle)'
      BY DEF Knows, Minted, Idle
    <3>6. Minted(row.token)' /\ GivenFirst' /\ ApprovedAsJudged' /\ BidAsApproved'
      BY <2>2, <3>3, <3>4 DEF Judged, Minted, GivenFirst, ApprovedAsJudged, BidAsApproved
    <3>7. Judged'
      BY <2>2, <3>5, <3>6, OnlyOne DEF Judged, Done
    <3> QED
      BY <2>2, <3>7 DEF JudgedStep, Closed
  <2> QED
    BY <2>3, <2>4
<1>13. CASE Claim(r)
  <2>0. /\ At(r, "submit", "claim") /\ snap = row /\ row.status = "approved"
    BY <1>1, <1>13 DEF Claim, At, Knows
  <2>1. PICK loaded : loaded = [snap EXCEPT !.status = "submitting"]
    OBVIOUS
  <2>2. PICK h : h = [req[r] EXCEPT !.pc = "dispatch", !.snap = loaded, !.token = row.token,
                                    !.tries = 0]
    OBVIOUS
  <2>3. req' = [req EXCEPT ![r] = h] /\ UNCHANGED ledger
    BY <1>13, <2>0, <2>1, <2>2 DEF Claim, Goto, TypeOK
  <2>4. /\ row'.status = "submitting" /\ row'.token = NoToken
        /\ row'.text = row.text /\ row'.reviewed = row.reviewed
    BY <1>1, <1>13 DEF Claim, Row
  <2>5. loaded.status = "submitting" /\ loaded.text = row.text
    BY <1>1, <2>0, <2>1 DEF Row
  <2>6. h.pc = "dispatch" /\ h.op = "submit" /\ h.token = row.token /\ h.snap = loaded
    BY <1>1, <2>0, <2>2 DEF At, Handler
  <2>7. Knows(h)'
    BY <2>0, <2>3, <2>4, <2>5, <2>6 DEF Judged, ApprovedAsJudged, Knows, Minted
  <2> QED
    BY <2>0, <2>3, <2>4, <2>7, GoesOnJudged DEF Faithful, JudgedStep, Closed
<1>14. CASE Release(r)
  <2> DEFINE new == [snap EXCEPT !.status = "approved", !.token = req[r].token]
  <2>1. /\ new.status = "approved" /\ new.token = req[r].token
        /\ new.text = snap.text /\ new.reviewed = snap.reviewed
    BY <1>1 DEF Row
  <2>2. row' = Flush(snap, new) /\ Done(r) /\ UNCHANGED ledger /\ At(r, "submit", "dispatch")
    BY <1>14 DEF Release, SetStatus
  <2> HIDE DEF new
  <2>3. /\ snap.status = "submitting" /\ row.status = "submitting" /\ row.reviewed
        /\ req[r].token # NoToken => ledger[req[r].token].text = row.text
        /\ Minted(req[r].token)
    BY <1>1, <2>2 DEF Knows, At
  <2>4. row'.token = req[r].token /\ row'.text = row.text /\ row'.reviewed
    BY <2>1, <2>2, <2>3 DEF Flush
  <2>5. Minted(row.token)' /\ GivenFirst' /\ ApprovedAsJudged' /\ BidAsApproved'
    BY <2>2, <2>3, <2>4 DEF Judged, Minted, GivenFirst, ApprovedAsJudged, BidAsApproved
  <2>6. Knows(Idle)'
    BY DEF Knows, Minted, Idle
  <2>7. Judged'
    BY <2>2, <2>5, <2>6, OnlyOne DEF Judged, Done
  <2> QED
    BY <2>3, <2>7 DEF JudgedStep, Closed
<1>15. CASE FailDispatch(r) \/ Finish(r) \/ FailSent(r)
  BY <1>15, ClosesJudged DEF FailDispatch, Finish, FailSent, Statuses, Closed
<1>16. CASE CommitGenerate(r)
  <2>1. PICK human \in Texts \cup {NoText}, draft \in Texts, f \in BOOLEAN :
           row' = Flush(snap, Drafted(snap, human, draft, f))
    BY <1>16 DEF CommitGenerate
  <2>2. /\ Drafted(snap, human, draft, f).token = NoToken
        /\ Drafted(snap, human, draft, f).status = "pending_review"
    BY <1>1 DEF Drafted, Row
  <2>3. snap = row /\ row.status = "generation_failed" /\ Done(r) /\ UNCHANGED ledger
    BY <1>1, <1>16 DEF CommitGenerate, At, Knows
  <2> QED
    BY <1>4, <2>1, <2>2, <2>3 DEF Closed
<1>17. CASE CommitVerdict(r)
  <2>1. CASE \E v \in Verdicts : SetStatus(r, v, NoToken)
    BY <2>1, ClosesJudged DEF Verdicts, Statuses, Closed
  <2>2. CASE Done(r) /\ UNCHANGED <<row, ledger, handedOff, platform>>
    BY <1>3, <2>2
  <2> QED
    BY <1>17, <2>1, <2>2 DEF CommitVerdict, Conclude
<1> QED
  BY <1>5, <1>6, <1>7, <1>8, <1>9, <1>10, <1>11, <1>12, <1>13, <1>14, <1>15, <1>16, <1>17
     DEF Continue, Proceed, HandOver

LEMMA AdapterJudged ==
    ASSUME TypeOK, Judged, NEW r \in Requests, Alone(r),
           AdapterArrive(r) \/ AdapterContinue(r)
    PROVE  JudgedStep
<1> DEFINE snap == req[r].snap
<1>1. req[r] \in Handler /\ snap \in Row /\ Knows(req[r])
  BY HandlerType DEF TypeOK, Judged
<1>2. CASE AdapterArrive(r)
  BY <1>2, LoadJudged DEF AdapterArrive, ReadBid, ReadAgency, Load
<1>3. CASE SendBid(r) \/ RepeatSend(r) \/ EnqueueAgency(r)
  <2>1. /\ req[r].op \in {"bid", "agency"} /\ req[r].pc = "dispatch" /\ snap = row
        /\ row.status = "approved"
    BY <1>1, <1>3 DEF SendBid, RepeatSend, EnqueueAgency, At, Knows
  <2>2. PICK t \in Tokens \cup {NoToken} : t = row.token
    BY DEF TypeOK, Row
  <2>3. Minted(t) /\ (t # NoToken => row.text = ledger[t].text)
    BY <2>1, <2>2 DEF Judged, ApprovedAsJudged
  <2>4. PICK s \in {Bid(snap), Typed(snap)} : Charge(r, <<s>>) \/ Charge(r, <<>>)
    BY <1>3 DEF SendBid, RepeatSend, EnqueueAgency
  <2>5. s \in Sending /\ (s.channel = "api" => s.text = row.text)
    <3>1. Bid(snap) \in Sending /\ Typed(snap) \in Sending
      BY SentType
    <3>2. /\ Bid(snap).channel = "api" => Bid(snap).text = row.text
          /\ Typed(snap).channel # "api"
      BY <2>1 DEF Bid, Typed
    <3> QED
      BY <2>4, <3>1, <3>2
  <2>6. PICK arrived \in {<<>>, <<s>>} :
           IF t = NoToken THEN UNCHANGED ledger ELSE Dispatch(r, t, arrived)
    BY <2>1, <2>2, <2>4 DEF Charge
  <2>7. PICK h : /\ req' = [req EXCEPT ![r] = h] /\ Knows(h)
                 /\ h.token \in Tokens \cup {NoToken}
    <3>1. CASE SendBid(r)
      <4>1. req' = [req EXCEPT ![r] = Idle]
        BY <3>1 DEF SendBid, Done
      <4>2. Knows(Idle) /\ Idle.token = NoToken
        BY DEF Knows, Minted, Idle
      <4> QED
        BY <4>1, <4>2
    <3>2. CASE EnqueueAgency(r)
      <4>1. PICK h : h = [req[r] EXCEPT !.pc = "finish", !.snap = snap, !.token = NoToken,
                                        !.tries = 0]
        OBVIOUS
      <4>2. req' = [req EXCEPT ![r] = h]
        BY <3>2, <4>1 DEF EnqueueAgency, Goto, TypeOK
      <4>3. h.token = NoToken /\ h.pc = "finish"
        BY <1>1, <4>1 DEF Handler
      <4> QED
        BY <4>2, <4>3 DEF Knows, Minted
    <3>3. CASE RepeatSend(r)
      <4>1. PICK h : h = [req[r] EXCEPT !.tries = req[r].tries + 1]
        OBVIOUS
      <4>2. req' = [req EXCEPT ![r] = h]
        BY <3>3, <4>1 DEF RepeatSend
      <4>3. /\ h.op = req[r].op /\ h.pc = req[r].pc /\ h.snap = snap /\ h.token = req[r].token
            /\ h.token \in Tokens \cup {NoToken}
        BY <1>1, <4>1 DEF Handler
      <4>4. Knows(h)
        BY <1>1, <2>1, <4>3 DEF Knows
      <4> QED
        BY <4>2, <4>3, <4>4
    <3> QED
      BY <1>3, <3>1, <3>2, <3>3
  <2>9. row' = row
    BY <1>3 DEF SendBid, RepeatSend, EnqueueAgency
  <2>10. s.channel = "api" /\ t # NoToken => s.text = ledger[t].text
    BY <2>3, <2>5
  <2>11. Judged'
    BY <2>3, <2>5, <2>6, <2>7, <2>9, <2>10, SendsJudged
  <2> QED
    BY <2>9, <2>11 DEF JudgedStep
<1>4. CASE Refused(r)
  BY <1>4, EndsJudged DEF Refused, Faithful, JudgedStep
<1> QED
  BY <1>2, <1>3, <1>4 DEF AdapterContinue

\* A handler that arrives or goes on is alone.
LEMMA MoverIsAlone ==
    ASSUME TypeOK, NoOverlap, NoOverlap', NEW r \in Requests,
           Arrive(r) \/ Continue(r) \/ AdapterArrive(r) \/ AdapterContinue(r)
    PROVE  Alone(r)
<1>1. ASSUME NEW op, NEW pc, NEW body, NEW token, pc # "idle", Begin(r, op, pc, body, token)
      PROVE  Alone(r)
  <2>1. req'[r].pc = pc /\ \A q \in Requests : q # r => req'[q] = req[q]
    BY <1>1 DEF Begin, TypeOK
  <2>2. req'[r] # Idle
    BY <1>1, <2>1 DEF Idle
  <2> QED
    BY <2>1, <2>2 DEF NoOverlap, Alone
<1>2. ASSUME req[r].pc # "idle" PROVE Alone(r)
  BY <1>2 DEF NoOverlap, Idle
<1>3. CASE Arrive(r)
  BY <1>1, <1>3 DEF Arrive, Ask, ReadApprove, ReadBulk, ReadReject, ReadMark, ReadRevert, ReadSubmit,
                    ReadGenerate, ReadVerdict, Load, Click
<1>4. CASE Continue(r)
  BY <1>2, <1>4 DEF Continue, Proceed, HandOver, CommitApprove, CommitBulk, Refresh, SkipOffer, EnqueueOffer,
                    CommitReject, CommitMark, CommitRevert, Claim, ClaimLost, Release,
                    FailDispatch, PlaceBid, RepeatBid, EnqueueUpwork, Finish, FailSent, CommitGenerate,
                    GenerateFails, CommitVerdict, Conclude, At
<1>5. CASE AdapterArrive(r)
  BY <1>1, <1>5 DEF AdapterArrive, ReadBid, ReadAgency, Load
<1>6. CASE AdapterContinue(r)
  BY <1>2, <1>6 DEF AdapterContinue, SendBid, RepeatSend, EnqueueAgency, Refused, At
<1> QED
  BY <1>3, <1>4, <1>5, <1>6

LEMMA NextJudged ==
    TypeOK /\ NoOverlap /\ NoOverlap' /\ Judged /\ [AdapterNext]_vars => JudgedStep
<1> SUFFICES ASSUME TypeOK, NoOverlap, NoOverlap', Judged, [AdapterNext]_vars PROVE JudgedStep
  OBVIOUS
<1>1. CASE Next
  BY <1>1, MoverIsAlone, ArriveJudged, ContinueJudged DEF Next
<1>2. CASE \E r \in Requests : AdapterArrive(r) \/ AdapterContinue(r)
  BY <1>2, MoverIsAlone, AdapterJudged
<1>3. CASE UNCHANGED vars
  <2>1. \A r \in Requests : Knows(req[r])'
    BY <1>3 DEF vars, Judged, Knows, Minted
  <2> QED
    BY <1>3, <2>1, RowJudged DEF vars, Faithful, Judged, JudgedStep
<1> QED
  BY <1>1, <1>2, <1>3 DEF AdapterNext

\* While requests do not overlap, what handlers know of the row stays true.
THEOREM JudgedInvariant == AdapterSpec /\ []NoOverlap => []Judged
<1>1. TypeOK /\ NoOverlap /\ NoOverlap' /\ Judged /\ [AdapterNext]_vars => Judged'
  BY NextJudged DEF JudgedStep
<1> QED
  BY <1>1, InitJudged, AdapterTypeCorrect, PTL DEF AdapterSpec

\* A bid carries the very text that its approval was given for, through
\* submit_proposal and through the adapter endpoint.
THEOREM BidsAsApproved == AdapterSpec /\ []NoOverlap => []BidAsApproved
<1>1. Judged => BidAsApproved
  BY DEF Judged
<1> QED
  BY <1>1, JudgedInvariant, PTL

\* An approved row names a reviewer and holds the draft its approval was given
\* for, whatever was edited, reverted, released or refused before.
THEOREM ApprovedRowsAsJudged == AdapterSpec /\ []NoOverlap => []ApprovedAsJudged
<1>1. Judged => ApprovedAsJudged
  BY DEF Judged
<1> QED
  BY <1>1, JudgedInvariant, PTL

\* A row that was rejected, sent or handed to the browser is closed for good.
THEOREM ClosedRowsStay == AdapterSpec /\ []NoOverlap => ClosedForGood
<1>1. TypeOK /\ NoOverlap /\ NoOverlap' /\ Judged /\ [AdapterNext]_vars
        => [row.status \in Closed => row'.status \in Closed \cup {"failed"}]_vars
  BY NextJudged DEF JudgedStep
<1> QED
  BY <1>1, JudgedInvariant, AdapterTypeCorrect, PTL DEF AdapterSpec, ClosedForGood

\* A commit that changes the status of the row writes the status it decided on.
LEMMA FlushedStatus ==
    ASSUME NEW snap, NEW new, row' = Flush(snap, new), row'.status # row.status
    PROVE  row'.status = new.status
BY DEF Flush

\* An approval is committed with the status it names.
LEMMA ApprovesAs ==
    ASSUME TypeOK, NEW r \in Requests, CommitApprove(r) \/ CommitBulk(r)
    PROVE  \E new \in Row, next \in {"refresh", "enqueue"} :
              new.status = "approved" /\ Approve(r, new, next)
<1> DEFINE snap   == req[r].snap
           judged == [snap EXCEPT !.status = "approved", !.reviewed = TRUE]
           edited == [judged EXCEPT !.text = req[r].body, !.versions = Append(@, snap.text)]
           listed == [snap EXCEPT !.status = "approved", !.reviewed = TRUE,
                                  !.versions = Append(@, snap.text)]
<1>1. /\ snap.versions \in Seq(Texts \cup {NoText}) /\ snap.text \in Texts \cup {NoText}
      /\ req[r].body \in Texts \cup {NoText}
  BY HandlerType DEF Row
<1>2. Append(snap.versions, snap.text) \in Seq(Texts \cup {NoText})
  BY <1>1
<1>3. judged \in Row /\ judged.versions = snap.versions /\ judged.status = "approved"
  BY HandlerType DEF Row, Statuses
<1>4. edited \in Row /\ edited.status = "approved"
  BY <1>1, <1>2, <1>3 DEF Row
<1>5. listed \in Row /\ listed.status = "approved"
  BY HandlerType, <1>2 DEF Row, Statuses
<1>6. CASE CommitApprove(r)
  <2>1. Approve(r, judged, "refresh") \/ Approve(r, edited, "refresh")
    BY <1>6 DEF CommitApprove
  <2> HIDE DEF judged, edited
  <2> QED
    BY <1>3, <1>4, <2>1
<1>7. CASE CommitBulk(r)
  <2>1. \E next \in {"refresh", "enqueue"} : Approve(r, listed, next)
    BY <1>7 DEF CommitBulk
  <2> HIDE DEF listed
  <2> QED
    BY <1>5, <2>1
<1> QED
  BY <1>6, <1>7

-----------------------------------------------------------------------------
(* While requests do not overlap, a row is claimed only as long as its     *)
(* handler is at work.  The invariant adds what the handler has in hand:   *)
(* its copy of the row says "submitting", so whichever status it settles   *)
(* on differs from the copy and is written.                                *)

Holder(h) == h.op = "submit" /\ h.pc \in {"dispatch", "finish", "fail"}

\* What handler h has in hand where it stands.
InHand(h) == /\ Holder(h) => h.snap.status = "submitting"
             /\ h.pc \in {"refresh", "enqueue"} => h.op # "submit"

Claiming == ClaimIsHeld /\ \A r \in Requests : InHand(req[r])

LEMMA InitClaiming == Init => Claiming
<1> SUFFICES ASSUME Init PROVE Claiming
  OBVIOUS
<1>1. row.status # "submitting"
  <2>1. \A human, draft, f : Drafted(BlankRow, human, draft, f).status = "pending_review"
    BY DEF Drafted, BlankRow
  <2>2. \A offer : Offered(offer).status = "pending_review"
    BY DEF Offered, BlankRow
  <2>3. BlankRow.status # "submitting"
    BY DEF BlankRow
  <2>4. \/ \E offer \in Texts : row = Offered(offer)
        \/ row = BlankRow
        \/ \E human, draft, f : row = Drafted(BlankRow, human, draft, f)
    BY DEF Init
  <2>5. CASE \E offer \in Texts : row = Offered(offer)
    BY <2>2, <2>5
  <2>6. CASE row = BlankRow
    BY <2>3, <2>6
  <2>7. CASE \E human, draft, f : row = Drafted(BlankRow, human, draft, f)
    BY <2>1, <2>7
  <2> QED
    BY <2>4, <2>5, <2>6, <2>7
<1>2. \A r \in Requests : InHand(req[r])
  BY DEF Init, Idle, InHand, Holder
<1> QED
  BY <1>1, <1>2 DEF Claiming, ClaimIsHeld

\* Nobody else can hold the claim.
LEMMA Unclaimed ==
    ASSUME Claiming, NEW r \in Requests, Alone(r), ~Holder(req[r])
    PROVE  row.status # "submitting"
<1>1. ~Holder(Idle)
  BY DEF Holder, Idle
<1> QED
  BY <1>1 DEF Claiming, ClaimIsHeld, Alone, Holder

\* The only handler at work takes the claim with it, or leaves none.
LEMMA GoesOnClaiming ==
    ASSUME TypeOK, NEW r \in Requests, Alone(r), NEW h, req' = [req EXCEPT ![r] = h],
           InHand(h), row'.status = "submitting" => Holder(h)
    PROVE  Claiming'
<1>1. req'[r] = h /\ \A q \in Requests \ {r} : req'[q] = Idle
  BY DEF TypeOK, Alone
<1>2. InHand(Idle)
  BY DEF InHand, Holder, Idle
<1>3. \A q \in Requests : InHand(req'[q])
  BY <1>1, <1>2
<1> QED
  BY <1>1, <1>3 DEF Claiming, ClaimIsHeld, InHand, Holder

LEMMA EndsClaiming ==
    ASSUME TypeOK, NEW r \in Requests, Alone(r), Done(r), row'.status # "submitting"
    PROVE  Claiming'
<1>1. InHand(Idle)
  BY DEF InHand, Holder, Idle
<1> QED
  BY <1>1, GoesOnClaiming DEF Done

\* A handler that arrives holds no claim yet.
LEMMA BeginClaiming ==
    ASSUME TypeOK, Claiming, NEW r \in Requests, Alone(r), NEW op, NEW pc, NEW body, NEW token,
           pc \in {"commit", "claim", "dispatch"}, pc = "dispatch" => op # "submit",
           Begin(r, op, pc, body, token)
    PROVE  Claiming'
<1>0. PICK h : h = [op |-> op, pc |-> pc, snap |-> row, body |-> body, token |-> token, tries |-> 0]
  OBVIOUS
<1>1. req[r] = Idle /\ req' = [req EXCEPT ![r] = h] /\ row' = row
  BY <1>0 DEF Begin
<1>2. ~Holder(h) /\ InHand(h)
  BY <1>0 DEF InHand, Holder
<1>3. row.status # "submitting"
  BY <1>1, Unclaimed DEF Holder, Idle
<1> QED
  BY <1>1, <1>2, <1>3, GoesOnClaiming

\* A handler that settles the row gives the claim back, if it had it.
LEMMA SettlesClaiming ==
    ASSUME TypeOK, Claiming, NEW r \in Requests, Alone(r), NEW status, NEW token,
           status # "submitting", SetStatus(r, status, token)
    PROVE  Claiming'
<1> DEFINE snap == req[r].snap
           new == [snap EXCEPT !.status = status, !.token = token]
<1>1. snap \in Row
  BY HandlerType
<1>2. new.status = status /\ row' = Flush(snap, new) /\ Done(r)
  BY <1>1 DEF SetStatus, Row
<1> HIDE DEF new
<1>3. CASE Holder(req[r])
  <2>1. snap.status = "submitting"
    BY <1>3 DEF Claiming, InHand
  <2>2. row'.status = status
    BY <1>2, <2>1 DEF Flush
  <2> QED
    BY <1>2, <2>2, EndsClaiming
<1>4. CASE ~Holder(req[r])
  <2>1. row'.status # "submitting"
    BY <1>2, <1>4, FlushedStatus, Unclaimed
  <2> QED
    BY <1>2, <2>1, EndsClaiming
<1> QED
  BY <1>3, <1>4

LEMMA ArriveClaiming ==
    ASSUME TypeOK, Claiming, NEW r \in Requests, Alone(r), Arrive(r) \/ AdapterArrive(r)
    PROVE  Claiming'
<1>1. CASE ReadApprove(r) \/ ReadBulk(r)
  <2>1. PICK op, body, t : Begin(r, op, "commit", body, t)
    BY <1>1 DEF ReadApprove, ReadBulk, Click
  <2> QED
    BY <2>1, BeginClaiming
<1>2. CASE ReadReject(r) \/ ReadMark(r) \/ ReadRevert(r) \/ ReadSubmit(r) \/ ReadGenerate(r) \/ ReadVerdict(r)
  BY <1>2, BeginClaiming DEF ReadReject, ReadMark, ReadRevert, ReadSubmit, ReadGenerate, ReadVerdict, Load
<1>3. CASE ReadBid(r) \/ ReadAgency(r)
  BY <1>3, BeginClaiming DEF ReadBid, ReadAgency, Load
<1> QED
  BY <1>1, <1>2, <1>3 DEF Arrive, Ask, AdapterArrive

LEMMA ContinueClaiming ==
    ASSUME TypeOK, Judged, Claiming, NEW r \in Requests, Alone(r),
           Continue(r) \/ AdapterContinue(r)
    PROVE  Claiming'
<1> DEFINE snap == req[r].snap
<1>1. req[r] \in Handler /\ snap \in Row /\ Knows(req[r]) /\ InHand(req[r])
  <2>1. req[r] \in Handler /\ snap \in Row
    BY HandlerType DEF TypeOK
  <2>2. Knows(req[r])
    BY DEF Judged
  <2>3. InHand(req[r])
    BY DEF Claiming
  <2> QED
    BY <2>1, <2>2, <2>3
<1>2. ASSUME Done(r), ~Holder(req[r]), NEW new, row' = Flush(snap, new), new.status # "submitting"
      PROVE  Claiming'
  BY <1>2, FlushedStatus, Unclaimed, EndsClaiming
<1>3. ASSUME ~Holder(req[r]), Done(r), UNCHANGED row PROVE Claiming'
  BY <1>3, Unclaimed, EndsClaiming
<1>4. ASSUME NEW pc, NEW new, NEW token, Goto(r, pc, new, token)
      PROVE  \E h : /\ h.op = req[r].op /\ h.pc = pc /\ h.snap = new
                    /\ req' = [req EXCEPT ![r] = h]
  <2>0. PICK h : h = [req[r] EXCEPT !.pc = pc, !.snap = new, !.token = token, !.tries = 0]
    OBVIOUS
  <2>1. req' = [req EXCEPT ![r] = h]
    BY <1>4, <2>0 DEF Goto, TypeOK
  <2>2. h.op = req[r].op /\ h.pc = pc /\ h.snap = new
    BY <1>1, <2>0 DEF Handler
  <2> QED
    BY <2>1, <2>2
<1>5. CASE CommitApprove(r) \/ CommitBulk(r)
  <2>1. PICK new \in Row, next \in {"refresh", "enqueue"} : new.status = "approved" /\ Approve(r, new, next)
    BY <1>5, ApprovesAs
  <2> DEFINE written == [new EXCEPT !.token = IF AutoDispatch THEN NoToken ELSE req[r].token]
  <2>2. written.status = "approved" /\ row' = Flush(snap, written)
    BY <2>1 DEF Approve, Row
  <2> HIDE DEF written
  <2>3. req[r].op \in {"approve", "bulk"}
    BY <1>5 DEF CommitApprove, CommitBulk, At
  <2>4. row'.status # "submitting"
    BY <2>2, <2>3, FlushedStatus, Unclaimed DEF Holder
  <2>5. CASE Done(r)
    BY <2>4, <2>5, EndsClaiming
  <2>6. CASE Goto(r, next, new, req[r].token)
    <3>1. PICK h : h.op = req[r].op /\ h.pc = next /\ req' = [req EXCEPT ![r] = h]
      BY <1>4, <2>6
    <3> QED
      BY <2>3, <2>4, <3>1, GoesOnClaiming DEF InHand, Holder
  <2> QED
    BY <2>1, <2>5, <2>6 DEF Approve
<1>6. CASE Refresh(r) \/ SkipOffer(r) \/ EnqueueOffer(r)
  <2>1. req[r].pc \in {"refresh", "enqueue"} /\ req[r].op # "submit" /\ ~Holder(req[r]) /\ row' = row
    BY <1>1, <1>6 DEF Refresh, SkipOffer, EnqueueOffer, InHand, Holder
  <2>2. row.status # "submitting"
    BY <2>1, Unclaimed
  <2>3. CASE Done(r)
    BY <2>1, <2>2, <2>3, EndsClaiming
  <2>4. ASSUME NEW pc, NEW new, NEW token, Goto(r, pc, new, token) PROVE Claiming'
    <3>1. PICK h : h.op = req[r].op /\ req' = [req EXCEPT ![r] = h]
      BY <1>4, <2>4
    <3> QED
      BY <2>1, <2>2, <3>1, GoesOnClaiming DEF InHand, Holder
  <2> QED
    BY <1>6, <2>3, <2>4 DEF Refresh, SkipOffer, EnqueueOffer
<1>7. CASE CommitReject(r) \/ CommitMark(r)
  <2>1. PICK new : new \in {[snap EXCEPT !.status = "rejected", !.reviewed = TRUE, !.token = NoToken],
                            [snap EXCEPT !.status = "submitted", !.token = NoToken]}
                   /\ row' = Flush(snap, new)
    BY <1>7 DEF CommitReject, CommitMark
  <2>2. new.status # "submitting"
    BY <1>1, <2>1 DEF Row
  <2> QED
    BY <1>2, <1>7, <2>1, <2>2 DEF CommitReject, CommitMark, At, Holder
<1>8. CASE CommitRevert(r)
  <2>1. PICK k \in DOMAIN snap.versions, newBid \in BOOLEAN :
           row' = Flush(snap, Reverted(snap, snap.versions[k], newBid))
    BY <1>8 DEF CommitRevert
  <2>2. Done(r) /\ ~Holder(req[r]) /\ snap = row
    BY <1>1, <1>8 DEF CommitRevert, At, Holder, Knows
  <2>3. Reverted(snap, snap.versions[k], newBid).status \in {snap.status, "pending_review"}
    BY <1>1 DEF Reverted, Row
  <2> QED
    BY <1>2, <2>1, <2>2, <2>3, Unclaimed
<1>9. CASE Claim(r)
  <2>1. snap = row /\ row.status = "approved"
    BY <1>1, <1>9 DEF Claim, At, Knows
  <2> DEFINE new == [snap EXCEPT !.status = "submitting"]
  <2>2. Goto(r, "dispatch", new, row.token) /\ new.status = "submitting"
    BY <1>1, <1>9, <2>1 DEF Claim, Row
  <2> HIDE DEF new
  <2>3. PICK h : /\ h.op = req[r].op /\ h.pc = "dispatch" /\ h.snap = new
                 /\ req' = [req EXCEPT ![r] = h]
    BY <1>4, <2>2
  <2>4. h.op = "submit"
    BY <1>9, <2>3 DEF Claim, At
  <2> QED
    BY <2>2, <2>3, <2>4, GoesOnClaiming DEF InHand, Holder
<1>10. CASE ClaimLost(r) \/ GenerateFails(r) \/ SendBid(r) \/ Refused(r)
  BY <1>3, <1>10 DEF ClaimLost, GenerateFails, SendBid, Refused, At, Holder
<1>11. CASE PlaceBid(r) \/ EnqueueUpwork(r)
  <2>1. PICK pc \in {"finish", "fail"} : Goto(r, pc, snap, NoToken)
    BY <1>11 DEF PlaceBid, EnqueueUpwork
  <2>2. row' = row /\ req[r].op = "submit" /\ snap.status = "submitting"
    BY <1>1, <1>11 DEF PlaceBid, EnqueueUpwork, At, InHand, Holder
  <2>3. PICK h : h.op = req[r].op /\ h.pc = pc /\ h.snap = snap /\ req' = [req EXCEPT ![r] = h]
    BY <1>4, <2>1
  <2> QED
    BY <2>2, <2>3, GoesOnClaiming DEF InHand, Holder
<1>16. CASE RepeatBid(r) \/ RepeatSend(r)
  <2>1. PICK h : h = [req[r] EXCEPT !.tries = req[r].tries + 1]
    OBVIOUS
  <2>2. req' = [req EXCEPT ![r] = h] /\ row' = row
    BY <1>16, <2>1 DEF RepeatBid, RepeatSend
  <2>3. h.op = req[r].op /\ h.pc = req[r].pc /\ h.snap = snap
    BY <1>1, <2>1 DEF Handler
  <2>4. InHand(h) /\ (Holder(h) <=> Holder(req[r]))
    BY <1>1, <2>3 DEF InHand, Holder
  <2>5. row.status = "submitting" => Holder(h)
    BY <2>4, Unclaimed
  <2> QED
    BY <2>2, <2>4, <2>5, GoesOnClaiming
<1>12. CASE EnqueueAgency(r)
  <2>1. Goto(r, "finish", snap, NoToken) /\ row' = row /\ req[r].op = "agency"
    BY <1>12 DEF EnqueueAgency, At
  <2>2. row.status # "submitting"
    BY <2>1, Unclaimed DEF Holder
  <2>3. PICK h : h.op = req[r].op /\ h.pc = "finish" /\ req' = [req EXCEPT ![r] = h]
    BY <1>4, <2>1
  <2> QED
    BY <2>1, <2>2, <2>3, GoesOnClaiming DEF InHand, Holder
<1>13. CASE Release(r) \/ FailDispatch(r) \/ Finish(r) \/ FailSent(r)
  <2>1. PICK status, token : status # "submitting" /\ SetStatus(r, status, token)
    BY <1>13 DEF Release, FailDispatch, Finish, FailSent
  <2> QED
    BY <2>1, SettlesClaiming
<1>14. CASE CommitGenerate(r)
  <2>1. PICK human, draft, f : row' = Flush(snap, Drafted(snap, human, draft, f))
    BY <1>14 DEF CommitGenerate
  <2>2. Drafted(snap, human, draft, f).status = "pending_review"
    BY <1>1 DEF Drafted, Row
  <2> QED
    BY <1>2, <1>14, <2>1, <2>2 DEF CommitGenerate, At, Holder
<1>15. CASE CommitVerdict(r)
  <2>1. PICK v \in Verdicts : Conclude(r, v)
    BY <1>15 DEF CommitVerdict
  <2>2. CASE SetStatus(r, v, NoToken)
    BY <2>2, SettlesClaiming DEF Verdicts
  <2>3. CASE Done(r) /\ UNCHANGED row
    BY <1>3, <2>1, <2>3 DEF Conclude, At, Holder
  <2> QED
    BY <2>1, <2>2, <2>3 DEF Conclude
<1> QED
  BY <1>5, <1>6, <1>7, <1>8, <1>9, <1>10, <1>11, <1>12, <1>13, <1>14, <1>15, <1>16
     DEF Continue, Proceed, HandOver, AdapterContinue

LEMMA NextClaiming ==
    TypeOK /\ NoOverlap /\ NoOverlap' /\ Judged /\ Claiming /\ [AdapterNext]_vars => Claiming'
<1> SUFFICES ASSUME TypeOK, NoOverlap, NoOverlap', Judged, Claiming, [AdapterNext]_vars
             PROVE  Claiming'
  OBVIOUS
<1>1. ASSUME NEW r \in Requests,
             Arrive(r) \/ Continue(r) \/ AdapterArrive(r) \/ AdapterContinue(r)
      PROVE  Claiming'
  BY <1>1, MoverIsAlone, ArriveClaiming, ContinueClaiming
<1>2. CASE UNCHANGED vars
  BY <1>2 DEF vars, Claiming, ClaimIsHeld, InHand, Holder
<1> QED
  BY <1>1, <1>2 DEF AdapterNext, Next

\* While requests do not overlap, a row is in "submitting" only as long as the
\* handler that claimed it is at work: none of the ways out of submit_proposal
\* leaves the claim behind.
THEOREM ClaimsAreHeld == AdapterSpec /\ []NoOverlap => []ClaimIsHeld
<1>1. Claiming => ClaimIsHeld
  BY DEF Claiming
<1> QED
  BY <1>1, InitClaiming, NextClaiming, JudgedInvariant, AdapterTypeCorrect, PTL DEF AdapterSpec

=============================================================================
