------------------------------ MODULE Outcomes ------------------------------
(***************************************************************************)
(* What happens to a proposal once it is sent: the outcome, recorded by    *)
(* the user (routers/proposals.py mark_outcome), by the poll of the        *)
(* Freelancer API (outcome_sync.py) or by results a browser worker scraped *)
(* (proposal_status_sync.py); the template that is credited with it        *)
(* (templates.py record_outcome); and the follow-ups drafted while there   *)
(* is none (follow_up.py, draft_follow_up).  One proposal, its template,   *)
(* and its follow-ups.                                                     *)
(*                                                                         *)
(* Every writer works on the copy of the row it loaded, often before a     *)
(* call that takes minutes, and its session UPDATEs the columns it         *)
(* changed.  submission_result is one JSON column, so its parts -- the bid *)
(* id, the cached interview prep, the outcome's time stamp, a follow-up's  *)
(* parent -- are written back together.                                    *)
(*                                                                         *)
(* Requests of the user (Users) and the background jobs that sync and      *)
(* draft (Beats) overlap.                                                  *)
(***************************************************************************)
EXTENDS Naturals, Sequences

CONSTANTS Users,        \* requests of the user that may overlap
          Beats,        \* sync and follow-up jobs and posts of a worker that may overlap
          Crews,        \* bound: who of them is about in a run
          Platforms,    \* subset of {"freelancer", "upwork"}
          Fates,        \* subset of {"hired", "declined"}: what a platform may decide
          MaxMarks,     \* bound: how often the user records an outcome
          MaxChildren   \* bound: MaxChildren[c], follow-ups drafted when crew c is about

ASSUME CrewsAssumption == Crews \subseteq SUBSET (Users \cup Beats) /\ Users \cap Beats = {}

VARIABLES crew,
          item,       \* the proposal's row
          child,      \* the follow-up rows, oldest first
          tpl,        \* the template: wins, losses, and what win_rate was computed from
          run,        \* run[h]: what handler h is doing, and the copy it loaded
          scrape,     \* the scrape_proposal_status task of the platform
          world,      \* what the platform knows: the bid's fate, the client's answer
          platform,
          history     \* marks, credits by a sync, automatic follow-ups, parents
                      \* lost; whether the API confirmed the bid, whether it did
                      \* under an open request, and whether beats overlapped

vars == <<crew, item, child, tpl, run, scrape, world, platform, history>>

Handlers == Users \cup Beats

\* The parts of submission_result that somebody reads again.
Result == [bid : BOOLEAN, prep : BOOLEAN, stamp : BOOLEAN]
NoResult == [bid |-> FALSE, prep |-> FALSE, stamp |-> FALSE]

\* "ghosted" is a loss like "rejected" and folded into it.
Outcomes == {"pending", "hired", "rejected"}

Item == [status  : {"approved", "submitting", "submitted", "queued_for_browser",
                    "submitted_unverified", "failed"},
         outcome : Outcomes, replied : BOOLEAN, result : Result]

\* A follow-up row ("closed": rejected or sent); parent: submission_result
\* still names the proposal.
Child == [status : {"pending_review", "approved", "closed"}, parent : BOOLEAN]

\* What a handler reads again of the row it loaded.
Copy == [outcome : Outcomes, replied : BOOLEAN, result : Result]

Run == [op : {"none", "mark", "sync", "status", "prep", "draft", "due", "submit"},
        pc : {"idle", "act", "reply"}, copy : Copy]

Fresh == [status |-> "approved", outcome |-> "pending", replied |-> FALSE, result |-> NoResult]
Bid   == [Fresh EXCEPT !.status = "submitted", !.result.bid = TRUE]
Blank == [outcome |-> "pending", replied |-> FALSE, result |-> NoResult]
Idle  == [op |-> "none", pc |-> "idle", copy |-> Blank]

Init ==
    /\ crew \in Crews /\ platform \in Platforms
    /\ item = (IF crew \cap Users = {} /\ platform = "freelancer" THEN Bid ELSE Fresh)
    /\ child = <<>>
    /\ tpl = [wins |-> 0, losses |-> 0, rate |-> <<0, 0>>]
    /\ run = [h \in Handlers |-> Idle]
    /\ scrape = [state |-> "none", bid |-> "open", answered |-> FALSE]
    /\ world = [bid |-> "open", answered |-> FALSE]
    /\ history = [marks |-> 0, syncs |-> 0, autos |-> 0, orphans |-> 0,
                  placed |-> item = Bid, crossed |-> FALSE, rivals |-> FALSE]

Loaded(op) ==
    IF op \in {"submit", "draft", "due"} THEN Blank
    ELSE [outcome |-> item.outcome, result |-> item.result,
          replied |-> item.replied /\ op \in {"sync", "status"}]

Rivals(h) == h \in Beats /\ \E b \in Beats \ {h} : run[b] # Idle

Load(h, op) ==
    /\ h \in crew /\ run[h] = Idle
    /\ run' = [run EXCEPT ![h] = [op |-> op, pc |-> "act", copy |-> Loaded(op)]]
    /\ history' = [history EXCEPT !.rivals = @ \/ Rivals(h)]
    /\ UNCHANGED <<crew, child, tpl, scrape, world, platform>>

At(h, op, pc) == run[h].op = op /\ run[h].pc = pc
End(h) == run' = [run EXCEPT ![h] = Idle]

\* The UPDATE of submission_result: the whole column, if the session changed it.
Merged(copy, new) == IF new = copy.result THEN item.result ELSE new

-----------------------------------------------------------------------------
(* templates.record_outcome                                                *)

\* The increment is done by the database and the rate computed from the
\* refreshed row, under the row lock that the UPDATE took.
Credited(outcome) ==
    LET w == IF outcome = "hired" THEN tpl.wins + 1 ELSE tpl.wins
        l == IF outcome = "hired" THEN tpl.losses ELSE tpl.losses + 1
    IN  [wins |-> w, losses |-> l, rate |-> <<w, l>>]

\* Mutant of Recorded: the outcome column is not written.
RecordedNowhere(copy, outcome) ==
    [item EXCEPT !.result = Merged(copy, [copy.result EXCEPT !.stamp = TRUE])]

\* The row after the commit: the outcome, if the copy held another, and the
\* copy of the result with the first time stamp kept.
Recorded(copy, outcome) ==
    [item EXCEPT !.outcome = IF outcome = copy.outcome THEN @ ELSE outcome,
                 !.result  = Merged(copy, [copy.result EXCEPT !.stamp = TRUE])]

RecordOutcome(h, outcome) ==
    /\ item' = Recorded(run[h].copy, outcome)
    /\ tpl' = Credited(outcome)

\* What the handler's copy holds after that commit: nothing reloads it.
Knows(copy, outcome) == [copy EXCEPT !.outcome = outcome, !.result.stamp = TRUE]

-----------------------------------------------------------------------------
(* The user: mark_outcome, submit, interview_prep                          *)

ReadMark(h) ==
    /\ history.marks < MaxMarks
    /\ Load(h, "mark") /\ UNCHANGED item

\* No status and no earlier outcome stands in the way.
CommitMark(h) ==
    /\ At(h, "mark", "act")
    /\ \E outcome \in Outcomes \ {"pending"} : RecordOutcome(h, outcome)
    /\ history' = [history EXCEPT !.marks = @ + 1]
    /\ End(h)
    /\ UNCHANGED <<crew, child, scrape, world, platform>>

\* submit_proposal claims the row, calls the platform, and commits the
\* answer as a new submission_result.
ClaimSubmit(h) ==
    /\ item.status = "approved"
    /\ Load(h, "submit")
    /\ item' = [item EXCEPT !.status = "submitting"]

\* What is left of a result when the claim is released: on Upwork the record
\* of the agency queue is in its place once the circuit refuses the task.
Released(result) == {result} \cup IF platform = "upwork" THEN {NoResult} ELSE {}

CommitSubmit(h) ==
    /\ At(h, "submit", "act")
    /\ \/ /\ platform = "freelancer"
          /\ item' = [item EXCEPT !.status = "submitted", !.result = [NoResult EXCEPT !.bid = TRUE]]
          /\ history' = [history EXCEPT !.placed = TRUE,
                                        !.crossed = @ \/ \E g \in Users \ {h} : run[g] # Idle]
       \/ /\ platform = "upwork"
          /\ item' = [item EXCEPT !.status = "queued_for_browser", !.result = NoResult]
          /\ UNCHANGED history
       \/ /\ item' = [item EXCEPT !.status = "failed", !.result = NoResult]
          /\ UNCHANGED history
       \/ /\ item' \in {[item EXCEPT !.status = "approved", !.result = r] : r \in Released(item.result)}
          /\ UNCHANGED history
    /\ End(h)
    /\ UNCHANGED <<crew, child, tpl, scrape, world, platform>>

\* The worker's verdict (_apply_submission_outcome) merges into the result.
Verdict(status) ==
    /\ item.status = "queued_for_browser"
    /\ item' = [item EXCEPT !.status = status]
    /\ UNCHANGED <<crew, child, tpl, run, scrape, world, platform, history>>

\* mark_submitted merges as well, and changes nothing else that is modelled.
MarkSubmitted ==
    /\ item.status \in {"approved", "failed"}
    /\ item' = [item EXCEPT !.status = "submitted"]
    /\ UNCHANGED <<crew, child, tpl, run, scrape, world, platform, history>>

\* A cached sheet is returned; otherwise the LLM writes one.
ReadPrep(h) == ~item.result.prep /\ Load(h, "prep") /\ UNCHANGED item

\* Mutant of Prepared: the sheet replaces what was there.
PreparedOnly(result) == [NoResult EXCEPT !.prep = TRUE]

Prepared(result) == [result EXCEPT !.prep = TRUE]

CommitPrep(h) ==
    /\ At(h, "prep", "act")
    /\ item' = [item EXCEPT !.result = Merged(run[h].copy, Prepared(run[h].copy.result))]
    /\ End(h)
    /\ UNCHANGED <<crew, child, tpl, scrape, world, platform, history>>

-----------------------------------------------------------------------------
(* outcome_sync.sync_user_outcomes (Freelancer)                            *)

\* Mutant of Watched: only what still waits for the browser is polled.
WatchedInFlight == {"queued_for_browser"}

Watched == {"submitted", "queued_for_browser"}

\* _BID_OUTCOME_MAP and _STATUS_OUTCOME_MAP
Outcome(bid) == IF bid = "hired" THEN "hired" ELSE "rejected"

\* The proposals that sync_user_outcomes asks the platform about.
Polled == platform = "freelancer" /\ item.status \in Watched

\* The beat's task of the tenant begins.
ReadSync(h) == Polled /\ Load(h, "sync") /\ UNCHANGED item

\* "Never applied twice": judged on the copy that was loaded before the call.
Undecided(copy) == copy.outcome = "pending"

\* get_bid_status has answered.
SyncBid(h) ==
    LET copy == run[h].copy
        due  == copy.result.bid /\ Undecided(copy) /\ world.bid # "open"
        o    == Outcome(world.bid)
    IN  /\ At(h, "sync", "act")
        /\ IF due THEN /\ RecordOutcome(h, o)
                       /\ history' = [history EXCEPT !.syncs = @ + 1]
                  ELSE UNCHANGED <<item, tpl, history>>
        /\ run' = [run EXCEPT ![h].pc = "reply",
                              ![h].copy = IF due THEN Knows(copy, o) ELSE copy]
        /\ UNCHANGED <<crew, child, scrape, world, platform>>

\* _client_reply: without a bidder id, which comes with the bid id, nobody can
\* tell whose the last message is.
ClientReplied(copy) == copy.result.bid /\ world.answered

\* get_threads has answered.
SyncReply(h) ==
    /\ At(h, "sync", "reply")
    /\ item' = [item EXCEPT !.replied = @ \/ (~run[h].copy.replied /\ ClientReplied(run[h].copy))]
    /\ End(h)
    /\ UNCHANGED <<crew, child, tpl, scrape, world, platform, history>>

-----------------------------------------------------------------------------
(* proposal_status_sync (browser platforms) and gigs.ingest_proposal_status *)

\* enqueue_platform_status_scrapes: one read-only task in flight per platform.
Scrapable ==
    /\ platform = "upwork" /\ item.status \in Watched
    /\ scrape.state \in {"none", "done"}

\* The beat's task of the tenant.
EnqueueScrape ==
    /\ Scrapable
    /\ scrape' = [scrape EXCEPT !.state = "open"]
    /\ UNCHANGED <<crew, item, child, tpl, run, world, platform, history>>

\* A worker claims the task and reads the page; after a reap, another does.
ReadPage ==
    /\ scrape.state \in {"open", "read"} /\ \A h \in Handlers : run[h].op # "status"
    /\ scrape' = [state |-> "read", bid |-> world.bid, answered |-> world.answered]
    /\ UNCHANGED <<crew, item, child, tpl, run, world, platform, history>>

\* It posts what it read; "done" is accepted, so it may post again.
ReadStatus(h) == scrape.state \in {"read", "done"} /\ Load(h, "status") /\ UNCHANGED item

CommitStatus(h) ==
    LET copy == run[h].copy
        due  == scrape.bid # "open" /\ Undecided(copy)
        o    == Outcome(scrape.bid)
    IN  /\ At(h, "status", "act")
        /\ IF due THEN /\ RecordOutcome(h, o)
                       /\ history' = [history EXCEPT !.syncs = @ + 1]
                  ELSE UNCHANGED <<item, tpl, history>>
        /\ run' = [run EXCEPT ![h].pc = "reply",
                              ![h].copy = IF due THEN Knows(copy, o) ELSE copy]
        /\ UNCHANGED <<crew, child, scrape, world, platform>>

StatusReply(h) ==
    /\ At(h, "status", "reply")
    /\ item' = [item EXCEPT !.replied = @ \/ (scrape.answered /\ ~run[h].copy.replied)]
    /\ scrape' = [scrape EXCEPT !.state = IF @ = "read" THEN "done" ELSE @]
    /\ End(h)
    /\ UNCHANGED <<crew, child, tpl, world, platform, history>>

\* A failing call, item or process: the session is rolled back.
Abort(h) ==
    /\ run[h].op \in {"sync", "status", "prep", "draft", "due"}
    /\ End(h)
    /\ UNCHANGED <<crew, item, child, tpl, scrape, world, platform, history>>

-----------------------------------------------------------------------------
(* Follow-ups                                                              *)

Named == {i \in DOMAIN child : child[i].parent}

\* draft_follow_up: one follow-up at a time waits for its review.
ReadDraft(h) ==
    /\ item.status \in Watched /\ item.outcome = "pending"
    /\ \A i \in Named : child[i].status \notin {"pending_review", "approved"}
    /\ Load(h, "draft") /\ UNCHANGED item

\* Mutant of Unasked: a follow-up that was decided on does not count.
UnaskedNow == \A i \in Named : child[i].status # "pending_review"

\* _due_items: no child at all, not even a rejected one.
Unasked == Named = {}

Due == item.status = "submitted" /\ item.outcome = "pending" /\ ~item.replied /\ Unasked

\* The beat's task of the tenant begins.
ReadDue(h) == Due /\ Load(h, "due") /\ UNCHANGED item

\* The LLM has answered: the follow-up is inserted without a second look.
InsertFollowUp(h) ==
    /\ run[h].op \in {"draft", "due"} /\ Len(child) < MaxChildren[crew]
    /\ child' = Append(child, [status |-> "pending_review", parent |-> TRUE])
    /\ history' = [history EXCEPT !.autos = @ + IF run[h].op = "due" THEN 1 ELSE 0]
    /\ End(h)
    /\ UNCHANGED <<crew, item, tpl, scrape, world, platform>>

\* The review of a follow-up.  submit_proposal does not ask what kind of row
\* it sends, and replaces the result that names the parent.
ReviewFollowUp(i) ==
    /\ \/ /\ child[i].status = "pending_review"
          /\ \E s \in {"approved", "closed"} : child' = [child EXCEPT ![i].status = s]
          /\ UNCHANGED history
       \/ /\ child[i].status = "approved"
          /\ \/ child' = [child EXCEPT ![i].status = "closed"] /\ UNCHANGED history  \* by hand
             \/ /\ \E s \in {"closed"} \cup IF platform = "upwork" THEN {"approved"} ELSE {} :
                      child' = [child EXCEPT ![i] = [status |-> s, parent |-> FALSE]]
                /\ history' = [history EXCEPT !.orphans = @ + IF child[i].parent THEN 1 ELSE 0]
    /\ UNCHANGED <<crew, item, tpl, run, scrape, world, platform>>

\* The platform's side.
Decide(fate) ==
    /\ item.status \in Watched /\ world.bid = "open"
    /\ world' = [world EXCEPT !.bid = fate]
    /\ UNCHANGED <<crew, item, child, tpl, run, scrape, platform, history>>

Answer ==
    /\ item.status \in Watched /\ ~world.answered
    /\ world' = [world EXCEPT !.answered = TRUE]
    /\ UNCHANGED <<crew, item, child, tpl, run, scrape, platform, history>>

-----------------------------------------------------------------------------
Continue(h) == \/ CommitMark(h) \/ CommitSubmit(h) \/ CommitPrep(h) \/ SyncBid(h)
               \/ SyncReply(h) \/ CommitStatus(h) \/ StatusReply(h) \/ InsertFollowUp(h)

Next ==
    \/ \E h \in Users : ReadMark(h) \/ ClaimSubmit(h) \/ ReadPrep(h) \/ ReadDraft(h)
    \/ \E h \in Beats : ReadSync(h) \/ ReadStatus(h) \/ ReadDue(h)
    \/ \E h \in Handlers : Continue(h) \/ Abort(h)
    \/ \E s \in {"submitted", "failed", "submitted_unverified"} : Verdict(s)
    \/ MarkSubmitted \/ EnqueueScrape \/ ReadPage \/ Answer
    \/ \E i \in DOMAIN child : ReviewFollowUp(i)
    \/ \E fate \in Fates : Decide(fate)

Spec == Init /\ [][Next]_vars

\* Handlers end; the sync and scrape beats come round, and sooner or later
\* the platform answers and the worker reports what is on the page now.
Fairness ==
    /\ \A h \in Handlers : WF_vars(Continue(h) \/ Abort(h))
    /\ \A h \in Beats : /\ SF_vars(ReadSync(h) \/ ReadStatus(h))
                        /\ SF_vars(SyncBid(h) \/ CommitStatus(h))
    /\ WF_vars(EnqueueScrape) /\ SF_vars(ReadPage)

FairSpec == Spec /\ Fairness

-----------------------------------------------------------------------------
\* Every variable stays in its type.
TypeOK ==
    /\ item \in Item /\ child \in Seq(Child) /\ Len(child) <= MaxChildren[crew]
    /\ tpl.wins \in Nat /\ tpl.losses \in Nat /\ tpl.rate \in Nat \X Nat
    /\ run \in [Handlers -> Run]
    /\ scrape \in [state : {"none", "open", "read", "done"},
                    bid : Fates \cup {"open"}, answered : BOOLEAN]
    /\ world \in [bid : Fates \cup {"open"}, answered : BOOLEAN]
    /\ platform \in Platforms
    /\ history \in [marks : Nat, syncs : Nat, autos : Nat, orphans : Nat,
                    placed : BOOLEAN, crossed : BOOLEAN, rivals : BOOLEAN]
    /\ crew \in Crews

\* No credit is lost to a concurrent writer: the template counts every
\* outcome that was recorded, and its rate is computed from the counts.
TemplateCounts ==
    /\ tpl.wins + tpl.losses = history.marks + history.syncs
    /\ tpl.rate = <<tpl.wins, tpl.losses>>

\* However often the poll runs and the worker posts, and whatever the user
\* does meanwhile, they credit the template once for a proposal, unless two of
\* them run at once.
SyncCreditsOnce == ~history.rivals => history.syncs <= 1

\* The automation drafts a follow-up once; again only after a follow-up was
\* dispatched and its row forgot whose follow-up it was, or when two of its
\* runs overlap.
AsksOnce == ~history.rivals => history.autos <= 1 + history.orphans

\* The bid id, which outcome and reply detection depend on, outlives the
\* other writers of submission_result, but for a request of the user that had
\* loaded the row before the bid was confirmed and ends after that.
BidKept == history.placed /\ ~history.crossed => item.result.bid

\* The fate of a bid that was placed through the API, or that a worker
\* confirmed, is found in the end, by beats that run one at a time.
Sent == IF platform = "freelancer" THEN item.result.bid ELSE item.status = "submitted"
OutcomeFound ==
    (crew \cap Beats # {} /\ Sent /\ world.bid # "open")
       ~> (item.outcome # "pending" \/ history.rivals)
=============================================================================
