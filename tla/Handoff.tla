------------------------------- MODULE Handoff -------------------------------
(***************************************************************************)
(* One row of the review queue and the browser workers that submit it:     *)
(* ReviewQueue and TaskPool together.  submit_proposal and                 *)
(* _dispatch_fiverr_offer enqueue the task (stealth.py), a worker claims,  *)
(* executes and reports it, and complete_stealth_task (routers/gigs.py)    *)
(* writes the verdict into the row.                                        *)
(*                                                                         *)
(* A task is named by the approval that pays for it, and the handler of    *)
(* worker w's report is the request w.  A task that is skipped because its *)
(* circuit is open never runs and is left out: ReviewQueue's Release and   *)
(* SkipOffer are what it does to the row.                                  *)
(***************************************************************************)
EXTENDS ReviewQueue, TaskPool

ASSUME TasksAssumption   == Tasks = Tokens
ASSUME WorkersAssumption == Workers \subseteq Requests

\* The requests of users, and of the scheduler.
Users == Requests \ Workers

handoffVars == <<vars, poolVars>>

HandoffInit == Init /\ PoolInit

-----------------------------------------------------------------------------
\* A handler that touches no browser task.
UserStep(r) == (Ask(r) \/ Proceed(r)) /\ UNCHANGED poolVars

\* The task is committed; the row follows with the handler's last commit.
EnqueueTask(r) == HandOver(r) /\ Enqueued(req[r].token, "pending")

\* complete_stealth_task has loaded the task (ReadCompletion); it loads the row ...
LoadItem(w) ==
    /\ completion[w] # NoCall
    /\ ReadVerdict(w)
    /\ UNCHANGED poolVars

\* Mutant of SettleRow: the verdict is written whatever the row is by now.
SettleAlways(w) ==
    /\ CommitCompletion(w)
    /\ At(w, "verdict", "commit")
    /\ SetStatus(w, Outcome(completion[w].verdict), NoToken)

\* ... and commits both.
SettleRow(w) ==
    /\ CommitCompletion(w)
    /\ Conclude(w, Outcome(completion[w].verdict))

-----------------------------------------------------------------------------
HandoffNext == \/ \E r \in Users : UserStep(r) \/ EnqueueTask(r)
               \/ PoolStep /\ UNCHANGED vars
               \/ \E w \in Workers : LoadItem(w) \/ SettleRow(w)

HandoffSpec == HandoffInit /\ [][HandoffNext]_handoffVars

-----------------------------------------------------------------------------
(* Properties                                                              *)

\* The row behaves as ReviewQueue says, and the tasks and workers as TaskPool
\* says: what holds of each of them alone holds of the two together.
EachAsSpecified == Spec /\ PoolSpec

\* A submit button is only clicked for an approval of the reviewer, and one
\* that has paid for this task and for nothing else.
ClicksArePaidFor ==
    \A t \in Tasks : Clicked(t) =>
       /\ ledger[t].minted
       /\ Len(ledger[t].sent) = 1
       /\ ledger[t].sent[1].channel = "browser"

\* A row becomes submitted, verified or not, by a bid through the platform's
\* API, by a human's word, or after a worker's click for this very row.
HonestOutcome ==
    [][row'.status # row.status /\ row'.status \in {"submitted", "submitted_unverified"} =>
          \/ platform = "freelancer"
          \/ \E r \in Users : At(r, "mark", "commit") /\ req'[r] = Idle
          \/ \E t \in Tasks : Clicked(t)]_handoffVars

\* Requests of users do not overlap.  (The workers' reports may.)
Calm == \A r, q \in Users : req[r] # Idle /\ req[q] # Idle => r = q

\* A row is handed to the browser once, whatever becomes of the task: claims
\* lost or taken back, verdicts late, repeated or never given.
OneTaskPerRow ==
    \A t, u \in Tasks : task[t].status # "none" /\ task[u].status # "none" => t = u

\* (What the reaper's docstring promises and the code does not keep.)

\* The step that fails a task for good does not leave its row waiting for the
\* browser.
FailureReachesItem ==
    [][\A t \in Tasks : task[t].status # "failed" /\ task'[t].status = "failed" =>
          row'.status # "queued_for_browser"]_handoffVars
=============================================================================
