------------------------------- MODULE TaskPool -------------------------------
(***************************************************************************)
(* The pool of browser workers and their queue: tasks that submit a        *)
(* proposal through a browser (routers/gigs.py, stealth.py), the workers   *)
(* that poll, claim, execute and report them (worker/runner.py,            *)
(* worker/client.py), and the reaper that takes claims back from dead      *)
(* workers (tasks.py).                                                     *)
(*                                                                         *)
(* The reaper and the completion handler run in different processes and    *)
(* write the task by its id alone, so each is a read action and a commit   *)
(* action.  What a verdict does to the review queue is in Handoff.         *)
(***************************************************************************)
EXTENDS Naturals

CONSTANTS Tasks, NoTask,
          Workers, NoWorker,
          Slow,          \* workers that may outlive the claim timeout: the task
                         \* deadline is checked only at pacing checkpoints
          MaxReclaims    \* STEALTH_MAX_RECLAIMS

ASSUME NoTaskAssumption      == NoTask \notin Tasks
ASSUME NoWorkerAssumption    == NoWorker \notin Workers
ASSUME MaxReclaimsAssumption == MaxReclaims \in Nat

VARIABLES task,         \* task[t]: the stealth_tasks row
          expired,      \* tasks whose claimed_at is past the claim timeout
          worker,       \* worker[w]: what the worker process w is doing
          completion,   \* completion[w]: the backend's /complete call for w
          zombies,      \* tasks the reaper has loaded and not yet written
          clicks        \* history: clicks[t][e] counts the submit clicks made
                        \* under claim e of task t

poolVars == <<task, expired, worker, completion, zombies, clicks>>

\* A task is claimed at most once between two reclaims: reclaim_count at the
\* time numbers the claim.
Claims == 0 .. MaxReclaims

Task == [status        : {"none", "pending", "claimed", "done", "failed",
                          "skipped_circuit_open"},
         claimed_by    : Workers \cup {NoWorker},
         reclaim_count : Claims]

\* What a worker reports: the task failed, the click was withheld or refused,
\* its effect is unknown, or it is confirmed.
Reports == {"failed", "refused", "unverified", "submitted"}

Worker == [pc      : {"idle", "working", "clicked", "reporting"},
           task    : Tasks \cup {NoTask},
           claim   : Claims,
           verdict : Reports \cup {"none"}]

Completion == [task : Tasks \cup {NoTask}, verdict : Reports \cup {"none"}]

Absent == [status |-> "none", claimed_by |-> NoWorker, reclaim_count |-> 0]
NoWork == [pc |-> "idle", task |-> NoTask, claim |-> 0, verdict |-> "none"]
NoCall == [task |-> NoTask, verdict |-> "none"]

-----------------------------------------------------------------------------
PoolInit ==
    /\ task = [t \in Tasks |-> Absent]
    /\ expired = {}
    /\ worker = [w \in Workers |-> NoWork]
    /\ completion = [w \in Workers |-> NoCall]
    /\ zombies = {}
    /\ clicks = [t \in Tasks |-> [e \in Claims |-> 0]]

SetTask(t, next)   == task' = [task EXCEPT ![t] = next]
SetWorker(w, next) == worker' = [worker EXCEPT ![w] = next]

-----------------------------------------------------------------------------
(* enqueue_stealth_task                                                    *)

\* The task row is committed before its caller writes the item.
Enqueued(t, status) ==
    /\ SetTask(t, [Absent EXCEPT !.status = status])
    /\ UNCHANGED <<expired, worker, completion, zombies, clicks>>

\* The circuit breaker decides.
Enqueue(t) ==
    /\ task[t].status = "none"
    /\ \E status \in {"pending", "skipped_circuit_open"} : Enqueued(t, status)

-----------------------------------------------------------------------------
(* claim_stealth_task                                                      *)

\* Mutant of Granted: a claimed task can be claimed again.
GrantedTwice(w, t) ==
    /\ task[t].status \in {"pending", "claimed"}
    /\ SetTask(t, [task[t] EXCEPT !.status = "claimed", !.claimed_by = w])
    /\ expired' = expired \ {t}

\* UPDATE ... WHERE status = 'pending'.
Granted(w, t) ==
    /\ task[t].status = "pending"
    /\ SetTask(t, [task[t] EXCEPT !.status = "claimed", !.claimed_by = w])
    /\ expired' = expired \ {t}

ClaimTask(w, t) ==
    /\ worker[w].pc = "idle"
    /\ Granted(w, t)
    /\ SetWorker(w, [pc |-> "working", task |-> t, claim |-> task[t].reclaim_count,
                     verdict |-> "none"])
    /\ UNCHANGED <<completion, zombies, clicks>>

\* The answer is lost; the worker's retry meets its own claim, is told 409
\* and skips the task.
ClaimUnanswered(w, t) ==
    /\ worker[w].pc = "idle"
    /\ Granted(w, t)
    /\ UNCHANGED <<worker, completion, zombies, clicks>>

-----------------------------------------------------------------------------
(* process_task and the submission handlers                                *)

\* The form is filled; the final click is made ...
SubmitClick(w) ==
    /\ worker[w].pc = "working"
    /\ SetWorker(w, [worker[w] EXCEPT !.pc = "clicked"])
    /\ clicks' = [clicks EXCEPT ![worker[w].task][worker[w].claim] = @ + 1]
    /\ UNCHANGED <<task, expired, completion, zombies>>

Report(w, verdict) == SetWorker(w, [worker[w] EXCEPT !.pc = "reporting", !.verdict = verdict])

\* ... or not: a challenge, a dead session, a deadline, drifted selectors
\* fail the task, and manual assist leaves the click to a human.
Stop(w) ==
    /\ worker[w].pc = "working"
    /\ \E v \in {"failed", "refused"} : Report(w, v)
    /\ UNCHANGED <<task, expired, completion, zombies, clicks>>

\* After the click the outcome is confirmed, refused, unknown, or hidden by
\* a challenge.
Judge(w) ==
    /\ worker[w].pc = "clicked"
    /\ \E v \in Reports : Report(w, v)
    /\ UNCHANGED <<task, expired, completion, zombies, clicks>>

\* The worker dies, or each of its attempts to report fails.
Drop(w) ==
    /\ worker[w].pc # "idle"
    /\ SetWorker(w, NoWork)
    /\ UNCHANGED <<task, expired, completion, zombies, clicks>>

-----------------------------------------------------------------------------
(* complete_stealth_task                                                   *)

\* The handler loads the task; 409 unless w is its claimant.
ReadCompletion(w) ==
    LET t == worker[w].task
    IN  /\ worker[w].pc = "reporting"
        /\ completion[w] = NoCall
        /\ IF task[t].status = "claimed" /\ task[t].claimed_by = w
           THEN /\ completion' = [completion EXCEPT ![w] = [task    |-> t,
                                                            verdict |-> worker[w].verdict]]
                /\ UNCHANGED worker
           ELSE /\ SetWorker(w, NoWork)
                /\ UNCHANGED completion
        /\ UNCHANGED <<task, expired, zombies, clicks>>

\* Mutant of Outcome: only the task-level success flag counts.
OutcomeByFlag(verdict) == IF verdict = "failed" THEN "failed" ELSE "submitted"

\* What a report makes of a review-queue item that waits for it.
Outcome(verdict) == CASE verdict \in {"failed", "refused"} -> "failed"
                      [] verdict = "unverified"            -> "submitted_unverified"
                      [] verdict = "submitted"             -> "submitted"

\* The commit, and the answer to the worker if it still waits.
CommitCompletion(w) ==
    LET t == completion[w].task
        v == completion[w].verdict
    IN  /\ completion[w] # NoCall
        /\ SetTask(t, [task[t] EXCEPT !.status = IF v = "failed" THEN "failed" ELSE "done"])
        /\ completion' = [completion EXCEPT ![w] = NoCall]
        /\ IF worker[w].pc = "reporting" /\ worker[w].task = t
           THEN SetWorker(w, NoWork) ELSE UNCHANGED worker
        /\ UNCHANGED <<expired, zombies, clicks>>

-----------------------------------------------------------------------------
(* stealth_reaper_tick_core                                                *)

\* A claim grows old.  A worker that is not slow has finished by then.
Active(w, t) ==
    \/ worker[w].task = t /\ worker[w].claim = task[t].reclaim_count
    \/ completion[w].task = t

\* Mutant of Expire: the claim timeout is shorter than the task deadline.
ExpireEarly(t) ==
    /\ task[t].status = "claimed"
    /\ t \notin expired
    /\ expired' = expired \cup {t}
    /\ UNCHANGED <<task, worker, completion, zombies, clicks>>

Expire(t) ==
    /\ task[t].status = "claimed"
    /\ t \notin expired
    /\ \A w \in Workers : Active(w, t) => w \in Slow
    /\ expired' = expired \cup {t}
    /\ UNCHANGED <<task, worker, completion, zombies, clicks>>

ReadZombies ==
    /\ zombies = {}
    /\ zombies' = {t \in expired : task[t].status = "claimed"}
    /\ zombies' # {}
    /\ UNCHANGED <<task, expired, worker, completion, clicks>>

\* Mutant of Reclaimed: reclaims are not counted.
ReclaimedForever(old) == [old EXCEPT !.status = "pending", !.claimed_by = NoWorker]

\* What the reaper writes over a zombie, whatever the row has become since.
Reclaimed(old) ==
    IF old.reclaim_count < MaxReclaims
    THEN [status |-> "pending", claimed_by |-> NoWorker,
          reclaim_count |-> old.reclaim_count + 1]
    ELSE [old EXCEPT !.status = "failed"]

CommitZombies ==
    /\ zombies # {}
    /\ task' = [t \in Tasks |-> IF t \in zombies THEN Reclaimed(task[t]) ELSE task[t]]
    /\ expired' = expired \ zombies
    /\ zombies' = {}
    /\ UNCHANGED <<worker, completion, clicks>>

-----------------------------------------------------------------------------
Work(w) == SubmitClick(w) \/ Stop(w) \/ Judge(w) \/ Drop(w) \/ ReadCompletion(w)

Take(t) == \E w \in Workers : ClaimTask(w, t) \/ ClaimUnanswered(w, t)

\* The steps between the hand-over of a task and the verdict on it.
PoolStep == \/ \E t \in Tasks : Take(t) \/ Expire(t)
            \/ \E w \in Workers : Work(w)
            \/ ReadZombies \/ CommitZombies

PoolNext == \/ \E t \in Tasks : Enqueue(t)
            \/ PoolStep
            \/ \E w \in Workers : CommitCompletion(w)

PoolSpec == PoolInit /\ [][PoolNext]_poolVars

\* Workers poll and finish what they claimed (each handler has a deadline),
\* handlers end, time passes, and the reaper runs every five minutes.
PoolFairness ==
    /\ \A t \in Tasks : WF_poolVars(Take(t)) /\ WF_poolVars(Expire(t))
    /\ \A w \in Workers : WF_poolVars(Work(w)) /\ WF_poolVars(CommitCompletion(w))
    /\ WF_poolVars(ReadZombies) /\ WF_poolVars(CommitZombies)

-----------------------------------------------------------------------------
(* Properties *)

\* Every variable stays in its type.
PoolTypeOK ==
    /\ task \in [Tasks -> Task]
    /\ expired \subseteq Tasks
    /\ worker \in [Workers -> Worker]
    /\ completion \in [Workers -> Completion]
    /\ zombies \subseteq Tasks
    /\ clicks \in [Tasks -> [Claims -> Nat]]

\* The submit button is clicked at most once per granted claim, and so at
\* most MaxReclaims + 1 times, although claims are lost, taken back from
\* workers that still run, and written over by stale handlers.
OneClickPerClaim == \A t \in Tasks, e \in Claims : clicks[t][e] <= 1

Executing(w, t) == worker[w].pc # "idle" /\ worker[w].task = t

\* Two workers work on one task only if the one with the older claim is slow:
\* a claim is never granted twice, and never taken back from a worker that
\* keeps its deadline.
OverlapOnlyBySlow ==
    \A t \in Tasks : \A v, w \in Workers :
       v # w /\ Executing(v, t) /\ Executing(w, t) =>
          \/ worker[v].claim < worker[w].claim /\ v \in Slow
          \/ worker[w].claim < worker[v].claim /\ w \in Slow

\* Some worker has made the submit click of the task.
Clicked(t) == \E e \in Claims : clicks[t][e] > 0

\* However many workers die, an enqueued task ends for good: the reclaim limit
\* stops a task that kills every worker that takes it.
TasksSettle ==
    \A t \in Tasks : (task[t].status = "pending") ~> [](task[t].status \in {"done", "failed"})

\* (What the comments promise and the code does not keep.)

\* No task is retried once its click may have been made.
NeverRetried == \A t \in Tasks : \A d, e \in Claims : clicks[t][d] > 0 /\ clicks[t][e] > 0 => d = e
=============================================================================
