----------------------------- MODULE Generation -----------------------------
(***************************************************************************)
(* The proposal generation pipeline for one job: the Celery task that      *)
(* drafts a proposal (tasks.py generate_proposal_core, orchestrator.py),   *)
(* the beat that retries failed generations, the reviewer's manual retry,  *)
(* the steps of the review queue that move a row on, and the jobs that     *)
(* archive or delete the job under it.                                     *)
(*                                                                         *)
(* A generation decides on what it loaded, waits for the LLM, and writes   *)
(* its copy back.  Two guards are in the database instead: the partial     *)
(* unique index uq_proposal_queue_live_job, and the foreign key from a row *)
(* to its job; a commit that meets one of them is rolled back.             *)
(*                                                                         *)
(* A failed row carries its retry count in submission_result, a JSON       *)
(* column that every writer replaces whole.  autos and lost are history:   *)
(* the automatic retries since the budget was last granted, and the counts *)
(* that a write from a stale copy took away.  calm chooses, once, whether  *)
(* steps may overlap: in a calm run nothing starts before the last one     *)
(* has ended.                                                              *)
(***************************************************************************)
EXTENDS Naturals, Sequences

CONSTANTS Workers,      \* Celery worker processes
          MaxRetries,   \* GENERATION_MAX_RETRIES
          MaxRows,      \* bound: rows ever queued for the job
          MaxMessages,  \* bound: generation tasks in the broker at once
          MaxAutos      \* bound: automatic retries between two manual ones

ASSUME RetriesAssumption == MaxRetries \in Nat /\ MaxRows \in Nat

VARIABLES job,       \* "listed" (new, notified), "archived" or "deleted"
          rows,      \* its proposal_queue rows, oldest first
          queue,     \* generation tasks waiting in the broker
          task,      \* task[w]: the generation worker w is running
          tick,      \* the generation_retry beat
          manual,    \* the retry_generation request
          recent,    \* the rows are younger than GENERATION_RETRY_WINDOW
          calm, autos, lost

vars == <<job, rows, queue, task, tick, manual, recent, calm, autos, lost>>

\* "submitting" lasts for one request and is folded into "approved".
Statuses == {"generation_failed", "pending_review", "approved", "rejected", "submitted",
             "queued_for_browser", "submitted_unverified", "failed"}

\* Nothing reads the count of a row that has left generation_failed; it is 0.
Row == [status : Statuses, retries : 0 .. MaxRetries]

\* item is the index of the row to regenerate (0: a fresh one), copy the
\* row as it was loaded.
Work == [pc : {"idle", "llm", "count", "enqueue"}, item : 0 .. MaxRows, copy : Row]

Blank == [status |-> "generation_failed", retries |-> 0]
Idle  == [pc |-> "idle", item |-> 0, copy |-> Blank]

\* Settled by the reviewer or by what followed from the reviewer's decision.
Settled == Statuses \ {"generation_failed", "pending_review"}

\* Mutant of Live: the index forgets a status.
LiveIfVerified(row) == row.status \notin {"rejected", "failed", "submitted_unverified"}

\* The rows the unique index covers.
Live(row) == row.status \notin {"rejected", "failed"}

\* The index refuses a commit that leaves two of them.
IndexAllows(rs) == \A i, j \in DOMAIN rs : Live(rs[i]) /\ Live(rs[j]) => i = j

Quiet == tick = Idle /\ manual = Idle /\ \A w \in Workers : task[w] = Idle
MayStart == calm => Quiet

Init ==
    /\ job = "listed" /\ rows = <<>>
    /\ queue \in {0, 1}        \* enqueue_generation_if_eligible: the broker may be down
    /\ task = [w \in Workers |-> Idle] /\ tick = Idle /\ manual = Idle
    /\ recent = TRUE /\ calm \in BOOLEAN /\ autos = 0 /\ lost = 0

-----------------------------------------------------------------------------
(* generate_proposal_core: what the task decides, and what it writes       *)

\* Mutant of FailedRows: a submission that failed is drafted anew as well.
AnyFailure == {i \in DOMAIN rows : rows[i].status \in {"generation_failed", "failed"}}

FailedRows == {i \in DOMAIN rows : rows[i].status = "generation_failed"}

\* The statuses the gates look for; submitted_unverified is not among them.
Queued == {"pending_review", "approved", "submitted", "queued_for_browser",
           "generation_failed"}

\* The job's own gates; the kill switch, the profile match and the filters
\* may refuse as well.
GatesMayPass == job = "listed" /\ \A i \in DOMAIN rows : rows[i].status \notin Queued

\* The newest failed row is regenerated in place, otherwise a row is drafted.
Starts == IF FailedRows # {}
          THEN {CHOOSE i \in FailedRows : \A j \in FailedRows : j <= i}
          ELSE IF GatesMayPass THEN {0} ELSE {}

Take(w) ==
    /\ MayStart /\ queue > 0 /\ task[w] = Idle
    /\ queue' = queue - 1
    /\ UNCHANGED <<job, rows, tick, manual, recent, calm, autos, lost>>

Start(w) ==
    /\ Take(w)
    /\ job = "listed"
    /\ \E i \in Starts :
          task' = [task EXCEPT ![w] = [pc |-> "llm", item |-> i,
                                       copy |-> IF i = 0 THEN Blank ELSE rows[i]]]

\* The job is gone or archived, or a gate refuses.
Refuse(w) ==
    /\ Take(w)
    /\ job # "listed" \/ 0 \in Starts \/ Starts = {}
    /\ UNCHANGED task

\* Celery acknowledges a task when it starts it: a worker that dies loses it.
Crash(w) ==
    /\ task[w].pc = "llm"
    /\ task' = [task EXCEPT ![w] = Idle]
    /\ UNCHANGED <<job, rows, queue, tick, manual, recent, calm, autos, lost>>

\* A count that only a newer copy of the row knew.
Overwritten(copy, old, new) ==
    IF copy.retries # old.retries /\ new.retries < old.retries
    THEN old.retries - new.retries ELSE 0

\* _commit_generation_item: the flush, unless the index or the foreign key
\* refuses it.
Commit(w, new) ==
    LET i  == task[w].item
        rs == IF i = 0 THEN Append(rows, new) ELSE [rows EXCEPT ![i] = new]
        ok == IndexAllows(rs) /\ job # "deleted"
    IN  /\ task[w].pc = "llm"
        /\ i = 0 => Len(rows) < MaxRows
        /\ task' = [task EXCEPT ![w] = Idle]
        /\ rows' = IF ok THEN rs ELSE rows
        /\ IF ok /\ (i = 0 \/ new.status # "generation_failed")
           THEN autos' = 0 /\ lost' = 0
           ELSE /\ UNCHANGED autos
                /\ lost' = lost + IF i = 0 THEN 0 ELSE Overwritten(task[w].copy, rows[i], rows'[i])
        /\ UNCHANGED <<job, queue, tick, manual, recent, calm>>

\* The LLM answered: the row becomes a draft to review, whatever it is by
\* now, and its submission_result starts afresh.
Drafted(w) == Commit(w, [status |-> "pending_review", retries |-> 0])

\* Mutant of ErrorCopy: the error replaces the whole result.
ErrorOnly(copy) == 0

\* {**submission_result, "error": ...} carries the loaded retry count over.
ErrorCopy(copy) == copy.retries

\* The generation failed.  An error text that is already there leaves the
\* column unchanged, and the row is not written at all.
Fails(w) ==
    LET i == task[w].item
    IN  IF i = 0 THEN Commit(w, Blank)
        ELSE Commit(w, [rows[i] EXCEPT !.retries = ErrorCopy(task[w].copy)]) \/ Commit(w, rows[i])

-----------------------------------------------------------------------------
(* generation_retry_tick_core and retry_generation                         *)

\* Mutant of TickLoad: a count of zero reads as no count.
TickFalsyZero ==
    /\ MayStart /\ tick = Idle
    /\ \E i \in FailedRows :
          /\ recent /\ 0 < rows[i].retries /\ rows[i].retries < MaxRetries
          /\ tick' = [pc |-> "enqueue", item |-> i, copy |-> rows[i]]
    /\ UNCHANGED <<job, rows, queue, task, manual, recent, calm, autos, lost>>

TickLoad ==
    /\ MayStart /\ tick = Idle
    /\ \E i \in FailedRows :
          /\ recent /\ rows[i].retries < MaxRetries
          /\ tick' = [pc |-> "enqueue", item |-> i, copy |-> rows[i]]
    /\ UNCHANGED <<job, rows, queue, task, manual, recent, calm, autos, lost>>

\* The retry is enqueued first and counted afterwards.
TickEnqueue ==
    /\ tick.pc = "enqueue" /\ queue < MaxMessages /\ autos < MaxAutos
    /\ queue' = queue + 1 /\ autos' = autos + 1
    /\ tick' = [tick EXCEPT !.pc = "count"]
    /\ UNCHANGED <<job, rows, task, manual, recent, calm, lost>>

\* The broker is down: the row waits for the next tick.
TickBrokerDown ==
    /\ tick.pc = "enqueue"
    /\ tick' = Idle
    /\ UNCHANGED <<job, rows, queue, task, manual, recent, calm, autos, lost>>

\* The count goes into the copy the tick loaded, and the copy into that row,
\* even if the retry will find another one to regenerate.
TickCount ==
    LET i == tick.item
        n == tick.copy.retries + 1
    IN  /\ tick.pc = "count"
        /\ rows' = IF i \in FailedRows THEN [rows EXCEPT ![i].retries = n] ELSE rows
        /\ lost' = lost + IF i \in FailedRows
                          THEN Overwritten(tick.copy, rows[i], [rows[i] EXCEPT !.retries = n])
                          ELSE 1
        /\ tick' = Idle
        /\ UNCHANGED <<job, queue, task, manual, recent, calm, autos>>

\* The beat's process dies between the two.
TickCrash ==
    /\ ~calm /\ tick.pc = "count"
    /\ tick' = Idle /\ lost' = lost + 1
    /\ UNCHANGED <<job, rows, queue, task, manual, recent, calm, autos>>

\* retry_generation grants the budget anew and commits that before it enqueues.
ManualReset ==
    /\ MayStart /\ manual = Idle
    /\ \E i \in FailedRows :
          /\ manual' = [pc |-> "enqueue", item |-> i, copy |-> Blank]
          /\ rows' = [rows EXCEPT ![i].retries = 0]
    /\ autos' = 0 /\ lost' = 0
    /\ UNCHANGED <<job, queue, task, tick, recent, calm>>

\* With the broker down the request answers 503 and leaves it to the beat.
ManualEnqueue ==
    /\ manual.pc = "enqueue"
    /\ \/ queue < MaxMessages /\ queue' = queue + 1
       \/ UNCHANGED queue
    /\ manual' = Idle
    /\ UNCHANGED <<job, rows, task, tick, recent, calm, autos, lost>>

-----------------------------------------------------------------------------
(* The review queue, archiving and retention                               *)

\* approve, reject, revert, submit, mark_submitted and the worker's verdict.
Decisions ==
    {<<"pending_review", "approved">>, <<"pending_review", "rejected">>,
     <<"approved", "pending_review">>, <<"approved", "submitted">>,
     <<"approved", "queued_for_browser">>, <<"approved", "failed">>,
     <<"failed", "submitted">>, <<"queued_for_browser", "submitted">>,
     <<"queued_for_browser", "failed">>, <<"queued_for_browser", "submitted_unverified">>}

\* A row that was given up may come alive again (mark_submitted of a failed
\* one), unless the index refuses.
Decide(i) ==
    /\ MayStart
    /\ \E d \in Decisions :
          LET rs == [rows EXCEPT ![i] = [status |-> d[2], retries |-> 0]]
          IN  rows[i].status = d[1] /\ IndexAllows(rs) /\ rows' = rs
    /\ UNCHANGED <<job, queue, task, tick, manual, recent, calm, autos, lost>>

MoveJob(to) ==
    /\ MayStart
    /\ job' = to
    /\ UNCHANGED <<rows, queue, task, tick, manual, recent, calm, autos, lost>>

\* archive_job and bulk_archive_jobs: the user may, whatever is queued.
Archive   == job # "deleted" /\ MoveJob("archived")
Unarchive == job # "deleted" /\ MoveJob("listed")

\* AUTO_ARCHIVE_EXEMPT_QUEUE_STATUSES
Exempt == {"pending_review", "approved", "queued_for_browser", "submitted_unverified"}

AutoArchive ==
    /\ job = "listed" /\ \A i \in DOMAIN rows : rows[i].status \notin Exempt
    /\ MoveJob("archived")

\* Mutant of Unreferenced: only live rows protect the job.
UnreferencedByLive == \A i \in DOMAIN rows : ~Live(rows[i])

Unreferenced == rows = <<>>

\* retention_tick_core deletes an old archived job that no row refers to.
Retention == job = "archived" /\ Unreferenced /\ MoveJob("deleted")

\* The retry window closes.
Age == /\ MayStart /\ recent /\ rows # <<>> /\ recent' = FALSE
       /\ UNCHANGED <<job, rows, queue, task, tick, manual, calm, autos, lost>>

-----------------------------------------------------------------------------
Finish(w) == Drafted(w) \/ Fails(w)

Beat == TickEnqueue \/ TickCount

Next ==
    \/ \E w \in Workers : Start(w) \/ Refuse(w) \/ Crash(w) \/ Finish(w)
    \/ TickLoad \/ Beat \/ TickBrokerDown \/ TickCrash \/ ManualReset \/ ManualEnqueue
    \/ \E i \in DOMAIN rows : Decide(i)
    \/ Archive \/ Unarchive \/ AutoArchive \/ Retention \/ Age

Spec == Init /\ [][Next]_vars

\* Workers drain the broker, the LLM call ends, requests end, and the beat
\* comes round until the broker takes its message.
Fairness ==
    /\ \A w \in Workers : SF_vars(Start(w) \/ Refuse(w)) /\ WF_vars(Finish(w) \/ Crash(w))
    /\ SF_vars(TickLoad) /\ SF_vars(TickEnqueue) /\ WF_vars(Beat \/ TickBrokerDown)
    /\ WF_vars(ManualEnqueue)

-----------------------------------------------------------------------------
\* Every variable stays in its type.
TypeOK ==
    /\ job \in {"listed", "archived", "deleted"}
    /\ rows \in Seq(Row) /\ Len(rows) <= MaxRows
    /\ queue \in Nat
    /\ task \in [Workers -> Work] /\ tick \in Work /\ manual \in Work
    /\ recent \in BOOLEAN /\ calm \in BOOLEAN
    /\ autos \in Nat /\ lost \in Nat

\* A job never has two live proposals, however its generations race with
\* each other and with a failed row coming alive again.
OneLiveRow == \A i, j \in DOMAIN rows :
    {rows[i].status, rows[j].status} \cap {"rejected", "failed"} = {} => i = j

\* Every automatic retry of a failed row is in its counter, is about to be,
\* or fell to a write from a stale copy: the budget leaks nowhere else.
RetriesCounted ==
    \A i \in FailedRows :
       autos <= rows[i].retries + lost + (IF tick.pc = "count" THEN 1 ELSE 0)

KeepsDecision ==
    \A i \in DOMAIN rows :
       rows[i].status \in Settled /\ rows'[i].status = "pending_review" => task' = task

\* While no step overlaps another, the retry task and the generation leave a
\* decision alone: a row that was decided on goes back to review only by a
\* revert of its approval.
DecisionStandsAlone == [][calm => KeepsDecision]_vars

\* No row loses its job: retention and a generation that is under way when
\* the job is deleted never leave a row behind, nor take one along.
RowsKeepTheirJob == job = "deleted" => rows = <<>>

\* A failed generation is retried until it succeeds or its budget is used,
\* as long as the job is listed, the window open, nothing overlaps, and the
\* reviewer does not grant a new budget.
FailedIsRetried ==
    \A i \in 1 .. MaxRows :
       (calm /\ i \in FailedRows /\ recent /\ job = "listed")
          ~> (i \notin FailedRows \/ rows[i].retries = MaxRetries \/ ~recent
              \/ job # "listed" \/ manual # Idle)
=============================================================================
