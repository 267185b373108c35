---------------------------- MODULE HandoffProofs ----------------------------
(***************************************************************************)
(* The pool of browser workers, for any number of tasks, workers and slow  *)
(* workers and any reclaim limit; and the pool and the review queue        *)
(* together.                                                               *)
(***************************************************************************)
EXTENDS Handoff, ReviewQueueProofs

(* The inductive invariant.  reclaim_count numbers the claims of a task, so *)
(* a worker's claim is either the current one or overtaken.                *)

\* A worker holds a task exactly while it is not idle, and a report carries a
\* verdict on a task.
WellFormed ==
    \A w \in Workers :
       /\ worker[w].pc = "idle" <=> worker[w].task = NoTask
       /\ worker[w].pc = "reporting" => worker[w].verdict \in Reports
       /\ completion[w] # NoCall => /\ completion[w].task \in Tasks
                                    /\ completion[w].verdict \in Reports

\* Nobody holds a claim that was not granted yet; a claim is granted when the
\* task leaves "pending".
GrantedOnly ==
    \A t \in Tasks, w \in Workers : worker[w].task = t =>
       /\ worker[w].claim <= task[t].reclaim_count
       /\ task[t].status \notin {"none", "skipped_circuit_open"}
       /\ task[t].status = "pending" => worker[w].claim < task[t].reclaim_count

\* A task that is not there has never been claimed, and nobody reports it.
Known ==
    \A t \in Tasks : task[t].status = "none" =>
       /\ task[t].reclaim_count = 0
       /\ \A w \in Workers : completion[w].task # t

\* No two workers hold the same claim of a task.
OneHolder ==
    \A t \in Tasks : \A v, w \in Workers :
       v # w /\ worker[v].task = t /\ worker[w].task = t => worker[v].claim # worker[w].claim

\* A claim that was not granted yet, or whose holder is still working, was
\* not used to click.
Unclicked ==
    /\ \A t \in Tasks, e \in Claims :
          \/ e > task[t].reclaim_count
          \/ e = task[t].reclaim_count
             /\ task[t].status \in {"none", "pending", "skipped_circuit_open"}
          => clicks[t][e] = 0
    /\ \A t \in Tasks, w \in Workers :
          worker[w].task = t /\ worker[w].pc = "working" => clicks[t][worker[w].claim] = 0

\* An overtaken claim, and a current one that has expired, is in slow hands.
SlowHands ==
    \A t \in Tasks, w \in Workers : worker[w].task = t =>
       \/ w \in Slow
       \/ worker[w].claim = task[t].reclaim_count /\ t \notin expired

\* What the reaper loaded has expired and was granted.
ZombiesExpired ==
    \A t \in zombies : t \in expired /\ task[t].status \in {"claimed", "done", "failed"}

\* Good news about a task is preceded by a click.
GoodNews   == {"submitted", "unverified"}
NewsClicked ==
    \A t \in Tasks, w \in Workers :
       /\ worker[w].task = t /\ (worker[w].pc = "clicked" \/ worker[w].verdict \in GoodNews)
             => Clicked(t)
       /\ completion[w].task = t /\ completion[w].verdict \in GoodNews => Clicked(t)

PoolInv == /\ PoolTypeOK
        /\ WellFormed
        /\ GrantedOnly
        /\ Known
        /\ OneHolder
        /\ Unclicked
        /\ OneClickPerClaim
        /\ SlowHands
        /\ ZombiesExpired
        /\ NewsClicked

-----------------------------------------------------------------------------
(* Types *)

LEMMA PoolInitType == PoolInit => PoolTypeOK /\ WellFormed
  BY NoTaskAssumption, NoWorkerAssumption, MaxReclaimsAssumption
     DEF PoolInit, PoolTypeOK, WellFormed, Absent, NoWork, NoCall, Task, Worker, Completion,
         Claims, Reports

\* A worker that is not idle holds one of the tasks.
LEMMA HeldTask ==
    ASSUME PoolTypeOK, WellFormed, NEW w \in Workers, worker[w].pc # "idle"
    PROVE  worker[w].task \in Tasks
  BY DEF PoolTypeOK, WellFormed, Worker

\* Writing one written, or moving one worker, keeps the types.
LEMMA SetTaskType ==
    ASSUME PoolTypeOK, NEW t \in Tasks, NEW written \in Task, SetTask(t, written)
    PROVE  /\ task' \in [Tasks -> Task]
           /\ task'[t] = written
           /\ \A u \in Tasks : u # t => task'[u] = task[u]
  BY DEF SetTask, PoolTypeOK

LEMMA SetWorkerType ==
    ASSUME PoolTypeOK, NEW w \in Workers, NEW next \in Worker, SetWorker(w, next)
    PROVE  /\ worker' \in [Workers -> Worker]
           /\ worker'[w] = next
           /\ \A v \in Workers : v # w => worker'[v] = worker[v]
  BY DEF SetWorker, PoolTypeOK

LEMMA SetWorkerFormed ==
    ASSUME PoolTypeOK, WellFormed, NEW w \in Workers, NEW next \in Worker, SetWorker(w, next),
           next.pc = "idle" <=> next.task = NoTask,
           next.pc = "reporting" => next.verdict \in Reports,
           UNCHANGED <<task, expired, completion, zombies, clicks>>
    PROVE  PoolTypeOK' /\ WellFormed'
  BY SetWorkerType DEF PoolTypeOK, WellFormed

LEMMA NoWorkType == NoWork \in Worker /\ NoWork.pc = "idle" /\ NoWork.task = NoTask
  BY MaxReclaimsAssumption DEF NoWork, Worker, Claims

\* A claim writes the written and nothing else of the types.
LEMMA GrantedType ==
    ASSUME PoolTypeOK, NEW t \in Tasks, NEW w \in Workers, Granted(w, t)
    PROVE  /\ task' \in [Tasks -> Task]
           /\ expired' \subseteq Tasks
           /\ task'[t] = [task[t] EXCEPT !.status = "claimed", !.claimed_by = w]
           /\ \A u \in Tasks : u # t => task'[u] = task[u]
<1> DEFINE written == [task[t] EXCEPT !.status = "claimed", !.claimed_by = w]
<1>1. task[t] \in Task
  BY DEF PoolTypeOK
<1>2. written \in Task
  BY <1>1 DEF Task
<1>3. SetTask(t, written) /\ expired' \subseteq Tasks
  BY DEF Granted, PoolTypeOK
<1> HIDE DEF written
<1>4. /\ task' \in [Tasks -> Task] /\ task'[t] = written
      /\ \A u \in Tasks : u # t => task'[u] = task[u]
  BY <1>2, <1>3, SetTaskType
<1> QED
  BY <1>3, <1>4 DEF written

LEMMA ClaimTaskType ==
    ASSUME PoolTypeOK, WellFormed, NEW t \in Tasks, NEW w \in Workers, ClaimTask(w, t)
    PROVE  PoolTypeOK' /\ WellFormed'
<1> DEFINE next == [pc |-> "working", task |-> t, claim |-> task[t].reclaim_count, verdict |-> "none"]
<1>1. task[t].reclaim_count \in Claims
  BY DEF PoolTypeOK, Task
<1>2. next \in Worker /\ next.pc = "working" /\ next.task # NoTask
  BY <1>1, NoTaskAssumption DEF Worker
<1>3. SetWorker(w, next) /\ Granted(w, t) /\ UNCHANGED <<completion, zombies, clicks>>
  BY DEF ClaimTask
<1> HIDE DEF next
<1>4. /\ worker' \in [Workers -> Worker] /\ worker'[w] = next
      /\ \A v \in Workers : v # w => worker'[v] = worker[v]
  BY <1>2, <1>3, SetWorkerType
<1>5. task' \in [Tasks -> Task] /\ expired' \subseteq Tasks
  BY <1>3, GrantedType
<1>6. PoolTypeOK'
  BY <1>3, <1>4, <1>5 DEF PoolTypeOK
<1>7. WellFormed'
  BY <1>2, <1>3, <1>4 DEF WellFormed
<1> QED
  BY <1>6, <1>7

LEMMA SubmitClickType ==
    ASSUME PoolTypeOK, WellFormed, NEW w \in Workers, SubmitClick(w)
    PROVE  PoolTypeOK' /\ WellFormed'
<1> DEFINE next == [worker[w] EXCEPT !.pc = "clicked"]
<1>1. worker[w] \in Worker /\ worker[w].task \in Tasks /\ worker[w].claim \in Claims
  BY HeldTask DEF SubmitClick, PoolTypeOK, Worker
<1>2. next \in Worker /\ next.pc = "clicked" /\ next.task # NoTask
  BY <1>1, NoTaskAssumption DEF Worker
<1>3. SetWorker(w, next) /\ UNCHANGED <<task, expired, completion, zombies>>
  BY DEF SubmitClick
<1>4. clicks' \in [Tasks -> [Claims -> Nat]]
  BY <1>1 DEF SubmitClick, PoolTypeOK
<1> HIDE DEF next
<1>5. /\ worker' \in [Workers -> Worker] /\ worker'[w] = next
      /\ \A v \in Workers : v # w => worker'[v] = worker[v]
  BY <1>2, <1>3, SetWorkerType
<1> QED
  BY <1>2, <1>3, <1>4, <1>5 DEF PoolTypeOK, WellFormed

LEMMA ReportType ==
    ASSUME PoolTypeOK, WellFormed, NEW w \in Workers, worker[w].pc # "idle",
           NEW v \in Reports, Report(w, v),
           UNCHANGED <<task, expired, completion, zombies, clicks>>
    PROVE  PoolTypeOK' /\ WellFormed'
<1> DEFINE next == [worker[w] EXCEPT !.pc = "reporting", !.verdict = v]
<1>1. worker[w] \in Worker /\ worker[w].task \in Tasks
  BY HeldTask DEF PoolTypeOK
<1>2. next \in Worker /\ next.pc = "reporting" /\ next.task # NoTask /\ next.verdict \in Reports
  BY <1>1, NoTaskAssumption DEF Worker
<1>3. SetWorker(w, next)
  BY DEF Report
<1> HIDE DEF next
<1> QED
  BY <1>2, <1>3, SetWorkerFormed

\* A new row.
LEMMA EnqueuedType ==
    ASSUME PoolTypeOK, WellFormed, NEW t \in Tasks,
           NEW s \in {"pending", "skipped_circuit_open"}, Enqueued(t, s)
    PROVE  PoolTypeOK' /\ WellFormed'
<1>1. [Absent EXCEPT !.status = s] \in Task
  BY MaxReclaimsAssumption DEF Absent, Task, Claims
<1>2. task' \in [Tasks -> Task]
  BY <1>1, SetTaskType DEF Enqueued
<1> QED
  BY <1>2 DEF Enqueued, PoolTypeOK, WellFormed

LEMMA TypeNext == PoolTypeOK /\ WellFormed /\ [PoolNext]_poolVars => PoolTypeOK' /\ WellFormed'
<1> SUFFICES ASSUME PoolTypeOK, WellFormed, [PoolNext]_poolVars PROVE PoolTypeOK' /\ WellFormed'
  OBVIOUS
<1>1. ASSUME NEW t \in Tasks, Enqueue(t) PROVE PoolTypeOK' /\ WellFormed'
  <2>1. PICK s \in {"pending", "skipped_circuit_open"} : Enqueued(t, s)
    BY <1>1 DEF Enqueue
  <2> QED
    BY <2>1, EnqueuedType
<1>3. ASSUME NEW t \in Tasks, NEW w \in Workers, ClaimUnanswered(w, t) PROVE PoolTypeOK' /\ WellFormed'
  BY <1>3, GrantedType DEF ClaimUnanswered, PoolTypeOK, WellFormed
<1>4. ASSUME NEW w \in Workers, Stop(w) \/ Judge(w) PROVE PoolTypeOK' /\ WellFormed'
  BY <1>4, ReportType DEF Stop, Judge, Reports
<1>5. ASSUME NEW w \in Workers, Drop(w) PROVE PoolTypeOK' /\ WellFormed'
  BY <1>5, NoWorkType, SetWorkerFormed DEF Drop
<1>6. ASSUME NEW w \in Workers, ReadCompletion(w) PROVE PoolTypeOK' /\ WellFormed'
  <2>1. worker[w].task \in Tasks /\ worker[w].verdict \in Reports
    BY <1>6, HeldTask DEF ReadCompletion, WellFormed
  <2> DEFINE call == [task |-> worker[w].task, verdict |-> worker[w].verdict]
  <2>2. CASE completion' = [completion EXCEPT ![w] = call] /\ UNCHANGED worker
    <3>1. call \in Completion /\ call.task \in Tasks /\ call.verdict \in Reports
      BY <2>1 DEF Completion
    <3> HIDE DEF call
    <3>2. /\ completion' \in [Workers -> Completion] /\ completion'[w] = call
          /\ \A v \in Workers : v # w => completion'[v] = completion[v]
      BY <2>2, <3>1 DEF PoolTypeOK
    <3>3. UNCHANGED <<task, expired, worker, zombies, clicks>>
      BY <1>6, <2>2 DEF ReadCompletion
    <3> QED
      BY <3>1, <3>2, <3>3 DEF PoolTypeOK, WellFormed
  <2>3. CASE SetWorker(w, NoWork) /\ UNCHANGED completion
    BY <1>6, <2>3, NoWorkType, SetWorkerFormed DEF ReadCompletion
  <2> QED
    BY <1>6, <2>2, <2>3 DEF ReadCompletion
<1>7. ASSUME NEW w \in Workers, CommitCompletion(w) PROVE PoolTypeOK' /\ WellFormed'
  <2> DEFINE t == completion[w].task
             v == completion[w].verdict
             written == [task[t] EXCEPT !.status = IF v = "failed" THEN "failed" ELSE "done"]
  <2>1. t \in Tasks /\ v \in Reports /\ task[t] \in Task
    BY <1>7 DEF CommitCompletion, WellFormed, PoolTypeOK
  <2>2. written \in Task
    BY <2>1 DEF Task
  <2>3. SetTask(t, written)
    BY <1>7 DEF CommitCompletion
  <2>6. completion' \in [Workers -> Completion] /\ \A u \in Workers : completion'[u] \in {completion[u], NoCall}
    BY <1>7 DEF CommitCompletion, PoolTypeOK, NoCall, Completion
  <2>7. worker' \in [Workers -> Worker] /\ \A u \in Workers : worker'[u] \in {worker[u], NoWork}
    BY <1>7, NoWorkType DEF CommitCompletion, SetWorker, PoolTypeOK
  <2> HIDE DEF written, t, v
  <2>8. task' \in [Tasks -> Task]
    BY <2>1, <2>2, <2>3, SetTaskType
  <2> QED
    BY <1>7, <2>6, <2>7, <2>8, NoWorkType DEF CommitCompletion, PoolTypeOK, WellFormed
<1>8. ASSUME NEW t \in Tasks, Expire(t) PROVE PoolTypeOK' /\ WellFormed'
  BY <1>8 DEF Expire, PoolTypeOK, WellFormed
<1>9. CASE ReadZombies
  BY <1>9 DEF ReadZombies, PoolTypeOK, WellFormed
<1>10. CASE CommitZombies
  <2>1. \A t \in Tasks : task[t] \in Task /\ task[t].reclaim_count \in Claims
    BY DEF PoolTypeOK, Task
  <2>2. \A t \in Tasks : Reclaimed(task[t]) \in Task
    <3> TAKE t \in Tasks
    <3>1. CASE task[t].reclaim_count < MaxReclaims
      BY <2>1, <3>1, MaxReclaimsAssumption DEF Reclaimed, Task, Claims
    <3>2. CASE ~(task[t].reclaim_count < MaxReclaims)
      BY <2>1, <3>2 DEF Reclaimed, Task
    <3> QED
      BY <3>1, <3>2
  <2> QED
    BY <1>10, <2>1, <2>2 DEF CommitZombies, PoolTypeOK, WellFormed
<1>11. CASE UNCHANGED poolVars
  BY <1>11 DEF poolVars, PoolTypeOK, WellFormed
<1> QED
  BY <1>1, <1>3, <1>4, <1>5, <1>6, <1>7, <1>8, <1>9, <1>10, <1>11, ClaimTaskType, SubmitClickType
     DEF PoolNext, PoolStep, Take, Work

\* Every variable stays in its type.
THEOREM PoolTypeCorrect == PoolSpec => []PoolTypeOK
<1>1. PoolTypeOK /\ WellFormed /\ [PoolNext]_poolVars => (PoolTypeOK /\ WellFormed)'
  BY TypeNext
<1> QED
  BY <1>1, PoolInitType, PTL DEF PoolSpec

-----------------------------------------------------------------------------
(* The inductive invariant *)

LEMMA InitPoolInv == PoolInit => PoolInv
<1> SUFFICES ASSUME PoolInit PROVE PoolInv
  OBVIOUS
<1>1. PoolTypeOK /\ WellFormed
  BY PoolInitType
<1>2. \A t \in Tasks : /\ task[t].reclaim_count = 0
                       /\ \A e \in Claims : clicks[t][e] = 0
  BY DEF PoolInit, Absent
<1>3. \A w \in Workers : worker[w].task \notin Tasks /\ completion[w].task \notin Tasks
  BY NoTaskAssumption DEF PoolInit, NoWork, NoCall
<1>4. zombies = {}
  BY DEF PoolInit
<1> QED
  BY <1>1, <1>2, <1>3, <1>4
     DEF PoolInv, GrantedOnly, Known, OneHolder, Unclicked, OneClickPerClaim, SlowHands, ZombiesExpired,
         NewsClicked

\* The part of the invariant about who holds which claim.
Custody == GrantedOnly /\ OneHolder /\ Unclicked /\ OneClickPerClaim /\ SlowHands /\ ZombiesExpired

\* Steps that grant, reclaim and click nothing leave the custody alone:
\* workers go on or let go, and tasks end.
LEMMA QuietCustody ==
    ASSUME PoolTypeOK, PoolTypeOK', Custody, UNCHANGED <<expired, zombies, clicks>>,
           \A t \in Tasks :
              /\ task'[t].reclaim_count = task[t].reclaim_count
              /\ task'[t].status \in {task[t].status, "done", "failed"},
           \A w \in Workers :
              \/ worker'[w].task \notin Tasks
              \/ /\ worker'[w].task = worker[w].task
                 /\ worker'[w].claim = worker[w].claim
                 /\ worker'[w].pc = "working" => worker[w].pc = "working"
    PROVE  Custody'
<1> USE DEF Custody
<1>1. GrantedOnly'
  BY DEF GrantedOnly
<1>2. OneHolder'
  BY DEF OneHolder
<1>3. Unclicked'
  <2>1. \A t \in Tasks, e \in Claims :
          \/ e > task'[t].reclaim_count
          \/ e = task'[t].reclaim_count
             /\ task'[t].status \in {"none", "pending", "skipped_circuit_open"}
          => clicks[t][e] = 0
    BY DEF Unclicked
  <2>2. \A t \in Tasks, w \in Workers :
          worker'[w].task = t /\ worker'[w].pc = "working" => clicks[t][worker'[w].claim] = 0
    BY DEF Unclicked
  <2> QED
    BY <2>1, <2>2 DEF Unclicked
<1>4. OneClickPerClaim'
  BY DEF OneClickPerClaim
<1>5. SlowHands'
  BY DEF SlowHands
<1>6. ZombiesExpired'
  BY DEF ZombiesExpired, PoolTypeOK
<1> QED
  BY <1>1, <1>2, <1>3, <1>4, <1>5, <1>6

\* A task that was not there before.
LEMMA EnqueuedCustody ==
    ASSUME PoolTypeOK, Custody, Known, NEW t \in Tasks, task[t].status = "none",
           NEW s \in {"pending", "skipped_circuit_open"}, Enqueued(t, s)
    PROVE  Custody'
<1> USE DEF Custody
<1>1. SetTask(t, [Absent EXCEPT !.status = s])
  BY DEF Enqueued
<1>2. /\ task[t].status = "none" /\ task[t] \in Task
      /\ UNCHANGED <<expired, worker, zombies, clicks>>
  BY DEF Enqueued, PoolTypeOK
<1>3. task'[t].status = s /\ task'[t].reclaim_count = 0
  BY <1>1, <1>2 DEF SetTask, PoolTypeOK, Absent
<1>4. \A u \in Tasks : u # t => task'[u] = task[u]
  BY <1>1 DEF SetTask, PoolTypeOK
<1>5. \A w \in Workers : worker[w].task # t
  BY <1>2 DEF GrantedOnly
<1>6. t \notin zombies
  BY <1>2 DEF ZombiesExpired
<1>7. GrantedOnly' /\ OneHolder' /\ OneClickPerClaim'
  BY <1>2, <1>4, <1>5 DEF GrantedOnly, OneHolder, OneClickPerClaim
<1>8. Unclicked'
  <2>1. task[t].reclaim_count = 0 /\ Claims \subseteq Nat
    BY <1>2, MaxReclaimsAssumption DEF Known, Claims
  <2>2. \A e \in Claims : clicks[t][e] = 0
    BY <1>2, <2>1 DEF Unclicked, Claims
  <2> QED
    BY <1>2, <1>4, <1>5, <2>2 DEF Unclicked
<1>9. SlowHands' /\ ZombiesExpired'
  BY <1>2, <1>4, <1>5, <1>6 DEF SlowHands, ZombiesExpired, PoolTypeOK
<1> QED
  BY <1>7, <1>8, <1>9

\* What a granted claim leaves, whether its answer arrives or not.
LEMMA GrantedCustody ==
    ASSUME PoolTypeOK, Custody, NEW t \in Tasks, NEW w \in Workers, Granted(w, t)
    PROVE  /\ task[t].status = "pending"
           /\ task'[t].status = "claimed" /\ task'[t].reclaim_count = task[t].reclaim_count
           /\ \A u \in Tasks : u # t => task'[u] = task[u]
           /\ expired' = expired \ {t}
           /\ t \notin zombies
           /\ \A v \in Workers : worker[v].task = t => worker[v].claim < task[t].reclaim_count
           /\ clicks[t][task[t].reclaim_count] = 0
<1>1. task[t].status = "pending" /\ expired' = expired \ {t} /\ task[t] \in Task
  BY DEF Granted, PoolTypeOK
<1>2. task[t].reclaim_count \in Claims
  BY <1>1 DEF Task
<1>3. task'[t] = [task[t] EXCEPT !.status = "claimed", !.claimed_by = w]
      /\ \A u \in Tasks : u # t => task'[u] = task[u]
  BY GrantedType
<1>4. task'[t].status = "claimed" /\ task'[t].reclaim_count = task[t].reclaim_count
  BY <1>1, <1>3 DEF Task
<1>5. t \notin zombies
  BY <1>1 DEF Custody, ZombiesExpired
<1>6. \A v \in Workers : worker[v].task = t => worker[v].claim < task[t].reclaim_count
  BY <1>1 DEF Custody, GrantedOnly
<1>7. clicks[t][task[t].reclaim_count] = 0
  BY <1>1, <1>2 DEF Custody, Unclicked
<1> QED
  BY <1>1, <1>3, <1>4, <1>5, <1>6, <1>7

LEMMA ClaimCustody ==
    ASSUME PoolTypeOK, PoolTypeOK', Custody, NEW t \in Tasks, NEW w \in Workers,
           ClaimTask(w, t) \/ ClaimUnanswered(w, t), WellFormed
    PROVE  Custody'
<1> USE DEF Custody
<1>1. Granted(w, t) /\ UNCHANGED <<zombies, clicks>>
  BY DEF ClaimTask, ClaimUnanswered
<1> DEFINE k == task[t].reclaim_count
<1>2. k \in Claims /\ \A v \in Workers : worker[v].claim \in Claims
  BY DEF PoolTypeOK, Task, Worker
<1>3. \A v \in Workers :
        \/ worker'[v] = worker[v]
        \/ v = w /\ worker'[v].task = t /\ worker'[v].claim = k
  BY DEF ClaimTask, ClaimUnanswered, SetWorker, PoolTypeOK
<1>4. \A v \in Workers : worker'[v].task = t /\ worker'[v].claim = k => v = w
  BY <1>1, <1>2, <1>3, GrantedCustody DEF Claims
<1>5. GrantedOnly'
  BY <1>1, <1>2, <1>3, GrantedCustody DEF GrantedOnly, Claims
<1>6. OneHolder'
  BY <1>3, <1>4 DEF OneHolder
<1>7. Unclicked'
  <2>1. \A u \in Tasks, e \in Claims :
          \/ e > task'[u].reclaim_count
          \/ e = task'[u].reclaim_count
             /\ task'[u].status \in {"none", "pending", "skipped_circuit_open"}
          => clicks[u][e] = 0
    BY <1>1, GrantedCustody DEF Unclicked
  <2>2. \A u \in Tasks, v \in Workers :
          worker'[v].task = u /\ worker'[v].pc = "working" => clicks[u][worker'[v].claim] = 0
    BY <1>1, <1>3, GrantedCustody DEF Unclicked
  <2> QED
    BY <1>1, <2>1, <2>2 DEF Unclicked
<1>8. OneClickPerClaim'
  BY <1>1 DEF OneClickPerClaim
<1>9. SlowHands'
  BY <1>1, <1>3, GrantedCustody DEF SlowHands
<1>10. ZombiesExpired'
  BY <1>1, GrantedCustody DEF ZombiesExpired, PoolTypeOK
<1> QED
  BY <1>5, <1>6, <1>7, <1>8, <1>9, <1>10

LEMMA ClickCustody ==
    ASSUME PoolTypeOK, WellFormed, Custody, NEW w \in Workers, SubmitClick(w)
    PROVE  Custody'
<1> USE DEF Custody
<1> DEFINE t == worker[w].task
           k == worker[w].claim
<1>1. t \in Tasks /\ k \in Claims /\ worker[w].pc = "working"
  BY HeldTask DEF SubmitClick, PoolTypeOK, Worker
<1>2. UNCHANGED <<task, expired, zombies>>
  BY DEF SubmitClick
<1>3. /\ worker'[w].pc = "clicked" /\ worker'[w].task = t /\ worker'[w].claim = k
      /\ \A v \in Workers : v # w => worker'[v] = worker[v]
  BY DEF SubmitClick, SetWorker, PoolTypeOK, Worker
<1>4. /\ clicks[t][k] = 0 /\ clicks'[t][k] = 1
      /\ \A u \in Tasks, e \in Claims : u # t \/ e # k => clicks'[u][e] = clicks[u][e]
  BY <1>1 DEF SubmitClick, PoolTypeOK, Unclicked
<1>5. k <= task[t].reclaim_count
      /\ task[t].status \notin {"none", "skipped_circuit_open"}
      /\ (task[t].status = "pending" => k < task[t].reclaim_count)
  BY <1>1 DEF GrantedOnly
<1>6. \A v \in Workers : worker[v].claim \in Claims
  BY DEF PoolTypeOK, Worker
<1>7. \A u \in Tasks : task[u].reclaim_count \in Claims
  BY DEF PoolTypeOK, Task
<1>8. \A v \in Workers : worker'[v].task = worker[v].task /\ worker'[v].claim = worker[v].claim
  BY <1>3
<1>9. GrantedOnly' /\ OneHolder' /\ SlowHands' /\ ZombiesExpired'
  BY <1>2, <1>8 DEF GrantedOnly, OneHolder, SlowHands, ZombiesExpired
<1>10. OneClickPerClaim'
  BY <1>4 DEF OneClickPerClaim
<1>11. Unclicked'
  <2>1. \A u \in Tasks, e \in Claims :
          \/ e > task[u].reclaim_count
          \/ e = task[u].reclaim_count
             /\ task[u].status \in {"none", "pending", "skipped_circuit_open"}
          => clicks'[u][e] = 0
    BY <1>1, <1>4, <1>5, <1>7 DEF Unclicked, Claims
  <2>2. \A v \in Workers, u \in Tasks :
          worker'[v].task = u /\ worker'[v].pc = "working" => clicks'[u][worker'[v].claim] = 0
    BY <1>1, <1>3, <1>4, <1>6 DEF Unclicked, OneHolder
  <2> QED
    BY <1>2, <2>1, <2>2 DEF Unclicked
<1> QED
  BY <1>9, <1>10, <1>11

LEMMA ExpireCustody ==
    ASSUME PoolTypeOK, Custody, NEW t \in Tasks, Expire(t)
    PROVE  Custody'
<1> USE DEF Custody
<1>1. /\ expired' = expired \cup {t}
      /\ UNCHANGED <<task, worker, zombies, clicks>>
      /\ \A w \in Workers : worker[w].task = t /\ worker[w].claim = task[t].reclaim_count => w \in Slow
  BY DEF Expire, Active
<1> QED
  BY <1>1 DEF GrantedOnly, OneHolder, Unclicked, OneClickPerClaim, SlowHands, ZombiesExpired

LEMMA ReadZombiesCustody == ASSUME PoolTypeOK, Custody, ReadZombies PROVE Custody'
<1> USE DEF Custody
<1>1. ZombiesExpired'
  BY DEF ReadZombies, ZombiesExpired
<1> QED
  BY <1>1 DEF ReadZombies, GrantedOnly, OneHolder, Unclicked, OneClickPerClaim, SlowHands

LEMMA CommitZombiesCustody == ASSUME PoolTypeOK, Custody, CommitZombies PROVE Custody'
<1> USE DEF Custody
<1>1. UNCHANGED <<worker, clicks>> /\ expired' = expired \ zombies /\ zombies' = {}
  BY DEF CommitZombies
<1>2. \A t \in Tasks : t \notin zombies => task'[t] = task[t]
  BY DEF CommitZombies
<1>3. \A t \in Tasks : task[t].reclaim_count \in Claims
  BY DEF PoolTypeOK, Task
<1>4. \A w \in Workers : worker[w].claim \in Claims
  BY DEF PoolTypeOK, Worker
<1>5. \A t \in zombies : t \in expired /\ t \in Tasks /\ task[t].status \in {"claimed", "done", "failed"}
  BY DEF ZombiesExpired, PoolTypeOK
<1>6. \A t \in zombies :
        \/ task'[t].status = "pending" /\ task'[t].reclaim_count = task[t].reclaim_count + 1
        \/ task'[t].status = "failed" /\ task'[t].reclaim_count = task[t].reclaim_count
  <2> TAKE t \in zombies
  <2>1. task'[t] = Reclaimed(task[t]) /\ task[t] \in Task
    BY <1>5 DEF CommitZombies, PoolTypeOK
  <2> QED
    BY <2>1 DEF Reclaimed, Task
<1>7. \A t \in Tasks, w \in Workers : worker[w].task = t /\ t \in zombies => w \in Slow
  BY <1>5 DEF SlowHands
<1>8. GrantedOnly'
  BY <1>1, <1>2, <1>3, <1>4, <1>6 DEF GrantedOnly, Claims
<1>9. Unclicked'
  BY <1>1, <1>2, <1>3, <1>6 DEF Unclicked, Claims
<1>10. SlowHands'
  BY <1>1, <1>2, <1>7 DEF SlowHands
<1>11. OneHolder' /\ OneClickPerClaim' /\ ZombiesExpired'
  BY <1>1 DEF OneHolder, OneClickPerClaim, ZombiesExpired
<1> QED
  BY <1>8, <1>9, <1>10, <1>11

\* Custody, action by action.
LEMMA CustodyNext ==
    ASSUME PoolTypeOK, WellFormed, Known, Custody, PoolTypeOK', [PoolNext]_poolVars
    PROVE  Custody'
<1>1. ASSUME NEW t \in Tasks, Enqueue(t) PROVE Custody'
  BY <1>1, EnqueuedCustody DEF Enqueue
<1>2. ASSUME NEW w \in Workers, Stop(w) \/ Judge(w) \/ Drop(w) \/ ReadCompletion(w) PROVE Custody'
  <2>1. UNCHANGED <<task, expired, zombies, clicks>>
    BY <1>2 DEF Stop, Judge, Drop, ReadCompletion
  <2>2. \A v \in Workers :
          \/ worker'[v].task \notin Tasks
          \/ /\ worker'[v].task = worker[v].task
             /\ worker'[v].claim = worker[v].claim
             /\ worker'[v].pc = "working" => worker[v].pc = "working"
    <3>1. CASE \E verdict \in Reports : Report(w, verdict)
      BY <3>1 DEF Report, SetWorker, PoolTypeOK, Worker
    <3>2. CASE SetWorker(w, NoWork)
      BY <3>2, NoWorkType, NoTaskAssumption DEF SetWorker, PoolTypeOK
    <3>3. CASE UNCHANGED worker
      BY <3>3
    <3> QED
      BY <1>2, <3>1, <3>2, <3>3 DEF Stop, Judge, Drop, ReadCompletion, Reports
  <2> QED
    BY <2>1, <2>2, QuietCustody
<1>3. ASSUME NEW w \in Workers, CommitCompletion(w) PROVE Custody'
  <2>1. \A u \in Tasks : /\ task'[u].reclaim_count = task[u].reclaim_count
                         /\ task'[u].status \in {task[u].status, "done", "failed"}
    BY <1>3 DEF CommitCompletion, SetTask, PoolTypeOK, Task
  <2>2. \A v \in Workers : worker'[v].task \notin Tasks \/ worker'[v] = worker[v]
    BY <1>3, NoWorkType, NoTaskAssumption DEF CommitCompletion, SetWorker, PoolTypeOK
  <2>3. UNCHANGED <<expired, zombies, clicks>>
    BY <1>3 DEF CommitCompletion
  <2> QED
    BY <2>1, <2>2, <2>3, QuietCustody
<1>4. CASE UNCHANGED poolVars
  BY <1>4, QuietCustody DEF poolVars
<1> QED
  BY <1>1, <1>2, <1>3, <1>4, ClaimCustody, ClickCustody, ExpireCustody,
     ReadZombiesCustody, CommitZombiesCustody DEF PoolNext, PoolStep, Take, Work

\* A task that is there stays, and only tasks that are there are reported.
LEMMA KnownNext ==
    ASSUME PoolTypeOK, WellFormed, GrantedOnly, ZombiesExpired, Known, [PoolNext]_poolVars
    PROVE  Known'
<1> SUFFICES ASSUME NEW t \in Tasks, task'[t].status = "none"
             PROVE  task'[t].reclaim_count = 0 /\ \A w \in Workers : completion'[w].task # t
  BY DEF Known
<1>0. task[t] \in Task /\ NoCall.task # t
  BY NoTaskAssumption DEF PoolTypeOK, NoCall
<1>1. CASE UNCHANGED <<task, completion>>
  BY <1>1 DEF Known
<1>2. ASSUME NEW u \in Tasks, Enqueue(u) PROVE UNCHANGED completion /\ task'[t] = task[t]
  BY <1>2 DEF Enqueue, Enqueued, SetTask, Absent, PoolTypeOK
<1>3. ASSUME NEW w \in Workers, NEW u \in Tasks, Granted(w, u) PROVE task'[t] = task[t]
  BY <1>3, GrantedType DEF PoolTypeOK, Task
<1>4. ASSUME NEW w \in Workers, ReadCompletion(w)
      PROVE  task' = task /\ \A v \in Workers : completion'[v].task # t
  <2>1. worker[w].task # t /\ task' = task
    BY <1>4 DEF ReadCompletion, GrantedOnly
  <2>2. \A v \in Workers : completion[v].task # t
    BY <2>1 DEF Known
  <2> QED
    BY <1>4, <2>1, <2>2 DEF ReadCompletion, PoolTypeOK
<1>5. ASSUME NEW w \in Workers, CommitCompletion(w)
      PROVE  task'[t] = task[t] /\ \A v \in Workers : completion'[v] \in {completion[v], NoCall}
  <2>1. task[completion[w].task] \in Task /\ completion[w].task \in Tasks
    BY <1>5 DEF CommitCompletion, WellFormed, PoolTypeOK
  <2> QED
    BY <1>5, <2>1 DEF CommitCompletion, SetTask, PoolTypeOK, Task
<1>6. CASE CommitZombies
  <2>1. t \in zombies => Reclaimed(task[t]).status # "none"
    BY <1>0 DEF Reclaimed, Task
  <2>2. UNCHANGED completion /\ task'[t] = task[t]
    BY <1>6, <2>1 DEF CommitZombies
  <2> QED
    BY <2>2 DEF Known
<1>7. CASE PoolNext
  <2>1. ASSUME NEW w \in Workers, NEW u \in Tasks, ClaimTask(w, u) \/ ClaimUnanswered(w, u)
        PROVE  UNCHANGED completion /\ task'[t] = task[t]
    BY <1>3, <2>1 DEF ClaimTask, ClaimUnanswered
  <2> QED
    BY <1>0, <1>1, <1>2, <1>4, <1>5, <1>6, <1>7, <2>1
       DEF Known, PoolNext, PoolStep, Take, Work, SubmitClick, Stop, Judge, Drop, Expire, ReadZombies
<1> QED
  BY <1>1, <1>7 DEF poolVars

\* A click, once made, stays made.
LEMMA ClickedStays ==
    ASSUME PoolTypeOK, WellFormed, [PoolNext]_poolVars, NEW t \in Tasks, Clicked(t)
    PROVE  Clicked(t)'
<1>1. CASE UNCHANGED clicks
  BY <1>1 DEF Clicked
<1>2. ASSUME NEW w \in Workers, SubmitClick(w) PROVE Clicked(t)'
  BY <1>2, HeldTask DEF SubmitClick, Clicked, PoolTypeOK, Worker
<1> QED
  BY <1>1, <1>2 DEF PoolNext, PoolStep, poolVars, Take, Work, Enqueue, Enqueued, ClaimTask, ClaimUnanswered, Stop, Judge,
     Drop, ReadCompletion, CommitCompletion, Expire, ReadZombies, CommitZombies

\* The news a worker or a handler carries, and where it came from.
LEMMA NewsNext ==
    ASSUME PoolTypeOK, WellFormed, NewsClicked, [PoolNext]_poolVars
    PROVE  NewsClicked'
<1> SUFFICES ASSUME NEW t \in Tasks, NEW w \in Workers, ~Clicked(t)'
             PROVE  /\ worker'[w].task = t => /\ worker'[w].pc # "clicked"
                                              /\ worker'[w].verdict \notin GoodNews
                    /\ completion'[w].task = t => completion'[w].verdict \notin GoodNews
  BY DEF NewsClicked
<1> DEFINE Quiet(x, y) ==
             /\ x[w].task = t => x[w].pc # "clicked" /\ x[w].verdict \notin GoodNews
             /\ y[w].task = t => y[w].verdict \notin GoodNews
<1>1. ~Clicked(t)
  BY ClickedStays
<1>2. /\ worker[w].task = t => worker[w].pc # "clicked" /\ worker[w].verdict \notin GoodNews
      /\ completion[w].task = t => completion[w].verdict \notin GoodNews
  BY <1>1 DEF NewsClicked
<1>3. NoWork.task # t /\ NoCall.task # t
  BY NoTaskAssumption DEF NoWork, NoCall
<1>4. CASE UNCHANGED <<worker, completion>>
  BY <1>2, <1>4
<1>5. ASSUME NEW v \in Workers, NEW u \in Tasks, ClaimTask(v, u)
      PROVE  Quiet(worker', completion')
  BY <1>2, <1>5 DEF ClaimTask, SetWorker, PoolTypeOK, GoodNews
<1>6. ASSUME NEW v \in Workers, SubmitClick(v)
      PROVE  Quiet(worker', completion')
  <2>1. worker[v].task \in Tasks /\ worker[v].claim \in Claims
    BY <1>6, HeldTask DEF SubmitClick, PoolTypeOK, Worker
  <2>2. clicks'[worker[v].task][worker[v].claim] > 0
    BY <1>6, <2>1 DEF SubmitClick, PoolTypeOK
  <2>3. worker[v].task # t
    BY <2>1, <2>2 DEF Clicked
  <2> QED
    BY <1>2, <1>6, <2>3 DEF SubmitClick, SetWorker, PoolTypeOK, Worker
<1>7. ASSUME NEW v \in Workers, Stop(v)
      PROVE  Quiet(worker', completion')
  BY <1>2, <1>7 DEF Stop, Report, SetWorker, PoolTypeOK, Worker, GoodNews
<1>8. ASSUME NEW v \in Workers, Judge(v)
      PROVE  Quiet(worker', completion')
  <2>1. worker[v].task # t
    BY <1>1, <1>8 DEF Judge, NewsClicked
  <2> QED
    BY <1>2, <1>8, <2>1 DEF Judge, Report, SetWorker, PoolTypeOK, Worker
<1>9. ASSUME NEW v \in Workers, Drop(v)
      PROVE  Quiet(worker', completion')
  BY <1>2, <1>3, <1>9 DEF Drop, SetWorker, PoolTypeOK
<1>10. ASSUME NEW v \in Workers, ReadCompletion(v)
       PROVE  Quiet(worker', completion')
  <2>1. worker[v].task = t => worker[v].verdict \notin GoodNews
    BY <1>1 DEF NewsClicked
  <2>2. worker'[w] \in {worker[w], NoWork}
    BY <1>10 DEF ReadCompletion, SetWorker, PoolTypeOK
  <2>3. worker'[w].task = t => worker'[w].pc # "clicked" /\ worker'[w].verdict \notin GoodNews
    BY <1>2, <1>3, <2>2
  <2>4. CASE UNCHANGED completion
    BY <1>2, <2>3, <2>4
  <2>5. CASE completion' = [completion EXCEPT ![v] = [task    |-> worker[v].task,
                                                      verdict |-> worker[v].verdict]]
    <3>1. CASE v = w
      BY <2>1, <2>3, <2>5, <3>1 DEF PoolTypeOK
    <3>2. CASE v # w
      BY <1>2, <2>3, <2>5, <3>2 DEF PoolTypeOK
    <3> QED
      BY <3>1, <3>2
  <2> QED
    BY <1>10, <2>4, <2>5 DEF ReadCompletion
<1>11. ASSUME NEW v \in Workers, CommitCompletion(v)
       PROVE  Quiet(worker', completion')
  BY <1>2, <1>3, <1>11 DEF CommitCompletion, SetWorker, PoolTypeOK
<1>12. CASE PoolNext
  BY <1>4, <1>5, <1>6, <1>7, <1>8, <1>9, <1>10, <1>11, <1>12
     DEF PoolNext, PoolStep, Take, Work, Enqueue, Enqueued, ClaimUnanswered, Expire, ReadZombies, CommitZombies
<1> QED
  BY <1>4, <1>12 DEF poolVars

-----------------------------------------------------------------------------
(* Theorems *)

LEMMA PoolInvNext == PoolInv /\ [PoolNext]_poolVars => PoolInv'
<1> SUFFICES ASSUME PoolInv, [PoolNext]_poolVars PROVE PoolInv'
  OBVIOUS
<1>1. PoolTypeOK' /\ WellFormed'
  BY TypeNext DEF PoolInv
<1>2. Custody'
  BY <1>1, CustodyNext DEF PoolInv, Custody
<1>3. NewsClicked' /\ Known'
  BY NewsNext, KnownNext DEF PoolInv
<1> QED
  BY <1>1, <1>2, <1>3 DEF PoolInv, Custody

\* Every reachable state satisfies the inductive invariant.
THEOREM PoolInvariance == PoolSpec => []PoolInv
BY PoolInvNext, InitPoolInv, PTL DEF PoolSpec

\* A granted claim is clicked at most once, whatever is lost, overtaken or
\* written over.
THEOREM ClicksBounded == PoolSpec => []OneClickPerClaim
<1>1. PoolInv => OneClickPerClaim
  BY DEF PoolInv
<1> QED
  BY <1>1, PoolInvariance, PTL

\* Two workers meet on a task only when the older claim is in slow hands.
THEOREM OverlapNeedsSlow == PoolSpec => []OverlapOnlyBySlow
<1>1. ASSUME PoolInv, NEW t \in Tasks, NEW v \in Workers, NEW w \in Workers, v # w,
             Executing(v, t), Executing(w, t), worker[v].claim < worker[w].claim
      PROVE  v \in Slow
  <2>1. worker[v].task = t /\ worker[w].task = t
    BY <1>1 DEF Executing
  <2>2. /\ task[t].reclaim_count \in Claims
        /\ worker[v].claim \in Claims /\ worker[w].claim \in Claims
    BY <1>1 DEF PoolInv, PoolTypeOK, Task, Worker
  <2>3. worker[w].claim <= task[t].reclaim_count
    BY <1>1, <2>1 DEF PoolInv, GrantedOnly
  <2>4. worker[v].claim # task[t].reclaim_count
    BY <1>1, <2>2, <2>3 DEF Claims
  <2> QED
    BY <1>1, <2>1, <2>4 DEF PoolInv, SlowHands
<1>2. PoolInv => OverlapOnlyBySlow
  <2> SUFFICES ASSUME PoolInv, NEW t \in Tasks, NEW v \in Workers, NEW w \in Workers, v # w,
                      Executing(v, t), Executing(w, t)
               PROVE  \/ worker[v].claim < worker[w].claim /\ v \in Slow
                      \/ worker[w].claim < worker[v].claim /\ w \in Slow
    BY DEF OverlapOnlyBySlow
  <2>1. worker[v].claim # worker[w].claim
    BY DEF PoolInv, OneHolder, Executing
  <2>2. worker[v].claim \in Claims /\ worker[w].claim \in Claims
    BY DEF PoolInv, PoolTypeOK, Worker
  <2>3. worker[v].claim < worker[w].claim \/ worker[w].claim < worker[v].claim
    BY <2>1, <2>2 DEF Claims
  <2> QED
    BY <1>1, <2>3
<1> QED
  BY <1>2, PoolInvariance, PTL

-----------------------------------------------------------------------------
(* Handoff: the queue and the pool together.                               *)

Present(t) == task[t].status # "none"

\* A task was paid for by an approval that has paid for nothing else.
TaskPaid ==
    \A t \in Tasks : Present(t) =>
       /\ ledger[t].minted
       /\ Len(ledger[t].sent) = 1
       /\ ledger[t].sent[1].channel = "browser"

HInv == TypeOK /\ Safe /\ PoolInv /\ TaskPaid

LEMMA OutcomeType == ASSUME NEW v \in Reports PROVE Outcome(v) \in {"failed", "submitted_unverified", "submitted"}
BY DEF Outcome, Reports

\* What a user sees of the queue is a step of the queue, and a verdict is one
\* that the queue expects.
LEMMA HandoffQueueStep ==
    ASSUME WellFormed, [HandoffNext]_handoffVars
    PROVE  [Next]_vars
<1>1. ASSUME NEW r \in Users, UserStep(r) \/ EnqueueTask(r) PROVE Next
  BY <1>1 DEF UserStep, EnqueueTask, Users, Next, Arrive, Continue
<1>2. ASSUME NEW w \in Workers, LoadItem(w) PROVE Next
  BY <1>2, WorkersAssumption DEF LoadItem, Next, Arrive
<1>3. ASSUME NEW w \in Workers, SettleRow(w) PROVE Next
  <2>1. completion[w].verdict \in Reports
    BY <1>3 DEF SettleRow, CommitCompletion, WellFormed
  <2>2. Outcome(completion[w].verdict) \in Verdicts
    BY <2>1, OutcomeType DEF Verdicts
  <2>3. CommitVerdict(w)
    BY <1>3, <2>2 DEF SettleRow, CommitVerdict
  <2> QED
    BY <2>3, WorkersAssumption DEF Next, Continue
<1>4. CASE PoolStep /\ UNCHANGED vars
  BY <1>4
<1>5. CASE UNCHANGED handoffVars
  BY <1>5 DEF handoffVars
<1> QED
  BY <1>1, <1>2, <1>3, <1>4, <1>5 DEF HandoffNext

\* A handler that hands the row over spends an approval that has paid for
\* nothing yet, on a task for the browser.
LEMMA HandsOver ==
    ASSUME TypeOK, Safe, NEW r \in Requests, HandOver(r)
    PROVE  /\ req[r].token \in Tokens
           /\ Held(req[r].token)
           /\ ledger[req[r].token].minted /\ ledger[req[r].token].sent = <<>>
           /\ Dispatch(r, req[r].token, <<Typed(req[r].snap)>>)
<1>1. req[r].token # NoToken /\ Dispatch(r, req[r].token, <<Typed(req[r].snap)>>)
  BY DEF HandOver, EnqueueOffer, EnqueueUpwork, At, AutoDispatch, Safe, DispatchBacked, Backed
<1>4. req[r].tries = 0
  BY HandlerType DEF HandOver, EnqueueOffer, EnqueueUpwork, At, Safe, DispatchBacked, Backed
<1>2. req[r].token \in Tokens
  BY <1>1, HandlerType
<1>3. Held(req[r].token)
  BY DEF Held, Holds
<1>5. ledger[req[r].token].calls = 0
  BY <1>2, <1>4 DEF Safe, TokenInOneHand, Holds
<1> QED
  BY <1>1, <1>2, <1>3, <1>5 DEF Safe, TokenInOneHand

\* A task is new when it is enqueued, so the pool sees an enqueue.
LEMMA EnqueuesNew ==
    ASSUME TypeOK, Safe, TaskPaid, NEW r \in Users, EnqueueTask(r)
    PROVE  /\ req[r].token \in Tasks
           /\ task[req[r].token].status = "none"
           /\ Enqueue(req[r].token)
<1>1. r \in Requests /\ HandOver(r) /\ Enqueued(req[r].token, "pending")
  BY DEF EnqueueTask, Users
<1>2. req[r].token \in Tokens /\ ledger[req[r].token].sent = <<>>
  BY <1>1, HandsOver
<1>3. Len(ledger[req[r].token].sent) = 0
  BY <1>2
<1>4. task[req[r].token].status = "none"
  BY <1>2, <1>3, TasksAssumption DEF TaskPaid, Present
<1> QED
  BY <1>1, <1>2, <1>4, TasksAssumption DEF Enqueue

LEMMA HandoffPoolStep ==
    ASSUME TypeOK, Safe, TaskPaid, [HandoffNext]_handoffVars
    PROVE  [PoolNext]_poolVars
<1>1. ASSUME NEW r \in Users, EnqueueTask(r) PROVE PoolNext
  BY <1>1, EnqueuesNew DEF PoolNext
<1> QED
  BY <1>1 DEF HandoffNext, handoffVars, UserStep, LoadItem, SettleRow, PoolNext

\* Only an enqueue brings a task.
LEMMA NothingNew ==
    ASSUME PoolInv, NEW t \in Tasks, Present(t)',
           UNCHANGED poolVars \/ PoolStep \/ \E w \in Workers : CommitCompletion(w)
    PROVE  Present(t)
<1>0. task[t] \in Task
  BY DEF PoolInv, PoolTypeOK
<1>1. CASE UNCHANGED task
  BY <1>1 DEF Present
<1>2. ASSUME NEW w \in Workers, NEW u \in Tasks, Granted(w, u) PROVE Present(t)
  BY <1>2, GrantedType DEF Granted, PoolInv, Present
<1>3. ASSUME NEW w \in Workers, CommitCompletion(w) PROVE Present(t)
  <2>1. completion[w].task \in Tasks /\ Present(completion[w].task)
    BY <1>3 DEF CommitCompletion, PoolInv, WellFormed, Known, Present
  <2>2. t # completion[w].task => task'[t] = task[t]
    BY <1>3, <2>1 DEF CommitCompletion, SetTask, PoolInv, PoolTypeOK
  <2> QED
    BY <2>1, <2>2 DEF Present
<1>4. CASE CommitZombies
  <2>1. t \in zombies => Present(t)
    BY DEF PoolInv, ZombiesExpired, Present
  <2> QED
    BY <1>4, <2>1 DEF CommitZombies, Present
<1> QED
  BY <1>1, <1>2, <1>3, <1>4
     DEF PoolStep, poolVars, Take, ClaimTask, ClaimUnanswered, Work, SubmitClick, Stop, Judge, Drop,
         ReadCompletion, Expire, ReadZombies

\* A paid task stays paid, and the approval of a new one has just been spent.
LEMMA TaskPaidNext ==
    ASSUME TypeOK, TypeOK', Safe, Step, TaskPaid, PoolInv, [HandoffNext]_handoffVars
    PROVE  TaskPaid'
<1>1. ASSUME NEW t \in Tasks, Present(t)
      PROVE  ledger'[t] = ledger[t]
  <2>1. /\ t \in Tokens /\ ledger[t].minted /\ Len(ledger[t].sent) = 1
        /\ ledger[t].sent[1].channel = "browser" /\ ledger[t].sent \in Seq(Sending)
    BY <1>1, TasksAssumption DEF TaskPaid, TypeOK, Entry
  <2>2. ledger[t].sent # <<>>
    <3>1. ledger[t].sent = <<>> => Len(ledger[t].sent) = 0
      OBVIOUS
    <3> QED
      BY <2>1, <3>1
  <2>4. 1 \in DOMAIN ledger[t].sent
    BY <2>1
  <2>3. ~Held(t)
    BY <2>1, <2>2, <2>4 DEF Safe, TokenInOneHand, Held
  <2> QED
    BY <2>1, <2>3 DEF Step, LetGo, Given, Used, Same
<1>2. ASSUME NEW r \in Users, EnqueueTask(r)
      PROVE  TaskPaid'
  <2> DEFINE p == req[r].token
  <2>1. /\ p \in Tokens /\ ledger[p].sent = <<>> /\ ledger[p].minted
        /\ Dispatch(r, p, <<Typed(req[r].snap)>>)
    BY <1>2, HandsOver DEF EnqueueTask, Users
  <2>2. p \in Tasks /\ Enqueued(p, "pending")
    BY <1>2, EnqueuesNew DEF EnqueueTask
  <2>3. \A t \in Tasks : t # p => task'[t] = task[t]
    BY <2>2 DEF Enqueued, SetTask, PoolInv, PoolTypeOK
  <2>4. ledger[p] \in Entry /\ ledger[p].sent \o <<Typed(req[r].snap)>> = <<Typed(req[r].snap)>>
    BY <2>1 DEF TypeOK
  <2>5. /\ ledger'[p].sent = <<Typed(req[r].snap)>>
        /\ ledger'[p].minted
    BY <2>1, <2>4 DEF TypeOK, Entry, Dispatch
  <2>6. Typed(req[r].snap).channel = "browser"
    BY DEF Typed
  <2>7. /\ Len(<<Typed(req[r].snap)>>) = 1
        /\ <<Typed(req[r].snap)>>[1] = Typed(req[r].snap)
    OBVIOUS
  <2> HIDE DEF p
  <2>8. ASSUME NEW t \in Tasks, t # p, Present(t)'
        PROVE  ledger'[t].minted /\ Len(ledger'[t].sent) = 1 /\ ledger'[t].sent[1].channel = "browser"
    BY <1>1, <2>3, <2>8 DEF TaskPaid, Present
  <2> QED
    BY <2>5, <2>6, <2>7, <2>8 DEF TaskPaid
<1>3. CASE ~\E r \in Users : EnqueueTask(r)
  <2>1. UNCHANGED poolVars \/ PoolStep \/ \E w \in Workers : CommitCompletion(w)
    BY <1>3 DEF HandoffNext, handoffVars, UserStep, LoadItem, SettleRow
  <2>2. ASSUME NEW t \in Tasks, Present(t)' PROVE Present(t)
    BY <2>1, <2>2, NothingNew
  <2> QED
    BY <1>1, <2>2 DEF TaskPaid
<1> QED
  BY <1>2, <1>3

LEMMA InitHInv == HandoffInit => HInv
<1>1. HandoffInit => TypeOK /\ Safe /\ PoolInv
  BY InitTypeOK, InitSafe, InitPoolInv DEF HandoffInit
<1>2. HandoffInit => TaskPaid
  BY DEF HandoffInit, PoolInit, TaskPaid, Present, Absent
<1> QED
  BY <1>1, <1>2 DEF HInv

LEMMA HInvNext == HInv /\ [HandoffNext]_handoffVars => HInv'
<1> SUFFICES ASSUME HInv, [HandoffNext]_handoffVars PROVE HInv'
  OBVIOUS
<1>1. WellFormed
  BY DEF HInv, PoolInv
<1>2. TypeOK' /\ Step
  BY <1>1, HandoffQueueStep, NextTypeOK, NextStep DEF HInv
<1>3. PoolInv'
  BY HandoffPoolStep, PoolInvNext DEF HInv
<1> QED
  BY <1>2, <1>3, TaskPaidNext DEF HInv, Step

\* Queue and pool keep their own invariants, and every task is paid for.
THEOREM HandoffInvariant == HandoffSpec => []HInv
BY InitHInv, HInvNext, PTL DEF HandoffSpec

\* The row behaves as ReviewQueue says: every verdict is one it expects.
THEOREM HandoffIsAQueue == HandoffSpec => Spec
<1>1. HInv /\ [HandoffNext]_handoffVars => [Next]_vars
  BY HandoffQueueStep DEF HInv, PoolInv
<1>2. HandoffInit => Init
  BY DEF HandoffInit
<1> QED
  BY <1>1, <1>2, HandoffInvariant, PTL DEF HandoffSpec, Spec

\* The tasks behave as TaskPool says: none is enqueued twice.
THEOREM HandoffIsAPool == HandoffSpec => PoolSpec
<1>1. HInv /\ [HandoffNext]_handoffVars => [PoolNext]_poolVars
  BY HandoffPoolStep DEF HInv
<1>2. HandoffInit => PoolInit
  BY DEF HandoffInit
<1> QED
  BY <1>1, <1>2, HandoffInvariant, PTL DEF HandoffSpec, PoolSpec

\* Queue and pool, composed, each keep to their own specification.
THEOREM PartsKeepTheirWord == HandoffSpec => EachAsSpecified
BY HandoffIsAQueue, HandoffIsAPool DEF EachAsSpecified

\* Nobody clicks for a task that is not there.
LEMMA ClickedIsPresent ==
    ASSUME PoolInv, NEW t \in Tasks, Clicked(t)
    PROVE  Present(t)
<1>1. PICK e \in Claims : clicks[t][e] > 0
  BY DEF Clicked
<1>2. e \in Nat /\ task[t].reclaim_count \in Nat /\ clicks[t][e] \in Nat
  BY MaxReclaimsAssumption DEF Claims, PoolInv, PoolTypeOK, Task
<1>3. SUFFICES ASSUME task[t].status = "none" PROVE FALSE
  BY DEF Present
<1>4. task[t].reclaim_count = 0
  BY <1>3 DEF PoolInv, Known
<1>5. e = 0 \/ e > 0
  BY <1>2
<1>6. clicks[t][e] = 0
  BY <1>3, <1>4, <1>5 DEF PoolInv, Unclicked
<1> QED
  BY <1>1, <1>2, <1>6

\* A click is for an approval of the reviewer that paid for this task only.
THEOREM ClicksPaidFor == HandoffSpec => []ClicksArePaidFor
<1>1. HInv => ClicksArePaidFor
  BY ClickedIsPresent DEF HInv, TaskPaid, ClicksArePaidFor
<1> QED
  BY <1>1, HandoffInvariant, PTL

\* Of the handlers of users only a bid through the API, and a human, call a
\* row submitted.
LEMMA UserSubmits ==
    ASSUME TypeOK, NEW r \in Requests, Ask(r) \/ Proceed(r) \/ HandOver(r),
           row'.status # row.status, row'.status \in {"submitted", "submitted_unverified"}
    PROVE  platform = "freelancer" \/ (At(r, "mark", "commit") /\ req'[r] = Idle)
<1> DEFINE snap == req[r].snap
<1>0. snap \in Row
  BY HandlerType
<1>1. CASE Ask(r) \/ HandOver(r)
  BY <1>1 DEF Ask, ReadApprove, ReadBulk, ReadReject, ReadMark, ReadRevert, ReadSubmit, ReadGenerate,
              Click, Load, Begin, HandOver, EnqueueOffer, EnqueueUpwork
<1>2. CASE CommitApprove(r) \/ CommitBulk(r)
  <2>1. PICK new \in Row, next \in {"refresh", "enqueue"} : new.status = "approved" /\ Approve(r, new, next)
    BY <1>2, ApprovesAs
  <2> DEFINE written == [new EXCEPT !.token = IF AutoDispatch THEN NoToken ELSE req[r].token]
  <2>2. written.status = "approved" /\ row' = Flush(snap, written)
    BY <2>1 DEF Approve, Row
  <2> HIDE DEF written
  <2>3. row'.status = "approved"
    BY <2>2, FlushedStatus
  <2> QED
    BY <2>3
<1>3. CASE CommitReject(r)
  <2> DEFINE new == [snap EXCEPT !.status = "rejected", !.reviewed = TRUE, !.token = NoToken]
  <2>1. new.status = "rejected" /\ row' = Flush(snap, new)
    BY <1>0, <1>3 DEF CommitReject, Row
  <2> HIDE DEF new
  <2> QED
    BY <2>1, FlushedStatus
<1>4. CASE CommitMark(r)
  BY <1>4 DEF CommitMark, Done, TypeOK
<1>5. CASE CommitRevert(r)
  <2>1. PICK k \in DOMAIN snap.versions, newBid \in BOOLEAN :
           row' = Flush(snap, Reverted(snap, snap.versions[k], newBid))
    BY <1>5 DEF CommitRevert
  <2>2. Reverted(snap, snap.versions[k], newBid).status \in {snap.status, "pending_review"}
    BY <1>0 DEF Reverted, Row
  <2> QED
    BY <2>1, <2>2 DEF Flush
<1>6. CASE Claim(r)
  BY <1>6 DEF Claim, TypeOK, Row
<1>7. CASE Release(r) \/ FailDispatch(r) \/ Finish(r) \/ FailSent(r)
  <2>1. PICK status, token : SetStatus(r, status, token) /\ (status = "submitted" => platform = "freelancer")
                            /\ status # "submitted_unverified"
    BY <1>7 DEF Release, FailDispatch, Finish, FailSent
  <2> DEFINE new == [snap EXCEPT !.status = status, !.token = token]
  <2>2. row' = Flush(snap, new) /\ new.status = status
    BY <1>0, <2>1 DEF SetStatus, Row
  <2> HIDE DEF new
  <2> QED
    BY <2>1, <2>2, FlushedStatus
<1>8. CASE CommitGenerate(r)
  <2>1. PICK human, draft, f : row' = Flush(snap, Drafted(snap, human, draft, f))
    BY <1>8 DEF CommitGenerate
  <2>2. Drafted(snap, human, draft, f).status = "pending_review"
    BY <1>0 DEF Drafted, Row
  <2> QED
    BY <2>1, <2>2, FlushedStatus
<1> QED
  BY <1>1, <1>2, <1>3, <1>4, <1>5, <1>6, <1>7, <1>8
     DEF Proceed, Refresh, SkipOffer, ClaimLost, PlaceBid, RepeatBid, GenerateFails

\* A verdict calls the row submitted only if a worker clicked.
LEMMA VerdictSubmits ==
    ASSUME TypeOK, PoolInv, NEW w \in Workers, SettleRow(w),
           row'.status # row.status, row'.status \in {"submitted", "submitted_unverified"}
    PROVE  \E t \in Tasks : Clicked(t)
<1> DEFINE v == completion[w].verdict
           new == [req[w].snap EXCEPT !.status = Outcome(v), !.token = NoToken]
<1>1. v \in Reports /\ completion[w].task \in Tasks
  BY DEF SettleRow, CommitCompletion, PoolInv, WellFormed
<1>2. w \in Requests /\ req[w].snap \in Row
  BY HandlerType, WorkersAssumption
<1>3. row' = Flush(req[w].snap, new) /\ new.status = Outcome(v)
  BY <1>2 DEF SettleRow, Conclude, SetStatus, Row
<1> HIDE DEF new
<1>4. Outcome(v) \in {"submitted", "submitted_unverified"}
  BY <1>3, FlushedStatus
<1>5. v \in GoodNews
  BY <1>1, <1>4 DEF Outcome, GoodNews, Reports
<1> QED
  BY <1>1, <1>5 DEF PoolInv, NewsClicked

\* A row is called submitted for a reason, whichever worker's report comes
\* late, twice or from a task that was taken back.
THEOREM HonestOutcomes == HandoffSpec => HonestOutcome
<1> DEFINE Why == row'.status # row.status /\ row'.status \in {"submitted", "submitted_unverified"} =>
                     \/ platform = "freelancer"
                     \/ \E r \in Users : At(r, "mark", "commit") /\ req'[r] = Idle
                     \/ \E t \in Tasks : Clicked(t)
<1>1. ASSUME HInv, [HandoffNext]_handoffVars PROVE [Why]_handoffVars
  <2> SUFFICES ASSUME HandoffNext, row'.status # row.status,
                      row'.status \in {"submitted", "submitted_unverified"}
               PROVE  Why
    BY <1>1
  <2>1. ASSUME NEW r \in Users, UserStep(r) \/ EnqueueTask(r) PROVE Why
    BY <1>1, <2>1, UserSubmits DEF UserStep, EnqueueTask, Users, HInv
  <2>2. ASSUME NEW w \in Workers, SettleRow(w) PROVE Why
    BY <1>1, <2>2, VerdictSubmits DEF HInv
  <2>3. \A w \in Workers : ~LoadItem(w)
    BY DEF LoadItem, ReadVerdict, Load, Begin
  <2>4. ~UNCHANGED vars
    BY DEF vars
  <2> QED
    BY <2>1, <2>2, <2>3, <2>4 DEF HandoffNext
<1>2. HInv /\ [HandoffNext]_handoffVars => [Why]_handoffVars
  BY <1>1
<1> QED
  BY <1>2, HandoffInvariant, PTL DEF HandoffSpec, HonestOutcome

-----------------------------------------------------------------------------
(* One task for a row.  OneTaskPerRow needs to know what a user's handler  *)
(* may hold before the row is handed over and after.                       *)

Handed == \E t \in Tasks : Present(t)

\* The handler of a worker's report runs only while the report is under way.
ReportsOnly ==
    \A w \in Workers : req[w] # Idle => At(w, "verdict", "commit") /\ completion[w] # NoCall

\* Until then a handler that goes on to a dispatch knows the row's status.
Before(h) ==
    /\ h.pc = "commit" /\ h.op \in {"approve", "bulk"} => h.snap.status = "pending_review"
    /\ h.pc \in {"refresh", "enqueue"} => row.status = "approved"
    /\ h.pc = "enqueue" => h.snap.status = "approved"
    /\ h.pc = "claim" => h.snap.status = row.status
    /\ h.pc = "dispatch" => row.status = "submitting" /\ h.snap.status = "submitting"

\* From then on a handler ends the hand-over, loses a claim, or marks a row
\* that the browser failed to submit.
After(h) ==
    \/ h = Idle
    \/ h.pc = "finish" /\ h.snap.status \in {"submitting", "approved"}
    \/ h.pc = "claim" /\ h.op = "submit"
    \/ h.pc = "commit" /\ h.op = "mark" /\ h.snap.status = "failed"

OutOfHand == {"queued_for_browser", "submitted", "submitted_unverified", "failed"}

RowAfter ==
    /\ row.token = NoToken
    /\ \/ row.status \in OutOfHand
       \/ /\ row.status \in {"submitting", "approved"}
          /\ \E r \in Users : req[r].pc = "finish"

HandedOnce ==
    IF Handed THEN RowAfter /\ \A r \in Users : After(req[r])
              ELSE \A r \in Users : Before(req[r])

Once == ReportsOnly /\ HandedOnce /\ OneTaskPerRow

LEMMA InitOnce == HandoffInit => Once
<1> SUFFICES ASSUME HandoffInit PROVE Once
  OBVIOUS
<1>1. \A r \in Requests : req[r] = Idle
  BY DEF HandoffInit, Init
<1>2. \A t \in Tasks : ~Present(t)
  BY DEF HandoffInit, PoolInit, Absent, Present
<1>3. ReportsOnly
  BY <1>1, WorkersAssumption DEF ReportsOnly
<1>4. Idle.pc = "idle"
  BY DEF Idle
<1>5. HandedOnce
  BY <1>1, <1>2, <1>4 DEF Handed, HandedOnce, Before, Users
<1> QED
  BY <1>2, <1>3, <1>5 DEF Once, OneTaskPerRow, Present

\* No task ever goes away.
LEMMA PresentStays ==
    ASSUME PoolInv, [PoolNext]_poolVars, NEW t \in Tasks, Present(t)
    PROVE  Present(t)'
<1>0. task[t] \in Task
  BY DEF PoolInv, PoolTypeOK
<1>1. CASE UNCHANGED task
  BY <1>1 DEF Present
<1>2. ASSUME NEW u \in Tasks, Enqueue(u) PROVE Present(t)'
  BY <1>2 DEF Enqueue, Enqueued, SetTask, Present, PoolInv, PoolTypeOK
<1>3. ASSUME NEW w \in Workers, NEW u \in Tasks, Granted(w, u) PROVE Present(t)'
  <2>1. PoolTypeOK /\ task[u] \in Task
    BY DEF PoolInv, PoolTypeOK
  <2>2. /\ task'[u] = [task[u] EXCEPT !.status = "claimed", !.claimed_by = w]
        /\ u # t => task'[t] = task[t]
    BY <1>3, <2>1, GrantedType
  <2>3. task'[u].status = "claimed"
    BY <2>1, <2>2 DEF Task
  <2> QED
    BY <2>2, <2>3 DEF Present
<1>4. ASSUME NEW w \in Workers, CommitCompletion(w) PROVE Present(t)'
  <2>1. completion[w].task \in Tasks /\ task[completion[w].task] \in Task
    BY <1>4 DEF CommitCompletion, PoolInv, WellFormed, PoolTypeOK
  <2> QED
    BY <1>4, <2>1 DEF CommitCompletion, SetTask, PoolInv, PoolTypeOK, Present, Task
<1>5. CASE CommitZombies
  BY <1>0, <1>5 DEF CommitZombies, Reclaimed, Present, Task
<1> QED
  BY <1>1, <1>2, <1>3, <1>4, <1>5
     DEF PoolNext, PoolStep, poolVars, Take, ClaimTask, ClaimUnanswered, Work, SubmitClick, Stop, Judge,
         Drop, ReadCompletion, Expire, ReadZombies

\* The handler of a report starts after the report and ends with it.
LEMMA ReportsOnlyNext ==
    ASSUME TypeOK, PoolInv, ReportsOnly, [HandoffNext]_handoffVars
    PROVE  ReportsOnly'
<1> SUFFICES ASSUME NEW w \in Workers, req'[w] # Idle
             PROVE  At(w, "verdict", "commit")' /\ completion'[w] # NoCall
  BY DEF ReportsOnly
<1>1. ASSUME NEW r \in Users, Ask(r) \/ Proceed(r) \/ HandOver(r)
      PROVE  req'[w] = req[w]
  BY <1>1, WorkersAssumption DEF Users, Ask, ReadApprove, ReadBulk, ReadReject, ReadMark, ReadRevert,
     ReadSubmit, ReadGenerate, Click, Load, Begin, Proceed, CommitApprove, CommitBulk, Approve, Refresh,
     SkipOffer, CommitReject, CommitMark, CommitRevert, Claim, ClaimLost, Release, FailDispatch, PlaceBid,
     RepeatBid, Finish, FailSent, CommitGenerate, GenerateFails, SetStatus, HandOver, EnqueueOffer,
     EnqueueUpwork, Done, Goto, TypeOK
<1>2. ASSUME NEW r \in Users, UserStep(r) \/ EnqueueTask(r)
      PROVE  req'[w] = req[w] /\ completion' = completion
  BY <1>1, <1>2 DEF UserStep, EnqueueTask, Enqueued, poolVars
<1>3. ASSUME PoolStep, UNCHANGED vars
      PROVE  req'[w] = req[w] /\ completion'[w] # NoCall
  <2>1. req' = req /\ completion[w] # NoCall
    BY <1>3 DEF vars, ReportsOnly
  <2>2. completion'[w] = completion[w]
    <3>1. ASSUME NEW v \in Workers, ReadCompletion(v) PROVE completion'[w] = completion[w]
      BY <2>1, <3>1 DEF ReadCompletion, PoolInv, PoolTypeOK
    <3>2. CASE UNCHANGED completion
      BY <3>2
    <3> QED
      BY <1>3, <3>1, <3>2 DEF PoolStep, Take, ClaimTask, ClaimUnanswered, Work, SubmitClick, Stop,
         Judge, Drop, Expire, ReadZombies, CommitZombies
  <2> QED
    BY <2>1, <2>2
<1>4. ASSUME NEW v \in Workers, LoadItem(v)
      PROVE  At(w, "verdict", "commit")' /\ completion'[w] # NoCall
  <2>1. completion' = completion /\ completion[v] # NoCall
    BY <1>4 DEF LoadItem, poolVars
  <2>2. CASE w = v
    BY <1>4, <2>1, <2>2, WorkersAssumption DEF LoadItem, ReadVerdict, Load, Begin, At, TypeOK
  <2>3. CASE w # v
    BY <1>4, <2>1, <2>3, WorkersAssumption DEF LoadItem, ReadVerdict, Load, Begin, At, TypeOK, ReportsOnly
  <2> QED
    BY <2>2, <2>3
<1>5. ASSUME NEW v \in Workers, SettleRow(v)
      PROVE  req'[w] = req[w] /\ completion'[w] = completion[w]
  <2>1. Done(v)
    BY <1>5 DEF SettleRow, Conclude, SetStatus
  <2>2. w # v
    BY <2>1, WorkersAssumption DEF Done, TypeOK
  <2> QED
    BY <1>5, <2>1, <2>2 DEF Done, SettleRow, CommitCompletion, TypeOK, PoolInv, PoolTypeOK
<1> QED
  BY <1>2, <1>3, <1>4, <1>5 DEF HandoffNext, handoffVars, vars, poolVars, ReportsOnly, At

\* A user's step changes the handler of that user.
LEMMA UserMoves ==
    ASSUME TypeOK, NEW r \in Users, Ask(r) \/ Proceed(r) \/ HandOver(r)
    PROVE  /\ \A q \in Requests : q # r => req'[q] = req[q]
           /\ Ask(r) => row' = row /\ req[r] = Idle /\ req'[r] # Idle
           /\ ~Ask(r) => req[r] # Idle
<1> USE DEF Users
<1>1. CASE Ask(r)
  <2>1. \E op, pc, body, token : pc # "idle" /\ Begin(r, op, pc, body, token)
    BY <1>1 DEF Ask, ReadApprove, ReadBulk, ReadReject, ReadMark, ReadRevert, ReadSubmit, ReadGenerate,
                Click, Load
  <2>2. PICK op, pc, body, token : pc # "idle" /\ Begin(r, op, pc, body, token)
    BY <2>1
  <2>3. row' = row /\ req[r] = Idle /\ req'[r].pc = pc /\ \A q \in Requests : q # r => req'[q] = req[q]
    BY <2>2 DEF Begin, TypeOK
  <2> QED
    BY <1>1, <2>2, <2>3 DEF Idle
<1>2. CASE Proceed(r) \/ HandOver(r)
  <2>1. \A q \in Requests : q # r => req'[q] = req[q]
    BY <1>2 DEF Proceed, CommitApprove, CommitBulk, Approve, Refresh,
       SkipOffer, CommitReject, CommitMark, CommitRevert, Claim, ClaimLost, Release, FailDispatch, PlaceBid, RepeatBid,
       Finish, FailSent, CommitGenerate, GenerateFails, SetStatus, HandOver, EnqueueOffer, EnqueueUpwork,
       Done, Goto, TypeOK
  <2>2. req[r].pc # "idle"
    BY <1>2 DEF Proceed, CommitApprove, CommitBulk, Refresh,
       SkipOffer, CommitReject, CommitMark, CommitRevert, Claim, ClaimLost, Release, FailDispatch, PlaceBid, RepeatBid,
       Finish, FailSent, CommitGenerate, GenerateFails, HandOver, EnqueueOffer, EnqueueUpwork, At
  <2>3. req[r] # Idle
    BY <2>2 DEF Idle
  <2>4. ~Ask(r)
    BY <2>3 DEF Ask, ReadApprove, ReadBulk, ReadReject, ReadMark, ReadRevert, ReadSubmit, ReadGenerate,
                Click, Load, Begin
  <2> QED
    BY <2>1, <2>3, <2>4
<1> QED
  BY <1>1, <1>2

\* Before the hand-over: what handler r knows.
LEMMA BeforeArrives ==
    ASSUME TypeOK, NEW r \in Users, Ask(r)
    PROVE  Before(req[r])'
<1> USE DEF Users
<1>1. row' = row
  BY UserMoves
<1>2. ASSUME NEW op \in {"approve", "bulk"}, NEW body, Click(r, op, body), row.status = "pending_review"
      PROVE  Before(req[r])'
  <2>1. PICK t \in Tokens : Begin(r, op, "commit", body, t)
    BY <1>2 DEF Click
  <2> QED
    BY <1>1, <1>2, <2>1 DEF Begin, Before, TypeOK
<1>3. ASSUME NEW op \in {"reject", "mark", "revert", "submit", "generate"},
             NEW pc \in {"commit", "claim"}, Load(r, op, pc)
      PROVE  Before(req[r])'
  BY <1>1, <1>3 DEF Load, Begin, Before, TypeOK
<1> QED
  BY <1>2, <1>3 DEF Ask, ReadApprove, ReadBulk, ReadReject, ReadMark, ReadRevert, ReadSubmit, ReadGenerate

LEMMA BeforeProceeds ==
    ASSUME TypeOK, NEW r \in Users, Before(req[r]), Proceed(r)
    PROVE  Before(req[r])'
<1> USE DEF Users
<1> DEFINE snap == req[r].snap
<1>0. snap \in Row /\ req[r] \in Handler
  BY HandlerType DEF TypeOK
<1>a. Before(Idle)'
  BY DEF Before, Idle
<1>1. CASE Done(r)
  BY <1>1, <1>a DEF Done, TypeOK
<1>2. CASE CommitApprove(r) \/ CommitBulk(r)
  <2>1. PICK new \in Row, next \in {"refresh", "enqueue"} : new.status = "approved" /\ Approve(r, new, next)
    BY <1>2, ApprovesAs
  <2> DEFINE written == [new EXCEPT !.token = IF AutoDispatch THEN NoToken ELSE req[r].token]
  <2>2. written.status = "approved" /\ row' = Flush(snap, written)
    BY <2>1 DEF Approve, Row
  <2> HIDE DEF written
  <2>3. snap.status = "pending_review"
    BY <1>2 DEF CommitApprove, CommitBulk, At, Before
  <2>4. row'.status = "approved"
    BY <2>2, <2>3 DEF Flush
  <2>5. CASE AutoDispatch
    <3>1. req'[r].pc = next /\ req'[r].snap = new
      BY <2>1, <2>5, <1>0 DEF Approve, Goto, TypeOK, Handler
    <3> QED
      BY <2>1, <2>4, <3>1 DEF Before
  <2>6. CASE ~AutoDispatch
    BY <1>1, <2>1, <2>6 DEF Approve
  <2> QED
    BY <2>5, <2>6
<1>3. CASE Refresh(r)
  <2>1. req'[r].pc = "enqueue" /\ req'[r].snap = row /\ row' = row
    BY <1>0, <1>3 DEF Refresh, Goto, TypeOK, Handler
  <2> QED
    BY <1>3, <2>1 DEF Before, Refresh
<1>4. CASE Claim(r)
  <2>1. snap.status = "approved" /\ row'.status = "submitting"
    BY <1>4 DEF Claim, At, Before, TypeOK, Row
  <2>2. req'[r].pc = "dispatch" /\ req'[r].snap = [snap EXCEPT !.status = "submitting"]
    BY <1>0, <1>4, <2>1 DEF Claim, Goto, TypeOK, Handler
  <2>3. req'[r].snap.status = "submitting"
    BY <1>0, <2>2 DEF Row
  <2> QED
    BY <2>1, <2>2, <2>3 DEF Before
<1>5. CASE PlaceBid(r)
  <2>1. req'[r].pc \in {"finish", "fail"}
    BY <1>0, <1>5 DEF PlaceBid, Goto, TypeOK, Handler
  <2> QED
    BY <2>1 DEF Before
<1>6. CASE RepeatBid(r)
  <2>1. /\ req'[r].op = req[r].op /\ req'[r].pc = req[r].pc /\ req'[r].snap = snap
        /\ row' = row
    BY <1>0, <1>6 DEF RepeatBid, TypeOK, Handler
  <2> QED
    BY <2>1 DEF Before
<1> QED
  BY <1>1, <1>2, <1>3, <1>4, <1>5, <1>6
     DEF Proceed, SkipOffer, CommitReject, CommitMark, CommitRevert, ClaimLost, Release, FailDispatch,
         Finish, FailSent, CommitGenerate, GenerateFails, SetStatus

\* The hand-over itself: nothing approved is left, in the row or in a hand.
LEMMA HandOverOnce ==
    ASSUME TypeOK, Safe, Calm, NEW r \in Users, Before(req[r]), HandOver(r)
    PROVE  RowAfter' /\ \A q \in Users : After(req[q])'
<1> USE DEF Users
<1>1. req[r] # Idle /\ \A q \in Users : q # r => req'[q] = req[q]
  <2>1. req[r].pc # "idle"
    BY DEF HandOver, EnqueueOffer, EnqueueUpwork, At
  <2> QED
    BY <2>1, UserMoves DEF Idle
<1>2. /\ row' = row /\ req'[r].pc = "finish" /\ req'[r].snap = req[r].snap
  BY HandlerType DEF HandOver, EnqueueOffer, EnqueueUpwork, Goto, TypeOK, Handler
<1>3. \A q \in Users : q # r => req[q] = Idle
  BY <1>1 DEF Calm
<1>4. row.status \in {"submitting", "approved"} /\ req[r].snap.status \in {"submitting", "approved"}
  BY DEF HandOver, EnqueueOffer, EnqueueUpwork, At, Before
<1>5. row.token = NoToken
  <2>1. CASE EnqueueOffer(r)
    BY <2>1 DEF EnqueueOffer, Safe, TokenInOneHand, DispatchBacked, Backed
  <2>2. CASE EnqueueUpwork(r)
    BY <2>2 DEF EnqueueUpwork, At, Before, Safe, TokenInOneHand
  <2> QED
    BY <2>1, <2>2 DEF HandOver
<1> QED
  BY <1>1, <1>2, <1>3, <1>4, <1>5 DEF RowAfter, After

\* After the hand-over a user's step neither approves nor dispatches the row.
LEMMA AfterStep ==
    ASSUME TypeOK, Calm, Calm', NEW r \in Users, RowAfter, \A q \in Users : After(req[q]),
           Ask(r) \/ Proceed(r)
    PROVE  RowAfter' /\ \A q \in Users : After(req[q])'
<1> USE DEF Users
<1> DEFINE snap == req[r].snap
<1>0. snap \in Row /\ req[r] \in Handler /\ After(req[r])
  BY HandlerType DEF TypeOK
<1>1. \A q \in Users : q # r => req'[q] = req[q] /\ After(req[q])'
  BY UserMoves DEF After
<1>2. CASE Ask(r)
  <2>1. row' = row /\ req[r] = Idle /\ req'[r] # Idle
    BY <1>2, UserMoves
  <2>2. ASSUME NEW q \in Users, req[q].pc = "finish" PROVE FALSE
    BY <1>1, <2>1, <2>2 DEF Calm, Idle
  <2>3. row.status \in OutOfHand
    BY <2>2 DEF RowAfter
  <2>4. ReadMark(r) \/ ReadSubmit(r)
    BY <1>2, <2>3 DEF Ask, ReadApprove, ReadBulk, ReadReject, ReadRevert, ReadGenerate, OutOfHand
  <2>5. After(req[r])'
    BY <2>3, <2>4 DEF ReadMark, ReadSubmit, Load, Begin, After, TypeOK, OutOfHand
  <2> QED
    BY <1>1, <2>1, <2>3, <2>5 DEF RowAfter
<1>3. CASE Proceed(r)
  <2>1. req[r] # Idle
    <3>1. req[r].pc # "idle"
      BY <1>3 DEF Proceed, CommitApprove, CommitBulk, Refresh, SkipOffer, CommitReject, CommitMark,
         CommitRevert, Claim, ClaimLost, Release, FailDispatch, PlaceBid, RepeatBid, Finish, FailSent,
         CommitGenerate, GenerateFails, At
    <3> QED
      BY <3>1 DEF Idle
  <2>2. \A q \in Users : q # r => req[q] = Idle /\ req[q].pc # "finish"
    BY <2>1 DEF Calm, Idle
  <2>3. Finish(r) \/ CommitMark(r) \/ Claim(r) \/ ClaimLost(r)
    BY <1>0, <1>3, <2>1 DEF After, Proceed, CommitApprove, CommitBulk, Refresh, SkipOffer, CommitReject,
       CommitRevert, Release, FailDispatch, PlaceBid, RepeatBid, FailSent, CommitGenerate, GenerateFails, At
  <2>4. req[r].pc # "finish" => row.status \in OutOfHand
    BY <2>2 DEF RowAfter
  <2>5. CASE Finish(r)
    <3>1. PICK status \in {"submitted", "queued_for_browser"} : SetStatus(r, status, NoToken)
      BY <2>5 DEF Finish
    <3> DEFINE new == [snap EXCEPT !.status = status, !.token = NoToken]
    <3>2. row' = Flush(snap, new) /\ new.status = status /\ new.token = NoToken /\ Done(r)
      BY <1>0, <3>1 DEF SetStatus, Row
    <3> HIDE DEF new
    <3>3. snap.status \in {"submitting", "approved"}
      BY <1>0, <2>1, <2>5 DEF After, Finish
    <3>4. row'.status = status /\ row'.token = NoToken
      BY <3>2, <3>3 DEF Flush
    <3>5. After(req[r])'
      BY <3>2 DEF Done, After, TypeOK
    <3> QED
      BY <1>1, <3>4, <3>5 DEF RowAfter, OutOfHand
  <2>6. CASE CommitMark(r)
    <3> DEFINE new == [snap EXCEPT !.status = "submitted", !.token = NoToken]
    <3>1. row' = Flush(snap, new) /\ new.status = "submitted" /\ new.token = NoToken /\ Done(r)
      BY <1>0, <2>6 DEF CommitMark, Row
    <3> HIDE DEF new
    <3>2. snap.status = "failed"
      BY <1>0, <2>1, <2>6 DEF After, CommitMark, At
    <3>3. row'.status = "submitted" /\ row'.token = NoToken
      BY <3>1, <3>2 DEF Flush
    <3>4. After(req[r])'
      BY <3>1 DEF Done, After, TypeOK
    <3> QED
      BY <1>1, <3>3, <3>4 DEF RowAfter, OutOfHand
  <2>7. CASE Claim(r)
    BY <2>4, <2>7 DEF Claim, At, OutOfHand
  <2>8. CASE ClaimLost(r)
    <3>1. row' = row /\ row.status \in OutOfHand /\ Done(r)
      BY <2>4, <2>8 DEF ClaimLost, At
    <3>2. After(req[r])'
      BY <3>1 DEF Done, After, TypeOK
    <3> QED
      BY <1>1, <3>1, <3>2 DEF RowAfter
  <2> QED
    BY <2>3, <2>5, <2>6, <2>7, <2>8
<1> QED
  BY <1>2, <1>3

\* A verdict leaves the row out of everybody's hand.
LEMMA VerdictAfter ==
    ASSUME TypeOK, PoolInv, RowAfter, NEW w \in Workers, SettleRow(w)
    PROVE  /\ RowAfter'
           /\ \A r \in Users : req'[r] = req[r]
<1> DEFINE v == completion[w].verdict
           new == [req[w].snap EXCEPT !.status = Outcome(v), !.token = NoToken]
<1>1. v \in Reports /\ Conclude(w, Outcome(v))
  BY DEF SettleRow, CommitCompletion, PoolInv, WellFormed
<1>2. w \in Requests /\ req[w].snap \in Row /\ Outcome(v) \in {"failed", "submitted_unverified", "submitted"}
  BY <1>1, HandlerType, WorkersAssumption, OutcomeType
<1>3. Done(w) /\ \A r \in Users : req'[r] = req[r]
  BY <1>1, <1>2 DEF Conclude, SetStatus, Done, Users, TypeOK
<1>4. CASE row' = row
  BY <1>3, <1>4 DEF RowAfter
<1>5. CASE row' # row
  <2>1. req[w].snap.status = "queued_for_browser" /\ row' = Flush(req[w].snap, new)
    BY <1>1, <1>5 DEF Conclude, SetStatus
  <2>2. new.status = Outcome(v) /\ new.token = NoToken
    BY <1>2 DEF Row
  <2> HIDE DEF new
  <2>3. row'.status = Outcome(v) /\ row'.token = NoToken
    BY <1>2, <2>1, <2>2 DEF Flush
  <2> QED
    BY <1>2, <1>3, <2>3 DEF RowAfter, OutOfHand
<1> QED
  BY <1>3, <1>4, <1>5

LEMMA OnceNext ==
    ASSUME HInv, Once, Calm, Calm', [HandoffNext]_handoffVars
    PROVE  Once'
<1>0. TypeOK /\ Safe /\ PoolInv /\ TaskPaid
  BY DEF HInv
<1>1. ReportsOnly'
  BY <1>0, ReportsOnlyNext DEF Once
<1>2. [PoolNext]_poolVars
  BY <1>0, HandoffPoolStep
<1>3. \A t \in Tasks : Present(t) => Present(t)'
  BY <1>0, <1>2, PresentStays
<1>4. ASSUME NEW w \in Workers, completion[w] # NoCall PROVE Handed
  <2>1. completion[w].task \in Tasks
    BY <1>0, <1>4 DEF PoolInv, WellFormed
  <2>2. Present(completion[w].task)
    BY <1>0, <2>1 DEF PoolInv, Known, Present
  <2> QED
    BY <2>1, <2>2 DEF Handed
<1>5. ASSUME NEW r \in Users, EnqueueTask(r) PROVE HandedOnce' /\ OneTaskPerRow'
  <2>1. HandOver(r) /\ Enqueued(req[r].token, "pending") /\ req[r].token \in Tasks
    BY <1>0, <1>5, EnqueuesNew DEF EnqueueTask
  <2>2. ~After(req[r])
    BY <2>1 DEF HandOver, EnqueueOffer, EnqueueUpwork, At, After, Idle
  <2>3. ~Handed /\ Before(req[r])
    BY <2>2 DEF Once, HandedOnce
  <2>4. RowAfter' /\ \A q \in Users : After(req[q])'
    BY <1>0, <2>1, <2>3, HandOverOnce
  <2>5. \A t \in Tasks : t # req[r].token => task'[t] = task[t]
    BY <1>0, <2>1 DEF Enqueued, SetTask, PoolInv, PoolTypeOK
  <2>6. task'[req[r].token].status = "pending"
    BY <1>0, <2>1 DEF Enqueued, SetTask, PoolInv, PoolTypeOK, Absent
  <2>7. Handed'
    BY <2>1, <2>6 DEF Handed, Present
  <2>8. \A t \in Tasks : Present(t)' => t = req[r].token
    BY <2>3, <2>5 DEF Handed, Present
  <2>9. OneTaskPerRow'
    BY <2>8 DEF OneTaskPerRow, Present
  <2> QED
    BY <2>4, <2>7, <2>9 DEF HandedOnce
<1>6. ASSUME ~\E r \in Users : EnqueueTask(r) PROVE HandedOnce' /\ OneTaskPerRow'
  <2>1. UNCHANGED poolVars \/ PoolStep \/ \E w \in Workers : CommitCompletion(w)
    BY <1>6 DEF HandoffNext, handoffVars, UserStep, LoadItem, SettleRow
  <2>2. \A t \in Tasks : Present(t)' <=> Present(t)
    BY <1>0, <1>3, <2>1, NothingNew
  <2>3. Handed' <=> Handed
    BY <2>2 DEF Handed
  <2>4. OneTaskPerRow'
    BY <2>2 DEF Once, OneTaskPerRow, Present
  <2>5. ASSUME Handed PROVE HandedOnce'
    <3>1. RowAfter /\ \A r \in Users : After(req[r])
      BY <2>5 DEF Once, HandedOnce
    <3>2. ASSUME NEW r \in Users, UserStep(r) PROVE RowAfter' /\ \A q \in Users : After(req[q])'
      BY <1>0, <3>1, <3>2, AfterStep DEF UserStep
    <3>3. ASSUME NEW w \in Workers, LoadItem(w) PROVE RowAfter' /\ \A q \in Users : After(req[q])'
      <4>1. row' = row /\ \A r \in Users : req'[r] = req[r]
        BY <1>0, <3>3 DEF LoadItem, ReadVerdict, Load, Begin, Users, TypeOK
      <4> QED
        BY <3>1, <4>1 DEF RowAfter, After
    <3>4. ASSUME NEW w \in Workers, SettleRow(w) PROVE RowAfter' /\ \A q \in Users : After(req[q])'
      <4>1. RowAfter' /\ \A r \in Users : req'[r] = req[r]
        BY <1>0, <3>1, <3>4, VerdictAfter
      <4> QED
        BY <3>1, <4>1 DEF After
    <3>5. ASSUME UNCHANGED vars PROVE RowAfter' /\ \A q \in Users : After(req[q])'
      BY <3>1, <3>5 DEF vars, RowAfter, After
    <3> QED
      BY <1>6, <2>3, <2>5, <3>2, <3>3, <3>4, <3>5 DEF HandoffNext, handoffVars, HandedOnce
  <2>6. ASSUME ~Handed PROVE HandedOnce'
    <3>1. \A r \in Users : Before(req[r])
      BY <2>6 DEF Once, HandedOnce
    <3>2. ASSUME NEW r \in Users, UserStep(r) PROVE \A q \in Users : Before(req[q])'
      <4>1. Before(req[r])'
        BY <1>0, <3>1, <3>2, BeforeArrives, BeforeProceeds DEF UserStep
      <4>2. ASSUME NEW q \in Users, q # r PROVE Before(req[q])'
        <5>1. req'[q] = req[q]
          BY <1>0, <3>2, <4>2, UserMoves DEF UserStep, Users
        <5>2. CASE row' = row
          BY <3>1, <5>1, <5>2 DEF Before
        <5>3. CASE row' # row
          <6>1. req[r] # Idle
            BY <1>0, <3>2, <5>3, UserMoves DEF UserStep
          <6>2. req'[q] = Idle
            BY <4>2, <5>1, <6>1 DEF Calm
          <6> QED
            BY <6>2 DEF Before, Idle
        <5> QED
          BY <5>2, <5>3
      <4> QED
        BY <4>1, <4>2
    <3>3. \A w \in Workers : ~LoadItem(w) /\ ~SettleRow(w)
      BY <1>4, <2>6 DEF LoadItem, SettleRow, CommitCompletion
    <3>4. ASSUME UNCHANGED vars PROVE \A q \in Users : Before(req[q])'
      BY <3>1, <3>4 DEF vars, Before
    <3> QED
      BY <1>6, <2>3, <2>6, <3>2, <3>3, <3>4 DEF HandoffNext, handoffVars, HandedOnce
  <2> QED
    BY <2>4, <2>5, <2>6
<1> QED
  BY <1>1, <1>5, <1>6 DEF Once

\* While requests of users do not overlap, a row is handed to the browser at
\* most once in its life, however the workers, the reaper and the reports run.
THEOREM HandedOverOnce == HandoffSpec /\ []Calm => []OneTaskPerRow
<1>1. HInv /\ Once /\ Calm /\ Calm' /\ [HandoffNext]_handoffVars => Once'
  BY OnceNext
<1>2. Once => OneTaskPerRow
  BY DEF Once
<1> QED
  BY <1>1, <1>2, InitOnce, HandoffInvariant, PTL DEF HandoffSpec
=============================================================================
