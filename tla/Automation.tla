----------------------------- MODULE Automation -----------------------------
(***************************************************************************)
(* What the automation does through state that processes share: the        *)
(* circuit breaker, counters in Redis (fiverr_monitor._counter,            *)
(* ratelimit.consume_daily_action), and the JSON values of AdapterState    *)
(* (vault.py StateStore), which are read, changed and written back whole.  *)
(*                                                                         *)
(* Three pipelines run on it, each on its own platform: the buyer-request  *)
(* monitor (fiverr), bids and won-bid learning (freelancer), and the       *)
(* agency's record of submissions (upwork).  platform chooses one of them. *)
(***************************************************************************)
EXTENDS CircuitBreaker, Sequences

CONSTANTS Platforms,     \* subset of {"fiverr", "freelancer", "upwork"}
          Requests,      \* buyer requests
          Batches,       \* bound: what a worker posts at a time
          OfferLimit,    \* FIVERR_DAILY_OFFER_LIMIT
          Proposals,     \* proposals handed to the agency
          Quota,         \* monthly_bid_quota
          DailyCap,      \* GIGHOUND_DAILY_CAP_*
          MaxAttempts,   \* of request_with_retry
          MaxSamples,    \* _MAX_SAMPLES, the winning bids that are kept
          MaxWins        \* bound: bids won

ASSUME LimitsAssumption ==
    /\ Batches \subseteq SUBSET Requests /\ {} \notin Batches
    /\ {OfferLimit, Quota, DailyCap, MaxAttempts, MaxSamples} \subseteq Nat \ {0}

VARIABLES platform,
          run,       \* run[p]: the pipeline process p is in
          offers,    \* buyer requests stored as a job with an offer to review
          counter,   \* today's counter in Redis
          own,       \* own[p]: today's _local_counters of p
          store,     \* AdapterState: bid_quota, rate_feedback, pending_submissions
          lock,      \* who holds the lock on rate_feedback
          history    \* what really happened, beside what the values say

work == <<offers, counter, own, store, lock, history>>
vars == <<breaker, platform, run, work>>

\* A record of the agency: queued, and in the end completed.
Record == Proposals \X {"pending", "completed"}

\* A winning bid is known by its number.
Samples == Seq(Nat)

Store == [used : Nat, samples : Samples, queue : SUBSET Record]

\* read: what the pipeline read from the store; todo: requests of the batch.
Run == [op : {"none", "offers", "bid", "won", "handoff", "complete"},
        pc : {"idle", "check", "next", "count", "insert", "post", "read", "write", "unlock"},
        todo : SUBSET Requests, item : Requests \cup Proposals \cup Nat,
        tries : Nat, read : Store]

NoStore == [used |-> 0, samples |-> <<>>, queue |-> {}]
Pipeline(op, pc, todo, item) ==
    [op |-> op, pc |-> pc, todo |-> todo, item |-> item, tries |-> 0, read |-> NoStore]
Idle == Pipeline("none", "idle", {}, 0)

Nobody == 0

ASSUME NobodyAssumption == Nobody \notin Procs

Init ==
    /\ BreakerInit
    /\ platform \in Platforms
    /\ run = [p \in Procs |-> Idle]
    /\ offers = {} /\ counter = 0 /\ own = [p \in Procs |-> 0]
    /\ store = NoStore /\ lock = Nobody
    /\ history = [confirmed |-> 0, hired |-> 0, wins |-> <<>>, slow |-> FALSE,
                  handed |-> {}, completed |-> {}]

Quiet == \A p \in Procs : run[p] = Idle
MayBegin == mode = "overlap" \/ Quiet

At(p, op, pc) == run[p].op = op /\ run[p].pc = pc
Goto(p, pc) == run' = [run EXCEPT ![p].pc = pc]
End(p) == run' = [run EXCEPT ![p] = Idle]

Begin(p, on, op, pc, item) ==
    /\ MayBegin /\ run[p] = Idle /\ platform = on
    /\ run' = [run EXCEPT ![p] = Pipeline(op, pc, {}, item)]
    /\ UNCHANGED <<platform, work>>

-----------------------------------------------------------------------------
(* process_buyer_requests                                                  *)

\* A worker posts what it scraped; the breaker is asked first.
PostRequests(p) ==
    /\ MayBegin /\ run[p] = Idle /\ platform = "fiverr"
    /\ \E batch \in Batches :
          run' = [run EXCEPT ![p] = Pipeline("offers", "check", batch, 0)]
    /\ BeginCheck(p)
    /\ UNCHANGED <<up, outages, shared, mine, token, ownToken, mode, trips, halted, onTrial, platform, work>>

CheckGoesOn(p) ==
    /\ CheckStep(p)
    /\ UNCHANGED <<platform, run, work>>

CheckDone(p) ==
    /\ At(p, "offers", "check") /\ chk[p].pc \in {"admitted", "refused"}
    /\ IF chk[p].pc = "admitted" THEN Goto(p, "next") ELSE End(p)
    /\ chk' = [chk EXCEPT ![p] = NoCheck]
    /\ UNCHANGED <<up, outages, shared, mine, token, ownToken, mode, trips, halted, onTrial, platform, work>>

\* The next request of the batch; one that is stored already is passed over.
NextRequest(p) ==
    /\ At(p, "offers", "next")
    /\ \/ run[p].todo = {} /\ End(p)
       \/ \E r \in run[p].todo :
             run' = [run EXCEPT ![p].todo = @ \ {r}, ![p].item = r,
                                ![p].pc = IF r \in offers THEN "next" ELSE "count"]
    /\ UNCHANGED <<breaker, platform, work>>

\* Mutant of WithinLimit: the counter is compared before it is incremented.
WithinLimitBefore(n) == n - 1 <= OfferLimit

WithinLimit(n) == n <= OfferLimit

\* INCR; counts above the limit are not told apart (bound).
Count(n, limit) == IF n > limit THEN n ELSE n + 1

\* _counter: the increment is the check.  A process that has no client counts
\* for itself; one whose client fails gives the cycle up.
CountOffer(p) ==
    /\ At(p, "offers", "count")
    /\ \/ /\ up /\ counter' = Count(counter, OfferLimit)
          /\ IF WithinLimit(counter + 1) THEN Goto(p, "insert") ELSE End(p)
          /\ UNCHANGED own
       \/ /\ ~up /\ own' = [own EXCEPT ![p] = Count(@, OfferLimit)]
          /\ IF WithinLimit(own[p] + 1) THEN Goto(p, "insert") ELSE End(p)
          /\ UNCHANGED counter
       \/ ~up /\ End(p) /\ UNCHANGED <<counter, own>>
    /\ UNCHANGED <<breaker, platform, offers, store, lock, history>>

\* The job's unique key settles a race for one request.
InsertOffer(p) ==
    /\ At(p, "offers", "insert")
    /\ offers' = offers \cup {run[p].item}
    /\ Goto(p, "next")
    /\ UNCHANGED <<breaker, platform, counter, own, store, lock, history>>

-----------------------------------------------------------------------------
(* FreelancerAdapter.place_bid                                             *)

\* bids_remaining is looked up before anything else.
ReadQuota(p) ==
    /\ store.used < Quota
    /\ Begin(p, "freelancer", "bid", "count", 0)
    /\ UNCHANGED breaker

\* consume_daily_action: an increment and a comparison; no budget without Redis.
CountCall(p) ==
    /\ run[p].op \in {"bid", "handoff"} /\ run[p].pc = "count"
    /\ counter' = IF up THEN Count(counter, DailyCap) ELSE counter
    /\ IF up /\ counter + 1 > DailyCap
       THEN End(p)
       ELSE Goto(p, IF run[p].op = "bid" THEN "post" ELSE "read")
    /\ UNCHANGED <<breaker, platform, offers, own, store, lock, history>>

\* request_with_retry repeats the POST while no answer comes back, whether or
\* not the bid arrived, and gives up after MaxAttempts.
PostBid(p) ==
    /\ At(p, "bid", "post")
    /\ \/ /\ run[p].tries + 1 < MaxAttempts
          /\ run' = [run EXCEPT ![p].tries = @ + 1]
          /\ UNCHANGED history
       \/ End(p) /\ UNCHANGED history       \* refused, or given up
       \/ /\ Goto(p, "read")
          /\ history' = [history EXCEPT !.confirmed = @ + 1]
    /\ UNCHANGED <<breaker, platform, offers, counter, own, store, lock>>

-----------------------------------------------------------------------------
(* StateStore: the value is read, changed and written whole                *)

\* Mutant of Win: without the lock.
WinUnlocked(p) ==
    /\ history.hired < MaxWins
    /\ MayBegin /\ run[p] = Idle /\ platform = "freelancer"
    /\ run' = [run EXCEPT ![p] = Pipeline("won", "read", {}, history.hired + 1)]
    /\ history' = [history EXCEPT !.hired = @ + 1]
    /\ UNCHANGED <<breaker, platform, offers, counter, own, store, lock>>

\* rate_learning.record_winning_bid: under a lock, unless Redis is away or
\* the lock is not free within five seconds.
Win(p) ==
    /\ history.hired < MaxWins
    /\ MayBegin /\ run[p] = Idle /\ platform = "freelancer"
    /\ \/ /\ up /\ lock = Nobody /\ lock' = p
          /\ history' = [history EXCEPT !.hired = @ + 1]
       \/ /\ ~up \/ lock # Nobody
          /\ history' = [history EXCEPT !.hired = @ + 1, !.slow = TRUE]
          /\ UNCHANGED lock
    /\ run' = [run EXCEPT ![p] = Pipeline("won", "read", {}, history.hired + 1)]
    /\ UNCHANGED <<breaker, platform, offers, counter, own, store>>

\* The lock's own timeout, ten seconds, passes before its holder is done.
LockLapses ==
    /\ lock # Nobody
    /\ lock' = Nobody /\ history' = [history EXCEPT !.slow = TRUE]
    /\ UNCHANGED <<breaker, platform, run, offers, counter, own, store>>

\* The agency hands a proposal to the browser, once.
HandOff(p) ==
    \E x \in Proposals \ history.handed :
       /\ \A q \in Procs : run[q].op = "handoff" => run[q].item # x
       /\ Begin(p, "upwork", "handoff", "count", x) /\ UNCHANGED breaker

\* _apply_submission_outcome reports the worker's result.
Complete(p) ==
    \E x \in history.handed \ history.completed :
       /\ \A q \in Procs : run[q].op = "complete" => run[q].item # x
       /\ Begin(p, "upwork", "complete", "read", x) /\ UNCHANGED breaker

ReadStore(p) ==
    /\ run[p].pc = "read"
    /\ run' = [run EXCEPT ![p].pc = "write", ![p].read = store]
    /\ UNCHANGED <<breaker, platform, work>>

\* samples[-_MAX_SAMPLES:]
Latest(seq) ==
    SubSeq(seq, IF Len(seq) > MaxSamples THEN Len(seq) - MaxSamples + 1 ELSE 1, Len(seq))

\* Mutant of Changed: completing a submission drops the other records.
ChangedAlone(v, op, x) ==
    CASE op = "bid"      -> [v EXCEPT !.used = @ + 1]
      [] op = "won"      -> [v EXCEPT !.samples = Latest(Append(@, x))]
      [] op = "handoff"  -> [v EXCEPT !.queue = @ \cup {<<x, "pending">>}]
      [] op = "complete" -> [v EXCEPT !.queue = {<<x, "completed">>}]

\* What the pipeline makes of the value it read.
Changed(v, op, x) ==
    CASE op = "bid"      -> [v EXCEPT !.used = @ + 1]
      [] op = "won"      -> [v EXCEPT !.samples = Latest(Append(@, x))]
      [] op = "handoff"  -> [v EXCEPT !.queue = @ \cup {<<x, "pending">>}]
      [] op = "complete" -> [v EXCEPT !.queue = {IF r[1] = x THEN <<x, "completed">> ELSE r : r \in @}]

\* One key is written, so the other keys are not touched.
WriteStore(p) ==
    LET v == Changed(run[p].read, run[p].op, run[p].item)
        x == run[p].item
    IN  /\ run[p].pc = "write"
        /\ store' = CASE run[p].op = "bid" -> [store EXCEPT !.used = v.used]
                      [] run[p].op = "won" -> [store EXCEPT !.samples = v.samples]
                      [] OTHER             -> [store EXCEPT !.queue = v.queue]
        /\ history' = CASE run[p].op = "won"      -> [history EXCEPT !.wins = Append(@, x)]
                        [] run[p].op = "handoff"  -> [history EXCEPT !.handed = @ \cup {x}]
                        [] run[p].op = "complete" -> [history EXCEPT !.completed = @ \cup {x}]
                        [] OTHER                  -> history
        /\ IF run[p].op = "won" THEN Goto(p, "unlock") ELSE End(p)
        /\ UNCHANGED <<breaker, platform, offers, counter, own, lock>>

Unlock(p) ==
    /\ At(p, "won", "unlock")
    /\ lock' = IF lock = p THEN Nobody ELSE lock
    /\ End(p)
    /\ UNCHANGED <<breaker, platform, offers, counter, own, store, history>>

-----------------------------------------------------------------------------
\* A step of the breaker's surroundings; only the fiverr pipeline asks it.
BreakerMoves ==
    /\ platform = "fiverr"
    /\ \/ \E p \in Procs : MayBegin /\ (Close(p) \/ \E s \in Scopes : Open(p, s))
       \/ \E s \in Scopes : Cool(s) \/ TokenLapses(s)
       \/ \E p \in Procs, s \in Scopes : OwnTokenLapses(p, s)
    /\ UNCHANGED <<platform, run, work>>

RedisMoves ==
    /\ Outage
    /\ UNCHANGED <<platform, run, work>>

Step(p) == \/ CheckGoesOn(p) \/ CheckDone(p) \/ NextRequest(p) \/ CountOffer(p)
           \/ InsertOffer(p) \/ CountCall(p) \/ PostBid(p) \/ ReadStore(p)
           \/ WriteStore(p) \/ Unlock(p)

Next == \/ \E p \in Procs : PostRequests(p) \/ ReadQuota(p) \/ Win(p) \/ HandOff(p)
                             \/ Complete(p) \/ Step(p)
        \/ LockLapses \/ BreakerMoves \/ RedisMoves

\* Handlers run on, workers post, and time passes.
Fairness ==
    /\ \A p \in Procs : WF_vars(Step(p)) /\ SF_vars(PostRequests(p))
    /\ \A s \in Scopes : /\ WF_vars(Cool(s) /\ UNCHANGED <<platform, run, work>>)
                         /\ SF_vars(TokenLapses(s) /\ UNCHANGED <<platform, run, work>>)

Spec == Init /\ [][Next]_vars /\ Fairness

-----------------------------------------------------------------------------
\* Every variable stays in its type.
TypeOK ==
    /\ BreakerTypeOK
    /\ platform \in Platforms /\ run \in [Procs -> Run]
    /\ offers \subseteq Requests /\ counter \in Nat /\ own \in [Procs -> Nat]
    /\ store \in Store /\ lock \in Procs \cup {Nobody}
    /\ history \in [confirmed : Nat, hired : Nat, wins : Seq(Nat), slow : BOOLEAN,
                    handed : SUBSET Proposals, completed : SUBSET Proposals]

\* The daily cap on offers holds over all processes; an outage of Redis
\* costs at most one cap more for every process that counted for itself.
OffersCapped ==
    Cardinality(offers) <= OfferLimit * (1 + Cardinality({p \in Procs : own[p] > 0}))

\* The lock keeps the winning bids: what is stored are the latest MaxSamples
\* that were recorded, none missing in between, unless somebody went on
\* without the lock or held it for too long.
SamplesKept == ~history.slow => store.samples = Latest(history.wins)

\* While its writers do not overlap, the value that is written whole loses
\* nothing: confirmed bids are counted and stay within the monthly quota, and
\* every submission of the agency is on record, completed when it was.
StoreKept ==
    mode # "overlap" =>
        /\ history.confirmed <= Quota
        /\ Quiet => store.used = history.confirmed
        /\ \A x \in history.handed :
              <<x, IF x \in history.completed THEN "completed" ELSE "pending">> \in store.queue

\* However often it was opened, the circuit lets a task through again.
NeverShutForGood ==
    (mode = "calm" /\ platform = "fiverr") ~> (\E p \in Procs : chk[p].pc = "admitted")
=============================================================================
