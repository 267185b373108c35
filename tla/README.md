# GigHound: a TLA+ model of the backend, its workers and its browser client

GigHound finds freelance jobs, drafts proposals with a language model, puts
each draft in front of a human reviewer, and dispatches what the reviewer
approves: as a bid through the freelancer.com API, or as a task for a pool of
Playwright workers that drive a browser. The promise everything else rests on
is the *human-in-the-loop boundary*: nothing leaves for a platform that a human
has not approved, and an approval pays for one call of an adapter. The call is
not the bid: the HTTP layer repeats a POST that ends in a transport error, a
timeout, 429 or 5xx up to five times (`adapters/ratelimit.py:140-184`), so that
one approval may place more than one bid. That is the first thing the models of
the queue say, and a finding (`rq_second_bid`).

These modules model the code under `src/backend/app`, `src/worker` and, for the
live alerts, `src/frontend/src`. Line numbers below refer to those files;
`PROJECT.json` maps every definition to the lines it stands for, lists the
hazards with the properties about them, and gives for every property a mutation
of the code's model that breaks it.

## 1. Inventory

**Processes.** One or more uvicorn processes (FastAPI): synchronous handlers run
in a thread pool, `async` handlers share the event loop and are atomic between
two `await`s. A Celery beat and a prefork Celery worker run the scheduled ticks
and the LLM generation. Any number of browser worker processes poll the backend
over HTTP. State is in PostgreSQL (READ COMMITTED); Redis holds caches,
counters, the circuit breakers and the pub/sub channel, each with a fallback.
SQLAlchemy sessions are opened with `autoflush=False, expire_on_commit=False`
and no row has a version column: a session writes exactly the columns it
changed relative to the copy it loaded, and a JSON column is written whole.

| Part | State | Operations | What is hard, and what should hold | Module |
|---|---|---|---|---|
| Review queue (`routers/proposals.py`) | `proposal_queue`: status, texts, versions | approve, bulk approve, reject, revert, mark submitted, submit, regenerate, verdict | check-then-write on stale copies; failure between claim and dispatch; a POST repeated below the claim. An approval pays for one call with the text it was given for; settled rows stay settled; a claim ends | `ReviewQueue`, `Handoff` |
| Adapter endpoints (`routers/adapters.py`) | the same row | `freelancer_bid`, `upwork_submit_proposal` | a second way to dispatch, without the claim | `AdapterEndpoints` |
| Stealth tasks (`routers/gigs.py`, `stealth.py`, reaper) | `stealth_tasks`: status, claimant, reclaims | enqueue, poll, claim, complete, reap | crashes, lost answers, overlong tasks. One click per claim, and for an approval that paid for it; no task lingers | `TaskPool`, `Handoff` |
| Browser worker (`src/worker`) | the task in hand, warm browsers | sweep, claim, execute, report | dies between click and report; keeps a dead session warm | `TaskPool`, `Sessions` |
| Sessions, vault (`routers/credentials.py`, `adapters/vault.py`, `worker/browser.py`) | accounts, secrets, browser profiles | enrol, delete, serve, seed, reap idle | a dead session is given up, a new one takes effect | `Sessions` |
| Generation (`orchestrator.py`, `tasks.py`) | rows of a job, retry counter in a JSON column | gates, generate, regenerate, retry beat, archive, retention | racing generations; stale copies. One live row per job; a bounded, exact retry budget | `Generation` |
| Drafts (`proposal_gen.py`, `antidetect.py`, `textgen.py`) | text, bid, flags, pool of openings | analyze, write, filter, humanize, price | what is distrusted is flagged; no bid above the client's maximum | `Drafting` |
| Outcomes (`templates.py`, `outcome_sync.py`, `proposal_status_sync.py`) | outcome, template statistics | mark, sync by API, sync by scraping | three writers of one JSON value and one counter | `Outcomes` |
| Follow-ups (`follow_up.py`) | follow-up rows beside their parent | due tick, manual draft, review | no nagging | `Outcomes`, `Drafting` |
| Circuit breaker (`circuit_breaker.py`) | Redis keys per platform and tenant, a trial token, copies per process | check, open, close, release | one trial at a time over two scopes; Redis away | `CircuitBreaker` |
| Fiverr monitor (`fiverr_monitor.py`) | daily counters, buyer requests | ingest, queue offers, fetch task | the daily cap over processes | `Automation`, `Sessions` |
| Agency and bid adapters, learning (`adapters/`, `rate_learning.py`) | JSON values in a state store, quotas | submit, complete, bid, record a win | read-modify-write by two processes | `Automation` |
| Ingest, discovery, filters (`ingest.py`, `discovery.py`, `filtering.py`) | `jobs`, pacing slots, profiles | ingest a batch, search, archive | reposts under overlapping ingests; every offer, and only those, that the tenant asked for | `Intake` |
| Search language (`boolquery.py`) | none | parse, evaluate, search terms | means what its grammar says | `BoolQuery`, `QueryTrees` |
| Alerts (`ws_manager.py`, `routers/alerts.py`, `useAlertsSocket.ts`, `JobFeed.tsx`, `ProposalQueue.tsx`) | tickets, sockets, subscriber, client list and view | ticket, connect, send loop, reconnect, refetch, mount | sockets that change during a send, bursts, late answers. A client that is connected shows every event but those lost in ways that are named one by one | `Alerts` |

How they interact: ingest hands a job to generation over the Celery broker;
generation leaves a row in the review queue; the queue dispatches to an adapter
or enqueues a stealth task; the worker's verdict and the outcome syncs come back
to the row; every tick that creates work for a browser asks the circuit breaker,
which the tasks' failures open; every change is published to the alerts.

## 2. What is modelled

### `ReviewQueue`, with `ApprovalLedger` and `AdapterEndpoints`

`ReviewQueue` follows one row of `proposal_queue` and every handler that writes
its status or text. A handler is a record in `req`: it loads the row (`Read...`,
which keeps the copy in `snap`), decides on the copy, and later commits.
`Flush(snap, new)` is the UPDATE of a session: only the columns in which `new`
differs from `snap` reach the row. `Claim` is the one conditional UPDATE
(`WHERE status = 'approved'`). `submit_proposal` is `ReadSubmit`, `Claim` or
`ClaimLost`, then one of `Release` (an `HTTPException` before the dispatch,
only as long as nothing was attempted), `FailDispatch`, `EnqueueUpwork` and
`PlaceBid`, then `Finish` or `FailSent`. The POST of a bid is
`request_with_retry`: `RepeatBid` is an attempt that is followed by another,
whether it reached the platform (its answer was lost or bad) or not; `PlaceBid`
one that reached it and is the last, with a good answer (`finish`) or not
(`fail`); `FailDispatch` also the last one when it did not arrive. `MaxAttempts`
is the parameter of the retry (5 in the code). Approving a fiverr buyer request
continues in `_dispatch_fiverr_offer`: `Refresh`, `SkipOffer` or `EnqueueOffer`,
`Finish`. `HandOver` is what the two enqueueing steps have in common; `Ask` and
`Proceed` are the steps of a handler that are not one, and `Conclude` is the
commit of a worker's verdict. `CrashSpec` adds `Crash`: the process of a handler
dies between two of its commits, and the handler is gone.

The row keeps two texts because the code does: `text` (`proposal_text`, which
the reviewer judges and the bid API receives) and `humanized`
(`humanized_text`, which the browser types when it is not empty). `ledger` is
history, not code: a *token* stands for one approval, minted when the reviewer's
request arrives; it records the text it was given for and what was dispatched on
its strength, call by call (`calls`) and message by message (`sent`).
`ApprovalLedger` is the abstract promise: a token is granted once (`Grant`), an
open one pays for one call (`Call`), which may repeat itself within a limit
(`Repeat`) and when it is over leaves the token spent for good (`Settle`); an
overtaken token is void for good (`Lapse`). `ReviewQueue` implements it under the
mapping at the end of the module (`LedgerSpec`). `AdapterEndpoints` adds the two
write endpoints of `routers/adapters.py`, which look at the status only and
claim nothing; `freelancer_bid` repeats its POST in the same way (`RepeatSend`).

### `TaskPool` and `Handoff`

`TaskPool` has the tasks that submit a proposal through a browser, the workers,
and the reaper. `task[t]` is the row; `worker[w]` the process (idle, working,
clicked, reporting); `completion[w]` the backend's `/complete` handler between
its read and its commit; `zombies` what the reaper has loaded and not yet
written. Both write the row by its id alone and can overwrite each other.
`clicks[t][e]` counts the submit clicks made under claim `e`. Worker ids are
never reused by two live processes. A slow worker is one whose task may outlive
the 15-minute claim timeout: the deadline is checked only at pacing points
(`worker/browser.py:183-211`).

`Handoff` joins the pool to the queue. It EXTENDS `ReviewQueue` and `TaskPool`:
`EnqueueTask` is a handler's `HandOver` and the insert of the task, `LoadItem`
and `SettleRow` are the report's read of the row and its commit of task and
row, and every other step belongs to one of the two. A task is named by the
approval that pays for it, and the handler of worker `w`'s report is the
request `w` of the queue. A task that is skipped because its circuit is open
never runs and is left out, `Release` and `SkipOffer` being what it does to the
row; so is the adapters' own `upwork_submit_proposal`. Two reports of one task
may overlap in two processes of the backend, and the later verdict is then
written over the earlier one. The backend itself does not die here between the
commit of a task and the row's `queued_for_browser`; `CrashSpec` has that crash
for the queue alone.

### `Generation` and `Drafting`

`Generation` is one job with its rows: `Start`/`Refuse` take a message from the
broker and decide what to draft (`Starts`: the newest failed row, or a fresh one
if the gates pass), the LLM answers minutes later, and `Commit` writes the copy
back. Two guards are in the database and are modelled as what they do to a
commit: the partial unique index (`IndexAllows`) and the foreign key from a row
to its job. The retry beat (`TickLoad`, `TickEnqueue`, `TickCount`,
`TickCrash`), the manual retry, the reviewer's decisions, archiving, auto-archive
and retention run between any two of its steps; a Celery worker may die with its
message (`Crash`). `autos` and `lost` are history: the automatic retries since
the budget was last granted, and counts taken away by a write from a stale copy.
`calm`, chosen once, says whether steps may overlap.

`Drafting` is what one such generation writes: `Analyze`, `Write` or
`WriteOffline`, the opening drawn from a pool in Redis (`LookForPool`,
`FillPool`, `DrawOpening`), and `Package`, which filters prompt internals,
humanizes, flags and prices. A text is the set of the kinds of its lines. Money
is in cents and the arithmetic of the bid is exact (multiples of a cent/1200;
`Cents` rounds). What the model answers and what the job says is chosen by
`world`. `MCGeneration` extends both and explores either the rows or one draft
(`part`): the two share no variable, since a row's text does not influence the
pipeline's control.

### `Outcomes`

One sent proposal, its template and its follow-ups, with the writers that
compete for them: `ReadMark`/`CommitMark`, `ClaimSubmit`/`CommitSubmit` (the bid
is confirmed, handed to the browser, fails, or the claim is released with what
the release leaves of the result), `ReadPrep`/`CommitPrep` (a cached LLM sheet),
the poll `ReadSync`, `SyncBid`, `SyncReply`, the scraping task `EnqueueScrape`,
`ReadPage`, `ReadStatus`, `CommitStatus`, `StatusReply`, and the follow-ups
`ReadDraft`, `ReadDue`, `InsertFollowUp`, `ReviewFollowUp`. Each works on the
copy it loaded (`run[h].copy`); `Merged` is the UPDATE of the JSON column.
`crew` bounds who is about in a run: two requests of the user, a request and a
background job, or two background jobs.

### `CircuitBreaker` and `Automation`

`CircuitBreaker` is `check` over both scopes, platform-wide first, with every
Redis command a step (`Look`, `HalfOpen`, `Acquire`), the transitions (`Open`,
`Close`, with `FreeSlot` for `_release_trial`), the cooldown, the lapse of
tokens, and the copies and tokens a process keeps for itself while Redis is
away. `halted` and `onTrial` are history. `Automation` EXTENDS it with the
pipelines that share state: the buyer-request monitor (breaker, daily counter,
insert), a freelancer bid (quota, budget, a POST that is repeated when no answer
comes, the quota counted after it), a won bid (under a lock that is skipped when
Redis is away or it is not free within five seconds, and lapses after ten), and
the agency's record of submissions. `ReadStore` and `WriteStore` are the two
halves of a read-modify-write of one JSON value. `mode`, chosen once, is `calm`
(pipelines one after the other), `overlap` or `outage`.

### `QueryTrees`, `BoolQuery`, `Intake` and `Sessions`

`QueryTrees` has the trees of queries with the evaluator and the search terms,
as recursive functions on trees of bounded height. `BoolQuery` adds the
recursive-descent parser. A method of `_Parser` is an operator on the place where
it starts reading (`NotPart`, `AndPart`, `OrPart`), a loop the sequence of what it
has read after each round (`AndRound`, `OrRound`), and `NotParts` has what `_not`
reads at every place for each number of levels that `_descend` still allows: a
method calls itself through `_descend` only. Beside it stands `Meaning`, a
reference semantics written from the docstring's grammar, one part of `Derive` for
each rule: what a query means under every way to read it.

`Intake` is `run_ingest` posting by posting (`Take`, `Insert`,
`Decide`, `Offer`, `Notify`, `Crash`) in several processes, the gates it runs
inline, the filters' criteria with what a silent posting means to each,
discovery under its pacing lock and by hand, search profiles and archiving.
Scores and fuzzy similarity are facts of a posting. `Intake` judges by what the
parser makes of a query (`Parse`, `Evaluate`); what the tenant asked for is what
the query means (`Meaning`).

`Sessions` is one tenant's browser session: accounts and vault, tasks, the
tenant's circuit, and a worker whose warm browser keeps what it was seeded
with. Time goes in quarters of an hour. `MCIntake` extends `Intake` and
`Sessions` and explores either jobs or the session (`part`); they share no
variable.

`Sessions` assumes that a task takes less than a quarter of an hour, that an
expired session is noticed by the task that meets it, and that the worker is up
to its sweep (`Busy = FALSE`): idle browsers are closed only at the start of a
sweep (`runner.py:140`), so a worker whose sweep never ends because other
tenants' tasks fill it would keep a dead browser warm. Creating and deleting
accounts is left out. A re-enrolled `storage_state` is applied at every launch;
when the backend cannot be reached, the profile on disk is used.

### `Alerts`

From a committed change, over Redis pub/sub or the publishing process itself, to
the sockets of a server (`Publish`, `Forward`), through the one-time ticket
(`GetTicket`, `TicketLapses`, `Connect`, `Rejected`), to the hook's capped list
(`Receive`) and the view (`Consume`, `Answer`, `NoAnswer`): `kind` is the job
feed, which shows pushed rows, or the proposal queue, which reloads.

One socket of a tenant is followed. A server sends an event in a loop with an
`await` per socket, and `conn.turns` holds the events whose loop has not come to
this one: `SendText` is its turn, `OtherSocket` another socket of the tenant that
joins or leaves meanwhile, upon which the loop's next step raises and the
sockets that were still to come get nothing. (A join and a leave in one `await`,
which restore the set's size, go unnoticed by Python and lose nothing; they are
left out.) The subscriber waits for its loop (`conn.sub`); the loops of a process
that publishes while Redis is away run beside each other.

The view remembers the message it saw last; `view.idx` is that message's place
in the list, which is what `useNewAlertMessages` finds by identity
(`useAlertsSocket.ts:187`). `Unseen` is what the hook then hands over: the
messages before it, oldest first, or only the newest when it rolled out of the
list, or none when none was seen before. `Remount` is the user who comes back to
the view; leaving clears the list.

A commit and its publication are one step, as are accepting a socket and
registering it, and a request for the rows and the snapshot its answer will
hold. `missed` is history: what was lost in a way that the code gives up. Each
action that loses something adds what *this* step loses for *its* reason; what
the hook's rules pass over (`PassedOver`) is written down from the rules, not as
the difference to what the view happened to compute, so that a hook that hands
over less than its rules say fails `ViewComplete`.

### Runs

| Run | Question | Instance | Result |
|---|---|---|---|
| `parts` | Queue and pool, each by itself: is every endpoint right when requests do not overlap? Do crashes, lost answers, slow workers and the reaper keep the task queue right? | 1 handler, 2 texts, 2 approvals, all platforms, 1 call of an adapter endpoint per approval, 2 attempts of a POST; 1 task, 2 workers, one of them slow, 3 reclaims | holds, 406,276 states |
| `rq_overlap` | Does an approval pay for one call when two handlers overlap, and die, in every way, and does the queue implement the ledger? | 2 handlers, 1 text, 2 approvals, 2 attempts; the API, upwork and fiverr paths | holds, 350,079 states |
| `rq_typed_draft` | Does the browser type what was approved? | 1 handler, upwork | **no** |
| `rq_second_bid` | Does one approval place one bid? | 1 handler with the adapter endpoints, 2 attempts of a POST | **no** |
| `st_retried` | Is a click never repeated? | 1 task, 2 workers, none of them slow | **no** |
| `st_stranded` | Does a task that fails for good tell its row? | `Handoff` with 1 user, 1 worker, 1 approval | **no** |
| `handoff` | Do queue and workers together do what each promises, and is every click paid for? | 1 user, 2 workers, one of them slow, 2 approvals and tasks, 1 text, 1 reclaim; all platforms | holds, 648,283 states |
| `generation` | Do racing generations, retries, reviews, archiving and crashes keep one live row and an exact retry budget, and what becomes of a draft? | 2 workers, 2 rows, 1 retry, 2 automatic retries; 100 worlds of `Drafting`, 2 openings | holds, 230,371 states |
| `outcomes` | Does a proposal keep its outcome, its credit and its bid id among all their writers? | 2 requests of the user, 2 background jobs, two of them about at a time; both platforms | holds, 143,292 states |
| `automation` | Do trial token, counters, lock and stored values hold over two processes, with overlap or an outage? In calm: does a circuit that opens again and again let nobody in before its cooldown, and somebody after it? | 2 processes, 2 scopes, 2 requests, 2 proposals, limits of 1 to 3, 3 wins of which 2 are kept; 1 opening and 1 outage, or 3 openings in calm | holds, 274,391 states |
| `intake` | Does a query mean what it says, is exactly what was asked for offered, and does a dead session end? | every query of up to 4 tokens and the well-begun ones of 5 over 2 words; 2 postings; 1 worker, 2 logins, 2 tasks | holds, 484,788 states |
| `alerts` | Does a browser show everything but what the code gives up, and nothing of another tenant, after bursts, reconnects and outages? Does it get its socket back? | 2 tenants, 1 server, a list of 3, 2 requests, 2 mounts of a view, 1 outage, 1 drop, 3 events; a fourth event where there is one tenant and its connection holds | holds, 864,693 states |

### What the properties say

- `BidAsApproved`, `ClosedForGood`, and `ClaimIsHeld` (a row in `submitting` has
  a handler that is about to end that): requests one at a time, none of which
  dies. `OneCallPerApproval`, `LedgerSpec`: in every overlap, and with crashes. Both
  are about calls: a call delivers one browser task, or up to `MaxAttempts` bids.
- `OneClickPerClaim`, `OverlapOnlyBySlow`, `TasksSettle`: the task queue with
  crashes and lost answers.
- `EachAsSpecified`: queue and pool, composed, each behave as their own module
  says (`Spec` and `PoolSpec`), so what holds of one alone
  holds of it here. `ClicksArePaidFor` spans the two: no click without an
  approval that paid for this task alone. `HonestOutcome`: a row is called
  submitted for a bid, a human's word or a click. `OneTaskPerRow`: a row is
  handed over once, however late or often the workers report, while the users'
  requests do not overlap; with one user the run has no others.
- `OneLiveRow`, `RowsKeepTheirJob`: in every overlap, by the database's two
  guards and by what the code does when they refuse. `RetriesCounted`: every
  automatic retry is in its row's counter, is about to be, or was taken away by
  a write from a stale copy, which the model counts; so the budget leaks nowhere
  else. `DecisionStandsAlone`: while steps do not overlap, what the reviewer
  decided does not come back for review except by a revert; with overlap it
  does (`orchestrator.py:286`). `FailedIsRetried`: liveness.
- `BidWithinBudget`: whatever the rate card, its floor and the winning bids.
  `BulkOnlyTrusted`: bulk approval passes nothing that was written with prompt
  internals or below the confidence floor; with two overlapping generations of
  a row a stale `needs_review` lets one through. `OpeningsRotate`: unless two
  processes fill the pool at once.
- `SyncCreditsOnce`,
  `AsksOnce`: unless two polls, or two due ticks, of one tenant overlap, which
  do credit and ask twice (the checks are made on loaded copies). `AsksOnce`
  also grants one more automatic follow-up for each that was dispatched, since
  dispatching replaces the `submission_result` that names its parent.
  `BidKept`: unless a request of the user had loaded the row before the bid was
  confirmed and ends after it (`proposals.py:337`, the interview sheet).
  `OutcomeFound`: liveness.
- `OneTrial`, `CooldownHolds`, `NeverShutForGood`: the breaker. The trial token
  is the only bound on a half-open circuit that nobody closes. With an outage or
  with transitions in the middle of checks, a stale `half_open` overwrites a
  fresh `open`: `CooldownHolds` is about calm runs. `NeverShutForGood` is checked
  with three openings: one after a failed trial, one in the other scope, so that a
  task which took the platform's token is refused by the tenant's scope.
- `OffersCapped`: over processes, with an allowance for those that counted for
  themselves without Redis. `SamplesKept`: the list is what is left of all wins after the
  cut to the last twenty, none missing and in their order, unless somebody went
  on without the lock or held it too long. `StoreKept`: while writers do not overlap; when they
  do, one of two values written whole is lost.
- `ReadAsWritten`, `TermsFindMatches`: the language against its grammar, and the
  searches made for a query against what it matches.
- `OfferedIffWanted`, `OneOfAKind`, `ArchivingStands`: ingest. Overlapping
  ingests of two reposts mark neither, and `notified` is written over an archive
  that came in between (`ingest.py:176`).
- `DeadBrowserGivenUp`, `SessionRecovers`: a dead session costs a bounded number
  of failures, and a re-enrolled one takes effect.
- `NoForeignEvents`, `SocketComesBack`, `ViewComplete`: the alerts. What
  `ViewComplete` excepts is what the code loses: events published before the
  first opening of the socket or while no subscriber listens, events in a send
  loop that another socket breaks (`ws_manager.py:69`), the first message a view
  is told of (`useAlertsSocket.ts:188`), all but the newest of a burst that rolls
  the message seen last out of the list, rows of a request that failed, and rows
  replaced by an answer that was asked for before them. Everything else arrives:
  a burst within the list, what was lost with a socket, what a late answer of the
  feed took back. The broken send loop and the first message contradict comments
  of the code (end of this section).

Conditions like "unless two polls overlap" are not stated to make a run pass:
each names the one interleaving, recorded in a history variable, in which the
code does what the property forbids, and the property says there is no other.
Several hazards are exactly such an interleaving: whole JSON values written by
overlapping processes (`upwork_agency.py:208`), a copy loaded before the bid was
confirmed (`proposals.py:337`), a late answer that replaces a pushed row
(`JobFeed.tsx:70`), reposts marked by overlapping ingests (`ingest.py`), an
archive during the job's own ingest (`ingest.py:176`). The properties do not
catch these, because the code does not prevent them: they show that nothing
else goes wrong.

**Bounds.** Two handlers, workers or processes suffice for every pairwise race
of a check and a write; a third adds the same races again, and the safety
properties of every passing run are proved for any number (section 3). Two
texts distinguish "the approved one" from "another"; `rq_overlap`, whose
properties do not look at texts, has one. Two approvals let one overtake the
other (with three, `rq_overlap` held in 1,489,497 states). Two attempts of a POST
are one that is repeated and the last (`MaxAttempts`). Two rows of a job let one come alive beside
another; one retry and two automatic ones put the counter at its limit and past
it (`MaxRetries = 2`, `MaxAutos = 4`, 1,093,432 states, was checked as well).
`Drafting`'s worlds put the client's maximum below, at and above what each
branch of the price computes. A template is credited by one mark and the syncs
of one proposal, which is every pair of writers of the counter. Offer limit,
quota and daily cap are one to three, so that each is reached. Five tokens hold
every pair of operators with a negation or a parenthesis; `MaxDepth = 2` stands
for the parser's limit and is reached; a tree is no higher than its query is
long (`MaxHeight = 5`). Two postings are one posting and its repost; their
facts range over every text of two words, and over silence about a strict and a
lax criterion. A session is replaced once; two tasks are the beat's and
another. A list of three and four events let a burst of two or three be handed
over whole, and the message seen last roll out (one tenant alone, with an outage
and a drop beside the four events, held in 1,562,972 states); one drop and one outage let
messages be overtaken and lost, two mounts let a view meet a list and a socket
that are already there. Two samples kept and three wins make the cut of the
list happen (`MaxSamples`, 20 in the code, and `MaxWins`). `MaxBids`, `MaxTrips`,
`MaxWins`, `MaxOutages`, `MaxMarks`, `MaxTyped`, `MaxMoves`, `MaxLogins`,
`MaxEvents`, `MaxDrops`, `MaxMounts`, `MaxLoads` and `MaxMessages` cap what the
code does not bound. `MaxReclaims =
3` is the code's constant. Symmetry is used only in `rq_overlap`, which checks
no liveness.

**Fairness.** `PoolFairness` (`parts`): weak fairness of the poll loop, of every
worker step (dying is one of the ends), of the halves of a completion, of time,
and of the reaper (a beat entry every five minutes). Nothing is asked of
requests, which end or die. `Generation!Fairness`: workers drain the broker and
the LLM call ends (its client has a timeout); strong for the beat, which comes
round again when it found the broker full, or, in a calm run, something else
under way. `Outcomes!Fairness`: handlers end; strong for the poll and for the
platform's answer, each of which may fail any number of times but not for ever.
`Automation!Fairness`: handlers run on, the cooldown passes, and, strongly,
workers post and tokens lapse (a token's lifetime is a minute). `Sessions`: a
worker goes on and time passes. `Alerts!Progress`: the hook's timers fire,
requests end, Redis comes back, and, strongly, a ticket is granted and redeemed
before it lapses. Deadlock checking is off where everything may end: the bounds
on requests, events and retries exhaust, and tasks settle. It is on in
`rq_overlap`, `handoff` and, for the queue, in `parts`.

### What the violated properties show

1. `rq_typed_draft`: approving with an edit, or reverting, changes
   `proposal_text` only. The upwork, agency and fiverr hand-offs send
   `humanized_text or proposal_text` (`proposals.py:68`, `:608`,
   `adapters.py:195`) and the worker types the first. The text from *before* the
   edit goes out, although the endpoint "sends exactly the queued proposal
   text".
2. `rq_second_bid`: `submit_proposal` claims the row so that a duplicate "loses the
   race here instead of placing a second real-money bid" (`proposals.py:529-532`).
   One approval can place several bids all the same. The POST of `place_bid` is
   repeated when its answer is lost, 429 or 5xx, whether or not the platform took
   the bid (`ratelimit.py:161-167`); the run shows this. And `freelancer_bid`
   leaves the row approved and can be called again; with `MaxAttempts = 1` the run
   shows that. Without the adapter endpoints (`Spec` for `AdapterSpec`) it shows
   one submit whose POST arrives twice.
3. `st_retried`: a worker that dies after its click has its task put back to
   pending, and the next one clicks again ("NEVER auto-retried", `gigs.py:447`).
4. `st_stranded`: at the reclaim limit the task fails and its row stays
   `queued_for_browser`, which the reaper exists to prevent.

Two more contradict a comment, and are among the losses `ViewComplete` names. A
view that has seen no message takes the first one that comes as seen without
handing it over (`useAlertsSocket.ts:188`: `slice(0, 0)`), against "Fires
`handler` once for every message the consumer hasn't seen yet" (`:172`); a row it
announces that is younger than the view's load stays away until the next message
or reconnect. And a socket that joins or leaves during the `await` of a send
breaks the loop for the sockets after it (`ws_manager.py:69`), against "Send a
message to all of one user's live connections in THIS process" (`:63`); the
subscriber logs the error as a malformed message.

Also met while modelling, without a run of its own: `submit_proposal` claims
with a conditional UPDATE and sends the copy it loaded before the claim, so
that with overlapping handlers a revert and a second approval in between are
overtaken (`BidAsApproved` is about requests that do not overlap); a submit
that loaded the row as `submitted` and wins the claim after an approval, under
way meanwhile, has put the row back to `approved`, sets `submitted` on a copy
that already says so at its end (`proposals.py:648`), so that the session
writes nothing and the row stays `submitting`, a status the client calls
transient (`types.ts:231`); a process that dies after its claim
(`proposals.py:539`) leaves it there, too, and no endpoint and no tick takes it
out (`ClaimIsHeld` fails in both); the output filter runs before humanizing,
which can restore a marker written with doubled spaces; a marker in the job's
title makes the filter drop lines of the composer's own text; a keyword where a
word is due is read as a word by the query parser.

## 3. What is proved

TLAPS checks every theorem below for every value of the constants.

`ReviewQueueProofs`: the queue is well typed (`TypeCorrect`), no approval pays
for two calls, and the one call delivers one browser task or at most
`MaxAttempts` bids (`OneCallForAnApproval`), and the queue implements
`ApprovalLedger` (`ImplementsLedger`). The invariant of interest is not
inductive: a dispatch keeps it only if the token that pays for it is real and
has paid for nothing but earlier attempts of the same call. `Safe` adds
`TokenInOneHand` (a token somebody holds is minted, is either the row's or one
handler's, and has paid for that handler's attempts only, no more than there
were) and `DispatchBacked` (whoever is about to dispatch holds one, and only the
submit of a bid is ever between attempts). `DispatchIsBacked` says it of each
handler on its way to a platform (`Dispatching`): it holds a token of its own
that has paid for nothing else (`PaysOnlyFor`). The proof has one case per
action; lemmas cover the ways a token moves (a click mints it, a commit hands it
to the row, the claim takes it, an attempt uses it, everything else lets go), and
each also says what the step did to the approvals, which `StepLedger` maps to
`Lapse`, `Grant`, `Call`, `Repeat` or `Settle`. It covers `CrashSpec`, the
queue's own endpoints in processes that may die (a crash only lets a token go,
also between two attempts); the adapter endpoints break the property, and "one
bid" instead of "one call" is false (`rq_second_bid`).

Its second part is about requests that come one after the other, from any
number of handlers and with the adapter endpoints: `BidsAsApproved`,
`ApprovedRowsAsJudged` and `ClosedRowsStay` are theorems of `AdapterSpec /\
[]NoOverlap`, where `NoOverlap` says that at most one handler is under way.
They rest on `Judged`: an approval on the row was given for the text of the
row, and the handler that has loaded the row holds it as it is, so that neither
its claim nor its commit writes over anything. Its third part proves
`ClaimIsHeld` of the same behaviours (`ClaimsAreHeld`). `Claiming` adds to the
property that the copy of whoever holds the claim says `submitting`, and what a
way out of `submit_proposal` writes does not, so that it reaches the row.
Without `NoOverlap` the four are false (see the end of section 2).

`HandoffProofs` begins with the pool. `PoolInvariance` is an inductive invariant
that ties every worker and completion to the claim it acts under: a claim is
never granted twice under one reclaim count. `OneClickPerClaim` and
`OverlapOnlyBySlow` follow from it, for `PoolSpec`.

Its second part is the composition. `HandoffIsAQueue` and `HandoffIsAPool` are
refinements, `HandoffSpec => Spec` and `HandoffSpec => PoolSpec`, together
`EachAsSpecified`; the invariant
they need, `HandoffInvariant`, says that every task is paid for by its approval
and that every report in flight belongs to a worker whose task is there, so that
the row gets no verdict the queue does not expect and the pool no task twice.
With `Safe`, which holds of every queue, it gives `ClicksPaidFor` and
`HonestOutcomes`. `HandedOverOnce` is about behaviours in which the users'
requests do not overlap (`[]Calm`), while the workers' reports overlap them and
each other: once a task exists the row is nowhere an approval could start from,
and no user's handler is on its way to put it there.

`GenerationProofs`: `OneLiveRow`, `RowsKeepTheirJob`, `RetriesCounted` and the
action property `DecisionStandsAlone`. The inductive invariant `IInv` adds to
the types that an index a worker holds is one of a row (`HandsOn`; rows are
never removed singly), that the unique index admits the rows after every write,
the failed commit's included (`IndexAllows`), and that the copy the beat holds
was taken below the limit (`TickCounted`). `RetriesCounted` is inductive with
these: a commit writes the counter back from the copy that was loaded, and what
that takes away is what the model counts as lost. `DecisionStandsAlone` needs a
second invariant, `OneBusy`: in a calm run one worker at most is busy, with no
row or with one that failed, so what it commits replaces no decision.

Its second part proves `BidWithinBudget`, `BulkOnlyTrusted` and `OpeningsRotate`
of `Drafting`, for every world that `WorldsAssumption` admits. The bid is
arithmetic: each branch caps last, and rounding to a cent does not pass a maximum
in cents. `BulkOnlyTrusted` needs `Judged` (a draft that bulk approval can still
pass is trusted already) and `Copies` (while generations do not overlap, the one
under way holds the row as it is), because the flag is written as a difference
to the loaded copy.

`AutomationProofs`: `OneTrial`, `OffersCapped`, `SamplesKept`, `StoreKept` and
the action property `CooldownHolds`. `OneTrial` rests on `TrialInv`: whoever is
on trial took the shared token, and nobody took it since. The values written
whole rest on `LockInv` (until somebody went on without the lock, the list is the
end of what was won, and whoever adds a winning bid holds the lock and has read
what is stored; `LatestIsKept`: cutting after every addition keeps the end of the
uncut list) and `SerialInv` (while
pipelines do not overlap, the one that runs has read what is stored, a
confirmed bid is counted or about to be, and every submission is on record).
`CooldownHolds` rests on `CalmInv`: a check that has passed the platform-wide
scope found it not halted, and one that tries a trial found its scope not
halted. `OffersCapped` is a count over any number of processes: `CapInv` gives
every offer that is stored, or that a process is about to store, a grant of its
own, a pair of a counter (the shared one, or that of a process without Redis)
and a number up to the limit; there are `OfferLimit` of them for each counter
in use.

`OutcomesProofs`: `TemplateCounts`, `SyncCreditsOnce`, `AsksOnce` and `BidKept`.
`Credits` says that a job which runs alone and has not judged yet loaded the
outcome that a credit left; `Asks` that the automatic follow-ups exceed the
orphaned ones by one only while a follow-up names its parent, and that a job
about to draft one found none; `Bids` that a row is submitted by one request at
a time, is not polled before that, and that whoever loads it after the
confirmation loads the bid id.

`AlertsProofs`: `NoForeignEvents` and `ViewComplete`. By `Inv`, what a server is
sending to the socket, what is in flight, what an answer holds and what list
and view show belongs to the session at all times (a session that ended owns
nothing, and leaving gives up all of it). `ViewComplete` speaks of moments at
which nothing is on its way; its invariant, `Tracked`, also of the moments
between. While a view that was ever open has its socket, or has never been open,
each of the tenant's events is covered (shown, given up, or in an answer that
will be shown), or it is queued for the socket (on the bus, in a send loop, in
flight) or among the unread messages of the list (`Told`). A view that lost its
socket is owed nothing until it has one again, since connecting loads all there
is. The place of the message seen last is what makes the list's part inductive:
a message moves from the flight to the unread ones, and out of the list only if
`Receive` writes it down.

`IntakeProofs`: `OfferedIffWanted`, `OneOfAKind` and the action property
`ArchivingStands`, for any number of ingesting processes, postings, filters and
queries. `Handling` is the core of the invariant: a process has the row it
handles to itself and judges it by the profile the row was marked with, although
the user may save another in between. `Offers` says that an offer is made as its
process leaves the row and never again; `Kinds` that while ingests do not
overlap, two rows on view, or about to be put there, are not reposts of each
other; `Untouched` that nobody archives a row under an ingest unless the history
says so. What a query means enters by `Literal`: the tree of a query that is
accepted and in the language has the value that the grammar gives the query.

`ReadRight` proves `ReadAsWritten`: the parser reads a query as the grammar does,
for queries of any length, any texts and any limit of the nesting. It rests on
three things. First, what the methods return (`ReadAt`): a part that goes on from
where it began, with a tree no higher than the part is long, or nothing; so a loop
comes to an end within as many rounds as there are tokens (`LoopEnds`). Second,
the claim about a reading of the grammar (`Parses`): whatever number of levels is
left, `_not` reads it where it begins; `_and` has read it after some round; so has
`_or`, if a conjunction can end there; and either the value is the reading's, or
the reading is nested deeper than that (`IsRead`, with `Nest` counting NOTs and
parentheses). The rounds are what makes it inductive: a conjunction of the grammar
need not be the longest, and the loop reads on from it. Third, one lemma for each
rule of the grammar (`WordParsed` to `EitherParsed`), by induction over the steps
that derive a reading (`ReadingsParsed`). `MeaningForAll` adds that a query which
is in the language for one text is for each, so `WhatIsWantedIsOffered` needs no
hypothesis about queries.

`TermsFound` proves `TermsFindMatches` for trees of any height: a text that
matches a query, which does not match the empty text, holds one of the query's
positive terms. Both directions are needed at once (a text without a positive
term does what the empty one does, and below a NOT the opposite), by induction
over the height. The library's induction theorem cannot be used here, so the
proof takes the least height at which the claim fails (`LeastOf`; the proofs
about the parser use it too), and the existence of the recursive functions is
proved by hand, from functions that agree with each other up to a rank
(`RecursiveFunction`).

`SessionsProofs`: `DeadBrowserGivenUp`, for any number of workers, accounts,
tasks and logins. That a browser on a dead session costs at most `Round`
failures is an argument about time, which the invariant makes step by step
(`Struck`): after one strike the latest failure of the tenant is no older than
the browser has been idle; after two, the latest but one is older than that by
at most the time a browser may idle; hence the third falls within the breaker's
window and opens the circuit, after which nothing is fetched anew, and every
further strike is one waiting task less. `Ages` keeps the failures in the order
of their age and `Claims` says that who executes a task has it to itself. The
hypothesis `~Busy` is the run's: workers are up to their sweeps.

**Assumptions.** The proofs use the named assumptions of the modules and no
others, and every run evaluates them: a null value is not in the set it is null
of (`NoTextAssumption`, `NoTokenAssumption`, `NoTaskAssumption`,
`NoWorkerAssumption`, `NobodyAssumption`, and `NowhereAssumption`: the place of
a closed socket is no server), limits are numbers (`AttemptsAssumption`, `MaxReclaimsAssumption`,
`RetriesAssumption`, `LimitsAssumption`, `CapAssumption`, `HeightAssumption`,
`DepthAssumption`), tasks are named by approvals and workers' reports are
requests (`TasksAssumption`, `WorkersAssumption`), tokens are strings, and no
word is a keyword or a parenthesis (`WordsAssumption`), the requests of the
user are not background jobs (`CrewsAssumption`), the facts of a world are of
the kinds the code distinguishes, and a query is no longer than `MaxHeight`
(`WorldsAssumption`, of `Drafting` and of `Intake`), and a tenant's tasks are
finitely many (`SessionsAssumption`). `ReviewQueueProofs`, `HandoffProofs` and
`SessionsProofs` state the hypotheses named above, `[]NoOverlap`, `[]Calm` and
`~Busy`, in the theorems that need them. Sets of handlers, workers, texts,
tasks and tenants are of any size; the bounds on what TLC explores are
constants like any other, so the theorems hold for all their values.

**Only proved.** `ApprovedAsJudged` and `TemplateCounts` are theorems that no run
repeats.

**Only model-checked.** The liveness properties (`TasksSettle`,
`FailedIsRetried`, `OutcomeFound`, `NeverShutForGood`, `SessionRecovers`,
`SocketComesBack`), since TLAPS does not reason about fairness and `ENABLED`.

## 4. What is not modelled, and why

- **Authentication and tenancy.** Hashing and tokens are library calls; the
  denylist of revoked tokens fails open when Redis is away, by a documented
  choice (`auth.py:117`); ownership is a filter in every query.
- **Encryption of the vault and the OAuth exchange**, request limiting by IP,
  and pacing by sleeping: no state that outlives the call and no interleaving.
- **Scoring and analytics**: weighted sums over text statistics, without state.
- **Page automation**: selectors and typing on other people's pages; the click
  and its verdict are modelled.
- **The other views of the frontend**: rendering, and drafts in local storage.
- **Digest mail, seeds and migrations**: input, output and schema.

Met while modelling, where the code states no promise that could be violated: a
crash between the commit of a job and the enqueueing of its generation loses
the offer (the `lost` of `Intake`); a tenant's own circuit is closed by
nothing: after its cooldown it stays half-open, one trial a minute, until its
key lapses after a day, and a kill switch half-opens like any other; discovery
counts postings it passes over against its cap (`discovery.py:58`); a ticket
lost with Redis ends the session instead of the attempt (`useAlertsSocket.ts`,
close code 4401); enrolling by password writes over the stored session.

## 5. What is left to do

- The hand-off up to its end: `Handoff`'s verdict as the confirmation in
  `Outcomes`, which follows the same row from there.
- `Sessions` with busy workers (`Busy = TRUE`), where the promise has to name how
  long a sweep may last.
- Pacing and quotas with time as the adapters count it, across midnight.
