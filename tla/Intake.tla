------------------------------- MODULE Intake -------------------------------
(***************************************************************************)
(* How a posting becomes a job and is offered to proposal generation: the  *)
(* ingest pipeline (ingest.run_ingest) with the gates it runs inline       *)
(* (orchestrator.generation_gates_pass, filtering.job_matches_filter),     *)
(* scheduled discovery (discovery.run_profile_discovery), the search       *)
(* profile with its boolean query, and the archiving of jobs by the user.  *)
(*                                                                         *)
(* Processes ingest concurrently; a row is visible to the others once it   *)
(* is committed, and the unique key on postings makes the second insert of *)
(* one wait for the first.  Scoring and fuzzy matching are facts about a   *)
(* posting, chosen by the world.                                           *)
(***************************************************************************)
EXTENDS BoolQuery

CONSTANTS Procs,       \* processes that ingest
          Postings,    \* postings of one platform, by external id
          Queries,     \* bound: Queries[w.typist], the queries typed in world w
          Worlds,      \* bound: what there is to read, and what the tenant has set up
          MaxTyped,    \* bound: queries the user types
          MaxMoves,    \* bound: jobs the user archives or takes back
          AlertScore,  \* min_score_alert
          SearchCap    \* SEARCHES_PER_PROFILE

\* A demand of a filter that a posting silent about it does not meet.
Strict == {"payment_verified", "hire_rate", "total_spent", "posted_within"}
Criteria == Strict \cup {"platform", "job_type", "experience", "arrangement", "budget",
                         "country", "deadline", "language", "max_proposals"}

Filter == [demands : SUBSET Criteria, threshold : Nat]

\* like: postings with one value are reposts of each other.
Fact == [words : SUBSET STRING, score : Nat, negative : BOOLEAN, like : Nat,
         fails : SUBSET Criteria, silent : SUBSET Criteria]

ASSUME WorldsAssumption ==
    /\ \A t \in DOMAIN Queries : \A q \in Queries[t] : q \in Seq(Tokens) /\ Len(q) <= MaxHeight
    /\ \A w \in Worlds :
          /\ DOMAIN w = {"typist", "facts", "filters", "link", "workers"}
          /\ w.typist \in DOMAIN Queries /\ w.workers \subseteq Procs
          /\ w.facts \in [Postings -> Fact] /\ w.filters \subseteq Filter
          /\ w.link = {} \/ \E f \in w.filters : w.link = {f}

ASSUME CapAssumption == SearchCap \in Nat

VARIABLES world,
          typed,      \* the query the user typed last
          profile,    \* the saved query of the auto-queue profile, or none
          slot,       \* the pacing lock of discovery is taken
          jobs,       \* committed rows, by id
          run,        \* run[p]: the ingest process p is in
          history     \* what happened so far that the properties tell apart

vars == <<world, typed, profile, slot, jobs, run, history>>

NoProfile == <<"no profile">>

Profiles == {NoProfile} \cup UNION {Queries[t] : t \in DOMAIN Queries}

\* by: why ingest archived it; asked: the profile it was judged by; offered, lost:
\* whether it was handed to generation, or could not be.
Job == [posting : Postings, status : {"new", "notified", "archived"}, dup : BOOLEAN,
        by : {"nobody", "negative", "score"}, asked : Profiles,
        offered : BOOLEAN, lost : BOOLEAN]

\* todo: postings of the batch to come; item: the one at hand, id: its row.
Run == [pc : {"idle", "next", "insert", "decide", "offer", "notify"}, todo : SUBSET Postings,
        asked : Profiles, id : Nat, item : SUBSET Postings]

Idle == [pc |-> "idle", todo |-> {}, asked |-> NoProfile, id |-> 0, item |-> {}]

Init ==
    /\ world \in Worlds
    /\ typed = <<>> /\ profile = NoProfile /\ slot = FALSE
    /\ jobs = <<>>
    /\ run = [p \in Procs |-> Idle]
    /\ history = [typed |-> 0, moves |-> 0, restored |-> FALSE, hasty |-> FALSE,
                  overlap |-> FALSE]

Accepts(q)       == Parse(q).ok
Matches(q, text) == Evaluate[Parse(q).ast][text]
Terms(q)         == PositiveTerms[Parse(q).ast][FALSE]

Ids == 1 .. Len(jobs)
Facts(i) == world.facts[jobs[i].posting]
Goto(p, pc) == run' = [run EXCEPT ![p].pc = pc]

\* With the next posting of the batch.
Continue(p) == run' = [run EXCEPT ![p].pc = "next", ![p].id = 0, ![p].item = {}]

-----------------------------------------------------------------------------
(* Search profiles and discovery                                           *)

\* validate-boolean reports on a query, and changes nothing; a profile with one
\* that does not parse is not saved.
Type(q) ==
    /\ history.typed < MaxTyped
    /\ typed' = q /\ history' = [history EXCEPT !.typed = @ + 1]
    /\ UNCHANGED <<world, slot, jobs, run>>

ValidateQuery(q) == Type(q) /\ UNCHANGED profile

SaveProfile(q) == Type(q) /\ Accepts(q) /\ profile' = q

DeleteProfile ==
    /\ profile # NoProfile
    /\ profile' = NoProfile
    /\ UNCHANGED <<world, typed, slot, jobs, run, history>>

Shorter(m, n) == IF m < n THEN m ELSE n

\* search_terms_for_profile, of the query's own terms.
SearchTerms(q) == SubSeq(Terms(q), 1, Shorter(SearchCap, Len(Terms(q))))

\* _search_platform goes from term to term, as far as the adapter answers; a
\* query without terms is searched for by something else.
Found(q) ==
    LET terms == SearchTerms(q)
        upTo(n) == {x \in Postings : \E i \in 1 .. n : terms[i] \in world.facts[x].words}
    IN  IF terms = <<>> THEN {{}, Postings} ELSE {upTo(n) : n \in 0 .. Len(terms)}

Overlap(p) == \E o \in Procs \ {p} : run[o].pc # "idle"

\* run_ingest loads what it needs once; the profile it reads is used to the end.
Begin(p, batch) ==
    /\ run[p] = Idle /\ p \in world.workers
    /\ run' = [run EXCEPT ![p] = [Idle EXCEPT !.pc = "next", !.todo = batch, !.asked = profile]]
    /\ history' = [history EXCEPT !.overlap = @ \/ Overlap(p)]

\* POST /jobs/ingest
IngestPosted(p) ==
    /\ \E batch \in SUBSET Postings \ {{}} : Begin(p, batch)
    /\ UNCHANGED <<world, typed, profile, slot, jobs>>

\* run_profile_discovery: what is found is ingested.
Discover(p) ==
    /\ profile # NoProfile
    /\ \E found \in Found(profile) \ {{}} : Begin(p, found)
    /\ UNCHANGED <<world, typed, profile, jobs>>

\* The beat paces itself, unless Redis is down.
AcquireSlot == (~slot /\ slot' = TRUE) \/ UNCHANGED slot

DiscoverByBeat(p) == AcquireSlot /\ Discover(p)

\* "Run search now" does not.
DiscoverNow(p) == Discover(p) /\ UNCHANGED slot

\* A paced search that finds nothing, or fails, has taken the slot all the same.
SearchInVain(p) ==
    /\ profile # NoProfile /\ run[p] = Idle /\ p \in world.workers
    /\ {} \in Found(profile)
    /\ ~slot /\ slot' = TRUE
    /\ UNCHANGED <<world, typed, profile, jobs, run, history>>

SlotLapses ==
    /\ slot /\ slot' = FALSE
    /\ UNCHANGED <<world, typed, profile, jobs, run, history>>

-----------------------------------------------------------------------------
(* run_ingest, one posting after the other                                 *)

\* A posting that is a job already is passed over.
Take(p) ==
    /\ run[p].pc = "next"
    /\ \/ run[p].todo = {} /\ run' = [run EXCEPT ![p] = Idle]
       \/ \E x \in run[p].todo :
             run' = IF \E i \in Ids : jobs[i].posting = x
                    THEN [run EXCEPT ![p].todo = @ \ {x}]
                    ELSE [run EXCEPT ![p].todo = @ \ {x}, ![p].item = {x}, ![p].pc = "insert"]
    /\ UNCHANGED <<world, typed, profile, slot, jobs, history>>

\* db.flush: waits for a transaction that inserted the same posting, and the
\* unique key refuses a committed one (rollback and continue).
Insert(p) ==
    /\ run[p].pc = "insert"
    /\ \A o \in Procs : ~(run[o].pc = "decide" /\ run[o].item = run[p].item)
    /\ IF \E i \in Ids : {jobs[i].posting} = run[p].item THEN Continue(p) ELSE Goto(p, "decide")
    /\ UNCHANGED <<world, typed, profile, slot, jobs, history>>

\* Mutant of Candidate: only jobs nobody was alerted of.
CandidateNew(i) == jobs[i].status = "new"

\* _find_duplicate looks among the committed jobs that are not archived.
Candidate(i) == jobs[i].status # "archived"

Duplicate(x) == \E i \in Ids : Candidate(i) /\ Facts(i).like = world.facts[x].like

\* Mutant of TooLow: the strictest filter decides.
TooLowForSome(x) == \E f \in world.filters : world.facts[x].score < f.threshold

\* Below the lowest threshold of the tenant's filters, if there are any.
TooLow(x) ==
    /\ world.filters # {}
    /\ \A f \in world.filters : world.facts[x].score < f.threshold

\* A negative keyword archives whatever the score.
Verdict(x) ==
    IF world.facts[x].negative THEN "negative" ELSE IF TooLow(x) THEN "score" ELSE "nobody"

Row(p, x) ==
    [posting |-> x, status |-> IF Verdict(x) = "nobody" THEN "new" ELSE "archived",
     dup |-> Duplicate(x), by |-> Verdict(x), asked |-> run[p].asked,
     offered |-> FALSE, lost |-> FALSE]

\* Mutant of Decide: an excluded posting is archived, and goes on.
DecideOnward(p) ==
    \E x \in run[p].item :
        /\ run[p].pc = "decide"
        /\ jobs' = Append(jobs, Row(p, x))
        /\ run' = [run EXCEPT ![p].pc = "offer", ![p].id = Len(jobs'), ![p].item = {}]
        /\ UNCHANGED <<world, typed, profile, slot, history>>

\* Duplicates are flagged, excluded and low-scoring postings archived, and the
\* row is committed.
Decide(p) ==
    \E x \in run[p].item :
        /\ run[p].pc = "decide"
        /\ jobs' = Append(jobs, Row(p, x))
        /\ IF Verdict(x) = "nobody"
           THEN run' = [run EXCEPT ![p].pc = "offer", ![p].id = Len(jobs'), ![p].item = {}]
           ELSE Continue(p)
        /\ UNCHANGED <<world, typed, profile, slot, history>>

\* job_matches_filter: the criteria the posting misses.
Misses(x) == world.facts[x].fails \cup (world.facts[x].silent \cap Strict)

JobMatches(f, x) == f.demands \cap Misses(x) = {} /\ world.facts[x].score >= f.threshold

\* generation_gates_pass, with the profile as it was when the ingest began and
\* the row as it was read back after the commit.
GatesPass(p, i) ==
    /\ jobs[i].by = "nobody" /\ ~jobs[i].dup
    /\ run[p].asked # NoProfile =>
          /\ Matches(run[p].asked, Facts(i).words)
          /\ \A f \in world.link : JobMatches(f, jobs[i].posting)

\* The feed shows the job; if the gates pass it is handed to generation,
\* unless the broker does not answer.
Offer(p) ==
    LET i == run[p].id
    IN  /\ run[p].pc = "offer"
        /\ jobs' \in IF GatesPass(p, i)
                     THEN {[jobs EXCEPT ![i].offered = TRUE], [jobs EXCEPT ![i].lost = TRUE]}
                     ELSE {jobs}
        /\ IF Facts(i).score >= AlertScore THEN Goto(p, "notify") ELSE Continue(p)
        /\ UNCHANGED <<world, typed, profile, slot, history>>

\* The user is alerted; then job.status = "notified", whatever the row says by now.
Notify(p) ==
    /\ run[p].pc = "notify"
    /\ jobs' = [jobs EXCEPT ![run[p].id].status = "notified"]
    /\ Continue(p)
    /\ UNCHANGED <<world, typed, profile, slot, history>>

\* The process dies: an open transaction is rolled back, a committed row stays
\* as it is, and later ingests pass it over.
Crash(p) ==
    /\ run[p].pc # "idle"
    /\ jobs' = IF run[p].pc = "offer" THEN [jobs EXCEPT ![run[p].id].lost = TRUE] ELSE jobs
    /\ run' = [run EXCEPT ![p] = Idle]
    /\ UNCHANGED <<world, typed, profile, slot, history>>

-----------------------------------------------------------------------------
(* The user's own archiving                                                *)

Archive(i) ==
    /\ history.moves < MaxMoves /\ jobs[i].status # "archived"
    /\ jobs' = [jobs EXCEPT ![i].status = "archived"]
    /\ history' = [history EXCEPT !.moves = @ + 1,
                                  !.hasty = @ \/ \E p \in Procs : run[p].id = i]
    /\ UNCHANGED <<world, typed, profile, slot, run>>

Unarchive(i) ==
    /\ history.moves < MaxMoves /\ jobs[i].status = "archived"
    /\ jobs' = [jobs EXCEPT ![i].status = "new"]
    /\ history' = [history EXCEPT !.moves = @ + 1, !.restored = TRUE]
    /\ UNCHANGED <<world, typed, profile, slot, run>>

IngestStep(p) == Take(p) \/ Insert(p) \/ Decide(p) \/ Offer(p) \/ Notify(p)

Next == \/ \E q \in Queries[world.typist] : ValidateQuery(q) \/ SaveProfile(q)
        \/ DeleteProfile \/ SlotLapses
        \/ \E p \in Procs : \/ IngestPosted(p) \/ DiscoverByBeat(p) \/ DiscoverNow(p)
                            \/ SearchInVain(p) \/ IngestStep(p) \/ Crash(p)
        \/ \E i \in Ids : Archive(i) \/ Unarchive(i)

Spec == Init /\ [][Next]_vars

-----------------------------------------------------------------------------
\* Every variable stays in its type.
TypeOK ==
    /\ world \in Worlds /\ typed \in Queries[world.typist] \cup {<<>>}
    /\ profile \in Queries[world.typist] \cup {NoProfile} /\ slot \in BOOLEAN
    /\ jobs \in Seq(Job) /\ run \in [Procs -> Run]
    /\ history \in [typed : Nat, moves : Nat, restored : BOOLEAN, hasty : BOOLEAN,
                    overlap : BOOLEAN]

\* What the tenant asked for when the ingest began.
Wanted(i) ==
    /\ jobs[i].by = "nobody" /\ ~jobs[i].dup
    /\ jobs[i].asked # NoProfile =>
          /\ TRUE \in Meaning(jobs[i].asked, Facts(i).words)
          /\ \A f \in world.link :
                /\ Facts(i).score >= f.threshold
                /\ \A c \in f.demands : c \notin Facts(i).fails
                /\ \A c \in f.demands \cap Strict : c \notin Facts(i).silent

\* (Whether a query is in the language does not depend on a text.)
InLanguage(q) == q = NoProfile \/ Meaning(q, {}) # {}

\* A job is handed to generation, or was to be when the broker or the process
\* failed, exactly when the profile's query means it and its filter lets it
\* through; a job that any filter of the tenant would let through is not
\* archived for its score.
OfferedIffWanted ==
    \A i \in Ids :
       /\ (\A p \in Procs : ~(run[p].id = i /\ run[p].pc = "offer")) /\ InLanguage(jobs[i].asked)
             => (jobs[i].offered <=> Wanted(i) /\ ~jobs[i].lost)
       /\ jobs[i].by = "score" => \A f \in world.filters : ~JobMatches(f, jobs[i].posting)

\* What there is to read in a posting.
Texts == {w.facts[x].words : w \in Worlds, x \in Postings}

\* A query of the language that the parser's docstring defines is accepted,
\* unless it is nested too deep, and matches the texts the grammar says it
\* matches: precedence, juxtaposition, negation and parentheses included.  (What
\* a query means depends on the query alone: it is looked at once.)
ReadAsWritten ==
    jobs = <<>> /\ (\A p \in Procs : run[p] = Idle) /\ Nesting(typed) <= MaxDepth =>
       \A text \in SUBSET Words :
          LET values == Meaning(typed, text)
          IN  values # {} => Accepts(typed) /\ values = {Matches(typed, text)}

\* Discovery searches for the first of a query's terms; if it has no more of
\* them than are searched for, a posting the query matches is found by one,
\* unless the query matches an empty text as well.
TermsFindMatches ==
    LET terms == SearchTerms(typed)
    IN  Accepts(typed) /\ Len(Terms(typed)) <= SearchCap =>
           \A text \in Texts :
              Matches(typed, text) /\ ~Matches(typed, {}) => \E i \in DOMAIN terms : terms[i] \in text

\* While ingests do not overlap and nothing is taken out of the archive, one
\* at most of the jobs on view that repost each other is not marked.
OneOfAKind ==
    ~history.overlap /\ ~history.restored =>
       \A i, j \in Ids :
          /\ Facts(i).like = Facts(j).like
          /\ ~jobs[i].dup /\ ~jobs[j].dup
          /\ jobs[i].status # "archived" /\ jobs[j].status # "archived"
          => i = j

\* An archived job leaves the archive by the user's hand only, unless the user
\* archived it while its ingest was still at work on it.
ArchivingStands ==
    [][~history.hasty => \A i \in Ids : jobs[i].status = "archived" /\ jobs'[i].status # "archived"
                                           => history'.restored]_vars
=============================================================================
