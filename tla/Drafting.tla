------------------------------ MODULE Drafting ------------------------------
(***************************************************************************)
(* What a generation writes into a row of the review queue, and what bulk  *)
(* approval makes of it: proposal_gen.generate and generate_follow_up, the *)
(* openings they draw from a pool in Redis (antidetect.pick_opening), and  *)
(* the columns orchestrator.generate_and_queue commits.                    *)
(*                                                                         *)
(* Generation follows the rows of a job; this module follows the draft in  *)
(* one row and in its follow-up.  A text is the set of the kinds of its    *)
(* lines: "plain", "leak" (holds one of _LEAK_MARKERS), "rate" (quotes the *)
(* rate line, a marker of its own in a proposal), "split" (a marker with   *)
(* doubled spaces, which humanize restores).  The empty text has no line.  *)
(* What the model answers, and what the job says, is the world's choice.   *)
(***************************************************************************)
EXTENDS Integers, FiniteSets

CONSTANTS Writers,     \* processes that generate
          Openings,    \* OPENINGS_POOL
          Skills,
          Worlds       \* bound: the jobs, rate cards, templates and answers

Kinds == {"plain", "leak", "rate", "split"}
Text  == SUBSET Kinds

\* Money is in cents; 0: not stated.  have: job.skills, terms: what the
\* heuristics find beside them, shown: what the portfolio matches.
Job == [hourly : BOOLEAN, fiverr : BOOLEAN, min : Nat, max : Nat, complexity : 0 .. 15,
        size : {"whole", "usual", "small"}, marked : BOOLEAN, redFlags : Nat,
        have : SUBSET Skills, terms : SUBSET Skills, shown : SUBSET Skills]

Rate == [found : BOOLEAN, hourly : Nat, floor : Nat]

\* pitch: the user's template, or {}; wins: past winning bids and their
\* average; answers, needs: what the LLM may write, and find that the job
\* requires; overlap: generations may overlap.
World == [job : Job, rate : Rate, wins : [count : Nat, mean : Nat], pitch : Text,
          answers : SUBSET Text, needs : SUBSET SUBSET Skills, overlap : BOOLEAN]

ASSUME WorldsAssumption ==
    \A w \in Worlds :
       /\ DOMAIN w = {"job", "rate", "wins", "pitch", "answers", "needs", "overlap"}
       /\ w.job \in Job /\ w.rate \in Rate /\ w.wins.count \in Nat /\ w.wins.mean \in Nat
       /\ w.pitch \subseteq {"plain", "leak", "rate"} /\ w.overlap \in BOOLEAN
       /\ \A t \in w.answers : t \subseteq Kinds
       /\ \A s \in w.needs : s \subseteq Skills

VARIABLES world,
          row,         \* the proposal
          child,       \* its follow-up
          gen,         \* gen[w]: the generation process w is in
          pool,        \* the openings left in Redis
          drawn        \* history: openings drawn since the pool was filled, and
                       \* whether two processes ever filled it at once

draftingVars == <<world, row, child, gen, pool, drawn>>

\* raw, weak: history: the draft as it was written, and whether its confidence
\* is below CONFIDENCE_REVIEW_FLOOR.
Draft == [status : {"none", "generation_failed", "pending_review", "approved"},
          text : Text, needs_review : BOOLEAN, bid : Int, by : {"nobody", "user", "bulk"},
          raw : Text, weak : BOOLEAN]

NoBid == -1
NoDraft == [status |-> "none", text |-> {}, needs_review |-> FALSE, bid |-> NoBid,
            by |-> "nobody", raw |-> {}, weak |-> FALSE]

\* copy: needs_review of the row as it was loaded, if there was one.
Gen == [pc : {"idle", "analyze", "write", "look", "fill", "draw", "commit"},
        for : {"row", "child"}, fresh : BOOLEAN, copy : BOOLEAN, needs : SUBSET Skills,
        llm : BOOLEAN, composing : BOOLEAN, raw : Text]

NoGen == [pc |-> "idle", for |-> "row", fresh |-> TRUE, copy |-> FALSE, needs |-> {},
         llm |-> FALSE, composing |-> FALSE, raw |-> {}]

DraftingInit ==
    /\ world \in Worlds
    /\ row \in {NoDraft, [NoDraft EXCEPT !.status = "generation_failed", !.needs_review = TRUE]}
    /\ child = NoDraft
    /\ gen = [w \in Writers |-> NoGen]
    /\ pool = {} /\ drawn = [openings |-> {}, raced |-> FALSE]

-----------------------------------------------------------------------------
(* calculate_bid                                                           *)

Lower(a, b) == IF a < b THEN a ELSE b
Upper(a, b) == IF a < b THEN b ELSE a

\* An amount in the course of a calculation is a multiple of a cent / 1200.
Unit == 1200
Cents(amount) == (amount + Unit \div 2) \div Unit

\* Just under the client's stated maximum, if the amount is above it.
Capped(amount, max) == IF max > 0 /\ amount > max * Unit THEN max * 1176 ELSE amount

\* estimate_hours, in quarters.
Quarters(job) ==
    LET base  == 40 + 40 * job.complexity
        whole == IF job.size = "whole" THEN base + base \div 2 ELSE base
        small == IF job.size = "small" /\ job.complexity <= 3 THEN whole \div 2 ELSE whole
    IN  Lower(1600, small)

DefaultHourly == 5000

\* Hours x hourly rate x (1 + complexity / 30), no less than the rate card's floor.
Estimate(job, rate) ==
    LET hourly == IF rate.found /\ rate.hourly > 0 THEN rate.hourly ELSE DefaultHourly
        amount == Quarters(job) * hourly * (30 + job.complexity) * 10
    IN  IF rate.found THEN Upper(amount, rate.floor * Unit) ELSE amount

\* nudge_toward_wins: half way to the average win, within a fifth of the estimate.
Nudged(amount, wins) ==
    LET half  == (amount + wins.mean * Unit) \div 2
        moved == Lower(Upper(half, (amount \div 10) * 8), (amount \div 10) * 12)
        near  == moved - amount < Unit /\ amount - moved < Unit
    IN  IF wins.count < 3 \/ near THEN amount ELSE moved

\* Mutant of FixedBid: the win average moves an amount that was capped before.
FixedBidCappedFirst(job, rate, wins) ==
    LET amount == Capped(Estimate(job, rate), job.max)
    IN  Cents(IF rate.found THEN Nudged(amount, wins) ELSE amount)

FixedBid(job, rate, wins) ==
    LET amount == Estimate(job, rate)
    IN  Cents(Capped(IF rate.found THEN Nudged(amount, wins) ELSE amount, job.max))

HourlyBid(job, rate) ==
    IF rate.found /\ rate.hourly > 0 THEN Cents(Capped(rate.hourly * Unit, job.max)) ELSE NoBid

\* The basic tier's price, else the client's minimum, else 50 dollars.
OfferBid(job, rate) ==
    LET price == IF rate.found /\ rate.floor > 0 THEN rate.floor
                 ELSE IF job.min > 0 THEN job.min ELSE DefaultHourly
    IN  Cents(Capped(price * Unit, job.max))

Bid(job, rate, wins) ==
    CASE job.hourly                 -> HourlyBid(job, rate)
      [] ~job.hourly /\ job.fiverr  -> OfferBid(job, rate)
      [] ~job.hourly /\ ~job.fiverr -> FixedBid(job, rate, wins)

-----------------------------------------------------------------------------
(* The text                                                                *)

\* Mutant of Filtered: a text that is all markers is kept without a word.
FilteredSilently(text, internals) ==
    LET kept == text \ internals
    IN  [text |-> IF kept = {} THEN text ELSE kept, warning |-> kept \notin {text, {}}]

\* _strip_prompt_leakage: lines with a marker go, unless nothing would be left.
Filtered(text, internals) ==
    LET kept == text \ internals
    IN  [text |-> IF kept = {} THEN text ELSE kept, warning |-> kept # text]

Internals(for) == IF for = "row" THEN {"leak", "rate"} ELSE {"leak"}

\* strip_ai_tells collapses spaces, after the filter.
Humanized(text) == {IF line = "split" THEN "leak" ELSE line : line \in text}

\* render_pitch_template: {{job_title}} ("leak") is the client's.
Rendered(pitch) ==
    {IF line = "leak" /\ ~world.job.marked THEN "plain" ELSE line : line \in pitch}

\* _generate_offline, _compose_follow_up_offline: they quote the title as well.
Composed == {"plain"} \cup IF world.job.marked THEN {"leak"} ELSE {}

\* skill_portfolio_match: what the job asks for and the freelancer has or lacks.
Strengths(needs) == world.job.have \cap needs
Gaps(needs) == needs \ (world.job.have \cup world.job.shown)

\* confidence < CONFIDENCE_REVIEW_FLOOR, times twice the required skills.
Weak(needs, llm) ==
    LET n     == Cardinality(needs)
        bonus == 5 + (IF llm THEN 5 ELSE 0) - 8 * world.job.redFlags
                   - 4 * Cardinality(Gaps(needs))
                   - IF world.job.min + world.job.max = 0 THEN 10 ELSE 0
    IN  IF n = 0 THEN 25 + 2 * bonus < 0
                 ELSE 25 * Cardinality(Strengths(needs)) + n * bonus < 0

-----------------------------------------------------------------------------
(* A generation, step by step                                              *)

Goto(w, pc) == gen' = [gen EXCEPT ![w].pc = pc]
End(w) == gen' = [gen EXCEPT ![w] = NoGen]
MayGenerate == world.overlap \/ \A w \in Writers : gen[w] = NoGen

\* A fresh row, or a failed one that is generated again.
StartDraft(w) ==
    /\ MayGenerate /\ gen[w] = NoGen
    /\ row.status \in {"none", "generation_failed"}
    /\ gen' = [gen EXCEPT ![w] = [NoGen EXCEPT !.pc = "analyze", !.fresh = row.status = "none",
                                              !.copy = row.needs_review]]
    /\ UNCHANGED <<world, row, child, pool, drawn>>

\* A follow-up of what was sent; the parent's analysis is reused.
StartFollowUp(w) ==
    /\ MayGenerate /\ gen[w] = NoGen
    /\ row.status = "approved" /\ child.status = "none"
    /\ gen' = [gen EXCEPT ![w] = [NoGen EXCEPT !.pc = "write", !.for = "child"]]
    /\ UNCHANGED <<world, row, child, pool, drawn>>

\* analyze_job: the LLM's JSON, or the heuristics when there is none.
Analyze(w) ==
    /\ gen[w].pc = "analyze"
    /\ \E needs \in world.needs \cup {world.job.have \cup world.job.terms} :
          gen' = [gen EXCEPT ![w].pc = "write", ![w].needs = needs]
    /\ UNCHANGED <<world, row, child, pool, drawn>>

\* A follow-up takes no empty answer.
Usable(for) == {text \in world.answers : for = "child" => text # {}}

\* generateText answers.
Write(w) ==
    /\ gen[w].pc = "write"
    /\ \E text \in Usable(gen[w].for) :
          gen' = [gen EXCEPT ![w].pc = "look", ![w].llm = TRUE, ![w].raw = text]
    /\ UNCHANGED <<world, row, child, pool, drawn>>

\* It does not (no connection, a timeout, the rate limit, nothing but
\* reasoning): the template of the platform, or the composer with an opening.
WriteOffline(w) ==
    /\ gen[w].pc = "write"
    /\ gen' = [gen EXCEPT ![w].pc = "look",
                          ![w].composing = gen[w].for = "row" /\ world.pitch = {},
                          ![w].raw = IF gen[w].for = "row" /\ world.pitch # {}
                                     THEN Rendered(world.pitch) ELSE Composed]
    /\ UNCHANGED <<world, row, child, pool, drawn>>

\* seed_openings_pool: does the pool exist?
LookForPool(w) ==
    /\ gen[w].pc = "look"
    /\ Goto(w, IF pool = {} THEN "fill" ELSE "draw")
    /\ UNCHANGED <<world, row, child, pool, drawn>>

FillPool(w) ==
    /\ gen[w].pc = "fill"
    /\ pool' = Openings
    /\ drawn' = IF pool = {} THEN [drawn EXCEPT !.openings = {}] ELSE [drawn EXCEPT !.raced = TRUE]
    /\ Goto(w, "draw")
    /\ UNCHANGED <<world, row, child>>

\* humanize suggests an opening too, for which nobody asks.
AfterDraw(w) ==
    gen' = [gen EXCEPT ![w].pc = IF gen[w].composing THEN "look" ELSE "commit",
                       ![w].composing = FALSE]

\* Mutant of DrawOpening: the opening stays in the pool.
DrawAgain(w) ==
    /\ gen[w].pc = "draw" /\ pool # {}
    /\ \E o \in pool : drawn' = [drawn EXCEPT !.openings = @ \cup {o}]
    /\ AfterDraw(w)
    /\ UNCHANGED <<world, row, child, pool>>

\* spop; a pool that others emptied meanwhile is filled again.
DrawOpening(w) ==
    /\ gen[w].pc = "draw"
    /\ IF pool = {} THEN Goto(w, "fill") /\ UNCHANGED <<pool, drawn>>
       ELSE /\ \E o \in pool : /\ pool' = pool \ {o}
                               /\ drawn' = [drawn EXCEPT !.openings = @ \cup {o}]
            /\ AfterDraw(w)
    /\ UNCHANGED <<world, row, child>>

\* What the pipeline hands over to be committed.
Package(w) ==
    LET g        == gen[w]
        filtered == Filtered(g.raw, Internals(g.for))
        weak     == g.for = "row" /\ Weak(g.needs, g.llm)
    IN  [status |-> "pending_review", text |-> Humanized(filtered.text),
         needs_review |-> weak \/ filtered.warning, by |-> "nobody",
         bid |-> IF g.for = "row" THEN Bid(world.job, world.rate, world.wins) ELSE NoBid,
         raw |-> g.raw, weak |-> IF g.for = "row" THEN weak ELSE row.weak]

\* The flush writes the columns that differ from the loaded copy.  A fresh
\* row loses against one that is there already.
CommitDraft(w) ==
    LET new  == Package(w)
        flag == IF ~gen[w].fresh /\ new.needs_review = gen[w].copy
                THEN row.needs_review ELSE new.needs_review
    IN  /\ gen[w].pc = "commit" /\ gen[w].for = "row"
        /\ row' = IF gen[w].fresh /\ row.status # "none" THEN row
                  ELSE [new EXCEPT !.needs_review = flag]
        /\ End(w)
        /\ UNCHANGED <<world, child, pool, drawn>>

CommitFollowUp(w) ==
    /\ gen[w].pc = "commit" /\ gen[w].for = "child"
    /\ child' = Package(w)
    /\ End(w)
    /\ UNCHANGED <<world, row, pool, drawn>>

\* Redis fails under pick_opening, which nobody catches: the generation failed.
Fail(w) ==
    /\ gen[w].pc \in {"look", "fill", "draw"}
    /\ row' = IF gen[w].for = "row" /\ gen[w].fresh /\ row.status = "none"
              THEN [NoDraft EXCEPT !.status = "generation_failed", !.needs_review = TRUE]
              ELSE row
    /\ End(w)
    /\ UNCHANGED <<world, child, pool, drawn>>

-----------------------------------------------------------------------------
(* The review                                                              *)

Approved(draft) ==
    IF draft.needs_review THEN {[draft EXCEPT !.status = "approved", !.by = "user"]}
    ELSE {[draft EXCEPT !.status = "approved", !.by = by] : by \in {"user", "bulk"}}

\* bulk_approve passes a flagged row over; approve_proposal shows it.
Approve ==
    /\ row.status = "pending_review" /\ row' \in Approved(row)
    /\ UNCHANGED <<world, child, gen, pool, drawn>>

ApproveFollowUp ==
    /\ child.status = "pending_review" /\ child' \in Approved(child)
    /\ UNCHANGED <<world, row, gen, pool, drawn>>

DraftingNext ==
    \/ \E w \in Writers :
          \/ StartDraft(w) \/ StartFollowUp(w) \/ Analyze(w) \/ Write(w) \/ WriteOffline(w)
          \/ LookForPool(w) \/ FillPool(w) \/ DrawOpening(w) \/ CommitDraft(w) \/ CommitFollowUp(w)
          \/ Fail(w)
    \/ Approve \/ ApproveFollowUp

DraftingSpec == DraftingInit /\ [][DraftingNext]_draftingVars

-----------------------------------------------------------------------------
\* Every variable stays in its type.
DraftingTypeOK ==
    /\ world \in Worlds /\ row \in Draft /\ child \in Draft
    /\ gen \in [Writers -> Gen]
    /\ pool \subseteq Openings /\ drawn \in [openings : SUBSET Openings, raced : BOOLEAN]

\* However the rate card, its floor and the winning bids of the past pull,
\* no amount is proposed above the maximum that the client stated.
BidWithinBudget == world.job.max > 0 => row.bid <= world.job.max

\* Bulk approval never waves through what the pipeline itself distrusts: a
\* draft that was written with prompt internals in it, or with too little
\* confidence; while the generations of a row do not overlap.
BulkOnlyTrusted ==
    ~world.overlap =>
        /\ row.by = "bulk" => row.raw \cap Internals("row") = {} /\ ~row.weak
        /\ child.by = "bulk" => child.raw \cap Internals("child") = {}

\* No opening is drawn a second time before all have been drawn once, unless
\* two processes find the pool empty at the same moment.
OpeningsRotate == ~drawn.raced => pool \cap drawn.openings = {}
=============================================================================
