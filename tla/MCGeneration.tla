---------------------------- MODULE MCGeneration ----------------------------
(***************************************************************************)
(* Instances of Generation and Drafting for TLC.  A run explores either    *)
(* the rows of a job, whatever the drafts say, or one draft.               *)
(***************************************************************************)
EXTENDS Generation, Drafting

CONSTANTS w1, w2, o1, o2

VARIABLE part    \* "rows" or "drafts"

-----------------------------------------------------------------------------
(* The worlds of Drafting                                                  *)

Plain == [hourly |-> FALSE, fiverr |-> FALSE, min |-> 0, max |-> 60001, complexity |-> 1,
          size |-> "usual", marked |-> FALSE, redFlags |-> 0,
          have |-> {"a"}, terms |-> {}, shown |-> {}]

NoRate == [found |-> FALSE, hourly |-> 0, floor |-> 0]

World0 == [job |-> Plain, rate |-> NoRate, wins |-> [count |-> 0, mean |-> 0], pitch |-> {},
           answers |-> {{"plain"}}, needs |-> {}, overlap |-> FALSE]

\* Every branch of the bid, with maxima below, at and above what it computes.
Rates == {NoRate, [NoRate EXCEPT !.found = TRUE],
          [found |-> TRUE, hourly |-> 4999, floor |-> 0],
          [found |-> TRUE, hourly |-> 6001, floor |-> 130000]}

Priced == [World0 EXCEPT !.answers = {}]

Pricing ==
    {[Priced EXCEPT !.job.hourly = h, !.job.fiverr = ~h, !.job.max = m, !.rate = r] :
        h \in BOOLEAN, m \in {0, 1, 4999, 5000}, r \in Rates}
    \cup
    {[Priced EXCEPT !.job.size = s, !.job.max = m, !.rate = r, !.wins = v] :
        s \in {"usual", "small"}, m \in {1, 60001, 124001}, r \in Rates,
        v \in {[count |-> 2, mean |-> 900000], [count |-> 3, mean |-> 1000],
               [count |-> 3, mean |-> 900000]}}

\* What the model, a template or a title puts into a draft, judged with and
\* without the skills that were asked for.
Answers == {{}, {"leak"}, {"plain", "leak"}, {"plain", "rate"}, {"plain", "split"}}

Writing ==
    {[World0 EXCEPT !.job.marked = m, !.job.redFlags = f, !.pitch = p, !.answers = {t},
                    !.needs = {{}, {"b"}}] :
        m \in BOOLEAN, f \in {0, 4}, p \in {{}, {"leak", "rate"}}, t \in Answers}

\* Two generations at a time.
Racing == {[World0 EXCEPT !.answers = {{"leak"}}, !.overlap = TRUE]}

AllWorlds == Pricing \cup Writing \cup Racing

-----------------------------------------------------------------------------
MCInit ==
    \/ /\ part = "rows" /\ Init
       /\ world = World0 /\ row = NoDraft /\ child = NoDraft
       /\ gen = [w \in Writers |-> NoGen] /\ pool = {}
       /\ drawn = [openings |-> {}, raced |-> FALSE]
    \/ /\ part = "drafts" /\ DraftingInit
       /\ job = "listed" /\ rows = <<>> /\ queue = 0
       /\ task = [w \in Workers |-> Idle] /\ tick = Idle /\ manual = Idle
       /\ recent = TRUE /\ calm = TRUE /\ autos = 0 /\ lost = 0

MCNext ==
    /\ \/ part = "rows" /\ Next /\ UNCHANGED draftingVars
       \/ part = "drafts" /\ DraftingNext /\ UNCHANGED vars
    /\ UNCHANGED part

MCSpec == MCInit /\ [][MCNext]_<<vars, part, draftingVars>> /\ Fairness
=============================================================================
