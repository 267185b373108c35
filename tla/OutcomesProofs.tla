--------------------------- MODULE OutcomesProofs ---------------------------
(***************************************************************************)
(* The credits of the template, the follow-ups nobody asked for, and the   *)
(* bid id in the JSON column, for any number of overlapping requests and   *)
(* background jobs.                                                        *)
(***************************************************************************)
EXTENDS Outcomes, SequenceTheorems, TLAPS

Template == [wins : Nat, losses : Nat, rate : Nat \X Nat]

History == [marks : Nat, syncs : Nat, autos : Nat, orphans : Nat,
            placed : BOOLEAN, crossed : BOOLEAN, rivals : BOOLEAN]

Types ==
    /\ crew \subseteq Handlers
    /\ item \in Item /\ child \in Seq(Child) /\ tpl \in Template
    /\ run \in [Handlers -> Run] /\ history \in History

\* Who runs what.
Roles ==
    \A h \in Handlers : /\ run[h].op \in {"sync", "status", "due"} => h \in Beats
                        /\ run[h].op \in {"mark", "prep", "submit"} => h \in Users

\* Background jobs that do not overlap credit a proposal that is still
\* undecided, and what they loaded later is decided.
Lone == \A a, b \in Beats : run[a] # Idle /\ run[b] # Idle => a = b

Credits ==
    ~history.rivals =>
       /\ Lone
       /\ history.syncs <= 1
       /\ history.syncs = 1 =>
             /\ item.outcome # "pending"
             /\ \A b \in Beats : run[b].op \in {"sync", "status"} /\ run[b].pc = "act"
                                    => run[b].copy.outcome # "pending"

\* There was one automatic follow-up more than were orphaned only if one is
\* still known by its parent; who drafts one found none.
Asked == IF Named = {} THEN 0 ELSE 1

Asks ==
    ~history.rivals =>
       /\ history.autos <= history.orphans + Asked
       /\ \A b \in Beats : run[b].op = "due" => history.autos <= history.orphans

\* A row is submitted once, and is not watched before that; after the bid was
\* confirmed everybody has loaded its id.
Bids ==
    /\ \A h \in Handlers : run[h].op = "submit" => item.status = "submitting"
    /\ \A g, h \in Handlers : run[g].op = "submit" /\ run[h].op = "submit" => g = h
    /\ \A h \in Handlers : run[h].op = "sync" => item.status \notin {"approved", "submitting"}
    /\ platform # "upwork" => /\ scrape.state = "none"
                              /\ \A h \in Handlers : run[h].op # "status"
    /\ history.placed => /\ platform = "freelancer"
                         /\ item.status \notin {"approved", "submitting"}
    /\ history.placed /\ ~history.crossed =>
          /\ item.result.bid
          /\ \A h \in Handlers : run[h].op \in {"mark", "prep", "sync"} => run[h].copy.result.bid

Inv == Types /\ Roles /\ TemplateCounts /\ Credits /\ Asks /\ Bids

-----------------------------------------------------------------------------
(* Data                                                                    *)

LEMMA Records ==
    /\ Blank \in Copy /\ Idle \in Run /\ Idle.op = "none" /\ Idle.pc = "idle"
    /\ Fresh \in Item /\ Bid \in Item /\ Fresh.status = "approved" /\ Bid.status = "submitted"
    /\ Bid.result.bid /\ NoResult \in Result
<1>1. NoResult \in Result /\ [NoResult EXCEPT !.bid = TRUE] \in Result
      /\ [NoResult EXCEPT !.bid = TRUE].bid
  BY DEF NoResult, Result
<1>2. Blank \in Copy
  BY <1>1 DEF Blank, Copy, Outcomes
<1>3. Fresh \in Item /\ Fresh.status = "approved" /\ Fresh.result = NoResult
  BY <1>1 DEF Fresh, Item, Outcomes
<1>4. Bid = [Fresh EXCEPT !.status = "submitted", !.result = [NoResult EXCEPT !.bid = TRUE]]
  BY <1>3 DEF Bid, Fresh
<1>5. Bid \in Item /\ Bid.status = "submitted" /\ Bid.result.bid
  BY <1>1, <1>3, <1>4 DEF Item
<1>6. Idle \in Run /\ Idle.op = "none" /\ Idle.pc = "idle"
  BY <1>2 DEF Idle, Run
<1> QED
  BY <1>1, <1>2, <1>3, <1>5, <1>6

\* Handler h moves on to next.
Moves(h, next) ==
    /\ run' \in [Handlers -> Run] /\ run'[h] = next
    /\ \A g \in Handlers : g # h => run'[g] = run[g]

LEMMA Moved ==
    ASSUME Types, NEW h \in Handlers, NEW next \in Run, run' = [run EXCEPT ![h] = next]
    PROVE  Moves(h, next)
  BY DEF Types, Moves

LEMMA Ended ==
    ASSUME Types, NEW h \in Handlers, End(h)
    PROVE  Moves(h, Idle)
  BY Records, Moved DEF End

\* A handler loads the row.
LEMMA LoadedCopy ==
    ASSUME Types, NEW op
    PROVE  /\ Loaded(op) \in Copy
           /\ op \notin {"submit", "draft", "due"} => /\ Loaded(op).outcome = item.outcome
                                                      /\ Loaded(op).result = item.result
<1>1. item.outcome \in Outcomes /\ item.result \in Result /\ item.replied \in BOOLEAN
  BY DEF Types, Item
<1>2. (item.replied /\ op \in {"sync", "status"}) \in BOOLEAN
  OBVIOUS
<1> QED
  BY <1>1, <1>2, Records DEF Loaded, Copy

LEMMA LoadStep ==
    ASSUME Types, NEW h \in Handlers, NEW op \in {"mark", "sync", "status", "prep", "draft", "due", "submit"},
           Load(h, op)
    PROVE  /\ run[h] = Idle
           /\ \E next \in Run : /\ Moves(h, next) /\ next.op = op /\ next.pc = "act"
                                /\ next.copy = Loaded(op)
           /\ history' \in History
           /\ history'.rivals <=> (history.rivals \/ Rivals(h))
           /\ history'.marks = history.marks /\ history'.syncs = history.syncs
           /\ history'.autos = history.autos /\ history'.orphans = history.orphans
           /\ history'.placed = history.placed /\ history'.crossed = history.crossed
           /\ UNCHANGED <<crew, child, tpl, scrape, world, platform>>
<1> DEFINE next == [op |-> op, pc |-> "act", copy |-> Loaded(op)]
<1>1. next \in Run
  BY LoadedCopy DEF Run
<1>2. run[h] = Idle /\ run' = [run EXCEPT ![h] = next]
      /\ history' = [history EXCEPT !.rivals = history.rivals \/ Rivals(h)]
      /\ UNCHANGED <<crew, child, tpl, scrape, world, platform>>
  BY DEF Load
<1>3. next.op = op /\ next.pc = "act" /\ next.copy = Loaded(op)
  OBVIOUS
<1> HIDE DEF next
<1>4. Moves(h, next)
  BY <1>1, <1>2, Moved
<1>5. (history.rivals \/ Rivals(h)) \in BOOLEAN
  OBVIOUS
<1>6. /\ history' \in History
      /\ history'.rivals = (history.rivals \/ Rivals(h))
      /\ history'.marks = history.marks /\ history'.syncs = history.syncs
      /\ history'.autos = history.autos /\ history'.orphans = history.orphans
      /\ history'.placed = history.placed /\ history'.crossed = history.crossed
  BY <1>2, <1>5 DEF Types, History
<1> QED
  BY <1>1, <1>2, <1>3, <1>4, <1>6

\* What record_outcome does to the row and the template.
LEMMA RecordStep ==
    ASSUME Types, NEW h \in Handlers, NEW outcome \in Outcomes \ {"pending"}, RecordOutcome(h, outcome)
    PROVE  /\ item' \in Item /\ item'.status = item.status
           /\ (item.outcome # "pending" \/ run[h].copy.outcome = "pending") => item'.outcome # "pending"
           /\ item.result.bid /\ run[h].copy.result.bid => item'.result.bid
           /\ tpl' \in Template /\ tpl'.wins + tpl'.losses = tpl.wins + tpl.losses + 1
           /\ tpl'.rate = <<tpl'.wins, tpl'.losses>>
<1> DEFINE copy == run[h].copy
           new == [copy.result EXCEPT !.stamp = TRUE]
           result == Merged(copy, new)
           found == IF outcome = copy.outcome THEN item.outcome ELSE outcome
<1>1. copy.outcome \in Outcomes /\ copy.result \in Result
  BY DEF Types, Run, Copy
<1>2. new \in Result /\ new.bid = copy.result.bid
  BY <1>1 DEF Result
<1>3. item.result \in Result /\ item.outcome \in Outcomes
  BY DEF Types, Item
<1>4. result \in Result /\ (item.result.bid /\ copy.result.bid => result.bid)
  BY <1>2, <1>3 DEF Merged
<1>5. found \in Outcomes /\ (item.outcome # "pending" \/ copy.outcome = "pending" => found # "pending")
  BY <1>3
<1>6. item' = [item EXCEPT !.outcome = found, !.result = result]
  BY DEF RecordOutcome, Recorded
<1> HIDE DEF result, found
<1>7. item' \in Item /\ item'.status = item.status /\ item'.outcome = found /\ item'.result = result
  BY <1>4, <1>5, <1>6 DEF Types, Item
<1>8. /\ tpl' = Credited(outcome) /\ tpl.wins \in Nat /\ tpl.losses \in Nat
  BY DEF RecordOutcome, Types, Template
<1>9. tpl' \in Template /\ tpl'.wins + tpl'.losses = tpl.wins + tpl.losses + 1
      /\ tpl'.rate = <<tpl'.wins, tpl'.losses>>
  BY <1>8 DEF Credited, Template
<1> QED
  BY <1>4, <1>5, <1>7, <1>9

-----------------------------------------------------------------------------
(* A handler loads                                                         *)

LEMMA LoadsStep ==
    ASSUME Inv, NEW h \in Handlers, NEW op \in {"mark", "sync", "status", "prep", "draft", "due", "submit"},
           Load(h, op), op # "submit" => UNCHANGED item,
           op = "submit" => item.status = "approved" /\ item' = [item EXCEPT !.status = "submitting"],
           op \in {"sync", "status", "due"} => h \in Beats,
           op \in {"mark", "prep", "submit", "draft"} => h \in Users,
           op = "sync" => platform = "freelancer" /\ item.status \notin {"approved", "submitting"},
           op = "status" => scrape.state # "none",
           op = "due" => Named = {}
    PROVE  Inv'
<1>1. PICK next \in Run : /\ Moves(h, next) /\ next.op = op /\ next.pc = "act"
                          /\ next.copy = Loaded(op)
  BY LoadStep DEF Inv
<1>2. /\ run[h] = Idle /\ history' \in History
      /\ history'.rivals <=> (history.rivals \/ Rivals(h))
      /\ history'.marks = history.marks /\ history'.syncs = history.syncs
      /\ history'.autos = history.autos /\ history'.orphans = history.orphans
      /\ history'.placed = history.placed /\ history'.crossed = history.crossed
      /\ UNCHANGED <<crew, child, tpl, scrape, world, platform>>
  BY LoadStep DEF Inv
<1>3. item' \in Item /\ item'.outcome = item.outcome /\ item'.result = item.result
      /\ (op # "submit" => item'.status = item.status) /\ (op = "submit" => item'.status = "submitting")
  BY DEF Inv, Types, Item
<1>4. op \notin {"submit", "draft", "due"} => next.copy.outcome = item.outcome /\ next.copy.result = item.result
  BY <1>1, LoadedCopy DEF Inv
<1>5. Types'
  BY <1>1, <1>2, <1>3 DEF Inv, Types, Moves
<1>6. Roles'
  BY <1>1 DEF Inv, Roles, Moves
<1>7. TemplateCounts'
  BY <1>2 DEF Inv, TemplateCounts
<1>8. ~history'.rivals => ~history.rivals /\ (h \in Beats => \A b \in Beats \ {h} : run[b] = Idle)
  BY <1>2 DEF Rivals
<1>9. ASSUME ~history'.rivals
      PROVE  Lone'
  <2>1. CASE h \in Beats
    BY <1>1, <1>8, <1>9, <2>1 DEF Lone, Moves, Handlers
  <2>2. CASE h \notin Beats
    BY <1>1, <1>8, <1>9, <2>2 DEF Inv, Credits, Lone, Moves, Handlers
  <2> QED
    BY <2>1, <2>2
<1>10. Credits'
  BY <1>1, <1>2, <1>3, <1>4, <1>8, <1>9 DEF Inv, Credits, Moves, Handlers
<1>11. Asks'
  <2>1. Named' = Named
    BY <1>2 DEF Named
  <2>2. op = "due" => Asked = 0
    BY DEF Asked
  <2>3. history.autos \in Nat /\ history.orphans \in Nat
    BY DEF Inv, Types, History
  <2> QED
    BY <1>1, <1>2, <1>8, <2>1, <2>2, <2>3 DEF Inv, Asks, Asked, Moves, Handlers
<1>12. op = "submit" => \A g \in Handlers : run[g].op # "submit" /\ run[g].op # "sync"
  BY DEF Inv, Bids
<1>13. Bids'
  BY <1>1, <1>2, <1>3, <1>4, <1>12 DEF Inv, Bids, Moves
<1> QED
  BY <1>5, <1>6, <1>7, <1>10, <1>11, <1>13 DEF Inv

LEMMA ReadsStep ==
    ASSUME Inv, NEW h \in Users, ReadMark(h) \/ ClaimSubmit(h) \/ ReadPrep(h) \/ ReadDraft(h)
    PROVE  Inv'
<1>1. h \in Handlers
  BY DEF Handlers
<1> QED
  BY <1>1, LoadsStep DEF ReadMark, ClaimSubmit, ReadPrep, ReadDraft

LEMMA BeatReadsStep ==
    ASSUME Inv, NEW h \in Beats, ReadSync(h) \/ ReadStatus(h) \/ ReadDue(h)
    PROVE  Inv'
<1>1. h \in Handlers
  BY DEF Handlers
<1> QED
  BY <1>1, LoadsStep DEF ReadSync, ReadStatus, ReadDue, Polled, Watched, Due, Unasked

-----------------------------------------------------------------------------
(* A handler goes on                                                       *)

\* A step that ends a handler or takes it to its second half, and neither
\* credits nor drafts.
LEMMA QuietStep ==
    ASSUME Inv, NEW h \in Handlers, NEW next \in Run, Moves(h, next),
           next = Idle \/ (next.op = run[h].op /\ next.pc # "act" /\ run[h] # Idle
                             /\ next.copy.result.bid = run[h].copy.result.bid),
           UNCHANGED <<crew, child, tpl, history, platform>>,
           platform # "upwork" /\ scrape.state = "none" => scrape'.state = "none",
           item' \in Item, item'.outcome = item.outcome,
           item'.status = item.status \/ (run[h].op = "submit" /\ next = Idle),
           history.placed => item'.status = item.status /\ (~history.crossed => item'.result.bid)
    PROVE  Inv'
<1>1. Types' /\ Roles'
  BY Records DEF Inv, Types, Roles, Moves
<1>2. TemplateCounts'
  BY DEF Inv, TemplateCounts
<1>3. Credits'
  BY Records DEF Inv, Credits, Lone, Moves, Handlers
<1>4. Asks'
  BY Records DEF Inv, Asks, Asked, Named, Moves, Handlers
<1>5. Bids'
  <2>1. \A g \in Handlers : /\ run'[g].op \in {run[g].op, "none"}
                            /\ run'[g].op # "none" => run'[g].copy.result.bid = run[g].copy.result.bid
    BY Records DEF Moves
  <2>2. item'.status # item.status =>
           /\ item.status = "submitting"
           /\ \A g \in Handlers : run'[g].op # "submit" /\ run'[g].op # "sync"
    BY Records, <2>1 DEF Inv, Bids, Moves
  <2>3. /\ \A g \in Handlers : run'[g].op = "submit" => item'.status = "submitting"
        /\ \A g \in Handlers : run'[g].op = "sync" => item'.status \notin {"approved", "submitting"}
    BY <2>1, <2>2 DEF Inv, Bids
  <2>4. \A f, g \in Handlers : run'[f].op = "submit" /\ run'[g].op = "submit" => f = g
    BY <2>1 DEF Inv, Bids
  <2>5. platform' # "upwork" => scrape'.state = "none" /\ \A g \in Handlers : run'[g].op # "status"
    BY <2>1 DEF Inv, Bids
  <2>6. history'.placed => /\ platform' = "freelancer"
                           /\ item'.status \notin {"approved", "submitting"}
    BY DEF Inv, Bids
  <2>7. history'.placed /\ ~history'.crossed =>
           /\ item'.result.bid
           /\ \A g \in Handlers : run'[g].op \in {"mark", "prep", "sync"} => run'[g].copy.result.bid
    BY <2>1 DEF Inv, Bids
  <2> QED
    BY <2>3, <2>4, <2>5, <2>6, <2>7 DEF Bids
<1> QED
  BY <1>1, <1>2, <1>3, <1>4, <1>5 DEF Inv

LEMMA EndStep ==
    ASSUME Inv, NEW h \in Handlers, Abort(h) \/ CommitPrep(h) \/ SyncReply(h) \/ StatusReply(h)
    PROVE  Inv'
<1>1. Moves(h, Idle)
  BY Ended DEF Inv, Abort, CommitPrep, SyncReply, StatusReply
<1>2. UNCHANGED <<crew, child, tpl, history, platform>>
  BY DEF Abort, CommitPrep, SyncReply, StatusReply
<1>3. Idle \in Run
  BY Records
<1>4. item \in Item /\ item.result \in Result /\ run[h].copy.result \in Result
  BY DEF Inv, Types, Item, Run, Copy
<1>5. CASE UNCHANGED <<item, scrape>>
  BY <1>1, <1>2, <1>3, <1>4, <1>5, QuietStep DEF Inv, Bids
<1>6. CASE CommitPrep(h)
  <2> DEFINE result == Merged(run[h].copy, Prepared(run[h].copy.result))
  <2>1. item' = [item EXCEPT !.result = result] /\ UNCHANGED scrape /\ run[h].op = "prep"
    BY <1>6 DEF CommitPrep, At
  <2>2. Prepared(run[h].copy.result) \in Result
        /\ Prepared(run[h].copy.result).bid = run[h].copy.result.bid
    BY <1>4 DEF Prepared, Result
  <2>3. result \in Result /\ (item.result.bid /\ run[h].copy.result.bid => result.bid)
    BY <1>4, <2>2 DEF Merged
  <2> HIDE DEF result
  <2>4. item' \in Item /\ item'.status = item.status /\ item'.outcome = item.outcome /\ item'.result = result
    BY <1>4, <2>1, <2>3 DEF Item
  <2>5. history.placed /\ ~history.crossed => item'.result.bid
    BY <2>1, <2>3, <2>4 DEF Inv, Bids
  <2> QED
    BY <1>1, <1>2, <1>3, <2>1, <2>4, <2>5, QuietStep
<1>7. CASE SyncReply(h) \/ StatusReply(h)
  <2>1. PICK b \in BOOLEAN : item' = [item EXCEPT !.replied = b]
    <3>1. (item.replied \/ (~run[h].copy.replied /\ ClientReplied(run[h].copy))) \in BOOLEAN
          /\ (item.replied \/ (scrape.answered /\ ~run[h].copy.replied)) \in BOOLEAN
      OBVIOUS
    <3> QED
      BY <1>7, <3>1 DEF SyncReply, StatusReply
  <2>2. item' \in Item /\ item'.status = item.status /\ item'.outcome = item.outcome
        /\ item'.result = item.result
    BY <1>4, <2>1 DEF Item
  <2>3. platform # "upwork" /\ scrape.state = "none" => scrape'.state = "none"
    BY <1>7 DEF SyncReply, StatusReply, At, Inv, Bids
  <2> QED
    BY <1>1, <1>2, <1>3, <2>2, <2>3, QuietStep DEF Inv, Bids
<1> QED
  BY <1>5, <1>6, <1>7 DEF Abort

LEMMA CommitSubmitStep ==
    ASSUME Inv, NEW h \in Handlers, CommitSubmit(h)
    PROVE  Inv'
<1>1. Moves(h, Idle) /\ run[h].op = "submit" /\ UNCHANGED <<crew, child, tpl, scrape, platform>>
  BY Ended DEF Inv, CommitSubmit, At
<1>2. Idle \in Run /\ NoResult \in Result /\ item \in Item /\ item.result \in Result
      /\ [NoResult EXCEPT !.bid = TRUE] \in Result /\ [NoResult EXCEPT !.bid = TRUE].bid
  BY Records DEF Inv, Types, Item, Result, NoResult
<1>3. ~history.placed
  BY <1>1 DEF Inv, Bids
<1>4. CASE UNCHANGED history
  <2>1. \E s \in {"queued_for_browser", "failed", "approved", "submitted"}, r \in Result :
           item' = [item EXCEPT !.status = s, !.result = r]
    BY <1>2 DEF CommitSubmit, Released
  <2>2. item' \in Item /\ item'.outcome = item.outcome
    BY <1>2, <2>1 DEF Item
  <2> QED
    BY <1>1, <1>2, <1>3, <1>4, <2>2, QuietStep
<1>5. CASE /\ platform = "freelancer"
           /\ item' = [item EXCEPT !.status = "submitted", !.result = [NoResult EXCEPT !.bid = TRUE]]
           /\ history' = [history EXCEPT !.placed = TRUE,
                                        !.crossed = @ \/ \E g \in Users \ {h} : run[g] # Idle]
  <2> DEFINE others == \E g \in Users \ {h} : run[g] # Idle
  <2>1. (history.crossed \/ others) \in BOOLEAN
    OBVIOUS
  <2>2. history' = [history EXCEPT !.placed = TRUE, !.crossed = history.crossed \/ others]
    BY <1>5
  <2>3. /\ history' \in History /\ history'.placed /\ history'.crossed = (history.crossed \/ others)
        /\ history'.rivals = history.rivals
        /\ history'.marks = history.marks /\ history'.syncs = history.syncs
        /\ history'.autos = history.autos /\ history'.orphans = history.orphans
    BY <2>1, <2>2 DEF Inv, Types, History
  <2>4. item' \in Item /\ item'.status = "submitted" /\ item'.outcome = item.outcome /\ item'.result.bid
    BY <1>2, <1>5 DEF Item
  <2>5. Types' /\ Roles'
    BY <1>1, <2>3, <2>4, Records DEF Inv, Types, Roles, Moves
  <2>6. TemplateCounts'
    BY <1>1, <2>3 DEF Inv, TemplateCounts
  <2>7. Credits'
    BY <1>1, <2>3, <2>4, Records DEF Inv, Credits, Lone, Moves, Handlers
  <2>8. Asks'
    BY <1>1, <2>3, Records DEF Inv, Asks, Asked, Named, Moves, Handlers
  <2>9. ~others => \A g \in Handlers : g # h => run[g].op \notin {"mark", "prep"}
    BY Records DEF Inv, Roles, Handlers
  <2>10. \A g \in Handlers : run[g].op # "sync" /\ (g # h => run[g].op # "submit")
    BY <1>1 DEF Inv, Bids
  <2> HIDE DEF others
  <2>11. Bids'
    <3>1. \A g \in Handlers : /\ run'[g].op \in {run[g].op, "none"}
                              /\ run'[g].op \notin {"submit", "sync"}
      BY <1>1, <2>10, Records DEF Moves
    <3>2. ~others => \A g \in Handlers : run'[g].op \notin {"mark", "prep"}
      BY <1>1, <2>9, Records DEF Moves
    <3>3. platform' # "upwork" => scrape'.state = "none" /\ \A g \in Handlers : run'[g].op # "status"
      BY <1>1, <3>1 DEF Inv, Bids
    <3> QED
      BY <1>1, <1>5, <2>3, <2>4, <3>1, <3>2, <3>3 DEF Bids
  <2> QED
    BY <2>5, <2>6, <2>7, <2>8, <2>11 DEF Inv
<1> QED
  BY <1>4, <1>5 DEF CommitSubmit

\* An outcome is recorded, by the user or by a job that found it undecided.
LEMMA CommitMarkStep ==
    ASSUME Inv, NEW h \in Handlers, CommitMark(h)
    PROVE  Inv'
<1>1. PICK outcome \in Outcomes \ {"pending"} : RecordOutcome(h, outcome)
  BY DEF CommitMark
<1>2. Moves(h, Idle) /\ run[h].op = "mark" /\ UNCHANGED <<crew, child, scrape, platform>>
      /\ history' = [history EXCEPT !.marks = @ + 1]
  BY Ended DEF Inv, CommitMark, At
<1>3. /\ history' \in History /\ history'.placed = history.placed /\ history'.crossed = history.crossed
      /\ history'.rivals = history.rivals
      /\ history'.marks = history.marks + 1 /\ history'.syncs = history.syncs
      /\ history'.autos = history.autos /\ history'.orphans = history.orphans
  BY <1>2 DEF Inv, Types, History
<1>4. /\ item' \in Item /\ item'.status = item.status
      /\ item.outcome # "pending" => item'.outcome # "pending"
      /\ item.result.bid /\ run[h].copy.result.bid => item'.result.bid
      /\ tpl' \in Template /\ tpl'.wins + tpl'.losses = tpl.wins + tpl.losses + 1
      /\ tpl'.rate = <<tpl'.wins, tpl'.losses>>
  BY <1>1, RecordStep DEF Inv
<1>5. Types' /\ Roles'
  BY <1>2, <1>3, <1>4, Records DEF Inv, Types, Roles, Moves
<1>6. TemplateCounts'
  BY <1>3, <1>4 DEF Inv, TemplateCounts, Types, History
<1>7. Credits'
  BY <1>2, <1>3, <1>4, Records DEF Inv, Credits, Lone, Moves, Handlers
<1>8. Asks'
  BY <1>2, <1>3, Records DEF Inv, Asks, Asked, Named, Moves, Handlers
<1>9. Bids'
  BY <1>2, <1>3, <1>4, Records DEF Inv, Bids, Moves
<1> QED
  BY <1>5, <1>6, <1>7, <1>8, <1>9 DEF Inv

LEMMA SyncStep ==
    ASSUME Inv, NEW h \in Handlers, SyncBid(h) \/ CommitStatus(h)
    PROVE  Inv'
<1> DEFINE copy == run[h].copy
<1>1. run[h].op \in {"sync", "status"} /\ run[h].pc = "act" /\ run[h] # Idle
      /\ UNCHANGED <<crew, child, scrape, platform>>
  BY Records DEF SyncBid, CommitStatus, At
<1>2. run[h] \in Run /\ copy \in Copy /\ copy.result \in Result
  BY DEF Inv, Types, Run, Copy
<1>3. PICK o \in Outcomes \ {"pending"} :
         \/ /\ copy.outcome = "pending" /\ RecordOutcome(h, o)
            /\ history' = [history EXCEPT !.syncs = @ + 1]
            /\ run' = [run EXCEPT ![h].pc = "reply", ![h].copy = Knows(copy, o)]
         \/ /\ UNCHANGED <<item, tpl, history>>
            /\ run' = [run EXCEPT ![h].pc = "reply", ![h].copy = copy]
  BY DEF SyncBid, CommitStatus, Outcome, Outcomes, Undecided
<1>4. CASE /\ UNCHANGED <<item, tpl, history>>
           /\ run' = [run EXCEPT ![h].pc = "reply", ![h].copy = copy]
  <2> DEFINE next == [run[h] EXCEPT !.pc = "reply", !.copy = copy]
  <2>1. next \in Run /\ next.op = run[h].op /\ next.pc = "reply" /\ next.copy = copy
    BY <1>2 DEF Run
  <2>2. run' = [run EXCEPT ![h] = next]
    BY <1>4
  <2> HIDE DEF next
  <2>3. Moves(h, next)
    BY <2>1, <2>2, Moved DEF Inv
  <2>4. item \in Item
    BY DEF Inv, Types
  <2> QED
    BY <1>1, <1>4, <2>1, <2>3, <2>4, QuietStep DEF Inv, Bids
<1>5. CASE /\ copy.outcome = "pending" /\ RecordOutcome(h, o)
           /\ history' = [history EXCEPT !.syncs = @ + 1]
           /\ run' = [run EXCEPT ![h].pc = "reply", ![h].copy = Knows(copy, o)]
  <2> DEFINE next == [run[h] EXCEPT !.pc = "reply", !.copy = Knows(copy, o)]
  <2>1. Knows(copy, o) \in Copy /\ Knows(copy, o).result.bid = copy.result.bid
    <3>1. [copy.result EXCEPT !.stamp = TRUE] \in Result
          /\ [copy.result EXCEPT !.stamp = TRUE].bid = copy.result.bid
      BY <1>2 DEF Result
    <3>2. Knows(copy, o) = [copy EXCEPT !.outcome = o, !.result = [copy.result EXCEPT !.stamp = TRUE]]
      BY <1>2 DEF Knows, Copy
    <3> QED
      BY <1>2, <3>1, <3>2 DEF Copy
  <2>2. next \in Run /\ next.op = run[h].op /\ next.pc = "reply" /\ next.copy = Knows(copy, o)
    BY <1>2, <2>1 DEF Run
  <2>3. run' = [run EXCEPT ![h] = next]
    BY <1>5
  <2> HIDE DEF next
  <2>4. Moves(h, next)
    BY <2>2, <2>3, Moved DEF Inv
  <2>5. /\ history' \in History /\ history'.placed = history.placed /\ history'.crossed = history.crossed
        /\ history'.rivals = history.rivals
        /\ history'.marks = history.marks /\ history'.syncs = history.syncs + 1
        /\ history'.autos = history.autos /\ history'.orphans = history.orphans
    BY <1>5 DEF Inv, Types, History
  <2>6. /\ item' \in Item /\ item'.status = item.status /\ item'.outcome # "pending"
        /\ item.result.bid /\ run[h].copy.result.bid => item'.result.bid
        /\ tpl' \in Template /\ tpl'.wins + tpl'.losses = tpl.wins + tpl.losses + 1
        /\ tpl'.rate = <<tpl'.wins, tpl'.losses>>
    BY <1>5, RecordStep DEF Inv
  <2>7. Types' /\ Roles'
    BY <1>1, <2>2, <2>4, <2>5, <2>6 DEF Inv, Types, Roles, Moves
  <2>8. TemplateCounts'
    BY <2>5, <2>6 DEF Inv, TemplateCounts, Types, History
  <2>9. h \in Beats
    BY <1>1 DEF Inv, Roles
  <2>10. ~history.rivals => history.syncs = 0 /\ \A b \in Beats \ {h} : run[b] = Idle
    BY <1>1, <1>5, <2>9 DEF Inv, Credits, Lone, Types, History
  <2>11. Credits'
    BY <2>2, <2>4, <2>5, <2>6, <2>9, <2>10, Records DEF Credits, Lone, Moves, Handlers
  <2>12. Asks'
    BY <1>1, <2>2, <2>4, <2>5 DEF Inv, Asks, Asked, Named, Moves, Handlers
  <2>13. history.placed => run[h].op = "sync"
    BY <1>1 DEF Inv, Bids
  <2>14. Bids'
    BY <1>1, <2>1, <2>2, <2>4, <2>5, <2>6, <2>13 DEF Inv, Bids, Moves
  <2> QED
    BY <2>7, <2>8, <2>11, <2>12, <2>14 DEF Inv
<1> QED
  BY <1>3, <1>4, <1>5

LEMMA InsertStep ==
    ASSUME Inv, NEW h \in Handlers, InsertFollowUp(h)
    PROVE  Inv'
<1> DEFINE new == [status |-> "pending_review", parent |-> TRUE]
           n == IF run[h].op = "due" THEN 1 ELSE 0
<1>1. /\ Moves(h, Idle) /\ run[h].op \in {"draft", "due"} /\ child' = Append(child, new)
      /\ history' = [history EXCEPT !.autos = history.autos + n]
      /\ UNCHANGED <<crew, item, tpl, scrape, platform>>
  BY Ended DEF Inv, InsertFollowUp
<1>2. /\ history' \in History /\ history'.placed = history.placed /\ history'.crossed = history.crossed
      /\ history'.rivals = history.rivals
      /\ history'.marks = history.marks /\ history'.syncs = history.syncs
      /\ history'.autos = history.autos + n /\ history'.orphans = history.orphans
  BY <1>1 DEF Inv, Types, History
<1>3. child' \in Seq(Child) /\ Named' # {}
  <2>1. new \in Child /\ child \in Seq(Child)
    BY DEF Inv, Types, Child
  <2>2. child' \in Seq(Child) /\ Len(child') = Len(child) + 1 /\ child'[Len(child) + 1] = new
        /\ Len(child) \in Nat
    BY <1>1, <2>1, AppendProperties, LenProperties
  <2>3. Len(child) + 1 \in DOMAIN child' /\ child'[Len(child) + 1].parent
    BY <2>2, LenProperties
  <2> QED
    BY <2>2, <2>3 DEF Named
<1>4. Types' /\ Roles'
  BY <1>1, <1>2, <1>3, Records DEF Inv, Types, Roles, Moves
<1>5. TemplateCounts'
  BY <1>1, <1>2 DEF Inv, TemplateCounts
<1>6. Credits'
  BY <1>1, <1>2, Records DEF Inv, Credits, Lone, Moves, Handlers
<1>7. Asks'
  <2>1. history.autos \in Nat /\ history.orphans \in Nat /\ Asked' = 1 /\ Asked \in {0, 1}
    BY <1>3 DEF Inv, Types, History, Asked
  <2>2. CASE run[h].op = "due"
    <3>1. h \in Beats /\ run[h] # Idle
      BY <2>2, Records DEF Inv, Roles
    <3>2. ~history.rivals => history.autos <= history.orphans /\ \A b \in Beats : b # h => run[b] = Idle
      BY <2>2, <3>1 DEF Inv, Asks, Credits, Lone
    <3>3. ~history'.rivals => \A b \in Beats : run'[b] = Idle
      BY <1>1, <1>2, <3>2 DEF Moves, Handlers
    <3> QED
      BY <1>2, <2>1, <2>2, <3>2, <3>3, Records DEF Asks
  <2>3. CASE run[h].op # "due"
    BY <1>1, <1>2, <2>1, <2>3, Records DEF Inv, Asks, Moves, Handlers
  <2> QED
    BY <2>2, <2>3
<1>8. Bids'
  BY <1>1, <1>2, Records DEF Inv, Bids, Moves
<1> QED
  BY <1>4, <1>5, <1>6, <1>7, <1>8 DEF Inv

-----------------------------------------------------------------------------
(* The other steps                                                         *)

LEMMA ReviewStep ==
    ASSUME Inv, NEW i \in DOMAIN child, ReviewFollowUp(i)
    PROVE  Inv'
<1>1. UNCHANGED <<crew, item, tpl, run, scrape, platform>>
  BY DEF ReviewFollowUp
<1>2. child \in Seq(Child) /\ i \in 1 .. Len(child) /\ child[i] \in Child
  BY LenProperties, ElementOfSeq DEF Inv, Types
<1>3. PICK new \in Child : /\ child' = [child EXCEPT ![i] = new]
                           /\ \/ new.parent = child[i].parent /\ UNCHANGED history
                              \/ ~new.parent /\ history' = [history EXCEPT !.orphans = @ + IF child[i].parent THEN 1 ELSE 0]
  <2>1. CASE \E s \in {"approved", "closed"} : child' = [child EXCEPT ![i].status = s] /\ UNCHANGED history
    <3>1. PICK s \in {"approved", "closed"} : child' = [child EXCEPT ![i].status = s] /\ UNCHANGED history
      BY <2>1
    <3>2. [child[i] EXCEPT !.status = s] \in Child /\ [child[i] EXCEPT !.status = s].parent = child[i].parent
      BY <1>2 DEF Child
    <3>3. child' = [child EXCEPT ![i] = [child[i] EXCEPT !.status = s]]
      BY <3>1
    <3> QED
      BY <3>1, <3>2, <3>3
  <2>2. CASE \E s \in {"approved", "closed"} :
                /\ child' = [child EXCEPT ![i] = [status |-> s, parent |-> FALSE]]
                /\ history' = [history EXCEPT !.orphans = @ + IF child[i].parent THEN 1 ELSE 0]
    BY <2>2 DEF Child
  <2> QED
    BY <2>1, <2>2 DEF ReviewFollowUp
<1> DEFINE n == IF child[i].parent /\ ~new.parent THEN 1 ELSE 0
<1>5. /\ history' \in History /\ history'.placed = history.placed /\ history'.crossed = history.crossed
      /\ history'.rivals = history.rivals
      /\ history'.marks = history.marks /\ history'.syncs = history.syncs
      /\ history'.autos = history.autos /\ history'.orphans = history.orphans + n
  BY <1>3 DEF Inv, Types, History
<1>6. /\ child' \in Seq(Child) /\ DOMAIN child' = DOMAIN child /\ child'[i] = new
      /\ \A j \in DOMAIN child : j # i => child'[j] = child[j]
  BY <1>2, <1>3, ExceptSeq, LenProperties
<1>7. Types' /\ Roles' /\ TemplateCounts' /\ Credits' /\ Bids'
  BY <1>1, <1>5, <1>6 DEF Inv, Types, Roles, TemplateCounts, Credits, Lone, Bids
<1>8. Asks'
  <2>1. history.autos \in Nat /\ history.orphans \in Nat
    BY DEF Inv, Types, History
  <2>2. CASE n = 0
    <3>1. Named \subseteq Named'
      BY <1>6, <2>2 DEF Named
    <3> QED
      BY <1>1, <1>5, <2>1, <2>2, <3>1 DEF Inv, Asks, Asked
  <2>3. CASE n = 1
    BY <1>1, <1>5, <2>1, <2>3 DEF Inv, Asks, Asked
  <2> QED
    BY <2>2, <2>3
<1> QED
  BY <1>7, <1>8 DEF Inv

LEMMA WorldStep ==
    ASSUME Inv,
           \/ \E s \in {"submitted", "failed", "submitted_unverified"} : Verdict(s)
           \/ MarkSubmitted \/ EnqueueScrape \/ ReadPage \/ Answer \/ UNCHANGED vars
           \/ \E fate \in Fates : Decide(fate)
    PROVE  Inv'
<1>1. UNCHANGED <<crew, child, tpl, run, platform, history>>
  BY DEF Verdict, MarkSubmitted, EnqueueScrape, ReadPage, Answer, Decide, vars
<1>2. platform # "upwork" => UNCHANGED scrape
  BY DEF Verdict, MarkSubmitted, EnqueueScrape, ReadPage, Answer, Decide, vars, Scrapable, Inv, Bids
<1>3. CASE UNCHANGED item
  BY <1>1, <1>2, <1>3 DEF Inv, Types, Roles, TemplateCounts, Credits, Lone, Asks, Asked, Named, Bids
<1>4. CASE \E s \in {"submitted", "failed", "submitted_unverified"} :
              item.status # "submitting" /\ item' = [item EXCEPT !.status = s]
  <2>1. /\ item' \in Item /\ item'.outcome = item.outcome /\ item'.result = item.result
        /\ item'.status \notin {"approved", "submitting"} /\ item.status # "submitting"
    BY <1>4 DEF Inv, Types, Item
  <2>2. Types' /\ Roles' /\ TemplateCounts' /\ Credits' /\ Asks'
    BY <1>1, <2>1 DEF Inv, Types, Roles, TemplateCounts, Credits, Lone, Asks, Asked, Named
  <2>3. Bids'
    BY <1>1, <1>2, <2>1 DEF Inv, Bids
  <2> QED
    BY <2>2, <2>3 DEF Inv
<1> QED
  BY <1>3, <1>4 DEF Verdict, MarkSubmitted, EnqueueScrape, ReadPage, Answer, Decide, vars

-----------------------------------------------------------------------------
LEMMA InvInit == Init => Inv
<1> SUFFICES ASSUME Init PROVE Inv
  OBVIOUS
<1>1. /\ crew \in Crews /\ child = <<>> /\ tpl = [wins |-> 0, losses |-> 0, rate |-> <<0, 0>>]
      /\ run = [h \in Handlers |-> Idle] /\ scrape.state = "none"
      /\ history = [marks |-> 0, syncs |-> 0, autos |-> 0, orphans |-> 0,
                    placed |-> item = Bid, crossed |-> FALSE, rivals |-> FALSE]
      /\ item = Fresh \/ (item = Bid /\ platform = "freelancer")
  BY DEF Init
<1>2. (item = Bid) \in BOOLEAN
  OBVIOUS
<1>3. /\ history \in History /\ history.placed = (item = Bid) /\ history.rivals = FALSE
      /\ history.marks = 0 /\ history.syncs = 0 /\ history.autos = 0 /\ history.orphans = 0
  BY <1>1, <1>2 DEF History
<1>4. Types
  BY <1>1, <1>3, Records, CrewsAssumption, EmptySeq DEF Types, Template, Handlers
<1>5. \A h \in Handlers : run[h] = Idle
  BY <1>1
<1>6. Roles /\ TemplateCounts
  BY <1>1, <1>3, <1>5, Records DEF Roles, TemplateCounts
<1>7. Credits
  BY <1>3, <1>5, Records DEF Credits, Lone, Handlers
<1>8. Asks
  BY <1>3, <1>5, Records DEF Asks, Asked, Handlers
<1>9. Bids
  BY <1>1, <1>3, <1>5, Records DEF Bids
<1> QED
  BY <1>4, <1>6, <1>7, <1>8, <1>9 DEF Inv

LEMMA InvNext == Inv /\ [Next]_vars => Inv'
<1> SUFFICES ASSUME Inv, [Next]_vars PROVE Inv'
  OBVIOUS
<1>1. ASSUME NEW h \in Handlers, Continue(h) \/ Abort(h)
      PROVE  Inv'
  BY <1>1, CommitMarkStep, CommitSubmitStep, EndStep, SyncStep, InsertStep DEF Continue
<1> QED
  BY <1>1, ReadsStep, BeatReadsStep, ReviewStep, WorldStep DEF Next

\* The inductive invariant holds in every reachable state.
THEOREM Invariant == Spec => []Inv
  BY InvInit, InvNext, PTL DEF Spec

\* No credit of the template is lost, however its writers overlap.
THEOREM EveryCreditCounts == Spec => []TemplateCounts
<1>1. Inv => TemplateCounts
  BY DEF Inv
<1> QED
  BY <1>1, Invariant, PTL

\* The poll and the posts of a worker credit one proposal once, unless two of
\* them run at once.
THEOREM OneCreditBySync == Spec => []SyncCreditsOnce
<1>1. Inv => SyncCreditsOnce
  BY DEF Inv, Credits, SyncCreditsOnce
<1> QED
  BY <1>1, Invariant, PTL

\* The automation asks the client again only after a follow-up was dispatched
\* and forgot its parent, unless two of its runs overlap.
THEOREM OneAutomaticFollowUp == Spec => []AsksOnce
<1>1. Inv => AsksOnce
  BY DEF Inv, Asks, Asked, AsksOnce, Types, History
<1> QED
  BY <1>1, Invariant, PTL

\* The bid id outlives every writer of the column that had not loaded the row
\* before the bid was confirmed.
THEOREM BidIdKept == Spec => []BidKept
<1>1. Inv => BidKept
  BY DEF Inv, Bids, BidKept
<1> QED
  BY <1>1, Invariant, PTL

=============================================================================
