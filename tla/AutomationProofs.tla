-------------------------- MODULE AutomationProofs --------------------------
(***************************************************************************)
(* The breaker's trial token and cooldown, the lock on the winning bids,   *)
(* and the values that are written whole, for any number of processes,     *)
(* requests, proposals and outages.                                        *)
(***************************************************************************)
EXTENDS Automation, FiniteSetTheorems, SequenceTheorems, TLAPS

-----------------------------------------------------------------------------
(* The trial token                                                         *)

\* Who is on trial took the shared token, and nobody took it after that.
TrialInv ==
    /\ token \in [Scopes -> BOOLEAN] /\ onTrial \in [Scopes -> SUBSET Procs]
    /\ chk \in [Procs -> Check]
    /\ \A s \in Scopes : onTrial[s] = {} \/ (token[s] /\ \E p \in Procs : onTrial[s] = {p})

\* The steps that move neither the tokens nor a check.
LEMMA TrialsAlone ==
    ASSUME TrialInv, UNCHANGED <<token, onTrial>>, chk' \in [Procs -> Check]
    PROVE  TrialInv'
  BY DEF TrialInv

LEMMA PassType ==
    ASSUME TrialInv, NEW p \in Procs, Pass(p) \/ Refuse(p)
    PROVE  chk' \in [Procs -> Check]
<1>1. chk[p] \in Check
  BY DEF TrialInv
<1>2. /\ [pc |-> "look", scope |-> "tenant"] \in Check
      /\ [chk[p] EXCEPT !.pc = "admitted"] \in Check
      /\ [chk[p] EXCEPT !.pc = "refused"] \in Check
  BY <1>1 DEF Check, Scopes
<1> QED
  BY <1>2 DEF Pass, Refuse, TrialInv

LEMMA AcquireTrial ==
    ASSUME TrialInv, NEW p \in Procs, Acquire(p)
    PROVE  TrialInv'
<1> DEFINE s == chk[p].scope
<1>1. s \in Scopes
  BY DEF TrialInv, Check
<1>2. chk' \in [Procs -> Check]
  BY PassType DEF Acquire
<1>3. CASE /\ up /\ ~token[s]
           /\ token' = [token EXCEPT ![s] = TRUE]
           /\ onTrial' = [onTrial EXCEPT ![s] = @ \cup {p}]
  <2>1. onTrial[s] = {}
    BY <1>1, <1>3 DEF TrialInv
  <2>2. onTrial'[s] = {p} /\ token'[s] /\ onTrial' \in [Scopes -> SUBSET Procs]
        /\ token' \in [Scopes -> BOOLEAN]
    BY <1>1, <1>3, <2>1 DEF TrialInv
  <2>3. \A r \in Scopes : r # s => onTrial'[r] = onTrial[r] /\ token'[r] = token[r]
    BY <1>3 DEF TrialInv
  <2> QED
    BY <1>2, <2>2, <2>3 DEF TrialInv
<1>4. CASE UNCHANGED <<token, onTrial>>
  BY <1>2, <1>4, TrialsAlone
<1> QED
  BY <1>3, <1>4 DEF Acquire

LEMMA FreeSlotTrial ==
    ASSUME TrialInv, NEW p \in Procs, NEW s \in Scopes, FreeSlot(p, s), chk' = chk
    PROVE  TrialInv'
<1>1. CASE up
  <2>1. token' = [token EXCEPT ![s] = FALSE] /\ onTrial' = [onTrial EXCEPT ![s] = {}]
    BY <1>1 DEF FreeSlot
  <2> QED
    BY <2>1 DEF TrialInv
<1>2. CASE ~up
  BY <1>2, TrialsAlone DEF FreeSlot, TrialInv
<1> QED
  BY <1>1, <1>2

LEMMA CheckTrial ==
    ASSUME TrialInv, NEW p \in Procs, CheckStep(p)
    PROVE  TrialInv'
<1>1. CASE Look(p)
  <2>1. chk[p] \in Check
    BY DEF TrialInv
  <2>2. [chk[p] EXCEPT !.pc = "half"] \in Check /\ [chk[p] EXCEPT !.pc = "token"] \in Check
    BY <2>1 DEF Check
  <2>3. chk' \in [Procs -> Check]
    <3>1. CASE Pass(p) \/ Refuse(p)
      BY <3>1, PassType
    <3>2. CASE chk' = [chk EXCEPT ![p].pc = "half"] \/ chk' = [chk EXCEPT ![p].pc = "token"]
      BY <2>2, <3>2 DEF TrialInv
    <3> QED
      BY <1>1, <3>1, <3>2 DEF Look
  <2> QED
    BY <1>1, <2>3, TrialsAlone DEF Look
<1>2. CASE HalfOpen(p)
  <2>1. chk[p] \in Check
    BY DEF TrialInv
  <2>2. [chk[p] EXCEPT !.pc = "token"] \in Check
    BY <2>1 DEF Check
  <2>3. chk' \in [Procs -> Check]
    BY <1>2, <2>2 DEF HalfOpen, TrialInv
  <2> QED
    BY <1>2, <2>3, TrialsAlone DEF HalfOpen
<1>3. CASE Acquire(p)
  BY <1>3, AcquireTrial
<1> QED
  BY <1>1, <1>2, <1>3 DEF CheckStep

LEMMA BreakerTrial ==
    ASSUME TrialInv, BreakerMoves
    PROVE  TrialInv'
<1>1. ASSUME NEW p \in Procs, Close(p)
      PROVE  TrialInv'
  BY <1>1, FreeSlotTrial DEF Close, Scopes
<1>2. ASSUME NEW p \in Procs, NEW s \in Scopes, Open(p, s)
      PROVE  TrialInv'
  BY <1>2, FreeSlotTrial DEF Open
<1>3. ASSUME NEW s \in Scopes, Cool(s)
      PROVE  TrialInv'
  BY <1>3, TrialsAlone DEF Cool, TrialInv
<1>4. ASSUME NEW s \in Scopes, TokenLapses(s)
      PROVE  TrialInv'
  BY <1>4 DEF TokenLapses, TrialInv
<1>5. ASSUME NEW p \in Procs, NEW s \in Scopes, OwnTokenLapses(p, s)
      PROVE  TrialInv'
  BY <1>5, TrialsAlone DEF OwnTokenLapses, TrialInv
<1> QED
  BY <1>1, <1>2, <1>3, <1>4, <1>5 DEF BreakerMoves

\* The pipelines touch nothing of the breaker but their own checks.
LEMMA PipelineTrial ==
    ASSUME TrialInv, UNCHANGED <<token, onTrial>>, NEW p \in Procs,
           chk' = chk \/ BeginCheck(p) \/ chk' = [chk EXCEPT ![p] = NoCheck]
    PROVE  TrialInv'
<1>1. NoCheck \in Check /\ [pc |-> "look", scope |-> "all"] \in Check
  BY DEF NoCheck, Check, Scopes
<1> QED
  BY <1>1, TrialsAlone DEF BeginCheck, TrialInv

LEMMA NextTrial == TrialInv /\ [Next]_vars => TrialInv'
<1> SUFFICES ASSUME TrialInv, [Next]_vars PROVE TrialInv'
  OBVIOUS
<1>1. ASSUME NEW p \in Procs, PostRequests(p) \/ CheckDone(p)
      PROVE  TrialInv'
  BY <1>1, PipelineTrial DEF PostRequests, CheckDone
<1>2. ASSUME NEW p \in Procs, CheckGoesOn(p)
      PROVE  TrialInv'
  BY <1>2, CheckTrial DEF CheckGoesOn
<1>3. ASSUME NEW p \in Procs,
             \/ ReadQuota(p) \/ Win(p) \/ HandOff(p) \/ Complete(p) \/ NextRequest(p)
             \/ CountOffer(p) \/ InsertOffer(p) \/ CountCall(p) \/ PostBid(p) \/ ReadStore(p)
             \/ WriteStore(p) \/ Unlock(p)
      PROVE  TrialInv'
  <2>1. UNCHANGED breaker
    BY <1>3 DEF ReadQuota, Win, HandOff, Complete, NextRequest, CountOffer, InsertOffer, CountCall,
                PostBid, ReadStore, WriteStore, Unlock
  <2> QED
    BY <2>1, PipelineTrial, <1>3 DEF breaker
<1>4. CASE LockLapses \/ RedisMoves \/ UNCHANGED vars
  <2>1. UNCHANGED <<token, onTrial, chk>>
    BY <1>4 DEF LockLapses, RedisMoves, Outage, vars, breaker
  <2> QED
    BY <2>1, TrialsAlone DEF TrialInv
<1>5. CASE BreakerMoves
  BY <1>5, BreakerTrial
<1> QED
  BY <1>1, <1>2, <1>3, <1>4, <1>5 DEF Next, Step

\* The shared trial token of a scope admits one task until it lapses or the
\* circuit moves on, however many processes check at once.
THEOREM OneTrialAtATime == Spec => []OneTrial
<1>1. Init => TrialInv
  BY DEF Init, BreakerInit, TrialInv, NoCheck, Check, Scopes
<1>2. TrialInv => OneTrial
  <2> SUFFICES ASSUME TrialInv, NEW s \in Scopes PROVE Cardinality(onTrial[s]) <= 1
    BY DEF OneTrial
  <2>1. CASE onTrial[s] = {}
    <3>1. Cardinality(onTrial[s]) = 0
      BY <2>1, FS_EmptySet
    <3> QED
      BY <3>1
  <2>2. CASE \E p \in Procs : onTrial[s] = {p}
    <3>1. PICK p \in Procs : onTrial[s] = {p}
      BY <2>2
    <3>2. Cardinality({p}) = 1
      BY FS_Singleton
    <3> QED
      BY <3>1, <3>2
  <2> QED
    BY <2>1, <2>2 DEF TrialInv
<1> QED
  BY <1>1, <1>2, NextTrial, PTL DEF Spec

-----------------------------------------------------------------------------
(* What the pipelines keep                                                 *)

\* The types of the pipelines' variables.
History == [confirmed : Nat, hired : Nat, wins : Samples, slow : BOOLEAN,
            handed : SUBSET Proposals, completed : SUBSET Proposals]

WorkType ==
    /\ run \in [Procs -> Run] /\ store \in Store /\ history \in History
    /\ counter \in Nat /\ own \in [Procs -> Nat] /\ lock \in Procs \cup {Nobody}

\* The pipeline of a process moves on to next.
Moves(p, next) ==
    /\ run' \in [Procs -> Run] /\ run'[p] = next
    /\ \A q \in Procs : q # p => run'[q] = run[q]

LEMMA Moved ==
    ASSUME WorkType, NEW p \in Procs, NEW next \in Run, run' = [run EXCEPT ![p] = next]
    PROVE  Moves(p, next)
  BY DEF WorkType, Moves

LEMMA NoStoreType == NoStore \in Store
<1>1. <<>> \in Samples
  BY DEF Samples
<1> QED
  BY <1>1 DEF NoStore, Store

LEMMA IdleRun == Idle \in Run /\ Idle.op = "none" /\ Idle.pc = "idle"
  BY NoStoreType DEF Idle, Pipeline, Run

LEMMA Ended ==
    ASSUME WorkType, NEW p \in Procs, End(p)
    PROVE  Moves(p, Idle)
  BY IdleRun, Moved DEF End

LEMMA Gone ==
    ASSUME WorkType, NEW p \in Procs,
           NEW pc \in {"next", "insert", "post", "read", "unlock"}, Goto(p, pc)
    PROVE  Moves(p, [run[p] EXCEPT !.pc = pc])
<1> DEFINE next == [run[p] EXCEPT !.pc = pc]
<1>1. run[p] \in Run
  BY DEF WorkType
<1>2. next \in Run
  BY <1>1 DEF Run
<1>3. run' = [run EXCEPT ![p] = next]
  BY DEF Goto
<1> HIDE DEF next
<1>4. Moves(p, next)
  BY <1>2, <1>3, Moved
<1> QED
  BY <1>4 DEF next

\* Where a step of a pipeline leads it, for the steps that leave the store, the
\* lock and what they keep of it alone.
Aside(p) ==
    /\ UNCHANGED <<store, lock, history>>
    /\ counter' \in Nat /\ own' \in [Procs -> Nat]
    /\ \E next \in Run : Moves(p, next) /\ next.pc \notin {"read", "write", "unlock"}

LEMMA CountType ==
    ASSUME NEW n \in Nat, NEW limit \in Nat
    PROVE  Count(n, limit) \in Nat
  BY DEF Count

LEMMA OffersStep ==
    ASSUME WorkType, NEW p \in Procs,
           CheckDone(p) \/ NextRequest(p) \/ CountOffer(p) \/ InsertOffer(p)
    PROVE  Aside(p) /\ (run'[p].op = "offers" \/ run'[p] = Idle) /\ run[p].op = "offers"
<1>1. run[p] \in Run /\ OfferLimit \in Nat /\ counter \in Nat /\ own[p] \in Nat
  BY LimitsAssumption DEF WorkType
<1>2. ASSUME End(p)
      PROVE  run'[p] = Idle /\ \E next \in Run : Moves(p, next) /\ next.pc \notin {"read", "write", "unlock"}
  BY <1>2, Ended, IdleRun DEF Moves
<1>3. ASSUME NEW pc \in {"next", "insert"}, Goto(p, pc), run[p].op = "offers"
      PROVE  /\ run'[p].op = "offers"
             /\ \E next \in Run : Moves(p, next) /\ next.pc \notin {"read", "write", "unlock"}
  <2>1. Moves(p, [run[p] EXCEPT !.pc = pc])
    BY <1>3, Gone
  <2>2. [run[p] EXCEPT !.pc = pc] \in Run /\ [run[p] EXCEPT !.pc = pc].pc = pc
        /\ [run[p] EXCEPT !.pc = pc].op = "offers"
    BY <1>1, <1>3 DEF Run
  <2> QED
    BY <2>1, <2>2 DEF Moves
<1>4. CASE CheckDone(p)
  <2>1. UNCHANGED work /\ run[p].op = "offers" /\ (Goto(p, "next") \/ End(p))
    BY <1>4 DEF CheckDone, At
  <2> QED
    BY <1>2, <1>3, <2>1 DEF Aside, work, WorkType
<1>5. CASE NextRequest(p)
  <2>1. UNCHANGED work /\ run[p].op = "offers"
    BY <1>5 DEF NextRequest, At
  <2>2. CASE End(p)
    BY <1>2, <2>1, <2>2 DEF Aside, work, WorkType
  <2>3. CASE \E r \in run[p].todo :
             run' = [run EXCEPT ![p].todo = @ \ {r}, ![p].item = r,
                                ![p].pc = IF r \in offers THEN "next" ELSE "count"]
    <3>1. PICK r \in run[p].todo :
             run' = [run EXCEPT ![p].todo = @ \ {r}, ![p].item = r,
                                ![p].pc = IF r \in offers THEN "next" ELSE "count"]
      BY <2>3
    <3> DEFINE next == [run[p] EXCEPT !.todo = run[p].todo \ {r}, !.item = r,
                                      !.pc = IF r \in offers THEN "next" ELSE "count"]
    <3>2. next \in Run /\ next.op = "offers" /\ next.pc \in {"next", "count"}
      BY <1>1, <2>1 DEF Run
    <3>3. run' = [run EXCEPT ![p] = next]
      BY <3>1
    <3> HIDE DEF next
    <3>4. Moves(p, next)
      BY <3>2, <3>3, Moved
    <3> QED
      BY <2>1, <3>2, <3>4 DEF Aside, Moves, work, WorkType
  <2> QED
    BY <1>5, <2>2, <2>3 DEF NextRequest
<1>6. CASE CountOffer(p)
  <2>1. /\ UNCHANGED <<store, lock, history>> /\ run[p].op = "offers"
        /\ counter' \in {counter, Count(counter, OfferLimit)}
        /\ own' = own \/ own' = [own EXCEPT ![p] = Count(own[p], OfferLimit)]
        /\ Goto(p, "insert") \/ End(p)
    BY <1>6 DEF CountOffer, At
  <2>2. counter' \in Nat /\ own' \in [Procs -> Nat]
    BY <1>1, <2>1, CountType DEF WorkType
  <2> QED
    BY <1>2, <1>3, <2>1, <2>2 DEF Aside
<1>7. CASE InsertOffer(p)
  <2>1. UNCHANGED <<counter, own, store, lock, history>> /\ run[p].op = "offers" /\ Goto(p, "next")
    BY <1>7 DEF InsertOffer, At
  <2> QED
    BY <1>3, <2>1 DEF Aside, WorkType
<1> QED
  BY <1>4, <1>5, <1>6, <1>7

-----------------------------------------------------------------------------
(* The lock on the winning bids, and the values that are written whole     *)

Storing == {"read", "write"}

\* Only four pipelines come to the store, two of them for a proposal.
StoreOps ==
    \A p \in Procs :
       /\ run[p].pc \in Storing => run[p].op \in {"bid", "won", "handoff", "complete"}
       /\ run[p].op \in {"handoff", "complete"} => run[p].item \in Proposals
       /\ run[p].op = "won" => run[p].item \in Nat

\* A list that is cut after every addition holds what a list that grows holds
\* at its end.
LEMMA LatestType ==
    ASSUME NEW s \in Seq(Nat)
    PROVE  /\ Latest(s) \in Seq(Nat)
           /\ Len(Latest(s)) = IF Len(s) > MaxSamples THEN MaxSamples ELSE Len(s)
           /\ \A i \in 1 .. Len(Latest(s)) : Latest(s)[i] = s[Len(s) - Len(Latest(s)) + i]
<1> DEFINE m == IF Len(s) > MaxSamples THEN Len(s) - MaxSamples + 1 ELSE 1
           n == Len(s)
<1>1. MaxSamples \in Nat \ {0} /\ n \in Nat
  BY LimitsAssumption, LenProperties
<1>2. m \in 1 .. n + 1 /\ n - m + 1 = IF n > MaxSamples THEN MaxSamples ELSE n
  BY <1>1
<1>3. \A i \in m .. n : s[i] \in Nat
  BY <1>1, <1>2, ElementOfSeq
<1>4. Latest(s) = SubSeq(s, m, n)
  BY DEF Latest
<1> HIDE DEF m, n
<1>5. /\ SubSeq(s, m, n) \in Seq(Nat)
      /\ Len(SubSeq(s, m, n)) = IF m <= n THEN n - m + 1 ELSE 0
      /\ \A i \in 1 .. n - m + 1 : SubSeq(s, m, n)[i] = s[m + i - 1]
  <2>1. m \in Int /\ n \in Int
    BY <1>1, <1>2
  <2> QED
    BY <1>3, <2>1, SubSeqProperties
<1>6. Len(Latest(s)) = n - m + 1
  BY <1>1, <1>2, <1>4, <1>5
<1>7. \A i \in 1 .. n - m + 1 : m + i - 1 = n - (n - m + 1) + i
  BY <1>1, <1>2
<1>8. \A i \in 1 .. Len(Latest(s)) : Latest(s)[i] = s[n - Len(Latest(s)) + i]
  BY <1>4, <1>5, <1>6, <1>7
<1> QED
  BY <1>2, <1>4, <1>5, <1>6, <1>8 DEF n

LEMMA LatestIsKept ==
    ASSUME NEW seq \in Seq(Nat), NEW x \in Nat
    PROVE  /\ Latest(seq) \in Seq(Nat)
           /\ Latest(Append(seq, x)) \in Seq(Nat)
           /\ Latest(Append(Latest(seq), x)) = Latest(Append(seq, x))
<1> DEFINE l == Latest(seq)
           a == Append(seq, x)
           b == Append(l, x)
           k == Len(l)
           n == Len(seq)
<1>1. MaxSamples \in Nat \ {0}
  BY LimitsAssumption
<1>2. /\ l \in Seq(Nat) /\ n \in Nat /\ k = IF n > MaxSamples THEN MaxSamples ELSE n
      /\ \A i \in 1 .. k : l[i] = seq[n - k + i]
  BY LatestType, LenProperties
<1> HIDE DEF l
<1>3. /\ a \in Seq(Nat) /\ Len(a) = n + 1 /\ a[n + 1] = x
      /\ \A i \in 1 .. n : a[i] = seq[i]
  BY AppendProperties
<1>4. /\ b \in Seq(Nat) /\ Len(b) = k + 1 /\ b[k + 1] = x
      /\ \A i \in 1 .. k : b[i] = l[i]
  BY <1>2, AppendProperties
<1> DEFINE la == Latest(a)
           lb == Latest(b)
           c == Len(la)
<1>5. /\ la \in Seq(Nat) /\ c = IF Len(a) > MaxSamples THEN MaxSamples ELSE Len(a)
      /\ \A i \in 1 .. c : la[i] = a[Len(a) - c + i]
  BY <1>3, LatestType
<1>6. /\ lb \in Seq(Nat) /\ Len(lb) = IF Len(b) > MaxSamples THEN MaxSamples ELSE Len(b)
      /\ \A i \in 1 .. Len(lb) : lb[i] = b[Len(b) - Len(lb) + i]
  BY <1>4, LatestType
<1> HIDE DEF a, b, la, lb, k, n, c
<1>7. Len(lb) = c /\ c \in Nat /\ k \in Nat /\ c <= k + 1 /\ k <= n
  <2>1. c = IF n + 1 > MaxSamples THEN MaxSamples ELSE n + 1
    BY <1>3, <1>5
  <2>2. Len(lb) = IF k + 1 > MaxSamples THEN MaxSamples ELSE k + 1
    BY <1>4, <1>6
  <2>3. n \in Nat /\ k = IF n > MaxSamples THEN MaxSamples ELSE n
    BY <1>2
  <2> QED
    BY <1>1, <2>1, <2>2, <2>3
<1>8. ASSUME NEW i \in 1 .. c
      PROVE  la[i] = lb[i]
  <2>1. la[i] = a[n + 1 - c + i] /\ lb[i] = b[k + 1 - c + i]
    <3>1. la[i] = a[Len(a) - c + i]
      BY <1>5
    <3>2. lb[i] = b[Len(b) - c + i]
      BY <1>6, <1>7
    <3>3. Len(a) = n + 1 /\ Len(b) = k + 1
      BY <1>3, <1>4
    <3> QED
      BY <1>2, <1>7, <3>1, <3>2, <3>3
  <2>2. CASE i = c
    <3>1. n + 1 - c + i = n + 1 /\ k + 1 - c + i = k + 1
      BY <1>2, <1>7, <2>2
    <3> QED
      BY <1>3, <1>4, <2>1, <3>1
  <2>3. CASE i # c
    <3>1. /\ n + 1 - c + i \in 1 .. n /\ k + 1 - c + i \in 1 .. k
          /\ n - k + (k + 1 - c + i) = n + 1 - c + i
      BY <1>2, <1>7, <2>3
    <3> DEFINE u == n + 1 - c + i
               v == k + 1 - c + i
    <3>2. a[u] = seq[u] /\ b[v] = l[v] /\ l[v] = seq[n - k + v]
      BY <1>2, <1>3, <1>4, <3>1
    <3> QED
      BY <2>1, <3>1, <3>2
  <2> QED
    BY <2>2, <2>3
<1>9. la = lb
  BY <1>5, <1>6, <1>7, <1>8, SeqEqual DEF c
<1>10. l = Latest(seq) /\ la = Latest(Append(seq, x)) /\ lb = Latest(Append(Latest(seq), x))
  BY DEF l, la, lb, a, b
<1> QED
  BY <1>2, <1>5, <1>9, <1>10

\* While nobody went on without the lock, whoever adds a winning bid holds
\* it, and what it read is what is still stored.
LockInv ==
    ~history.slow =>
       /\ store.samples = Latest(history.wins)
       /\ \A p \in Procs : run[p].op = "won" =>
             /\ lock = p
             /\ run[p].pc = "write" => run[p].read.samples = store.samples

\* While pipelines do not overlap, the one that runs has read what is stored;
\* a bid that was confirmed is counted or about to be; every submission is on
\* record.
OneRun == \A p, q \in Procs : run[p] # Idle /\ run[q] # Idle => p = q

Bids ==
    /\ \A p \in Procs : run[p].op = "bid" => store.used < Quota
    /\ \A p \in Procs : run[p].op = "bid" /\ run[p].pc \in Storing
                           => history.confirmed = store.used + 1
    /\ (\A p \in Procs : run[p].op # "bid" \/ run[p].pc \notin Storing)
          => history.confirmed = store.used
    /\ history.confirmed <= Quota

OnRecord(x) == <<x, IF x \in history.completed THEN "completed" ELSE "pending">> \in store.queue

Submissions ==
    /\ history.completed \subseteq history.handed
    /\ \A x \in history.handed : OnRecord(x)
    /\ \A p \in Procs : /\ run[p].op = "handoff" => run[p].item \in Proposals \ history.handed
                        /\ run[p].op = "complete" => run[p].item \in history.handed

SerialInv ==
    mode # "overlap" =>
       /\ OneRun
       /\ \A p \in Procs : run[p].pc = "write" => run[p].read = store
       /\ Bids
       /\ Submissions

WorkInv == WorkType /\ StoreOps /\ LockInv /\ SerialInv

\* A pipeline that begins or goes on is the only one, unless they overlap.
Alone(p) == mode # "overlap" => \A q \in Procs : q # p => run[q] = Idle

LEMMA GoesOnAlone ==
    ASSUME WorkInv, NEW p \in Procs, run[p] # Idle \/ MayBegin
    PROVE  Alone(p)
  BY DEF WorkInv, SerialInv, OneRun, Alone, MayBegin, Quiet

\* What a step of one pipeline has to show.
LEMMA SerialStep ==
    ASSUME WorkInv, NEW p \in Procs, NEW next \in Run, Moves(p, next), Alone(p), mode' = mode,
           mode # "overlap" =>
              /\ next.pc = "write" => next.read = store'
              /\ next.op = "bid" => store'.used < Quota
              /\ next.op = "bid" /\ next.pc \in Storing => history'.confirmed = store'.used + 1
              /\ next.op # "bid" \/ next.pc \notin Storing => history'.confirmed = store'.used
              /\ history'.confirmed <= Quota
              /\ history'.completed \subseteq history'.handed
              /\ \A x \in history'.handed : OnRecord(x)'
              /\ next.op = "handoff" => next.item \in Proposals \ history'.handed
              /\ next.op = "complete" => next.item \in history'.handed
    PROVE  SerialInv'
<1> SUFFICES ASSUME mode # "overlap" PROVE SerialInv'
  BY DEF SerialInv
<1>1. run'[p] = next /\ \A q \in Procs : q # p => run'[q] = Idle
  BY DEF Moves, Alone
<1>2. OneRun' /\ \A q \in Procs : run'[q].pc = "write" => run'[q].read = store'
  BY <1>1, IdleRun DEF OneRun
<1>3. Bids'
  BY <1>1, IdleRun DEF Bids, Storing
<1>4. Submissions'
  BY <1>1, IdleRun DEF Submissions, OnRecord
<1> QED
  BY <1>2, <1>3, <1>4 DEF SerialInv

LEMMA TypedStep ==
    ASSUME WorkInv, NEW p \in Procs, NEW next \in Run, Moves(p, next),
           next.pc \in Storing => next.op \in {"bid", "won", "handoff", "complete"},
           next.op \in {"handoff", "complete"} => next.item \in Proposals,
           next.op = "won" => next.item \in Nat,
           store' \in Store, history' \in History, counter' \in Nat, own' \in [Procs -> Nat],
           lock' \in Procs \cup {Nobody}
    PROVE  WorkType' /\ StoreOps'
  BY DEF WorkInv, WorkType, StoreOps, Moves

\* A step that has nothing to do with the lock or the winning bids.
LEMMA LockAside ==
    ASSUME WorkInv, NEW p \in Procs, NEW next \in Run, Moves(p, next), next.op # "won",
           store'.samples = store.samples, history'.wins = history.wins,
           history'.slow = history.slow, lock' = lock
    PROVE  LockInv'
  BY DEF WorkInv, LockInv, Moves

LEMMA AsideStep ==
    ASSUME WorkInv, NEW p \in Procs, Aside(p), mode' = mode,
           run[p].op = "offers" \/ (run[p] = Idle /\ MayBegin),
           run'[p].op = "offers" \/ run'[p] = Idle
    PROVE  WorkInv'
<1>1. PICK next \in Run : Moves(p, next) /\ next.pc \notin {"read", "write", "unlock"}
  BY DEF Aside
<1>2. next.op \notin {"won", "bid", "handoff", "complete"} /\ run[p].op \notin {"bid", "won"}
  BY <1>1, IdleRun DEF Moves
<1>3. UNCHANGED <<store, lock, history>> /\ counter' \in Nat /\ own' \in [Procs -> Nat]
  BY DEF Aside
<1>4. Alone(p)
  BY GoesOnAlone, IdleRun
<1>5. LockInv'
  BY <1>1, <1>2, <1>3, LockAside
<1>6. mode # "overlap" => history.confirmed = store.used
  BY <1>2, <1>4, IdleRun DEF Alone, WorkInv, SerialInv, Bids
<1>7. mode # "overlap" => /\ history.confirmed <= Quota /\ history.completed \subseteq history.handed
                          /\ \A x \in history.handed : OnRecord(x)
  BY DEF WorkInv, SerialInv, Bids, Submissions
<1>8. SerialInv'
  BY <1>1, <1>2, <1>3, <1>4, <1>6, <1>7, SerialStep DEF OnRecord, Storing
<1>9. WorkType' /\ StoreOps'
  BY <1>1, <1>2, <1>3, TypedStep DEF WorkInv, WorkType, Storing
<1> QED
  BY <1>5, <1>8, <1>9 DEF WorkInv

\* A pipeline of the store begins.
LEMMA BeginStep ==
    ASSUME WorkInv, NEW p \in Procs, run[p] = Idle, MayBegin, mode' = mode,
           NEW next \in Run, Moves(p, next), next.op \in {"bid", "handoff", "complete"},
           next.pc \in {"count", "read"}, next.op = "bid" => next.pc = "count" /\ store.used < Quota,
           next.op = "handoff" => next.item \in Proposals \ history.handed,
           next.op = "complete" => next.item \in history.handed,
           UNCHANGED work
    PROVE  WorkInv'
<1>1. Alone(p)
  BY GoesOnAlone
<1>2. mode # "overlap" => history.confirmed = store.used
  BY <1>1, IdleRun DEF Alone, WorkInv, SerialInv, Bids, Storing
<1>3. mode # "overlap" => /\ history.confirmed <= Quota /\ history.completed \subseteq history.handed
                          /\ \A x \in history.handed : OnRecord(x)
  BY DEF WorkInv, SerialInv, Bids, Submissions
<1>4. UNCHANGED <<counter, own, store, lock, history>>
  BY DEF work
<1>5. SerialInv'
  BY <1>1, <1>2, <1>3, <1>4, SerialStep DEF OnRecord, Storing
<1>6. LockInv'
  BY <1>4, LockAside
<1>7. WorkType' /\ StoreOps'
  BY <1>4, TypedStep DEF WorkInv, WorkType, History
<1> QED
  BY <1>5, <1>6, <1>7 DEF WorkInv

LEMMA PostRequestsStep ==
    ASSUME WorkInv, NEW p \in Procs, PostRequests(p)
    PROVE  WorkInv'
<1>1. PICK batch \in Batches : run' = [run EXCEPT ![p] = Pipeline("offers", "check", batch, 0)]
  BY DEF PostRequests
<1>2. MayBegin /\ run[p] = Idle /\ UNCHANGED <<mode, work>>
  BY DEF PostRequests
<1> DEFINE next == Pipeline("offers", "check", batch, 0)
<1>5. next \in Run /\ next.op = "offers" /\ next.pc = "check"
  BY LimitsAssumption, NoStoreType DEF Pipeline, Run
<1>6. run' = [run EXCEPT ![p] = next]
  BY <1>1
<1> HIDE DEF next
<1>3. Moves(p, next)
  BY <1>5, <1>6, Moved DEF WorkInv
<1>4. Aside(p) /\ run'[p].op = "offers"
  BY <1>2, <1>3, <1>5 DEF Aside, Moves, work, WorkInv, WorkType
<1> QED
  BY <1>2, <1>4, AsideStep

LEMMA BeginsStep ==
    ASSUME WorkInv, NEW p \in Procs, ReadQuota(p) \/ HandOff(p) \/ Complete(p)
    PROVE  WorkInv'
<1>1. ASSUME NEW on, NEW op \in {"bid", "handoff", "complete"}, NEW pc \in {"count", "read"},
             NEW item \in Requests \cup Proposals \cup {0}, Begin(p, on, op, pc, item),
             UNCHANGED breaker, op = "bid" => pc = "count" /\ store.used < Quota,
             op = "handoff" => item \in Proposals \ history.handed,
             op = "complete" => item \in history.handed
      PROVE  WorkInv'
  <2>1. run' = [run EXCEPT ![p] = Pipeline(op, pc, {}, item)]
        /\ MayBegin /\ run[p] = Idle /\ UNCHANGED <<mode, work>>
    BY <1>1 DEF Begin, breaker
  <2> DEFINE next == Pipeline(op, pc, {}, item)
  <2>2. next \in Run /\ next.op = op /\ next.pc = pc /\ next.item = item
    BY NoStoreType DEF Pipeline, Run
  <2>3. run' = [run EXCEPT ![p] = next]
    BY <2>1
  <2> HIDE DEF next
  <2>4. Moves(p, next)
    BY <2>2, <2>3, Moved DEF WorkInv
  <2> QED
    BY <1>1, <2>1, <2>2, <2>4, BeginStep
<1>2. CASE ReadQuota(p)
  BY <1>1, <1>2 DEF ReadQuota
<1>3. CASE HandOff(p)
  <2>1. PICK x \in Proposals \ history.handed :
           Begin(p, "upwork", "handoff", "count", x) /\ UNCHANGED breaker
    BY <1>3 DEF HandOff
  <2> QED
    BY <1>1, <2>1
<1>4. CASE Complete(p)
  <2>1. PICK x \in history.handed \ history.completed :
           Begin(p, "upwork", "complete", "read", x) /\ UNCHANGED breaker
    BY <1>4 DEF Complete
  <2>2. x \in Proposals
    BY <2>1 DEF WorkInv, WorkType, History
  <2> QED
    BY <1>1, <2>1, <2>2
<1> QED
  BY <1>2, <1>3, <1>4

LEMMA WinStep ==
    ASSUME WorkInv, NEW p \in Procs, Win(p)
    PROVE  WorkInv'
<1>1. run' = [run EXCEPT ![p] = Pipeline("won", "read", {}, history.hired + 1)]
      /\ MayBegin /\ run[p] = Idle /\ UNCHANGED <<breaker, counter, own, store>>
  BY DEF Win
<1> DEFINE next == Pipeline("won", "read", {}, history.hired + 1)
<1>15. history.hired + 1 \in Nat
  BY DEF WorkInv, WorkType, History
<1>13. next \in Run /\ next.op = "won" /\ next.pc = "read" /\ next.item \in Nat
  BY <1>15, NoStoreType DEF Pipeline, Run
<1>14. run' = [run EXCEPT ![p] = next]
  BY <1>1
<1> HIDE DEF next
<1>2. next \in Run /\ Moves(p, next) /\ next.op = "won" /\ next.pc = "read"
      /\ next.item \in Nat
  BY <1>13, <1>14, Moved DEF WorkInv
<1>5. \/ lock = Nobody /\ lock' = p /\ history' = [history EXCEPT !.hired = history.hired + 1]
      \/ history' = [history EXCEPT !.hired = history.hired + 1, !.slow = TRUE] /\ lock' = lock
  BY DEF Win
<1>16. history \in History
  BY DEF WorkInv, WorkType
<1>6. /\ history' \in History /\ history'.confirmed = history.confirmed
      /\ history'.handed = history.handed /\ history'.completed = history.completed
      /\ history'.wins = history.wins
      /\ history'.slow \/ (lock = Nobody /\ lock' = p /\ history'.slow = history.slow)
  BY <1>5, <1>15, <1>16 DEF History
<1>7. WorkType' /\ StoreOps'
  BY <1>1, <1>2, <1>5, <1>6, TypedStep DEF WorkInv, WorkType
<1>8. Alone(p)
  BY <1>1, GoesOnAlone
<1>9. mode # "overlap" => history.confirmed = store.used
  BY <1>1, <1>8, IdleRun DEF Alone, WorkInv, SerialInv, Bids
<1>10. mode # "overlap" => /\ history.confirmed <= Quota /\ history.completed \subseteq history.handed
                           /\ \A x \in history.handed : OnRecord(x)
  BY DEF WorkInv, SerialInv, Bids, Submissions
<1>11. SerialInv'
  BY <1>1, <1>2, <1>6, <1>8, <1>9, <1>10, SerialStep DEF OnRecord, breaker
<1>12. LockInv'
  BY <1>1, <1>2, <1>6, NobodyAssumption DEF WorkInv, LockInv, Moves
<1> QED
  BY <1>7, <1>11, <1>12 DEF WorkInv

LEMMA CountCallStep ==
    ASSUME WorkInv, NEW p \in Procs, CountCall(p)
    PROVE  WorkInv'
<1>1. /\ run[p].op \in {"bid", "handoff"} /\ run[p].pc = "count"
      /\ UNCHANGED <<breaker, own, store, lock, history>>
      /\ counter' \in {counter, Count(counter, DailyCap)}
      /\ End(p) \/ Goto(p, IF run[p].op = "bid" THEN "post" ELSE "read")
  BY DEF CountCall
<1>2. run[p] \in Run /\ counter' \in Nat /\ own' \in [Procs -> Nat]
  BY <1>1, CountType, LimitsAssumption DEF WorkInv, WorkType
<1>3. Alone(p)
  BY <1>1, GoesOnAlone, IdleRun
<1>4. mode # "overlap" =>
         /\ history.confirmed = store.used /\ history.confirmed <= Quota
         /\ run[p].op = "bid" => store.used < Quota
         /\ run[p].op = "handoff" => run[p].item \in Proposals \ history.handed
         /\ history.completed \subseteq history.handed
         /\ \A x \in history.handed : OnRecord(x)
  BY <1>1, <1>3, IdleRun DEF Alone, WorkInv, SerialInv, Bids, Submissions, Storing
<1>5. PICK next \in Run : /\ Moves(p, next)
                          /\ \/ next = Idle
                             \/ next.op = run[p].op /\ next.item = run[p].item
                                /\ next.pc = IF run[p].op = "bid" THEN "post" ELSE "read"
  <2>1. CASE End(p)
    BY <2>1, Ended, IdleRun DEF WorkInv
  <2>2. CASE Goto(p, IF run[p].op = "bid" THEN "post" ELSE "read")
    <3> DEFINE pc == IF run[p].op = "bid" THEN "post" ELSE "read"
    <3>1. Moves(p, [run[p] EXCEPT !.pc = pc])
      BY <2>2, Gone DEF WorkInv
    <3>2. [run[p] EXCEPT !.pc = pc] \in Run /\ [run[p] EXCEPT !.pc = pc].pc = pc
          /\ [run[p] EXCEPT !.pc = pc].op = run[p].op
          /\ [run[p] EXCEPT !.pc = pc].item = run[p].item
      BY <1>2 DEF Run
    <3> QED
      BY <3>1, <3>2
  <2> QED
    BY <1>1, <2>1, <2>2
<1>6. next.op \in {"none", "bid", "handoff"} /\ (next.pc \in Storing => next.op = "handoff")
      /\ next.pc # "write"
  BY <1>1, <1>5, IdleRun DEF Storing
<1>7. WorkType' /\ StoreOps'
  BY <1>1, <1>2, <1>5, <1>6, IdleRun, TypedStep DEF WorkInv, WorkType, StoreOps
<1>8. LockInv'
  BY <1>1, <1>5, <1>6, LockAside
<1>9. SerialInv'
  BY <1>1, <1>3, <1>4, <1>5, <1>6, IdleRun, SerialStep DEF OnRecord, breaker
<1> QED
  BY <1>7, <1>8, <1>9 DEF WorkInv

LEMMA PostBidStep ==
    ASSUME WorkInv, NEW p \in Procs, PostBid(p)
    PROVE  WorkInv'
<1>1. /\ run[p].op = "bid" /\ run[p].pc = "post"
      /\ UNCHANGED <<breaker, counter, own, store, lock>>
  BY DEF PostBid, At
<1>2. run[p] \in Run /\ history \in History
  BY DEF WorkInv, WorkType
<1>3. Alone(p)
  BY <1>1, GoesOnAlone, IdleRun
<1>4. mode # "overlap" =>
         /\ history.confirmed = store.used /\ store.used < Quota
         /\ history.completed \subseteq history.handed
         /\ \A x \in history.handed : OnRecord(x)
  BY <1>1, <1>3, IdleRun DEF Alone, WorkInv, SerialInv, Bids, Submissions, Storing
<1>5. PICK next \in Run :
         /\ Moves(p, next)
         /\ \/ history' = history /\ (next = Idle \/ (next.op = "bid" /\ next.pc = "post"))
            \/ /\ history' = [history EXCEPT !.confirmed = @ + 1]
               /\ next.op = "bid" /\ next.pc = "read"
  <2>1. CASE run' = [run EXCEPT ![p].tries = @ + 1] /\ UNCHANGED history
    <3> DEFINE new == [run[p] EXCEPT !.tries = run[p].tries + 1]
    <3>1. new \in Run /\ new.op = "bid" /\ new.pc = "post"
      BY <1>1, <1>2 DEF Run
    <3>2. run' = [run EXCEPT ![p] = new]
      BY <2>1
    <3> HIDE DEF new
    <3>3. Moves(p, new)
      BY <3>1, <3>2, Moved DEF WorkInv
    <3> QED
      BY <2>1, <3>1, <3>3
  <2>2. CASE End(p) /\ UNCHANGED history
    BY <2>2, Ended, IdleRun DEF WorkInv
  <2>3. CASE Goto(p, "read") /\ history' = [history EXCEPT !.confirmed = @ + 1]
    <3>1. Moves(p, [run[p] EXCEPT !.pc = "read"])
      BY <2>3, Gone DEF WorkInv
    <3>2. [run[p] EXCEPT !.pc = "read"] \in Run /\ [run[p] EXCEPT !.pc = "read"].pc = "read"
          /\ [run[p] EXCEPT !.pc = "read"].op = "bid"
      BY <1>1, <1>2 DEF Run
    <3> QED
      BY <2>3, <3>1, <3>2
  <2> QED
    BY <2>1, <2>2, <2>3 DEF PostBid
<1>6. /\ history' \in History /\ history'.handed = history.handed
      /\ history'.completed = history.completed /\ history'.wins = history.wins
      /\ history'.slow = history.slow
      /\ history'.confirmed = IF next.pc = "read" THEN history.confirmed + 1 ELSE history.confirmed
  BY <1>2, <1>5, IdleRun DEF History
<1>7. next.op \in {"none", "bid"} /\ next.pc \in {"idle", "post", "read"}
      /\ (next.op = "none" <=> next.pc = "idle")
  BY <1>5, IdleRun
<1>8. WorkType' /\ StoreOps'
  BY <1>1, <1>5, <1>6, <1>7, TypedStep DEF WorkInv, WorkType, Storing
<1>9. LockInv'
  BY <1>1, <1>5, <1>6, <1>7, LockAside
<1>10. history.confirmed \in Nat /\ store.used \in Nat /\ Quota \in Nat
  BY <1>2, LimitsAssumption DEF History, WorkInv, WorkType, Store
<1>11. SerialInv'
  BY <1>1, <1>3, <1>4, <1>5, <1>6, <1>7, <1>10, SerialStep DEF OnRecord, breaker, Storing
<1> QED
  BY <1>8, <1>9, <1>11 DEF WorkInv

LEMMA ReadStoreStep ==
    ASSUME WorkInv, NEW p \in Procs, ReadStore(p)
    PROVE  WorkInv'
<1> DEFINE next == [run[p] EXCEPT !.pc = "write", !.read = store]
<1>1. run[p].pc = "read" /\ run' = [run EXCEPT ![p] = next] /\ UNCHANGED <<breaker, work>>
  BY DEF ReadStore
<1>2. run[p] \in Run /\ store \in Store
  BY DEF WorkInv, WorkType
<1>3. next \in Run /\ next.pc = "write" /\ next.read = store /\ next.op = run[p].op
      /\ next.item = run[p].item
  BY <1>2 DEF Run
<1> HIDE DEF next
<1>4. Moves(p, next)
  BY <1>1, <1>3, Moved DEF WorkInv
<1>5. Alone(p)
  BY <1>1, GoesOnAlone, IdleRun
<1>6. UNCHANGED <<counter, own, store, lock, history, mode>>
  BY <1>1 DEF work, breaker
<1>7. next.op \in {"bid", "won", "handoff", "complete"}
  BY <1>1, <1>3 DEF WorkInv, StoreOps, Storing
<1>8. WorkType' /\ StoreOps'
  BY <1>3, <1>4, <1>6, <1>7, TypedStep DEF WorkInv, WorkType, StoreOps
<1>9. LockInv'
  BY <1>3, <1>4, <1>6 DEF WorkInv, LockInv, Moves
<1>10. mode # "overlap" =>
         /\ run[p].op = "bid" => history.confirmed = store.used + 1 /\ store.used < Quota
         /\ run[p].op # "bid" => history.confirmed = store.used
         /\ history.confirmed <= Quota
         /\ run[p].op = "handoff" => run[p].item \in Proposals \ history.handed
         /\ run[p].op = "complete" => run[p].item \in history.handed
         /\ history.completed \subseteq history.handed
         /\ \A x \in history.handed : OnRecord(x)
  BY <1>1, <1>5, IdleRun DEF Alone, WorkInv, SerialInv, Bids, Submissions, Storing
<1>11. SerialInv'
  BY <1>3, <1>4, <1>5, <1>6, <1>10, SerialStep DEF OnRecord, Storing
<1> QED
  BY <1>8, <1>9, <1>11 DEF WorkInv

\* The value that was read is what is stored, while pipelines do not overlap.
LEMMA WriteBid ==
    ASSUME WorkInv, NEW p \in Procs, WriteStore(p), run[p].op = "bid"
    PROVE  WorkInv'
<1>1. /\ run[p].pc = "write" /\ End(p)
      /\ store' = [store EXCEPT !.used = Changed(run[p].read, "bid", run[p].item).used]
      /\ UNCHANGED <<breaker, counter, own, lock, history>>
  BY DEF WriteStore
<1>2. run[p].read \in Store /\ store \in Store
  BY DEF WorkInv, WorkType, Run
<1>3. Changed(run[p].read, "bid", run[p].item).used = run[p].read.used + 1
  BY <1>2 DEF Changed, Store
<1>4. /\ store' \in Store /\ store'.used = run[p].read.used + 1
      /\ store'.samples = store.samples /\ store'.queue = store.queue
  BY <1>1, <1>2, <1>3 DEF Store
<1>5. Moves(p, Idle)
  BY <1>1, Ended DEF WorkInv
<1>6. Alone(p)
  BY <1>1, GoesOnAlone, IdleRun
<1>7. WorkType' /\ StoreOps'
  BY <1>1, <1>4, <1>5, IdleRun, TypedStep DEF WorkInv, WorkType, Storing
<1>8. LockInv'
  BY <1>1, <1>4, <1>5, IdleRun, LockAside
<1>9. mode # "overlap" =>
         /\ history.confirmed = store'.used /\ history.confirmed <= Quota
         /\ history.completed \subseteq history.handed
         /\ \A x \in history.handed : OnRecord(x)
  BY <1>1, <1>4 DEF WorkInv, SerialInv, Bids, Submissions, Storing
<1>10. SerialInv'
  BY <1>1, <1>4, <1>5, <1>6, <1>9, IdleRun, SerialStep DEF OnRecord, breaker
<1> QED
  BY <1>7, <1>8, <1>10 DEF WorkInv

LEMMA WriteWon ==
    ASSUME WorkInv, NEW p \in Procs, WriteStore(p), run[p].op = "won"
    PROVE  WorkInv'
<1>1. /\ run[p].pc = "write" /\ Goto(p, "unlock")
      /\ store' = [store EXCEPT !.samples = Changed(run[p].read, "won", run[p].item).samples]
      /\ history' = [history EXCEPT !.wins = Append(@, run[p].item)]
      /\ UNCHANGED <<breaker, counter, own, lock>>
  BY DEF WriteStore
<1>2. /\ run[p] \in Run /\ run[p].read \in Store /\ store \in Store /\ history \in History
      /\ run[p].item \in Nat
  BY DEF WorkInv, WorkType, StoreOps, Run
<1> DEFINE item == run[p].item
           kept == Latest(Append(run[p].read.samples, item))
<1>3. Changed(run[p].read, "won", item).samples = kept /\ kept \in Samples
  <2>1. run[p].read.samples \in Seq(Nat)
    BY <1>2 DEF Store, Samples
  <2>2. Changed(run[p].read, "won", item) = [run[p].read EXCEPT !.samples = kept]
    BY DEF Changed
  <2> QED
    BY <1>2, <2>1, <2>2, LatestIsKept DEF Store, Samples
<1> HIDE DEF kept
<1>4. /\ store' \in Store /\ store'.samples = kept
      /\ store'.used = store.used /\ store'.queue = store.queue
  BY <1>1, <1>2, <1>3 DEF Store
<1>5. /\ history' \in History /\ history'.wins = Append(history.wins, item)
      /\ history'.slow = history.slow /\ history'.confirmed = history.confirmed
      /\ history'.handed = history.handed /\ history'.completed = history.completed
  <2>1. history.wins \in Samples
    BY <1>2 DEF History
  <2>2. Append(history.wins, item) \in Samples
    BY <1>2, <2>1, AppendProperties DEF Samples
  <2>3. history' = [history EXCEPT !.wins = Append(history.wins, item)]
    BY <1>1
  <2> QED
    BY <1>2, <2>2, <2>3 DEF History
<1> DEFINE next == [run[p] EXCEPT !.pc = "unlock"]
<1>6. Moves(p, next)
  BY <1>1, Gone DEF WorkInv
<1>7. next \in Run /\ next.op = "won" /\ next.pc = "unlock"
  BY <1>2 DEF Run
<1> HIDE DEF next
<1>8. Alone(p)
  BY <1>1, GoesOnAlone, IdleRun
<1>14. next.item \in Nat
  BY <1>2 DEF next, Run
<1>9. WorkType' /\ StoreOps'
  BY <1>1, <1>4, <1>5, <1>6, <1>7, <1>14, TypedStep DEF WorkInv, WorkType, Storing
<1>13. run[p].read.samples = Latest(history.wins) => kept = Latest(history'.wins)
  BY <1>2, <1>5, LatestIsKept DEF kept, History, Samples
<1>10. LockInv'
  BY <1>1, <1>4, <1>5, <1>6, <1>7, <1>13 DEF WorkInv, LockInv, Moves
<1>11. mode # "overlap" =>
         /\ history.confirmed = store.used /\ history.confirmed <= Quota
         /\ history.completed \subseteq history.handed
         /\ \A x \in history.handed : OnRecord(x)
  BY <1>8, IdleRun DEF Alone, WorkInv, SerialInv, Bids, Submissions
<1>12. SerialInv'
  BY <1>1, <1>4, <1>5, <1>6, <1>7, <1>8, <1>11, SerialStep DEF OnRecord, breaker, Storing
<1> QED
  BY <1>9, <1>10, <1>12 DEF WorkInv

LEMMA WriteHandOff ==
    ASSUME WorkInv, NEW p \in Procs, WriteStore(p), run[p].op = "handoff"
    PROVE  WorkInv'
<1> DEFINE x == run[p].item
           queue == run[p].read.queue \cup {<<x, "pending">>}
<1>1. /\ run[p].pc = "write" /\ End(p)
      /\ store' = [store EXCEPT !.queue = Changed(run[p].read, "handoff", x).queue]
      /\ history' = [history EXCEPT !.handed = @ \cup {x}]
      /\ UNCHANGED <<breaker, counter, own, lock>>
  BY DEF WriteStore
<1>2. run[p].read \in Store /\ store \in Store /\ history \in History /\ x \in Proposals
  BY DEF WorkInv, WorkType, Run, StoreOps
<1>3. Changed(run[p].read, "handoff", x).queue = queue /\ queue \subseteq Record
  BY <1>2 DEF Changed, Store, Record
<1>4. /\ store' \in Store /\ store'.queue = queue
      /\ store'.used = store.used /\ store'.samples = store.samples
  BY <1>1, <1>2, <1>3 DEF Store
<1>5. /\ history' \in History /\ history'.handed = history.handed \cup {x}
      /\ history'.wins = history.wins /\ history'.slow = history.slow
      /\ history'.confirmed = history.confirmed /\ history'.completed = history.completed
  BY <1>1, <1>2 DEF History
<1>6. Moves(p, Idle)
  BY <1>1, Ended DEF WorkInv
<1>7. Alone(p)
  BY <1>1, GoesOnAlone, IdleRun
<1>8. WorkType' /\ StoreOps'
  BY <1>1, <1>4, <1>5, <1>6, IdleRun, TypedStep DEF WorkInv, WorkType, Storing
<1>9. LockInv'
  BY <1>1, <1>4, <1>5, <1>6, IdleRun, LockAside
<1>10. mode # "overlap" =>
         /\ history.confirmed = store.used /\ history.confirmed <= Quota
         /\ history.completed \subseteq history.handed
         /\ \A y \in history.handed : OnRecord(y)
         /\ x \notin history.handed /\ run[p].read = store
  BY <1>1, <1>7, IdleRun DEF Alone, WorkInv, SerialInv, Bids, Submissions
<1>11. mode # "overlap" => \A y \in history'.handed : OnRecord(y)'
  BY <1>4, <1>5, <1>10 DEF OnRecord
<1>12. SerialInv'
  BY <1>1, <1>4, <1>5, <1>6, <1>7, <1>10, <1>11, IdleRun, SerialStep DEF breaker
<1> QED
  BY <1>8, <1>9, <1>12 DEF WorkInv

LEMMA WriteComplete ==
    ASSUME WorkInv, NEW p \in Procs, WriteStore(p), run[p].op = "complete"
    PROVE  WorkInv'
<1> DEFINE x == run[p].item
           queue == {IF r[1] = x THEN <<x, "completed">> ELSE r : r \in run[p].read.queue}
<1>1. /\ run[p].pc = "write" /\ End(p)
      /\ store' = [store EXCEPT !.queue = Changed(run[p].read, "complete", x).queue]
      /\ history' = [history EXCEPT !.completed = @ \cup {x}]
      /\ UNCHANGED <<breaker, counter, own, lock>>
  BY DEF WriteStore
<1>2. run[p].read \in Store /\ store \in Store /\ history \in History /\ x \in Proposals
  BY DEF WorkInv, WorkType, Run, StoreOps
<1>3. Changed(run[p].read, "complete", x).queue = queue /\ queue \subseteq Record
  BY <1>2 DEF Changed, Store, Record
<1>4. /\ store' \in Store /\ store'.queue = queue
      /\ store'.used = store.used /\ store'.samples = store.samples
  BY <1>1, <1>2, <1>3 DEF Store
<1>5. /\ history' \in History /\ history'.handed = history.handed
      /\ history'.wins = history.wins /\ history'.slow = history.slow
      /\ history'.confirmed = history.confirmed
      /\ history'.completed = history.completed \cup {x}
  BY <1>1, <1>2 DEF History
<1>6. Moves(p, Idle)
  BY <1>1, Ended DEF WorkInv
<1>7. Alone(p)
  BY <1>1, GoesOnAlone, IdleRun
<1>8. WorkType' /\ StoreOps'
  BY <1>1, <1>4, <1>5, <1>6, IdleRun, TypedStep DEF WorkInv, WorkType, Storing
<1>9. LockInv'
  BY <1>1, <1>4, <1>5, <1>6, IdleRun, LockAside
<1>10. mode # "overlap" =>
         /\ history.confirmed = store.used /\ history.confirmed <= Quota
         /\ history.completed \subseteq history.handed
         /\ \A y \in history.handed : OnRecord(y)
         /\ x \in history.handed /\ run[p].read = store
  BY <1>1, <1>7, IdleRun DEF Alone, WorkInv, SerialInv, Bids, Submissions
<1>11. mode # "overlap" => \A y \in history'.handed : OnRecord(y)'
  <2> SUFFICES ASSUME mode # "overlap", NEW y \in history.handed PROVE OnRecord(y)'
    BY <1>5
  <2> DEFINE r == <<y, IF y \in history.completed THEN "completed" ELSE "pending">>
  <2>1. r \in run[p].read.queue /\ r[1] = y
    BY <1>10 DEF OnRecord
  <2>2. (IF r[1] = x THEN <<x, "completed">> ELSE r) \in queue
    BY <2>1
  <2>3. CASE y = x
    BY <1>4, <1>5, <2>1, <2>2, <2>3 DEF OnRecord
  <2>4. CASE y # x
    BY <1>4, <1>5, <2>1, <2>2, <2>4 DEF OnRecord
  <2> QED
    BY <2>3, <2>4
<1>12. SerialInv'
  BY <1>1, <1>4, <1>5, <1>6, <1>7, <1>10, <1>11, IdleRun, SerialStep DEF breaker
<1> QED
  BY <1>8, <1>9, <1>12 DEF WorkInv

LEMMA WriteStoreStep ==
    ASSUME WorkInv, NEW p \in Procs, WriteStore(p)
    PROVE  WorkInv'
<1>1. run[p].op \in {"bid", "won", "handoff", "complete"}
  BY DEF WriteStore, WorkInv, StoreOps, Storing
<1> QED
  BY <1>1, WriteBid, WriteWon, WriteHandOff, WriteComplete

LEMMA UnlockStep ==
    ASSUME WorkInv, NEW p \in Procs, Unlock(p)
    PROVE  WorkInv'
<1>1. /\ run[p].op = "won" /\ run[p].pc = "unlock" /\ End(p)
      /\ lock' = (IF lock = p THEN Nobody ELSE lock)
      /\ UNCHANGED <<breaker, counter, own, store, history>>
  BY DEF Unlock, At
<1>2. Moves(p, Idle)
  BY <1>1, Ended DEF WorkInv
<1>3. Alone(p)
  BY <1>1, GoesOnAlone, IdleRun
<1>4. WorkType' /\ StoreOps'
  BY <1>1, <1>2, IdleRun, TypedStep DEF WorkInv, WorkType, Storing
<1>5. LockInv'
  BY <1>1, <1>2, IdleRun DEF WorkInv, LockInv, Moves
<1>6. mode # "overlap" =>
         /\ history.confirmed = store.used /\ history.confirmed <= Quota
         /\ history.completed \subseteq history.handed
         /\ \A x \in history.handed : OnRecord(x)
  BY <1>1, <1>3, IdleRun DEF Alone, WorkInv, SerialInv, Bids, Submissions
<1>7. SerialInv'
  BY <1>1, <1>2, <1>3, <1>6, IdleRun, SerialStep DEF OnRecord, breaker
<1> QED
  BY <1>4, <1>5, <1>7 DEF WorkInv

\* The steps beside the pipelines.
LEMMA BesideStep ==
    ASSUME WorkInv,
           LockLapses \/ BreakerMoves \/ RedisMoves \/ (\E p \in Procs : CheckGoesOn(p)) \/ UNCHANGED vars
    PROVE  WorkInv'
<1>1. UNCHANGED mode /\ UNCHANGED run /\ UNCHANGED store
  <2>1. CASE BreakerMoves
    <3>1. UNCHANGED mode
      BY <2>1 DEF BreakerMoves, Close, Open, Cool, TokenLapses, OwnTokenLapses
    <3> QED
      BY <2>1, <3>1 DEF BreakerMoves, work
  <2>2. ASSUME NEW p \in Procs, CheckGoesOn(p)
        PROVE  UNCHANGED mode /\ UNCHANGED run /\ UNCHANGED store
    BY <2>2 DEF CheckGoesOn, CheckStep, Look, HalfOpen, Acquire, work
  <2>3. CASE LockLapses \/ RedisMoves \/ UNCHANGED vars
    BY <2>3 DEF LockLapses, RedisMoves, Outage, vars, work, breaker
  <2> QED
    BY <2>1, <2>2, <2>3
<1>2. CASE UNCHANGED work
  BY <1>1, <1>2 DEF work, WorkInv, WorkType, StoreOps, LockInv, SerialInv, OneRun, Bids,
                    Submissions, OnRecord, Storing
<1>3. CASE LockLapses
  <2>1. /\ lock' = Nobody /\ history' = [history EXCEPT !.slow = TRUE]
        /\ UNCHANGED <<counter, own>>
    BY <1>3 DEF LockLapses
  <2>2. /\ history' \in History /\ history'.slow /\ history'.confirmed = history.confirmed
        /\ history'.handed = history.handed /\ history'.completed = history.completed
    BY <2>1 DEF WorkInv, WorkType, History
  <2>3. WorkType' /\ StoreOps' /\ LockInv'
    BY <1>1, <2>1, <2>2 DEF WorkInv, WorkType, StoreOps, LockInv, Storing
  <2>4. SerialInv'
    BY <1>1, <2>1, <2>2 DEF WorkInv, SerialInv, OneRun, Bids, Submissions, OnRecord, Storing
  <2> QED
    BY <2>3, <2>4 DEF WorkInv
<1> QED
  BY <1>2, <1>3 DEF BreakerMoves, RedisMoves, CheckGoesOn, vars

LEMMA NextWork == WorkInv /\ [Next]_vars => WorkInv'
<1> SUFFICES ASSUME WorkInv, [Next]_vars PROVE WorkInv'
  OBVIOUS
<1>1. ASSUME NEW p \in Procs, CheckDone(p) \/ NextRequest(p) \/ CountOffer(p) \/ InsertOffer(p)
      PROVE  WorkInv'
  <2>1. UNCHANGED mode
    BY <1>1 DEF CheckDone, NextRequest, CountOffer, InsertOffer, breaker
  <2>2. Aside(p) /\ (run'[p].op = "offers" \/ run'[p] = Idle) /\ run[p].op = "offers"
    BY <1>1, OffersStep DEF WorkInv
  <2> QED
    BY <2>1, <2>2, AsideStep
<1>2. ASSUME NEW p \in Procs, PostRequests(p) \/ ReadQuota(p) \/ Win(p) \/ HandOff(p) \/ Complete(p)
      PROVE  WorkInv'
  BY <1>2, PostRequestsStep, BeginsStep, WinStep
<1>3. ASSUME NEW p \in Procs, CountCall(p) \/ PostBid(p) \/ ReadStore(p) \/ WriteStore(p) \/ Unlock(p)
      PROVE  WorkInv'
  BY <1>3, CountCallStep, PostBidStep, ReadStoreStep, WriteStoreStep, UnlockStep
<1>4. CASE LockLapses \/ BreakerMoves \/ RedisMoves \/ (\E p \in Procs : CheckGoesOn(p)) \/ UNCHANGED vars
  BY <1>4, BesideStep
<1> QED
  BY <1>1, <1>2, <1>3, <1>4 DEF Next, Step

LEMMA InitWork == Init => WorkInv
<1> SUFFICES ASSUME Init PROVE WorkInv
  OBVIOUS
<1>1. /\ run = [p \in Procs |-> Idle] /\ store = NoStore /\ lock = Nobody
      /\ counter = 0 /\ own = [p \in Procs |-> 0]
      /\ history = [confirmed |-> 0, hired |-> 0, wins |-> <<>>, slow |-> FALSE,
                    handed |-> {}, completed |-> {}]
  BY DEF Init
<1>6. <<>> = Latest(<<>>)
  BY LimitsAssumption DEF Latest
<1>2. /\ store \in Store /\ store.used = 0 /\ store.samples = <<>>
      /\ history \in History /\ history.confirmed = 0 /\ history.wins = <<>>
      /\ history.handed = {} /\ history.completed = {}
  <2>1. <<>> \in Samples
    BY DEF Samples
  <2> QED
    BY <1>1, <2>1 DEF NoStore, Store, History
<1>3. \A p \in Procs : run[p] = Idle
  BY <1>1
<1>4. WorkType /\ StoreOps /\ LockInv
  BY <1>1, <1>2, <1>3, <1>6, IdleRun DEF WorkType, StoreOps, LockInv, Storing
<1>5. SerialInv
  BY <1>2, <1>3, IdleRun, LimitsAssumption DEF SerialInv, OneRun, Bids, Submissions, Storing
<1> QED
  BY <1>4, <1>5 DEF WorkInv

\* What is stored are the latest MaxSamples winning bids, none missing, while
\* everybody who records one waits for the lock and is done before it lapses.
THEOREM NoSampleLost == Spec => []SamplesKept
<1>1. WorkInv => SamplesKept
  BY DEF WorkInv, LockInv, SamplesKept
<1> QED
  BY <1>1, InitWork, NextWork, PTL DEF Spec

\* The values that are written whole lose nothing while their writers do not
\* overlap: bids stay within the quota, and submissions are on record.
THEOREM StoreIsKept == Spec => []StoreKept
<1>1. WorkInv => StoreKept
  <2>1. WorkInv /\ mode # "overlap" /\ Quiet => store.used = history.confirmed
    BY IdleRun DEF WorkInv, SerialInv, Bids, Quiet, Storing
  <2> QED
    BY <2>1 DEF WorkInv, SerialInv, Bids, Submissions, OnRecord, StoreKept
<1> QED
  BY <1>1, InitWork, NextWork, PTL DEF Spec

-----------------------------------------------------------------------------
(* The cooldown                                                            *)

\* A check that has passed the platform-wide scope found it not halted, and
\* one that tries a trial found its scope not halted.
CheckInv(p) ==
    /\ chk[p].pc # "idle" => run[p].pc = "check"
    /\ chk[p].pc \in {"look", "half", "token"} /\ chk[p].scope = "tenant" => ~halted["all"]
    /\ chk[p].pc \in {"half", "token"} => ~halted[chk[p].scope]

CalmInv ==
    /\ halted \in [Scopes -> BOOLEAN] /\ shared \in [Scopes -> States]
    /\ mode = "calm" =>
          /\ up
          /\ \A s \in Scopes : halted[s] => shared[s] = "open"
          /\ \A p \in Procs : CheckInv(p)

\* A pipeline that asks the breaker does nothing else.
LEMMA CalmPipelines ==
    ASSUME CalmInv, UNCHANGED <<up, shared, halted, mode, chk>>,
           \A q \in Procs : run'[q] = run[q] \/ run[q].pc # "check"
    PROVE  CalmInv'
  BY DEF CalmInv, CheckInv

\* What asks the breaker in a calm run; the other checks go on as they were.
LEMMA CalmCheck ==
    ASSUME CalmInv, WorkType, TrialInv, NEW p \in Procs, CheckStep(p), UNCHANGED run, mode = "calm"
    PROVE  /\ CalmInv'
           /\ chk[p].pc # "admitted" /\ chk'[p].pc = "admitted" => \A s \in Scopes : ~halted[s]
<1> DEFINE s == chk[p].scope
<1>1. /\ chk[p] \in Check /\ s \in Scopes /\ up /\ run[p].pc = "check" /\ UNCHANGED <<up, halted, mode>>
      /\ \A q \in Procs : CheckInv(q)
      /\ \A r \in Scopes : halted[r] => shared[r] = "open"
      /\ chk[p].pc \in {"look", "half", "token"}
  BY DEF TrialInv, Check, CalmInv, CheckInv, CheckStep, Look, HalfOpen, Acquire, Checking
<1>2. ASSUME NEW new, chk' = [chk EXCEPT ![p] = new], UNCHANGED shared,
             new.pc \in {"look", "half", "token"} /\ new.scope = "tenant" => ~halted["all"],
             new.pc \in {"half", "token"} => ~halted[new.scope]
      PROVE  CalmInv'
  <2>1. chk'[p] = new /\ \A q \in Procs : q # p => chk'[q] = chk[q]
    BY <1>2 DEF TrialInv
  <2> QED
    BY <1>1, <1>2, <2>1 DEF CalmInv, CheckInv
<1>3. ASSUME ~halted[s], Pass(p), UNCHANGED shared
      PROVE  /\ CalmInv'
             /\ chk'[p].pc = "admitted" => \A r \in Scopes : ~halted[r]
  <2>1. CASE s = "all"
    <3> DEFINE new == [pc |-> "look", scope |-> "tenant"]
    <3>1. chk' = [chk EXCEPT ![p] = new]
      BY <1>3, <2>1 DEF Pass
    <3>2. new.pc = "look" /\ new.scope = "tenant" /\ chk'[p] = new
      BY <3>1 DEF TrialInv
    <3> HIDE DEF new
    <3>3. CalmInv'
      BY <1>2, <1>3, <2>1, <3>1, <3>2
    <3> QED
      BY <3>2, <3>3
  <2>2. CASE s = "tenant"
    <3> DEFINE new == [chk[p] EXCEPT !.pc = "admitted"]
    <3>1. chk' = [chk EXCEPT ![p] = new]
      BY <1>3, <2>2 DEF Pass
    <3>2. new.pc = "admitted"
      BY <1>1 DEF Check
    <3> HIDE DEF new
    <3>3. CalmInv'
      BY <1>2, <1>3, <3>1, <3>2
    <3>4. ~halted["all"]
      BY <1>1, <2>2 DEF CheckInv
    <3> QED
      BY <1>3, <2>2, <3>3, <3>4 DEF Scopes
  <2> QED
    BY <1>1, <2>1, <2>2 DEF Scopes
<1>4. ASSUME NEW pc \in {"half", "token", "refused"}, chk' = [chk EXCEPT ![p].pc = pc],
             UNCHANGED shared, pc \in {"half", "token"} => ~halted[s]
      PROVE  CalmInv' /\ chk'[p].pc # "admitted"
  <2> DEFINE new == [chk[p] EXCEPT !.pc = pc]
  <2>1. chk' = [chk EXCEPT ![p] = new]
    BY <1>4
  <2>2. new.pc = pc /\ new.scope = s /\ chk'[p] = new
    BY <1>1, <2>1 DEF Check, TrialInv
  <2>3. s = "tenant" => ~halted["all"]
    BY <1>1 DEF CheckInv
  <2> HIDE DEF new
  <2>4. CalmInv'
    BY <1>2, <1>4, <2>1, <2>2, <2>3
  <2> QED
    BY <1>4, <2>2, <2>4
<1>5. CASE Look(p)
  <2>1. halted[s] => State(p, s) = "open"
    BY <1>1 DEF State
  <2>2. UNCHANGED shared
    BY <1>5 DEF Look
  <2>3. \/ State(p, s) \in {"none", "closed"} /\ Pass(p)
        \/ State(p, s) = "open" /\ Refuse(p)
        \/ State(p, s) = "cooled" /\ chk' = [chk EXCEPT ![p].pc = "half"]
        \/ State(p, s) = "half_open" /\ chk' = [chk EXCEPT ![p].pc = "token"]
    BY <1>5 DEF Look
  <2> HIDE DEF s
  <2>4. CASE State(p, s) \in {"none", "closed"} /\ Pass(p)
    BY <1>1, <1>3, <2>1, <2>2, <2>4 DEF CalmInv
  <2>5. CASE Refuse(p)
    BY <1>4, <2>2, <2>5 DEF Refuse
  <2>6. CASE State(p, s) = "cooled" /\ chk' = [chk EXCEPT ![p].pc = "half"]
    BY <1>1, <1>4, <2>1, <2>2, <2>6 DEF CalmInv
  <2>7. CASE State(p, s) = "half_open" /\ chk' = [chk EXCEPT ![p].pc = "token"]
    BY <1>1, <1>4, <2>1, <2>2, <2>7 DEF CalmInv
  <2> QED
    BY <2>3, <2>4, <2>5, <2>6, <2>7
<1>6. CASE HalfOpen(p)
  <2>1. ~halted[s] /\ (s = "tenant" => ~halted["all"])
    BY <1>1, <1>6 DEF HalfOpen, Checking, CheckInv
  <2>2. shared' = [shared EXCEPT ![s] = "half_open"] /\ chk' = [chk EXCEPT ![p].pc = "token"]
    BY <1>1, <1>6 DEF HalfOpen, Write
  <2>3. /\ chk'[p].pc = "token" /\ chk'[p].scope = s
        /\ \A q \in Procs : q # p => chk'[q] = chk[q]
    BY <1>1, <2>2 DEF TrialInv, Check
  <2>4. /\ shared' \in [Scopes -> States] /\ \A r \in Scopes : r # s => shared'[r] = shared[r]
    BY <1>1, <2>2 DEF CalmInv, States
  <2> HIDE DEF s
  <2> QED
    BY <1>1, <2>1, <2>3, <2>4 DEF CalmInv, CheckInv
<1>7. CASE Acquire(p)
  <2>1. ~halted[s] /\ UNCHANGED shared /\ (Pass(p) \/ Refuse(p))
    BY <1>1, <1>7 DEF Acquire, Checking, CheckInv
  <2> QED
    BY <1>3, <1>4, <2>1 DEF Refuse
<1> QED
  BY <1>5, <1>6, <1>7 DEF CheckStep

\* The circuit is opened and closed while nobody asks.
LEMMA CalmBreaker ==
    ASSUME CalmInv, BreakerMoves, mode = "calm"
    PROVE  CalmInv' /\ UNCHANGED <<run, chk>>
<1>1. up /\ UNCHANGED <<run, chk, up, mode>>
  BY DEF BreakerMoves, Close, Open, Cool, TokenLapses, OwnTokenLapses, CalmInv
<1>2. Quiet => \A p \in Procs : chk[p].pc = "idle"
  BY IdleRun DEF Quiet, CalmInv, CheckInv
<1>3. ASSUME NEW p \in Procs, NEW s \in Scopes, Open(p, s), Quiet
      PROVE  CalmInv'
  <2>1. shared' = [shared EXCEPT ![s] = "open"] /\ halted' = [halted EXCEPT ![s] = TRUE]
    BY <1>1, <1>3 DEF Open, Write
  <2> QED
    BY <1>1, <1>2, <1>3, <2>1 DEF CalmInv, CheckInv, States
<1>4. ASSUME NEW p \in Procs, Close(p), Quiet
      PROVE  CalmInv'
  <2>1. shared' = [shared EXCEPT !["all"] = "closed"] /\ halted' = [halted EXCEPT !["all"] = FALSE]
    BY <1>1, <1>4 DEF Close, Write
  <2> QED
    BY <1>1, <1>2, <1>4, <2>1 DEF CalmInv, CheckInv, States, Scopes
<1>5. ASSUME NEW s \in Scopes, Cool(s)
      PROVE  CalmInv'
  <2>1. /\ halted' = [halted EXCEPT ![s] = FALSE]
        /\ shared' = [shared EXCEPT ![s] = IF shared[s] = "open" THEN "cooled" ELSE shared[s]]
    BY <1>5 DEF Cool
  <2>2. /\ halted' \in [Scopes -> BOOLEAN] /\ shared' \in [Scopes -> States]
        /\ ~halted'[s] /\ \A r \in Scopes : r # s => halted'[r] = halted[r] /\ shared'[r] = shared[r]
    BY <2>1 DEF CalmInv, States
  <2>3. \A r \in Scopes : halted'[r] => shared'[r] = "open"
    BY <2>2 DEF CalmInv
  <2>4. \A r \in Scopes : ~halted[r] => ~halted'[r]
    BY <2>2
  <2>5. ASSUME NEW p \in Procs
        PROVE  CheckInv(p)'
    <3>1. CheckInv(p)
      BY DEF CalmInv
    <3>2. chk[p].scope \in Scopes => (~halted[chk[p].scope] => ~halted'[chk[p].scope])
      BY <2>4
    <3> QED
      BY <1>1, <2>1, <2>4, <3>1, <3>2 DEF CheckInv, CalmInv, Scopes
  <2> QED
    BY <1>1, <2>2, <2>3, <2>5 DEF CalmInv
<1>6. CASE UNCHANGED <<shared, halted>>
  BY <1>1, <1>6 DEF CalmInv, CheckInv
<1>7. MayBegin => Quiet
  BY DEF MayBegin
<1> QED
  BY <1>1, <1>3, <1>4, <1>5, <1>6, <1>7 DEF BreakerMoves, TokenLapses, OwnTokenLapses

LEMMA CalmTypes ==
    ASSUME CalmInv, mode # "calm", UNCHANGED mode, BreakerMoves \/ \E p \in Procs : CheckStep(p)
    PROVE  CalmInv'
<1>1. ASSUME NEW p, NEW s, NEW state \in States, Write(p, s, state)
      PROVE  shared' \in [Scopes -> States]
  <2>1. shared' = [shared EXCEPT ![s] = state] \/ UNCHANGED shared
    BY <1>1 DEF Write
  <2> QED
    BY <2>1 DEF CalmInv
<1>2. ASSUME NEW p \in Procs, CheckStep(p)
      PROVE  shared' \in [Scopes -> States] /\ halted' \in [Scopes -> BOOLEAN]
  <2>1. UNCHANGED halted /\ (UNCHANGED shared \/ Write(p, chk[p].scope, "half_open"))
    BY <1>2 DEF CheckStep, Look, HalfOpen, Acquire
  <2> QED
    BY <1>1, <2>1 DEF CalmInv, States
<1>3. ASSUME NEW p \in Procs, Close(p)
      PROVE  shared' \in [Scopes -> States] /\ halted' \in [Scopes -> BOOLEAN]
  <2>1. Write(p, "all", "closed") /\ halted' = [halted EXCEPT !["all"] = FALSE]
    BY <1>3 DEF Close
  <2> QED
    BY <1>1, <2>1 DEF CalmInv, States
<1>4. ASSUME NEW p \in Procs, NEW s \in Scopes, Open(p, s)
      PROVE  shared' \in [Scopes -> States] /\ halted' \in [Scopes -> BOOLEAN]
  <2>1. Write(p, s, "open") /\ halted' = [halted EXCEPT ![s] = TRUE]
    BY <1>4 DEF Open
  <2> QED
    BY <1>1, <2>1 DEF CalmInv, States
<1>5. ASSUME NEW s \in Scopes, Cool(s)
      PROVE  shared' \in [Scopes -> States] /\ halted' \in [Scopes -> BOOLEAN]
  <2>1. /\ shared' = [shared EXCEPT ![s] = IF shared[s] = "open" THEN "cooled" ELSE shared[s]]
        /\ halted' = [halted EXCEPT ![s] = FALSE]
    BY <1>5 DEF Cool
  <2> QED
    BY <2>1 DEF CalmInv, States
<1>6. CASE UNCHANGED <<shared, halted>>
  BY <1>6 DEF CalmInv
<1> QED
  BY <1>2, <1>3, <1>4, <1>5, <1>6 DEF CalmInv, BreakerMoves, TokenLapses, OwnTokenLapses

Admits(p) == chk[p].pc # "admitted" /\ chk'[p].pc = "admitted"

LEMMA NextCalm ==
    ASSUME TrialInv, WorkInv, CalmInv, [Next]_vars
    PROVE  /\ CalmInv'
           /\ mode = "calm" => \A p \in Procs : Admits(p) => \A s \in Scopes : ~halted[s]
<1>1. ASSUME NEW p \in Procs,
             \/ ReadQuota(p) \/ Win(p) \/ HandOff(p) \/ Complete(p) \/ NextRequest(p)
             \/ CountOffer(p) \/ InsertOffer(p) \/ CountCall(p) \/ PostBid(p) \/ ReadStore(p)
             \/ WriteStore(p) \/ Unlock(p)
      PROVE  CalmInv' /\ UNCHANGED chk
  <2>1. UNCHANGED breaker /\ run[p].pc # "check"
    BY <1>1, IdleRun DEF ReadQuota, Win, HandOff, Complete, Begin, NextRequest, CountOffer, InsertOffer,
                CountCall, PostBid, ReadStore, WriteStore, Unlock, At
  <2>2. \A q \in Procs : q # p => run'[q] = run[q]
    BY <1>1 DEF ReadQuota, Win, HandOff, Complete, Begin, NextRequest, CountOffer, InsertOffer, CountCall,
                PostBid, ReadStore, WriteStore, Unlock, Goto, End, WorkInv, WorkType
  <2> QED
    BY <2>1, <2>2, CalmPipelines DEF breaker
<1>2. ASSUME NEW p \in Procs, PostRequests(p)
      PROVE  CalmInv' /\ \A q \in Procs : ~Admits(q)
  <2>1. /\ chk' = [chk EXCEPT ![p] = [pc |-> "look", scope |-> "all"]]
        /\ UNCHANGED <<up, shared, halted, mode>>
        /\ \A q \in Procs : q # p => run'[q] = run[q]
    BY <1>2 DEF PostRequests, BeginCheck, WorkInv, WorkType
  <2>2. run'[p].pc = "check"
    BY <1>2 DEF PostRequests, Pipeline, WorkInv, WorkType
  <2>3. chk'[p].pc = "look" /\ chk'[p].scope = "all" /\ \A q \in Procs : q # p => chk'[q] = chk[q]
    BY <2>1 DEF TrialInv
  <2>4. CalmInv'
    BY <2>1, <2>2, <2>3 DEF CalmInv, CheckInv
  <2> QED
    BY <2>3, <2>4 DEF Admits
<1>3. ASSUME NEW p \in Procs, CheckDone(p)
      PROVE  CalmInv' /\ \A q \in Procs : ~Admits(q)
  <2>1. /\ chk' = [chk EXCEPT ![p] = NoCheck] /\ UNCHANGED <<up, shared, halted, mode>>
        /\ \A q \in Procs : q # p => run'[q] = run[q]
    BY <1>3 DEF CheckDone, Goto, End, WorkInv, WorkType
  <2>2. chk'[p].pc = "idle" /\ \A q \in Procs : q # p => chk'[q] = chk[q]
    BY <2>1 DEF TrialInv, NoCheck
  <2>3. CalmInv'
    BY <2>1, <2>2 DEF CalmInv, CheckInv
  <2> QED
    BY <2>2, <2>3 DEF Admits
<1>4. ASSUME NEW p \in Procs, CheckGoesOn(p)
      PROVE  /\ CalmInv'
             /\ mode = "calm" => \A q \in Procs : Admits(q) => \A s \in Scopes : ~halted[s]
  <2>1. CheckStep(p) /\ UNCHANGED <<run, mode>>
    BY <1>4 DEF CheckGoesOn, CheckStep, Look, HalfOpen, Acquire
  <2>2. \A q \in Procs : q # p => chk'[q] = chk[q]
    BY <2>1 DEF CheckStep, Look, HalfOpen, Acquire, Pass, Refuse, TrialInv
  <2>3. CASE mode = "calm"
    BY <2>1, <2>2, <2>3, CalmCheck DEF WorkInv, Admits
  <2>4. CASE mode # "calm"
    BY <2>1, <2>4, CalmTypes
  <2> QED
    BY <2>3, <2>4
<1>5. CASE BreakerMoves
  <2>1. UNCHANGED <<chk, mode>>
    BY <1>5 DEF BreakerMoves, Close, Open, Cool, TokenLapses, OwnTokenLapses
  <2>2. CalmInv'
    BY <1>5, <2>1, CalmBreaker, CalmTypes
  <2> QED
    BY <2>1, <2>2 DEF Admits
<1>6. CASE LockLapses \/ RedisMoves \/ UNCHANGED vars
  <2>1. UNCHANGED <<run, shared, halted, mode, chk>> /\ (mode = "calm" => UNCHANGED up)
    BY <1>6 DEF LockLapses, RedisMoves, Outage, vars, breaker
  <2>2. CalmInv'
    BY <2>1 DEF CalmInv, CheckInv
  <2> QED
    BY <2>1, <2>2 DEF Admits
<1> QED
  BY <1>1, <1>2, <1>3, <1>4, <1>5, <1>6 DEF Next, Step, Admits

\* A circuit that was opened admits no task before its cooldown, while Redis
\* answers and nobody opens or closes a circuit in the middle of a check.
THEOREM NoTaskInCooldown == Spec => CooldownHolds
<1>1. Init => TrialInv
  BY DEF Init, BreakerInit, TrialInv, NoCheck, Check, Scopes
<1>2. Init => CalmInv
  BY DEF Init, BreakerInit, CalmInv, CheckInv, NoCheck, States
<1>3. TrialInv /\ WorkInv /\ CalmInv /\ [Next]_vars
      => CalmInv' /\ [mode = "calm" => \A p \in Procs : chk[p].pc # "admitted" /\ chk'[p].pc = "admitted"
                                   => \A s \in Scopes : ~halted[s]]_breaker
  BY NextCalm DEF Admits
<1> QED
  BY <1>1, <1>2, <1>3, InitWork, NextTrial, NextWork, PTL DEF Spec, CooldownHolds

-----------------------------------------------------------------------------
(* The daily cap on offers                                                 *)

\* Who counts offers: everybody together (Nobody), and every process that once
\* counted for itself.
Counters == {p \in Procs : own[p] > 0}
Holders == {Nobody} \cup Counters

\* What was granted, the n-th offer of a counter being the pair of both; and
\* who was granted an offer that is not stored yet.
Granted == {g \in Holders \X (1 .. OfferLimit) :
               g[2] <= IF g[1] = Nobody THEN counter ELSE own[g[1]]}
Inserting == {p \in Procs : At(p, "offers", "insert")}

\* Every offer that is stored, or about to be, was granted by itself.
CapInv ==
    /\ IsFiniteSet(offers) /\ IsFiniteSet(Inserting) /\ IsFiniteSet(Counters)
    /\ Cardinality(offers) + Cardinality(Inserting) <= Cardinality(Granted)

LEMMA GrantsWithinLimit ==
    IsFiniteSet(Counters) =>
       /\ IsFiniteSet(Granted) /\ Cardinality(Granted) \in Nat
       /\ Cardinality(Granted) <= OfferLimit * (1 + Cardinality(Counters))
<1> SUFFICES ASSUME IsFiniteSet(Counters)
             PROVE  /\ IsFiniteSet(Granted) /\ Cardinality(Granted) \in Nat
                    /\ Cardinality(Granted) <= OfferLimit * (1 + Cardinality(Counters))
  OBVIOUS
<1> DEFINE all == Holders \X (1 .. OfferLimit)
<1>1. OfferLimit \in Nat /\ OfferLimit >= 1
  BY LimitsAssumption
<1>2. IsFiniteSet(1 .. OfferLimit) /\ Cardinality(1 .. OfferLimit) = OfferLimit
  BY <1>1, FS_Interval
<1>3. Nobody \notin Counters
  BY NobodyAssumption DEF Counters
<1>4. IsFiniteSet(Holders) /\ Cardinality(Holders) = Cardinality(Counters) + 1
  <2>1. Holders = Counters \cup {Nobody}
    BY DEF Holders
  <2> QED
    BY <1>3, <2>1, FS_AddElement
<1>5. IsFiniteSet(all) /\ Cardinality(all) = Cardinality(Holders) * OfferLimit
  BY <1>2, <1>4, FS_Product
<1>6. Granted \in SUBSET all
  BY DEF Granted
<1> HIDE DEF all
<1>7. IsFiniteSet(Granted) /\ Cardinality(Granted) <= Cardinality(all)
  BY <1>5, <1>6, FS_Subset
<1>8. Cardinality(Counters) \in Nat /\ Cardinality(Granted) \in Nat
  BY <1>7, FS_CardinalityType
<1>9. (Cardinality(Counters) + 1) * OfferLimit = OfferLimit * (1 + Cardinality(Counters))
  BY <1>1, <1>8
<1> QED
  BY <1>4, <1>5, <1>7, <1>8, <1>9

\* A step that grants nothing and stores nothing.
LEMMA NothingGranted ==
    ASSUME CapInv, UNCHANGED offers, IsFiniteSet(Counters'),
           Granted \subseteq Granted', Inserting' \subseteq Inserting
    PROVE  CapInv'
<1>1. IsFiniteSet(Granted') /\ Cardinality(Granted') \in Nat
  <2>1. (IsFiniteSet(Counters) => IsFiniteSet(Granted) /\ Cardinality(Granted) \in Nat)'
    BY GrantsWithinLimit, PTL
  <2> QED
    BY <2>1
<1>2. IsFiniteSet(Inserting') /\ Cardinality(Inserting') <= Cardinality(Inserting)
  BY FS_Subset DEF CapInv
<1>3. Cardinality(Granted) <= Cardinality(Granted')
  BY <1>1, FS_Subset
<1>4. /\ Cardinality(offers) \in Nat /\ Cardinality(Inserting) \in Nat
      /\ Cardinality(Inserting') \in Nat /\ Cardinality(Granted) \in Nat
  BY <1>2, GrantsWithinLimit, FS_CardinalityType DEF CapInv
<1> QED
  BY <1>1, <1>2, <1>3, <1>4 DEF CapInv

\* A grant, for an offer that is about to be stored.
LEMMA OneGranted ==
    ASSUME CapInv, UNCHANGED offers, IsFiniteSet(Counters'), NEW p, NEW g,
           g \notin Granted, Granted \cup {g} \subseteq Granted', Inserting' \subseteq Inserting \cup {p}
    PROVE  CapInv'
<1>1. IsFiniteSet(Granted') /\ Cardinality(Granted') \in Nat
  <2>1. (IsFiniteSet(Counters) => IsFiniteSet(Granted) /\ Cardinality(Granted) \in Nat)'
    BY GrantsWithinLimit, PTL
  <2> QED
    BY <2>1
<1>2. IsFiniteSet(Granted) /\ Cardinality(Granted) \in Nat
  BY GrantsWithinLimit DEF CapInv
<1>3. Cardinality(Granted \cup {g}) = Cardinality(Granted) + 1 /\ IsFiniteSet(Granted \cup {g})
  BY <1>2, FS_AddElement
<1>4. Cardinality(Granted \cup {g}) <= Cardinality(Granted')
  BY <1>1, FS_Subset
<1>5. /\ IsFiniteSet(Inserting \cup {p})
      /\ Cardinality(Inserting \cup {p}) <= Cardinality(Inserting) + 1
      /\ Cardinality(Inserting) \in Nat /\ Cardinality(Inserting \cup {p}) \in Nat
  <2>1. IsFiniteSet(Inserting)
    BY DEF CapInv
  <2>2. /\ IsFiniteSet(Inserting \cup {p})
        /\ Cardinality(Inserting \cup {p}) =
              IF p \in Inserting THEN Cardinality(Inserting) ELSE Cardinality(Inserting) + 1
    BY <2>1, FS_AddElement
  <2>3. Cardinality(Inserting) \in Nat
    BY <2>1, FS_CardinalityType
  <2> QED
    BY <2>2, <2>3
<1>6. IsFiniteSet(Inserting') /\ Cardinality(Inserting') <= Cardinality(Inserting \cup {p})
  BY <1>5, FS_Subset
<1>7. Cardinality(Inserting') \in Nat /\ Cardinality(offers) \in Nat
  BY <1>6, FS_CardinalityType DEF CapInv
<1> QED
  BY <1>1, <1>2, <1>3, <1>4, <1>5, <1>6, <1>7 DEF CapInv

\* The pipelines that are about to store an offer, when one of them moves on.
LEMMA InsertingMoves ==
    ASSUME NEW p \in Procs, NEW next, Moves(p, next)
    PROVE  Inserting' = IF next.op = "offers" /\ next.pc = "insert"
                        THEN Inserting \cup {p} ELSE Inserting \ {p}
  BY DEF Moves, Inserting, At

LEMMA GrantsGrow ==
    ASSUME WorkType, UNCHANGED own, counter' \in Nat, counter' >= counter
    PROVE  Granted \subseteq Granted' /\ Counters' = Counters
<1>1. Counters' = Counters /\ Holders' = Holders
  BY DEF Counters, Holders
<1>2. ASSUME NEW g \in Granted
      PROVE  g \in Granted'
  <2>1. /\ g \in Holders \X (1 .. OfferLimit) /\ g[2] \in Nat
        /\ g[2] <= IF g[1] = Nobody THEN counter ELSE own[g[1]]
    BY LimitsAssumption DEF Granted
  <2>2. g[2] <= IF g[1] = Nobody THEN counter' ELSE own'[g[1]]
    BY <2>1 DEF WorkType
  <2> QED
    BY <1>1, <2>1, <2>2 DEF Granted
<1> QED
  BY <1>1, <1>2

LEMMA CountOfferCap ==
    ASSUME WorkType, CapInv, NEW p \in Procs, CountOffer(p)
    PROVE  CapInv'
<1>1. /\ run[p] \in Run /\ OfferLimit \in Nat /\ counter \in Nat /\ own[p] \in Nat /\ UNCHANGED offers
      /\ At(p, "offers", "count") /\ p \notin Inserting /\ IsFiniteSet(Counters) /\ p # Nobody
  BY LimitsAssumption, NobodyAssumption DEF WorkType, CountOffer, Inserting, At, CapInv
<1>2. Goto(p, "insert") => Inserting' \subseteq Inserting \cup {p}
  <2> SUFFICES ASSUME Goto(p, "insert") PROVE Inserting' \subseteq Inserting \cup {p}
    OBVIOUS
  <2> DEFINE next == [run[p] EXCEPT !.pc = "insert"]
  <2>1. Moves(p, next)
    BY Gone
  <2> HIDE DEF next
  <2> QED
    BY <2>1, InsertingMoves
<1>3. End(p) => Inserting' \subseteq Inserting
  BY Ended, InsertingMoves, IdleRun
<1>4. CASE /\ up /\ counter' = Count(counter, OfferLimit) /\ UNCHANGED own
           /\ IF WithinLimit(counter + 1) THEN Goto(p, "insert") ELSE End(p)
  <2>1. counter' \in Nat /\ counter' >= counter
    BY <1>1, <1>4 DEF Count
  <2>2. Granted \subseteq Granted' /\ Counters' = Counters
    BY <2>1, <1>4, GrantsGrow
  <2>3. CASE End(p)
    BY <1>1, <1>3, <2>2, <2>3, NothingGranted
  <2>4. CASE WithinLimit(counter + 1) /\ Goto(p, "insert")
    <3> DEFINE g == <<Nobody, counter + 1>>
    <3>1. counter' = counter + 1 /\ counter + 1 \in 1 .. OfferLimit
      BY <1>1, <1>4, <2>4 DEF WithinLimit, Count
    <3>2. g \in Granted' /\ g \notin Granted
      BY <1>1, <3>1 DEF Granted, Holders
    <3> HIDE DEF g
    <3> QED
      BY <1>1, <1>2, <2>2, <2>4, <3>2, OneGranted
  <2> QED
    BY <1>4, <2>3, <2>4
<1>5. CASE /\ own' = [own EXCEPT ![p] = Count(own[p], OfferLimit)] /\ UNCHANGED counter
           /\ IF WithinLimit(own[p] + 1) THEN Goto(p, "insert") ELSE End(p)
  <2>1. /\ own'[p] \in Nat /\ own'[p] >= own[p] /\ own'[p] > 0
        /\ own' \in [Procs -> Nat] /\ \A q \in Procs : q # p => own'[q] = own[q]
    BY <1>1, <1>5 DEF Count, WorkType
  <2>2. Counters' = Counters \cup {p}
    BY <2>1 DEF Counters
  <2>3. IsFiniteSet(Counters')
    BY <1>1, <2>2, FS_AddElement
  <2>4. Granted \subseteq Granted'
    <3>1. Holders' = Holders \cup {p} /\ \A h \in Holders : h = Nobody \/ (h \in Procs /\ h # Nobody)
      BY <2>2, NobodyAssumption DEF Holders, Counters
    <3>2. ASSUME NEW g \in Granted
          PROVE  g \in Granted'
      <4>1. /\ g \in Holders \X (1 .. OfferLimit) /\ g[2] \in Nat
            /\ g[2] <= IF g[1] = Nobody THEN counter ELSE own[g[1]]
        BY <1>1 DEF Granted
      <4>2. g[1] \in Procs /\ g[1] # Nobody => own'[g[1]] \in Nat /\ own[g[1]] \in Nat /\ own[g[1]] <= own'[g[1]]
        BY <2>1 DEF WorkType
      <4>3. g[2] <= IF g[1] = Nobody THEN counter' ELSE own'[g[1]]
        BY <1>5, <3>1, <4>1, <4>2
      <4> QED
        BY <3>1, <4>1, <4>3 DEF Granted
    <3> QED
      BY <3>2
  <2>5. CASE End(p)
    BY <1>1, <1>3, <2>3, <2>4, <2>5, NothingGranted
  <2>6. CASE WithinLimit(own[p] + 1) /\ Goto(p, "insert")
    <3> DEFINE g == <<p, own[p] + 1>>
    <3>1. own'[p] = own[p] + 1 /\ own[p] + 1 \in 1 .. OfferLimit
      BY <1>1, <1>5, <2>6 DEF WithinLimit, Count, WorkType
    <3>2. g \in Granted' /\ g \notin Granted
      BY <1>1, <2>2, <3>1 DEF Granted, Holders
    <3> HIDE DEF g
    <3> QED
      BY <1>1, <1>2, <2>3, <2>4, <2>6, <3>2, OneGranted
  <2> QED
    BY <1>5, <2>5, <2>6
<1>6. CASE End(p) /\ UNCHANGED <<counter, own>>
  <2>1. Granted' = Granted /\ Counters' = Counters
    BY <1>6 DEF Granted, Holders, Counters
  <2> QED
    BY <1>1, <1>3, <1>6, <2>1, NothingGranted
<1> QED
  BY <1>4, <1>5, <1>6 DEF CountOffer

LEMMA InsertOfferCap ==
    ASSUME WorkType, CapInv, NEW p \in Procs, InsertOffer(p)
    PROVE  CapInv'
<1>1. /\ run[p] \in Run /\ p \in Inserting /\ offers' = offers \cup {run[p].item}
      /\ UNCHANGED <<counter, own>> /\ Goto(p, "next")
  BY DEF WorkType, InsertOffer, Inserting, At
<1>2. Inserting' = Inserting \ {p}
  <2> DEFINE next == [run[p] EXCEPT !.pc = "next"]
  <2>1. Moves(p, next) /\ next.pc = "next"
    BY <1>1, Gone DEF Run
  <2> HIDE DEF next
  <2> QED
    BY <2>1, InsertingMoves
<1>3. IsFiniteSet(Inserting') /\ Cardinality(Inserting') = Cardinality(Inserting) - 1
  BY <1>1, <1>2, FS_RemoveElement DEF CapInv
<1>4. IsFiniteSet(offers') /\ Cardinality(offers') <= Cardinality(offers) + 1
  <2>1. IsFiniteSet(offers)
    BY DEF CapInv
  <2>2. /\ IsFiniteSet(offers')
        /\ Cardinality(offers') = IF run[p].item \in offers THEN Cardinality(offers)
                                  ELSE Cardinality(offers) + 1
    BY <1>1, <2>1, FS_AddElement
  <2>3. Cardinality(offers) \in Nat
    BY <2>1, FS_CardinalityType
  <2> QED
    BY <2>2, <2>3
<1>5. Granted' = Granted /\ Counters' = Counters
  BY <1>1 DEF Granted, Holders, Counters
<1>6. /\ Cardinality(offers) \in Nat /\ Cardinality(offers') \in Nat
      /\ Cardinality(Inserting) \in Nat /\ Cardinality(Granted) \in Nat
  BY <1>4, GrantsWithinLimit, FS_CardinalityType DEF CapInv
<1> QED
  BY <1>3, <1>4, <1>5, <1>6 DEF CapInv

\* The other steps grant nothing; only a granted offer is about to be stored.
LEMMA OtherCap ==
    ASSUME WorkType, CapInv, UNCHANGED <<offers, own>>, counter' \in Nat, counter' >= counter,
           \A q \in Procs : run'[q] = run[q] \/ run'[q].op # "offers" \/ run'[q].pc # "insert"
    PROVE  CapInv'
<1>1. Granted \subseteq Granted' /\ Counters' = Counters
  BY GrantsGrow
<1>2. Inserting' \subseteq Inserting
  BY DEF Inserting, At
<1> QED
  BY <1>1, <1>2, NothingGranted DEF CapInv

LEMMA NextRequestMoves ==
    ASSUME WorkType, NEW p \in Procs, NextRequest(p)
    PROVE  run'[p].pc # "insert"
<1>1. run[p] \in Run /\ run[p].op = "offers"
  BY DEF NextRequest, At, WorkType
<1>2. CASE End(p)
  BY <1>2, Ended, IdleRun DEF Moves
<1>3. CASE \E r \in run[p].todo :
             run' = [run EXCEPT ![p].todo = @ \ {r}, ![p].item = r,
                                ![p].pc = IF r \in offers THEN "next" ELSE "count"]
  <2>1. PICK r \in run[p].todo :
           run' = [run EXCEPT ![p].todo = @ \ {r}, ![p].item = r,
                              ![p].pc = IF r \in offers THEN "next" ELSE "count"]
    BY <1>3
  <2> DEFINE next == [run[p] EXCEPT !.todo = run[p].todo \ {r}, !.item = r,
                                    !.pc = IF r \in offers THEN "next" ELSE "count"]
  <2>2. next \in Run /\ next.pc # "insert"
    BY <1>1 DEF Run
  <2>3. run' = [run EXCEPT ![p] = next]
    BY <2>1
  <2> HIDE DEF next
  <2>4. Moves(p, next)
    BY <2>2, <2>3, Moved
  <2> QED
    BY <2>2, <2>4 DEF Moves
<1> QED
  BY <1>2, <1>3, Zenon DEF NextRequest

LEMMA NextCap == WorkInv /\ CapInv /\ [Next]_vars => CapInv'
<1> SUFFICES ASSUME WorkType, CapInv, [Next]_vars PROVE CapInv'
  BY DEF WorkInv
<1>1. counter \in Nat /\ counter <= counter
  BY DEF WorkType
<1>2. ASSUME NEW p \in Procs,
             \/ PostRequests(p) \/ ReadQuota(p) \/ Win(p) \/ HandOff(p) \/ Complete(p)
             \/ CheckDone(p) \/ NextRequest(p) \/ PostBid(p) \/ ReadStore(p)
             \/ WriteStore(p) \/ Unlock(p)
      PROVE  CapInv'
  <2>1. UNCHANGED <<offers, own, counter>> /\ run[p] \in Run
    BY <1>2 DEF PostRequests, ReadQuota, Win, HandOff, Complete, Begin, CheckDone, NextRequest,
                PostBid, ReadStore, WriteStore, Unlock, work, WorkType
  <2>2. \A q \in Procs : q # p => run'[q] = run[q]
    BY <1>2 DEF PostRequests, ReadQuota, Win, HandOff, Complete, Begin, CheckDone, NextRequest,
                PostBid, ReadStore, WriteStore, Unlock, Goto, End, WorkType
  <2>3. CASE NextRequest(p) \/ CheckDone(p)
    <3>1. Goto(p, "next") \/ End(p) => run'[p].pc # "insert"
      BY <2>1, IdleRun DEF Goto, End, WorkType, Run
    <3>2. CheckDone(p) => Goto(p, "next") \/ End(p)
      BY DEF CheckDone
    <3>3. NextRequest(p) => run'[p].pc # "insert"
      BY NextRequestMoves
    <3>4. run'[p].pc # "insert"
      BY <2>3, <3>1, <3>2, <3>3
    <3> QED
      BY <1>1, <2>1, <2>2, <3>4, OtherCap
  <2>4. CASE PostRequests(p) \/ ReadQuota(p) \/ Win(p) \/ HandOff(p) \/ Complete(p)
    <3>1. run'[p].pc # "insert"
      BY <2>4 DEF PostRequests, ReadQuota, Win, HandOff, Complete, Begin, Pipeline, WorkType
    <3> QED
      BY <1>1, <2>1, <2>2, <3>1, OtherCap
  <2>5. CASE PostBid(p) \/ ReadStore(p) \/ WriteStore(p) \/ Unlock(p)
    <3>1. run'[p].pc # "insert" \/ run'[p].op # "offers"
      BY <2>1, <2>5, IdleRun DEF PostBid, ReadStore, WriteStore, Unlock, Goto, End, WorkType, Run, At
    <3> QED
      BY <1>1, <2>1, <2>2, <3>1, OtherCap
  <2> QED
    BY <1>2, <2>3, <2>4, <2>5
<1>3. ASSUME NEW p \in Procs, CountCall(p)
      PROVE  CapInv'
  <2>1. UNCHANGED <<offers, own>> /\ counter' \in Nat /\ counter' >= counter
    BY <1>1, <1>3 DEF CountCall, Count
  <2>2. \A q \in Procs : q # p => run'[q] = run[q]
    BY <1>3 DEF CountCall, Goto, End, WorkType
  <2>3. run[p] \in Run /\ run'[p].pc # "insert"
    BY <1>3, IdleRun DEF CountCall, Goto, End, WorkType, Run
  <2> QED
    BY <2>1, <2>2, <2>3, OtherCap
<1>4. CASE \/ \E p \in Procs : CheckGoesOn(p)
           \/ LockLapses \/ BreakerMoves \/ RedisMoves \/ UNCHANGED vars
  <2>1. UNCHANGED <<offers, own, counter, run>>
    BY <1>4 DEF CheckGoesOn, LockLapses, BreakerMoves, RedisMoves, vars, work
  <2> QED
    BY <1>1, <2>1, OtherCap
<1> QED
  BY <1>2, <1>3, <1>4, CountOfferCap, InsertOfferCap DEF Next, Step

\* However many processes count, and however long Redis is away, a day's offers
\* stay within the cap, and one cap more for every process that once counted
\* for itself.
THEOREM OffersStayCapped == Spec => []OffersCapped
<1>1. Init => CapInv
  <2> SUFFICES ASSUME Init PROVE CapInv
    OBVIOUS
  <2>1. offers = {} /\ Inserting = {} /\ Counters = {}
    BY IdleRun DEF Init, Inserting, Counters, At
  <2>2. IsFiniteSet({}) /\ Cardinality({}) = 0
    BY FS_EmptySet
  <2>3. Cardinality(Granted) \in Nat
    BY <2>1, <2>2, GrantsWithinLimit
  <2> QED
    BY <2>1, <2>2, <2>3 DEF CapInv
<1>2. CapInv => OffersCapped
  <2> SUFFICES ASSUME CapInv PROVE OffersCapped
    OBVIOUS
  <2>1. /\ Cardinality(offers) + Cardinality(Inserting) <= Cardinality(Granted)
        /\ Cardinality(Granted) <= OfferLimit * (1 + Cardinality(Counters))
        /\ Cardinality(offers) \in Nat /\ Cardinality(Inserting) \in Nat
        /\ Cardinality(Granted) \in Nat /\ Cardinality(Counters) \in Nat
    BY GrantsWithinLimit, FS_CardinalityType DEF CapInv
  <2>2. OfferLimit * (1 + Cardinality(Counters)) \in Nat
    BY <2>1, LimitsAssumption
  <2> HIDE DEF CapInv
  <2> QED
    BY <2>1, <2>2 DEF OffersCapped, Counters
<1> QED
  BY <1>1, <1>2, InitWork, NextWork, NextCap, PTL DEF Spec

=============================================================================
