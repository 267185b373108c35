-------------------------- MODULE GenerationProofs --------------------------
(***************************************************************************)
(* The safety properties of Generation for any number of workers, rows,    *)
(* messages and retries.  The index and the foreign key carry the first    *)
(* two; the retry budget and the reviewer's decisions need to know what    *)
(* the beat and the workers still hold in their hands.  The second part is *)
(* about Drafting, of which MCGeneration explores the same instance.       *)
(***************************************************************************)
EXTENDS Generation, Drafting, SequenceTheorems, TLAPS

(* The inductive invariant.                                                *)

\* A generation works on a row that exists; the beat loaded a row whose
\* budget was not used up.
HandsOn ==
    /\ \A w \in Workers : task[w].item <= Len(rows) /\ task[w].pc \in {"idle", "llm"}
    /\ tick.pc \in {"idle", "enqueue", "count"}
    /\ tick.pc # "idle" => tick.copy.retries < MaxRetries

\* The automatic retry that the beat is about, too, is in the count that it
\* will write.
TickCounted ==
    tick.pc # "idle" =>
       autos <= tick.copy.retries + lost + (IF tick.pc = "count" THEN 1 ELSE 0)

IInv == /\ TypeOK
        /\ HandsOn
        /\ IndexAllows(rows)
        /\ RowsKeepTheirJob
        /\ RetriesCounted
        /\ TickCounted

\* In a calm run one worker at most is busy, and it works on a failed row or
\* on a fresh one.
OneBusy ==
    calm => /\ \A v, w \in Workers : task[v].pc # "idle" /\ task[w].pc # "idle" => v = w
            /\ \A w \in Workers : task[w].pc # "idle" /\ task[w].item # 0
                                     => rows[task[w].item].status = "generation_failed"

-----------------------------------------------------------------------------
(* Data                                                                    *)

LEMMA BlankRow == Blank \in Row /\ Idle \in Work /\ Idle.pc = "idle" /\ Idle.item = 0
  BY RetriesAssumption DEF Blank, Row, Statuses, Idle, Work

\* A row after its count or its status was written.
LEMMA RowCounted ==
    ASSUME NEW r \in Row, NEW n \in 0 .. MaxRetries
    PROVE  /\ [r EXCEPT !.retries = n] \in Row
           /\ [r EXCEPT !.retries = n].retries = n
           /\ [r EXCEPT !.retries = n].status = r.status
  BY DEF Row

\* A write to one row changes that row only.
LEMMA RowWritten ==
    ASSUME NEW rs \in Seq(Row), NEW i \in 1 .. Len(rs), NEW new \in Row
    PROVE  /\ [rs EXCEPT ![i] = new] \in Seq(Row)
           /\ Len([rs EXCEPT ![i] = new]) = Len(rs)
           /\ DOMAIN [rs EXCEPT ![i] = new] = DOMAIN rs
           /\ [rs EXCEPT ![i] = new][i] = new
           /\ \A j \in 1 .. Len(rs) : j # i => [rs EXCEPT ![i] = new][j] = rs[j]
<1>1. /\ [rs EXCEPT ![i] = new] \in Seq(Row)
      /\ Len([rs EXCEPT ![i] = new]) = Len(rs)
      /\ \A j \in 1 .. Len(rs) : [rs EXCEPT ![i] = new][j] = IF j = i THEN new ELSE rs[j]
  BY ExceptSeq
<1> QED
  BY <1>1

LEMMA RowsDomain ==
    ASSUME NEW rs \in Seq(Row)
    PROVE  /\ Len(rs) \in Nat /\ DOMAIN rs = 1 .. Len(rs)
           /\ \A i \in DOMAIN rs : rs[i] \in Row
  BY LenProperties, ElementOfSeq

\* Writing counts does not disturb the index.
LEMMA SameStatuses ==
    ASSUME NEW rs \in Seq(Row), NEW rt \in Seq(Row), IndexAllows(rs), DOMAIN rt = DOMAIN rs,
           \A j \in DOMAIN rs : rt[j].status = rs[j].status
    PROVE  IndexAllows(rt)
  BY DEF IndexAllows, Live

\* The index leaves one failed row at most.
LEMMA OneFailed ==
    ASSUME IndexAllows(rows), NEW i \in FailedRows, NEW j \in FailedRows
    PROVE  i = j
  BY DEF IndexAllows, Live, FailedRows

LEMMA StartsWhere ==
    ASSUME TypeOK, IndexAllows(rows), NEW i \in Starts, i # 0
    PROVE  i \in FailedRows
<1>1. PICK k \in FailedRows : TRUE
  BY DEF Starts
<1>2. \A j \in FailedRows : j = k
  BY <1>1, OneFailed
<1>3. FailedRows = {k} /\ k \in Nat
  BY <1>1, <1>2, RowsDomain DEF FailedRows, TypeOK
<1>4. k \in FailedRows /\ \A j \in FailedRows : j <= k
  BY <1>3
<1>5. i = CHOOSE m \in FailedRows : \A j \in FailedRows : j <= m
  BY <1>1 DEF Starts
<1> QED
  BY <1>4, <1>5

\* What a stale write takes from a count.
LEMMA LossCounted ==
    ASSUME NEW copy \in Row, NEW old \in Row, NEW new \in Row
    PROVE  /\ Overwritten(copy, old, new) \in Nat
           /\ new.retries \in {copy.retries, old.retries} =>
                 old.retries <= new.retries + Overwritten(copy, old, new)
<1>1. copy.retries \in Nat /\ old.retries \in Nat /\ new.retries \in Nat
  BY RetriesAssumption DEF Row
<1> QED
  BY <1>1 DEF Overwritten

-----------------------------------------------------------------------------
(* Steps that leave the rows alone *)

\* A worker begins or ends its generation.
LEMMA WorkerStep ==
    ASSUME IInv, NEW w \in Workers, NEW next \in Work, task' = [task EXCEPT ![w] = next],
           next.item <= Len(rows), next.pc \in {"idle", "llm"}, queue' \in Nat,
           UNCHANGED <<job, rows, tick, manual, recent, calm, autos, lost>>
    PROVE  IInv'
<1>1. task' \in [Workers -> Work] /\ \A v \in Workers : task'[v] = IF v = w THEN next ELSE task[v]
  BY DEF IInv, TypeOK
<1>2. TypeOK'
  BY <1>1 DEF IInv, TypeOK
<1>3. HandsOn'
  BY <1>1 DEF IInv, HandsOn
<1> QED
  BY <1>2, <1>3 DEF IInv, RowsKeepTheirJob, RetriesCounted, FailedRows, TickCounted, IndexAllows

LEMMA StartStep ==
    ASSUME IInv, NEW w \in Workers, Start(w)
    PROVE  IInv'
<1>1. PICK i \in Starts : task' = [task EXCEPT ![w] = [pc |-> "llm", item |-> i,
                                       copy |-> IF i = 0 THEN Blank ELSE rows[i]]]
  BY DEF Start
<1> DEFINE next == [pc |-> "llm", item |-> i, copy |-> IF i = 0 THEN Blank ELSE rows[i]]
<1>2. i = 0 \/ i \in FailedRows
  BY StartsWhere DEF IInv
<1>3. i \in 0 .. Len(rows) /\ (i # 0 => rows[i] \in Row) /\ Len(rows) \in Nat
  BY <1>2, RowsDomain DEF IInv, TypeOK, FailedRows
<1>4. next \in Work
  <2>1. i \in 0 .. MaxRows /\ (IF i = 0 THEN Blank ELSE rows[i]) \in Row
    BY <1>3, BlankRow, RetriesAssumption DEF IInv, TypeOK
  <2> QED
    BY <2>1 DEF Work
<1>5. queue' \in Nat
  BY DEF Start, Take, IInv, TypeOK
<1>6. next.item <= Len(rows) /\ next.pc = "llm"
  BY <1>3
<1>7. task' = [task EXCEPT ![w] = next]
  BY <1>1
<1> HIDE DEF next
<1> QED
  BY <1>4, <1>5, <1>6, <1>7, WorkerStep DEF Start, Take

LEMMA CrashStep ==
    ASSUME IInv, NEW w \in Workers, Crash(w)
    PROVE  IInv'
<1>1. Idle.item <= Len(rows)
  BY BlankRow, RowsDomain DEF IInv, TypeOK
<1> QED
  BY <1>1, BlankRow, WorkerStep DEF Crash, IInv, TypeOK

\* The rows, the counts and the beat stay as they are.
LEMMA QuietStep ==
    ASSUME IInv, UNCHANGED <<rows, task, tick, calm, autos, lost>>,
           job' \in {"listed", "archived", "deleted"}, job' = "deleted" => rows = <<>>,
           queue' \in Nat, manual' \in Work, recent' \in BOOLEAN
    PROVE  IInv'
<1>1. TypeOK'
  BY DEF IInv, TypeOK
<1> QED
  BY <1>1 DEF IInv, HandsOn, RowsKeepTheirJob, RetriesCounted, FailedRows, TickCounted,
              IndexAllows

-----------------------------------------------------------------------------
(* The commit of a generation *)

LEMMA CommitStep ==
    ASSUME IInv, NEW w \in Workers, NEW new \in Row, Commit(w, new),
           task[w].item # 0 /\ new.status = "generation_failed" =>
              /\ rows[task[w].item].status = "generation_failed"
              /\ new.retries \in {task[w].copy.retries, rows[task[w].item].retries}
    PROVE  IInv'
<1> DEFINE i  == task[w].item
           rs == IF i = 0 THEN Append(rows, new) ELSE [rows EXCEPT ![i] = new]
           ok == IndexAllows(rs) /\ job # "deleted"
<1>1. task[w] \in Work /\ rows \in Seq(Row) /\ autos \in Nat /\ lost \in Nat /\ MaxRows \in Nat
  BY RetriesAssumption DEF IInv, TypeOK
<1>2. /\ i \in 0 .. Len(rows) /\ Len(rows) \in Nat /\ Len(rows) <= MaxRows
      /\ DOMAIN rows = 1 .. Len(rows) /\ task[w].copy \in Row
      /\ i # 0 => rows[i] \in Row
  BY <1>1, RowsDomain DEF IInv, HandsOn, TypeOK, Work
<1>3. task' \in [Workers -> Work] /\ \A v \in Workers : task'[v] = IF v = w THEN Idle ELSE task[v]
  BY BlankRow DEF Commit, IInv, TypeOK
<1>4. /\ rs \in Seq(Row) /\ Len(rs) >= Len(rows) /\ Len(rs) <= MaxRows /\ Len(rs) \in Nat
      /\ DOMAIN rs = 1 .. Len(rs)
      /\ i # 0 => Len(rs) = Len(rows) /\ rs[i] = new
      /\ \A j \in 1 .. Len(rows) : j # i => rs[j] = rows[j]
  <2>1. CASE i = 0
    <3>1. Len(rows) < MaxRows
      BY <2>1 DEF Commit
    <3>2. /\ Append(rows, new) \in Seq(Row) /\ Len(Append(rows, new)) = Len(rows) + 1
          /\ \A j \in 1 .. Len(rows) : Append(rows, new)[j] = rows[j]
      BY <1>1, AppendProperties
    <3>3. DOMAIN Append(rows, new) = 1 .. Len(Append(rows, new))
      BY <3>2, LenProperties
    <3> QED
      BY <1>1, <1>2, <2>1, <3>1, <3>2, <3>3
  <2>2. CASE i # 0
    <3>1. i \in 1 .. Len(rows)
      BY <1>2, <2>2
    <3>2. /\ [rows EXCEPT ![i] = new] \in Seq(Row)
          /\ Len([rows EXCEPT ![i] = new]) = Len(rows)
          /\ DOMAIN [rows EXCEPT ![i] = new] = DOMAIN rows
          /\ [rows EXCEPT ![i] = new][i] = new
          /\ \A j \in 1 .. Len(rows) : j # i => [rows EXCEPT ![i] = new][j] = rows[j]
      BY <1>1, <3>1, RowWritten
    <3> QED
      BY <1>2, <2>2, <3>2
  <2> QED
    BY <2>1, <2>2
<1>5. rows' = (IF ok THEN rs ELSE rows)
  BY DEF Commit
<1>6. UNCHANGED <<job, tick, manual, recent, calm>> /\ UNCHANGED queue
  BY DEF Commit
<1>7. IF ok /\ (i = 0 \/ new.status # "generation_failed")
      THEN autos' = 0 /\ lost' = 0
      ELSE /\ autos' = autos
           /\ lost' = lost + IF i = 0 THEN 0 ELSE Overwritten(task[w].copy, rows[i], rows'[i])
  BY DEF Commit
<1>16. /\ ok \in BOOLEAN
       /\ rows' \in Seq(Row) /\ Len(rows') >= Len(rows) /\ Len(rows') <= MaxRows
       /\ Len(rows') \in Nat
  <2>1. ok \in BOOLEAN /\ (rows' = rs \/ rows' = rows)
    BY <1>5
  <2> HIDE DEF rs
  <2>2. CASE rows' = rs
    BY <1>4, <2>1, <2>2
  <2>3. CASE rows' = rows
    BY <1>1, <1>2, <2>1, <2>3
  <2> QED
    BY <2>1, <2>2, <2>3
<1> HIDE DEF rs, ok, i
<1>8. i # 0 => /\ rows'[i] \in Row
               /\ Overwritten(task[w].copy, rows[i], rows'[i]) \in Nat
               /\ rows'[i].retries \in {task[w].copy.retries, rows[i].retries} =>
                     rows[i].retries
                        <= rows'[i].retries + Overwritten(task[w].copy, rows[i], rows'[i])
  <2> HAVE i # 0
  <2>1. rows'[i] \in Row
    BY <1>2, <1>4, <1>5
  <2> QED
    BY <1>2, <2>1, LossCounted
<1>9. autos' \in Nat /\ lost' \in Nat /\ ((lost' >= lost /\ autos' = autos) \/ autos' = 0)
  <2>1. CASE i = 0
    BY <1>1, <1>7, <2>1
  <2>2. CASE i # 0
    BY <1>1, <1>7, <1>8, <2>2
  <2> QED
    BY <2>1, <2>2
<1>10. TypeOK'
  BY <1>1, <1>2, <1>3, <1>4, <1>5, <1>6, <1>9 DEF IInv, TypeOK
<1>11. HandsOn'
  <2>1. Len(rows') >= Len(rows) /\ Len(rows') \in Nat
    BY <1>16
  <2>2. \A v \in Workers : task[v].item \in Nat
    BY DEF IInv, TypeOK, Work
  <2> QED
    BY <1>2, <1>3, <1>6, <2>1, <2>2, BlankRow DEF IInv, HandsOn
<1>12. IndexAllows(rows')
  BY <1>5 DEF ok, IInv
<1>13. RowsKeepTheirJob'
  BY <1>5, <1>6 DEF ok, IInv, RowsKeepTheirJob
<1>14. TickCounted'
  <2>1. tick \in Work
    BY DEF IInv, TypeOK
  <2>2. tick.copy.retries \in Nat
    BY <2>1, RetriesAssumption DEF Work, Row
  <2> QED
    BY <1>1, <1>6, <1>9, <2>2 DEF IInv, TickCounted
<1>15. RetriesCounted'
  <2> SUFFICES ASSUME NEW j \in DOMAIN rows', rows'[j].status = "generation_failed"
               PROVE  autos' <= rows'[j].retries + lost' + (IF tick.pc = "count" THEN 1 ELSE 0)
    BY <1>6 DEF RetriesCounted, FailedRows
  <2>1. rows'[j] \in Row
    BY <1>10, RowsDomain DEF TypeOK
  <2>2. rows'[j].retries \in Nat
    BY <2>1, RetriesAssumption DEF Row
  <2>3. CASE autos' = 0
    BY <1>9, <2>2, <2>3
  <2>4. CASE autos' # 0
    <3>1. j \in DOMAIN rows /\ rows[j].status = "generation_failed" /\ autos' = autos
      <4>1. ~ok \/ i # 0
        BY <1>7, <2>4
      <4>2. ok /\ j = i => new.status # "generation_failed" \/ rows[j].status = "generation_failed"
        BY <4>1 DEF i
      <4> QED
        BY <1>2, <1>4, <1>5, <1>9, <2>4, <4>1, <4>2
    <3>2. rows[j].retries \in Nat
      <4>1. rows[j] \in Row
        BY <3>1, <1>1, RowsDomain
      <4> QED
        BY <4>1, RetriesAssumption DEF Row
    <3>3. autos <= rows[j].retries + lost + (IF tick.pc = "count" THEN 1 ELSE 0)
      BY <3>1 DEF IInv, RetriesCounted, FailedRows
    <3>4. rows[j].retries + lost <= rows'[j].retries + lost'
      <4>1. CASE j # i \/ ~ok
        <5>1. rows'[j] = rows[j]
          BY <1>2, <1>4, <1>5, <3>1, <4>1
        <5> QED
          BY <1>1, <1>9, <2>4, <3>2, <5>1
      <4>2. CASE j = i /\ ok
        <5>1. i # 0 /\ rows'[i] = new /\ new.status = "generation_failed"
          <6>1. rows' = rs /\ j \in 1 .. Len(rows)
            BY <1>2, <1>5, <3>1, <4>2
          <6> QED
            BY <1>4, <3>1, <4>2, <6>1
        <5>2. new.retries \in {task[w].copy.retries, rows[i].retries}
          BY <5>1 DEF i
        <5>3. lost' = lost + Overwritten(task[w].copy, rows[i], rows'[i])
          BY <1>7, <5>1
        <5>4. rows[i].retries
                 <= rows'[i].retries + Overwritten(task[w].copy, rows[i], rows'[i])
          BY <1>8, <5>1, <5>2
        <5> QED
          BY <1>1, <1>8, <2>2, <3>2, <4>2, <5>1, <5>3, <5>4
      <4> QED
        BY <4>1, <4>2
    <3> QED
      BY <1>1, <1>9, <2>2, <3>1, <3>2, <3>3, <3>4
  <2> QED
    BY <2>3, <2>4
<1> QED
  BY <1>10, <1>11, <1>12, <1>13, <1>14, <1>15 DEF IInv, IndexAllows

LEMMA DraftedStep ==
    ASSUME IInv, NEW w \in Workers, Drafted(w)
    PROVE  IInv'
<1> DEFINE new == [status |-> "pending_review", retries |-> 0]
<1>1. new \in Row /\ new.status # "generation_failed"
  BY RetriesAssumption DEF Row, Statuses
<1>2. Commit(w, new)
  BY DEF Drafted
<1> HIDE DEF new
<1> QED
  BY <1>1, <1>2, CommitStep

LEMMA FailsStep ==
    ASSUME IInv, NEW w \in Workers, Fails(w)
    PROVE  IInv'
<1>1. CASE task[w].item = 0
  BY <1>1, BlankRow, CommitStep DEF Fails
<1>2. CASE task[w].item # 0
  <2> DEFINE i   == task[w].item
             n   == task[w].copy.retries
             new == [rows[i] EXCEPT !.retries = n]
  <2>1. task[w] \in Work /\ i <= Len(rows) /\ rows \in Seq(Row)
    BY DEF IInv, TypeOK, HandsOn
  <2>2. i \in Nat /\ n \in 0 .. MaxRetries
    BY <2>1 DEF Work, Row
  <2>3. rows[i] \in Row
    BY <1>2, <2>1, <2>2, RowsDomain
  <2>4. new \in Row /\ new.retries = n /\ new.status = rows[i].status
    BY <2>2, <2>3, RowCounted
  <2>5. Commit(w, new) \/ Commit(w, rows[i])
    BY <1>2 DEF Fails, ErrorCopy
  <2> HIDE DEF new
  <2>6. CASE Commit(w, new)
    BY <2>4, <2>6, CommitStep
  <2>7. CASE Commit(w, rows[i])
    BY <2>3, <2>7, CommitStep
  <2> QED
    BY <2>5, <2>6, <2>7
<1> QED
  BY <1>1, <1>2

-----------------------------------------------------------------------------
(* The beat and the manual retry *)

\* The beat goes on without touching the rows.
LEMMA TickStep ==
    ASSUME IInv, UNCHANGED <<job, rows, task, manual, recent, calm>>,
           tick' \in Work, tick'.pc \in {"idle", "enqueue", "count"},
           tick'.pc # "idle" => tick'.copy.retries < MaxRetries,
           queue' \in Nat, autos' \in Nat, lost' \in Nat,
           TickCounted', RetriesCounted'
    PROVE  IInv'
<1>1. TypeOK' /\ HandsOn'
  BY DEF IInv, TypeOK, HandsOn
<1> QED
  BY <1>1 DEF IInv, RowsKeepTheirJob, IndexAllows

LEMMA TickLoadStep ==
    ASSUME IInv, TickLoad
    PROVE  IInv'
<1>1. PICK i \in FailedRows : /\ rows[i].retries < MaxRetries
                              /\ tick' = [pc |-> "enqueue", item |-> i, copy |-> rows[i]]
  BY DEF TickLoad
<1>2. i \in 1 .. Len(rows) /\ Len(rows) <= MaxRows /\ rows[i] \in Row /\ Len(rows) \in Nat
  BY RowsDomain DEF IInv, TypeOK, FailedRows
<1>3. tick' \in Work
  <2>1. i \in 0 .. MaxRows
    BY <1>2, RetriesAssumption
  <2> QED
    BY <1>1, <1>2, <2>1 DEF Work
<1>4. tick.pc = "idle" /\ tick'.pc = "enqueue" /\ tick'.copy = rows[i]
  BY <1>1, BlankRow DEF TickLoad
<1>5. UNCHANGED <<job, rows, queue, task, manual, recent, calm, autos, lost>>
  BY DEF TickLoad
<1>6. RetriesCounted'
  BY <1>4, <1>5 DEF IInv, RetriesCounted, FailedRows
<1>7. TickCounted'
  BY <1>4, <1>5 DEF IInv, RetriesCounted, TickCounted
<1> QED
  BY <1>1, <1>3, <1>4, <1>5, <1>6, <1>7, TickStep DEF IInv, TypeOK

\* The counts of the rows are natural numbers, and so is the beat's copy.
LEMMA Counts ==
    ASSUME TypeOK
    PROVE  /\ autos \in Nat /\ lost \in Nat /\ tick.copy.retries \in Nat
           /\ tick.item \in Nat
           /\ \A i \in FailedRows : rows[i] \in Row /\ rows[i].retries \in Nat
<1>1. \A r \in Row : r.retries \in Nat
  BY RetriesAssumption DEF Row
<1>2. tick.copy \in Row /\ tick.item \in Nat
  BY DEF TypeOK, Work
<1> QED
  BY <1>1, <1>2, RowsDomain DEF TypeOK, FailedRows

LEMMA TickEnqueueStep ==
    ASSUME IInv, TickEnqueue
    PROVE  IInv'
<1>1. tick' = [tick EXCEPT !.pc = "count"] /\ tick \in Work /\ tick.pc = "enqueue"
  BY DEF TickEnqueue, IInv, TypeOK
<1>2. tick' \in Work /\ tick'.pc = "count" /\ tick'.copy = tick.copy
  BY <1>1 DEF Work
<1>3. autos' = autos + 1 /\ lost' = lost /\ queue' = queue + 1 /\ rows' = rows
  BY DEF TickEnqueue
<1>4. RetriesCounted'
  BY <1>1, <1>2, <1>3, Counts DEF IInv, RetriesCounted, FailedRows
<1>5. TickCounted'
  BY <1>1, <1>2, <1>3, Counts DEF IInv, TickCounted
<1>6. autos' \in Nat /\ lost' \in Nat /\ queue' \in Nat /\ tick'.copy.retries < MaxRetries
  BY <1>1, <1>2, <1>3, Counts DEF IInv, TypeOK, HandsOn
<1> QED
  BY <1>2, <1>4, <1>5, <1>6, TickStep DEF TickEnqueue

LEMMA TickBrokerDownStep ==
    ASSUME IInv, TickBrokerDown
    PROVE  IInv'
<1>1. tick' = Idle /\ tick.pc = "enqueue"
      /\ UNCHANGED <<job, rows, queue, task, manual, recent, calm, autos, lost>>
  BY DEF TickBrokerDown
<1>2. TickCounted' /\ RetriesCounted'
  BY <1>1, BlankRow DEF IInv, TickCounted, RetriesCounted, FailedRows
<1> QED
  BY <1>1, <1>2, BlankRow, TickStep DEF IInv, TypeOK

LEMMA TickCrashStep ==
    ASSUME IInv, TickCrash
    PROVE  IInv'
<1>1. /\ tick' = Idle /\ tick.pc = "count" /\ lost' = lost + 1
      /\ UNCHANGED <<job, rows, queue, task, manual, recent, calm, autos>>
  BY DEF TickCrash
<1>2. TickCounted'
  BY <1>1, BlankRow DEF TickCounted
<1>3. RetriesCounted'
  BY <1>1, BlankRow, Counts DEF IInv, RetriesCounted, FailedRows
<1> QED
  BY <1>1, <1>2, <1>3, BlankRow, Counts, TickStep DEF IInv, TypeOK

\* A count is written into a failed row, and the beat goes on.
LEMMA CountStep ==
    ASSUME IInv, NEW i \in FailedRows, NEW n \in 0 .. MaxRetries,
           rows' = [rows EXCEPT ![i].retries = n],
           UNCHANGED <<job, queue, task, recent, calm>>,
           tick' \in Work, tick'.pc \in {"idle", "enqueue", "count"},
           tick'.pc # "idle" => tick'.copy.retries < MaxRetries, TickCounted',
           manual' \in Work, autos' \in Nat, lost' \in Nat,
           autos' <= n + lost'
    PROVE  IInv'
<1> DEFINE new == [rows[i] EXCEPT !.retries = n]
<1>1. rows \in Seq(Row) /\ i \in 1 .. Len(rows) /\ rows[i] \in Row
      /\ DOMAIN rows = 1 .. Len(rows) /\ rows[i].status = "generation_failed"
  BY RowsDomain DEF IInv, TypeOK, FailedRows
<1>2. new \in Row /\ new.retries = n /\ new.status = rows[i].status
  BY <1>1, RowCounted
<1>3. rows' = [rows EXCEPT ![i] = new]
  OBVIOUS
<1> HIDE DEF new
<1>4. /\ rows' \in Seq(Row) /\ Len(rows') = Len(rows) /\ DOMAIN rows' = DOMAIN rows
      /\ rows'[i] = new /\ \A j \in 1 .. Len(rows) : j # i => rows'[j] = rows[j]
  BY <1>1, <1>2, <1>3, RowWritten
<1>5. TypeOK'
  BY <1>4 DEF IInv, TypeOK
<1>6. HandsOn'
  BY <1>4 DEF IInv, HandsOn
<1>7. \A j \in DOMAIN rows : rows'[j].status = rows[j].status
  BY <1>1, <1>2, <1>4
<1>8. IndexAllows(rows')
  BY <1>1, <1>4, <1>7, SameStatuses DEF IInv
<1>9. RowsKeepTheirJob'
  BY <1>1 DEF IInv, RowsKeepTheirJob
<1>10. RetriesCounted'
  <2>1. FailedRows' = FailedRows
    BY <1>4, <1>7 DEF FailedRows
  <2>2. \A j \in FailedRows : j = i
    BY OneFailed DEF IInv
  <2>3. n \in Nat
    OBVIOUS
  <2> QED
    BY <1>2, <1>4, <2>1, <2>2, <2>3 DEF RetriesCounted
<1> QED
  BY <1>5, <1>6, <1>8, <1>9, <1>10 DEF IInv, IndexAllows

LEMMA TickCountStep ==
    ASSUME IInv, TickCount
    PROVE  IInv'
<1> DEFINE i == tick.item
           n == tick.copy.retries + 1
<1>1. tick.pc = "count" /\ tick' = Idle
      /\ UNCHANGED <<job, queue, task, manual, recent, calm, autos>>
  BY DEF TickCount
<1>2. n \in 0 .. MaxRetries /\ autos <= n + lost
  <2>1. tick.copy.retries < MaxRetries
    BY <1>1 DEF IInv, HandsOn
  <2>2. autos <= tick.copy.retries + lost + 1
    BY <1>1 DEF IInv, TickCounted
  <2> QED
    BY <2>1, <2>2, Counts, RetriesAssumption DEF IInv
<1>3. TickCounted'
  BY <1>1, BlankRow DEF TickCounted
<1>4. CASE i \in FailedRows
  <2>1. /\ rows' = [rows EXCEPT ![i].retries = n]
        /\ lost' = lost + Overwritten(tick.copy, rows[i], [rows[i] EXCEPT !.retries = n])
    BY <1>4 DEF TickCount
  <2>2. rows[i] \in Row /\ tick.copy \in Row
    BY <1>4, Counts DEF IInv, TypeOK, Work
  <2>3. [rows[i] EXCEPT !.retries = n] \in Row
    BY <1>2, <2>2, RowCounted
  <2>4. Overwritten(tick.copy, rows[i], [rows[i] EXCEPT !.retries = n]) \in Nat
    BY <2>2, <2>3, LossCounted
  <2>5. lost' \in Nat /\ lost' >= lost
    BY <2>1, <2>4, Counts DEF IInv
  <2>6. autos' \in Nat /\ autos' <= n + lost'
    BY <1>1, <1>2, <2>5, Counts DEF IInv
  <2> QED
    BY <1>1, <1>2, <1>3, <1>4, <2>1, <2>5, <2>6, BlankRow, CountStep DEF IInv, TypeOK
<1>5. CASE i \notin FailedRows
  <2>1. rows' = rows /\ lost' = lost + 1
    BY <1>5 DEF TickCount
  <2>2. RetriesCounted'
    BY <1>1, <2>1, BlankRow, Counts DEF IInv, RetriesCounted, FailedRows
  <2> QED
    BY <1>1, <1>3, <2>1, <2>2, BlankRow, Counts, TickStep DEF IInv, TypeOK
<1> QED
  BY <1>4, <1>5

LEMMA ManualResetStep ==
    ASSUME IInv, ManualReset
    PROVE  IInv'
<1>1. PICK i \in FailedRows : /\ manual' = [pc |-> "enqueue", item |-> i, copy |-> Blank]
                              /\ rows' = [rows EXCEPT ![i].retries = 0]
  BY DEF ManualReset
<1>2. autos' = 0 /\ lost' = 0 /\ UNCHANGED <<job, queue, task, tick, recent, calm>>
  BY DEF ManualReset
<1>3. i \in 0 .. MaxRows
  BY RowsDomain, RetriesAssumption DEF IInv, TypeOK, FailedRows
<1>4. manual' \in Work
  BY <1>1, <1>3, BlankRow DEF Work
<1>5. TickCounted'
  BY <1>2, Counts DEF IInv, TickCounted
<1>6. 0 \in 0 .. MaxRetries
  BY RetriesAssumption
<1>7. autos' \in Nat /\ lost' \in Nat /\ autos' <= 0 + lost'
  BY <1>2
<1>8. /\ tick' \in Work /\ tick'.pc \in {"idle", "enqueue", "count"}
      /\ tick'.pc # "idle" => tick'.copy.retries < MaxRetries
  BY <1>2 DEF IInv, TypeOK, HandsOn
<1> QED
  BY <1>1, <1>2, <1>4, <1>5, <1>6, <1>7, <1>8, CountStep

-----------------------------------------------------------------------------
(* The review queue and the job *)

LEMMA DecideStep ==
    ASSUME IInv, NEW i \in DOMAIN rows, Decide(i)
    PROVE  IInv'
<1>1. PICK d \in Decisions : /\ rows[i].status = d[1]
                             /\ IndexAllows([rows EXCEPT ![i] = [status |-> d[2], retries |-> 0]])
                             /\ rows' = [rows EXCEPT ![i] = [status |-> d[2], retries |-> 0]]
  BY DEF Decide
<1> DEFINE new == [status |-> d[2], retries |-> 0]
<1>2. new \in Row /\ new.status # "generation_failed"
  BY RetriesAssumption DEF Decisions, Row, Statuses
<1> HIDE DEF new
<1>3. rows \in Seq(Row) /\ i \in 1 .. Len(rows) /\ DOMAIN rows = 1 .. Len(rows)
  BY RowsDomain DEF IInv, TypeOK
<1>4. rows' = [rows EXCEPT ![i] = new]
  BY <1>1 DEF new
<1>5. /\ rows' \in Seq(Row) /\ Len(rows') = Len(rows) /\ DOMAIN rows' = DOMAIN rows
      /\ rows'[i] = new /\ \A j \in 1 .. Len(rows) : j # i => rows'[j] = rows[j]
  BY <1>2, <1>3, <1>4, RowWritten
<1>6. UNCHANGED <<job, queue, task, tick, manual, recent, calm, autos, lost>>
  BY DEF Decide
<1>7. TypeOK' /\ HandsOn'
  BY <1>5, <1>6 DEF IInv, TypeOK, HandsOn
<1>8. RowsKeepTheirJob'
  BY <1>3, <1>6, EmptySeq DEF IInv, RowsKeepTheirJob
<1>9. RetriesCounted'
  <2>1. \A j \in FailedRows' : j \in FailedRows /\ rows'[j] = rows[j]
    BY <1>2, <1>3, <1>5 DEF FailedRows
  <2> QED
    BY <1>6, <2>1 DEF IInv, RetriesCounted
<1>10. TickCounted'
  BY <1>6 DEF IInv, TickCounted
<1> QED
  BY <1>1, <1>7, <1>8, <1>9, <1>10 DEF IInv, IndexAllows

LEMMA JobStep ==
    ASSUME IInv, Archive \/ Unarchive \/ AutoArchive \/ Retention
    PROVE  IInv'
<1>1. /\ job' \in {"listed", "archived", "deleted"}
      /\ job' = "deleted" => rows = <<>>
      /\ UNCHANGED <<rows, queue, task, tick, manual, recent, calm, autos, lost>>
  BY DEF Archive, Unarchive, AutoArchive, Retention, MoveJob, Unreferenced
<1> QED
  BY <1>1, QuietStep DEF IInv, TypeOK

LEMMA OtherStep ==
    ASSUME IInv, Age \/ ManualEnqueue \/ \E w \in Workers : Refuse(w)
    PROVE  IInv'
<1>1. CASE Age
  BY <1>1, QuietStep DEF Age, IInv, TypeOK, RowsKeepTheirJob
<1>2. CASE ManualEnqueue
  <2>1. queue' \in Nat
    BY <1>2 DEF ManualEnqueue, IInv, TypeOK
  <2> QED
    BY <1>2, <2>1, BlankRow, QuietStep DEF ManualEnqueue, IInv, TypeOK, RowsKeepTheirJob
<1>3. CASE \E w \in Workers : Refuse(w)
  <2>1. queue' \in Nat
    BY <1>3 DEF Refuse, Take, IInv, TypeOK
  <2> QED
    BY <1>3, <2>1, QuietStep DEF Refuse, Take, IInv, TypeOK, RowsKeepTheirJob
<1> QED
  BY <1>1, <1>2, <1>3

LEMMA InvInit == Init => IInv
<1> SUFFICES ASSUME Init PROVE IInv
  OBVIOUS
<1>1. rows \in Seq(Row) /\ Len(rows) = 0 /\ DOMAIN rows = {}
  BY EmptySeq, LenProperties DEF Init
<1> QED
  BY <1>1, BlankRow, RetriesAssumption
     DEF Init, IInv, TypeOK, HandsOn, IndexAllows, RowsKeepTheirJob, RetriesCounted, FailedRows,
         TickCounted

LEMMA InvNext == IInv /\ [Next]_vars => IInv'
<1> SUFFICES ASSUME IInv, [Next]_vars PROVE IInv'
  OBVIOUS
<1>1. ASSUME NEW w \in Workers, Start(w) \/ Refuse(w) \/ Crash(w) \/ Finish(w)
      PROVE  IInv'
  BY <1>1, StartStep, OtherStep, CrashStep, DraftedStep, FailsStep DEF Finish
<1>2. CASE TickLoad \/ Beat \/ TickBrokerDown \/ TickCrash
  BY <1>2, TickLoadStep, TickEnqueueStep, TickCountStep, TickBrokerDownStep, TickCrashStep
     DEF Beat
<1>3. CASE ManualReset \/ ManualEnqueue \/ Age
  BY <1>3, ManualResetStep, OtherStep
<1>4. ASSUME NEW i \in DOMAIN rows, Decide(i)
      PROVE  IInv'
  BY <1>4, DecideStep
<1>5. CASE Archive \/ Unarchive \/ AutoArchive \/ Retention
  BY <1>5, JobStep
<1>6. CASE UNCHANGED vars
  <2>1. UNCHANGED <<job, rows, queue, task, tick, manual, recent, calm, autos, lost>>
    BY <1>6 DEF vars
  <2> QED
    BY <2>1, QuietStep DEF IInv, TypeOK, RowsKeepTheirJob
<1> QED
  BY <1>1, <1>2, <1>3, <1>4, <1>5, <1>6 DEF Next

\* The inductive invariant holds in every reachable state, whatever crashes,
\* whichever commits the index refuses, and however stale the copies are.
THEOREM Invariant == Spec => []IInv
  BY InvInit, InvNext, PTL DEF Spec

\* A job never has two live proposals (uq_proposal_queue_live_job), however
\* its generations race with each other and with a row that comes alive again.
THEOREM OneLiveProposal == Spec => []OneLiveRow
<1>1. IInv => OneLiveRow
  BY DEF IInv, IndexAllows, Live, OneLiveRow
<1> QED
  BY <1>1, Invariant, PTL

\* Retention and a generation under way never leave a row without its job.
THEOREM NoOrphanRows == Spec => []RowsKeepTheirJob
<1>1. IInv => RowsKeepTheirJob
  BY DEF IInv
<1> QED
  BY <1>1, Invariant, PTL

\* Every automatic retry is in its row's counter, is about to be, or fell to a
\* write from a stale copy, for any retry limit.
THEOREM RetriesAccounted == Spec => []RetriesCounted
<1>1. IInv => RetriesCounted
  BY DEF IInv
<1> QED
  BY <1>1, Invariant, PTL

-----------------------------------------------------------------------------
(* Decisions in a calm run *)

\* Nothing starts beside a worker that is busy.
LEMMA BusyAlone ==
    ASSUME IInv, OneBusy, calm, MayStart, NEW w \in Workers
    PROVE  task[w].pc = "idle"
  BY BlankRow DEF MayStart, Quiet

\* Writing statuses is left to the only busy worker, or happens when there is
\* none.
LEMMA OneBusyKept ==
    ASSUME IInv, OneBusy, [Next]_vars
    PROVE  OneBusy'
<1> SUFFICES ASSUME calm' PROVE OneBusy'
  BY DEF OneBusy
<1>1. calm' = calm
  BY DEF Next, vars, Start, Refuse, Take, Crash, Finish, Drafted, Fails, Commit, TickLoad, Beat,
         TickEnqueue, TickCount, TickBrokerDown, TickCrash, ManualReset, ManualEnqueue, Decide,
         Archive, Unarchive, AutoArchive, Retention, MoveJob, Age
<1>2. /\ task \in [Workers -> Work] /\ rows \in Seq(Row) /\ DOMAIN rows = 1 .. Len(rows)
      /\ \A w \in Workers : task[w].item \in 0 .. Len(rows)
  BY RowsDomain DEF IInv, TypeOK, HandsOn, Work
<1>3. ASSUME NEW w \in Workers, Start(w)
      PROVE  OneBusy'
  <2>1. PICK i \in Starts : task' = [task EXCEPT ![w] = [pc |-> "llm", item |-> i,
                                         copy |-> IF i = 0 THEN Blank ELSE rows[i]]]
    BY <1>3 DEF Start
  <2>2. rows' = rows /\ MayStart
    BY <1>3 DEF Start, Take
  <2>3. \A v \in Workers : task[v].pc = "idle"
    BY <1>1, <2>2, BusyAlone
  <2>4. \A v \in Workers : v # w => task'[v].pc = "idle"
    BY <1>2, <2>1, <2>3
  <2>5. task'[w].item = i
    BY <1>2, <2>1
  <2>6. i # 0 => rows[i].status = "generation_failed"
    BY StartsWhere DEF IInv, FailedRows
  <2> QED
    BY <2>2, <2>4, <2>5, <2>6 DEF OneBusy
<1>4. ASSUME NEW w \in Workers, task' = [task EXCEPT ![w] = Idle],
             \A v \in Workers : v # w /\ task[v].pc # "idle" /\ task[v].item # 0
                => rows'[task[v].item].status = rows[task[v].item].status
      PROVE  OneBusy'
  <2>1. task'[w].pc = "idle" /\ \A v \in Workers : v # w => task'[v] = task[v]
    BY <1>2, <1>4, BlankRow
  <2> QED
    BY <1>1, <1>4, <2>1 DEF OneBusy
<1>5. ASSUME task' = task, \A i \in DOMAIN rows : rows'[i].status = rows[i].status
      PROVE  OneBusy'
  <2>1. \A w \in Workers : task[w].item # 0 => task[w].item \in DOMAIN rows
    BY <1>2
  <2> QED
    BY <1>1, <1>5, <2>1 DEF OneBusy
<1>6. ASSUME NEW w \in Workers, Crash(w) \/ Finish(w)
      PROVE  OneBusy'
  <2>1. task[w].pc = "llm" /\ task' = [task EXCEPT ![w] = Idle]
    BY <1>6 DEF Crash, Finish, Drafted, Fails, Commit
  <2>2. \A v \in Workers : v # w => task[v].pc = "idle"
    BY <1>1, <2>1 DEF OneBusy
  <2> QED
    BY <1>4, <2>1, <2>2
<1>7. ASSUME NEW i \in FailedRows, NEW n \in 0 .. MaxRetries, task' = task,
             rows' = [rows EXCEPT ![i].retries = n]
      PROVE  OneBusy'
  <2>1. i \in 1 .. Len(rows) /\ rows[i] \in Row
    BY <1>2, RowsDomain DEF FailedRows
  <2>2. [rows[i] EXCEPT !.retries = n].status = rows[i].status
    BY <2>1, RowCounted
  <2>3. \A j \in DOMAIN rows : rows'[j].status = rows[j].status
    BY <1>2, <1>7, <2>1, <2>2
  <2> QED
    BY <1>5, <1>7, <2>3
<1>8. CASE TickCount
  <2>1. tick.pc = "count" /\ task' = task
    BY <1>8 DEF TickCount
  <2>2. tick.copy.retries < MaxRetries
    BY <2>1 DEF IInv, HandsOn
  <2>3. tick.copy.retries + 1 \in 0 .. MaxRetries
    BY <2>2, Counts, RetriesAssumption DEF IInv
  <2>4. CASE tick.item \in FailedRows
    <3>1. rows' = [rows EXCEPT ![tick.item].retries = tick.copy.retries + 1]
      BY <1>8, <2>4 DEF TickCount
    <3> QED
      BY <1>7, <2>1, <2>3, <2>4, <3>1
  <2>5. CASE tick.item \notin FailedRows
    BY <1>5, <1>8, <2>1, <2>5 DEF TickCount
  <2> QED
    BY <2>4, <2>5
<1>9. CASE ManualReset
  <2>1. 0 \in 0 .. MaxRetries /\ task' = task
    BY <1>9, RetriesAssumption DEF ManualReset
  <2> QED
    BY <1>7, <1>9, <2>1 DEF ManualReset
<1>10. ASSUME NEW i \in DOMAIN rows, Decide(i)
       PROVE  OneBusy'
  <2>1. \A w \in Workers : task[w].pc = "idle"
    BY <1>1, <1>10, BusyAlone DEF Decide
  <2> QED
    BY <1>10, <2>1 DEF Decide, OneBusy
<1>11. CASE \/ \E w \in Workers : Refuse(w)
            \/ TickLoad \/ TickEnqueue \/ TickBrokerDown \/ TickCrash \/ ManualEnqueue
            \/ Archive \/ Unarchive \/ AutoArchive \/ Retention \/ Age \/ UNCHANGED vars
  <2>1. rows' = rows /\ task' = task
    BY <1>11 DEF Refuse, Take, TickLoad, TickEnqueue, TickBrokerDown, TickCrash, ManualEnqueue,
                 Archive, Unarchive, AutoArchive, Retention, MoveJob, Age, vars
  <2> QED
    BY <1>5, <2>1
<1> QED
  BY <1>3, <1>6, <1>8, <1>9, <1>10, <1>11 DEF Next, Beat

\* A step that takes a decision back leaves the workers as they are: it is the
\* reviewer's.
LEMMA DecisionKept ==
    ASSUME IInv, OneBusy, [Next]_vars, calm
    PROVE  KeepsDecision
<1> SUFFICES ASSUME NEW i \in DOMAIN rows, rows[i].status \in Settled,
                    rows'[i].status = "pending_review", task' # task
             PROVE  FALSE
  BY DEF KeepsDecision
<1>1. rows[i].status # "pending_review" /\ rows[i].status # "generation_failed"
  BY DEF Settled
<1>2. PICK w \in Workers : Start(w) \/ Crash(w) \/ Finish(w)
  BY DEF Next, vars, Refuse, TickLoad, Beat, TickEnqueue, TickCount, TickBrokerDown, TickCrash,
         ManualReset, ManualEnqueue, Decide, Archive, Unarchive, AutoArchive, Retention, MoveJob,
         Age
<1>3. rows' # rows
  BY <1>1
<1>4. Finish(w)
  BY <1>2, <1>3 DEF Start, Take, Crash
<1>5. task[w].pc = "llm"
  BY <1>4 DEF Finish, Drafted, Fails, Commit
<1>6. task[w].item # 0 => rows[task[w].item].status = "generation_failed"
  BY <1>5 DEF OneBusy
<1>7. PICK new : Commit(w, new)
  BY <1>4 DEF Finish, Drafted, Fails
<1>8. rows' = IF task[w].item = 0 THEN Append(rows, new) ELSE [rows EXCEPT ![task[w].item] = new]
  BY <1>3, <1>7 DEF Commit
<1>9. rows \in Seq(Row) /\ DOMAIN rows = 1 .. Len(rows) /\ Len(rows) \in Nat
  BY RowsDomain DEF IInv, TypeOK
<1>10. i # task[w].item
  BY <1>1, <1>6, <1>9
<1>11. rows'[i] = rows[i]
  BY <1>8, <1>9, <1>10
<1> QED
  BY <1>1, <1>11

\* While no step overlaps another, a row that was decided on goes back to
\* review only by a revert of its approval.
THEOREM DecisionsStand == Spec => DecisionStandsAlone
<1>1. Init => OneBusy
  BY BlankRow DEF Init, OneBusy
<1>2. Spec => []OneBusy
  BY <1>1, Invariant, OneBusyKept, PTL DEF Spec
<1>3. IInv /\ OneBusy /\ [Next]_vars => [calm => KeepsDecision]_vars
  BY DecisionKept
<1> QED
  BY <1>2, <1>3, Invariant, PTL DEF Spec, DecisionStandsAlone

-----------------------------------------------------------------------------
(***************************************************************************)
(* One draft, for every job, rate card, template and answer: the bid is    *)
(* within the client's budget, bulk approval passes nothing the pipeline   *)
(* distrusts, and the openings take turns.                                 *)
(*                                                                         *)
(* The flag of a draft is written as the difference to a loaded copy.  It  *)
(* is right because, while generations do not overlap, the one under way   *)
(* holds the row as it is (Copies); a draft that waits for review without  *)
(* a flag is then one the filter and the confidence passed (Judged).       *)
(***************************************************************************)
Pcs == {"idle", "analyze", "write", "look", "fill", "draw", "commit"}

Trusted(draft, for) ==
    draft.raw \cap Internals(for) = {} /\ (for = "row" => ~draft.weak)

\* A draft that was passed in bulk, or still can be, is trusted.
Judged(draft, for) ==
    /\ draft.by = "bulk" => Trusted(draft, for)
    /\ draft.status = "pending_review" /\ ~draft.needs_review => Trusted(draft, for)

Copies ==
    \A w \in Writers :
       gen[w] # NoGen =>
          /\ \A v \in Writers \ {w} : gen[v] = NoGen
          /\ gen[w].for = "row" =>
                /\ row.status \in {"none", "generation_failed"}
                /\ gen[w].fresh <=> row.status = "none"
                /\ gen[w].copy = row.needs_review

Trust == ~world.overlap => Copies /\ Judged(row, "row") /\ Judged(child, "child")

DraftInv == DraftingTypeOK /\ BidWithinBudget /\ Trust

-----------------------------------------------------------------------------
(* The bid                                                                 *)

LEMMA Amounts ==
    ASSUME NEW want \in Job, NEW rate \in Rate
    PROVE  Estimate(want, rate) \in Int
<1>1. Quarters(want) \in Int
  <2>1. want.complexity \in Int
    BY DEF Job
  <2> QED
    BY <2>1 DEF Quarters, Lower
<1>2. (IF rate.found /\ rate.hourly > 0 THEN rate.hourly ELSE DefaultHourly) \in Int
  BY DEF Rate, DefaultHourly
<1>3. 30 + want.complexity \in Int /\ rate.floor * Unit \in Int
  BY DEF Job, Rate, Unit
<1>4. ASSUME NEW hourly \in Int
      PROVE  Quarters(want) * hourly * (30 + want.complexity) * 10 \in Int
  BY <1>1, <1>3
<1> QED
  BY <1>2, <1>3, <1>4 DEF Estimate, Upper

LEMMA NudgedAmount ==
    ASSUME NEW amount \in Int, NEW wins \in [count : Nat, mean : Nat]
    PROVE  Nudged(amount, wins) \in Int
  BY DEF Nudged, Lower, Upper, Unit

LEMMA WithinMaximum ==
    ASSUME NEW amount \in Int, NEW max \in Nat
    PROVE  /\ Cents(Capped(amount, max)) \in Int
           /\ max > 0 => Cents(Capped(amount, max)) <= max
<1>1. Capped(amount, max) \in Int /\ (max > 0 => Capped(amount, max) <= max * 1200)
  BY DEF Capped, Unit
<1>2. ASSUME NEW a \in Int
      PROVE  Cents(a) \in Int /\ (a <= max * 1200 => Cents(a) <= max)
  BY DEF Cents, Unit
<1> QED
  BY <1>1, <1>2

LEMMA BidCapped ==
    ASSUME NEW want \in Job, NEW rate \in Rate, NEW wins \in [count : Nat, mean : Nat]
    PROVE  /\ Bid(want, rate, wins) \in Int
           /\ want.max > 0 => Bid(want, rate, wins) <= want.max
<1>1. /\ want.max \in Nat /\ want.min \in Nat /\ want.hourly \in BOOLEAN /\ want.fiverr \in BOOLEAN
      /\ rate.hourly \in Nat /\ rate.floor \in Nat
  BY DEF Job, Rate
<1>2. /\ HourlyBid(want, rate) \in Int
      /\ want.max > 0 => HourlyBid(want, rate) <= want.max
  <2>1. rate.hourly * Unit \in Int
    BY <1>1 DEF Unit
  <2>2. /\ Cents(Capped(rate.hourly * Unit, want.max)) \in Int
        /\ want.max > 0 => Cents(Capped(rate.hourly * Unit, want.max)) <= want.max
    BY <1>1, <2>1, WithinMaximum
  <2>3. \/ HourlyBid(want, rate) = -1
        \/ HourlyBid(want, rate) = Cents(Capped(rate.hourly * Unit, want.max))
    BY DEF HourlyBid, NoBid
  <2> QED
    BY <1>1, <2>2, <2>3
<1>3. /\ OfferBid(want, rate) \in Int
      /\ want.max > 0 => OfferBid(want, rate) <= want.max
  <2> DEFINE price == IF rate.found /\ rate.floor > 0 THEN rate.floor
                      ELSE IF want.min > 0 THEN want.min ELSE DefaultHourly
  <2>1. price * Unit \in Int
    BY <1>1 DEF Unit, DefaultHourly
  <2>2. OfferBid(want, rate) = Cents(Capped(price * Unit, want.max))
    BY DEF OfferBid
  <2> HIDE DEF price
  <2> QED
    BY <1>1, <2>1, <2>2, WithinMaximum
<1>4. /\ FixedBid(want, rate, wins) \in Int
      /\ want.max > 0 => FixedBid(want, rate, wins) <= want.max
  <2> DEFINE amount == IF rate.found THEN Nudged(Estimate(want, rate), wins) ELSE Estimate(want, rate)
  <2>1. amount \in Int
    BY Amounts, NudgedAmount
  <2>2. FixedBid(want, rate, wins) = Cents(Capped(amount, want.max))
    BY DEF FixedBid
  <2> HIDE DEF amount
  <2> QED
    BY <1>1, <2>1, <2>2, WithinMaximum
<1> QED
  BY <1>1, <1>2, <1>3, <1>4 DEF Bid

-----------------------------------------------------------------------------
(* The text                                                                *)

LEMMA Texts ==
    ASSUME NEW text \in Text, NEW internals
    PROVE  /\ Filtered(text, internals).text \in Text
           /\ Filtered(text, internals).warning \in BOOLEAN
           /\ ~Filtered(text, internals).warning => text \cap internals = {}
           /\ Humanized(text) \in Text
<1>1. /\ Filtered(text, internals).text \in Text
      /\ Filtered(text, internals).warning \in BOOLEAN
      /\ ~Filtered(text, internals).warning => text \cap internals = {}
  BY DEF Filtered, Text
<1>2. Humanized(text) \in Text
  BY DEF Humanized, Text, Kinds
<1> QED
  BY <1>1, <1>2

LEMMA WorldTyped ==
    ASSUME DraftingTypeOK
    PROVE  /\ world.job \in Job /\ world.rate \in Rate
           /\ world.wins.count \in Nat /\ world.wins.mean \in Nat
           /\ Rendered(world.pitch) \in Text /\ Composed \in Text
           /\ \A t \in world.answers : t \in Text
           /\ \A s \in world.needs \cup {world.job.have \cup world.job.terms} : s \subseteq Skills
           /\ world.overlap \in BOOLEAN
<1>1. /\ world.job \in Job /\ world.rate \in Rate
      /\ world.wins.count \in Nat /\ world.wins.mean \in Nat
      /\ world.pitch \subseteq {"plain", "leak", "rate"} /\ world.overlap \in BOOLEAN
      /\ \A t \in world.answers : t \subseteq Kinds
      /\ \A s \in world.needs : s \subseteq Skills
  BY WorldsAssumption DEF DraftingTypeOK
<1>2. Rendered(world.pitch) \in Text /\ Composed \in Text
  BY <1>1 DEF Rendered, Composed, Text, Kinds
<1>3. world.job.have \cup world.job.terms \subseteq Skills
  BY <1>1 DEF Job
<1> QED
  BY <1>1, <1>2, <1>3 DEF Text

\* A package is well typed, within the budget, and flagged unless it is trusted.
LEMMA Packed ==
    ASSUME DraftingTypeOK, NEW w \in Writers
    PROVE  /\ Package(w) \in Draft
           /\ Package(w).status = "pending_review" /\ Package(w).by = "nobody"
           /\ ~Package(w).needs_review => Trusted(Package(w), gen[w].for)
           /\ gen[w].for = "row" /\ world.job.max > 0 => Package(w).bid <= world.job.max
<1> DEFINE g        == gen[w]
           filtered == Filtered(g.raw, Internals(g.for))
           weak     == g.for = "row" /\ Weak(g.needs, g.llm)
           bid      == IF g.for = "row" THEN Bid(world.job, world.rate, world.wins) ELSE NoBid
           past     == IF g.for = "row" THEN weak ELSE row.weak
<1>1. g.raw \in Text /\ g.for \in {"row", "child"} /\ row.weak \in BOOLEAN
  BY DEF DraftingTypeOK, Gen, Draft
<1>2. /\ filtered.text \in Text /\ filtered.warning \in BOOLEAN
      /\ Humanized(filtered.text) \in Text
      /\ ~filtered.warning => g.raw \cap Internals(g.for) = {}
  BY <1>1, Texts
<1>3. weak \in BOOLEAN
  BY DEF Weak
<1>4. bid \in Int /\ (g.for = "row" /\ world.job.max > 0 => bid <= world.job.max)
  <2>1. [count |-> world.wins.count, mean |-> world.wins.mean] \in [count : Nat, mean : Nat]
    BY WorldTyped
  <2>2. Bid(world.job, world.rate, world.wins)
           = Bid(world.job, world.rate, [count |-> world.wins.count, mean |-> world.wins.mean])
    BY DEF Bid, FixedBid, Nudged
  <2> QED
    BY <2>1, <2>2, WorldTyped, BidCapped DEF NoBid
<1>5. Package(w) = [status |-> "pending_review", text |-> Humanized(filtered.text),
                    needs_review |-> weak \/ filtered.warning, by |-> "nobody",
                    bid |-> bid, raw |-> g.raw, weak |-> past]
  BY DEF Package
<1>6. past \in BOOLEAN /\ (g.for = "row" => past = weak)
  BY <1>1, <1>3
<1>7. weak \/ filtered.warning \in BOOLEAN
  BY <1>2, <1>3
<1> HIDE DEF filtered, weak, bid, past
<1>8. Package(w) \in Draft
  BY <1>1, <1>2, <1>4, <1>5, <1>6, <1>7 DEF Draft
<1> QED
  BY <1>1, <1>2, <1>4, <1>5, <1>6, <1>8 DEF Trusted

-----------------------------------------------------------------------------
(* The steps                                                               *)

LEMMA DraftInit ==
    ASSUME DraftingInit
    PROVE  DraftInv
<1>1. NoGen \in Gen
  BY DEF NoGen, Gen, Text
<1>2. NoDraft \in Draft /\ NoDraft.bid = -1 /\ NoDraft.by = "nobody" /\ NoDraft.status = "none"
  BY DEF NoDraft, NoBid, Draft, Text
<1>3. row \in Draft /\ row.bid = -1 /\ row.by = "nobody" /\ row.status # "pending_review"
  BY <1>2 DEF DraftingInit, Draft
<1>4. DraftingTypeOK
  BY <1>1, <1>2, <1>3 DEF DraftingInit, DraftingTypeOK
<1>5. BidWithinBudget
  <2>1. world.job.max \in Nat
    BY <1>4, WorldTyped DEF Job
  <2> QED
    BY <1>3, <2>1 DEF BidWithinBudget
<1>6. Trust
  BY <1>2, <1>3 DEF DraftingInit, Trust, Copies, Judged
<1> QED
  BY <1>4, <1>5, <1>6 DEF DraftInv

\* A generation goes on, or ends: the rows stay.
LEMMA Onward ==
    ASSUME DraftInv, NEW w \in Writers, NEW next \in Gen,
           gen' = [gen EXCEPT ![w] = next], gen[w] # NoGen,
           next = NoGen \/ (/\ next.for = gen[w].for /\ next.fresh = gen[w].fresh
                           /\ next.copy = gen[w].copy),
           UNCHANGED <<world, row, child>>,
           pool' \subseteq Openings, drawn' \in [openings : SUBSET Openings, raced : BOOLEAN]
    PROVE  DraftInv'
<1>1. gen' \in [Writers -> Gen] /\ gen'[w] = next /\ \A v \in Writers \ {w} : gen'[v] = gen[v]
  BY DEF DraftInv, DraftingTypeOK
<1>2. DraftingTypeOK'
  BY <1>1 DEF DraftInv, DraftingTypeOK
<1>3. Copies => Copies'
  BY <1>1 DEF Copies
<1> QED
  BY <1>2, <1>3 DEF DraftInv, BidWithinBudget, Trust, Judged, Trusted, Internals

\* A generation begins, with the row as it is.
LEMMA Begun ==
    ASSUME DraftInv, NEW w \in Writers, NEW next \in Gen,
           gen' = [gen EXCEPT ![w] = next], gen[w] = NoGen, MayGenerate,
           next.for = "row" => /\ row.status \in {"none", "generation_failed"}
                               /\ next.fresh <=> row.status = "none"
                               /\ next.copy = row.needs_review,
           UNCHANGED <<world, row, child, pool, drawn>>
    PROVE  DraftInv'
<1>1. gen' \in [Writers -> Gen] /\ gen'[w] = next /\ \A v \in Writers \ {w} : gen'[v] = gen[v]
  BY DEF DraftInv, DraftingTypeOK
<1>2. DraftingTypeOK'
  BY <1>1 DEF DraftInv, DraftingTypeOK
<1>3. ~world.overlap => Copies'
  <2>1. ASSUME ~world.overlap
        PROVE  \A v \in Writers : gen[v] = NoGen
    BY <2>1 DEF MayGenerate
  <2> QED
    BY <1>1, <2>1 DEF Copies
<1> QED
  BY <1>2, <1>3 DEF DraftInv, BidWithinBudget, Trust, Judged, Trusted, Internals

LEMMA StartDraftStep ==
    ASSUME DraftInv, NEW w \in Writers, StartDraft(w) \/ StartFollowUp(w)
    PROVE  DraftInv'
<1>1. CASE StartDraft(w)
  <2> DEFINE next == [NoGen EXCEPT !.pc = "analyze", !.fresh = row.status = "none",
                                  !.copy = row.needs_review]
  <2>1. /\ next \in Gen /\ (next.fresh <=> row.status = "none")
        /\ next.copy = row.needs_review
    BY DEF DraftInv, DraftingTypeOK, Draft, NoGen, Gen, Text
  <2>2. /\ gen' = [gen EXCEPT ![w] = next] /\ gen[w] = NoGen /\ MayGenerate
        /\ row.status \in {"none", "generation_failed"}
        /\ UNCHANGED <<world, row, child, pool, drawn>>
    BY <1>1 DEF StartDraft
  <2> HIDE DEF next
  <2> QED
    BY <2>1, <2>2, Begun
<1>2. CASE StartFollowUp(w)
  <2> DEFINE next == [NoGen EXCEPT !.pc = "write", !.for = "child"]
  <2>1. next \in Gen /\ next.for = "child"
    BY DEF NoGen, Gen, Text
  <2>2. /\ gen' = [gen EXCEPT ![w] = next] /\ gen[w] = NoGen /\ MayGenerate
        /\ UNCHANGED <<world, row, child, pool, drawn>>
    BY <1>2 DEF StartFollowUp
  <2> HIDE DEF next
  <2> QED
    BY <2>1, <2>2, Begun
<1> QED
  BY <1>1, <1>2

LEMMA AnalyzeStep ==
    ASSUME DraftInv, NEW w \in Writers, Analyze(w)
    PROVE  DraftInv'
<1>1. PICK needs \in world.needs \cup {world.job.have \cup world.job.terms} :
         gen' = [gen EXCEPT ![w].pc = "write", ![w].needs = needs]
  BY DEF Analyze
<1> DEFINE next == [gen[w] EXCEPT !.pc = "write", !.needs = needs]
<1>2. gen[w] \in Gen /\ needs \in SUBSET Skills
  BY WorldTyped DEF DraftInv, DraftingTypeOK
<1>3. next \in Gen
  BY <1>2 DEF Gen
<1>4. next.for = gen[w].for /\ next.fresh = gen[w].fresh /\ next.copy = gen[w].copy
  BY <1>2 DEF Gen
<1>5. gen' = [gen EXCEPT ![w] = next]
  BY <1>1 DEF DraftInv, DraftingTypeOK
<1>6. gen[w] # NoGen /\ UNCHANGED <<world, row, child, pool, drawn>>
  BY DEF Analyze, NoGen
<1> HIDE DEF next
<1> QED
  BY <1>3, <1>4, <1>5, <1>6, Onward DEF DraftInv, DraftingTypeOK

LEMMA WriteStep ==
    ASSUME DraftInv, NEW w \in Writers, Write(w)
    PROVE  DraftInv'
<1>1. PICK text \in Usable(gen[w].for) :
         gen' = [gen EXCEPT ![w].pc = "look", ![w].llm = TRUE, ![w].raw = text]
  BY DEF Write
<1> DEFINE next == [gen[w] EXCEPT !.pc = "look", !.llm = TRUE, !.raw = text]
<1>2. gen[w] \in Gen /\ text \in Text
  BY WorldTyped DEF DraftInv, DraftingTypeOK, Usable
<1>3. next \in Gen
  BY <1>2 DEF Gen
<1>4. next.for = gen[w].for /\ next.fresh = gen[w].fresh /\ next.copy = gen[w].copy
  BY <1>2 DEF Gen
<1>5. gen' = [gen EXCEPT ![w] = next]
  BY <1>1 DEF DraftInv, DraftingTypeOK
<1>6. gen[w] # NoGen /\ UNCHANGED <<world, row, child, pool, drawn>>
  BY DEF Write, NoGen
<1> HIDE DEF next
<1> QED
  BY <1>3, <1>4, <1>5, <1>6, Onward DEF DraftInv, DraftingTypeOK

LEMMA WriteOfflineStep ==
    ASSUME DraftInv, NEW w \in Writers, WriteOffline(w)
    PROVE  DraftInv'
<1> DEFINE composing == gen[w].for = "row" /\ world.pitch = {}
           text == IF gen[w].for = "row" /\ world.pitch # {} THEN Rendered(world.pitch)
                   ELSE Composed
           next == [gen[w] EXCEPT !.pc = "look", !.composing = composing, !.raw = text]
<1>1. gen[w] \in Gen /\ text \in Text /\ composing \in BOOLEAN
  BY WorldTyped DEF DraftInv, DraftingTypeOK
<1>2. /\ gen' = [gen EXCEPT ![w].pc = "look", ![w].composing = composing, ![w].raw = text]
      /\ UNCHANGED <<world, row, child, pool, drawn>> /\ gen[w].pc = "write"
  BY Zenon DEF WriteOffline
<1> HIDE DEF composing, text
<1>5. gen' = [gen EXCEPT ![w] = next]
  BY <1>2 DEF DraftInv, DraftingTypeOK
<1>6. gen[w] # NoGen
  BY <1>2 DEF NoGen
<1>3. next \in Gen
  BY <1>1 DEF Gen
<1>4. next.for = gen[w].for /\ next.fresh = gen[w].fresh /\ next.copy = gen[w].copy
  BY <1>1 DEF Gen
<1> HIDE DEF next
<1> QED
  BY <1>2, <1>3, <1>4, <1>5, <1>6, Onward DEF DraftInv, DraftingTypeOK

\* The steps that touch the pool only.
LEMMA PoolStep ==
    ASSUME DraftInv, NEW w \in Writers,
           LookForPool(w) \/ FillPool(w) \/ DrawOpening(w)
    PROVE  DraftInv'
<1>1. gen[w] \in Gen /\ gen[w] # NoGen
  BY DEF DraftInv, DraftingTypeOK, LookForPool, FillPool, DrawOpening, NoGen
<1>2. UNCHANGED <<world, row, child>>
  BY DEF LookForPool, FillPool, DrawOpening
<1>3. pool' \subseteq Openings /\ drawn' \in [openings : SUBSET Openings, raced : BOOLEAN]
  <2>1. pool \subseteq Openings /\ drawn \in [openings : SUBSET Openings, raced : BOOLEAN]
    BY DEF DraftInv, DraftingTypeOK
  <2>2. CASE LookForPool(w)
    BY <2>1, <2>2 DEF LookForPool
  <2>3. CASE FillPool(w)
    BY <2>1, <2>3 DEF FillPool
  <2>4. CASE DrawOpening(w)
    BY <2>1, <2>4 DEF DrawOpening
  <2> QED
    BY <2>2, <2>3, <2>4
<1>4. ASSUME NEW pc \in Pcs, Goto(w, pc)
      PROVE  DraftInv'
  <2> DEFINE next == [gen[w] EXCEPT !.pc = pc]
  <2>1. next \in Gen
    BY <1>1 DEF Gen, Pcs
  <2>2. next.for = gen[w].for /\ next.fresh = gen[w].fresh /\ next.copy = gen[w].copy
    BY <1>1 DEF Gen
  <2>3. gen' = [gen EXCEPT ![w] = next]
    BY <1>4 DEF Goto
  <2> HIDE DEF next
  <2> QED
    BY <1>1, <1>2, <1>3, <2>1, <2>2, <2>3, Onward
<1>5. ASSUME AfterDraw(w)
      PROVE  DraftInv'
  <2> DEFINE pc == IF gen[w].composing THEN "look" ELSE "commit"
             next == [gen[w] EXCEPT !.pc = pc, !.composing = FALSE]
  <2>1. pc \in Pcs
    BY DEF Pcs
  <2>2. gen' = [gen EXCEPT ![w] = next]
    BY <1>5 DEF AfterDraw
  <2> HIDE DEF pc
  <2>3. next \in Gen
    BY <1>1, <2>1 DEF Gen, Pcs
  <2>4. next.for = gen[w].for /\ next.fresh = gen[w].fresh /\ next.copy = gen[w].copy
    BY <1>1 DEF Gen
  <2> HIDE DEF next
  <2> QED
    BY <1>1, <1>2, <1>3, <2>2, <2>3, <2>4, Onward
<1> QED
  BY <1>4, <1>5 DEF LookForPool, FillPool, DrawOpening, Pcs

\* A generation of w ends; what it wrote is in the rows.
LEMMA Ended ==
    ASSUME DraftInv, NEW w \in Writers, End(w), gen[w] # NoGen, world' = world
    PROVE  /\ gen' \in [Writers -> Gen]
           /\ ~world.overlap => \A v \in Writers : gen'[v] = NoGen
<1>1. NoGen \in Gen
  BY DEF NoGen, Gen, Text
<1> QED
  BY <1>1 DEF DraftInv, DraftingTypeOK, End, Trust, Copies

LEMMA CommitDraftStep ==
    ASSUME DraftInv, NEW w \in Writers, CommitDraft(w)
    PROVE  DraftInv'
<1> DEFINE new  == Package(w)
           flag == IF ~gen[w].fresh /\ new.needs_review = gen[w].copy
                   THEN row.needs_review ELSE new.needs_review
<1>1. /\ gen[w] # NoGen /\ gen[w].for = "row" /\ End(w) /\ UNCHANGED <<world, child, pool, drawn>>
      /\ row' = row \/ row' = [new EXCEPT !.needs_review = flag]
  BY DEF CommitDraft, NoGen
<1>2. /\ new \in Draft /\ new.status = "pending_review" /\ new.by = "nobody"
      /\ ~new.needs_review => Trusted(new, "row")
      /\ world.job.max > 0 => new.bid <= world.job.max
  BY <1>1, Packed DEF DraftInv
<1>3. flag \in BOOLEAN /\ (Copies => flag = new.needs_review)
  BY <1>1, <1>2 DEF DraftInv, DraftingTypeOK, Draft, Copies
<1> HIDE DEF new, flag
<1> DEFINE written == [new EXCEPT !.needs_review = flag]
<1>4. /\ written \in Draft /\ written.status = "pending_review" /\ written.by = "nobody"
      /\ written.raw = new.raw /\ written.weak = new.weak /\ written.bid = new.bid
      /\ written.needs_review = flag
  BY <1>2, <1>3 DEF Draft
<1>5. row' = row \/ row' = written
  BY <1>1
<1> HIDE DEF written
<1>6. /\ gen' \in [Writers -> Gen]
      /\ ~world.overlap => \A v \in Writers : gen'[v] = NoGen
  BY <1>1, Ended
<1>7. DraftingTypeOK'
  BY <1>1, <1>4, <1>5, <1>6 DEF DraftInv, DraftingTypeOK
<1>8. BidWithinBudget'
  BY <1>1, <1>2, <1>4, <1>5 DEF DraftInv, BidWithinBudget
<1>9. Trust'
  <2>1. ~world.overlap => Copies'
    BY <1>6 DEF Copies
  <2>2. ~world.overlap => Judged(written, "row")
    BY <1>2, <1>3, <1>4 DEF DraftInv, Trust, Judged, Trusted
  <2>3. ~world.overlap => Judged(row', "row")
    BY <1>5, <2>2 DEF DraftInv, Trust
  <2>4. ~world.overlap => Judged(child', "child")
    BY <1>1 DEF DraftInv, Trust
  <2> QED
    BY <1>1, <2>1, <2>3, <2>4 DEF Trust, Judged, Trusted, Internals
<1> QED
  BY <1>7, <1>8, <1>9 DEF DraftInv

LEMMA CommitFollowUpStep ==
    ASSUME DraftInv, NEW w \in Writers, CommitFollowUp(w)
    PROVE  DraftInv'
<1> DEFINE new == Package(w)
<1>1. /\ gen[w] # NoGen /\ gen[w].for = "child" /\ End(w) /\ UNCHANGED <<world, row, pool, drawn>>
      /\ child' = new
  BY DEF CommitFollowUp, NoGen
<1>2. /\ new \in Draft /\ new.by = "nobody"
      /\ ~new.needs_review => Trusted(new, "child")
  BY <1>1, Packed DEF DraftInv
<1>3. /\ gen' \in [Writers -> Gen]
      /\ ~world.overlap => \A v \in Writers : gen'[v] = NoGen
  BY <1>1, Ended
<1> HIDE DEF new
<1>4. DraftingTypeOK'
  BY <1>1, <1>2, <1>3 DEF DraftInv, DraftingTypeOK
<1>5. Trust'
  <2>1. ~world.overlap => Copies'
    BY <1>3 DEF Copies
  <2>2. Judged(new, "child")
    BY <1>2 DEF Judged
  <2> QED
    BY <1>1, <2>1, <2>2 DEF DraftInv, Trust, Judged, Trusted, Internals
<1> QED
  BY <1>1, <1>4, <1>5 DEF DraftInv, BidWithinBudget

LEMMA FailStep ==
    ASSUME DraftInv, NEW w \in Writers, Fail(w)
    PROVE  DraftInv'
<1> DEFINE failed == [NoDraft EXCEPT !.status = "generation_failed", !.needs_review = TRUE]
<1>1. /\ gen[w] # NoGen /\ End(w) /\ UNCHANGED <<world, child, pool, drawn>>
      /\ row' = row \/ row' = failed
  BY DEF Fail, NoGen
<1>2. /\ failed \in Draft /\ failed.status = "generation_failed" /\ failed.by = "nobody"
      /\ failed.bid = -1
  <2>1. NoDraft \in Draft /\ NoDraft.bid = -1 /\ NoDraft.by = "nobody"
    BY DEF NoDraft, NoBid, Draft, Text
  <2> QED
    BY <2>1 DEF Draft
<1> HIDE DEF failed
<1>3. /\ gen' \in [Writers -> Gen]
      /\ ~world.overlap => \A v \in Writers : gen'[v] = NoGen
  BY <1>1, Ended
<1>4. DraftingTypeOK'
  BY <1>1, <1>2, <1>3 DEF DraftInv, DraftingTypeOK
<1>5. BidWithinBudget'
  <2>1. world.job.max \in Nat
    BY WorldTyped DEF DraftInv, Job
  <2> QED
    BY <1>1, <1>2, <2>1 DEF DraftInv, BidWithinBudget
<1>6. Trust'
  <2>1. ~world.overlap => Copies'
    BY <1>3 DEF Copies
  <2>2. Judged(failed, "row")
    BY <1>2 DEF Judged
  <2>3. ~world.overlap => Judged(row', "row") /\ Judged(child', "child")
    BY <1>1, <2>2 DEF DraftInv, Trust
  <2> QED
    BY <1>1, <2>1, <2>3 DEF Trust, Judged, Trusted, Internals
<1> QED
  BY <1>4, <1>5, <1>6 DEF DraftInv

\* The review judges a draft and changes nothing that it judged by.
LEMMA Reviewed ==
    ASSUME NEW draft \in Draft, draft.status = "pending_review", NEW next \in Approved(draft)
    PROVE  /\ next \in Draft /\ next.status = "approved" /\ next.bid = draft.bid
           /\ \A for \in {"row", "child"} : Judged(draft, for) => Judged(next, for)
<1>1. PICK by \in {"user", "bulk"} :
         /\ next = [draft EXCEPT !.status = "approved", !.by = by]
         /\ draft.needs_review => by = "user"
  BY DEF Approved
<1>2. /\ next \in Draft /\ next.status = "approved" /\ next.by = by /\ next.bid = draft.bid
      /\ next.raw = draft.raw /\ next.weak = draft.weak
  BY <1>1 DEF Draft
<1>3. draft.needs_review \in BOOLEAN
  BY DEF Draft
<1> QED
  BY <1>1, <1>2, <1>3 DEF Judged, Trusted

LEMMA ApproveStep ==
    ASSUME DraftInv, Approve
    PROVE  DraftInv'
<1>1. /\ row \in Draft /\ row.status = "pending_review" /\ row' \in Approved(row)
      /\ UNCHANGED <<world, child, gen, pool, drawn>>
  BY DEF Approve, DraftInv, DraftingTypeOK
<1>2. /\ row' \in Draft /\ row'.bid = row.bid
      /\ Judged(row, "row") => Judged(row', "row")
  BY <1>1, Reviewed
<1>3. Copies => Copies'
  BY <1>1 DEF Copies
<1>4. DraftingTypeOK' /\ BidWithinBudget'
  BY <1>1, <1>2 DEF DraftInv, DraftingTypeOK, BidWithinBudget
<1>5. Trust'
  <2>1. ~world.overlap => Judged(row', "row") /\ Judged(child', "child")
    BY <1>1, <1>2 DEF DraftInv, Trust
  <2> QED
    BY <1>1, <1>3, <2>1 DEF DraftInv, Trust, Judged, Trusted, Internals
<1> QED
  BY <1>4, <1>5 DEF DraftInv

LEMMA ApproveFollowUpStep ==
    ASSUME DraftInv, ApproveFollowUp
    PROVE  DraftInv'
<1>1. /\ child \in Draft /\ child.status = "pending_review" /\ child' \in Approved(child)
      /\ UNCHANGED <<world, row, gen, pool, drawn>>
  BY DEF ApproveFollowUp, DraftInv, DraftingTypeOK
<1>2. child' \in Draft /\ (Judged(child, "child") => Judged(child', "child"))
  BY <1>1, Reviewed
<1>3. Copies => Copies'
  BY <1>1 DEF Copies
<1>4. DraftingTypeOK' /\ BidWithinBudget'
  BY <1>1, <1>2 DEF DraftInv, DraftingTypeOK, BidWithinBudget
<1>5. Trust'
  <2>1. ~world.overlap => Judged(row', "row") /\ Judged(child', "child")
    BY <1>1, <1>2 DEF DraftInv, Trust
  <2> QED
    BY <1>1, <1>3, <2>1 DEF DraftInv, Trust, Judged, Trusted, Internals
<1> QED
  BY <1>4, <1>5 DEF DraftInv

LEMMA DraftNext ==
    ASSUME DraftInv, [DraftingNext]_draftingVars
    PROVE  DraftInv'
<1>1. ASSUME NEW w \in Writers,
             \/ StartDraft(w) \/ StartFollowUp(w) \/ Analyze(w) \/ Write(w) \/ WriteOffline(w)
             \/ LookForPool(w) \/ FillPool(w) \/ DrawOpening(w) \/ CommitDraft(w) \/ CommitFollowUp(w)
             \/ Fail(w)
      PROVE  DraftInv'
  BY <1>1, StartDraftStep, AnalyzeStep, WriteStep, WriteOfflineStep, PoolStep, CommitDraftStep,
     CommitFollowUpStep, FailStep
<1>2. CASE Approve \/ ApproveFollowUp
  BY <1>2, ApproveStep, ApproveFollowUpStep
<1>3. CASE UNCHANGED draftingVars
  BY <1>3 DEF draftingVars, DraftInv, DraftingTypeOK, BidWithinBudget, Trust, Copies, Judged, Trusted, Internals
<1> QED
  BY <1>1, <1>2, <1>3 DEF DraftingNext

\* A draft is well typed, affordable, and flagged unless it is trusted.
THEOREM DraftInvariant == DraftingSpec => []DraftInv
<1>1. DraftingInit => DraftInv
  BY DraftInit
<1>2. DraftInv /\ [DraftingNext]_draftingVars => DraftInv'
  BY DraftNext
<1> QED
  BY <1>1, <1>2, PTL DEF DraftingSpec

\* The amount proposed never exceeds the maximum the client stated: every
\* branch of calculate_bid caps last.
THEOREM BidsAreAffordable == DraftingSpec => []BidWithinBudget
<1>1. DraftInv => BidWithinBudget
  BY DEF DraftInv
<1> QED
  BY <1>1, DraftInvariant, PTL

\* bulk_approve passes nothing the filter or the confidence distrusts, while
\* the generations of a row do not overlap.
THEOREM BulkPassesTheTrusted == DraftingSpec => []BulkOnlyTrusted
<1>1. DraftInv => BulkOnlyTrusted
  BY DEF DraftInv, Trust, Judged, Trusted, BulkOnlyTrusted
<1> QED
  BY <1>1, DraftInvariant, PTL

\* pick_opening draws no opening a second time before all were drawn, unless
\* two processes fill the pool at once.
THEOREM OpeningsTakeTurns == DraftingSpec => []OpeningsRotate
<1> DEFINE Types == drawn \in [openings : SUBSET Openings, raced : BOOLEAN] /\ pool \subseteq Openings
<1>1. DraftingInit => Types /\ OpeningsRotate
  BY DEF DraftingInit, OpeningsRotate
<1>2. Types /\ OpeningsRotate /\ [DraftingNext]_draftingVars => Types' /\ OpeningsRotate'
  <2> SUFFICES ASSUME Types, OpeningsRotate, [DraftingNext]_draftingVars
               PROVE  Types' /\ OpeningsRotate'
    OBVIOUS
  <2>1. CASE UNCHANGED <<pool, drawn>>
    BY <2>1 DEF OpeningsRotate
  <2>2. ASSUME NEW w \in Writers, FillPool(w)
        PROVE  Types' /\ OpeningsRotate'
    BY <2>2 DEF OpeningsRotate, FillPool
  <2>3. ASSUME NEW w \in Writers, DrawOpening(w)
        PROVE  Types' /\ OpeningsRotate'
    <3>1. CASE UNCHANGED <<pool, drawn>>
      BY <3>1 DEF OpeningsRotate
    <3>2. ASSUME NEW o \in pool, pool' = pool \ {o},
                 drawn' = [drawn EXCEPT !.openings = @ \cup {o}]
          PROVE  Types' /\ OpeningsRotate'
      <4>1. drawn.openings \cup {o} \in SUBSET Openings
        OBVIOUS
      <4> QED
        BY <3>2, <4>1 DEF OpeningsRotate
    <3> QED
      BY <2>3, <3>1, <3>2 DEF DrawOpening
  <2>4. \/ UNCHANGED <<pool, drawn>>
        \/ \E w \in Writers : FillPool(w) \/ DrawOpening(w)
    BY DEF DraftingNext, draftingVars, StartDraft, StartFollowUp, Analyze, Write, WriteOffline, LookForPool, CommitDraft,
           CommitFollowUp, Fail, Approve, ApproveFollowUp
  <2> QED
    BY <2>1, <2>2, <2>3, <2>4
<1> QED
  BY <1>1, <1>2, PTL DEF DraftingSpec
=============================================================================
