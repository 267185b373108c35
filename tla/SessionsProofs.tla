--------------------------- MODULE SessionsProofs ---------------------------
(***************************************************************************)
(* A browser on a dead session is given up, for any number of workers,     *)
(* accounts, tasks, logins and mishaps, while workers are up to their      *)
(* sweeps.                                                                 *)
(***************************************************************************)
EXTENDS Sessions, SequenceTheorems, FiniteSetTheorems, WellFoundedInduction, TLAPS

Types ==
    /\ vault \in [Accounts -> Logins \cup {Nothing, Password}]
    /\ accepted \subseteq Logins /\ logins \in Logins
    /\ task \in [Tasks -> {"none", "pending", "claimed"}]
    /\ circuit \in [state : {"closed", "open", "half_open"}, age : 0 .. Cooldown + 1]
    /\ worker \in [Workers -> Worker]

\* The latest failures, the latest first, none older than counts.
Ages ==
    /\ failed \in Seq(0 .. Window) /\ Len(failed) <= Threshold
    /\ \A i, j \in 1 .. Len(failed) : i <= j => failed[i] <= failed[j]

\* Who executes a task has the claim, and nobody else executes it.
AtWork(w) == worker[w].pc \in {"open", "page"}

Claims ==
    \A w \in Workers :
       AtWork(w) => /\ task[worker[w].task] = "claimed"
                    /\ \A v \in Workers \ {w} : AtWork(v) => worker[v].task # worker[w].task

Waiting == {t \in Tasks : task[t] # "none"}

\* How long ago the latest task was executed in this browser, at most.
Since(r) == IF r.pc = "page" THEN IdleTTL ELSE r.idle

\* The failures on a dead session are among the latest of the tenant's, as long
\* as the browser is not idle for long; from the third on they keep the circuit
\* open, so that each is one task less that waits.
Struck(r) ==
    /\ r.strikes >= 1 => Len(failed) >= 1 /\ failed[1] <= Since(r)
    /\ r.strikes >= 2 => Len(failed) >= 2 /\ failed[2] <= Since(r) + IdleTTL
    /\ r.strikes >= 3 => /\ circuit.state = "open" /\ circuit.age <= Since(r)
                         /\ r.strikes + Cardinality(Waiting) <= Round

\* Nobody holds a session that is not there yet; a browser that is counted for
\* is open on a dead one.
Browser(r) ==
    /\ r.session <= logins
    /\ r.strikes > 0 => r.warm /\ r.session \notin accepted
    /\ r.warm /\ r.pc # "idle" => r.idle <= IdleTTL
    /\ r.pc = "page" => r.warm /\ r.idle = 0
    /\ r.strikes <= Round
    /\ r.idle <= IdleTTL => Struck(r)

Kept == \A a \in Accounts : vault[a] <= logins

Inv == Types /\ Ages /\ Claims /\ Kept /\ \A w \in Workers : Browser(worker[w])

-----------------------------------------------------------------------------
(* Counting tasks                                                          *)

LEMMA Fewer ==
    ASSUME NEW S, NEW T \in SUBSET S, IsFiniteSet(S)
    PROVE  /\ Cardinality(S) \in Nat /\ Cardinality(T) \in Nat
           /\ Cardinality(T) <= Cardinality(S)
<1>1. IsFiniteSet(T) /\ Cardinality(T) <= Cardinality(S)
  BY FS_Subset
<1> QED
  BY <1>1, FS_CardinalityType

LEMMA OneLess ==
    ASSUME NEW S, NEW t \in S, NEW T \in SUBSET (S \ {t}), IsFiniteSet(S)
    PROVE  Cardinality(T) <= Cardinality(S) - 1
<1>1. IsFiniteSet(S \ {t}) /\ Cardinality(S \ {t}) = Cardinality(S) - 1
  BY FS_RemoveElement
<1> QED
  BY <1>1, Fewer

LEMMA TaskCount ==
    IsFiniteSet(Tasks) /\ Cardinality(Tasks) \in Nat /\ Cardinality(Tasks) >= 1
    /\ Fetch \in Tasks /\ Round = Cardinality(Tasks) + 2 /\ Round \in Nat /\ Round >= 3
<1>1. IsFiniteSet(Errands) /\ Fetch \notin Errands
  BY SessionsAssumption
<1>2. Tasks = Errands \cup {Fetch}
  BY DEF Tasks
<1>3. IsFiniteSet(Tasks) /\ Cardinality(Tasks) = Cardinality(Errands) + 1
  BY <1>1, <1>2, FS_AddElement
<1>4. Cardinality(Errands) \in Nat
  BY <1>1, FS_CardinalityType
<1>5. Fetch \in Tasks
  BY <1>2
<1>6. Cardinality(Tasks) \in Nat /\ Cardinality(Tasks) >= 1
  BY <1>3, <1>4
<1>7. Round = Cardinality(Tasks) + 2
  BY <1>6 DEF Round, Threshold
<1> QED
  BY <1>3, <1>5, <1>6, <1>7

LEMMA WaitingCount ==
    /\ IsFiniteSet(Waiting) /\ Cardinality(Waiting) \in Nat /\ Waiting \subseteq Tasks
<1>1. Waiting \subseteq Tasks
  BY DEF Waiting
<1> QED
  BY <1>1, TaskCount, FS_Subset, FS_CardinalityType

-----------------------------------------------------------------------------
(* The latest failures                                                     *)

\* One more, of now.
LEMMA FailedNow ==
    ASSUME Ages
    PROVE  /\ Failed \in Seq(0 .. Window) /\ Len(Failed) >= 1 /\ Len(Failed) <= Threshold
           /\ Failed[1] = 0
           /\ \A i \in 1 .. Len(Failed) : i # 1 => i - 1 \in 1 .. Len(failed) /\ Failed[i] = failed[i - 1]
           /\ Len(Failed) = IF Len(failed) < Threshold THEN Len(failed) + 1 ELSE Threshold
<1> DEFINE all == <<0>> \o failed
           n   == IF Len(failed) < Threshold THEN Len(failed) + 1 ELSE Threshold
<1>1. failed \in Seq(0 .. Window) /\ Len(failed) \in Nat /\ Len(failed) <= Threshold
  BY LenProperties DEF Ages
<1>2. <<0>> \in Seq(0 .. Window) /\ Len(<<0>>) = 1 /\ <<0>>[1] = 0
  BY DEF Window
<1>3. /\ all \in Seq(0 .. Window) /\ Len(all) = Len(failed) + 1
      /\ \A i \in 1 .. Len(failed) + 1 : all[i] = IF i = 1 THEN 0 ELSE failed[i - 1]
  <2>1. /\ all \in Seq(0 .. Window) /\ Len(all) = Len(<<0>>) + Len(failed)
        /\ \A i \in 1 .. Len(<<0>>) + Len(failed) :
              all[i] = IF i <= Len(<<0>>) THEN <<0>>[i] ELSE failed[i - Len(<<0>>)]
    BY <1>1, <1>2, ConcatProperties
  <2> QED
    BY <1>1, <1>2, <2>1
<1>4. n \in Nat /\ n >= 1 /\ n <= Len(failed) + 1 /\ n <= Threshold
  BY <1>1 DEF Threshold
<1>6. Failed = SubSeq(all, 1, n)
  BY DEF Failed
<1>10. n = IF Len(failed) < Threshold THEN Len(failed) + 1 ELSE Threshold
  BY DEF n
<1> HIDE DEF all, n
<1>5. ASSUME NEW i \in 1 .. n PROVE all[i] \in 0 .. Window
  <2>1. i \in 1 .. Len(all)
    BY <1>1, <1>3, <1>4
  <2> QED
    BY <1>3, <2>1, ElementOfSeq
<1>7. /\ Failed \in Seq(0 .. Window) /\ Len(Failed) = n
      /\ \A i \in 1 .. n : Failed[i] = all[i]
  BY <1>4, <1>5, <1>6, SubSeqProperties
<1>8. Failed[1] = 0
  BY <1>1, <1>3, <1>4, <1>7
<1>9. \A i \in 1 .. n : i # 1 => i - 1 \in 1 .. Len(failed) /\ Failed[i] = failed[i - 1]
  BY <1>1, <1>3, <1>4, <1>7
<1> QED
  BY <1>4, <1>7, <1>8, <1>9, <1>10

LEMMA FailedSorted ==
    ASSUME Ages
    PROVE  \A i, j \in 1 .. Len(Failed) : i <= j => Failed[i] <= Failed[j]
<1> SUFFICES ASSUME NEW i \in 1 .. Len(Failed), NEW j \in 1 .. Len(Failed), i <= j
             PROVE  Failed[i] <= Failed[j]
  OBVIOUS
<1>1. Failed \in Seq(0 .. Window) /\ Failed[1] = 0
  BY FailedNow
<1>2. Failed[i] \in 0 .. Window /\ Failed[j] \in 0 .. Window
  BY <1>1, ElementOfSeq
<1>3. CASE i = 1
  BY <1>1, <1>2, <1>3 DEF Window
<1>4. CASE i # 1
  <2>1. /\ i - 1 \in 1 .. Len(failed) /\ Failed[i] = failed[i - 1]
        /\ j - 1 \in 1 .. Len(failed) /\ Failed[j] = failed[j - 1]
    BY <1>4, FailedNow
  <2> QED
    BY <2>1 DEF Ages
<1> QED
  BY <1>3, <1>4

\* A quarter of an hour later: those that still count are the first.
LEMMA FailedLater ==
    ASSUME Ages, failed' = [i \in Recent([j \in DOMAIN failed |-> failed[j] + 1]) |-> failed[i] + 1]
    PROVE  /\ Ages'
           /\ \A i \in 1 .. Len(failed) : failed[i] < Window
                 => i \in 1 .. Len(failed') /\ failed'[i] = failed[i] + 1
<1> DEFINE kept == Recent([j \in DOMAIN failed |-> failed[j] + 1])
<1>1. /\ failed \in Seq(0 .. Window) /\ Len(failed) \in Nat /\ Len(failed) <= 3
      /\ DOMAIN failed = 1 .. Len(failed)
      /\ \A i \in 1 .. Len(failed) : failed[i] \in 0 .. 4
      /\ \A i, j \in 1 .. Len(failed) : i <= j => failed[i] <= failed[j]
  BY LenProperties, ElementOfSeq DEF Ages, Threshold, Window
<1>2. kept = {i \in 1 .. Len(failed) : failed[i] + 1 <= 4}
  BY <1>1 DEF Recent, Window
<1>3. PICK n \in 0 .. Len(failed) : kept = 1 .. n
  <2>1. \E n \in 0 .. Len(failed) : \A i \in 1 .. Len(failed) : failed[i] + 1 <= 4 <=> i <= n
    <3>1. CASE Len(failed) >= 3 /\ failed[3] <= 3
      <4>1. 3 \in 1 .. Len(failed) /\ Len(failed) = 3
        BY <1>1, <3>1
      <4>2. \A i \in 1 .. Len(failed) : failed[i] + 1 <= 4 /\ i <= 3
        BY <1>1, <3>1, <4>1
      <4> QED
        BY <4>1, <4>2
    <3>2. CASE Len(failed) >= 2 /\ failed[2] <= 3 /\ ~(Len(failed) >= 3 /\ failed[3] <= 3)
      <4>1. 2 \in 1 .. Len(failed) /\ 2 \in 0 .. Len(failed)
        BY <1>1, <3>2
      <4>2. \A i \in 1 .. Len(failed) : i <= 2 => failed[i] + 1 <= 4
        BY <1>1, <3>2, <4>1
      <4>3. ASSUME NEW i \in 1 .. Len(failed), failed[i] + 1 <= 4, ~(i <= 2) PROVE FALSE
        <5>1. i = 3 /\ Len(failed) >= 3
          BY <1>1, <4>3
        <5> QED
          BY <1>1, <3>2, <4>3, <5>1
      <4> QED
        BY <4>1, <4>2, <4>3
    <3>3. CASE Len(failed) >= 1 /\ failed[1] <= 3 /\ ~(Len(failed) >= 2 /\ failed[2] <= 3)
      <4>1. 1 \in 1 .. Len(failed) /\ 1 \in 0 .. Len(failed)
        BY <1>1, <3>3
      <4>2. \A i \in 1 .. Len(failed) : i <= 1 => failed[i] + 1 <= 4
        BY <1>1, <3>3, <4>1
      <4>3. ASSUME NEW i \in 1 .. Len(failed), failed[i] + 1 <= 4, ~(i <= 1) PROVE FALSE
        <5>1. 2 \in 1 .. Len(failed) /\ 2 <= i
          BY <1>1, <4>3
        <5>2. failed[2] <= failed[i] /\ failed[i] \in 0 .. 4 /\ failed[2] \in 0 .. 4
          BY <1>1, <5>1
        <5> QED
          BY <3>3, <4>3, <5>1, <5>2
      <4> QED
        BY <4>1, <4>2, <4>3
    <3>4. CASE ~(Len(failed) >= 1 /\ failed[1] <= 3)
      <4>1. ASSUME NEW i \in 1 .. Len(failed), failed[i] + 1 <= 4 PROVE FALSE
        <5>1. 1 \in 1 .. Len(failed) /\ 1 <= i
          BY <1>1
        <5>2. failed[1] <= failed[i] /\ failed[i] \in 0 .. 4 /\ failed[1] \in 0 .. 4
          BY <1>1, <5>1
        <5> QED
          BY <3>4, <4>1, <5>1, <5>2
      <4>2. \A i \in 1 .. Len(failed) : failed[i] + 1 <= 4 <=> i <= 0
        BY <4>1
      <4>3. 0 \in 0 .. Len(failed)
        BY <1>1
      <4> QED
        BY <4>2, <4>3
    <3> QED
      BY <3>1, <3>2, <3>3, <3>4
  <2>2. PICK n \in 0 .. Len(failed) : \A i \in 1 .. Len(failed) : failed[i] + 1 <= 4 <=> i <= n
    BY <2>1
  <2> HIDE DEF kept
  <2>3. kept = 1 .. n
    BY <1>1, <1>2, <2>2
  <2> QED
    BY <2>3
<1>4. failed' = [i \in 1 .. n |-> failed[i] + 1]
  BY <1>3
<1> HIDE DEF kept
<1>5. ASSUME NEW i \in 1 .. n PROVE i \in 1 .. Len(failed) /\ failed[i] + 1 \in 0 .. 4
  <2>1. i \in 1 .. Len(failed) /\ failed[i] + 1 <= 4
    BY <1>2, <1>3, <1>5
  <2>2. failed[i] \in 0 .. 4
    BY <1>1, <2>1
  <2> QED
    BY <2>1, <2>2
<1>6. failed' \in Seq(0 .. 4) /\ Len(failed') = n /\ \A i \in 1 .. n : failed'[i] = failed[i] + 1
  <2>1. n \in Nat /\ failed' \in [1 .. n -> 0 .. 4]
    BY <1>1, <1>4, <1>5
  <2>2. failed' \in Seq(0 .. 4) /\ Len(failed') = n
    BY <2>1
  <2> QED
    BY <1>4, <2>2
<1>7. Ages'
  <2>1. failed' \in Seq(0 .. 4) /\ Len(failed') <= 3
    BY <1>1, <1>6
  <2>2. ASSUME NEW i \in 1 .. n, NEW j \in 1 .. n, i <= j PROVE failed'[i] <= failed'[j]
    <3>1. failed[i] <= failed[j] /\ failed[i] \in 0 .. 4 /\ failed[j] \in 0 .. 4
      BY <1>1, <1>5, <2>2
    <3> QED
      BY <1>6, <3>1
  <2> QED
    BY <1>6, <2>1, <2>2 DEF Ages, Threshold, Window
<1>8. ASSUME NEW i \in 1 .. Len(failed), failed[i] < 4 PROVE i \in 1 .. n
  <2>1. failed[i] + 1 <= 4
    BY <1>1, <1>8
  <2>2. i \in kept
    BY <1>2, <2>1
  <2> QED
    BY <1>3, <2>2
<1> QED
  BY <1>6, <1>7, <1>8 DEF Window

-----------------------------------------------------------------------------
(* What a record of a worker becomes                                       *)

LEMMA Inits == SessionsInit => Inv
<1> SUFFICES ASSUME SessionsInit PROVE Inv
  OBVIOUS
<1> DEFINE new == [pc |-> "idle", task |-> Fetch, list |-> {}, session |-> Nothing,
                   warm |-> FALSE, idle |-> 0, strikes |-> 0]
<1>1. new \in Worker
  BY TaskCount DEF Worker, Nothing, IdleTTL
<1>2. new.session = 0 /\ new.strikes = 0 /\ new.warm = FALSE /\ new.pc = "idle"
  BY DEF Nothing
<1> HIDE DEF new
<1>3. worker = [w \in Workers |-> new]
  BY DEF SessionsInit, new
<1>4. 1 \in Logins /\ logins = 1
  BY SessionsAssumption DEF SessionsInit, Logins
<1>5. Types
  <2>1. vault \in [Accounts -> Logins \cup {Nothing, Password}]
    BY <1>4 DEF SessionsInit
  <2>2. accepted \subseteq Logins /\ logins \in Logins
    BY <1>4 DEF SessionsInit
  <2>3. task \in [Tasks -> {"none", "pending", "claimed"}]
    BY DEF SessionsInit
  <2>4. circuit \in [state : {"closed", "open", "half_open"}, age : 0 .. Cooldown + 1]
    <3>1. 0 \in 0 .. Cooldown + 1
      BY DEF Cooldown
    <3> QED
      BY <3>1 DEF SessionsInit
  <2>5. worker \in [Workers -> Worker]
    BY <1>1, <1>3
  <2> QED
    BY <2>1, <2>2, <2>3, <2>4, <2>5 DEF Types
<1>6. Ages
  <2>1. failed = <<>>
    BY DEF SessionsInit
  <2>2. failed \in Seq(0 .. Window) /\ Len(failed) = 0
    BY <2>1
  <2> QED
    BY <2>2 DEF Ages, Threshold
<1>7. Claims
  BY <1>2, <1>3 DEF Claims, AtWork
<1>8. Kept
  BY <1>4 DEF Kept, SessionsInit, Nothing
<1>9. ASSUME NEW w \in Workers PROVE Browser(worker[w])
  <2>1. worker[w] = new
    BY <1>3
  <2>2. Browser(new)
    BY <1>2, <1>4, TaskCount DEF Browser, Struck
  <2> QED
    BY <2>1, <2>2
<1> QED
  BY <1>5, <1>6, <1>7, <1>8, <1>9 DEF Inv

\* The invariant, part by part, with the worker's record by a name of its own.
LEMMA Parts ==
    ASSUME Types', Ages', Claims', Kept',
           ASSUME NEW w \in Workers, NEW r \in Worker, worker'[w] = r PROVE Browser(r)'
    PROVE  Inv'
<1>1. ASSUME NEW w \in Workers PROVE Browser(worker[w])'
  <2>1. PICK r \in Worker : worker'[w] = r
    BY DEF Types
  <2>2. Browser(r)'
    BY <2>1
  <2> QED
    BY <2>1, <2>2 DEF Browser, Struck, Since
<1> QED
  BY <1>1 DEF Inv

\* What the circuit and the tasks are asked for, when a browser has struck out.
LEMMA CircuitAsked ==
    ASSUME Types, NEW r \in Worker, Browser(r), r.idle <= IdleTTL, r.strikes >= 3
    PROVE  Checked = circuit /\ circuit.state = "open"
<1>1. circuit.state = "open" /\ circuit.age <= 2 /\ circuit.age \in 0 .. 3
  BY DEF Types, Browser, Struck, Since, IdleTTL, Cooldown, Worker
<1> QED
  BY <1>1 DEF Checked, Cooldown

\* A step that leaves a browser alone, and its failures, tasks and circuit.
LEMMA BrowserStays ==
    ASSUME Types, Types', logins <= logins', accepted' \subseteq accepted \cup {s \in Logins : logins < s},
           failed' = failed, circuit' = circuit, Waiting' = Waiting
    PROVE  \A r \in Worker : Browser(r) => Browser(r)'
<1> SUFFICES ASSUME NEW r \in Worker, Browser(r) PROVE Browser(r)'
  OBVIOUS
<1>1. logins \in Nat /\ logins' \in Nat /\ r.session \in Int
  BY DEF Types, Logins, Worker, Nothing
<1>2. r.session <= logins /\ r.session <= logins'
  BY <1>1 DEF Browser
<1>3. r.session \notin accepted => r.session \notin accepted'
  BY <1>1, <1>2
<1>4. Struck(r) => Struck(r)'
  BY DEF Struck, Since
<1> QED
  BY <1>2, <1>3, <1>4 DEF Browser

-----------------------------------------------------------------------------
(* The user, the platform and the tasks                                    *)

\* Whatever becomes of the accounts, the vault and the platform's sessions.
LEMMA OutsideStep ==
    ASSUME Inv, vault' \in [Accounts -> Logins \cup {Nothing, Password}],
           logins' \in Logins, logins <= logins', accepted' \subseteq Logins,
           accepted' \subseteq accepted \cup {s \in Logins : logins < s},
           \A a \in Accounts : vault'[a] \in {vault[a], Nothing, Password, logins'},
           UNCHANGED <<task, circuit, failed, worker>>
    PROVE  Inv'
<1>1. Types /\ Types'
  BY DEF Inv, Types
<1>2. Ages' /\ Claims'
  BY DEF Inv, Ages, Claims, AtWork
<1>3. Kept'
  <2>1. ASSUME NEW a \in Accounts PROVE vault'[a] <= logins'
    <3>1. vault[a] <= logins /\ vault[a] \in Int /\ logins \in Nat /\ logins' \in Nat
      BY <1>1 DEF Inv, Kept, Types, Logins, Nothing, Password
    <3> QED
      BY <3>1 DEF Nothing, Password
  <2> QED
    BY <2>1 DEF Kept
<1>4. ASSUME NEW w \in Workers, NEW r \in Worker, worker'[w] = r PROVE Browser(r)'
  <2>1. Browser(r)
    BY <1>4 DEF Inv
  <2>2. Waiting' = Waiting
    BY DEF Waiting
  <2> QED
    BY <1>1, <2>1, <2>2, BrowserStays
<1> QED
  BY <1>1, <1>2, <1>3, <1>4, Parts

LEMMA UserStep ==
    ASSUME Inv, NEW a \in Accounts, Refer(a) \/ Enroll(a) \/ Wipe(a) \/ Unrefer(a) \/ Edit(a)
    PROVE  Inv'
<1>1. Types /\ logins \in Nat /\ MaxLogins \in Nat
  BY SessionsAssumption DEF Inv, Types, Logins
<1>2. UNCHANGED <<task, circuit, failed, worker>>
  BY DEF Refer, Enroll, Wipe, Unrefer, Edit
<1>3. CASE UNCHANGED <<vault, logins, accepted>>
  BY <1>1, <1>2, <1>3, OutsideStep DEF Types
<1>4. CASE vault' = [vault EXCEPT ![a] = Nothing] /\ UNCHANGED <<logins, accepted>>
  BY <1>1, <1>2, <1>4, OutsideStep DEF Types
<1>5. CASE vault' = [vault EXCEPT ![a] = Password] /\ UNCHANGED <<logins, accepted>>
  BY <1>1, <1>2, <1>5, OutsideStep DEF Types
<1>6. CASE LogIn /\ vault' = [vault EXCEPT ![a] = logins + 1]
  <2>1. logins' = logins + 1 /\ logins' \in Logins /\ accepted' = accepted \cup {logins + 1}
    BY <1>1, <1>6 DEF LogIn, Logins
  <2>2. /\ vault' \in [Accounts -> Logins \cup {Nothing, Password}]
        /\ \A b \in Accounts : vault'[b] \in {vault[b], logins'}
    BY <1>1, <1>6, <2>1 DEF Types
  <2>3. accepted' \subseteq Logins /\ accepted' \subseteq accepted \cup {s \in Logins : logins < s}
    BY <1>1, <2>1 DEF Types
  <2> QED
    BY <1>1, <1>2, <2>1, <2>2, <2>3, OutsideStep
<1> QED
  BY <1>3, <1>4, <1>5, <1>6 DEF Refer, Enroll, Wipe, Unrefer, Edit, Store, userVars

LEMMA ExpireStep ==
    ASSUME Inv, NEW s \in Logins, Expire(s)
    PROVE  Inv'
<1>1. Types /\ logins \in Nat
  BY DEF Inv, Types, Logins
<1>2. UNCHANGED <<vault, logins, task, circuit, failed, worker>> /\ accepted' \subseteq accepted
  BY DEF Expire, userVars
<1> QED
  BY <1>1, <1>2, OutsideStep DEF Types

\* Asked by a browser's tenant that has struck out, the circuit stays as it is.
LEMMA AskedStays ==
    ASSUME Types, UNCHANGED <<logins, accepted, failed>>, circuit' \in {circuit, Checked},
           Checked.state = "open" => Waiting' = Waiting
    PROVE  \A r \in Worker : Browser(r) => Browser(r)'
<1> SUFFICES ASSUME NEW r \in Worker, Browser(r) PROVE Browser(r)'
  OBVIOUS
<1>1. ASSUME r.idle <= IdleTTL PROVE Struck(r)'
  <2>1. Struck(r)
    BY <1>1 DEF Browser
  <2>2. CASE r.strikes >= 3
    <3>1. circuit' = circuit /\ Waiting' = Waiting
      BY <1>1, <2>2, CircuitAsked
    <3> QED
      BY <2>1, <3>1 DEF Struck, Since
  <2>3. CASE ~(r.strikes >= 3)
    BY <2>1, <2>3 DEF Struck, Since
  <2> QED
    BY <2>2, <2>3
<1> QED
  BY <1>1 DEF Browser

\* A task that waits, or that no worker executes, is put into the queue.
LEMMA TaskStep ==
    ASSUME Inv, UNCHANGED <<userVars, accepted, failed, worker>>, circuit' \in {circuit, Checked},
           Checked.state = "open" => Waiting' = Waiting,
           \/ UNCHANGED task
           \/ \E t \in Tasks : /\ \A w \in Workers : AtWork(w) => worker[w].task # t
                               /\ task' = [task EXCEPT ![t] = "pending"]
    PROVE  Inv'
<1>1. Types /\ UNCHANGED <<vault, logins>>
  BY DEF Inv, userVars
<1>2. Checked \in [state : {"closed", "open", "half_open"}, age : 0 .. Cooldown + 1]
  <2>1. 0 \in 0 .. Cooldown + 1
    BY DEF Cooldown
  <2>2. [state |-> "half_open", age |-> 0] \in [state : {"closed", "open", "half_open"}, age : 0 .. Cooldown + 1]
    BY <2>1
  <2>3. Checked \in {circuit, [state |-> "half_open", age |-> 0]}
    BY DEF Checked
  <2>4. circuit \in [state : {"closed", "open", "half_open"}, age : 0 .. Cooldown + 1]
    BY <1>1 DEF Types
  <2> QED
    BY <2>2, <2>3, <2>4, Zenon
<1>3. Types'
  BY <1>1, <1>2 DEF Types
<1>4. Ages' /\ Kept'
  BY <1>1 DEF Inv, Ages, Kept
<1>5. Claims'
  <2>1. ASSUME NEW w \in Workers, AtWork(w) PROVE task'[worker[w].task] = task[worker[w].task]
    <3>1. worker[w].task \in Tasks
      BY <1>1 DEF Types, Worker
    <3> QED
      BY <1>1, <2>1, <3>1 DEF Types
  <2> QED
    BY <2>1 DEF Inv, Claims, AtWork
<1>6. ASSUME NEW w \in Workers, NEW r \in Worker, worker'[w] = r PROVE Browser(r)'
  <2>1. Browser(r)
    BY <1>6 DEF Inv
  <2> QED
    BY <1>1, <2>1, AskedStays
<1> QED
  BY <1>3, <1>4, <1>5, <1>6, Parts

LEMMA EnqueueStep ==
    ASSUME Inv, NEW t \in Tasks, Enqueue(t)
    PROVE  Inv'
<1>1. \A w \in Workers : AtWork(w) => worker[w].task # t
  BY DEF Enqueue, Inv, Claims
<1>2. Checked.state = "open" => Waiting' = Waiting
  BY DEF Enqueue, Waiting
<1> QED
  BY <1>1, <1>2, TaskStep DEF Enqueue

LEMMA ReclaimStep ==
    ASSUME Inv, NEW t \in Tasks, Reclaim(t)
    PROVE  Inv'
<1>1. \A w \in Workers : AtWork(w) => worker[w].task # t
  BY DEF Reclaim, AtWork
<1>2. Waiting' = Waiting
  BY DEF Reclaim, Inv, Types, Waiting
<1> QED
  BY <1>1, <1>2, TaskStep DEF Reclaim

LEMMA BeatStep ==
    ASSUME Inv, Beat
    PROVE  Inv'
<1>1. CASE Enqueue(Fetch)
  BY <1>1, TaskCount, EnqueueStep
<1>2. CASE Checked.state # "open" /\ circuit' = Checked /\ UNCHANGED <<userVars, accepted, task, failed, worker, left>>
  BY <1>2, TaskStep
<1> QED
  BY <1>1, <1>2 DEF Beat, EnqueueFetch

-----------------------------------------------------------------------------
(* A worker on its own                                                     *)

\* It goes on with the record n; what waits, waits.
LEMMA WorkerMoves ==
    ASSUME Inv, NEW w \in Workers, NEW n \in Worker, worker' = [worker EXCEPT ![w] = n],
           UNCHANGED <<vault, circuit, failed>>, logins' \in Logins, logins <= logins',
           accepted' \subseteq Logins, accepted' \subseteq accepted \cup {s \in Logins : logins < s},
           task' \in [Tasks -> {"none", "pending", "claimed"}], Waiting' = Waiting,
           \A t \in Tasks : task[t] = "claimed" => task'[t] = "claimed",
           n.pc \in {"open", "page"} =>
              /\ task'[n.task] = "claimed"
              /\ \A v \in Workers \ {w} : AtWork(v) => worker[v].task # n.task,
           Browser(n)'
    PROVE  Inv'
<1>1. Types /\ worker \in [Workers -> Worker] /\ \A v \in Workers : worker[v].task \in Tasks
  BY DEF Inv, Types, Worker
<1>2. worker'[w] = n /\ \A v \in Workers \ {w} : worker'[v] = worker[v]
  BY <1>1
<1>3. Types'
  BY <1>1 DEF Types
<1>4. Ages' /\ Kept'
  <2>1. ASSUME NEW a \in Accounts PROVE vault'[a] <= logins'
    <3>1. vault[a] <= logins /\ vault[a] \in Int /\ logins \in Nat /\ logins' \in Nat
      BY <1>1 DEF Inv, Kept, Types, Logins, Nothing, Password
    <3> QED
      BY <3>1
  <2> QED
    BY <2>1 DEF Inv, Ages, Kept
<1>5. Claims'
  <2> SUFFICES ASSUME NEW v \in Workers, AtWork(v)'
               PROVE  /\ task'[worker'[v].task] = "claimed"
                      /\ \A u \in Workers \ {v} : AtWork(u)' => worker'[u].task # worker'[v].task
    BY DEF Claims
  <2>1. Claims
    BY DEF Inv
  <2>2. \A u \in Workers \ {w} : AtWork(u)' <=> AtWork(u)
    BY <1>2 DEF AtWork
  <2>3. AtWork(w)' <=> n.pc \in {"open", "page"}
    BY <1>2 DEF AtWork
  <2>4. CASE v = w
    BY <1>2, <2>2, <2>3, <2>4
  <2>5. CASE v # w
    <3>1. /\ AtWork(v) /\ task'[worker[v].task] = "claimed"
          /\ \A u \in Workers \ {v} : AtWork(u) => worker[u].task # worker[v].task
      BY <1>1, <2>1, <2>2, <2>5 DEF Claims
    <3>2. AtWork(w)' => worker[v].task # n.task
      BY <2>3, <2>5, <3>1
    <3> QED
      BY <1>2, <2>2, <2>5, <3>1, <3>2
  <2> QED
    BY <2>4, <2>5
<1>6. ASSUME NEW v \in Workers, NEW r \in Worker, worker'[v] = r PROVE Browser(r)'
  <2>1. CASE v = w
    BY <1>2, <1>6, <2>1
  <2>2. CASE v # w
    <3>1. Browser(r)
      BY <1>2, <1>6, <2>2 DEF Inv
    <3> QED
      BY <1>1, <1>3, <3>1, BrowserStays
  <2> QED
    BY <2>1, <2>2
<1> QED
  BY <1>3, <1>4, <1>5, <1>6, Parts

\* The same, of a step that changes nothing else.
LEMMA WorkerGoesOn ==
    ASSUME Inv, NEW w \in Workers, NEW n \in Worker, worker' = [worker EXCEPT ![w] = n],
           UNCHANGED <<userVars, accepted, task, circuit, failed>>, Browser(n),
           n.pc \in {"open", "page"} => AtWork(w) /\ n.task = worker[w].task
    PROVE  Inv'
<1>1. Types /\ Claims /\ UNCHANGED <<vault, logins, Waiting>> /\ logins \in Nat
  BY DEF Inv, userVars, Waiting, Types, Logins
<1>2. Types'
  <2>1. worker' \in [Workers -> Worker]
    BY <1>1 DEF Types
  <2> QED
    BY <1>1, <2>1 DEF Types
<1>3. Browser(n)'
  BY <1>1, <1>2, BrowserStays
<1>4. n.pc \in {"open", "page"} =>
         /\ task'[n.task] = "claimed"
         /\ \A v \in Workers \ {w} : AtWork(v) => worker[v].task # n.task
  BY <1>1 DEF Claims
<1>5. /\ logins' \in Logins /\ logins <= logins' /\ accepted' \subseteq Logins
      /\ accepted' \subseteq accepted \cup {s \in Logins : logins < s}
      /\ task' \in [Tasks -> {"none", "pending", "claimed"}]
      /\ \A t \in Tasks : task[t] = "claimed" => task'[t] = "claimed"
  BY <1>1 DEF Types
<1> QED
  BY <1>1, <1>3, <1>4, <1>5, WorkerMoves

\* A browser that is let alone, between tasks.
LEMMA SameBrowser ==
    ASSUME NEW r \in Worker, NEW n \in Worker, Browser(r), r.pc # "page", n.pc # "page",
           n.session = r.session, n.warm = r.warm, n.idle = r.idle, n.strikes = r.strikes,
           n.pc = "idle" \/ r.pc # "idle"
    PROVE  Browser(n)
BY DEF Browser, Struck, Since

\* A browser that is closed, or whose failures are forgotten.
LEMMA FreshBrowser ==
    ASSUME NEW n \in Worker, n.session <= logins, n.strikes = 0,
           n.warm /\ n.pc # "idle" => n.idle <= IdleTTL,
           n.pc = "page" => n.warm /\ n.idle = 0
    PROVE  Browser(n)
BY TaskCount DEF Browser, Struck

LEMMA SweepStep ==
    ASSUME Inv, NEW w \in Workers, Sweep(w)
    PROVE  Inv'
<1>1. PICK r \in Worker : worker[w] = r
  BY DEF Inv, Types
<1>2. Browser(r) /\ r.pc = "idle" /\ worker \in [Workers -> Worker]
  BY <1>1 DEF Inv, Types, Sweep
<1>3. PICK list \in SUBSET Tasks :
         worker' = [worker EXCEPT ![w] =
             [worker[w] EXCEPT !.list = list, !.pc = IF list = {} THEN "idle" ELSE "sweep",
                               !.warm = @ /\ ~IdleLong(w), !.idle = IF IdleLong(w) THEN 0 ELSE @,
                               !.strikes = IF IdleLong(w) THEN 0 ELSE @]]
  BY DEF Sweep
<1> DEFINE n1 == [worker[w] EXCEPT !.list = list]
           n2 == [n1 EXCEPT !.pc = IF list = {} THEN "idle" ELSE "sweep"]
           n3 == [n2 EXCEPT !.warm = worker[w].warm /\ ~IdleLong(w)]
           n4 == [n3 EXCEPT !.idle = IF IdleLong(w) THEN 0 ELSE worker[w].idle]
           n5 == [n4 EXCEPT !.strikes = IF IdleLong(w) THEN 0 ELSE worker[w].strikes]
<1>4. worker' = [worker EXCEPT ![w] = n5]
  BY <1>3
<1>5. IdleLong(w) <=> r.warm /\ r.idle > IdleTTL
  BY <1>1 DEF IdleLong
<1>6. /\ n1 \in Worker /\ n1.session = r.session /\ n1.warm = r.warm /\ n1.idle = r.idle
      /\ n1.strikes = r.strikes
  BY <1>1 DEF Worker
<1> HIDE DEF n1
<1>7. /\ n2 \in Worker /\ n2.session = r.session /\ n2.warm = r.warm /\ n2.idle = r.idle
      /\ n2.strikes = r.strikes /\ n2.pc \in {"idle", "sweep"}
  BY <1>6 DEF Worker
<1> HIDE DEF n2
<1>8. /\ n3 \in Worker /\ n3.session = r.session /\ n3.warm = (r.warm /\ ~IdleLong(w)) /\ n3.idle = r.idle
      /\ n3.strikes = r.strikes /\ n3.pc \in {"idle", "sweep"}
  BY <1>1, <1>7 DEF Worker
<1> HIDE DEF n3
<1>9. /\ n4 \in Worker /\ n4.session = r.session /\ n4.warm = (r.warm /\ ~IdleLong(w))
      /\ n4.idle = (IF IdleLong(w) THEN 0 ELSE r.idle)
      /\ n4.strikes = r.strikes /\ n4.pc \in {"idle", "sweep"}
  BY <1>1, <1>8 DEF Worker, IdleTTL
<1> HIDE DEF n4
<1>10. /\ n5 \in Worker /\ n5.session = r.session /\ n5.warm = (r.warm /\ ~IdleLong(w))
       /\ n5.idle = (IF IdleLong(w) THEN 0 ELSE r.idle)
       /\ n5.strikes = (IF IdleLong(w) THEN 0 ELSE r.strikes) /\ n5.pc \in {"idle", "sweep"}
  BY <1>1, <1>9 DEF Worker
<1> HIDE DEF n5
<1>11. Browser(n5)
  <2>1. CASE IdleLong(w)
    BY <1>2, <1>10, <2>1, FreshBrowser DEF Browser, IdleTTL
  <2>2. CASE ~IdleLong(w)
    BY <1>2, <1>5, <1>10, <2>2 DEF Browser, Struck, Since, Worker, IdleTTL
  <2> QED
    BY <2>1, <2>2
<1>12. UNCHANGED <<userVars, accepted, task, circuit, failed>>
  BY DEF Sweep
<1> QED
  BY <1>4, <1>10, <1>11, <1>12, WorkerGoesOn

LEMMA Dropped ==
    ASSUME worker \in [Workers -> Worker], NEW w \in Workers, NEW t
    PROVE  /\ Drop(w, t) \in Worker /\ Drop(w, t).pc \in {"idle", worker[w].pc}
           /\ Drop(w, t).task = worker[w].task /\ Drop(w, t).session = worker[w].session
           /\ Drop(w, t).warm = worker[w].warm /\ Drop(w, t).idle = worker[w].idle
           /\ Drop(w, t).strikes = worker[w].strikes
<1> DEFINE n1 == [worker[w] EXCEPT !.list = worker[w].list \ {t}]
           n2 == [n1 EXCEPT !.pc = IF worker[w].list = {t} THEN "idle" ELSE worker[w].pc]
<1>1. Drop(w, t) = n2
  BY DEF Drop
<1>2. worker[w] \in Worker
  OBVIOUS
<1>3. /\ n1 \in Worker /\ n1.task = worker[w].task /\ n1.session = worker[w].session
      /\ n1.warm = worker[w].warm /\ n1.idle = worker[w].idle /\ n1.strikes = worker[w].strikes
  BY <1>2 DEF Worker
<1> HIDE DEF n1
<1>4. /\ n2 \in Worker /\ n2.task = worker[w].task /\ n2.session = worker[w].session
      /\ n2.warm = worker[w].warm /\ n2.idle = worker[w].idle /\ n2.strikes = worker[w].strikes
      /\ n2.pc \in {"idle", worker[w].pc}
  BY <1>2, <1>3 DEF Worker
<1> QED
  BY <1>1, <1>4

\* A worker that drops a task of its list.
LEMMA DropStep ==
    ASSUME Inv, NEW w \in Workers, NEW t, worker[w].pc = "sweep",
           worker' = [worker EXCEPT ![w] = Drop(w, t)],
           UNCHANGED <<userVars, accepted, task, circuit, failed>>
    PROVE  Inv'
<1>1. worker \in [Workers -> Worker] /\ worker[w] \in Worker /\ Browser(worker[w])
  BY DEF Inv, Types
<1>2. PICK r \in Worker : r = worker[w]
  BY <1>1
<1>3. PICK n \in Worker : n = Drop(w, t)
  BY <1>1, Dropped
<1>4. /\ n.session = r.session /\ n.warm = r.warm /\ n.idle = r.idle /\ n.strikes = r.strikes
      /\ n.pc \in {"idle", "sweep"}
  BY <1>1, <1>2, <1>3, Dropped
<1>5. Browser(r) /\ r.pc = "sweep"
  BY <1>1, <1>2
<1>6. Browser(n)
  BY <1>4, <1>5, SameBrowser
<1> QED
  BY <1>3, <1>4, <1>6, WorkerGoesOn

LEMMA SkipStep ==
    ASSUME Inv, NEW w \in Workers, Skip(w)
    PROVE  Inv'
BY DropStep DEF Skip

LEMMA ClaimStep ==
    ASSUME Inv, NEW w \in Workers, NEW t \in Tasks, Claim(w, t)
    PROVE  Inv'
<1>1. CASE task[t] # "pending"
  BY <1>1, DropStep DEF Claim
<1>2. CASE task[t] = "pending"
  <2> DEFINE n1 == [worker[w] EXCEPT !.list = worker[w].list \ {t}]
             n2 == [n1 EXCEPT !.pc = "open"]
             n3 == [n2 EXCEPT !.task = t]
  <2>1. worker \in [Workers -> Worker] /\ Types /\ Claims /\ logins \in Nat
    BY DEF Inv, Types, Logins
  <2>2. PICK r \in Worker : r = worker[w]
    BY <2>1
  <2>3. Browser(r) /\ r.pc = "sweep"
    BY <2>2 DEF Inv, Claim
  <2>4. worker' = [worker EXCEPT ![w] = n3]
    BY <1>2 DEF Claim
  <2>5. /\ n1 \in Worker /\ n1.session = r.session
        /\ n1.warm = r.warm /\ n1.idle = r.idle /\ n1.strikes = r.strikes
    BY <2>2 DEF Worker
  <2> HIDE DEF n1
  <2>6. /\ n2 \in Worker /\ n2.session = r.session /\ n2.pc = "open"
        /\ n2.warm = r.warm /\ n2.idle = r.idle /\ n2.strikes = r.strikes
    BY <2>5 DEF Worker
  <2> HIDE DEF n2
  <2>7. /\ n3 \in Worker /\ n3.session = r.session /\ n3.pc = "open" /\ n3.task = t
        /\ n3.warm = r.warm /\ n3.idle = r.idle /\ n3.strikes = r.strikes
    BY <2>6 DEF Worker
  <2> HIDE DEF n3
  <2>8. PICK n \in Worker : n = n3
    BY <2>7
  <2>9. Browser(n)
    BY <2>3, <2>7, <2>8, SameBrowser
  <2>10. /\ UNCHANGED <<vault, logins, accepted, circuit, failed>>
         /\ task' = [task EXCEPT ![t] = "claimed"]
    BY <1>2 DEF Claim, userVars
  <2>11. /\ task' \in [Tasks -> {"none", "pending", "claimed"}] /\ task'[t] = "claimed"
         /\ \A u \in Tasks : task[u] = "claimed" => task'[u] = "claimed"
    BY <2>1, <2>10 DEF Types
  <2>12. Waiting' = Waiting
    BY <1>2, <2>1, <2>10 DEF Types, Waiting
  <2>13. worker' = [worker EXCEPT ![w] = n]
    BY <2>4, <2>8
  <2>14. Types'
    <3>1. worker' \in [Workers -> Worker]
      BY <2>1, <2>13
    <3> QED
      BY <2>1, <2>10, <2>11, <3>1 DEF Types
  <2>15. Browser(n)'
    BY <2>1, <2>9, <2>10, <2>12, <2>14, BrowserStays
  <2>16. \A v \in Workers \ {w} : AtWork(v) => worker[v].task # t
    BY <1>2, <2>1 DEF Claims
  <2>17. /\ logins' \in Logins /\ logins <= logins' /\ accepted' \subseteq Logins
         /\ accepted' \subseteq accepted \cup {s \in Logins : logins < s}
    BY <2>1, <2>10 DEF Types
  <2> QED
    BY <2>7, <2>8, <2>10, <2>11, <2>12, <2>13, <2>15, <2>16, <2>17, WorkerMoves
<1> QED
  BY <1>1, <1>2

\* Accounts are numbers, so there is an oldest one.
LEMMA OldestIsOne == Usable # {} => Oldest(Usable) \in Accounts
<1> SUFFICES ASSUME Usable # {} PROVE Oldest(Usable) \in Accounts
  OBVIOUS
<1>1. Usable \subseteq Accounts /\ Usable \subseteq Nat
  BY SessionsAssumption DEF Usable
<1>2. PICK a \in Usable : \A b \in Usable : ~(<<b, a>> \in OpToRel(<, Nat))
  BY <1>1, NatLessThanWellFounded, WFMin
<1>3. ASSUME NEW b \in Usable PROVE a <= b
  <2>1. a \in Nat /\ b \in Nat /\ ~(<<b, a>> \in {ss \in Nat \X Nat : ss[1] < ss[2]})
    BY <1>1, <1>2 DEF OpToRel
  <2> QED
    BY <2>1
<1>4. \E c \in Usable : \A b \in Usable : c <= b
  BY <1>3
<1>5. Oldest(Usable) \in Usable
  BY <1>4 DEF Oldest
<1> QED
  BY <1>1, <1>5

\* What is served is a session that there is.
LEMMA ServedIsThere == Inv => \A s \in Seeds : s \in Logins \cup {Nothing} /\ s <= logins
<1> SUFFICES ASSUME Inv, NEW s \in Seeds PROVE s \in Logins \cup {Nothing} /\ s <= logins
  OBVIOUS
<1>1. logins \in Nat
  BY DEF Inv, Types, Logins
<1>2. CASE s = Nothing
  BY <1>1, <1>2 DEF Nothing
<1>3. CASE s # Nothing
  <2>1. s = Enrolled /\ Enrolled \in Logins
    BY <1>3 DEF Seeds, Served
  <2>2. Usable # {}
    BY <1>3, <2>1 DEF Enrolled
  <2>3. s = vault[Oldest(Usable)]
    BY <2>1, <2>2 DEF Enrolled
  <2> QED
    BY <2>1, <2>2, <2>3, OldestIsOne DEF Inv, Kept
<1> QED
  BY <1>2, <1>3

LEMMA OpenStep ==
    ASSUME Inv, NEW w \in Workers, Open(w)
    PROVE  Inv'
<1>1. worker \in [Workers -> Worker] /\ logins \in Nat
  BY DEF Inv, Types, Logins
<1>2. PICK r \in Worker : r = worker[w]
  BY <1>1
<1>3. /\ Browser(r) /\ r.pc = "open" /\ AtWork(w)
      /\ UNCHANGED <<userVars, accepted, task, circuit, failed>>
  <2>1. worker[w].pc = "open" /\ UNCHANGED <<userVars, accepted, task, circuit, failed>>
    BY DEF Open
  <2> QED
    BY <1>2, <2>1 DEF Inv, AtWork
<1>4. CASE /\ worker[w].warm
           /\ worker' = [worker EXCEPT ![w] = [worker[w] EXCEPT !.pc = "page", !.idle = 0]]
  <2> DEFINE n1 == [worker[w] EXCEPT !.pc = "page"]
             n2 == [n1 EXCEPT !.idle = 0]
  <2>1. worker' = [worker EXCEPT ![w] = n2] /\ r.warm
    BY <1>2, <1>4
  <2>2. /\ n1 \in Worker /\ n1.session = r.session /\ n1.pc = "page" /\ n1.task = r.task
        /\ n1.warm = r.warm /\ n1.strikes = r.strikes
    BY <1>2 DEF Worker
  <2> HIDE DEF n1
  <2>3. /\ n2 \in Worker /\ n2.session = r.session /\ n2.pc = "page" /\ n2.task = r.task
        /\ n2.warm = r.warm /\ n2.strikes = r.strikes /\ n2.idle = 0
    BY <2>2 DEF Worker, IdleTTL
  <2> HIDE DEF n2
  <2>4. PICK n \in Worker : n = n2
    BY <2>3
  <2>5. Struck(n)
    <3>1. Struck(r) /\ r.idle <= IdleTTL /\ r.idle \in Int
      BY <1>3, <2>1 DEF Browser, Worker
    <3>2. Since(r) <= Since(n) /\ Since(r) \in Int /\ Since(n) \in Int
      BY <1>3, <2>3, <2>4, <3>1 DEF Since, IdleTTL
    <3>3. /\ n.strikes = r.strikes /\ r.strikes \in Nat
          /\ Len(failed) >= 1 => failed[1] \in Int
          /\ Len(failed) >= 2 => failed[2] \in Int
          /\ circuit.age \in Int
      <4>1. failed \in Seq(0 .. Window) /\ Len(failed) \in Nat
        BY LenProperties DEF Inv, Ages
      <4>2. \A i \in 1 .. Len(failed) : failed[i] \in Int
        BY <4>1, ElementOfSeq DEF Window
      <4> QED
        BY <2>3, <2>4, <4>1, <4>2 DEF Worker, Inv, Types
    <3> QED
      BY <3>1, <3>2, <3>3 DEF Struck, IdleTTL
  <2>6. Browser(n)
    <3>1. n.warm /\ n.pc = "page" /\ n.idle = 0 /\ n.session = r.session /\ n.strikes = r.strikes
      BY <2>1, <2>3, <2>4
    <3>2. /\ r.session <= logins /\ r.strikes <= Round
          /\ r.strikes > 0 => r.session \notin accepted
      BY <1>3 DEF Browser
    <3> QED
      BY <2>5, <3>1, <3>2 DEF Browser, IdleTTL
  <2> QED
    BY <1>1, <1>2, <1>3, <2>1, <2>3, <2>4, <2>6, WorkerGoesOn
<1>5. ASSUME NEW s \in Seeds, ~worker[w].warm,
             worker' = [worker EXCEPT ![w] =
                [worker[w] EXCEPT !.pc = "page", !.warm = TRUE, !.idle = 0,
                                  !.session = Applied(s, @)]]
      PROVE  Inv'
  <2> DEFINE n1 == [worker[w] EXCEPT !.pc = "page"]
             n2 == [n1 EXCEPT !.warm = TRUE]
             n3 == [n2 EXCEPT !.idle = 0]
             n4 == [n3 EXCEPT !.session = Applied(s, worker[w].session)]
  <2>1. worker' = [worker EXCEPT ![w] = n4] /\ ~r.warm
    BY <1>2, <1>5
  <2>2. r.strikes = 0
    BY <1>3, <2>1 DEF Browser, Worker
  <2>3. n1 \in Worker /\ n1.pc = "page" /\ n1.task = r.task /\ n1.strikes = 0
    BY <1>2, <2>2 DEF Worker
  <2> HIDE DEF n1
  <2>4. n2 \in Worker /\ n2.pc = "page" /\ n2.task = r.task /\ n2.strikes = 0 /\ n2.warm
    BY <2>3 DEF Worker
  <2> HIDE DEF n2
  <2>5. /\ n3 \in Worker /\ n3.pc = "page" /\ n3.task = r.task /\ n3.strikes = 0 /\ n3.warm
        /\ n3.idle = 0
    BY <2>4 DEF Worker, IdleTTL
  <2> HIDE DEF n3
  <2>6. /\ Applied(s, worker[w].session) \in Logins \cup {Nothing}
        /\ Applied(s, worker[w].session) <= logins
    BY <1>2, <1>3, ServedIsThere DEF Applied, Worker, Browser
  <2>7. /\ n4 \in Worker /\ n4.pc = "page" /\ n4.task = r.task /\ n4.strikes = 0 /\ n4.warm
        /\ n4.idle = 0 /\ n4.session <= logins
    BY <2>5, <2>6 DEF Worker
  <2> HIDE DEF n4
  <2>8. PICK n \in Worker : n = n4
    BY <2>7
  <2>9. Browser(n)
    BY <2>7, <2>8, FreshBrowser DEF IdleTTL
  <2> QED
    BY <1>1, <1>2, <1>3, <2>1, <2>7, <2>8, <2>9, WorkerGoesOn
<1> QED
  BY <1>4, <1>5 DEF Open

LEMMA DiesStep ==
    ASSUME Inv, NEW w \in Workers, WorkerDies(w)
    PROVE  Inv'
<1>1. worker \in [Workers -> Worker]
  BY DEF Inv, Types
<1>2. PICK r \in Worker : r = worker[w]
  BY <1>1
<1>3. Browser(r) /\ UNCHANGED <<userVars, accepted, task, circuit, failed>>
  BY <1>2 DEF Inv, WorkerDies
<1> DEFINE n1 == [worker[w] EXCEPT !.pc = "idle"]
           n2 == [n1 EXCEPT !.task = Fetch]
           n3 == [n2 EXCEPT !.list = {}]
           n4 == [n3 EXCEPT !.warm = FALSE]
           n5 == [n4 EXCEPT !.idle = 0]
           n6 == [n5 EXCEPT !.strikes = 0]
<1>4. worker' = [worker EXCEPT ![w] = n6]
  BY DEF WorkerDies
<1>5. n1 \in Worker /\ n1.session = r.session /\ n1.pc = "idle"
  BY <1>2 DEF Worker
<1> HIDE DEF n1
<1>6. n2 \in Worker /\ n2.session = r.session /\ n2.pc = "idle"
  BY <1>5, TaskCount DEF Worker
<1> HIDE DEF n2
<1>7. n3 \in Worker /\ n3.session = r.session /\ n3.pc = "idle"
  BY <1>6 DEF Worker
<1> HIDE DEF n3
<1>8. n4 \in Worker /\ n4.session = r.session /\ n4.pc = "idle"
  BY <1>7 DEF Worker
<1> HIDE DEF n4
<1>9. n5 \in Worker /\ n5.session = r.session /\ n5.pc = "idle"
  BY <1>8 DEF Worker, IdleTTL
<1> HIDE DEF n5
<1>10. n6 \in Worker /\ n6.session = r.session /\ n6.pc = "idle" /\ n6.strikes = 0
  BY <1>9 DEF Worker
<1> HIDE DEF n6
<1>11. Browser(n6)
  BY <1>3, <1>10, FreshBrowser DEF Browser
<1> QED
  BY <1>3, <1>4, <1>10, <1>11, WorkerGoesOn

LEMMA LogInByHandStep ==
    ASSUME Inv, NEW w \in Workers, LogInByHand(w)
    PROVE  Inv'
<1>1. Types /\ worker \in [Workers -> Worker] /\ logins \in Nat
  BY DEF Inv, Types, Logins
<1>2. PICK r \in Worker : r = worker[w]
  BY <1>1
<1>3. Browser(r) /\ r.pc = "idle" /\ ~r.warm /\ UNCHANGED <<vault, task, circuit, failed>>
  BY <1>2 DEF Inv, LogInByHand
<1>4. r.strikes = 0
  BY <1>3 DEF Browser, Worker
<1>5. logins' = logins + 1 /\ logins' \in Logins /\ accepted' = accepted \cup {logins + 1}
  BY <1>1, SessionsAssumption DEF LogInByHand, LogIn, Logins
<1> DEFINE new == [worker[w] EXCEPT !.session = logins + 1]
<1>6. worker' = [worker EXCEPT ![w] = new]
  BY DEF LogInByHand
<1>7. new \in Worker /\ new.session = logins' /\ new.pc = "idle" /\ new.strikes = 0
  BY <1>2, <1>3, <1>4, <1>5 DEF Worker
<1> HIDE DEF new
<1>8. PICK n \in Worker : n = new
  BY <1>7
<1>9. Browser(n)'
  BY <1>1, <1>5, <1>7, <1>8, TaskCount DEF Browser, Struck
<1>10. /\ logins <= logins' /\ accepted' \subseteq Logins
       /\ accepted' \subseteq accepted \cup {s \in Logins : logins < s}
  BY <1>1, <1>5 DEF Types
<1>11. /\ task' \in [Tasks -> {"none", "pending", "claimed"}] /\ Waiting' = Waiting
       /\ \A t \in Tasks : task[t] = "claimed" => task'[t] = "claimed"
  BY <1>1, <1>3 DEF Types, Waiting
<1> QED
  BY <1>3, <1>5, <1>6, <1>7, <1>8, <1>9, <1>10, <1>11, WorkerMoves

-----------------------------------------------------------------------------
(* A task that is over                                                     *)

\* What becomes of the worker that executed it, and of the others.
LEMMA DoneRecords ==
    ASSUME worker \in [Workers -> Worker], NEW w \in Workers,
           NEW fails \in BOOLEAN, NEW heard \in BOOLEAN, Done(w, fails, heard)
    PROVE  /\ worker' \in [Workers -> Worker]
           /\ worker'[w].pc \in {"idle", "sweep"}
           /\ worker'[w].session = worker[w].session /\ worker'[w].warm = worker[w].warm
           /\ worker'[w].idle = worker[w].idle
           /\ worker'[w].strikes = IF ~heard THEN 0
                                   ELSE IF fails /\ Dead(w) THEN worker[w].strikes + 1
                                   ELSE worker[w].strikes
           /\ \A v \in Workers \ {w} :
                 /\ worker'[v].task = worker[v].task /\ worker'[v].session = worker[v].session
                 /\ worker'[v].warm = worker[v].warm /\ worker'[v].idle = worker[v].idle
                 /\ worker'[v].strikes = worker[v].strikes
                 /\ \/ worker'[v].pc = worker[v].pc
                    \/ worker[v].pc = "sweep" /\ worker'[v].pc = "idle"
<1> DEFINE t == worker[w].task
           n1 == [worker[w] EXCEPT !.pc = IF worker[w].list = {} THEN "idle" ELSE "sweep"]
           n2 == [n1 EXCEPT !.task = Fetch]
           n3 == [n2 EXCEPT !.strikes = IF ~heard THEN 0
                                        ELSE IF fails /\ Dead(w) THEN worker[w].strikes + 1
                                        ELSE worker[w].strikes]
           less(v) == [worker[v] EXCEPT !.list = IF heard THEN worker[v].list \ {t} ELSE worker[v].list]
<1>1. worker' = [v \in Workers |-> IF v = w THEN n3
                                   ELSE IF heard /\ worker[v].pc = "sweep" THEN Drop(v, t)
                                   ELSE less(v)]
  BY DEF Done
<1>2. worker[w] \in Worker
  OBVIOUS
<1>3. /\ n1 \in Worker /\ n1.pc \in {"idle", "sweep"} /\ n1.session = worker[w].session
      /\ n1.warm = worker[w].warm /\ n1.idle = worker[w].idle
  BY <1>2 DEF Worker
<1> HIDE DEF n1
<1>4. /\ n2 \in Worker /\ n2.pc \in {"idle", "sweep"} /\ n2.session = worker[w].session
      /\ n2.warm = worker[w].warm /\ n2.idle = worker[w].idle
  BY <1>3, TaskCount DEF Worker
<1> HIDE DEF n2
<1>5. /\ n3 \in Worker /\ n3.pc \in {"idle", "sweep"} /\ n3.session = worker[w].session
      /\ n3.warm = worker[w].warm /\ n3.idle = worker[w].idle
      /\ n3.strikes = IF ~heard THEN 0
                      ELSE IF fails /\ Dead(w) THEN worker[w].strikes + 1
                      ELSE worker[w].strikes
  BY <1>2, <1>4 DEF Worker
<1>6. ASSUME NEW v \in Workers
      PROVE  /\ less(v) \in Worker /\ less(v).pc = worker[v].pc /\ less(v).task = worker[v].task
             /\ less(v).session = worker[v].session /\ less(v).warm = worker[v].warm
             /\ less(v).idle = worker[v].idle /\ less(v).strikes = worker[v].strikes
  <2>1. worker[v] \in Worker
    OBVIOUS
  <2> QED
    BY <2>1 DEF Worker
<1> HIDE DEF n3, less
<1>7. worker' \in [Workers -> Worker]
  <2>1. ASSUME NEW v \in Workers
        PROVE  (IF v = w THEN n3 ELSE IF heard /\ worker[v].pc = "sweep" THEN Drop(v, t) ELSE less(v)) \in Worker
    <3>1. Drop(v, t) \in Worker
      BY Dropped
    <3> QED
      BY <1>5, <1>6, <3>1
  <2> QED
    BY <1>1, <2>1
<1>8. worker'[w] = n3
  BY <1>1
<1>9. ASSUME NEW v \in Workers \ {w}
      PROVE  /\ worker'[v].task = worker[v].task /\ worker'[v].session = worker[v].session
             /\ worker'[v].warm = worker[v].warm /\ worker'[v].idle = worker[v].idle
             /\ worker'[v].strikes = worker[v].strikes
             /\ \/ worker'[v].pc = worker[v].pc
                \/ worker[v].pc = "sweep" /\ worker'[v].pc = "idle"
  <2>1. CASE heard /\ worker[v].pc = "sweep"
    <3>1. worker'[v] = Drop(v, t)
      BY <1>1, <2>1
    <3> QED
      BY <2>1, <3>1, Dropped
  <2>2. CASE ~(heard /\ worker[v].pc = "sweep")
    <3>1. worker'[v] = less(v)
      BY <1>1, <2>2
    <3> QED
      BY <1>6, <3>1
  <2> QED
    BY <2>1, <2>2
<1> QED
  BY <1>5, <1>7, <1>8, <1>9

\* A browser whose worker had no hand in it.
LEMMA SameButList ==
    ASSUME NEW r \in Worker, NEW n \in Worker, Browser(r),
           n.session = r.session, n.warm = r.warm, n.idle = r.idle, n.strikes = r.strikes,
           n.pc = r.pc \/ (r.pc = "sweep" /\ n.pc = "idle")
    PROVE  Browser(n)
<1>1. CASE n.pc = r.pc
  BY <1>1 DEF Browser, Struck, Since
<1>2. CASE r.pc = "sweep" /\ n.pc = "idle"
  BY <1>2, SameBrowser
<1> QED
  BY <1>1, <1>2

\* What the failures of a browser are counted by may change in its favour.
LEMMA PassOn ==
    ASSUME logins' = logins, accepted' = accepted,
           \A r \in Worker : r.idle <= IdleTTL /\ Struck(r) => Struck(r)'
    PROVE  \A r \in Worker : Browser(r) => Browser(r)'
BY DEF Browser

LEMMA DoneClaims ==
    ASSUME Inv, NEW w \in Workers, worker[w].pc = "page",
           NEW fails \in BOOLEAN, NEW heard \in BOOLEAN, Done(w, fails, heard)
    PROVE  /\ task' \in [Tasks -> {"none", "pending", "claimed"}] /\ Claims'
           /\ worker[w].task \in Waiting
           /\ heard => Waiting' \subseteq Waiting \ {worker[w].task}
           /\ ~heard => Waiting' = Waiting
<1> DEFINE t == worker[w].task
<1>1. /\ task \in [Tasks -> {"none", "pending", "claimed"}] /\ worker \in [Workers -> Worker]
      /\ Claims /\ AtWork(w)
  BY DEF Inv, Types, AtWork
<1>2. t \in Tasks /\ task[t] = "claimed"
  BY <1>1 DEF Worker, Claims
<1>3. task' = IF heard THEN [task EXCEPT ![t] = "none"] ELSE task
  BY DEF Done
<1>4. task' \in [Tasks -> {"none", "pending", "claimed"}]
  BY <1>1, <1>3
<1>5. Claims'
  <2> SUFFICES ASSUME NEW v \in Workers, AtWork(v)'
               PROVE  /\ task'[worker'[v].task] = "claimed"
                      /\ \A u \in Workers \ {v} : AtWork(u)' => worker'[u].task # worker'[v].task
    BY DEF Claims
  <2>1. worker'[w].pc \in {"idle", "sweep"}
    BY <1>1, DoneRecords
  <2>2. ~AtWork(w)'
    BY <2>1 DEF AtWork
  <2>3. ASSUME NEW u \in Workers, AtWork(u)'
        PROVE  u # w /\ AtWork(u) /\ worker'[u].task = worker[u].task
    <3>1. u # w
      BY <2>2, <2>3
    <3>2. /\ worker'[u].task = worker[u].task
          /\ worker'[u].pc = worker[u].pc \/ worker'[u].pc = "idle"
      BY <1>1, <3>1, DoneRecords
    <3> QED
      BY <2>3, <3>1, <3>2 DEF AtWork
  <2>4. v # w /\ AtWork(v) /\ worker'[v].task = worker[v].task
    BY <2>3
  <2>5. task[worker[v].task] = "claimed" /\ worker[v].task # t /\ worker[v].task \in Tasks
    BY <1>1, <2>4 DEF Claims, Worker
  <2>6. task'[worker'[v].task] = "claimed"
    BY <1>1, <1>3, <2>4, <2>5
  <2>7. ASSUME NEW u \in Workers \ {v}, AtWork(u)' PROVE worker'[u].task # worker'[v].task
    <3>1. AtWork(u) /\ worker'[u].task = worker[u].task
      BY <2>3, <2>7
    <3> QED
      BY <1>1, <2>4, <3>1 DEF Claims
  <2> QED
    BY <2>6, <2>7
<1>6. t \in Waiting /\ (heard => Waiting' \subseteq Waiting \ {t}) /\ (~heard => Waiting' = Waiting)
  BY <1>1, <1>2, <1>3 DEF Waiting
<1> QED
  BY <1>4, <1>5, <1>6

\* When a task is over, and the browser that it was executed in is not on a dead
\* session, or else as the last conjunct has it.
LEMMA DoneStep ==
    ASSUME Inv, NEW w \in Workers, worker[w].pc = "page",
           NEW fails \in BOOLEAN, NEW heard \in BOOLEAN, Done(w, fails, heard),
           UNCHANGED <<userVars, accepted>>, Ages',
           circuit' \in [state : {"closed", "open", "half_open"}, age : 0 .. Cooldown + 1],
           \A r \in Worker : r.idle <= IdleTTL /\ Struck(r) => Struck(r)',
           \A n \in Worker :
              worker'[w] = n /\ n.strikes > 0
                 => n.session \notin accepted /\ n.strikes <= Round /\ Struck(n)'
    PROVE  Inv'
<1>1. Types /\ worker \in [Workers -> Worker] /\ UNCHANGED <<vault, logins, accepted>>
  BY DEF Inv, Types, userVars
<1>2. Types' /\ worker' \in [Workers -> Worker]
  <2>1. task' \in [Tasks -> {"none", "pending", "claimed"}] /\ worker' \in [Workers -> Worker]
    BY <1>1, DoneClaims, DoneRecords
  <2> QED
    BY <1>1, <2>1 DEF Types
<1>3. Claims' /\ Kept'
  BY <1>1, DoneClaims DEF Inv, Kept
<1>4. ASSUME NEW v \in Workers, NEW n \in Worker, worker'[v] = n PROVE Browser(n)'
  <2>1. PICK r \in Worker : r = worker[v]
    BY <1>1
  <2>2. Browser(r)
    BY <2>1 DEF Inv
  <2>3. CASE v # w
    <3>1. /\ n.session = r.session /\ n.warm = r.warm /\ n.idle = r.idle /\ n.strikes = r.strikes
          /\ n.pc = r.pc \/ (r.pc = "sweep" /\ n.pc = "idle")
      BY <1>1, <1>4, <2>1, <2>3, DoneRecords
    <3>2. Browser(n)
      BY <2>2, <3>1, SameButList
    <3> QED
      BY <1>1, <3>2, PassOn
  <2>4. CASE v = w
    <3>1. /\ n.session = r.session /\ n.warm = r.warm /\ n.idle = r.idle
          /\ n.pc \in {"idle", "sweep"} /\ r.pc = "page"
      BY <1>1, <1>4, <2>1, <2>4, DoneRecords
    <3>2. r.warm /\ r.idle = 0 /\ r.session <= logins
      BY <2>2, <3>1 DEF Browser
    <3>3. n.warm /\ n.idle = 0 /\ n.session <= logins /\ n.pc # "page" /\ n.strikes \in Nat
      BY <3>1, <3>2 DEF Worker
    <3>4. CASE n.strikes > 0
      BY <1>1, <1>4, <2>4, <3>3, <3>4 DEF Browser, IdleTTL
    <3>5. CASE n.strikes = 0
      <4>1. Browser(n)
        BY <3>3, <3>5, FreshBrowser DEF IdleTTL
      <4> QED
        BY <1>1, <4>1, PassOn
    <3> QED
      BY <3>3, <3>4, <3>5
  <2> QED
    BY <2>3, <2>4
<1> QED
  BY <1>2, <1>3, <1>4, Parts

LEMMA UnheardStep ==
    ASSUME Inv, NEW w \in Workers, FailUnheard(w)
    PROVE  Inv'
<1>1. /\ worker[w].pc = "page" /\ Done(w, TRUE, FALSE)
      /\ UNCHANGED <<userVars, accepted, circuit, failed>>
  BY DEF FailUnheard
<1>2. Ages' /\ circuit' \in [state : {"closed", "open", "half_open"}, age : 0 .. Cooldown + 1]
  BY <1>1 DEF Inv, Ages, Types
<1>3. Waiting' = Waiting
  BY <1>1, DoneClaims
<1>4. \A r \in Worker : r.idle <= IdleTTL /\ Struck(r) => Struck(r)'
  BY <1>1, <1>3 DEF Struck, Since
<1>5. worker'[w].strikes = 0
  BY <1>1, DoneRecords DEF Inv, Types
<1>6. \A n \in Worker : ~(worker'[w] = n /\ n.strikes > 0)
  BY <1>5
<1> QED
  BY <1>1, <1>2, <1>4, <1>6, DoneStep

LEMMA SucceedStep ==
    ASSUME Inv, NEW w \in Workers, Succeed(w)
    PROVE  Inv'
<1>1. /\ worker[w].pc = "page" /\ ~Dead(w) /\ Done(w, FALSE, TRUE)
      /\ UNCHANGED <<userVars, accepted, circuit, failed>>
  BY DEF Succeed
<1>2. Ages' /\ circuit' \in [state : {"closed", "open", "half_open"}, age : 0 .. Cooldown + 1]
  BY <1>1 DEF Inv, Ages, Types
<1>3. Waiting' \subseteq Waiting
  BY <1>1, DoneClaims
<1>4. /\ Cardinality(Waiting') \in Nat /\ Cardinality(Waiting) \in Nat
      /\ Cardinality(Waiting') <= Cardinality(Waiting)
  BY <1>3, WaitingCount, Fewer
<1>5. ASSUME NEW r \in Worker, r.idle <= IdleTTL, Struck(r) PROVE Struck(r)'
  <2>1. r.strikes \in Nat /\ Round \in Nat
    BY TaskCount DEF Worker
  <2> QED
    BY <1>1, <1>4, <1>5, <2>1 DEF Struck, Since
<1>6. PICK r \in Worker : r = worker[w]
  BY DEF Inv, Types
<1>7. r.strikes = 0
  <2>1. Browser(r) /\ r.session \in accepted
    BY <1>1, <1>6 DEF Inv, Dead
  <2> QED
    BY <2>1 DEF Browser, Worker
<1>8. worker'[w].strikes = 0
  BY <1>1, <1>6, <1>7, DoneRecords DEF Inv, Types
<1>9. \A x \in Worker : x.idle <= IdleTTL /\ Struck(x) => Struck(x)'
  BY <1>5
<1>10. \A n \in Worker : ~(worker'[w] = n /\ n.strikes > 0)
  BY <1>8
<1> QED
  BY <1>1, <1>2, <1>9, <1>10, DoneStep

\* A browser that is not the third time on a dead session: its failures are
\* older by one.
LEMMA FailedStruck ==
    ASSUME Inv, failed' = Failed, circuit' \in {circuit, [state |-> "open", age |-> 0]},
           Waiting' \subseteq Waiting
    PROVE  \A r \in Worker : r.idle <= IdleTTL /\ Struck(r) => Struck(r)'
<1> SUFFICES ASSUME NEW r \in Worker, r.idle <= IdleTTL, Struck(r) PROVE Struck(r)'
  OBVIOUS
<1>1. /\ Cardinality(Waiting') \in Nat /\ Cardinality(Waiting) \in Nat
      /\ Cardinality(Waiting') <= Cardinality(Waiting)
  BY WaitingCount, Fewer
<1>2. /\ r.strikes \in Nat /\ Round \in Nat /\ Since(r) \in Nat
      /\ failed \in Seq(0 .. Window) /\ Len(failed) \in Nat /\ Len(failed) <= 3
  BY TaskCount, LenProperties DEF Worker, Since, IdleTTL, Inv, Ages, Threshold
<1>3. Ages
  BY DEF Inv
<1>4. /\ Len(failed') >= 1 /\ failed'[1] = 0
      /\ Len(failed) >= 1 => Len(failed') >= 2
      /\ \A i \in 1 .. Len(failed') : i # 1 => failed'[i] = failed[i - 1]
  BY <1>2, <1>3, FailedNow DEF Threshold
<1>5. r.strikes >= 2 => Len(failed') >= 2 /\ failed'[2] <= Since(r) + IdleTTL
  <2> SUFFICES ASSUME r.strikes >= 2 PROVE Len(failed') >= 2 /\ failed'[2] <= Since(r) + IdleTTL
    OBVIOUS
  <2>1. Len(failed) >= 1 /\ failed[1] <= Since(r)
    BY <1>2 DEF Struck
  <2>2. failed[1] \in 0 .. Window
    <3>1. 1 \in 1 .. Len(failed)
      BY <1>2, <2>1
    <3> QED
      BY <1>2, <3>1, ElementOfSeq
  <2>3. Len(failed') \in Nat /\ Len(failed') >= 2
    BY <1>3, <1>4, <2>1, FailedNow, LenProperties
  <2>4. failed'[2] = failed[1]
    BY <1>4, <2>3
  <2> QED
    BY <1>2, <2>1, <2>2, <2>3, <2>4 DEF IdleTTL
<1>6. r.strikes >= 3 => /\ circuit'.state = "open" /\ circuit'.age <= Since(r)
                        /\ r.strikes + Cardinality(Waiting') <= Round
  BY <1>1, <1>2 DEF Struck
<1>7. r.strikes >= 1 => Len(failed') >= 1 /\ failed'[1] <= Since(r)
  BY <1>2, <1>4
<1> QED
  BY <1>5, <1>6, <1>7 DEF Struck, Since

\* The third failure in a row on a dead session opens the circuit; each further
\* one takes a task from those that wait.
LEMMA StrikeStep ==
    ASSUME Inv, NEW w \in Workers, Fail(w), Dead(w)
    PROVE  \A n \in Worker :
              worker'[w] = n => /\ n.session \notin accepted /\ n.strikes <= Round /\ Struck(n)'
<1> SUFFICES ASSUME NEW n \in Worker, worker'[w] = n
             PROVE  n.session \notin accepted /\ n.strikes <= Round /\ Struck(n)'
  OBVIOUS
<1>1. PICK r \in Worker : r = worker[w]
  BY DEF Inv, Types
<1>2. Browser(r) /\ r.pc = "page" /\ Done(w, TRUE, TRUE) /\ failed' = Failed
  BY <1>1 DEF Inv, Fail
<1>3. /\ n.session = r.session /\ n.idle = r.idle /\ n.pc \in {"idle", "sweep"}
      /\ n.strikes = r.strikes + 1
  BY <1>1, <1>2, DoneRecords DEF Inv, Types
<1>4. r.idle = 0 /\ Since(r) = 2 /\ Since(n) = 0 /\ Struck(r) /\ r.strikes <= Round
  BY <1>2, <1>3 DEF Browser, Since, IdleTTL
<1>5. n.session \notin accepted
  BY <1>1, <1>3 DEF Dead
<1>6. /\ r.strikes \in Nat /\ Round \in Nat /\ Round = Cardinality(Tasks) + 2
      /\ Cardinality(Tasks) \in Nat
      /\ failed \in Seq(0 .. Window) /\ Len(failed) \in Nat /\ Len(failed) <= 3 /\ Ages
  BY TaskCount, LenProperties DEF Worker, Inv, Ages, Threshold
<1>7. /\ failed' \in Seq(0 .. Window) /\ Len(failed') \in Nat /\ Len(failed') >= 1 /\ failed'[1] = 0
      /\ Len(failed') = IF Len(failed) < 3 THEN Len(failed) + 1 ELSE 3
      /\ \A i \in 1 .. Len(failed') : i # 1 => failed'[i] = failed[i - 1]
  BY <1>2, <1>6, FailedNow, LenProperties DEF Threshold
<1>8. \A i \in 1 .. Len(failed) : failed[i] \in 0 .. 4
  BY <1>6, ElementOfSeq DEF Window
<1>9. n.strikes >= 2 => Len(failed') >= 2 /\ failed'[2] <= 2
  BY <1>3, <1>4, <1>6, <1>7 DEF Struck
<1>10. /\ worker[w].task \in Waiting /\ Waiting' \subseteq Waiting \ {worker[w].task}
       /\ IsFiniteSet(Waiting) /\ Waiting \subseteq Tasks /\ IsFiniteSet(Tasks)
  BY <1>1, <1>2, DoneClaims, WaitingCount, TaskCount
<1>11. /\ Cardinality(Waiting') \in Nat /\ Cardinality(Waiting) \in Nat
       /\ Cardinality(Waiting') <= Cardinality(Waiting) - 1
       /\ Cardinality(Waiting) <= Cardinality(Tasks)
  BY <1>10, OneLess, Fewer
<1>12. n.strikes >= 3 => circuit' = [state |-> "open", age |-> 0]
  <2> SUFFICES ASSUME n.strikes >= 3 PROVE circuit' = [state |-> "open", age |-> 0]
    OBVIOUS
  <2>1. Len(failed) >= 2 /\ Len(failed') = 3
    BY <1>3, <1>4, <1>6, <1>7 DEF Struck
  <2>2. \A i \in 1 .. 3 : failed'[i] <= 4
    BY <1>6, <1>7, <1>8, <2>1
  <2>3. DOMAIN failed' = 1 .. 3
    BY <1>7, <2>1, LenProperties
  <2>4. Recent(Failed) = 1 .. 3
    <3>1. Recent(failed') = {i \in 1 .. 3 : failed'[i] <= 4}
      BY <2>3 DEF Recent, Window
    <3>2. Recent(failed') = 1 .. 3
      BY <2>2, <3>1
    <3> QED
      BY <1>2, <3>2
  <2>5. Cardinality(1 .. 3) = 3
    <3>1. 1 \in Int /\ 3 \in Int
      OBVIOUS
    <3>2. Cardinality(1 .. 3) = IF 1 > 3 THEN 0 ELSE 3 - 1 + 1
      BY <3>1, FS_Interval, Zenon
    <3> QED
      BY <3>2
  <2> QED
    BY <2>4, <2>5 DEF Fail, Threshold
<1>13. n.strikes >= 3 => n.strikes + Cardinality(Waiting') <= Round
  <2>1. CASE r.strikes >= 3
    BY <1>3, <1>4, <1>6, <1>11, <2>1 DEF Struck
  <2>2. CASE ~(r.strikes >= 3)
    BY <1>3, <1>6, <1>11, <2>2
  <2> QED
    BY <2>1, <2>2
<1>14. n.strikes <= Round
  BY <1>3, <1>6, <1>11, <1>13, TaskCount
<1>15. Struck(n)'
  BY <1>3, <1>4, <1>7, <1>9, <1>12, <1>13 DEF Struck, Since, IdleTTL
<1> QED
  BY <1>5, <1>14, <1>15

LEMMA FailStep ==
    ASSUME Inv, NEW w \in Workers, Fail(w)
    PROVE  Inv'
<1>1. /\ worker[w].pc = "page" /\ Done(w, TRUE, TRUE) /\ failed' = Failed
      /\ UNCHANGED <<userVars, accepted>>
      /\ circuit' \in {circuit, [state |-> "open", age |-> 0]}
  BY DEF Fail
<1>2. Ages'
  <2>1. Ages
    BY DEF Inv
  <2> QED
    BY <1>1, <2>1, FailedNow, FailedSorted DEF Ages
<1>3. circuit' \in [state : {"closed", "open", "half_open"}, age : 0 .. Cooldown + 1]
  <2>1. 0 \in 0 .. Cooldown + 1
    BY DEF Cooldown
  <2>2. [state |-> "open", age |-> 0] \in [state : {"closed", "open", "half_open"}, age : 0 .. Cooldown + 1]
    BY <2>1
  <2> QED
    BY <1>1, <2>2 DEF Inv, Types
<1>4. Waiting' \subseteq Waiting
  BY <1>1, DoneClaims
<1>5. \A r \in Worker : r.idle <= IdleTTL /\ Struck(r) => Struck(r)'
  BY <1>1, <1>4, FailedStruck
<1>6. \A n \in Worker :
         worker'[w] = n /\ n.strikes > 0
            => n.session \notin accepted /\ n.strikes <= Round /\ Struck(n)'
  <2>1. CASE Dead(w)
    BY <2>1, StrikeStep
  <2>2. CASE ~Dead(w)
    <3>1. Browser(worker[w]) /\ worker[w] \in Worker
      BY DEF Inv, Types
    <3>2. worker[w].strikes = 0
      BY <2>2, <3>1 DEF Browser, Worker, Dead
    <3>3. worker'[w].strikes = 0
      BY <1>1, <2>2, <3>2, DoneRecords DEF Inv, Types
    <3> QED
      BY <3>3
  <2> QED
    BY <2>1, <2>2
<1> QED
  BY <1>1, <1>2, <1>3, <1>5, <1>6, DoneStep

-----------------------------------------------------------------------------
(* Time                                                                    *)

LEMMA TickStep ==
    ASSUME Inv, ~Busy, Tick
    PROVE  Inv'
<1>1. /\ worker \in [Workers -> Worker] /\ Types /\ Ages
      /\ UNCHANGED <<vault, logins, accepted, task>>
  BY DEF Inv, Types, Tick, userVars
<1>2. \A w \in Workers : worker[w].pc = "idle"
  BY DEF Tick
<1>3. /\ Ages'
      /\ \A i \in 1 .. Len(failed) : failed[i] < Window
            => i \in 1 .. Len(failed') /\ failed'[i] = failed[i] + 1
  BY <1>1, FailedLater DEF Tick
<1>4. circuit' = [circuit EXCEPT !.age = IF circuit.state = "open" THEN Older(circuit.age, Cooldown + 1)
                                         ELSE circuit.age]
  BY DEF Tick
<1>5. /\ circuit' \in [state : {"closed", "open", "half_open"}, age : 0 .. Cooldown + 1]
      /\ circuit'.state = circuit.state
      /\ circuit.state = "open" => circuit'.age = Older(circuit.age, Cooldown + 1)
  <2>1. Older(circuit.age, Cooldown + 1) \in 0 .. Cooldown + 1
    BY <1>1 DEF Types, Older, Cooldown
  <2> QED
    BY <1>1, <1>4, <2>1 DEF Types
<1>6. ASSUME NEW w \in Workers
      PROVE  /\ worker'[w] \in Worker /\ worker'[w].pc = "idle" /\ worker'[w].session = worker[w].session
             /\ worker'[w].warm = worker[w].warm /\ worker'[w].strikes = worker[w].strikes
             /\ worker'[w].idle = IF worker[w].warm THEN Older(worker[w].idle, IdleTTL + 1)
                                  ELSE worker[w].idle
  <2> DEFINE n == [worker[w] EXCEPT !.idle = IF worker[w].warm THEN Older(worker[w].idle, IdleTTL + 1)
                                             ELSE worker[w].idle]
  <2>1. worker'[w] = n
    BY DEF Tick
  <2>2. Older(worker[w].idle, IdleTTL + 1) \in 0 .. IdleTTL + 1
    BY <1>1 DEF Worker, Older, IdleTTL
  <2>3. worker[w] \in Worker
    BY <1>1
  <2>4. /\ n \in Worker /\ n.pc = worker[w].pc /\ n.session = worker[w].session
        /\ n.warm = worker[w].warm /\ n.strikes = worker[w].strikes
        /\ n.idle = IF worker[w].warm THEN Older(worker[w].idle, IdleTTL + 1) ELSE worker[w].idle
    BY <2>2, <2>3 DEF Worker
  <2> HIDE DEF n
  <2> QED
    BY <1>2, <2>1, <2>4
<1>7. Types'
  <2>1. worker' = [w \in Workers |-> worker'[w]]
    BY DEF Tick
  <2>2. worker' \in [Workers -> Worker]
    BY <1>6, <2>1
  <2> QED
    BY <1>1, <1>5, <2>2 DEF Types
<1>8. Claims'
  BY <1>6 DEF Claims, AtWork
<1>9. Kept'
  BY <1>1 DEF Inv, Kept
<1>10. ASSUME NEW w \in Workers, NEW n \in Worker, worker'[w] = n PROVE Browser(n)'
  <2>1. PICK r \in Worker : r = worker[w]
    BY <1>1
  <2>2. Browser(r) /\ r.pc = "idle"
    BY <1>2, <2>1 DEF Inv
  <2>3. /\ n.pc = "idle" /\ n.session = r.session /\ n.warm = r.warm /\ n.strikes = r.strikes
        /\ n.idle = IF r.warm THEN Older(r.idle, IdleTTL + 1) ELSE r.idle
    BY <1>6, <1>10, <2>1
  <2>4. ASSUME n.idle <= IdleTTL PROVE Struck(n)'
    <3>1. CASE r.strikes = 0
      BY <2>3, <3>1 DEF Struck
    <3>2. CASE r.strikes # 0
      <4>1. r.strikes \in Nat /\ r.strikes > 0 /\ r.idle \in 0 .. 3
        BY <3>2 DEF Worker, IdleTTL
      <4>2. r.warm
        BY <2>2, <4>1 DEF Browser
      <4>3. n.idle = r.idle + 1 /\ r.idle <= 1
        BY <2>3, <2>4, <4>1, <4>2 DEF Older, IdleTTL
      <4>4. Struck(r) /\ Since(r) = r.idle /\ Since(n) = r.idle + 1
        BY <2>2, <2>3, <4>1, <4>3 DEF Browser, Since, IdleTTL
      <4>5. failed \in Seq(0 .. Window) /\ Len(failed) \in Nat /\ Len(failed') \in Nat
        BY <1>1, <1>3, LenProperties DEF Ages
      <4>6. \A i \in 1 .. Len(failed) : failed[i] \in Int
        BY <4>5, ElementOfSeq DEF Window
      <4>7. r.strikes >= 1 => Len(failed') >= 1 /\ failed'[1] <= r.idle + 1
        BY <1>3, <4>1, <4>3, <4>4, <4>5, <4>6 DEF Struck, Window
      <4>8. r.strikes >= 2 => Len(failed') >= 2 /\ failed'[2] <= r.idle + 1 + IdleTTL
        <5> SUFFICES ASSUME r.strikes >= 2
                     PROVE  Len(failed') >= 2 /\ failed'[2] <= r.idle + 1 + IdleTTL
          OBVIOUS
        <5>1. Len(failed) >= 2 /\ failed[2] <= r.idle + 2
          BY <4>4 DEF Struck, IdleTTL
        <5>2. 2 \in 1 .. Len(failed) /\ failed[2] \in Int /\ failed[2] < 4
          BY <4>1, <4>3, <4>5, <4>6, <5>1
        <5>3. 2 \in 1 .. Len(failed') /\ failed'[2] = failed[2] + 1
          BY <1>3, <5>2 DEF Window
        <5> QED
          BY <4>1, <4>5, <5>1, <5>2, <5>3 DEF IdleTTL
      <4>9. r.strikes >= 3 => /\ circuit'.state = "open" /\ circuit'.age <= r.idle + 1
                              /\ r.strikes + Cardinality(Waiting) <= Round
        <5>1. circuit.age \in 0 .. 3
          BY <1>1 DEF Types, Cooldown
        <5> QED
          BY <1>5, <4>1, <4>3, <4>4, <5>1 DEF Struck, Older, Cooldown
      <4>10. Waiting' = Waiting
        BY <1>1 DEF Waiting
      <4> QED
        BY <2>3, <4>4, <4>7, <4>8, <4>9, <4>10 DEF Struck, Since
    <3> QED
      BY <3>1, <3>2
  <2>5. /\ n.session <= logins' /\ n.strikes <= Round
        /\ n.strikes > 0 => n.warm /\ n.session \notin accepted'
    BY <1>1, <2>2, <2>3 DEF Browser
  <2> QED
    BY <2>3, <2>4, <2>5 DEF Browser
<1> QED
  BY <1>3, <1>7, <1>8, <1>9, <1>10, Parts

-----------------------------------------------------------------------------
LEMMA NextStep ==
    ~Busy => (Inv /\ [SessionsNext]_sessionsVars => Inv')
<1> SUFFICES ASSUME ~Busy, Inv, [SessionsNext]_sessionsVars PROVE Inv'
  OBVIOUS
<1>1. CASE UNCHANGED sessionsVars
  BY <1>1 DEF sessionsVars, userVars, Inv, Types, Ages, Claims, Kept, AtWork, Browser, Struck, Since, Waiting
<1>2. ASSUME NEW w \in Workers, LogInByHand(w) \/ Work(w) \/ WorkerDies(w) PROVE Inv'
  BY <1>2, LogInByHandStep, DiesStep, SweepStep, SkipStep, OpenStep, SucceedStep, FailStep,
     UnheardStep, ClaimStep DEF Work
<1>3. ASSUME Beat \/ (\E t \in Errands : Request(t)) \/ (\E t \in Tasks : Reclaim(t)) PROVE Inv'
  BY <1>3, BeatStep, EnqueueStep, ReclaimStep DEF Request, Tasks
<1> QED
  BY <1>1, <1>2, <1>3, UserStep, ExpireStep, TickStep DEF SessionsNext

\* Everything the count of failures rests on, in every reachable state, while
\* workers are up to their sweeps.
THEOREM Invariant == ~Busy => (SessionsSpec => []Inv)
<1> SUFFICES ASSUME ~Busy PROVE SessionsSpec => []Inv
  OBVIOUS
<1>1. Inv /\ [SessionsNext]_sessionsVars => Inv'
  BY NextStep
<1> QED
  BY <1>1, Inits, PTL DEF SessionsSpec

\* A browser on a dead session fails a bounded number of tasks, one for each that
\* may wait and two more, whatever the platform, the user and other workers do.
THEOREM DeadBrowsersEnd == ~Busy => (SessionsSpec => []DeadBrowserGivenUp)
<1> SUFFICES ASSUME ~Busy PROVE SessionsSpec => []DeadBrowserGivenUp
  OBVIOUS
<1>1. Inv => DeadBrowserGivenUp
  BY DEF Inv, Browser, DeadBrowserGivenUp
<1> QED
  BY <1>1, Invariant, PTL
=============================================================================
