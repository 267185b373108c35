--------------------------- MODULE CircuitBreaker ---------------------------
(***************************************************************************)
(* The circuit breaker of backend/app/circuit_breaker.py, for one platform *)
(* and one tenant: two scopes, whose state lives in Redis, with a copy in  *)
(* every process that counts while Redis does not answer (cache.py).       *)
(*                                                                         *)
(* check reads a scope, may move it on to half_open, and takes the trial   *)
(* token, each with a Redis command of its own, so the checks of two       *)
(* processes interleave between them.  A module that uses the breaker      *)
(* EXTENDS this one, starts checks with BeginCheck and reads its verdict.  *)
(*                                                                         *)
(* Time is abstracted: "cooled" is an open circuit whose cooldown has      *)
(* elapsed, and trial tokens lapse at any time.  mode chooses, once, what  *)
(* makes a run hard: operations that overlap, outages of Redis, or neither *)
(* (calm).                                                                 *)
(***************************************************************************)
EXTENDS Naturals, FiniteSets

CONSTANTS Procs,      \* processes: API server, Celery workers
          MaxTrips,   \* bound: openings of the circuit
          MaxOutages  \* bound: outages of Redis

VARIABLES up,         \* Redis answers
          outages,    \* history: outages so far
          shared,     \* shared[s]: the circuit's key in Redis
          mine,       \* mine[p][s]: _local of process p
          token,      \* token[s]: the trial token in Redis is taken
          ownToken,   \* ownToken[p][s]: _local_trials of p
          chk,        \* chk[p]: the check process p is in, or its verdict
          mode,       \* calm, overlap, outage
          trips,      \* history: openings so far
          halted,     \* halted[s]: history: opened, and the cooldown not elapsed
          onTrial     \* onTrial[s]: history: processes that took the shared token

breaker == <<up, outages, shared, mine, token, ownToken, chk, mode, trips, halted, onTrial>>

\* The platform-wide scope is asked first.
Scopes == {"all", "tenant"}

\* What a key or a copy holds; "none": nothing.
States == {"none", "closed", "open", "cooled", "half_open"}

Check == [pc : {"idle", "look", "half", "token", "admitted", "refused"}, scope : Scopes]

NoCheck == [pc |-> "idle", scope |-> "all"]

BreakerInit ==
    /\ up = TRUE /\ outages = 0
    /\ shared = [s \in Scopes |-> "none"] /\ mine = [p \in Procs |-> [s \in Scopes |-> "none"]]
    /\ token = [s \in Scopes |-> FALSE] /\ ownToken = [p \in Procs |-> [s \in Scopes |-> FALSE]]
    /\ chk = [p \in Procs |-> NoCheck]
    /\ mode \in {"calm", "overlap", "outage"} /\ trips = 0
    /\ halted = [s \in Scopes |-> FALSE] /\ onTrial = [s \in Scopes |-> {}]

\* get_state: the key, or the process's own copy when there is none to read.
State(p, s) == IF up /\ shared[s] # "none" THEN shared[s] ELSE mine[p][s]

\* Mutant of Write: only the process itself learns of it.
WriteOwn(p, s, state) ==
    /\ mine' = [mine EXCEPT ![p][s] = state]
    /\ UNCHANGED shared

\* transition writes both.
Write(p, s, state) ==
    /\ mine' = [mine EXCEPT ![p][s] = state]
    /\ shared' = IF up THEN [shared EXCEPT ![s] = state] ELSE shared

-----------------------------------------------------------------------------
(* check and is_closed                                                     *)

Checking(p, pc) == chk[p].pc = pc

BeginCheck(p) ==
    /\ Checking(p, "idle")
    /\ chk' = [chk EXCEPT ![p] = [pc |-> "look", scope |-> "all"]]

\* The scope lets the task pass: the next scope is asked, if there is one.
Pass(p) ==
    chk' = [chk EXCEPT ![p] = IF @.scope = "all" THEN [pc |-> "look", scope |-> "tenant"]
                              ELSE [@ EXCEPT !.pc = "admitted"]]

Refuse(p) == chk' = [chk EXCEPT ![p].pc = "refused"]

Look(p) ==
    LET state == State(p, chk[p].scope)
    IN  /\ Checking(p, "look")
        /\ \/ state \in {"none", "closed"} /\ Pass(p)
           \/ state = "open" /\ Refuse(p)
           \/ state = "cooled" /\ chk' = [chk EXCEPT ![p].pc = "half"]
           \/ state = "half_open" /\ chk' = [chk EXCEPT ![p].pc = "token"]
        /\ UNCHANGED <<up, outages, shared, mine, token, ownToken, mode, trips, halted, onTrial>>

\* The cooldown has elapsed: whatever the circuit is by now, a trial follows.
HalfOpen(p) ==
    /\ Checking(p, "half")
    /\ Write(p, chk[p].scope, "half_open")
    /\ chk' = [chk EXCEPT ![p].pc = "token"]
    /\ UNCHANGED <<up, outages, token, ownToken, mode, trips, halted, onTrial>>

\* Mutant of Acquire: the token is looked at and taken without NX.
AcquireAlways(p) ==
    /\ Checking(p, "token") /\ up
    /\ token' = [token EXCEPT ![chk[p].scope] = TRUE]
    /\ onTrial' = [onTrial EXCEPT ![chk[p].scope] = @ \cup {p}]
    /\ Pass(p)
    /\ UNCHANGED <<up, outages, shared, mine, ownToken, mode, trips, halted>>

\* _acquire_trial: SET NX, or the process's own token while Redis is away.
\* A token stays taken when the other scope refuses the task afterwards.
Acquire(p) ==
    LET s == chk[p].scope
    IN  /\ Checking(p, "token")
        /\ \/ /\ up /\ ~token[s]
              /\ token' = [token EXCEPT ![s] = TRUE]
              /\ onTrial' = [onTrial EXCEPT ![s] = @ \cup {p}]
              /\ Pass(p) /\ UNCHANGED ownToken
           \/ /\ ~up /\ ~ownToken[p][s]
              /\ ownToken' = [ownToken EXCEPT ![p][s] = TRUE]
              /\ Pass(p) /\ UNCHANGED <<token, onTrial>>
           \/ /\ IF up THEN token[s] ELSE ownToken[p][s]
              /\ Refuse(p) /\ UNCHANGED <<token, ownToken, onTrial>>
        /\ UNCHANGED <<up, outages, shared, mine, mode, trips, halted>>

-----------------------------------------------------------------------------
(* transition out of half_open, and time                                   *)

\* _release_trial
FreeSlot(p, s) ==
    /\ ownToken' = [ownToken EXCEPT ![p][s] = FALSE]
    /\ token' = IF up THEN [token EXCEPT ![s] = FALSE] ELSE token
    /\ onTrial' = IF up THEN [onTrial EXCEPT ![s] = {}] ELSE onTrial

\* The third failure of the tenant's tasks within an hour
\* (complete_stealth_task), or the platform's kill switch (set_circuit).
Open(p, s) ==
    /\ trips < MaxTrips
    /\ Write(p, s, "open") /\ FreeSlot(p, s)
    /\ trips' = trips + 1 /\ halted' = [halted EXCEPT ![s] = TRUE]
    /\ UNCHANGED <<up, outages, chk, mode>>

\* set_circuit closes the platform-wide scope; nothing closes a tenant's.
Close(p) ==
    /\ State(p, "all") \notin {"none", "closed"}
    /\ Write(p, "all", "closed") /\ FreeSlot(p, "all")
    /\ halted' = [halted EXCEPT !["all"] = FALSE]
    /\ UNCHANGED <<up, outages, chk, mode, trips>>

\* DEFAULT_COOLDOWN_SEC after the opening.
Cool(s) ==
    /\ halted[s]
    /\ halted' = [halted EXCEPT ![s] = FALSE]
    /\ shared' = [shared EXCEPT ![s] = IF @ = "open" THEN "cooled" ELSE @]
    /\ mine' = [p \in Procs |-> [mine[p] EXCEPT ![s] = IF @ = "open" THEN "cooled" ELSE @]]
    /\ UNCHANGED <<up, outages, token, ownToken, chk, mode, trips, onTrial>>

\* Mutant of TokenLapses: the token is set without a lifetime.
TokenStays(s) ==
    /\ FALSE
    /\ UNCHANGED breaker

\* TRIAL_TOKEN_TTL
TokenLapses(s) ==
    /\ token[s]
    /\ token' = [token EXCEPT ![s] = FALSE] /\ onTrial' = [onTrial EXCEPT ![s] = {}]
    /\ UNCHANGED <<up, outages, shared, mine, ownToken, chk, mode, trips, halted>>

OwnTokenLapses(p, s) ==
    /\ ownToken[p][s]
    /\ ownToken' = [ownToken EXCEPT ![p][s] = FALSE]
    /\ UNCHANGED <<up, outages, shared, mine, token, chk, mode, trips, halted, onTrial>>

\* Redis stops answering, and comes back with what it held.
Outage ==
    /\ mode = "outage" /\ (up => outages < MaxOutages)
    /\ up' = ~up /\ outages' = IF up THEN outages + 1 ELSE outages
    /\ UNCHANGED <<shared, mine, token, ownToken, chk, mode, trips, halted, onTrial>>

CheckStep(p) == Look(p) \/ HalfOpen(p) \/ Acquire(p)

-----------------------------------------------------------------------------
BreakerTypeOK ==
    /\ up \in BOOLEAN /\ outages \in 0 .. MaxOutages /\ mode \in {"calm", "overlap", "outage"} /\ trips \in 0 .. MaxTrips
    /\ shared \in [Scopes -> States] /\ mine \in [Procs -> [Scopes -> States]]
    /\ token \in [Scopes -> BOOLEAN] /\ ownToken \in [Procs -> [Scopes -> BOOLEAN]]
    /\ chk \in [Procs -> Check]
    /\ halted \in [Scopes -> BOOLEAN] /\ onTrial \in [Scopes -> SUBSET Procs]

\* The shared trial token admits one task until it lapses or the circuit
\* moves on, however the checks of the processes interleave.
OneTrial == \A s \in Scopes : Cardinality(onTrial[s]) <= 1

\* While checks and openings do not overlap and Redis answers, a circuit
\* that was opened, by whichever process, admits nobody before its cooldown.
CooldownHolds ==
    [][mode = "calm" => \A p \in Procs : chk[p].pc # "admitted" /\ chk'[p].pc = "admitted"
                                   => \A s \in Scopes : ~halted[s]]_breaker
=============================================================================
