------------------------------ MODULE Sessions ------------------------------
(***************************************************************************)
(* The browser session of a tenant on a platform: enrolled by the user     *)
(* into the vault (routers/credentials.py), served to a worker that        *)
(* executes a task (routers/gigs.py), kept warm in the worker's browser    *)
(* (worker/browser.py), and dead one day.                                  *)
(*                                                                         *)
(* A warm browser is not seeded again: a session that was re-enrolled      *)
(* takes effect when the dead one's browser is closed for being idle, and  *)
(* it is idle because its failures open the tenant's circuit.  Time goes   *)
(* in quarters of an hour.                                                 *)
(***************************************************************************)
EXTENDS Integers, FiniteSets, Sequences

CONSTANTS Workers,
          Accounts,    \* the tenant's accounts on the platform, 1 the oldest
          Fetch,       \* the task of the beat, which does not pile up
          Errands,     \* bound: other tasks waiting at a time
          MaxLogins,   \* bound: sessions that the user ever starts
          MaxEvents,   \* bound: changes to the accounts and the vault, workers that
                       \* die and reports that never arrive
          Busy         \* whether other tenants' tasks come between in a sweep

ASSUME SessionsAssumption ==
    /\ IsFiniteSet(Errands)
    /\ Accounts \subseteq Nat \ {0} /\ Accounts # {} /\ Fetch \notin Errands
    /\ Busy \in BOOLEAN /\ MaxLogins \in Nat \ {0} /\ MaxEvents \in Nat

Threshold == 3    \* STEALTH_FAILURE_THRESHOLD
Window    == 4    \* STEALTH_FAILURE_WINDOW
Cooldown  == 2    \* DEFAULT_COOLDOWN_SEC
IdleTTL   == 2    \* WORKER_CONTEXT_IDLE_SEC

Tasks  == {Fetch} \cup Errands
Logins == 1 .. MaxLogins

\* What the vault or a browser profile holds beside the session of a login.
Nothing  == 0
Password == -1

VARIABLES account,    \* PlatformAccount rows
          vault,      \* vault[a]: the secrets stored for account a
          leaving,    \* accounts whose secrets are gone and reference is not yet
          accepted,   \* the logins that the platform still accepts
          logins,     \* how many there were
          task,       \* task[t]: a stealth task
          circuit,    \* the tenant's circuit, and for how long it is open
          failed,     \* the ages of the latest failed tasks, latest first
          worker,     \* worker[w]: a worker and its browser for the tenant
          left        \* bound: events to come

userVars == <<account, vault, leaving, logins>>
sessionsVars == <<userVars, accepted, task, circuit, failed, worker, left>>

Account == [active : BOOLEAN, ref : BOOLEAN]

\* session: of the browser profile on disk; warm: a browser is open on it, idle
\* for so long.  strikes: history: tasks that failed in this browser on a dead session,
\* since a failure was unheard of.
Worker == [pc : {"idle", "sweep", "open", "page"}, task : Tasks, list : SUBSET Tasks,
           session : Logins \cup {Nothing}, warm : BOOLEAN, idle : 0 .. IdleTTL + 1,
           strikes : Nat]

SessionsInit ==
    /\ account = [a \in Accounts |-> [active |-> a = 1, ref |-> a = 1]]
    /\ vault = [a \in Accounts |-> IF a = 1 THEN 1 ELSE Nothing]
    /\ leaving = {} /\ accepted = {1} /\ logins = 1
    /\ task = [t \in Tasks |-> "none"]
    /\ circuit = [state |-> "closed", age |-> 0] /\ failed = <<>>
    /\ worker = [w \in Workers |->
                    [pc |-> "idle", task |-> Fetch, list |-> {}, session |-> Nothing,
                     warm |-> FALSE, idle |-> 0, strikes |-> 0]]
    /\ left = MaxEvents

-----------------------------------------------------------------------------
(* The user                                                                *)

Spend == left > 0 /\ left' = left - 1

LogIn == logins < MaxLogins /\ logins' = logins + 1 /\ accepted' = accepted \cup {logins + 1}

\* _validate_stealth_secrets: a session or a password, and not both.
Valid(secrets) == Cardinality(secrets) = 1

\* enroll_credentials, up to the commit of the reference ...
Refer(a) ==
    /\ ~account[a].ref
    /\ account' = [account EXCEPT ![a].ref = TRUE]
    /\ UNCHANGED <<vault, leaving, logins, accepted, task, circuit, failed, worker, left>>

\* CredentialVault.store: what was there is replaced.
Store(a, secret) == vault' = [vault EXCEPT ![a] = secret]

\* ... and the vault's.
Enroll(a) ==
    /\ account[a].ref /\ Spend
    /\ \E secrets \in SUBSET {"storage_state_json", "password"} :
          /\ Valid(secrets)
          /\ IF "storage_state_json" \in secrets
             THEN LogIn /\ Store(a, logins + 1)
             ELSE Store(a, Password) /\ UNCHANGED <<logins, accepted>>
    /\ UNCHANGED <<account, leaving, task, circuit, failed, worker>>

\* delete_credentials commits twice as well.
Wipe(a) ==
    /\ a \notin leaving /\ Spend
    /\ vault' = [vault EXCEPT ![a] = Nothing] /\ leaving' = leaving \cup {a}
    /\ UNCHANGED <<account, logins, accepted, task, circuit, failed, worker>>

Unrefer(a) ==
    /\ a \in leaving /\ leaving' = leaving \ {a}
    /\ account' = [account EXCEPT ![a].ref = FALSE]
    /\ UNCHANGED <<vault, logins, accepted, task, circuit, failed, worker, left>>

\* update_account writes every field, the reference and the settings too.
Edit(a) ==
    /\ Spend
    /\ \E active \in BOOLEAN, keeps \in BOOLEAN :
          account' = [account EXCEPT ![a] =
             [active |-> active, ref |-> keeps /\ @.ref]]
    /\ UNCHANGED <<vault, leaving, logins, accepted, task, circuit, failed, worker>>

\* worker.login: a login by hand, into the profile of a worker that is down.
LogInByHand(w) ==
    /\ worker[w].pc = "idle" /\ ~worker[w].warm
    /\ Spend /\ LogIn
    /\ worker' = [worker EXCEPT ![w].session = logins + 1]
    /\ UNCHANGED <<account, vault, leaving, task, circuit, failed>>

\* The platform ends a session.
Expire(s) ==
    /\ s \in accepted /\ accepted' = accepted \ {s}
    /\ UNCHANGED <<userVars, task, circuit, failed, worker, left>>

-----------------------------------------------------------------------------
(* Tasks                                                                   *)

\* circuit_breaker.check: one trial a minute after the cooldown, so that a
\* check may pass and may not.
Checked == IF circuit.state = "open" /\ circuit.age > Cooldown
           THEN [state |-> "half_open", age |-> 0] ELSE circuit

Enqueue(t) ==
    /\ task[t] = "none"
    /\ circuit' = Checked
    /\ \/ Checked.state # "open" /\ task' = [task EXCEPT ![t] = "pending"]
       \/ Checked.state # "closed" /\ UNCHANGED task
    /\ UNCHANGED <<userVars, accepted, failed, worker, left>>

\* enqueue_buyer_request_fetch: the circuit is asked before the seller's name is
\* looked up, without which there is no task.
EnqueueFetch ==
    \/ Enqueue(Fetch)
    \/ /\ task[Fetch] = "none" /\ Checked.state # "open" /\ circuit' = Checked
       /\ UNCHANGED <<userVars, accepted, task, failed, worker, left>>

\* fiverr_buyer_request_tick: for a tenant with an account in use.
Beat == (\E a \in Accounts : account[a].active) /\ EnqueueFetch

\* An approved proposal, a metrics scrape.
Request(t) == t \in Errands /\ Enqueue(t)

\* stealth_reaper_tick: the claim of a worker that died.
Reclaim(t) ==
    /\ task[t] = "claimed"
    /\ \A w \in Workers : ~(worker[w].pc \in {"open", "page"} /\ worker[w].task = t)
    /\ task' = [task EXCEPT ![t] = "pending"]
    /\ UNCHANGED <<userVars, accepted, circuit, failed, worker, left>>

-----------------------------------------------------------------------------
(* A worker                                                                *)

Dead(w) == worker[w].session \notin accepted

\* Mutant of IdleLong: no browser is ever closed for being idle.
IdleLongNever(w) == FALSE

IdleLong(w) == worker[w].warm /\ worker[w].idle > IdleTTL

\* poll_once: close an idle browser, then ask for the tasks that wait.  The
\* poll may fail.
Sweep(w) ==
    /\ worker[w].pc = "idle"
    /\ \E list \in {{}, {t \in Tasks : task[t] = "pending"}} :
          worker' = [worker EXCEPT ![w] =
             [worker[w] EXCEPT !.list = list, !.pc = IF list = {} THEN "idle" ELSE "sweep",
                               !.warm = @ /\ ~IdleLong(w), !.idle = IF IdleLong(w) THEN 0 ELSE @,
                               !.strikes = IF IdleLong(w) THEN 0 ELSE @]]
    /\ UNCHANGED <<userVars, accepted, task, circuit, failed, left>>

\* The next of the list, which may be the last.
Drop(w, t) == [worker[w] EXCEPT !.list = @ \ {t}, !.pc = IF worker[w].list = {t} THEN "idle" ELSE @]

\* A read-only task outside the active hours.
Skip(w) ==
    /\ worker[w].pc = "sweep" /\ Fetch \in worker[w].list
    /\ worker' = [worker EXCEPT ![w] = Drop(w, Fetch)]
    /\ UNCHANGED <<userVars, accepted, task, circuit, failed, left>>

Claim(w, t) ==
    /\ worker[w].pc = "sweep" /\ t \in worker[w].list
    /\ IF task[t] = "pending"
       THEN /\ task' = [task EXCEPT ![t] = "claimed"]
            /\ worker' = [worker EXCEPT ![w] = [worker[w] EXCEPT !.list = @ \ {t}, !.pc = "open", !.task = t]]
       ELSE worker' = [worker EXCEPT ![w] = Drop(w, t)] /\ UNCHANGED task
    /\ UNCHANGED <<userVars, accepted, circuit, failed, left>>

\* get_stealth_session: what the oldest usable account has enrolled, while a
\* task is claimed.
Usable == {a \in Accounts : account[a].active /\ account[a].ref}
Oldest(accounts) == CHOOSE a \in accounts : \A b \in accounts : a <= b
Enrolled == IF Usable = {} THEN Nothing ELSE vault[Oldest(Usable)]
Served == IF Enrolled \in Logins /\ \E t \in Tasks : task[t] = "claimed"
          THEN Enrolled ELSE Nothing

\* _fetch_session, _seed_session: when there is none to be had, or it cannot be
\* applied, the profile will do.
Seeds == {Served, Nothing}

\* apply_storage_state
Applied(seed, session) == IF seed = Nothing THEN session ELSE seed

\* get_context: the warm browser, or one that is opened on the profile and seeded.
Open(w) ==
    /\ worker[w].pc = "open"
    /\ \/ /\ worker[w].warm
          /\ worker' = [worker EXCEPT ![w] = [worker[w] EXCEPT !.pc = "page", !.idle = 0]]
       \/ /\ ~worker[w].warm
          /\ \E s \in Seeds :
                worker' = [worker EXCEPT ![w] =
                   [worker[w] EXCEPT !.pc = "page", !.warm = TRUE, !.idle = 0,
                                     !.session = Applied(s, @)]]
    /\ UNCHANGED <<userVars, accepted, task, circuit, failed, left>>

\* The task is over, one way or the other.  When it is known to be, it is in no
\* list of pending ones any more.
Done(w, fails, heard) ==
    LET t == worker[w].task IN
    /\ task' = IF heard THEN [task EXCEPT ![t] = "none"] ELSE task
    /\ worker' = [v \in Workers |->
          IF v = w
          THEN [worker[w] EXCEPT !.pc = IF worker[w].list = {} THEN "idle" ELSE "sweep",
                                 !.task = Fetch,
                                 !.strikes = IF ~heard THEN 0 ELSE IF fails /\ Dead(w) THEN @ + 1 ELSE @]
          ELSE IF heard /\ worker[v].pc = "sweep" THEN Drop(v, t)
          ELSE [worker[v] EXCEPT !.list = IF heard THEN @ \ {t} ELSE @]]

Succeed(w) ==
    /\ worker[w].pc = "page" /\ ~Dead(w)
    /\ Done(w, FALSE, TRUE)
    /\ UNCHANGED <<userVars, accepted, circuit, failed, left>>

\* Mutant of Recent: only the failures of the last half hour count.
RecentHalf(ages) == {i \in DOMAIN ages : ages[i] <= Window \div 2}

Recent(ages) == {i \in DOMAIN ages : ages[i] <= Window}

\* Only the latest few can make the difference.
Failed == SubSeq(<<0>> \o failed, 1, IF Len(failed) < Threshold THEN Len(failed) + 1 ELSE Threshold)

\* The page shows a login form, or the task fails on it for another reason.
Fail(w) ==
    /\ worker[w].pc = "page"
    /\ Done(w, TRUE, TRUE)
    /\ failed' = Failed
    /\ circuit' = IF Cardinality(Recent(Failed)) >= Threshold
                  THEN [state |-> "open", age |-> 0] ELSE circuit
    /\ UNCHANGED <<userVars, accepted, left>>

\* The report of a failure is lost; the reaper will find the claim.
FailUnheard(w) ==
    /\ worker[w].pc = "page" /\ Spend
    /\ Done(w, TRUE, FALSE)
    /\ UNCHANGED <<userVars, accepted, circuit, failed>>

\* The worker dies; its browser profile stays.
WorkerDies(w) ==
    /\ Spend
    /\ worker' = [worker EXCEPT ![w] =
          [worker[w] EXCEPT !.pc = "idle", !.task = Fetch, !.list = {}, !.warm = FALSE,
                            !.idle = 0, !.strikes = 0]]
    /\ UNCHANGED <<userVars, accepted, task, circuit, failed>>

-----------------------------------------------------------------------------
Older(age, bound) == IF age < bound THEN age + 1 ELSE bound

\* A quarter of an hour, the most that a task may take: those at hand are over.
Tick ==
    /\ \A w \in Workers : worker[w].pc \in {"idle"} \cup (IF Busy THEN {"sweep"} ELSE {})
    /\ worker' = [w \in Workers |->
          [worker[w] EXCEPT !.idle = IF worker[w].warm THEN Older(@, IdleTTL + 1) ELSE @]]
    /\ circuit' = [circuit EXCEPT !.age = IF circuit.state = "open" THEN Older(@, Cooldown + 1) ELSE @]
    /\ failed' = [i \in Recent([j \in DOMAIN failed |-> failed[j] + 1]) |-> failed[i] + 1]
    /\ UNCHANGED <<userVars, accepted, task, left>>

Work(w) ==
    \/ Sweep(w) \/ Skip(w) \/ Open(w) \/ Succeed(w) \/ Fail(w) \/ FailUnheard(w)
    \/ \E t \in Tasks : Claim(w, t)

SessionsNext ==
    \/ \E a \in Accounts : Refer(a) \/ Enroll(a) \/ Wipe(a) \/ Unrefer(a) \/ Edit(a)
    \/ \E s \in Logins : Expire(s)
    \/ Beat \/ (\E t \in Errands : Request(t)) \/ (\E t \in Tasks : Reclaim(t))
    \/ \E w \in Workers : LogInByHand(w) \/ Work(w) \/ WorkerDies(w)
    \/ Tick

\* Workers go on sweeping and executing, and time passes however often they do.
Fairness == SF_sessionsVars(Tick) /\ \A w \in Workers : WF_sessionsVars(Work(w))

SessionsSpec == SessionsInit /\ [][SessionsNext]_sessionsVars /\ Fairness

-----------------------------------------------------------------------------
\* Every variable stays in its type.
SessionsTypeOK ==
    /\ account \in [Accounts -> Account]
    /\ vault \in [Accounts -> Logins \cup {Nothing, Password}]
    /\ leaving \subseteq Accounts /\ accepted \subseteq Logins /\ logins \in Logins
    /\ task \in [Tasks -> {"none", "pending", "claimed"}]
    /\ circuit \in [state : {"closed", "open", "half_open"}, age : 0 .. Cooldown + 1]
    /\ failed \in Seq(0 .. Window) /\ Len(failed) <= Threshold
    /\ worker \in [Workers -> Worker]
    /\ left \in 0 .. MaxEvents

\* A browser on a dead session does not fail task after task for ever: the
\* failures open the circuit, the other tasks that wait are all that can fail
\* on top, and by the time the circuit admits more the browser is idle enough
\* to be closed.  After a failure that nobody hears of, it all begins again.
Round == Threshold + Cardinality(Tasks) - 1
DeadBrowserGivenUp ==
    \A w \in Workers : worker[w].strikes <= Round

\* Once the platform accepts for good what the user has enrolled, no worker is
\* stuck for ever on a browser whose session is dead.
Recoverable == Enrolled \in accepted
SessionRecovers ==
    \A w \in Workers : <>[]Recoverable => []<>~(worker[w].warm /\ Dead(w))
=============================================================================
