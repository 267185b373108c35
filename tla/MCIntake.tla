------------------------------ MODULE MCIntake ------------------------------
(***************************************************************************)
(* Instances of Intake, with the search language of BoolQuery, and of      *)
(* Sessions for TLC.  A run explores either the jobs that come in or the   *)
(* browser session of a tenant.                                            *)
(***************************************************************************)
EXTENDS Intake, Sessions, TLC

CONSTANTS p1, p2, x1, x2

VARIABLE part    \* "jobs" or "sessions"

-----------------------------------------------------------------------------
(* The worlds of Intake                                                    *)

Fact0 == [words |-> {"a"}, score |-> 3, negative |-> FALSE, like |-> 0, fails |-> {}, silent |-> {}]

Lax == [demands |-> {"budget"}, threshold |-> 2]
Picky == [demands |-> {"hire_rate", "budget"}, threshold |-> 3]

\* Every query of four tokens at most is typed, and of five those that begin
\* and end as a query of the language does ("a" stands for "b" as the first
\* token); nothing is ingested.
LongQueries ==
    UNION {[1 .. n -> Tokens] : n \in 0 .. 4}
    \cup {q \in [1 .. 5 -> Tokens] : q[1] \in {"a", "NOT", "("} /\ q[5] \in Words \cup {")"}}

Language ==
    [typist : {"many"}, filters : {{}}, link : {{}}, workers : {{}},
     facts : {(x1 :> Fact0) @@ (x2 :> Fact0)}]

\* One process ingests postings of every text, judged by queries of every kind.
SomeQueries == {<<"NOT", "a", "b">>, <<"a", "OR", "b", "AND", "a">>}

Serial ==
    [typist : {"some"}, filters : {{}}, link : {{}}, workers : {{p1}},
     facts : {(x1 :> [Fact0 EXCEPT !.words = w]) @@ (x2 :> [Fact0 EXCEPT !.words = {}, !.like = n])
              : <<w, n>> \in {<<{}, 0>>, <<{"b"}, 0>>, <<{"a", "b"}, 0>>, <<{"a"}, 1>>}}]

\* The tenant's filters, and postings that do not say what a filter demands.
Others == {[Fact0 EXCEPT !.like = 1, !.score = 1], [Fact0 EXCEPT !.like = 1, !.score = 2],
           [Fact0 EXCEPT !.like = 1, !.score = 0, !.negative = TRUE]}

Filtered ==
    [typist : {"few"}, filters : {{Lax, Picky}}, link : {{Lax}, {Picky}}, workers : {{p1}},
     facts : {(x1 :> [Fact0 EXCEPT !.silent = s]) @@ (x2 :> other)
              : s \in {{}, {"hire_rate"}, {"budget"}}, other \in Others}]

\* Two overlapping ingests of a posting and its repost, without a profile.
Races ==
    [typist : {"none"}, filters : {{Lax}}, link : {{Lax}}, workers : {{p1, p2}},
     facts : {(x1 :> Fact0) @@ (x2 :> Fact0)}]

AllQueries == [many |-> LongQueries, some |-> SomeQueries, few |-> {<<"a">>}, none |-> {}]

AllWorlds == Language \cup Serial \cup Filtered \cup Races

-----------------------------------------------------------------------------
MCInit ==
    /\ Init /\ SessionsInit
    /\ part \in {"jobs", "sessions"}
    /\ part = "sessions" => world \in Races

MCNext ==
    /\ \/ part = "jobs" /\ Next /\ UNCHANGED sessionsVars
       \/ part = "sessions" /\ SessionsNext /\ UNCHANGED vars
    /\ UNCHANGED part

\* Nothing is fair for jobs; while they run, the worker of the session is idle.
MCSpec == MCInit /\ [][MCNext]_<<part, vars, sessionsVars>> /\ Fairness

=============================================================================
