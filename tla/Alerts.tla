------------------------------- MODULE Alerts -------------------------------
(***************************************************************************)
(* Live alerts: from a committed change, over Redis pub/sub and one of the *)
(* API servers (ws_manager.AlertManager), through a WebSocket opened with  *)
(* a one-time ticket (routers/alerts.py), to the list of messages and the  *)
(* view of one browser (hooks/useAlertsSocket.ts, JobFeed.tsx,             *)
(* ProposalQueue.tsx).                                                     *)
(*                                                                         *)
(* An event is the number of a change in log.  A change and its publishing *)
(* are one step, and so are a request for the rows and its answer's        *)
(* snapshot: what the answer holds is at least as old.  Of a tenant's      *)
(* sockets one is followed; the others only join and leave (OtherSocket).  *)
(***************************************************************************)
EXTENDS Naturals, Sequences, FiniteSets

CONSTANTS Users, Servers,
          ListCap,      \* the messages the hook keeps
          MaxEvents, MaxOutages, MaxDrops, MaxMounts, MaxLoads   \* bounds

ASSUME CapAssumption == ListCap \in Nat \ {0} /\ MaxLoads \in Nat \ {0}

VARIABLES kind,        \* the view: it shows pushed rows, or reloads on a push
          log,         \* log[e]: the tenant event e is about
          redis,       \* Redis answers
          listening,   \* servers whose subscriber is connected
          bus,         \* bus[s]: events on their way to subscriber s
          session,     \* the tenant signed in, or none
          hook,        \* the socket hook: pc, and whether its ticket is good
          conn,        \* the open socket, at its server and on its way
          list,        \* messages, newest first
          view,        \* what the view shows, and what it remembers
          loads,       \* requests in flight, oldest first
          history      \* bounds, and the events that were lost

browser == <<session, hook, conn, list, view, loads>>
vars == <<kind, log, redis, listening, bus, browser, history>>

Nobody == "nobody"

ASSUME NobodyAssumption == Nobody \notin Users
ASSUME NowhereAssumption == "nowhere" \notin Servers

\* turns: events whose send loop at the server has not come to this socket;
\* sub: the one the server's subscriber waits for (0: none).
Nowhere == [at |-> "nowhere", flight |-> <<>>, turns |-> <<>>, sub |-> 0]
Off == [pc |-> "off", ticket |-> FALSE]

\* seen: a message was seen; idx: where the last one seen is in the list, from 0
\* (ListCap: it rolled out); opened: the socket was open before; newest: the
\* number of the last request.
Fresh == [shown |-> {}, seen |-> FALSE, idx |-> 0, opened |-> FALSE, newest |-> 0]

Init ==
    /\ kind \in {"feed", "queue"}
    /\ log = <<>> /\ redis = TRUE /\ listening = Servers /\ bus = [s \in Servers |-> <<>>]
    /\ session = Nobody /\ hook = Off /\ conn = Nowhere
    /\ list = <<>> /\ view = Fresh /\ loads = <<>>
    /\ history = [outages |-> 0, drops |-> 0, mounts |-> 0, missed |-> {}]

Own(user) == {e \in 1 .. Len(log) : log[e] = user}
Items(seq) == {seq[i] : i \in 1 .. Len(seq)}
Miss(events) == history' = [history EXCEPT !.missed = @ \cup events]

-----------------------------------------------------------------------------
(* The server side                                                         *)

\* The event reaches the socket's server: over Redis, or because the process
\* that publishes it is that server.
Reaches(by) == IF redis THEN conn.at \in listening ELSE conn.at = by

\* broadcast: through Redis, or in a loop over the connections of the process
\* itself; a Celery worker has none.
Publish(by, user) ==
    /\ Len(log) < MaxEvents
    /\ log' = Append(log, user)
    /\ bus' = [s \in Servers |-> IF redis /\ s \in listening THEN Append(bus[s], Len(log'))
                                 ELSE bus[s]]
    /\ conn' = IF ~redis /\ conn.at = by /\ user = session
               THEN [conn EXCEPT !.turns = Append(@, Len(log'))] ELSE conn
    /\ IF user = session /\ (IF hook.pc = "open" THEN ~Reaches(by) ELSE ~view.opened)
       THEN Miss({Len(log')}) ELSE UNCHANGED history
    /\ UNCHANGED <<kind, redis, listening, session, hook, list, view, loads>>

\* Mutant of ToSend: to every socket of the server.
ToSendAny(s, e) == conn.at = s

\* The event is for a tenant this server has a socket of.
ToSend(s, e) == conn.at = s /\ log[e] = session

\* _subscribe_loop takes an event, begins to send it to the sockets of its
\* tenant, and takes no other before that is done.
Forward(s) ==
    /\ bus[s] # <<>> /\ (conn.at = s => conn.sub = 0)
    /\ bus' = [bus EXCEPT ![s] = Tail(@)]
    /\ conn' = IF ToSend(s, Head(bus[s]))
               THEN [conn EXCEPT !.turns = Append(@, Head(bus[s])), !.sub = Head(bus[s])]
               ELSE conn
    /\ UNCHANGED <<kind, log, redis, listening, session, hook, list, view, loads, history>>

\* The loop of _broadcast_local comes to this socket; loops begun earlier are
\* ahead of it at every socket.
SendText ==
    /\ conn.turns # <<>>
    /\ conn' = [conn EXCEPT !.turns = Tail(@), !.flight = Append(@, Head(conn.turns)),
                            !.sub = IF @ = Head(conn.turns) THEN 0 ELSE @]
    /\ UNCHANGED <<kind, log, redis, listening, bus, session, hook, list, view, loads, history>>

\* Another socket of the tenant joins or leaves this server during an await of
\* the loop: its next step raises, and no socket after that one gets the event.
\* The subscriber takes the error for a malformed message and goes on.
OtherSocket ==
    /\ conn.turns # <<>>
    /\ conn' = [conn EXCEPT !.turns = <<>>, !.sub = 0]
    /\ Miss(Items(conn.turns))
    /\ UNCHANGED <<kind, log, redis, listening, bus, session, hook, list, view, loads>>

\* Redis goes, with what was on its way and every ticket.
RedisFails ==
    /\ redis /\ history.outages < MaxOutages
    /\ redis' = FALSE /\ listening' = {} /\ bus' = [s \in Servers |-> <<>>]
    /\ hook' = [hook EXCEPT !.ticket = FALSE]
    /\ history' = [history EXCEPT !.outages = @ + 1,
                                  !.missed = @ \cup IF conn.at \in Servers
                                                    THEN Items(bus[conn.at]) \cap Own(session)
                                                    ELSE {}]
    /\ UNCHANGED <<kind, log, session, conn, list, view, loads>>

RedisReturns ==
    /\ ~redis /\ redis' = TRUE
    /\ UNCHANGED <<kind, log, listening, bus, browser, history>>

\* The subscriber tries again every two seconds.
SubscriberReturns(s) ==
    /\ redis /\ s \notin listening
    /\ listening' = listening \cup {s}
    /\ UNCHANGED <<kind, log, redis, bus, browser, history>>

-----------------------------------------------------------------------------
(* The hook                                                                *)

\* load: the rows as they are now, to be shown when the answer comes.
Loading(v) == [n |-> v.newest + 1, rows |-> Own(session)]

\* The view is mounted and loads, the messages are cleared, the hook connects.
SignIn(user) ==
    /\ session = Nobody /\ history.mounts < MaxMounts
    /\ session' = user
    /\ list' = <<>> /\ view' = [Fresh EXCEPT !.newest = 1]
    /\ loads' = <<[n |-> 1, rows |-> Own(user)]>>
    /\ hook' = [pc |-> "ask", ticket |-> FALSE]
    /\ history' = [history EXCEPT !.mounts = @ + 1, !.missed = {}]
    /\ UNCHANGED <<kind, log, redis, listening, bus, conn>>

\* The user comes back to the view: it loads, and takes the messages that are
\* already in the list as seen and the socket as it is.
Remount ==
    /\ session # Nobody /\ history.mounts < MaxMounts
    /\ view' = [Fresh EXCEPT !.seen = list # <<>>, !.opened = hook.pc = "open", !.newest = 1]
    /\ loads' = <<[n |-> 1, rows |-> Own(session)]>>
    /\ history' = [history EXCEPT !.mounts = @ + 1, !.missed = {}]
    /\ UNCHANGED <<kind, log, redis, listening, bus, session, hook, conn, list>>

\* Signing out, or forceUnauthorized: the views go, the messages are cleared and
\* the socket is closed; an answer that is still to come is shown nowhere.
Leave ==
    /\ session' = Nobody /\ hook' = Off /\ conn' = Nowhere
    /\ list' = <<>> /\ view' = Fresh /\ loads' = <<>>
    /\ UNCHANGED <<kind, log, redis, listening, bus, history>>

SignOut == session # Nobody /\ Leave

\* issue_ws_ticket; without Redis, or without an answer, the hook tries later.
GetTicket ==
    /\ hook.pc = "ask"
    /\ \/ redis /\ hook' = [pc |-> "dial", ticket |-> TRUE]
       \/ hook' = [hook EXCEPT !.pc = "wait"]
    /\ UNCHANGED <<kind, log, redis, listening, bus, session, conn, list, view, loads, history>>

\* WS_TICKET_TTL_SECONDS
TicketLapses ==
    /\ hook.ticket /\ hook' = [hook EXCEPT !.ticket = FALSE]
    /\ UNCHANGED <<kind, log, redis, listening, bus, session, conn, list, view, loads, history>>

\* Mutant of Refetch: the view relies on its first load.
RefetchNever == UNCHANGED <<view, loads>>

\* useReconnectRefetch: the first opening is passed over.
Refetch ==
    IF view.opened
    THEN /\ view' = [view EXCEPT !.newest = @ + 1]
         /\ loads' = Append(loads, Loading(view))
    ELSE view' = [view EXCEPT !.opened = TRUE] /\ UNCHANGED loads

\* _consume_ws_ticket takes the ticket away as it reads it, and the socket is
\* registered with the server it reached.
Connect(s) ==
    /\ hook.pc = "dial" /\ redis /\ hook.ticket /\ Len(loads) < MaxLoads
    /\ hook' = [pc |-> "open", ticket |-> FALSE]
    /\ conn' = [Nowhere EXCEPT !.at = s]
    /\ Refetch
    /\ UNCHANGED <<kind, log, redis, listening, bus, session, list, history>>

\* A ticket nobody knows: close code 4401 drops the session; a handshake that
\* failed without a code is tried again.
Rejected ==
    /\ hook.pc = "dial" /\ ~(redis /\ hook.ticket)
    /\ \/ Leave
       \/ /\ hook' = [pc |-> "wait", ticket |-> FALSE]
          /\ UNCHANGED <<kind, log, redis, listening, bus, session, conn, list, view, loads, history>>

\* The connection is lost, with what was in flight.
Drop ==
    /\ hook.pc = "open" /\ history.drops < MaxDrops
    /\ hook' = [hook EXCEPT !.pc = "wait"] /\ conn' = Nowhere
    /\ history' = [history EXCEPT !.drops = @ + 1]
    /\ UNCHANGED <<kind, log, redis, listening, bus, session, list, view, loads>>

\* Mutant of Retry: a hook that could not connect before gives up.
RetryIfOpened ==
    /\ hook.pc = "wait" /\ view.opened
    /\ hook' = [hook EXCEPT !.pc = "ask"]
    /\ UNCHANGED <<kind, log, redis, listening, bus, session, conn, list, view, loads, history>>

\* The backoff timer fires.
Retry ==
    /\ hook.pc = "wait"
    /\ hook' = [hook EXCEPT !.pc = "ask"]
    /\ UNCHANGED <<kind, log, redis, listening, bus, session, conn, list, view, loads, history>>

Push(e) ==
    LET all == <<e>> \o list
    IN  SubSeq(all, 1, IF Len(all) < ListCap THEN Len(all) ELSE ListCap)

\* onmessage: the newest first, and no more than the list holds.  A message that
\* rolls out before the view looked at it is lost to it.
Receive ==
    /\ conn.flight # <<>>
    /\ conn' = [conn EXCEPT !.flight = Tail(@)]
    /\ list' = Push(Head(conn.flight))
    /\ view' = [view EXCEPT !.idx = IF @ < ListCap THEN @ + 1 ELSE @]
    /\ Miss(IF view.idx = ListCap THEN {list[ListCap]} \ view.shown ELSE {})
    /\ UNCHANGED <<kind, log, redis, listening, bus, session, hook, loads>>

-----------------------------------------------------------------------------
(* The view                                                                *)

Unread == {list[i] : i \in 1 .. view.idx}

\* Mutant of Unseen: the newest of a burst.
UnseenNewest == IF view.seen THEN {list[1]} ELSE {}

\* useNewAlertMessages hands over the messages before the one seen last: only
\* the newest when that one rolled out of the list, none when none was seen.
Unseen ==
    IF ~view.seen THEN {}
    ELSE IF view.idx = ListCap THEN {list[1]}
    ELSE Unread

\* What the hook's own two rules pass over.
PassedOver ==
    IF ~view.seen THEN Unread
    ELSE IF view.idx = ListCap THEN Unread \ {list[1]}
    ELSE {}

\* One effect for all messages that came since the last one.  ProposalQueue
\* loads for each: the answers hold the same rows, one stands for them.
Consume ==
    /\ view.idx > 0
    /\ IF kind = "feed" \/ Unseen = {}
       THEN /\ view' = [view EXCEPT !.shown = @ \cup Unseen, !.seen = TRUE, !.idx = 0]
            /\ Miss(PassedOver \ view.shown) /\ UNCHANGED loads
       ELSE /\ Len(loads) < MaxLoads
            /\ view' = [view EXCEPT !.idx = 0, !.newest = @ + 1]
            /\ loads' = Append(loads, Loading(view)) /\ UNCHANGED history
    /\ UNCHANGED <<kind, log, redis, listening, bus, session, hook, conn, list>>

RemoveAt(seq, i) == SubSeq(seq, 1, i - 1) \o SubSeq(seq, i + 1, Len(seq))

\* JobFeed passes an answer over when it has asked again; ProposalQueue takes
\* each.
Counts(l) == kind = "feed" => l.n = view.newest

\* The rows of the other requests that will be shown.
Awaited(i) == UNION {loads[j].rows : j \in {k \in 1 .. Len(loads) \ {i} : Counts(loads[k])}}

\* An answer replaces what is shown: rows pushed since it was asked for go with
\* what was there.
Answer(i) ==
    LET l == loads[i]
    IN  /\ loads' = RemoveAt(loads, i)
        /\ IF Counts(l)
           THEN /\ view' = [view EXCEPT !.shown = l.rows]
                /\ history' = [history EXCEPT !.missed =
                                 (@ \ l.rows) \cup ((view.shown \ l.rows) \ Awaited(i))]
           ELSE UNCHANGED <<view, history>>
        /\ UNCHANGED <<kind, log, redis, listening, bus, session, hook, conn, list>>

\* An error leaves the rows as they are.
NoAnswer(i) ==
    /\ loads' = RemoveAt(loads, i)
    /\ Miss(IF Counts(loads[i]) THEN (loads[i].rows \ view.shown) \ Awaited(i) ELSE {})
    /\ UNCHANGED <<kind, log, redis, listening, bus, session, hook, conn, list, view>>

Next ==
    \/ \E by \in Servers \cup {"worker"}, user \in Users : Publish(by, user)
    \/ \E s \in Servers : Forward(s) \/ SubscriberReturns(s) \/ Connect(s)
    \/ \E user \in Users : SignIn(user)
    \/ SendText \/ OtherSocket \/ RedisFails \/ RedisReturns \/ SignOut \/ Remount
    \/ GetTicket \/ TicketLapses \/ Rejected \/ Drop \/ Retry \/ Receive \/ Consume
    \/ \E i \in 1 .. Len(loads) : Answer(i) \/ NoAnswer(i)

Spec == Init /\ [][Next]_vars

\* The hook goes on, requests end, Redis comes back, and a ticket is not always
\* too late.
Progress ==
    /\ WF_vars(GetTicket \/ Rejected \/ Retry) /\ WF_vars(RedisReturns)
    /\ SF_vars(redis /\ GetTicket /\ hook'.ticket) /\ SF_vars(\E s \in Servers : Connect(s))
    /\ WF_vars(\E i \in 1 .. Len(loads) : Answer(i) \/ NoAnswer(i))

-----------------------------------------------------------------------------
\* Every variable stays in its type.
TypeOK ==
    /\ kind \in {"feed", "queue"} /\ log \in Seq(Users) /\ redis \in BOOLEAN
    /\ listening \subseteq Servers /\ bus \in [Servers -> Seq(1 .. MaxEvents)]
    /\ session \in Users \cup {Nobody} /\ conn.at \in Servers \cup {"nowhere"}
    /\ hook \in [pc : {"off", "ask", "dial", "open", "wait"}, ticket : BOOLEAN]
    /\ list \in Seq(1 .. MaxEvents) /\ view.shown \subseteq 1 .. MaxEvents
    /\ view.idx <= Len(list) /\ Len(list) <= ListCap

\* Nothing is on its way to the view.
Settled ==
    /\ hook.pc = "open" /\ conn.turns = <<>> /\ conn.flight = <<>> /\ bus[conn.at] = <<>>
    /\ loads = <<>> /\ view.idx = 0

\* When the socket is open and nothing is on its way, the view shows every
\* event of the tenant since it was mounted, whatever the connection went
\* through, but for those the code gives up: published while no subscriber
\* listened or before the first opening, in a send loop that another socket
\* broke, the first message of a view and those that a burst rolls out of the
\* list, and rows whose request failed or that an answer asked for earlier
\* replaced.  A burst, a reconnect or a late answer loses nothing else.
ViewComplete == Settled => Own(session) \ view.shown \subseteq history.missed

\* A browser that changes sessions never holds an event of another tenant.
NoForeignEvents ==
    session # Nobody =>
       Items(list) \cup view.shown \cup Items(conn.turns) \cup Items(conn.flight)
          \subseteq Own(session)

\* A hook that is waiting gets its socket open, unless the session ends.
SocketComesBack == hook.pc = "wait" ~> hook.pc \in {"open", "off"}
=============================================================================
