---------------------------- MODULE AlertsProofs ----------------------------
(***************************************************************************)
(* What a browser shows is its own tenant's, and the view is given up no   *)
(* event but those Alerts names, through sign-ins, sign-outs, outages,     *)
(* lost connections, broken send loops and late answers: NoForeignEvents   *)
(* and ViewComplete of Alerts, for any number of tenants and servers and   *)
(* without a bound on anything.                                            *)
(*                                                                         *)
(* A message at the server or on its way to a socket, the list, the rows   *)
(* shown and those of an answer that is still to come are all of the       *)
(* session; a session that ended owns nothing, so they are empty.          *)
(*                                                                         *)
(* An event of the tenant is covered, which it stays, or on its way:       *)
(* queued before the socket, or unread in the list.  While a view that had *)
(* a socket has none, an event may be neither, and the reload that comes   *)
(* with the next socket covers it.                                         *)
(***************************************************************************)
EXTENDS Alerts, SequenceTheorems, TLAPS

View == [shown : SUBSET Nat, seen : BOOLEAN, idx : Nat, opened : BOOLEAN, newest : Nat]
Load(user) == [n : Nat, rows : SUBSET Own(user)]
Socket(user) == [at : Servers \cup {"nowhere"}, flight : Seq(Own(user)), turns : Seq(Own(user)),
                 sub : Nat]

Types ==
    /\ log \in Seq(Users) /\ session \in Users \cup {Nobody}
    /\ bus \in [Servers -> Seq(1 .. Len(log))] /\ view \in View

Carried ==
    /\ conn \in Socket(session) /\ loads \in Seq(Load(session))
    /\ list \in Seq(Own(session)) /\ view.shown \subseteq Own(session)

\* The messages that came since the last one seen are in the list.
Counted == Len(list) <= ListCap /\ view.idx <= Len(list)

Inv == Types /\ Carried /\ Counted

-----------------------------------------------------------------------------
(* Sequences                                                               *)

LEMMA HeadOf ==
    ASSUME NEW S, NEW s \in Seq(S), s # <<>>
    PROVE  1 \in 1 .. Len(s) /\ Head(s) = s[1] /\ s[1] \in S
<1>1. Len(s) \in Nat \ {0}
  BY EmptySeq
<1> QED
  BY <1>1, ElementOfSeq

LEMMA ItemsOf ==
    ASSUME NEW S, NEW s \in Seq(S)
    PROVE  Items(s) \subseteq S
  BY ElementOfSeq DEF Items

LEMMA Singleton ==
    ASSUME NEW S, NEW e \in S
    PROVE  <<e>> \in Seq(S)
  OBVIOUS

LEMMA Prefix ==
    ASSUME NEW S, NEW s \in Seq(S), NEW n \in Nat, n <= Len(s)
    PROVE  SubSeq(s, 1, n) \in Seq(S)
<1>1. Len(s) \in Nat
  BY LenProperties
<1>2. \A i \in 1 .. n : s[i] \in S
  BY <1>1, ElementOfSeq
<1> QED
  BY <1>2, SubSeqProperties

LEMMA Removed ==
    ASSUME NEW S, NEW s \in Seq(S), NEW i \in 1 .. Len(s)
    PROVE  RemoveAt(s, i) \in Seq(S)
<1>1. Len(s) \in Nat
  BY LenProperties
<1>2. \A j \in 1 .. i - 1 : s[j] \in S
  BY <1>1, ElementOfSeq
<1>3. \A j \in i + 1 .. Len(s) : s[j] \in S
  BY <1>1, ElementOfSeq
<1>4. SubSeq(s, 1, i - 1) \in Seq(S)
  BY <1>1, <1>2, SubSeqProperties
<1>5. SubSeq(s, i + 1, Len(s)) \in Seq(S)
  BY <1>1, <1>3, SubSeqProperties
<1> QED
  BY <1>4, <1>5, ConcatProperties DEF RemoveAt

-----------------------------------------------------------------------------
(* Whose an event is                                                       *)

LEMMA OwnEvents ==
    ASSUME log \in Seq(Users), NEW user
    PROVE  Own(user) \subseteq 1 .. Len(log) /\ Own(user) \subseteq Nat
<1>1. Len(log) \in Nat
  BY LenProperties
<1> QED
  BY <1>1 DEF Own

LEMMA NobodyOwns ==
    ASSUME log \in Seq(Users)
    PROVE  Own(Nobody) = {}
  BY NobodyAssumption, ElementOfSeq DEF Own

\* What is in the log stays, and the next event is its tenant's.
LEMMA LogGrows ==
    ASSUME log \in Seq(Users), NEW user \in Users, log' = Append(log, user), NEW u
    PROVE  /\ log' \in Seq(Users) /\ Len(log') = Len(log) + 1 /\ Len(log) \in Nat
           /\ Own(u) \subseteq {e \in 1 .. Len(log') : log'[e] = u}
           /\ Len(log') \in {e \in 1 .. Len(log') : log'[e] = user}
<1>1. /\ log' \in Seq(Users) /\ Len(log') = Len(log) + 1 /\ Len(log) \in Nat
      /\ \A i \in 1 .. Len(log) : log'[i] = log[i]
      /\ log'[Len(log) + 1] = user
  BY AppendProperties, LenProperties
<1> QED
  BY <1>1 DEF Own

-----------------------------------------------------------------------------
(* The steps                                                               *)

LEMMA SameOwner ==
    ASSUME UNCHANGED <<log, session>>
    PROVE  /\ Own(session)' = Own(session) /\ Load(session)' = Load(session)
           /\ Socket(session)' = Socket(session)
  BY DEF Own, Load, Socket

\* A step within a session keeps the parts it leaves alone.
LEMMA WithinSession ==
    ASSUME Inv, UNCHANGED <<log, session>>, bus' \in [Servers -> Seq(1 .. Len(log))],
           conn' \in Socket(session), loads' \in Seq(Load(session)),
           list' \in Seq(Own(session)), view' \in View, view'.shown \subseteq Own(session),
           Len(list') <= ListCap, view'.idx <= Len(list')
    PROVE  Inv'
  BY SameOwner DEF Inv, Types, Carried, Counted

LEMMA EmptySocket ==
    ASSUME NEW s \in Servers \cup {"nowhere"}, NEW user
    PROVE  [Nowhere EXCEPT !.at = s] \in Socket(user) /\ Nowhere \in Socket(user)
<1>1. <<>> \in Seq(Own(user))
  BY EmptySeq
<1> QED
  BY <1>1 DEF Nowhere, Socket

LEMMA InvInit == ASSUME Init PROVE Inv
<1>1. /\ log \in Seq(Users) /\ <<>> \in Seq(1 .. Len(log))
      /\ <<>> \in Seq(Own(session)) /\ <<>> \in Seq(Load(session)) /\ Len(<<>>) = 0
  BY EmptySeq DEF Init
<1>2. conn \in Socket(session)
  BY EmptySocket DEF Init
<1> QED
  BY <1>1, <1>2, CapAssumption DEF Init, Inv, Types, Carried, Counted, View, Fresh

LEMMA PublishStep ==
    ASSUME Inv, NEW by, NEW user \in Users, Publish(by, user)
    PROVE  Inv'
<1> USE DEF Inv
<1>1. /\ log \in Seq(Users) /\ log' = Append(log, user)
      /\ session' = session /\ list' = list /\ view' = view /\ loads' = loads
  BY DEF Types, Publish
<1>2. /\ log' \in Seq(Users) /\ Len(log') = Len(log) + 1 /\ Len(log) \in Nat
      /\ Own(session) \subseteq Own(session)'
      /\ user = session => Len(log') \in Own(session)'
  BY <1>1, LogGrows DEF Own
<1>3. bus' \in [Servers -> Seq(1 .. Len(log'))]
  <2>1. ASSUME NEW s \in Servers
        PROVE  bus[s] \in Seq(1 .. Len(log')) /\ Append(bus[s], Len(log')) \in Seq(1 .. Len(log'))
    <3>1. bus[s] \in Seq(1 .. Len(log')) /\ Len(log') \in 1 .. Len(log')
      BY <1>2, SeqMonotonic DEF Types
    <3> QED
      BY <3>1, AppendProperties
  <2>2. bus' = [s \in Servers |-> IF redis /\ s \in listening THEN Append(bus[s], Len(log'))
                                  ELSE bus[s]]
    BY DEF Publish
  <2> QED
    BY <2>1, <2>2
<1>4. conn' \in Socket(session)'
  <2>1. /\ conn.flight \in Seq(Own(session)') /\ conn.turns \in Seq(Own(session)')
        /\ conn.at \in Servers \cup {"nowhere"} /\ conn.sub \in Nat
    BY <1>2, SeqMonotonic DEF Carried, Socket
  <2>2. user = session => Append(conn.turns, Len(log')) \in Seq(Own(session)')
    BY <1>2, <2>1, AppendProperties
  <2>3. conn' = IF ~redis /\ conn.at = by /\ user = session
                THEN [conn EXCEPT !.turns = Append(@, Len(log'))] ELSE conn
    BY DEF Publish
  <2>4. Socket(session)' = [at : Servers \cup {"nowhere"}, flight : Seq(Own(session)'),
                            turns : Seq(Own(session)'), sub : Nat]
    BY <1>1 DEF Socket, Own
  <2> QED
    BY <2>1, <2>2, <2>3, <2>4 DEF Carried, Socket
<1>5. loads' \in Seq(Load(session)')
  <2>1. Load(session) \subseteq Load(session)'
    BY <1>1, <1>2 DEF Load
  <2> QED
    BY <1>1, <2>1, SeqMonotonic DEF Carried
<1>6. list' \in Seq(Own(session)') /\ view'.shown \subseteq Own(session)'
  BY <1>1, <1>2, SeqMonotonic DEF Carried
<1> QED
  BY <1>1, <1>2, <1>3, <1>4, <1>5, <1>6 DEF Types, Carried, Counted

\* The view, its list and its requests stay.
LEMMA ViewStays ==
    ASSUME Inv, UNCHANGED <<log, session, list, view, loads>>,
           bus' \in [Servers -> Seq(1 .. Len(log))], conn' \in Socket(session)
    PROVE  Inv'
  BY WithinSession DEF Inv, Types, Carried, Counted

LEMMA ForwardStep ==
    ASSUME Inv, NEW s \in Servers, Forward(s)
    PROVE  Inv'
<1>1. /\ bus[s] \in Seq(1 .. Len(log)) /\ bus[s] # <<>> /\ Len(log) \in Nat
      /\ UNCHANGED <<log, session, list, view, loads>> /\ bus' = [bus EXCEPT ![s] = Tail(@)]
  BY LenProperties DEF Inv, Types, Forward
<1>2. Head(bus[s]) \in 1 .. Len(log) /\ Tail(bus[s]) \in Seq(1 .. Len(log))
  BY <1>1, HeadTailProperties
<1>3. ToSend(s, Head(bus[s])) => Head(bus[s]) \in Own(session)
  BY <1>2 DEF Own, ToSend
<1>4. conn' \in Socket(session)
  <2>1. conn \in Socket(session) /\ Head(bus[s]) \in Nat
    BY <1>1, <1>2 DEF Inv, Carried
  <2>2. ToSend(s, Head(bus[s])) => Append(conn.turns, Head(bus[s])) \in Seq(Own(session))
    BY <1>3, <2>1, AppendProperties DEF Socket
  <2>3. conn' = IF ToSend(s, Head(bus[s]))
                THEN [conn EXCEPT !.turns = Append(@, Head(bus[s])), !.sub = Head(bus[s])]
                ELSE conn
    BY DEF Forward
  <2> QED
    BY <2>1, <2>2, <2>3 DEF Socket
<1>5. bus' \in [Servers -> Seq(1 .. Len(log))]
  BY <1>1, <1>2 DEF Inv, Types
<1> QED
  BY <1>1, <1>4, <1>5, ViewStays

LEMMA SendTextStep ==
    ASSUME Inv, SendText
    PROVE  Inv'
<1>1. /\ conn.turns # <<>> /\ UNCHANGED <<log, session, list, view, loads, bus>>
      /\ conn' = [conn EXCEPT !.turns = Tail(@), !.flight = Append(@, Head(conn.turns)),
                              !.sub = IF @ = Head(conn.turns) THEN 0 ELSE @]
      /\ conn \in Socket(session)
  BY DEF SendText, Inv, Carried
<1>2. Head(conn.turns) \in Own(session) /\ Tail(conn.turns) \in Seq(Own(session))
  BY <1>1, HeadTailProperties DEF Socket
<1>3. Append(conn.flight, Head(conn.turns)) \in Seq(Own(session))
  BY <1>1, <1>2, AppendProperties DEF Socket
<1>4. conn' \in Socket(session)
  BY <1>1, <1>2, <1>3 DEF Socket
<1> QED
  BY <1>1, <1>4, ViewStays DEF Inv, Types

LEMMA OtherSocketStep ==
    ASSUME Inv, OtherSocket
    PROVE  Inv'
<1>1. <<>> \in Seq(Own(session))
  BY EmptySeq
<1>2. /\ UNCHANGED <<log, session, list, view, loads, bus>>
      /\ conn' = [conn EXCEPT !.turns = <<>>, !.sub = 0] /\ conn \in Socket(session)
  BY DEF OtherSocket, Inv, Carried
<1>3. conn' \in Socket(session)
  BY <1>1, <1>2 DEF Socket
<1> QED
  BY <1>2, <1>3, ViewStays DEF Inv, Types

\* Nothing of the session moves, or what was on its way is lost.
LEMMA QuietStep ==
    ASSUME Inv, UNCHANGED <<log, session, list, view, loads>>,
           bus' = bus \/ bus' = [s \in Servers |-> <<>>],
           conn' = conn \/ conn' = Nowhere
    PROVE  Inv'
<1>1. <<>> \in Seq(1 .. Len(log)) /\ Nowhere \in Socket(session)
  BY EmptySeq, EmptySocket
<1>2. bus' \in [Servers -> Seq(1 .. Len(log))] /\ conn' \in Socket(session)
  BY <1>1 DEF Inv, Types, Carried
<1> QED
  BY <1>2, ViewStays

\* The first request of a view.
LEMMA MountLoads ==
    ASSUME NEW user
    PROVE  /\ [n |-> 1, rows |-> Own(user)] \in Load(user)
           /\ <<[n |-> 1, rows |-> Own(user)]>> \in Seq(Load(user))
<1>1. [n |-> 1, rows |-> Own(user)] \in Load(user)
  BY DEF Load
<1> QED
  BY <1>1, Singleton

LEMMA SignInStep ==
    ASSUME Inv, NEW user \in Users, SignIn(user)
    PROVE  Inv'
<1> USE DEF Inv
<1>1. /\ UNCHANGED <<log, bus, conn>> /\ session = Nobody /\ session' = user /\ list' = <<>>
      /\ view' = [Fresh EXCEPT !.newest = 1] /\ loads' = <<[n |-> 1, rows |-> Own(user)]>>
      /\ log \in Seq(Users)
  BY DEF SignIn, Types
<1>2. conn \in Socket(user)
  <2>1. Own(session) \subseteq Own(user)
    BY <1>1, NobodyOwns
  <2>2. conn.flight \in Seq(Own(user)) /\ conn.turns \in Seq(Own(user))
    BY <2>1, SeqMonotonic DEF Carried, Socket
  <2> QED
    BY <2>2 DEF Carried, Socket
<1>3. <<[n |-> 1, rows |-> Own(user)]>> \in Seq(Load(user))
  BY MountLoads
<1>4. <<>> \in Seq(Own(user)) /\ Len(<<>>) = 0
  BY EmptySeq
<1>5. view' \in View /\ view'.shown = {} /\ view'.idx = 0
  BY <1>1 DEF View, Fresh
<1>6. Own(session)' = Own(user) /\ Load(session)' = Load(user) /\ Socket(session)' = Socket(user)
  BY <1>1 DEF Own, Load, Socket
<1> QED
  BY <1>1, <1>2, <1>3, <1>4, <1>5, <1>6, CapAssumption DEF Types, Carried, Counted

LEMMA RemountStep ==
    ASSUME Inv, Remount
    PROVE  Inv'
<1>1. /\ UNCHANGED <<log, bus, session, conn, list>>
      /\ view' = [Fresh EXCEPT !.seen = list # <<>>, !.opened = hook.pc = "open", !.newest = 1]
      /\ loads' = <<[n |-> 1, rows |-> Own(session)]>>
  BY DEF Remount
<1>2. loads' \in Seq(Load(session))
  BY <1>1, MountLoads
<1>3. view' \in View /\ view'.shown = {} /\ view'.idx = 0
  <2>1. (list # <<>>) \in BOOLEAN /\ (hook.pc = "open") \in BOOLEAN
    OBVIOUS
  <2> QED
    BY <1>1, <2>1 DEF View, Fresh
<1>4. Len(list) \in Nat
  BY LenProperties DEF Inv, Carried
<1> QED
  BY <1>1, <1>2, <1>3, <1>4, WithinSession DEF Inv, Types, Carried, Counted

LEMMA LeaveStep ==
    ASSUME Inv, Leave
    PROVE  Inv'
<1> USE DEF Inv
<1>1. /\ UNCHANGED <<log, bus>> /\ session' = Nobody /\ conn' = Nowhere
      /\ list' = <<>> /\ view' = Fresh /\ loads' = <<>>
  BY DEF Leave
<1>2. /\ <<>> \in Seq(Own(session)') /\ <<>> \in Seq(Load(session)') /\ Len(<<>>) = 0
      /\ Nowhere \in Socket(session)'
  <2>1. <<>> \in Seq(Own(session)')
    BY EmptySeq
  <2> QED
    BY <2>1, EmptySeq DEF Nowhere, Socket
<1>3. Fresh \in View /\ Fresh.shown = {} /\ Fresh.idx = 0
  BY DEF Fresh, View
<1> QED
  BY <1>1, <1>2, <1>3, CapAssumption DEF Types, Carried, Counted

\* A request for the rows holds the session's own.
LEMMA LoadAsked ==
    ASSUME Inv
    PROVE  Append(loads, Loading(view)) \in Seq(Load(session))
<1>1. Loading(view) \in Load(session)
  BY DEF Inv, Types, Loading, Load, View
<1> QED
  BY <1>1, AppendProperties DEF Inv, Carried

LEMMA ConnectStep ==
    ASSUME Inv, NEW s \in Servers, Connect(s)
    PROVE  Inv'
<1>1. UNCHANGED <<log, bus, session, list>> /\ conn' = [Nowhere EXCEPT !.at = s] /\ Refetch
  BY DEF Connect
<1>2. conn' \in Socket(session)
  BY <1>1, EmptySocket
<1>3. loads' \in Seq(Load(session))
  BY <1>1, LoadAsked DEF Refetch, Inv, Carried
<1>4. view' \in View /\ view'.shown = view.shown /\ view'.idx = view.idx
  <2>1. view \in View
    BY DEF Inv, Types
  <2>2. \/ view' = [view EXCEPT !.newest = @ + 1]
        \/ view' = [view EXCEPT !.opened = TRUE]
    BY <1>1 DEF Refetch
  <2>3. CASE view' = [view EXCEPT !.newest = @ + 1]
    BY <2>1, <2>3 DEF View
  <2>4. CASE view' = [view EXCEPT !.opened = TRUE]
    BY <2>1, <2>4 DEF View
  <2> QED
    BY <2>2, <2>3, <2>4
<1> QED
  BY <1>1, <1>2, <1>3, <1>4, WithinSession DEF Inv, Types, Carried, Counted

-----------------------------------------------------------------------------
(* The list of messages                                                    *)

\* What a message does to the list.
LEMMA Received ==
    ASSUME NEW S, list \in Seq(S), NEW h \in S, Len(list) <= ListCap
    PROVE  /\ Push(h) \in Seq(S) /\ Len(list) \in Nat
           /\ Len(Push(h)) = IF Len(list) < ListCap THEN Len(list) + 1 ELSE ListCap
           /\ Push(h)[1] = h
           /\ \A i \in 1 .. Len(list) : i < ListCap => Push(h)[i + 1] = list[i]
<1> DEFINE all == <<h>> \o list
           size == IF Len(all) < ListCap THEN Len(all) ELSE ListCap
<1>1. <<h>> \in Seq(S) /\ Len(<<h>>) = 1 /\ <<h>>[1] = h
  OBVIOUS
<1>2. /\ all \in Seq(S) /\ Len(all) = 1 + Len(list) /\ Len(list) \in Nat
      /\ \A i \in 1 .. 1 + Len(list) : all[i] = IF i <= 1 THEN <<h>>[i] ELSE list[i - 1]
  BY <1>1, ConcatProperties, LenProperties
<1>3. /\ size \in Nat /\ size >= 1 /\ size <= Len(all) /\ all[1] = h
      /\ size = IF Len(list) < ListCap THEN Len(list) + 1 ELSE ListCap
      /\ \A i \in 1 .. Len(list) : all[i + 1] = list[i] /\ (i < ListCap => i + 1 \in 1 .. size)
  BY <1>1, <1>2, CapAssumption
<1>4. Push(h) = SubSeq(all, 1, size)
  BY DEF Push
<1> HIDE DEF all, size
<1>5. \A i \in 1 .. size : all[i] \in S
  BY <1>2, <1>3, ElementOfSeq
<1>6. /\ SubSeq(all, 1, size) \in Seq(S) /\ Len(SubSeq(all, 1, size)) = size
      /\ \A i \in 1 .. size : SubSeq(all, 1, size)[i] = all[1 + i - 1]
  BY <1>3, <1>5, SubSeqProperties
<1>7. \A i \in 1 .. size : Push(h)[i] = all[i]
  BY <1>3, <1>4, <1>6
<1>8. 1 \in 1 .. size
  BY <1>3
<1> QED
  BY <1>2, <1>3, <1>4, <1>6, <1>7, <1>8

LEMMA ReceiveStep ==
    ASSUME Inv, Receive
    PROVE  Inv'
<1>1. /\ UNCHANGED <<log, bus, session, loads>> /\ conn.flight # <<>>
      /\ conn' = [conn EXCEPT !.flight = Tail(@)]
      /\ view' = [view EXCEPT !.idx = IF @ < ListCap THEN @ + 1 ELSE @]
      /\ conn \in Socket(session) /\ conn.flight \in Seq(Own(session)) /\ view \in View
      /\ list' = Push(Head(conn.flight))
  BY DEF Receive, Inv, Types, Carried, Socket
<1>2. Head(conn.flight) \in Own(session) /\ Tail(conn.flight) \in Seq(Own(session))
  BY <1>1, HeadTailProperties
<1>3. conn' \in Socket(session)
  BY <1>1, <1>2 DEF Socket
<1>4. /\ list' \in Seq(Own(session)) /\ Len(list) \in Nat
      /\ Len(list') = IF Len(list) < ListCap THEN Len(list) + 1 ELSE ListCap
  BY <1>1, <1>2, Received DEF Inv, Carried, Counted
<1>5. /\ view' \in View /\ view'.shown = view.shown
      /\ view'.idx = IF view.idx < ListCap THEN view.idx + 1 ELSE view.idx
  <2>1. view.idx \in Nat
    BY <1>1 DEF View
  <2> QED
    BY <1>1, <2>1 DEF View
<1>6. Len(list') <= ListCap /\ view'.idx <= Len(list')
  <2>1. view.idx \in Nat /\ view.idx <= Len(list) /\ Len(list) <= ListCap
    BY <1>1 DEF View, Inv, Counted
  <2> QED
    BY <1>4, <1>5, <2>1, CapAssumption
<1> QED
  BY <1>1, <1>3, <1>4, <1>5, <1>6, WithinSession DEF Inv, Types, Carried

LEMMA UnreadOwn ==
    ASSUME Inv
    PROVE  /\ Unread \subseteq Own(session) /\ (view.idx = 0 \/ Unseen \subseteq Unread)
           /\ Own(session) \subseteq Nat
<1>1. /\ list \in Seq(Own(session)) /\ Len(list) \in Nat /\ view.idx \in Nat
      /\ view.idx <= Len(list)
  BY LenProperties DEF Inv, Carried, Counted, Types, View
<1>2. Unread \subseteq Own(session)
  <2>1. \A i \in 1 .. view.idx : i \in 1 .. Len(list)
    BY <1>1
  <2> QED
    BY <1>1, <2>1, ElementOfSeq DEF Unread
<1>3. view.idx # 0 => Unseen \subseteq Unread
  <2>1. view.idx # 0 => 1 \in 1 .. view.idx
    BY <1>1
  <2> QED
    BY <2>1 DEF Unseen, Unread
<1>4. Own(session) \subseteq Nat
  BY OwnEvents DEF Inv, Types
<1> QED
  BY <1>2, <1>3, <1>4

LEMMA ConsumeStep ==
    ASSUME Inv, Consume
    PROVE  Inv'
<1>1. UNCHANGED <<log, bus, session, conn, list>> /\ view.idx # 0 /\ view \in View
  BY DEF Consume, Inv, Types, View
<1>2. \/ /\ view' = [view EXCEPT !.shown = @ \cup Unseen, !.seen = TRUE, !.idx = 0]
         /\ loads' = loads
      \/ /\ view' = [view EXCEPT !.idx = 0, !.newest = @ + 1]
         /\ loads' = Append(loads, Loading(view))
  BY DEF Consume
<1>3. Unseen \subseteq Own(session) /\ Own(session) \subseteq Nat
  BY <1>1, UnreadOwn
<1>4. view' \in View /\ view'.shown \subseteq view.shown \cup Unseen /\ view'.idx = 0
  <2>1. view.shown \cup Unseen \in SUBSET Nat /\ view.newest + 1 \in Nat
    BY <1>1, <1>3 DEF View
  <2>2. CASE view' = [view EXCEPT !.shown = @ \cup Unseen, !.seen = TRUE, !.idx = 0]
    BY <1>1, <2>1, <2>2 DEF View
  <2>3. CASE view' = [view EXCEPT !.idx = 0, !.newest = @ + 1]
    BY <1>1, <2>1, <2>3 DEF View
  <2> QED
    BY <1>2, <2>2, <2>3
<1>5. loads' \in Seq(Load(session))
  BY <1>2, LoadAsked DEF Inv, Carried
<1>6. Len(list) \in Nat
  BY LenProperties DEF Inv, Carried
<1> QED
  BY <1>1, <1>3, <1>4, <1>5, <1>6, WithinSession DEF Inv, Types, Carried, Counted

LEMMA AnswerStep ==
    ASSUME Inv, NEW i \in 1 .. Len(loads), Answer(i) \/ NoAnswer(i)
    PROVE  Inv'
<1>1. UNCHANGED <<log, bus, session, conn, list>> /\ loads' = RemoveAt(loads, i)
  BY DEF Answer, NoAnswer
<1>2. loads' \in Seq(Load(session)) /\ loads[i] \in Load(session)
  BY <1>1, Removed, ElementOfSeq DEF Inv, Carried
<1>3. view' = view \/ view' = [view EXCEPT !.shown = loads[i].rows]
  BY DEF Answer, NoAnswer
<1>4. loads[i].rows \subseteq Own(session) /\ loads[i].rows \subseteq Nat
  BY <1>2, OwnEvents DEF Load, Inv, Types
<1>5. /\ view' \in View /\ (view'.shown = view.shown \/ view'.shown = loads[i].rows)
      /\ view'.idx = view.idx
  BY <1>3, <1>4 DEF Inv, Types, View
<1> QED
  BY <1>1, <1>2, <1>4, <1>5, WithinSession DEF Inv, Types, Carried, Counted

LEMMA InvNext ==
    ASSUME Inv, [Next]_vars
    PROVE  Inv'
<1>1. ASSUME NEW by \in Servers \cup {"worker"}, NEW user \in Users, Publish(by, user)
      PROVE  Inv'
  BY <1>1, PublishStep
<1>2. ASSUME NEW s \in Servers, Forward(s) \/ SubscriberReturns(s) \/ Connect(s)
      PROVE  Inv'
  <2>1. CASE Forward(s)
    BY <2>1, ForwardStep
  <2>2. CASE SubscriberReturns(s)
    BY <2>2, QuietStep DEF SubscriberReturns, browser
  <2>3. CASE Connect(s)
    BY <2>3, ConnectStep
  <2> QED
    BY <1>2, <2>1, <2>2, <2>3
<1>3. ASSUME NEW user \in Users, SignIn(user)
      PROVE  Inv'
  BY <1>3, SignInStep
<1>4. CASE RedisFails
  BY <1>4, QuietStep DEF RedisFails
<1>5. CASE RedisReturns
  BY <1>5, QuietStep DEF RedisReturns, browser
<1>6. CASE SignOut
  BY <1>6, LeaveStep DEF SignOut
<1>7. CASE GetTicket \/ TicketLapses \/ Retry
  BY <1>7, QuietStep DEF GetTicket, TicketLapses, Retry
<1>8. CASE Rejected
  BY <1>8, LeaveStep, QuietStep DEF Rejected
<1>9. CASE Drop
  BY <1>9, QuietStep DEF Drop
<1>10. CASE Receive
  BY <1>10, ReceiveStep
<1>11. CASE Consume
  BY <1>11, ConsumeStep
<1>12. ASSUME NEW i \in 1 .. Len(loads), Answer(i) \/ NoAnswer(i)
       PROVE  Inv'
  BY <1>12, AnswerStep
<1>13. CASE SendText \/ OtherSocket
  BY <1>13, SendTextStep, OtherSocketStep
<1>14. CASE Remount
  BY <1>14, RemountStep
<1>15. CASE UNCHANGED vars
  BY <1>15, QuietStep DEF vars, browser
<1> QED
  BY <1>1, <1>2, <1>3, <1>4, <1>5, <1>6, <1>7, <1>8, <1>9, <1>10, <1>11, <1>12, <1>13, <1>14, <1>15
  DEF Next

\* What is on its way to a browser, what it asked for and what it shows is its
\* session's own, in every state.
THEOREM Invariant == Spec => []Inv
<1>1. Init => Inv
  BY InvInit
<1>2. Inv /\ [Next]_vars => Inv'
  BY InvNext
<1> QED
  BY <1>1, <1>2, PTL DEF Spec

\* A browser that changes sessions never holds an event of another tenant: the
\* tenant's filter of the send loop, and the list, the view and the socket that
\* leaving gives up, are together enough.
THEOREM OwnEventsOnly == Spec => []NoForeignEvents
<1>1. ASSUME Inv PROVE NoForeignEvents
  <2>1. Items(conn.flight) \cup Items(conn.turns) \cup Items(list) \subseteq Own(session)
    BY <1>1, ItemsOf DEF Inv, Carried, Socket
  <2> QED
    BY <1>1, <2>1 DEF NoForeignEvents, Inv, Carried
<1> QED
  BY <1>1, Invariant, PTL

-----------------------------------------------------------------------------
(* Where every event of the tenant is                                      *)

Hook == [pc : {"off", "ask", "dial", "open", "wait"}, ticket : BOOLEAN]
History == [outages : Nat, drops : Nat, mounts : Nat, missed : SUBSET Nat]

\* The socket belongs to the hook, and opening it is remembered.
Wired ==
    /\ hook \in Hook /\ history \in History
    /\ session = Nobody => hook.pc = "off"
    /\ hook.pc = "open" => conn.at \in Servers /\ view.opened
    /\ hook.pc # "open" => conn = Nowhere

\* Shown, given up, or in an answer that will be shown.
Covered(e) ==
    \/ e \in view.shown \/ e \in history.missed
    \/ \E l \in Items(loads) : Counts(l) /\ e \in l.rows

\* Before the socket, or on it.
Queued ==
    Items(conn.turns) \cup Items(conn.flight)
       \cup IF conn.at \in Servers THEN Items(bus[conn.at]) ELSE {}

\* A view that lost its socket loads again when it has one, so events may go
\* astray until then.
Told ==
    hook.pc = "open" \/ ~view.opened =>
       \A e \in Own(session) : Covered(e) \/ (hook.pc = "open" /\ e \in Queued \cup Unread)

Tracked == Inv /\ Wired /\ Told

-----------------------------------------------------------------------------
(* What a sequence holds                                                   *)

LEMMA ItemsAppend ==
    ASSUME NEW S, NEW s \in Seq(S), NEW e \in S
    PROVE  Items(Append(s, e)) = Items(s) \cup {e}
<1>1. /\ Len(Append(s, e)) = Len(s) + 1 /\ Len(s) \in Nat
      /\ \A i \in 1 .. Len(s) : Append(s, e)[i] = s[i]
      /\ Append(s, e)[Len(s) + 1] = e
  BY AppendProperties, LenProperties
<1>2. 1 .. Len(s) + 1 = (1 .. Len(s)) \cup {Len(s) + 1}
  BY <1>1
<1> QED
  BY <1>1, <1>2 DEF Items

LEMMA ItemsEmpty == Items(<<>>) = {}
  BY DEF Items

LEMMA ItemsTail ==
    ASSUME NEW S, NEW s \in Seq(S), s # <<>>
    PROVE  /\ Head(s) \in Items(s) /\ Tail(s) \in Seq(S)
           /\ Items(s) = {Head(s)} \cup Items(Tail(s))
<1>1. /\ Tail(s) \in Seq(S) /\ Len(Tail(s)) = Len(s) - 1 /\ Len(s) \in Nat \ {0}
      /\ \A i \in 1 .. Len(Tail(s)) : Tail(s)[i] = s[i + 1]
  BY HeadTailProperties, EmptySeq
<1>2. Head(s) = s[1] /\ 1 \in 1 .. Len(s)
  BY HeadOf
<1>3. ASSUME NEW e \in Items(s)
      PROVE  e = Head(s) \/ e \in Items(Tail(s))
  <2>1. PICK i \in 1 .. Len(s) : e = s[i]
    BY DEF Items
  <2>2. CASE i = 1
    BY <1>2, <2>1, <2>2
  <2>3. CASE i # 1
    <3>1. i - 1 \in 1 .. Len(Tail(s)) /\ (i - 1) + 1 = i
      BY <1>1, <2>1, <2>3
    <3>2. Tail(s)[i - 1] = s[i]
      BY <1>1, <3>1
    <3> QED
      BY <2>1, <3>1, <3>2 DEF Items
  <2> QED
    BY <2>2, <2>3
<1>4. ASSUME NEW e \in Items(Tail(s))
      PROVE  e \in Items(s)
  <2>1. PICK i \in 1 .. Len(Tail(s)) : e = Tail(s)[i]
    BY DEF Items
  <2>2. i + 1 \in 1 .. Len(s) /\ e = s[i + 1]
    BY <1>1, <2>1
  <2> QED
    BY <2>2 DEF Items
<1> QED
  BY <1>1, <1>2, <1>3, <1>4 DEF Items

LEMMA ItemsRemoved ==
    ASSUME NEW S, NEW s \in Seq(S), NEW i \in 1 .. Len(s), NEW k \in 1 .. Len(s), k # i
    PROVE  s[k] \in Items(RemoveAt(s, i))
<1>1. Len(s) \in Nat /\ \A j \in 1 .. Len(s) : s[j] \in S
  BY LenProperties, ElementOfSeq
<1> DEFINE a == SubSeq(s, 1, i - 1)
           b == SubSeq(s, i + 1, Len(s))
<1>2. /\ a \in Seq(S) /\ Len(a) = i - 1
      /\ \A j \in 1 .. i - 1 : a[j] = s[j]
  BY <1>1, SubSeqProperties
<1>3. /\ b \in Seq(S) /\ Len(b) = Len(s) - i
      /\ \A j \in 1 .. Len(s) - i : b[j] = s[i + j]
  BY <1>1, SubSeqProperties
<1> HIDE DEF a, b
<1>4. /\ Len(a \o b) = Len(s) - 1
      /\ \A j \in 1 .. Len(s) - 1 : (a \o b)[j] = IF j <= i - 1 THEN a[j] ELSE b[j - (i - 1)]
  <2>1. /\ Len(a \o b) = Len(a) + Len(b)
        /\ \A j \in 1 .. Len(a) + Len(b) : (a \o b)[j] = IF j <= Len(a) THEN a[j] ELSE b[j - Len(a)]
    BY <1>2, <1>3, ConcatProperties
  <2>2. Len(a) + Len(b) = Len(s) - 1
    BY <1>1, <1>2, <1>3
  <2> QED
    BY <1>2, <2>1, <2>2
<1>5. CASE k < i
  <2>1. k \in 1 .. Len(s) - 1 /\ k <= i - 1 /\ k \in 1 .. i - 1
    BY <1>1, <1>5
  <2>2. (a \o b)[k] = s[k]
    BY <1>2, <1>4, <2>1
  <2> QED
    BY <1>4, <2>1, <2>2 DEF Items, RemoveAt, a, b
<1>6. CASE k > i
  <2>1. k - 1 \in 1 .. Len(s) - 1 /\ ~(k - 1 <= i - 1) /\ (k - 1) - (i - 1) = k - i
        /\ k - i \in 1 .. Len(s) - i /\ i + (k - i) = k
    BY <1>1, <1>6
  <2>2. (a \o b)[k - 1] = s[k]
    BY <1>3, <1>4, <2>1
  <2> QED
    BY <1>4, <2>1, <2>2 DEF Items, RemoveAt, a, b
<1> QED
  BY <1>1, <1>5, <1>6

-----------------------------------------------------------------------------
(* The steps, and where they leave every event                             *)

LEMMA Ranges ==
    ASSUME Tracked
    PROVE  /\ log \in Seq(Users) /\ Len(log) \in Nat /\ view \in View /\ history \in History
           /\ conn \in Socket(session) /\ loads \in Seq(Load(session))
           /\ Own(session) \subseteq 1 .. Len(log) /\ Own(session) \subseteq Nat
           /\ Items(conn.flight) \cup Items(conn.turns) \subseteq Own(session)
           /\ \A s \in Servers : /\ bus[s] \in Seq(1 .. Len(log))
                                 /\ Items(bus[s]) \subseteq 1 .. Len(log)
<1>1. /\ log \in Seq(Users) /\ Len(log) \in Nat /\ view \in View /\ history \in History
      /\ conn \in Socket(session) /\ loads \in Seq(Load(session))
      /\ Own(session) \subseteq 1 .. Len(log) /\ Own(session) \subseteq Nat
      /\ \A s \in Servers : bus[s] \in Seq(1 .. Len(log))
  BY LenProperties, OwnEvents DEF Tracked, Wired, Inv, Types, Carried
<1>2. conn.flight \in Seq(Own(session)) /\ conn.turns \in Seq(Own(session))
  BY <1>1 DEF Socket
<1> QED
  BY <1>1, <1>2, ItemsOf

\* What is covered stays covered while the view and its requests stay.
LEMMA CoveredStays ==
    ASSUME UNCHANGED <<kind, loads>>, view'.shown = view.shown, view'.newest = view.newest,
           history.missed \subseteq history'.missed, NEW e, Covered(e)
    PROVE  Covered(e)'
  BY DEF Covered, Counts

\* A new request covers everything.
LEMMA NewLoadCovers ==
    ASSUME Inv, UNCHANGED <<kind, log, session>>, loads' = Append(loads, Loading(view)),
           view'.newest = view.newest + 1
    PROVE  \A e \in Own(session) : Covered(e)'
<1>1. Items(loads') = Items(loads) \cup {Loading(view)}
  <2>1. Loading(view) \in Load(session)
    BY DEF Inv, Types, Loading, Load, View
  <2> QED
    BY <2>1, ItemsAppend DEF Inv, Carried
<1>2. Loading(view).n = view'.newest /\ Loading(view).rows = Own(session)
  BY DEF Loading
<1> QED
  BY <1>1, <1>2 DEF Covered, Counts

\* The first request of a view covers everything.
LEMMA MountCovers ==
    ASSUME NEW user, session' = user, log' = log, view'.newest = 1,
           loads' = <<[n |-> 1, rows |-> Own(user)]>>
    PROVE  Own(session)' = Own(user) /\ \A e \in Own(user) : Covered(e)'
<1>1. [n |-> 1, rows |-> Own(user)] \in Items(loads')
  BY DEF Items
<1>2. Own(session)' = Own(user)
  BY DEF Own
<1> QED
  BY <1>1, <1>2 DEF Covered, Counts

\* The view and its requests stay; what was on its way still is, or is given
\* up, or its socket is.
LEMMA QuietTold ==
    ASSUME Tracked, UNCHANGED <<kind, log, session, list, view, loads>>,
           history.missed \subseteq history'.missed,
           hook'.pc = "open" => hook.pc = "open",
           \A e \in Own(session) : hook'.pc = "open" /\ e \in Queued
                                      => e \in Queued' \/ e \in history'.missed
    PROVE  Told'
<1>1. Own(session)' = Own(session) /\ Unread' = Unread
  BY DEF Own, Unread
<1>2. \A e \in Own(session) : Covered(e) => Covered(e)'
  BY CoveredStays
<1>3. \A e : e \in history'.missed => Covered(e)'
  BY DEF Covered
<1> SUFFICES ASSUME (hook.pc = "open" \/ ~view.opened)', NEW e \in Own(session)
             PROVE  Covered(e)' \/ (hook.pc = "open" /\ e \in Queued \cup Unread)'
  BY <1>1 DEF Told
<1>4. hook.pc = "open" \/ ~view.opened
  OBVIOUS
<1>5. Covered(e) \/ (hook.pc = "open" /\ e \in Queued \cup Unread)
  BY <1>4 DEF Tracked, Told
<1>6. hook.pc = "open" => hook'.pc = "open"
  BY DEF Tracked, Wired
<1> QED
  BY <1>1, <1>2, <1>3, <1>5, <1>6

LEMMA PublishTold ==
    ASSUME Tracked, Inv', NEW by \in Servers \cup {"worker"}, NEW user \in Users, Publish(by, user)
    PROVE  Tracked'
<1> DEFINE n == Len(log')
<1>1. /\ log' = Append(log, user) /\ UNCHANGED <<kind, redis, listening, session, hook, list, view, loads>>
      /\ bus' = [s \in Servers |-> IF redis /\ s \in listening THEN Append(bus[s], n) ELSE bus[s]]
      /\ conn' = IF ~redis /\ conn.at = by /\ user = session
                 THEN [conn EXCEPT !.turns = Append(@, n)] ELSE conn
      /\ IF user = session /\ (IF hook.pc = "open" THEN ~Reaches(by) ELSE ~view.opened)
         THEN Miss({n}) ELSE UNCHANGED history
  BY DEF Publish
<1>2. /\ log' \in Seq(Users) /\ n = Len(log) + 1 /\ Len(log) \in Nat /\ n \in Nat
      /\ \A i \in 1 .. Len(log) : log'[i] = log[i]
      /\ log'[n] = user
  BY <1>1, Ranges, AppendProperties
<1>3. Own(session)' = IF user = session THEN Own(session) \cup {n} ELSE Own(session)
  <2>1. 1 .. n = (1 .. Len(log)) \cup {n}
    BY <1>2
  <2> QED
    BY <1>1, <1>2, <2>1 DEF Own
<1> HIDE DEF n
<1>4. history' \in History /\ history.missed \subseteq history'.missed
  <2>1. history' = history \/ history' = [history EXCEPT !.missed = @ \cup {n}]
    BY <1>1 DEF Miss
  <2>2. history \in History
    BY Ranges
  <2> QED
    BY <1>2, <2>1, <2>2 DEF History
<1>5. /\ conn'.at = conn.at /\ conn'.flight = conn.flight
      /\ conn'.turns = IF ~redis /\ conn.at = by /\ user = session THEN Append(conn.turns, n)
                       ELSE conn.turns
  BY <1>1, Ranges DEF Socket
<1>6. Wired'
  <2>1. hook.pc # "open" => conn' = conn
    BY <1>1, NowhereAssumption DEF Tracked, Wired, Nowhere
  <2> QED
    BY <1>1, <1>4, <1>5, <2>1 DEF Tracked, Wired
<1>7. ASSUME NEW s \in Servers
      PROVE  Items(bus'[s]) = Items(bus[s]) \cup IF redis /\ s \in listening THEN {n} ELSE {}
  <2>1. bus[s] \in Seq(Nat)
    <3>1. bus[s] \in Seq(1 .. Len(log)) /\ 1 .. Len(log) \subseteq Nat
      BY <1>2, Ranges
    <3> QED
      BY <3>1, SeqMonotonic
  <2>2. Items(Append(bus[s], n)) = Items(bus[s]) \cup {n}
    BY <1>2, <2>1, ItemsAppend
  <2>3. bus'[s] = IF redis /\ s \in listening THEN Append(bus[s], n) ELSE bus[s]
    BY <1>1
  <2> QED
    BY <2>2, <2>3
<1>8. Items(conn'.turns) = Items(conn.turns)
                              \cup IF ~redis /\ conn.at = by /\ user = session THEN {n} ELSE {}
  <2>1. conn.turns \in Seq(Nat)
    <3>1. conn.turns \in Seq(Own(session)) /\ Own(session) \subseteq Nat
      BY Ranges DEF Socket
    <3> QED
      BY <3>1, SeqMonotonic
  <2>2. Items(Append(conn.turns, n)) = Items(conn.turns) \cup {n}
    BY <1>2, <2>1, ItemsAppend
  <2> QED
    BY <1>5, <2>2
<1>9. /\ Queued \subseteq Queued'
      /\ user = session /\ hook.pc = "open" /\ Reaches(by) => n \in Queued'
  <2>1. hook.pc = "open" => conn.at \in Servers
    BY DEF Tracked, Wired
  <2>2. redis /\ conn.at \in Servers /\ conn.at \in listening => n \in Items(bus'[conn.at])
    BY <1>7
  <2>3. ~redis /\ conn.at = by /\ user = session => n \in Items(conn'.turns)
    BY <1>8
  <2>4. conn.at \in Servers => Items(bus[conn.at]) \subseteq Items(bus'[conn.at])
    BY <1>7
  <2> QED
    BY <1>5, <1>8, <2>1, <2>2, <2>3, <2>4 DEF Queued, Reaches
<1>10. \A e \in Own(session) : Covered(e) => Covered(e)'
  BY <1>1, <1>4, CoveredStays
<1>11. Unread' = Unread
  BY <1>1 DEF Unread
<1>12. Told'
  <2> SUFFICES ASSUME (hook.pc = "open" \/ ~view.opened)', NEW e \in Own(session)'
               PROVE  Covered(e)' \/ (hook.pc = "open" /\ e \in Queued \cup Unread)'
    BY DEF Told
  <2>1. CASE e \in Own(session)
    BY <1>1, <1>9, <1>10, <1>11, <2>1 DEF Tracked, Told
  <2>2. CASE e \notin Own(session)
    <3>1. e = n /\ user = session
      BY <1>3, <2>2
    <3>2. CASE hook.pc = "open" /\ Reaches(by)
      BY <1>1, <1>9, <3>1, <3>2
    <3>3. CASE ~(hook.pc = "open" /\ Reaches(by))
      <4>1. history' = [history EXCEPT !.missed = @ \cup {n}]
        BY <1>1, <3>1, <3>3 DEF Miss
      <4>2. n \in history'.missed
        BY <4>1, Ranges DEF History
      <4> QED
        BY <3>1, <4>2 DEF Covered
    <3> QED
      BY <3>2, <3>3
  <2> QED
    BY <2>1, <2>2
<1> QED
  BY <1>6, <1>12 DEF Tracked

LEMMA ForwardTold ==
    ASSUME Tracked, Inv', NEW s \in Servers, Forward(s)
    PROVE  Tracked'
<1> DEFINE h == Head(bus[s])
<1>1. /\ bus[s] # <<>> /\ bus' = [bus EXCEPT ![s] = Tail(@)]
      /\ conn' = IF ToSend(s, h) THEN [conn EXCEPT !.turns = Append(@, h), !.sub = h] ELSE conn
      /\ UNCHANGED <<kind, log, session, hook, list, view, loads, history>>
      /\ conn \in Socket(session)
  BY Ranges DEF Forward
<1>2. h \in Nat /\ Items(bus[s]) = {h} \cup Items(Tail(bus[s]))
  <2>1. bus[s] \in Seq(1 .. Len(log)) /\ Len(log) \in Nat
    BY Ranges
  <2>2. Items(bus[s]) = {h} \cup Items(Tail(bus[s]))
    BY <1>1, <2>1, ItemsTail
  <2>3. h \in 1 .. Len(log)
    BY <1>1, <2>1, HeadTailProperties
  <2> QED
    BY <2>1, <2>2, <2>3
<1>3. bus'[s] = Tail(bus[s]) /\ \A r \in Servers : r # s => bus'[r] = bus[r]
  BY <1>1 DEF Tracked, Inv, Types
<1> HIDE DEF h
<1>4. conn'.at = conn.at /\ conn'.flight = conn.flight /\ (~ToSend(s, h) => conn' = conn)
  BY <1>1 DEF Socket
<1>5. Items(conn'.turns) = Items(conn.turns) \cup IF ToSend(s, h) THEN {h} ELSE {}
  <2>1. conn.turns \in Seq(Nat)
    <3>1. conn.turns \in Seq(Own(session)) /\ Own(session) \subseteq Nat
      BY Ranges DEF Socket
    <3> QED
      BY <3>1, SeqMonotonic
  <2>2. Items(Append(conn.turns, h)) = Items(conn.turns) \cup {h}
    BY <1>2, <2>1, ItemsAppend
  <2>3. conn'.turns = IF ToSend(s, h) THEN Append(conn.turns, h) ELSE conn.turns
    BY <1>1 DEF Socket
  <2> QED
    BY <2>2, <2>3
<1>6. Wired'
  <2>1. hook.pc # "open" => conn' = conn
    BY <1>4, NowhereAssumption DEF Tracked, Wired, Nowhere, ToSend
  <2> QED
    BY <1>1, <1>4, <2>1 DEF Tracked, Wired
<1>7. \A e \in Own(session) : e \in Queued => e \in Queued'
  <2>1. CASE conn.at = s
    <3>1. Queued = Items(conn.turns) \cup Items(conn.flight) \cup {h} \cup Items(Tail(bus[s]))
      BY <1>2, <2>1 DEF Queued
    <3>2. Queued' = Items(conn'.turns) \cup Items(conn.flight) \cup Items(Tail(bus[s]))
      BY <1>3, <1>4, <2>1 DEF Queued
    <3>3. ~ToSend(s, h) => h \notin Own(session)
      BY <2>1 DEF Own, ToSend
    <3> QED
      BY <1>5, <3>1, <3>2, <3>3
  <2>2. CASE conn.at # s
    BY <1>3, <1>4, <1>5, <2>2 DEF Queued
  <2> QED
    BY <2>1, <2>2
<1>8. Told'
  BY <1>1, <1>7, QuietTold
<1> QED
  BY <1>6, <1>8 DEF Tracked

LEMMA SendTextTold ==
    ASSUME Tracked, Inv', SendText
    PROVE  Tracked'
<1> DEFINE h == Head(conn.turns)
<1>1. /\ conn.turns # <<>> /\ conn \in Socket(session)
      /\ conn' = [conn EXCEPT !.turns = Tail(@), !.flight = Append(@, h),
                              !.sub = IF @ = h THEN 0 ELSE @]
      /\ UNCHANGED <<kind, log, session, bus, hook, list, view, loads, history>>
  BY Ranges DEF SendText
<1>2. conn.turns \in Seq(Own(session)) /\ conn.flight \in Seq(Own(session))
  BY <1>1 DEF Socket
<1>3. h \in Own(session) /\ Items(conn.turns) = {h} \cup Items(Tail(conn.turns))
  BY <1>1, <1>2, ItemsTail, HeadTailProperties
<1> HIDE DEF h
<1>4. conn'.at = conn.at /\ conn'.turns = Tail(conn.turns) /\ conn'.flight = Append(conn.flight, h)
  BY <1>1 DEF Socket
<1>5. Items(conn'.flight) = Items(conn.flight) \cup {h}
  BY <1>2, <1>3, <1>4, ItemsAppend
<1>6. Wired'
  <2>1. hook.pc = "open"
    BY <1>1 DEF Tracked, Wired, Nowhere
  <2> QED
    BY <1>1, <1>4, <2>1 DEF Tracked, Wired
<1>7. Queued' = Queued
  BY <1>1, <1>3, <1>4, <1>5 DEF Queued
<1>8. Told'
  BY <1>1, <1>7, QuietTold
<1> QED
  BY <1>6, <1>8 DEF Tracked

LEMMA OtherSocketTold ==
    ASSUME Tracked, Inv', OtherSocket
    PROVE  Tracked'
<1>1. /\ conn.turns # <<>> /\ conn \in Socket(session) /\ history \in History
      /\ conn' = [conn EXCEPT !.turns = <<>>, !.sub = 0]
      /\ history' = [history EXCEPT !.missed = @ \cup Items(conn.turns)]
      /\ UNCHANGED <<kind, log, session, bus, hook, list, view, loads>>
  BY Ranges DEF OtherSocket, Miss
<1>2. conn'.at = conn.at /\ conn'.flight = conn.flight
  BY <1>1 DEF Socket
<1>3. history' \in History /\ history'.missed = history.missed \cup Items(conn.turns)
  <2>1. Items(conn.turns) \subseteq Nat
    BY Ranges
  <2> QED
    BY <1>1, <2>1 DEF History
<1>4. Wired'
  <2>1. hook.pc = "open"
    BY <1>1 DEF Tracked, Wired, Nowhere
  <2> QED
    BY <1>1, <1>2, <1>3, <2>1 DEF Tracked, Wired
<1>5. \A e \in Queued : e \in Queued' \/ e \in history'.missed
  BY <1>1, <1>2, <1>3 DEF Queued
<1>6. Told'
  BY <1>1, <1>3, <1>5, QuietTold
<1> QED
  BY <1>4, <1>6 DEF Tracked

LEMMA RedisFailsTold ==
    ASSUME Tracked, Inv', RedisFails
    PROVE  Tracked'
<1> DEFINE gone == IF conn.at \in Servers THEN Items(bus[conn.at]) \cap Own(session) ELSE {}
<1>1. /\ bus' = [s \in Servers |-> <<>>] /\ hook' = [hook EXCEPT !.ticket = FALSE]
      /\ history' = [history EXCEPT !.outages = @ + 1, !.missed = @ \cup gone]
      /\ UNCHANGED <<kind, log, session, conn, list, view, loads>>
  BY DEF RedisFails
<1>2. gone \subseteq Nat
  BY Ranges
<1> HIDE DEF gone
<1>3. history' \in History /\ history'.missed = history.missed \cup gone
  <2>1. history \in History
    BY Ranges
  <2> DEFINE once == [history EXCEPT !.outages = @ + 1]
  <2>2. once \in History /\ once.missed = history.missed
    BY <2>1 DEF History
  <2>3. history' = [once EXCEPT !.missed = @ \cup gone]
    BY <1>1
  <2> HIDE DEF once
  <2> QED
    BY <1>2, <2>2, <2>3 DEF History
<1>4. hook' \in Hook /\ hook'.pc = hook.pc
  BY <1>1 DEF Tracked, Wired, Hook
<1>5. Wired'
  BY <1>1, <1>3, <1>4 DEF Tracked, Wired
<1>6. \A e \in Own(session) : e \in Queued => e \in Queued' \/ e \in history'.missed
  BY <1>1, <1>3 DEF Queued, gone
<1>7. Told'
  BY <1>1, <1>3, <1>4, <1>6, QuietTold
<1> QED
  BY <1>5, <1>7 DEF Tracked

\* The hook goes on without a socket, or Redis and a subscriber come back.
LEMMA AsideTold ==
    ASSUME Tracked, Inv', UNCHANGED <<kind, log, bus, session, conn, list, view, loads, history>>,
           hook' \in Hook,
           hook'.pc = hook.pc \/ (hook.pc \notin {"off", "open"} /\ hook'.pc # "open")
    PROVE  Tracked'
<1>1. Wired'
  BY DEF Tracked, Wired
<1>2. Queued' = Queued
  BY DEF Queued
<1>3. Told'
  BY <1>2, QuietTold
<1> QED
  BY <1>1, <1>3 DEF Tracked

LEMMA DropTold ==
    ASSUME Tracked, Inv', Drop
    PROVE  Tracked'
<1>1. /\ hook.pc = "open" /\ hook' = [hook EXCEPT !.pc = "wait"] /\ conn' = Nowhere
      /\ history' = [history EXCEPT !.drops = @ + 1]
      /\ UNCHANGED <<kind, log, bus, session, list, view, loads>>
  BY DEF Drop
<1>2. hook' \in Hook /\ hook'.pc = "wait"
  BY <1>1 DEF Tracked, Wired, Hook
<1>3. history' \in History /\ history'.missed = history.missed
  <2>1. history \in History
    BY Ranges
  <2> QED
    BY <1>1, <2>1 DEF History
<1>4. Wired'
  BY <1>1, <1>2, <1>3 DEF Tracked, Wired
<1>5. Told'
  BY <1>1, <1>2, <1>3, QuietTold
<1> QED
  BY <1>4, <1>5 DEF Tracked

LEMMA LeaveTold ==
    ASSUME Tracked, Inv', Leave
    PROVE  Tracked'
<1>1. /\ session' = Nobody /\ hook' = Off /\ conn' = Nowhere /\ view' = Fresh
      /\ UNCHANGED <<kind, log, bus, history>>
  BY DEF Leave
<1>2. hook' \in Hook /\ hook'.pc = "off"
  BY <1>1 DEF Hook, Off
<1>3. Wired'
  BY <1>1, <1>2 DEF Tracked, Wired
<1>4. Told'
  <2>1. Own(session)' = {}
    BY <1>1, NobodyOwns DEF Tracked, Inv, Types, Own
  <2> QED
    BY <2>1 DEF Told
<1> QED
  BY <1>3, <1>4 DEF Tracked

\* A view begins: what it gives up is counted anew.
LEMMA Mounted ==
    ASSUME Tracked, history' = [history EXCEPT !.mounts = @ + 1, !.missed = {}]
    PROVE  history' \in History
<1>1. history \in History
  BY Ranges
<1> DEFINE once == [history EXCEPT !.mounts = @ + 1]
<1>2. once \in History
  BY <1>1 DEF History
<1>3. history' = [once EXCEPT !.missed = {}]
  OBVIOUS
<1> HIDE DEF once
<1> QED
  BY <1>2, <1>3 DEF History

LEMMA SignInTold ==
    ASSUME Tracked, Inv', NEW user \in Users, SignIn(user)
    PROVE  Tracked'
<1>1. /\ session = Nobody /\ session' = user /\ hook' = [pc |-> "ask", ticket |-> FALSE]
      /\ view' = [Fresh EXCEPT !.newest = 1] /\ loads' = <<[n |-> 1, rows |-> Own(user)]>>
      /\ history' = [history EXCEPT !.mounts = @ + 1, !.missed = {}]
      /\ UNCHANGED <<kind, log, bus, conn>>
  BY DEF SignIn
<1>2. hook' \in Hook /\ hook'.pc = "ask" /\ hook.pc = "off" /\ view'.newest = 1
  BY <1>1 DEF Hook, Tracked, Wired, Fresh
<1>3. Wired'
  BY <1>1, <1>2, Mounted, NobodyAssumption DEF Tracked, Wired
<1>4. Told'
  BY <1>1, <1>2, MountCovers DEF Told
<1> QED
  BY <1>3, <1>4 DEF Tracked

LEMMA RemountTold ==
    ASSUME Tracked, Inv', Remount
    PROVE  Tracked'
<1>1. /\ view' = [Fresh EXCEPT !.seen = list # <<>>, !.opened = hook.pc = "open", !.newest = 1]
      /\ loads' = <<[n |-> 1, rows |-> Own(session)]>>
      /\ history' = [history EXCEPT !.mounts = @ + 1, !.missed = {}]
      /\ UNCHANGED <<kind, log, bus, session, hook, conn, list>>
  BY DEF Remount
<1>2. view'.opened = (hook.pc = "open") /\ view'.newest = 1
  BY <1>1 DEF Fresh
<1>3. Wired'
  BY <1>1, <1>2, Mounted DEF Tracked, Wired
<1>4. Told'
  BY <1>1, <1>2, MountCovers DEF Told
<1> QED
  BY <1>3, <1>4 DEF Tracked

LEMMA ConnectTold ==
    ASSUME Tracked, Inv', NEW s \in Servers, Connect(s)
    PROVE  Tracked'
<1>1. /\ hook.pc = "dial" /\ hook' = [pc |-> "open", ticket |-> FALSE]
      /\ conn' = [Nowhere EXCEPT !.at = s] /\ Refetch /\ view \in View
      /\ UNCHANGED <<kind, log, bus, session, list, history>>
  BY Ranges DEF Connect
<1>2. hook' \in Hook /\ hook'.pc = "open" /\ conn'.at = s
  BY <1>1 DEF Hook, Nowhere
<1>3. view'.opened /\ Own(session)' = Own(session)
  BY <1>1 DEF Refetch, View, Own
<1>4. Wired'
  BY <1>1, <1>2, <1>3 DEF Tracked, Wired
<1>5. \A e \in Own(session) : Covered(e)'
  <2>1. CASE view.opened
    <3>1. view' = [view EXCEPT !.newest = @ + 1] /\ loads' = Append(loads, Loading(view))
      BY <1>1, <2>1 DEF Refetch
    <3>2. view'.newest = view.newest + 1
      BY <1>1, <3>1 DEF View
    <3>3. Inv
      BY DEF Tracked
    <3> QED
      BY <1>1, <3>1, <3>2, <3>3, NewLoadCovers
  <2>2. CASE ~view.opened
    <3>1. view' = [view EXCEPT !.opened = TRUE] /\ loads' = loads
      BY <1>1, <2>2 DEF Refetch
    <3>2. view'.shown = view.shown /\ view'.newest = view.newest
      BY <1>1, <3>1 DEF View
    <3>3. \A e \in Own(session) : Covered(e)
      BY <1>1, <2>2 DEF Tracked, Told
    <3> QED
      BY <1>1, <3>1, <3>2, <3>3, CoveredStays
  <2> QED
    BY <2>1, <2>2
<1> QED
  BY <1>3, <1>4, <1>5 DEF Tracked, Told

LEMMA ReceiveTold ==
    ASSUME Tracked, Inv', Receive
    PROVE  Tracked'
<1> DEFINE h == Head(conn.flight)
           rolled == IF view.idx = ListCap THEN {list[ListCap]} \ view.shown ELSE {}
<1>1. /\ conn.flight # <<>> /\ conn' = [conn EXCEPT !.flight = Tail(@)] /\ list' = Push(h)
      /\ view' = [view EXCEPT !.idx = IF @ < ListCap THEN @ + 1 ELSE @]
      /\ history' = [history EXCEPT !.missed = @ \cup rolled]
      /\ UNCHANGED <<kind, log, session, bus, hook, loads>>
      /\ conn \in Socket(session) /\ view \in View /\ history \in History
  BY Ranges DEF Receive, Miss
<1>2. conn.flight \in Seq(Own(session)) /\ Own(session) \subseteq Nat
  BY <1>1, Ranges DEF Socket
<1>3. h \in Own(session) /\ Items(conn.flight) = {h} \cup Items(Tail(conn.flight))
  BY <1>1, <1>2, ItemsTail, HeadTailProperties
<1> HIDE DEF h
<1>4. /\ list \in Seq(Own(session)) /\ view.idx \in Nat
      /\ view.idx <= Len(list) /\ Len(list) <= ListCap
  BY <1>1 DEF View, Tracked, Inv, Carried, Counted
<1>5. /\ Len(list) \in Nat /\ Push(h)[1] = h
      /\ \A i \in 1 .. Len(list) : i < ListCap => Push(h)[i + 1] = list[i]
  BY <1>3, <1>4, Received
<1>6. /\ view'.shown = view.shown /\ view'.newest = view.newest /\ view'.opened = view.opened
      /\ view'.idx = IF view.idx < ListCap THEN view.idx + 1 ELSE view.idx
  BY <1>1, <1>4 DEF View
<1>7. history' \in History /\ history'.missed = history.missed \cup rolled
  <2>1. rolled \subseteq Nat
    <3>1. view.idx = ListCap => ListCap \in 1 .. Len(list)
      BY <1>4, <1>5, CapAssumption
    <3> QED
      BY <1>2, <1>4, <3>1, ElementOfSeq
  <2> QED
    BY <1>1, <2>1 DEF History
<1>8. conn'.at = conn.at /\ conn'.turns = conn.turns /\ conn'.flight = Tail(conn.flight)
  BY <1>1 DEF Socket
<1>9. hook.pc = "open"
  BY <1>1 DEF Tracked, Wired, Nowhere
<1>10. Wired'
  BY <1>1, <1>6, <1>7, <1>8, <1>9 DEF Tracked, Wired
<1>11. Queued = {h} \cup Queued'
  BY <1>1, <1>3, <1>8 DEF Queued
<1>12. h \in Unread'
  <2>1. 1 \in 1 .. view'.idx
    BY <1>4, <1>6, CapAssumption
  <2> QED
    BY <1>1, <1>5, <2>1 DEF Unread
<1>13. ASSUME NEW e \in Unread
       PROVE  e \in Unread' \/ Covered(e)'
  <2>1. PICK i \in 1 .. view.idx : e = list[i]
    BY DEF Unread
  <2>2. CASE i < ListCap
    <3>1. i + 1 \in 1 .. view'.idx
      BY <1>4, <1>6, <2>1, <2>2, CapAssumption
    <3>2. list'[i + 1] = e
      BY <1>1, <1>4, <1>5, <2>1, <2>2
    <3> QED
      BY <3>1, <3>2 DEF Unread
  <2>3. CASE ~(i < ListCap)
    <3>1. i = ListCap /\ view.idx = ListCap
      BY <1>4, <1>5, <2>1, <2>3, CapAssumption
    <3>2. e \in view'.shown \/ e \in history'.missed
      BY <1>6, <1>7, <2>1, <3>1
    <3> QED
      BY <3>2 DEF Covered
  <2> QED
    BY <2>2, <2>3
<1>14. \A e \in Own(session) : Covered(e) => Covered(e)'
  BY <1>1, <1>6, <1>7, CoveredStays
<1>15. Told'
  <2>1. Own(session)' = Own(session)
    BY <1>1 DEF Own
  <2>2. ASSUME NEW e \in Own(session)
        PROVE  Covered(e)' \/ e \in Queued' \cup Unread'
    <3>1. Covered(e) \/ e \in Queued \cup Unread
      BY <1>9 DEF Tracked, Told
    <3> QED
      BY <1>11, <1>12, <1>13, <1>14, <3>1
  <2> QED
    BY <1>1, <1>9, <2>1, <2>2 DEF Told
<1> QED
  BY <1>10, <1>15 DEF Tracked

LEMMA ConsumeTold ==
    ASSUME Tracked, Inv', Consume
    PROVE  Tracked'
<1>1. /\ view.idx > 0 /\ view \in View /\ history \in History
      /\ UNCHANGED <<kind, log, bus, session, hook, conn, list>>
      /\ \/ /\ view' = [view EXCEPT !.shown = @ \cup Unseen, !.seen = TRUE, !.idx = 0]
            /\ history' = [history EXCEPT !.missed = @ \cup (PassedOver \ view.shown)]
            /\ loads' = loads
         \/ /\ view' = [view EXCEPT !.idx = 0, !.newest = @ + 1]
            /\ loads' = Append(loads, Loading(view)) /\ history' = history
  BY Ranges DEF Consume, Miss
<1>2. view'.opened = view.opened /\ history' \in History
  <2>1. Unread \subseteq Nat
    BY UnreadOwn DEF Tracked
  <2>2. PassedOver \subseteq Nat
    BY <2>1 DEF PassedOver
  <2>3. CASE /\ view' = [view EXCEPT !.shown = @ \cup Unseen, !.seen = TRUE, !.idx = 0]
             /\ history' = [history EXCEPT !.missed = @ \cup (PassedOver \ view.shown)]
    BY <1>1, <2>2, <2>3 DEF View, History
  <2>4. CASE view' = [view EXCEPT !.idx = 0, !.newest = @ + 1] /\ history' = history
    BY <1>1, <2>4 DEF View
  <2> QED
    BY <1>1, <2>3, <2>4
<1>3. Wired'
  BY <1>1, <1>2 DEF Tracked, Wired
<1>4. Own(session)' = Own(session) /\ Queued' = Queued
  BY <1>1 DEF Own, Queued
<1>5. CASE /\ view' = [view EXCEPT !.shown = @ \cup Unseen, !.seen = TRUE, !.idx = 0]
           /\ history' = [history EXCEPT !.missed = @ \cup (PassedOver \ view.shown)]
           /\ loads' = loads
  <2>1. view'.shown = view.shown \cup Unseen /\ view'.newest = view.newest
    BY <1>1, <1>5 DEF View
  <2>2. history'.missed = history.missed \cup (PassedOver \ view.shown)
    BY <1>1, <1>5 DEF History
  <2>3. \A e \in Own(session) : Covered(e) => Covered(e)'
    BY <1>1, <1>5, <2>1, <2>2 DEF Covered, Counts
  <2>4. \A e \in Unread : Covered(e)'
    <3>1. Unread \subseteq Unseen \cup PassedOver
      BY DEF Unseen, PassedOver
    <3> QED
      BY <2>1, <2>2, <3>1 DEF Covered
  <2>5. Told'
    BY <1>1, <1>2, <1>4, <2>3, <2>4 DEF Tracked, Told
  <2> QED
    BY <1>3, <2>5 DEF Tracked
<1>6. CASE /\ view' = [view EXCEPT !.idx = 0, !.newest = @ + 1]
           /\ loads' = Append(loads, Loading(view)) /\ history' = history
  <2>1. view'.newest = view.newest + 1
    BY <1>1, <1>6 DEF View
  <2>2. \A e \in Own(session) : Covered(e)'
    BY <1>1, <1>6, <2>1, NewLoadCovers DEF Tracked
  <2>3. Told'
    BY <1>4, <2>2 DEF Told
  <2> QED
    BY <1>3, <2>3 DEF Tracked
<1> QED
  BY <1>1, <1>5, <1>6

LEMMA AnswerTold ==
    ASSUME Tracked, Inv', NEW i \in 1 .. Len(loads), Answer(i) \/ NoAnswer(i)
    PROVE  Tracked'
<1> DEFINE l == loads[i]
           dropped == IF Counts(l) THEN (l.rows \ view.shown) \ Awaited(i) ELSE {}
<1>1. /\ loads' = RemoveAt(loads, i)
      /\ UNCHANGED <<kind, log, bus, session, hook, conn, list>>
      /\ \/ ~Counts(l) /\ view' = view /\ history' = history
         \/ /\ Counts(l) /\ view' = [view EXCEPT !.shown = l.rows]
            /\ history' = [history EXCEPT !.missed =
                             (@ \ l.rows) \cup ((view.shown \ l.rows) \ Awaited(i))]
         \/ view' = view /\ history' = [history EXCEPT !.missed = @ \cup dropped]
  BY DEF Answer, NoAnswer, Miss
<1>2. /\ view \in View /\ history \in History /\ loads \in Seq(Load(session))
      /\ l \in Load(session)
  BY Ranges, ElementOfSeq
<1>3. l.rows \subseteq Nat /\ view.shown \subseteq Nat
  <2>1. Own(session) \subseteq Nat
    BY Ranges
  <2> QED
    BY <1>2, <2>1 DEF Load, View
<1>4. \A j \in 1 .. Len(loads) : j # i => loads[j] \in Items(loads')
  BY <1>1, <1>2, ItemsRemoved
<1> HIDE DEF l
<1>5. dropped \subseteq Nat
  BY <1>3
<1>6. /\ view'.opened = view.opened /\ view'.newest = view.newest /\ view'.idx = view.idx
      /\ history' \in History
  <2>1. CASE ~Counts(l) /\ view' = view /\ history' = history
    BY <1>2, <2>1
  <2>2. CASE /\ view' = [view EXCEPT !.shown = l.rows]
             /\ history' = [history EXCEPT !.missed =
                              (@ \ l.rows) \cup ((view.shown \ l.rows) \ Awaited(i))]
    BY <1>2, <1>3, <2>2 DEF View, History
  <2>3. CASE view' = view /\ history' = [history EXCEPT !.missed = @ \cup dropped]
    <3> HIDE DEF dropped
    <3> QED
      BY <1>2, <1>5, <2>3 DEF History
  <2> QED
    BY <1>1, <2>1, <2>2, <2>3
\* What another request holds is still asked for.
<1>7. ASSUME NEW e, e \in Awaited(i)
      PROVE  Covered(e)'
  <2>1. PICK j \in 1 .. Len(loads) : j # i /\ Counts(loads[j]) /\ e \in loads[j].rows
    BY <1>7 DEF Awaited
  <2>2. kind' = "feed" => loads[j].n = view'.newest
    BY <1>1, <1>6, <2>1 DEF Counts
  <2> QED
    BY <1>4, <2>1, <2>2 DEF Covered, Counts
<1>8. ASSUME NEW e \in Own(session), Covered(e)
      PROVE  Covered(e)'
  <2>1. \/ e \in view.shown \/ e \in history.missed \/ (Counts(l) /\ e \in l.rows)
        \/ e \in Awaited(i)
    <3>1. CASE \E k \in Items(loads) : Counts(k) /\ e \in k.rows
      <4>1. PICK j \in 1 .. Len(loads) : Counts(loads[j]) /\ e \in loads[j].rows
        BY <3>1 DEF Items
      <4> QED
        BY <4>1 DEF Awaited, l
    <3> QED
      BY <1>8, <3>1 DEF Covered
  <2>2. CASE ~Counts(l) /\ view' = view /\ history' = history
    BY <1>7, <2>1, <2>2 DEF Covered
  <2>3. CASE /\ view' = [view EXCEPT !.shown = l.rows]
             /\ history' = [history EXCEPT !.missed =
                              (@ \ l.rows) \cup ((view.shown \ l.rows) \ Awaited(i))]
    <3>1. /\ view'.shown = l.rows
          /\ history'.missed = (history.missed \ l.rows) \cup ((view.shown \ l.rows) \ Awaited(i))
      BY <1>2, <2>3 DEF View, History
    <3> QED
      BY <1>7, <2>1, <3>1 DEF Covered
  <2>4. CASE view' = view /\ history' = [history EXCEPT !.missed = @ \cup dropped]
    <3>1. view'.shown = view.shown /\ history'.missed = history.missed \cup dropped
      BY <1>2, <2>4 DEF History
    <3> QED
      BY <1>7, <2>1, <3>1 DEF Covered
  <2> QED
    BY <1>1, <2>2, <2>3, <2>4
<1>9. Own(session)' = Own(session) /\ Queued' = Queued /\ Unread' = Unread
  BY <1>1, <1>6 DEF Own, Queued, Unread
<1>10. Wired'
  BY <1>1, <1>6 DEF Tracked, Wired
<1>11. Told'
  BY <1>1, <1>6, <1>8, <1>9 DEF Tracked, Told
<1> QED
  BY <1>10, <1>11 DEF Tracked

LEMMA TrackedInit == ASSUME Init PROVE Tracked
<1>1. Inv
  BY InvInit
<1>2. /\ session = Nobody /\ hook = Off /\ conn = Nowhere
      /\ history = [outages |-> 0, drops |-> 0, mounts |-> 0, missed |-> {}]
  BY DEF Init
<1>3. hook \in Hook /\ hook.pc = "off" /\ history \in History
  BY <1>2 DEF Off, Hook, History
<1>4. Wired
  BY <1>2, <1>3 DEF Wired
<1>5. Told
  BY <1>1, <1>2, NobodyOwns DEF Inv, Types, Told
<1> QED
  BY <1>1, <1>4, <1>5 DEF Tracked

LEMMA TrackedNext == ASSUME Tracked, [Next]_vars PROVE Tracked'
<1>1. Inv'
  BY InvNext DEF Tracked
<1>2. ASSUME NEW by \in Servers \cup {"worker"}, NEW user \in Users, Publish(by, user)
      PROVE  Tracked'
  BY <1>1, <1>2, PublishTold
<1>3. hook \in Hook
  BY DEF Tracked, Wired
<1>4. ASSUME NEW s \in Servers, Forward(s) \/ SubscriberReturns(s) \/ Connect(s)
      PROVE  Tracked'
  <2>1. CASE Forward(s)
    BY <1>1, <2>1, ForwardTold
  <2>2. CASE SubscriberReturns(s)
    BY <1>1, <1>3, <2>2, AsideTold DEF SubscriberReturns, browser
  <2>3. CASE Connect(s)
    BY <1>1, <2>3, ConnectTold
  <2> QED
    BY <1>4, <2>1, <2>2, <2>3
<1>5. ASSUME NEW user \in Users, SignIn(user)
      PROVE  Tracked'
  BY <1>1, <1>5, SignInTold
<1>6. CASE SendText \/ OtherSocket
  BY <1>1, <1>6, SendTextTold, OtherSocketTold
<1>7. CASE RedisFails
  BY <1>1, <1>7, RedisFailsTold
<1>8. CASE RedisReturns
  BY <1>1, <1>3, <1>8, AsideTold DEF RedisReturns, browser
<1>9. CASE SignOut
  BY <1>1, <1>9, LeaveTold DEF SignOut
<1>10. CASE Remount
  BY <1>1, <1>10, RemountTold
<1>11. ASSUME NEW new \in Hook, hook' = new, new.pc = hook.pc \/ (hook.pc \notin {"off", "open"} /\ new.pc # "open"),
              UNCHANGED <<kind, log, bus, session, conn, list, view, loads, history>>
       PROVE  Tracked'
  BY <1>1, <1>3, <1>11, AsideTold
<1>12. CASE GetTicket
  <2>1. [pc |-> "dial", ticket |-> TRUE] \in Hook /\ [hook EXCEPT !.pc = "wait"] \in Hook
        /\ [hook EXCEPT !.pc = "wait"].pc = "wait"
    BY <1>3 DEF Hook
  <2> QED
    BY <1>11, <1>12, <2>1 DEF GetTicket
<1>13. CASE TicketLapses
  <2>1. [hook EXCEPT !.ticket = FALSE] \in Hook /\ [hook EXCEPT !.ticket = FALSE].pc = hook.pc
    BY <1>3 DEF Hook
  <2> QED
    BY <1>11, <1>13, <2>1 DEF TicketLapses
<1>14. CASE Rejected
  <2>1. [pc |-> "wait", ticket |-> FALSE] \in Hook
    BY DEF Hook
  <2>2. CASE Leave
    BY <1>1, <2>2, LeaveTold
  <2> QED
    BY <1>11, <1>14, <2>1, <2>2 DEF Rejected
<1>15. CASE Retry
  <2>1. [hook EXCEPT !.pc = "ask"] \in Hook /\ [hook EXCEPT !.pc = "ask"].pc = "ask"
    BY <1>3 DEF Hook
  <2> QED
    BY <1>11, <1>15, <2>1 DEF Retry
<1>16. CASE Drop
  BY <1>1, <1>16, DropTold
<1>17. CASE Receive
  BY <1>1, <1>17, ReceiveTold
<1>18. CASE Consume
  BY <1>1, <1>18, ConsumeTold
<1>19. ASSUME NEW i \in 1 .. Len(loads), Answer(i) \/ NoAnswer(i)
       PROVE  Tracked'
  BY <1>1, <1>19, AnswerTold
<1>20. CASE UNCHANGED vars
  BY <1>1, <1>3, <1>20, AsideTold DEF vars, browser
<1> QED
  BY <1>2, <1>4, <1>5, <1>6, <1>7, <1>8, <1>9, <1>10, <1>12, <1>13, <1>14, <1>15, <1>16, <1>17,
     <1>18, <1>19, <1>20
  DEF Next

\* In every state, every event of the tenant is shown, given up in one of the
\* ways that are written down, in an answer that will be shown, or on its way,
\* unless the view lost its socket and will load when it has one.
THEOREM EveryEventIsSomewhere == Spec => []Tracked
<1>1. Init => Tracked
  BY TrackedInit
<1>2. Tracked /\ [Next]_vars => Tracked'
  BY TrackedNext
<1> QED
  BY <1>1, <1>2, PTL DEF Spec

\* When the socket is open and nothing is on its way, the view shows every
\* event of the tenant but those the code gives up: the losses that ViewComplete
\* names are the only ones, for any number of tenants, servers, connections and
\* requests, any burst and any size of the list.
THEOREM ViewsAreComplete == Spec => []ViewComplete
<1>1. ASSUME Tracked, Settled PROVE Own(session) \ view.shown \subseteq history.missed
  <2> SUFFICES ASSUME NEW e \in Own(session), e \notin view.shown
               PROVE  e \in history.missed
    OBVIOUS
  <2>1. Items(loads) = {} /\ Queued = {}
    BY <1>1, ItemsEmpty DEF Settled, Queued
  <2>2. Unread = {}
    BY <1>1 DEF Settled, Unread
  <2>3. Covered(e)
    BY <1>1, <2>1, <2>2 DEF Settled, Tracked, Told
  <2> QED
    BY <2>1, <2>3 DEF Covered
<1>2. Tracked => ViewComplete
  BY <1>1 DEF ViewComplete
<1> QED
  BY <1>2, EveryEventIsSomewhere, PTL

=============================================================================
