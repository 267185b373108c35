---------------------------- MODULE IntakeProofs ----------------------------
(***************************************************************************)
(* What becomes of a posting, for any number of processes that ingest, any *)
(* postings, filters and queries: a query is read as its grammar says,     *)
(* every job the tenant asked for is handed to generation, reposts that    *)
(* ingests do not race for are marked, and an archived job stays archived. *)
(*                                                                         *)
(* First the queries: the trees, the parser, and that it reads what the    *)
(* grammar reads.  Then the processes.                                     *)
(***************************************************************************)
EXTENDS Intake, FiniteSetTheorems, SequenceTheorems, WellFoundedInduction, TLAPS

-----------------------------------------------------------------------------
(* Trees of queries.                                                       *)

LEMMA LeastOf ==
    ASSUME NEW S, S \subseteq Nat, S # {}
    PROVE  \E m \in S : \A n \in S : m <= n
<1>1. PICK m \in S : \A n \in S : ~(<<n, m>> \in OpToRel(<, Nat))
  BY NatLessThanWellFounded, WFMin
<1>2. ASSUME NEW n \in S PROVE m <= n
  <2>1. m \in Nat /\ n \in Nat /\ ~(<<n, m>> \in {ss \in Nat \X Nat : ss[1] < ss[2]})
    BY <1>1 DEF OpToRel
  <2> QED
    BY <2>1
<1> QED
  BY <1>2

\* What a recursion computes at x depends on its values at what ranks lower.
Recursion(D, S, rank, step) ==
    /\ S # {} /\ rank \in [D -> Nat] /\ step \in [D -> [[D -> S] -> S]]
    /\ \A x \in D : \A f, g \in [D -> S] :
          (\A y \in D : rank[y] < rank[x] => f[y] = g[y]) => step[x][f] = step[x][g]

\* f is what the recursion computes, for what ranks below n.
Upto(D, rank, step, f, n) == \A x \in D : rank[x] < n => f[x] = step[x][f]

LEMMA RecursionUpto ==
    ASSUME NEW D, NEW S, NEW rank, NEW step, Recursion(D, S, rank, step), NEW k \in Nat
    PROVE  \E f \in [D -> S] : Upto(D, rank, step, f, k)
<1>0. S # {} /\ rank \in [D -> Nat] /\ step \in [D -> [[D -> S] -> S]]
  BY DEF Recursion
<1> SUFFICES ASSUME ~\E f \in [D -> S] : Upto(D, rank, step, f, k) PROVE FALSE
  OBVIOUS
<1> USE <1>0
<1> DEFINE Q == {n \in Nat : ~\E f \in [D -> S] : Upto(D, rank, step, f, n)}
<1>1. PICK m \in Q : \A n \in Q : m <= n
  <2>1. Q \subseteq Nat /\ k \in Q
    OBVIOUS
  <2> HIDE DEF Q
  <2> QED
    BY <2>1, LeastOf
<1>2. m # 0
  <2>1. PICK s : s \in S
    OBVIOUS
  <2>2. [x \in D |-> s] \in [D -> S] /\ Upto(D, rank, step, [x \in D |-> s], 0)
    BY <2>1 DEF Upto
  <2> QED
    BY <1>1, <2>2
<1>3. m \in Nat /\ m - 1 \in Nat /\ m - 1 \notin Q
  BY <1>1, <1>2
<1>4. PICK f \in [D -> S] : Upto(D, rank, step, f, m - 1)
  BY <1>3
<1> DEFINE g == [x \in D |-> IF rank[x] = m - 1 THEN step[x][f] ELSE f[x]]
<1>5. g \in [D -> S]
  BY <1>4
<1>6. ASSUME NEW x \in D, rank[x] < m PROVE g[x] = step[x][g]
  <2>1. \A y \in D : rank[y] < rank[x] => f[y] = g[y]
    BY <1>3, <1>6
  <2>2. step[x][f] = step[x][g]
    BY <1>4, <1>5, <2>1 DEF Recursion
  <2>3. rank[x] = m - 1 \/ rank[x] < m - 1
    <3>1. \A a, b \in Nat : a < b => a = b - 1 \/ a < b - 1
      OBVIOUS
    <3> QED
      BY <1>3, <1>6, <3>1, Zenon
  <2>4. g[x] = step[x][f]
    BY <1>4, <2>3 DEF Upto
  <2> QED
    BY <2>2, <2>4
<1>7. Upto(D, rank, step, g, m)
  BY <1>6 DEF Upto
<1> QED
  BY <1>1, <1>5, <1>7

LEMMA RecursionAgrees ==
    ASSUME NEW D, NEW S, NEW rank, NEW step, Recursion(D, S, rank, step)
    PROVE  \A f, g \in [D -> S], n, k \in Nat, z \in D :
              /\ Upto(D, rank, step, f, n) /\ Upto(D, rank, step, g, k)
              /\ rank[z] < n /\ rank[z] < k
              => f[z] = g[z]
<1>0. S # {} /\ rank \in [D -> Nat] /\ step \in [D -> [[D -> S] -> S]]
  BY DEF Recursion
<1> USE <1>0
<1> SUFFICES ASSUME NEW f \in [D -> S], NEW g \in [D -> S], NEW n \in Nat, NEW k \in Nat, NEW z \in D,
                    Upto(D, rank, step, f, n), Upto(D, rank, step, g, k),
                    rank[z] < n, rank[z] < k, f[z] # g[z]
             PROVE  FALSE
  OBVIOUS
<1> DEFINE Q == {rank[x] : x \in {y \in D : f[y] # g[y]}}
<1>1. PICK m \in Q : \A i \in Q : m <= i
  <2>1. Q \subseteq Nat /\ rank[z] \in Q
    OBVIOUS
  <2> HIDE DEF Q
  <2> QED
    BY <2>1, LeastOf
<1>2. PICK x \in D : f[x] # g[x] /\ rank[x] = m
  BY <1>1
<1>3. rank[x] <= rank[z]
  BY <1>1, <1>2
<1>4. ASSUME NEW y \in D, rank[y] < rank[x] PROVE f[y] = g[y]
  <2>1. ASSUME f[y] # g[y] PROVE FALSE
    <3>1. m <= rank[y]
      BY <1>1, <2>1
    <3> QED
      BY <1>2, <1>4, <3>1
  <2> QED
    BY <2>1
<1>5. step[x][f] = step[x][g]
  BY <1>4 DEF Recursion
<1>6. f[x] = step[x][f] /\ g[x] = step[x][g]
  BY <1>3 DEF Upto
<1> QED
  BY <1>2, <1>5, <1>6

\* There is a function that a recursion defines, if every value depends on
\* values at what ranks lower.
LEMMA RecursiveFunction ==
    ASSUME NEW D, NEW S, NEW rank, NEW step, Recursion(D, S, rank, step)
    PROVE  \E f \in [D -> S] : \A x \in D : f[x] = step[x][f]
<1> DEFINE part(x) == CHOOSE f \in [D -> S] : Upto(D, rank, step, f, rank[x] + 1)
           F == [x \in D |-> part(x)[x]]
<1>0. S # {} /\ rank \in [D -> Nat] /\ step \in [D -> [[D -> S] -> S]]
  BY DEF Recursion
<1>1. ASSUME NEW x \in D PROVE part(x) \in [D -> S] /\ Upto(D, rank, step, part(x), rank[x] + 1)
  <2>1. rank[x] + 1 \in Nat
    BY <1>0
  <2>2. \E f \in [D -> S] : Upto(D, rank, step, f, rank[x] + 1)
    BY <1>0, <2>1, RecursionUpto
  <2> QED
    BY <2>2
<1> HIDE DEF part
<1>2. F \in [D -> S]
  <2>1. ASSUME NEW x \in D PROVE part(x)[x] \in S
    BY <1>1
  <2> QED
    BY <2>1
<1>3. ASSUME NEW x \in D PROVE F[x] = step[x][F]
  <2>0. \A f, g \in [D -> S], n, k \in Nat, z \in D :
           /\ Upto(D, rank, step, f, n) /\ Upto(D, rank, step, g, k)
           /\ rank[z] < n /\ rank[z] < k
           => f[z] = g[z]
    BY RecursionAgrees
  <2>1. ASSUME NEW y \in D, rank[y] < rank[x] PROVE part(x)[y] = F[y]
    <3>1. rank[x] + 1 \in Nat /\ rank[y] + 1 \in Nat /\ rank[y] < rank[x] + 1 /\ rank[y] < rank[y] + 1
      BY <1>0, <2>1
    <3>2. part(x)[y] = part(y)[y]
      BY <1>1, <2>0, <3>1
    <3> QED
      BY <3>2
  <2>2. step[x][part(x)] = step[x][F]
    BY <1>1, <1>2, <2>1 DEF Recursion
  <2>3. part(x)[x] = step[x][part(x)]
    <3>1. rank[x] < rank[x] + 1
      BY <1>0
    <3> QED
      BY <1>1, <3>1 DEF Upto
  <2> QED
    BY <2>2, <2>3
<1> QED
  BY <1>2, <1>3

\* The trees of a height are those that the definition says.
LEMMA TreesBuilt ==
    \A n \in Nat : Trees[n] = IF n = 0 THEN Leaves ELSE Grow(Trees[n - 1])
<1> DEFINE Built(f, n) == f = [i \in 0 .. n |-> IF i = 0 THEN Leaves ELSE Grow(f[i - 1])]
<1>1. ASSUME NEW k \in Nat, ~\E f : Built(f, k) PROVE FALSE
  <2> DEFINE Q == {n \in Nat : ~\E f : Built(f, n)}
  <2>1. PICK m \in Q : \A n \in Q : m <= n
    <3>1. Q \subseteq Nat /\ k \in Q
      BY <1>1
    <3> HIDE DEF Q
    <3> QED
      BY <3>1, LeastOf
  <2>2. m # 0
    <3>1. Built([i \in 0 .. 0 |-> Leaves], 0)
      OBVIOUS
    <3> QED
      BY <2>1, <3>1
  <2>3. m \in Nat /\ m - 1 \in Nat /\ m - 1 \notin Q
    BY <2>1, <2>2
  <2>4. PICK f : Built(f, m - 1)
    BY <2>3
  <2> DEFINE g == [i \in 0 .. m |-> IF i = m THEN Grow(f[m - 1]) ELSE f[i]]
  <2>5. ASSUME NEW i \in 0 .. m PROVE g[i] = IF i = 0 THEN Leaves ELSE Grow(g[i - 1])
    <3>1. CASE i = m
      BY <2>2, <2>3, <3>1
    <3>2. CASE i # m
      <4>1. i \in 0 .. m - 1 /\ (i # 0 => i - 1 \in 0 .. m - 1 /\ i - 1 # m /\ i - 1 \in 0 .. m)
        BY <2>3, <3>2
      <4>2. f[i] = IF i = 0 THEN Leaves ELSE Grow(f[i - 1])
        BY <2>4, <4>1
      <4> QED
        BY <3>2, <4>1, <4>2
    <3> QED
      BY <3>1, <3>2
  <2>6. Built(g, m)
    BY <2>5
  <2> QED
    BY <2>1, <2>6
<1>2. ASSUME NEW f, NEW g, NEW n \in Nat, NEW k \in Nat, Built(f, n), Built(g, k),
             NEW z \in 0 .. n, z \in 0 .. k, f[z] # g[z]
      PROVE  FALSE
  <2> DEFINE Q == {i \in Nat : i <= z /\ f[i] # g[i]}
  <2>1. PICK m \in Q : \A i \in Q : m <= i
    <3>1. Q \subseteq Nat /\ z \in Q
      BY <1>2
    <3> HIDE DEF Q
    <3> QED
      BY <3>1, LeastOf
  <2>2. m \in 0 .. n /\ m \in 0 .. k /\ f[m] # g[m]
    BY <1>2, <2>1
  <2>3. m # 0
    BY <1>2, <2>2
  <2>4. m - 1 \in Nat /\ m - 1 \notin Q /\ m - 1 <= z
    BY <2>1, <2>3
  <2>5. f[m - 1] = g[m - 1]
    BY <2>4
  <2> QED
    BY <1>2, <2>2, <2>3, <2>5
<1> DEFINE part(n) == CHOOSE f : Built(f, n)
           F == [n \in Nat |-> part(n)[n]]
<1>3. ASSUME NEW n \in Nat PROVE Built(part(n), n)
  BY <1>1
<1> HIDE DEF part
<1>4. F = [n \in Nat |-> IF n = 0 THEN Leaves ELSE Grow(F[n - 1])]
  <2>1. ASSUME NEW n \in Nat PROVE F[n] = IF n = 0 THEN Leaves ELSE Grow(F[n - 1])
    <3>1. part(n)[n] = IF n = 0 THEN Leaves ELSE Grow(part(n)[n - 1])
      BY <1>3
    <3>2. ASSUME n # 0 PROVE part(n)[n - 1] = part(n - 1)[n - 1]
      <4>1. n - 1 \in Nat /\ n - 1 \in 0 .. n /\ n - 1 \in 0 .. n - 1
        BY <3>2
      <4>2. Built(part(n), n) /\ Built(part(n - 1), n - 1)
        BY <1>3, <4>1
      <4> HIDE DEF Built
      <4> QED
        BY <1>2, <4>1, <4>2
    <3> QED
      BY <3>1, <3>2
  <2> QED
    BY <2>1
<1> HIDE DEF F
<1>5. Trees = [n \in Nat |-> IF n = 0 THEN Leaves ELSE Grow(Trees[n - 1])]
  BY <1>4 DEF Trees
<1> QED
  BY <1>5

LEMMA TreesNested == \A k, n \in Nat : k <= n => Trees[k] \subseteq Trees[n]
<1> SUFFICES ASSUME NEW k \in Nat, NEW n \in Nat, k <= n, ~(Trees[k] \subseteq Trees[n]) PROVE FALSE
  OBVIOUS
<1> DEFINE Q == {i \in Nat : k <= i /\ ~(Trees[k] \subseteq Trees[i])}
<1>1. PICK m \in Q : \A i \in Q : m <= i
  <2>1. Q \subseteq Nat /\ n \in Q
    OBVIOUS
  <2> HIDE DEF Q
  <2> QED
    BY <2>1, LeastOf
<1>2. m # k /\ m \in Nat /\ k <= m /\ ~(Trees[k] \subseteq Trees[m])
  BY <1>1
<1>3. m - 1 \in Nat /\ k <= m - 1 /\ m # 0 /\ ~(m <= m - 1)
  BY <1>2
<1>4. Trees[k] \subseteq Trees[m - 1]
  BY <1>1, <1>3
<1>5. Trees[m] = Grow(Trees[m - 1])
  BY <1>2, <1>3, TreesBuilt
<1> QED
  BY <1>2, <1>4, <1>5 DEF Grow

\* The parts of a tree are trees, and lower ones.
Parts(t, height) ==
    \/ t = <<"ALL">>
    \/ \E word \in STRING : t = <<"TERM", word>>
    \/ \E x \in Tree : t = <<"NOT", x>> /\ height[x] < height[t]
    \/ \E op \in {"AND", "OR"}, x, y \in Tree :
          t = <<op, x, y>> /\ height[x] < height[t] /\ height[y] < height[t]

LEMMA TreeParts == \E height \in [Tree -> Nat] : \A t \in Tree : Parts(t, height)
<1> DEFINE Lowest(t, n) == t \in Trees[n] /\ \A k \in Nat : t \in Trees[k] => n <= k
           height == [t \in Tree |-> CHOOSE n \in Nat : Lowest(t, n)]
<1>1. ASSUME NEW t \in Tree PROVE height[t] \in Nat /\ Lowest(t, height[t])
  <2> DEFINE Q == {n \in Nat : t \in Trees[n]}
  <2>1. MaxHeight \in Q /\ Q \subseteq Nat
    BY HeightAssumption DEF Tree
  <2>2. \E m \in Q : \A i \in Q : m <= i
    <3> HIDE DEF Q
    <3> QED
      BY <2>1, LeastOf
  <2>3. \E n \in Nat : Lowest(t, n)
    BY <2>2
  <2> HIDE DEF Lowest
  <2> QED
    BY <2>3
<1>2. height \in [Tree -> Nat]
  BY <1>1
<1> HIDE DEF height
<1>3. ASSUME NEW t \in Tree PROVE Parts(t, height)
  <2> DEFINE n == height[t]
  <2>0. n \in Nat /\ t \in Trees[n] /\ n <= MaxHeight /\ MaxHeight \in Nat
    BY <1>1, HeightAssumption DEF Tree
  <2>1. CASE n = 0
    <3>1. t \in Leaves
      BY <2>0, <2>1, TreesBuilt
    <3> QED
      BY <3>1 DEF Leaves, Parts
  <2>2. CASE n # 0
    <3>1. n - 1 \in Nat /\ n - 1 <= MaxHeight /\ ~(n <= n - 1)
      BY <2>0, <2>2
    <3>2. t \in Grow(Trees[n - 1]) /\ t \notin Trees[n - 1]
      BY <1>1, <2>0, <2>2, <3>1, TreesBuilt
    <3>3. ASSUME NEW x \in Trees[n - 1] PROVE x \in Tree /\ height[x] < n
      <4>1. x \in Tree
        BY <2>0, <3>1, TreesNested DEF Tree
      <4>2. height[x] <= n - 1 /\ height[x] \in Nat
        BY <1>1, <3>1, <4>1
      <4> QED
        BY <2>0, <4>1, <4>2
    <3>4. CASE t \in {"NOT"} \X Trees[n - 1]
      BY <3>3, <3>4 DEF Parts
    <3>5. CASE t \in {"AND", "OR"} \X Trees[n - 1] \X Trees[n - 1]
      BY <3>3, <3>5 DEF Parts
    <3> QED
      BY <3>2, <3>4, <3>5 DEF Grow
  <2> QED
    BY <2>1, <2>2
<1> QED
  BY <1>2, <1>3

\* The value of a tree, of those of its parts (f).
Value(f, ast, text) ==
    CASE ast[1] = "ALL"  -> TRUE
      [] ast[1] = "TERM" -> ast[2] \in text
      [] ast[1] = "NOT"  -> ~f[ast[2]][text]
      [] ast[1] = "AND"  -> f[ast[2]][text] /\ f[ast[3]][text]
      [] ast[1] = "OR"   -> f[ast[2]][text] \/ f[ast[3]][text]

Verdicts == [SUBSET STRING -> BOOLEAN]

LEMMA ValueIsBoolean ==
    ASSUME NEW height, NEW t \in Tree, Parts(t, height), NEW f, NEW text
    PROVE  Value(f, t, text) \in BOOLEAN
<1>1. CASE t = <<"ALL">>
  BY <1>1 DEF Value
<1>2. ASSUME NEW word \in STRING, t = <<"TERM", word>> PROVE Value(f, t, text) \in BOOLEAN
  <2>1. Value(f, t, text) = (word \in text)
    BY <1>2 DEF Value
  <2> QED
    BY <2>1
<1>3. ASSUME NEW x \in Tree, t = <<"NOT", x>> PROVE Value(f, t, text) \in BOOLEAN
  BY <1>3 DEF Value
<1>4. ASSUME NEW x \in Tree, NEW y \in Tree, t = <<"AND", x, y>> PROVE Value(f, t, text) \in BOOLEAN
  <2>1. Value(f, t, text) = (f[x][text] /\ f[y][text])
    BY <1>4 DEF Value
  <2> QED
    BY <2>1
<1>5. ASSUME NEW x \in Tree, NEW y \in Tree, t = <<"OR", x, y>> PROVE Value(f, t, text) \in BOOLEAN
  <2>1. Value(f, t, text) = (f[x][text] \/ f[y][text])
    BY <1>5 DEF Value
  <2> QED
    BY <2>1
<1> QED
  BY <1>1, <1>2, <1>3, <1>4, <1>5 DEF Parts

LEMMA EvaluateBuilt ==
    /\ Evaluate \in [Tree -> Verdicts]
    /\ \A t \in Tree, text \in SUBSET STRING : Evaluate[t][text] = Value(Evaluate, t, text)
<1>1. PICK height \in [Tree -> Nat] : \A t \in Tree : Parts(t, height)
  BY TreeParts
<1> DEFINE verdict(t, f) == [text \in SUBSET STRING |-> Value(f, t, text)]
           step == [t \in Tree |-> [f \in [Tree -> Verdicts] |-> verdict(t, f)]]
<1>2. ASSUME NEW t \in Tree, NEW f PROVE verdict(t, f) \in Verdicts
  BY <1>1, ValueIsBoolean DEF Verdicts
<1>3. ASSUME NEW t \in Tree, NEW f \in [Tree -> Verdicts], NEW g \in [Tree -> Verdicts],
             \A x \in Tree : height[x] < height[t] => f[x] = g[x]
      PROVE  verdict(t, f) = verdict(t, g)
  <2>1. ASSUME NEW text \in SUBSET STRING PROVE Value(f, t, text) = Value(g, t, text)
    <3>1. Parts(t, height)
      BY <1>1
    <3>2. CASE t = <<"ALL">>
      BY <3>2 DEF Value
    <3>3. ASSUME NEW word \in STRING, t = <<"TERM", word>> PROVE Value(f, t, text) = Value(g, t, text)
      BY <3>3 DEF Value
    <3>4. ASSUME NEW x \in Tree, t = <<"NOT", x>>, height[x] < height[t]
          PROVE  Value(f, t, text) = Value(g, t, text)
      BY <1>3, <3>4 DEF Value
    <3>5. ASSUME NEW op \in {"AND", "OR"}, NEW x \in Tree, NEW y \in Tree, t = <<op, x, y>>,
                 height[x] < height[t], height[y] < height[t]
          PROVE  Value(f, t, text) = Value(g, t, text)
      <4>1. f[x] = g[x] /\ f[y] = g[y]
        BY <1>3, <3>5
      <4> QED
        BY <3>5, <4>1 DEF Value
    <3> QED
      BY <3>1, <3>2, <3>3, <3>4, <3>5 DEF Parts
  <2> QED
    BY <2>1
<1> HIDE DEF verdict
<1>4. Recursion(Tree, Verdicts, height, step)
  <2>1. step \in [Tree -> [[Tree -> Verdicts] -> Verdicts]]
    BY <1>2
  <2>2. [text \in SUBSET STRING |-> TRUE] \in Verdicts
    BY DEF Verdicts
  <2>3. \A t \in Tree : \A f, g \in [Tree -> Verdicts] :
           (\A x \in Tree : height[x] < height[t] => f[x] = g[x]) => step[t][f] = step[t][g]
    BY <1>3
  <2> HIDE DEF step
  <2> QED
    BY <1>1, <2>1, <2>2, <2>3 DEF Recursion
<1>5. PICK E \in [Tree -> Verdicts] : \A t \in Tree : E[t] = step[t][E]
  <2> HIDE DEF step
  <2> QED
    BY <1>4, RecursiveFunction
<1>6. \A t \in Tree : E[t] = verdict(t, E)
  BY <1>5
<1>7. E = [t \in Tree |-> verdict(t, E)]
  BY <1>5, <1>6
<1>8. Evaluate = [t \in Tree |-> verdict(t, Evaluate)]
  BY <1>7 DEF Evaluate, verdict, Value
<1>9. Evaluate \in [Tree -> Verdicts]
  BY <1>2, <1>8
<1>10. ASSUME NEW t \in Tree, NEW text \in SUBSET STRING
       PROVE  Evaluate[t][text] = Value(Evaluate, t, text)
  <2>1. Evaluate[t] = verdict(t, Evaluate)
    BY <1>8
  <2> QED
    BY <2>1 DEF verdict
<1> QED
  BY <1>9, <1>10

\* The terms of a tree, of those of its parts (f).
Listed(f, ast, negated) ==
    CASE ast[1] = "ALL"  -> <<>>
      [] ast[1] = "TERM" -> IF negated THEN <<>> ELSE <<ast[2]>>
      [] ast[1] = "NOT"  -> f[ast[2]][Flip(negated)]
      [] OTHER           -> f[ast[2]][negated] \o f[ast[3]][negated]

Lists == [BOOLEAN -> Seq(STRING)]

LEMMA SeqOfOne == ASSUME NEW S, NEW x \in S PROVE <<x>> \in Seq(S) /\ <<>> \in Seq(S)
  OBVIOUS

LEMMA ListedOfLists ==
    ASSUME NEW height, NEW t \in Tree, Parts(t, height), NEW f,
           \A x \in Tree : height[x] < height[t] => f[x] \in Lists,
           NEW negated \in BOOLEAN
    PROVE  Listed(f, t, negated) \in Seq(STRING)
<1>1. CASE t = <<"ALL">>
  BY <1>1 DEF Listed
<1>2. ASSUME NEW word \in STRING, t = <<"TERM", word>> PROVE Listed(f, t, negated) \in Seq(STRING)
  <2>1. Listed(f, t, negated) = <<>> \/ Listed(f, t, negated) = <<word>>
    BY <1>2 DEF Listed
  <2>2. <<>> \in Seq(STRING) /\ <<word>> \in Seq(STRING)
    BY SeqOfOne
  <2> QED
    BY <2>1, <2>2
<1>3. ASSUME NEW x \in Tree, t = <<"NOT", x>>, height[x] < height[t]
      PROVE  Listed(f, t, negated) \in Seq(STRING)
  <2>1. Flip(negated) \in BOOLEAN /\ f[x] \in Lists
    BY <1>3 DEF Flip
  <2>2. f[x][Flip(negated)] \in Seq(STRING)
    BY <2>1 DEF Lists
  <2> QED
    BY <1>3, <2>2 DEF Listed
<1>4. ASSUME NEW op \in {"AND", "OR"}, NEW x \in Tree, NEW y \in Tree, t = <<op, x, y>>,
             height[x] < height[t], height[y] < height[t]
      PROVE  Listed(f, t, negated) \in Seq(STRING)
  <2>1. f[x] \in Lists /\ f[y] \in Lists
    BY <1>4
  <2>2. f[x][negated] \in Seq(STRING) /\ f[y][negated] \in Seq(STRING)
    BY <2>1 DEF Lists
  <2>3. Listed(f, t, negated) = f[x][negated] \o f[y][negated]
    BY <1>4 DEF Listed
  <2> QED
    BY <2>2, <2>3, ConcatProperties
<1> QED
  BY <1>1, <1>2, <1>3, <1>4 DEF Parts

LEMMA PositiveTermsBuilt ==
    /\ PositiveTerms \in [Tree -> Lists]
    /\ \A t \in Tree, negated \in BOOLEAN :
          PositiveTerms[t][negated] = Listed(PositiveTerms, t, negated)
<1>1. PICK height \in [Tree -> Nat] : \A t \in Tree : Parts(t, height)
  BY TreeParts
<1> DEFINE list(t, f) == [negated \in BOOLEAN |-> Listed(f, t, negated)]
           step == [t \in Tree |-> [f \in [Tree -> Lists] |-> list(t, f)]]
<1>2. ASSUME NEW t \in Tree, NEW f, \A x \in Tree : height[x] < height[t] => f[x] \in Lists
      PROVE  list(t, f) \in Lists
  <2>1. ASSUME NEW negated \in BOOLEAN PROVE Listed(f, t, negated) \in Seq(STRING)
    BY <1>1, <1>2, ListedOfLists
  <2> QED
    BY <2>1 DEF Lists
<1>3. ASSUME NEW t \in Tree, NEW f \in [Tree -> Lists], NEW g \in [Tree -> Lists],
             \A x \in Tree : height[x] < height[t] => f[x] = g[x]
      PROVE  list(t, f) = list(t, g)
  <2>1. ASSUME NEW negated \in BOOLEAN PROVE Listed(f, t, negated) = Listed(g, t, negated)
    <3>1. Parts(t, height)
      BY <1>1
    <3>2. CASE t = <<"ALL">>
      BY <3>2 DEF Listed
    <3>3. ASSUME NEW word \in STRING, t = <<"TERM", word>>
          PROVE  Listed(f, t, negated) = Listed(g, t, negated)
      BY <3>3 DEF Listed
    <3>4. ASSUME NEW x \in Tree, t = <<"NOT", x>>, height[x] < height[t]
          PROVE  Listed(f, t, negated) = Listed(g, t, negated)
      <4>1. f[x] = g[x]
        BY <1>3, <3>4
      <4> QED
        BY <3>4, <4>1 DEF Listed
    <3>5. ASSUME NEW op \in {"AND", "OR"}, NEW x \in Tree, NEW y \in Tree, t = <<op, x, y>>,
                 height[x] < height[t], height[y] < height[t]
          PROVE  Listed(f, t, negated) = Listed(g, t, negated)
      <4>1. f[x] = g[x] /\ f[y] = g[y]
        BY <1>3, <3>5
      <4> QED
        BY <3>5, <4>1 DEF Listed
    <3> QED
      BY <3>1, <3>2, <3>3, <3>4, <3>5 DEF Parts
  <2> QED
    BY <2>1
<1> HIDE DEF list
<1>4. Recursion(Tree, Lists, height, step)
  <2>1. ASSUME NEW t \in Tree, NEW f \in [Tree -> Lists] PROVE list(t, f) \in Lists
    <3>1. \A x \in Tree : height[x] < height[t] => f[x] \in Lists
      OBVIOUS
    <3> QED
      BY <1>2, <3>1
  <2>2. step \in [Tree -> [[Tree -> Lists] -> Lists]]
    BY <2>1
  <2>3. [negated \in BOOLEAN |-> <<>>] \in Lists
    BY DEF Lists
  <2>4. \A t \in Tree : \A f, g \in [Tree -> Lists] :
           (\A x \in Tree : height[x] < height[t] => f[x] = g[x]) => step[t][f] = step[t][g]
    BY <1>3
  <2> HIDE DEF step
  <2> QED
    BY <1>1, <2>2, <2>3, <2>4 DEF Recursion
<1>5. PICK P \in [Tree -> Lists] : \A t \in Tree : P[t] = step[t][P]
  <2> HIDE DEF step
  <2> QED
    BY <1>4, RecursiveFunction
<1>6. \A t \in Tree : P[t] = list(t, P)
  BY <1>5
<1>7. P = [t \in Tree |-> list(t, P)]
  BY <1>5, <1>6
<1>8. PositiveTerms = [t \in Tree |-> list(t, PositiveTerms)]
  BY <1>7 DEF PositiveTerms, list, Listed
<1>9. ASSUME NEW t \in Tree, PositiveTerms[t] \notin Lists PROVE FALSE
  <2> DEFINE Q == {height[x] : x \in {y \in Tree : PositiveTerms[y] \notin Lists}}
  <2>1. PICK m \in Q : \A n \in Q : m <= n
    <3>1. Q \subseteq Nat /\ height[t] \in Q
      BY <1>9
    <3> HIDE DEF Q
    <3> QED
      BY <3>1, LeastOf
  <2>2. PICK x \in Tree : PositiveTerms[x] \notin Lists /\ height[x] = m
    BY <2>1
  <2>3. ASSUME NEW y \in Tree, height[y] < height[x] PROVE PositiveTerms[y] \in Lists
    <3>1. ASSUME PositiveTerms[y] \notin Lists PROVE FALSE
      <4>1. m <= height[y]
        BY <2>1, <3>1
      <4> QED
        BY <2>2, <2>3, <4>1
    <3> QED
      BY <3>1
  <2>4. list(x, PositiveTerms) \in Lists
    BY <1>2, <2>3
  <2> QED
    BY <1>8, <2>2, <2>4
<1>10. PositiveTerms \in [Tree -> Lists]
  BY <1>8, <1>9
<1>11. ASSUME NEW t \in Tree, NEW negated \in BOOLEAN
       PROVE  PositiveTerms[t][negated] = Listed(PositiveTerms, t, negated)
  <2>1. PositiveTerms[t] = list(t, PositiveTerms)
    BY <1>8
  <2> QED
    BY <2>1 DEF list
<1> QED
  BY <1>10, <1>11

\* A text has none of the terms.
Missed(terms, text) == \A i \in DOMAIN terms : terms[i] \notin text

LEMMA MissedBoth ==
    ASSUME NEW s \in Seq(STRING), NEW u \in Seq(STRING), NEW text, Missed(s \o u, text)
    PROVE  Missed(s, text) /\ Missed(u, text)
<1>1. /\ Len(s) \in Nat /\ Len(u) \in Nat /\ Len(s \o u) = Len(s) + Len(u)
      /\ DOMAIN s = 1 .. Len(s) /\ DOMAIN u = 1 .. Len(u) /\ DOMAIN (s \o u) = 1 .. Len(s \o u)
      /\ \A i \in 1 .. Len(s) + Len(u) : (s \o u)[i] = IF i <= Len(s) THEN s[i] ELSE u[i - Len(s)]
  BY ConcatProperties, LenProperties
<1>2. ASSUME NEW i \in DOMAIN s PROVE s[i] \notin text
  BY <1>1, <1>2 DEF Missed
<1>3. ASSUME NEW i \in DOMAIN u PROVE u[i] \notin text
  <2>1. Len(s) + i \in 1 .. Len(s) + Len(u) /\ ~(Len(s) + i <= Len(s)) /\ Len(s) + i - Len(s) = i
    BY <1>1
  <2>2. (s \o u)[Len(s) + i] = u[i]
    BY <1>1, <2>1
  <2> QED
    BY <1>1, <2>1, <2>2 DEF Missed
<1> QED
  BY <1>2, <1>3 DEF Missed

\* Without any of a tree's terms, a text is matched only if an empty one is;
\* for a tree below a NOT it is the other way round.
Bounded(t, text) ==
    /\ Missed(PositiveTerms[t][FALSE], text) => (Evaluate[t][text] => Evaluate[t][{}])
    /\ Missed(PositiveTerms[t][TRUE], text) => (Evaluate[t][{}] => Evaluate[t][text])

LEMMA TermsBound == \A t \in Tree, text \in SUBSET STRING : Bounded(t, text)
<1> SUFFICES ASSUME NEW t \in Tree, NEW text \in SUBSET STRING, ~Bounded(t, text) PROVE FALSE
  OBVIOUS
<1>1. PICK height \in [Tree -> Nat] : \A x \in Tree : Parts(x, height)
  BY TreeParts
<1> DEFINE Q == {height[x] : x \in {y \in Tree : ~Bounded(y, text)}}
<1>2. PICK m \in Q : \A n \in Q : m <= n
  <2>1. Q \subseteq Nat /\ height[t] \in Q
    OBVIOUS
  <2> HIDE DEF Q
  <2> QED
    BY <2>1, LeastOf
<1>3. PICK x \in Tree : ~Bounded(x, text) /\ height[x] = m
  BY <1>2
<1>4. ASSUME NEW y \in Tree, height[y] < height[x] PROVE Bounded(y, text)
  <2>1. ASSUME ~Bounded(y, text) PROVE FALSE
    <3>1. m <= height[y]
      BY <1>2, <2>1
    <3> QED
      BY <1>3, <1>4, <3>1
  <2> QED
    BY <2>1
<1> HIDE DEF Q
<1>5. {} \in SUBSET STRING
  OBVIOUS
<1>6. \A word \in SUBSET STRING : Evaluate[x][word] = Value(Evaluate, x, word)
  BY EvaluateBuilt
<1>7. \A negated \in BOOLEAN : PositiveTerms[x][negated] = Listed(PositiveTerms, x, negated)
  BY PositiveTermsBuilt
<1>8. x # <<"ALL">>
  <2>1. ASSUME x = <<"ALL">> PROVE FALSE
    <3>1. Evaluate[x][text] = TRUE /\ Evaluate[x][{}] = TRUE
      BY <1>5, <1>6, <2>1 DEF Value
    <3> QED
      BY <1>3, <3>1 DEF Bounded
  <2> QED
    BY <2>1
<1>9. ASSUME NEW word \in STRING, x = <<"TERM", word>> PROVE FALSE
  <2>1. Evaluate[x][text] = (word \in text) /\ Evaluate[x][{}] = (word \in {})
    BY <1>5, <1>6, <1>9 DEF Value
  <2>2. PositiveTerms[x][FALSE] = <<word>>
    BY <1>7, <1>9 DEF Listed
  <2>3. Missed(PositiveTerms[x][FALSE], text) => word \notin text
    <3>1. 1 \in DOMAIN <<word>> /\ <<word>>[1] = word
      OBVIOUS
    <3> QED
      BY <2>2, <3>1 DEF Missed
  <2> QED
    BY <1>3, <2>1, <2>3 DEF Bounded
<1>10. ASSUME NEW y \in Tree, x = <<"NOT", y>>, height[y] < height[x] PROVE FALSE
  <2>1. Evaluate[x][text] = (~Evaluate[y][text]) /\ Evaluate[x][{}] = (~Evaluate[y][{}])
    BY <1>5, <1>6, <1>10 DEF Value
  <2>2. PositiveTerms[x][FALSE] = PositiveTerms[y][TRUE] /\ PositiveTerms[x][TRUE] = PositiveTerms[y][FALSE]
    BY <1>7, <1>10 DEF Listed, Flip
  <2>3. Bounded(y, text)
    BY <1>4, <1>10
  <2> QED
    BY <1>3, <2>1, <2>2, <2>3 DEF Bounded
<1>11. ASSUME NEW op \in {"AND", "OR"}, NEW y \in Tree, NEW z \in Tree, x = <<op, y, z>>,
              height[y] < height[x], height[z] < height[x]
       PROVE  FALSE
  <2>1. ASSUME NEW negated \in BOOLEAN, Missed(PositiveTerms[x][negated], text)
        PROVE  Missed(PositiveTerms[y][negated], text) /\ Missed(PositiveTerms[z][negated], text)
    <3>1. PositiveTerms[x][negated] = PositiveTerms[y][negated] \o PositiveTerms[z][negated]
      BY <1>7, <1>11 DEF Listed
    <3>2. PositiveTerms[y][negated] \in Seq(STRING) /\ PositiveTerms[z][negated] \in Seq(STRING)
      BY PositiveTermsBuilt DEF Lists
    <3> QED
      BY <2>1, <3>1, <3>2, MissedBoth
  <2>2. Bounded(y, text) /\ Bounded(z, text)
    BY <1>4, <1>11
  <2>3. CASE op = "AND"
    <3>1. /\ Evaluate[x][text] = (Evaluate[y][text] /\ Evaluate[z][text])
          /\ Evaluate[x][{}] = (Evaluate[y][{}] /\ Evaluate[z][{}])
      BY <1>5, <1>6, <1>11, <2>3 DEF Value
    <3> QED
      BY <1>3, <2>1, <2>2, <3>1 DEF Bounded
  <2>4. CASE op = "OR"
    <3>1. /\ Evaluate[x][text] = (Evaluate[y][text] \/ Evaluate[z][text])
          /\ Evaluate[x][{}] = (Evaluate[y][{}] \/ Evaluate[z][{}])
      BY <1>5, <1>6, <1>11, <2>4 DEF Value
    <3> QED
      BY <1>3, <2>1, <2>2, <3>1 DEF Bounded
  <2> QED
    BY <2>3, <2>4
<1> QED
  BY <1>1, <1>8, <1>9, <1>10, <1>11 DEF Parts

-----------------------------------------------------------------------------
(* The parser.                                                             *)

\* f is what a loop has after each round.
RoundsOf(S, a, step, f) ==
    f \in [Nat -> S] /\ \A n \in Nat : f[n] = IF n = 0 THEN a ELSE step[f[n - 1]]

LEMMA Rounds ==
    ASSUME NEW S, NEW a \in S, NEW step \in [S -> S]
    PROVE  \E f : RoundsOf(S, a, step, f)
<1> DEFINE rank == [n \in Nat |-> n]
           next == [n \in Nat |-> [f \in [Nat -> S] |-> IF n = 0 THEN a ELSE step[f[n - 1]]]]
<1>1. Recursion(Nat, S, rank, next)
  <2>1. next \in [Nat -> [[Nat -> S] -> S]]
    <3>1. ASSUME NEW n \in Nat, NEW f \in [Nat -> S] PROVE (IF n = 0 THEN a ELSE step[f[n - 1]]) \in S
      BY n # 0 => n - 1 \in Nat
    <3> QED
      BY <3>1
  <2>2. ASSUME NEW n \in Nat, NEW f \in [Nat -> S], NEW g \in [Nat -> S],
               \A k \in Nat : rank[k] < rank[n] => f[k] = g[k]
        PROVE  next[n][f] = next[n][g]
    <3>1. n # 0 => n - 1 \in Nat /\ n - 1 < n
      OBVIOUS
    <3> QED
      BY <2>2, <3>1
  <2>3. rank \in [Nat -> Nat] /\ S # {}
    OBVIOUS
  <2> HIDE DEF rank, next
  <2> QED
    BY <2>1, <2>2, <2>3 DEF Recursion
<1>2. PICK f \in [Nat -> S] : \A n \in Nat : f[n] = next[n][f]
  <2> HIDE DEF rank, next
  <2> QED
    BY <1>1, RecursiveFunction
<1>3. \A n \in Nat : f[n] = IF n = 0 THEN a ELSE step[f[n - 1]]
  BY <1>2
<1> QED
  BY <1>2, <1>3 DEF RoundsOf

\* The rounds f of a loop move on, by len at most, until one changes nothing.
Loop(S, f, step, pos, len) ==
    /\ f \in [Nat -> S] /\ step \in [S -> S] /\ pos \in [S -> Nat] /\ len \in Nat
    /\ \A n \in Nat : f[n + 1] = step[f[n]]
    /\ \A x \in S : pos[x] <= pos[f[0]] + len /\ (step[x] = x \/ pos[step[x]] > pos[x])

\* Where it stops is where it is after len rounds.
LEMMA LoopEnds ==
    ASSUME NEW S, NEW f, NEW step, NEW pos, NEW len, Loop(S, f, step, pos, len),
           NEW n \in Nat, step[f[n]] = f[n]
    PROVE  f[len] = f[n]
<1>0. /\ f \in [Nat -> S] /\ step \in [S -> S] /\ pos \in [S -> Nat] /\ len \in Nat
      /\ \A k \in Nat : f[k + 1] = step[f[k]]
      /\ \A x \in S : pos[x] <= pos[f[0]] + len /\ (step[x] = x \/ pos[step[x]] > pos[x])
  BY DEF Loop
<1> USE <1>0
<1>1. ASSUME NEW i \in Nat, NEW k \in Nat, i <= k, step[f[i]] = f[i], f[k] # f[i] PROVE FALSE
  <2> DEFINE Q == {j \in Nat : i <= j /\ f[j] # f[i]}
  <2>1. PICK m \in Q : \A j \in Q : m <= j
    <3>1. Q \subseteq Nat /\ k \in Q
      BY <1>1
    <3> HIDE DEF Q
    <3> QED
      BY <3>1, LeastOf
  <2>2. m # i /\ m \in Nat /\ i <= m
    BY <2>1
  <2>3. m - 1 \in Nat /\ i <= m - 1 /\ ~(m <= m - 1)
    BY <2>2
  <2>4. m - 1 \notin Q
    BY <2>1, <2>3
  <2>5. f[m - 1] = f[i] /\ f[(m - 1) + 1] = step[f[m - 1]] /\ (m - 1) + 1 = m
    BY <2>2, <2>3, <2>4
  <2> QED
    BY <1>1, <2>1, <2>5
<1>2. step[f[len]] = f[len]
  <2> SUFFICES ASSUME step[f[len]] # f[len] PROVE FALSE
    OBVIOUS
  <2> DEFINE Slow(j) == j <= len + 1 /\ pos[f[j]] < pos[f[0]] + j
             Q == {j \in Nat : Slow(j)}
  <2>1. ASSUME NEW j \in Nat, j <= len PROVE step[f[j]] # f[j] /\ pos[f[j + 1]] > pos[f[j]]
    <3>1. step[f[j]] # f[j]
      BY <1>1, <2>1
    <3> QED
      BY <3>1
  <2>2. pos[f[len + 1]] <= pos[f[0]] + len /\ len + 1 \in Nat
    OBVIOUS
  <2>3. PICK m \in Q : \A j \in Q : m <= j
    <3>1. Q \subseteq Nat /\ len + 1 \in Q
      BY <2>2
    <3> HIDE DEF Q
    <3> QED
      BY <3>1, LeastOf
  <2>4. m # 0 /\ m \in Nat /\ Slow(m)
    BY <2>3
  <2>5. m - 1 \in Nat /\ m - 1 <= len /\ (m - 1) + 1 = m /\ m - 1 \notin Q
    BY <2>3, <2>4
  <2>6. pos[f[m - 1]] >= pos[f[0]] + (m - 1)
    BY <2>5
  <2>7. pos[f[m]] > pos[f[m - 1]]
    BY <2>1, <2>5
  <2> QED
    BY <2>4, <2>5, <2>6, <2>7
<1>3. n <= len \/ len <= n
  OBVIOUS
<1> QED
  BY <1>1, <1>2, <1>3

AnyTree == UNION {Trees[n] : n \in Nat}

\* What a method may read at a place: a part that goes on from there, with a
\* tree no higher than the part is long.
ReadAt(q, at) ==
    {Bad} \cup {x \in [ok : {TRUE}, ast : AnyTree, at : at + 1 .. Len(q) + 1] :
                  x.ast \in Trees[x.at - at - 1]}

Legible(q, nots) == q \in Seq(Tokens) /\ \A at \in Places(q) : nots[at] \in ReadAt(q, at)

LEMMA ReadIs ==
    ASSUME NEW q \in Seq(Tokens), NEW at \in Places(q), NEW x \in ReadAt(q, at)
    PROVE  /\ x.ok \in BOOLEAN
           /\ ~x.ok => x = Bad
           /\ x.ok => x.at \in at + 1 .. Len(q) + 1 /\ x.ast \in Trees[x.at - at - 1]
<1>1. CASE x = Bad
  BY <1>1 DEF Bad
<1>2. CASE /\ x \in [ok : {TRUE}, ast : AnyTree, at : at + 1 .. Len(q) + 1]
           /\ x.ast \in Trees[x.at - at - 1]
  <2>1. x.ok = TRUE /\ x.at \in at + 1 .. Len(q) + 1
    BY <1>2
  <2> QED
    BY <1>2, <2>1
<1> QED
  BY <1>1, <1>2 DEF ReadAt

LEMMA PartIsRead ==
    ASSUME NEW q \in Seq(Tokens), NEW at \in Places(q), NEW to \in at + 1 .. Len(q) + 1,
           NEW ast \in Trees[to - at - 1]
    PROVE  /\ Part(ast, to) \in ReadAt(q, at)
           /\ Part(ast, to).ok /\ Part(ast, to).at = to /\ Part(ast, to).ast = ast
<1>1. to - at - 1 \in Nat
  BY DEF Places
<1>2. ast \in AnyTree
  BY <1>1 DEF AnyTree
<1> QED
  BY <1>2 DEF ReadAt, Part

LEMMA JoinReads ==
    ASSUME NEW q \in Seq(Tokens), NEW at \in Places(q), NEW x \in ReadAt(q, at), x.ok,
           NEW from \in Places(q), from = x.at \/ from = x.at + 1, NEW y \in ReadAt(q, from),
           NEW op \in {"AND", "OR"}
    PROVE  /\ Join(op, x, y) \in ReadAt(q, at)
           /\ y.ok => /\ Join(op, x, y).ok /\ Join(op, x, y).ast = <<op, x.ast, y.ast>>
                      /\ Join(op, x, y).at = y.at /\ y.at > x.at
           /\ ~y.ok => Join(op, x, y) = Bad
<1>0. Len(q) \in Nat /\ at \in Nat /\ from \in Nat
  BY DEF Places
<1>1. x.at \in at + 1 .. Len(q) + 1 /\ x.ast \in Trees[x.at - at - 1]
  BY ReadIs
<1>2. CASE ~y.ok
  BY <1>2 DEF Join, ReadAt
<1>3. CASE y.ok
  <2>1. y.at \in from + 1 .. Len(q) + 1 /\ y.ast \in Trees[y.at - from - 1]
    BY <1>3, ReadIs
  <2> DEFINE h == y.at - at - 1
  <2>2. /\ h \in Nat /\ h - 1 \in Nat /\ h # 0 /\ y.at \in at + 1 .. Len(q) + 1 /\ y.at > x.at
        /\ x.at - at - 1 \in Nat /\ x.at - at - 1 <= h - 1
        /\ y.at - from - 1 \in Nat /\ y.at - from - 1 <= h - 1
    <3>1. \A l, a, f \in Nat : \A u \in a + 1 .. l + 1 : \A v \in f + 1 .. l + 1 :
             f = u \/ f = u + 1 =>
                /\ v - a - 1 \in Nat /\ (v - a - 1) - 1 \in Nat /\ v - a - 1 # 0
                /\ v \in a + 1 .. l + 1 /\ v > u
                /\ u - a - 1 \in Nat /\ u - a - 1 <= (v - a - 1) - 1
                /\ v - f - 1 \in Nat /\ v - f - 1 <= (v - a - 1) - 1
      OBVIOUS
    <3> QED
      BY <1>0, <1>1, <2>1, <3>1
  <2>3. x.ast \in Trees[h - 1] /\ y.ast \in Trees[h - 1]
    BY <1>1, <2>1, <2>2, TreesNested
  <2>4. Trees[h] = Grow(Trees[h - 1])
    BY <2>2, TreesBuilt
  <2>5. <<op, x.ast, y.ast>> \in Trees[h]
    BY <2>3, <2>4 DEF Grow
  <2>6. Join(op, x, y) = Part(<<op, x.ast, y.ast>>, y.at)
    BY <1>3 DEF Join
  <2>7. LET j == Part(<<op, x.ast, y.ast>>, y.at)
        IN  j \in ReadAt(q, at) /\ j.ok /\ j.at = y.at /\ j.ast = <<op, x.ast, y.ast>>
    <3>1. <<op, x.ast, y.ast>> \in Trees[y.at - at - 1] /\ y.at \in at + 1 .. Len(q) + 1
      BY <2>2, <2>5
    <3> HIDE DEF h
    <3> QED
      BY <3>1, PartIsRead
  <2> QED
    BY <1>3, <2>2, <2>6, <2>7
<1> QED
  BY <1>2, <1>3, ReadIs

LEMMA PeekIs ==
    ASSUME NEW q \in Seq(Tokens), NEW at \in Nat
    PROVE  /\ Len(q) \in Nat
           /\ Peek(q, at) # End => at \in 1 .. Len(q) /\ Peek(q, at) = q[at] /\ q[at] \in Tokens
<1>1. Len(q) \in Nat
  OBVIOUS
<1>2. ASSUME at \in 1 .. Len(q) PROVE q[at] \in Tokens
  BY <1>2
<1> QED
  BY <1>1, <1>2 DEF Peek

\* Where a loop has got to; one that failed is past everything.
Progress(q, x) == IF x.ok THEN x.at ELSE Len(q) + 2

\* A round of _and: it stops, or joins what _not reads next.
AndStops(q, x) == ~x.ok \/ Peek(q, x.at) \in {End, ")", "OR"}

LEMMA AndRoundReads ==
    ASSUME NEW q, NEW nots, Legible(q, nots), NEW at \in Places(q), NEW x \in ReadAt(q, at)
    PROVE  /\ AndRound(q, nots, x) \in ReadAt(q, at)
           /\ AndStops(q, x) => AndRound(q, nots, x) = x
           /\ ~AndStops(q, x) =>
                 LET from == IF Peek(q, x.at) = "AND" THEN x.at + 1 ELSE x.at
                 IN  /\ from \in Places(q)
                     /\ AndRound(q, nots, x) = Join("AND", x, nots[from])
                     /\ Progress(q, AndRound(q, nots, x)) > Progress(q, x)
<1>0. q \in Seq(Tokens) /\ at \in Nat /\ Len(q) \in Nat
  BY DEF Legible, Places
<1>1. CASE AndStops(q, x)
  BY <1>1 DEF AndStops, AndRound
<1>2. CASE ~AndStops(q, x)
  <2> DEFINE from == IF Peek(q, x.at) = "AND" THEN x.at + 1 ELSE x.at
  <2>1. x.ok /\ x.at \in at + 1 .. Len(q) + 1 /\ Peek(q, x.at) # End
    BY <1>0, <1>2, ReadIs DEF AndStops
  <2>2. x.at \in Nat
    BY <1>0, <2>1
  <2>3. x.at \in 1 .. Len(q)
    BY <1>0, <2>1, <2>2, PeekIs
  <2>4. from \in Places(q) /\ (from = x.at \/ from = x.at + 1)
    BY <1>0, <2>3 DEF Places
  <2> HIDE DEF from
  <2>5. nots[from] \in ReadAt(q, from)
    BY <2>4 DEF Legible
  <2>6. AndRound(q, nots, x) = Join("AND", x, nots[from])
    BY <1>2 DEF AndStops, AndRound, from
  <2>7. /\ Join("AND", x, nots[from]) \in ReadAt(q, at)
        /\ nots[from].ok => Join("AND", x, nots[from]).ok /\ Join("AND", x, nots[from]).at > x.at
        /\ ~nots[from].ok => Join("AND", x, nots[from]) = Bad
    BY <1>0, <2>1, <2>4, <2>5, JoinReads
  <2>8. Progress(q, Join("AND", x, nots[from])) > Progress(q, x)
    <3>1. CASE nots[from].ok
      BY <2>1, <2>7, <3>1 DEF Progress
    <3>2. CASE ~nots[from].ok
      BY <1>0, <2>1, <2>7, <3>2 DEF Progress, Bad
    <3> QED
      BY <3>1, <3>2
  <2> QED
    BY <1>2, <2>4, <2>6, <2>7, <2>8 DEF from
<1> QED
  BY <1>1, <1>2

LEMMA AndReadsBuilt ==
    ASSUME NEW q, NEW nots, Legible(q, nots), NEW at \in Places(q)
    PROVE  LET f == AndReads(q, nots, at)
           IN  /\ f \in [Nat -> ReadAt(q, at)] /\ f[0] = nots[at]
               /\ \A n \in Nat : f[n + 1] = AndRound(q, nots, f[n])
<1> DEFINE S == ReadAt(q, at)
           step == [x \in S |-> AndRound(q, nots, x)]
<1>1. nots[at] \in S /\ step \in [S -> S]
  BY AndRoundReads DEF Legible
<1>2. PICK f : f \in [Nat -> S] /\ \A n \in Nat : f[n] = IF n = 0 THEN nots[at] ELSE step[f[n - 1]]
  <2> HIDE DEF S, step
  <2>1. \E f : RoundsOf(S, nots[at], step, f)
    BY <1>1, Rounds
  <2> QED
    BY <2>1 DEF RoundsOf
<1>3. f = [n \in Nat |-> IF n = 0 THEN nots[at] ELSE AndRound(q, nots, f[n - 1])]
  <2>1. ASSUME NEW n \in Nat PROVE f[n] = IF n = 0 THEN nots[at] ELSE AndRound(q, nots, f[n - 1])
    <3>1. n # 0 => n - 1 \in Nat
      OBVIOUS
    <3> QED
      BY <1>2, <3>1
  <2> QED
    BY <1>2, <2>1
<1> DEFINE r == AndReads(q, nots, at)
<1>4. r = [n \in Nat |-> IF n = 0 THEN nots[at] ELSE AndRound(q, nots, r[n - 1])]
  BY <1>3 DEF AndReads
<1> HIDE DEF r
<1>5. ASSUME NEW g, g = [n \in Nat |-> IF n = 0 THEN nots[at] ELSE AndRound(q, nots, g[n - 1])]
      PROVE  \A n \in Nat : g[n] \in S
  <2> SUFFICES ASSUME NEW k \in Nat, g[k] \notin S PROVE FALSE
    OBVIOUS
  <2> DEFINE Q == {n \in Nat : g[n] \notin S}
  <2>1. PICK m \in Q : \A n \in Q : m <= n
    <3>1. Q \subseteq Nat /\ k \in Q
      OBVIOUS
    <3> HIDE DEF Q
    <3> QED
      BY <3>1, LeastOf
  <2>2. m \in Nat /\ m # 0 /\ g[m] \notin S
    BY <1>1, <1>5, <2>1
  <2>3. m - 1 \in Nat /\ ~(m <= m - 1)
    BY <2>2
  <2>4. g[m - 1] \in S
    BY <2>1, <2>3
  <2>5. g[m] = AndRound(q, nots, g[m - 1])
    BY <1>5, <2>2
  <2> QED
    BY <2>2, <2>4, <2>5, AndRoundReads
<1>6. r \in [Nat -> S]
  BY <1>4, <1>5
<1>7. r[0] = nots[at] /\ \A n \in Nat : r[n + 1] = AndRound(q, nots, r[n])
  BY <1>4
<1> QED
  BY <1>6, <1>7 DEF r

\* The arithmetic of both loops.
LEMMA ProgressIs ==
    ASSUME NEW q \in Seq(Tokens), NEW at \in Places(q), NEW x \in ReadAt(q, at), NEW y \in ReadAt(q, at)
    PROVE  /\ Progress(q, x) \in Nat
           /\ Progress(q, x) <= Progress(q, y) + Len(q)
<1>1. Len(q) \in Nat /\ at \in Nat /\ at >= 1
  BY DEF Places
<1>2. ASSUME NEW z \in ReadAt(q, at)
      PROVE  Progress(q, z) \in 2 .. Len(q) + 2
  BY <1>1, ReadIs DEF Progress
<1>3. \A l \in Nat : \A a, b \in 2 .. l + 2 : a \in Nat /\ a <= b + l
  OBVIOUS
<1> QED
  BY <1>1, <1>2, <1>3

LEMMA AndPartReads ==
    ASSUME NEW q, NEW nots, Legible(q, nots), NEW at \in Places(q)
    PROVE  /\ AndPart(q, nots, at) \in ReadAt(q, at)
           /\ \A n \in Nat : AndStops(q, AndReads(q, nots, at)[n])
                               => AndPart(q, nots, at) = AndReads(q, nots, at)[n]
<1> DEFINE f == AndReads(q, nots, at)
           S == ReadAt(q, at)
           step == [x \in S |-> AndRound(q, nots, x)]
           pos == [x \in S |-> Progress(q, x)]
<1>1. q \in Seq(Tokens) /\ Len(q) \in Nat
  BY DEF Legible
<1>2. f \in [Nat -> S] /\ \A n \in Nat : f[n + 1] = AndRound(q, nots, f[n])
  BY AndReadsBuilt
<1> HIDE DEF f
<1>3. step \in [S -> S] /\ \A n \in Nat : f[n + 1] = step[f[n]]
  BY <1>2, AndRoundReads
<1>4. pos \in [S -> Nat]
  BY <1>1, ProgressIs
<1>5. ASSUME NEW x \in S PROVE pos[x] <= pos[f[0]] + Len(q) /\ (step[x] = x \/ pos[step[x]] > pos[x])
  <2>1. pos[x] <= pos[f[0]] + Len(q)
    BY <1>1, <1>2, ProgressIs
  <2>2. AndRound(q, nots, x) \in S
    BY AndRoundReads
  <2>3. step[x] = x \/ pos[step[x]] > pos[x]
    BY <2>2, AndRoundReads
  <2> QED
    BY <2>1, <2>3
<1>6. ASSUME NEW n \in Nat, AndStops(q, f[n]) PROVE step[f[n]] = f[n]
  BY <1>2, <1>6, AndRoundReads
<1>7. ASSUME NEW n \in Nat, AndStops(q, f[n]) PROVE f[Len(q)] = f[n]
  <2>1. step[f[n]] = f[n]
    BY <1>6, <1>7
  <2>2. \A x \in S : pos[x] <= pos[f[0]] + Len(q) /\ (step[x] = x \/ pos[step[x]] > pos[x])
    BY <1>5
  <2> HIDE DEF S, step, pos
  <2>3. Loop(S, f, step, pos, Len(q))
    BY <1>1, <1>2, <1>3, <1>4, <2>2 DEF Loop
  <2> QED
    BY <1>7, <2>1, <2>3, LoopEnds
<1>8. AndPart(q, nots, at) = f[Len(q)]
  BY DEF AndPart, f
<1> QED
  BY <1>1, <1>2, <1>7, <1>8 DEF f

OrStops(q, x) == ~x.ok \/ Peek(q, x.at) # "OR"

LEMMA OrRoundReads ==
    ASSUME NEW q, NEW nots, Legible(q, nots), NEW at \in Places(q), NEW x \in ReadAt(q, at)
    PROVE  /\ OrRound(q, nots, x) \in ReadAt(q, at)
           /\ OrStops(q, x) => OrRound(q, nots, x) = x
           /\ ~OrStops(q, x) =>
                 /\ x.at + 1 \in Places(q)
                 /\ OrRound(q, nots, x) = Join("OR", x, AndPart(q, nots, x.at + 1))
                 /\ Progress(q, OrRound(q, nots, x)) > Progress(q, x)
<1>0. q \in Seq(Tokens) /\ at \in Nat /\ Len(q) \in Nat
  BY DEF Legible, Places
<1>1. CASE OrStops(q, x)
  BY <1>1 DEF OrStops, OrRound
<1>2. CASE ~OrStops(q, x)
  <2> DEFINE from == x.at + 1
             y == AndPart(q, nots, from)
  <2>1. x.ok /\ x.at \in at + 1 .. Len(q) + 1 /\ Peek(q, x.at) # End
    BY <1>0, <1>2, ReadIs DEF OrStops, End
  <2>2. x.at \in Nat
    BY <1>0, <2>1
  <2>3. x.at \in 1 .. Len(q)
    BY <1>0, <2>1, <2>2, PeekIs
  <2>4. from \in Places(q) /\ (from = x.at \/ from = x.at + 1)
    BY <1>0, <2>3 DEF Places
  <2>6. OrRound(q, nots, x) = Join("OR", x, y)
    BY <1>2 DEF OrStops, OrRound
  <2> HIDE DEF from
  <2>5. y \in ReadAt(q, from)
    BY <2>4, AndPartReads
  <2> HIDE DEF y
  <2>7. /\ Join("OR", x, y) \in ReadAt(q, at)
        /\ y.ok => Join("OR", x, y).ok /\ Join("OR", x, y).at > x.at
        /\ ~y.ok => Join("OR", x, y) = Bad
    BY <1>0, <2>1, <2>4, <2>5, JoinReads
  <2>8. Progress(q, Join("OR", x, y)) > Progress(q, x)
    <3>1. CASE y.ok
      BY <2>1, <2>7, <3>1 DEF Progress
    <3>2. CASE ~y.ok
      BY <1>0, <2>1, <2>7, <3>2 DEF Progress, Bad
    <3> QED
      BY <3>1, <3>2
  <2> QED
    BY <1>2, <2>4, <2>6, <2>7, <2>8 DEF from, y
<1> QED
  BY <1>1, <1>2

LEMMA OrReadsBuilt ==
    ASSUME NEW q, NEW nots, Legible(q, nots), NEW at \in Places(q)
    PROVE  LET f == OrReads(q, nots, at)
           IN  /\ f \in [Nat -> ReadAt(q, at)] /\ f[0] = AndPart(q, nots, at)
               /\ \A n \in Nat : f[n + 1] = OrRound(q, nots, f[n])
<1> DEFINE S == ReadAt(q, at)
           a == AndPart(q, nots, at)
           step == [x \in S |-> OrRound(q, nots, x)]
<1>1. a \in S /\ step \in [S -> S]
  BY AndPartReads, OrRoundReads
<1>2. PICK f : f \in [Nat -> S] /\ \A n \in Nat : f[n] = IF n = 0 THEN a ELSE step[f[n - 1]]
  <2> HIDE DEF S, a, step
  <2>1. \E f : RoundsOf(S, a, step, f)
    BY <1>1, Rounds
  <2> QED
    BY <2>1 DEF RoundsOf
<1>3. f = [n \in Nat |-> IF n = 0 THEN a ELSE OrRound(q, nots, f[n - 1])]
  <2>1. ASSUME NEW n \in Nat PROVE f[n] = IF n = 0 THEN a ELSE OrRound(q, nots, f[n - 1])
    <3>1. n # 0 => n - 1 \in Nat
      OBVIOUS
    <3> QED
      BY <1>2, <3>1
  <2> QED
    BY <1>2, <2>1
<1> DEFINE r == OrReads(q, nots, at)
<1>4. r = [n \in Nat |-> IF n = 0 THEN a ELSE OrRound(q, nots, r[n - 1])]
  BY <1>3 DEF OrReads
<1> HIDE DEF r
<1>5. ASSUME NEW g, g = [n \in Nat |-> IF n = 0 THEN a ELSE OrRound(q, nots, g[n - 1])]
      PROVE  \A n \in Nat : g[n] \in S
  <2> SUFFICES ASSUME NEW k \in Nat, g[k] \notin S PROVE FALSE
    OBVIOUS
  <2> DEFINE Q == {n \in Nat : g[n] \notin S}
  <2>1. PICK m \in Q : \A n \in Q : m <= n
    <3>1. Q \subseteq Nat /\ k \in Q
      OBVIOUS
    <3> HIDE DEF Q
    <3> QED
      BY <3>1, LeastOf
  <2>2. m \in Nat /\ m # 0 /\ g[m] \notin S
    BY <1>1, <1>5, <2>1
  <2>3. m - 1 \in Nat /\ ~(m <= m - 1)
    BY <2>2
  <2>4. g[m - 1] \in S
    BY <2>1, <2>3
  <2>5. g[m] = OrRound(q, nots, g[m - 1])
    BY <1>5, <2>2
  <2> QED
    BY <2>2, <2>4, <2>5, OrRoundReads
<1>6. r \in [Nat -> S]
  BY <1>4, <1>5
<1>7. r[0] = a /\ \A n \in Nat : r[n + 1] = OrRound(q, nots, r[n])
  BY <1>4
<1> QED
  BY <1>6, <1>7 DEF r

LEMMA OrPartReads ==
    ASSUME NEW q, NEW nots, Legible(q, nots), NEW at \in Places(q)
    PROVE  /\ OrPart(q, nots, at) \in ReadAt(q, at)
           /\ \A n \in Nat : OrStops(q, OrReads(q, nots, at)[n])
                               => OrPart(q, nots, at) = OrReads(q, nots, at)[n]
<1> DEFINE f == OrReads(q, nots, at)
           S == ReadAt(q, at)
           step == [x \in S |-> OrRound(q, nots, x)]
           pos == [x \in S |-> Progress(q, x)]
<1>1. q \in Seq(Tokens) /\ Len(q) \in Nat
  BY DEF Legible
<1>2. f \in [Nat -> S] /\ \A n \in Nat : f[n + 1] = OrRound(q, nots, f[n])
  BY OrReadsBuilt
<1> HIDE DEF f
<1>3. step \in [S -> S] /\ \A n \in Nat : f[n + 1] = step[f[n]]
  BY <1>2, OrRoundReads
<1>4. pos \in [S -> Nat]
  BY <1>1, ProgressIs
<1>5. ASSUME NEW x \in S PROVE pos[x] <= pos[f[0]] + Len(q) /\ (step[x] = x \/ pos[step[x]] > pos[x])
  <2>1. pos[x] <= pos[f[0]] + Len(q)
    BY <1>1, <1>2, ProgressIs
  <2>2. OrRound(q, nots, x) \in S
    BY OrRoundReads
  <2>3. step[x] = x \/ pos[step[x]] > pos[x]
    BY <2>2, OrRoundReads
  <2> QED
    BY <2>1, <2>3
<1>6. ASSUME NEW n \in Nat, OrStops(q, f[n]) PROVE step[f[n]] = f[n]
  BY <1>2, <1>6, OrRoundReads
<1>7. ASSUME NEW n \in Nat, OrStops(q, f[n]) PROVE f[Len(q)] = f[n]
  <2>1. step[f[n]] = f[n]
    BY <1>6, <1>7
  <2>2. \A x \in S : pos[x] <= pos[f[0]] + Len(q) /\ (step[x] = x \/ pos[step[x]] > pos[x])
    BY <1>5
  <2> HIDE DEF S, step, pos
  <2>3. Loop(S, f, step, pos, Len(q))
    BY <1>1, <1>2, <1>3, <1>4, <2>2 DEF Loop
  <2> QED
    BY <1>7, <2>1, <2>3, LoopEnds
<1>8. OrPart(q, nots, at) = f[Len(q)]
  BY DEF OrPart, f
<1> QED
  BY <1>1, <1>2, <1>7, <1>8 DEF f

LEMMA NotPartReads ==
    ASSUME NEW q, NEW deeper, Legible(q, deeper), NEW at \in Places(q)
    PROVE  /\ NotPart(q, deeper, at) \in ReadAt(q, at)
           /\ Peek(q, at) = "NOT" =>
                 LET x == deeper[at + 1]
                 IN  /\ at + 1 \in Places(q)
                     /\ x.ok => /\ NotPart(q, deeper, at).ok /\ NotPart(q, deeper, at).at = x.at
                                /\ NotPart(q, deeper, at).ast = <<"NOT", x.ast>>
                     /\ ~x.ok => NotPart(q, deeper, at) = Bad
           /\ Peek(q, at) = "(" =>
                 LET x == OrPart(q, deeper, at + 1)
                 IN  /\ at + 1 \in Places(q)
                     /\ x.ok /\ Peek(q, x.at) = ")" =>
                          /\ NotPart(q, deeper, at).ok /\ NotPart(q, deeper, at).at = x.at + 1
                          /\ NotPart(q, deeper, at).ast = x.ast
                     /\ ~x.ok => NotPart(q, deeper, at) = Bad
           /\ Peek(q, at) \in Words =>
                 /\ NotPart(q, deeper, at).ok /\ NotPart(q, deeper, at).at = at + 1
                 /\ NotPart(q, deeper, at).ast = <<"TERM", Peek(q, at)>>
<1> DEFINE tok == Peek(q, at)
           p == NotPart(q, deeper, at)
<1>0. q \in Seq(Tokens) /\ Len(q) \in Nat /\ at \in Nat /\ at \in 1 .. Len(q) + 1
  BY DEF Legible, Places
<1>1. Bad \in ReadAt(q, at) /\ Bad.ok = FALSE
  BY DEF ReadAt, Bad
<1>2. tok # End => at \in 1 .. Len(q) /\ tok \in Tokens /\ at + 1 \in Places(q)
  BY <1>0, PeekIs DEF Places
<1>3. CASE tok = "NOT"
  <2> DEFINE x == deeper[at + 1]
  <2>0. tok # End /\ tok # "(" /\ tok \notin Words
    BY <1>3, WordsAssumption DEF End, Keywords
  <2>1. x \in ReadAt(q, at + 1) /\ at + 1 \in Places(q)
    BY <1>2, <2>0 DEF Legible
  <2>2. p = IF x.ok THEN Part(<<"NOT", x.ast>>, x.at) ELSE Bad
    BY <1>3 DEF NotPart, End
  <2>3. ASSUME x.ok PROVE LET y == Part(<<"NOT", x.ast>>, x.at)
                          IN  y \in ReadAt(q, at) /\ y.ok /\ y.at = x.at /\ y.ast = <<"NOT", x.ast>>
    <3>1. x.at \in at + 1 + 1 .. Len(q) + 1 /\ x.ast \in Trees[x.at - (at + 1) - 1]
      BY <1>0, <2>1, <2>3, ReadIs
    <3>2. \A l, a \in Nat : \A u \in a + 1 + 1 .. l + 1 :
             /\ u \in a + 1 .. l + 1 /\ u - a - 1 \in Nat /\ u - a - 1 # 0
             /\ u - (a + 1) - 1 = (u - a - 1) - 1
      OBVIOUS
    <3>3. /\ x.at \in at + 1 .. Len(q) + 1 /\ x.at - at - 1 \in Nat /\ x.at - at - 1 # 0
          /\ x.at - (at + 1) - 1 = (x.at - at - 1) - 1
      BY <1>0, <3>1, <3>2
    <3>4. <<"NOT", x.ast>> \in Trees[x.at - at - 1]
      <4>1. Trees[x.at - at - 1] = Grow(Trees[(x.at - at - 1) - 1])
        BY <3>3, TreesBuilt
      <4> QED
        BY <3>1, <3>3, <4>1 DEF Grow
    <3> HIDE DEF x
    <3> QED
      BY <1>0, <3>3, <3>4, PartIsRead
  <2> HIDE DEF x
  <2>4. p \in ReadAt(q, at) /\ (x.ok => p.ok /\ p.at = x.at /\ p.ast = <<"NOT", x.ast>>)
        /\ (~x.ok => p = Bad)
    BY <1>1, <2>2, <2>3
  <2> QED
    BY <1>3, <2>0, <2>1, <2>4 DEF x
<1>4. CASE tok = "("
  <2> DEFINE x == OrPart(q, deeper, at + 1)
  <2>0. tok # End /\ tok # "NOT" /\ tok \notin Words
    BY <1>4, WordsAssumption DEF End, Keywords
  <2>1. x \in ReadAt(q, at + 1) /\ at + 1 \in Places(q)
    BY <1>2, <2>0, OrPartReads
  <2>2. p = IF x.ok /\ Peek(q, x.at) = ")" THEN Part(x.ast, x.at + 1) ELSE Bad
    BY <1>4 DEF NotPart, End
  <2> HIDE DEF x
  <2>3. ASSUME x.ok, Peek(q, x.at) = ")"
        PROVE  LET y == Part(x.ast, x.at + 1)
               IN  y \in ReadAt(q, at) /\ y.ok /\ y.at = x.at + 1 /\ y.ast = x.ast
    <3>1. x.at \in at + 1 + 1 .. Len(q) + 1 /\ x.ast \in Trees[x.at - (at + 1) - 1]
      BY <1>0, <2>1, <2>3, ReadIs
    <3>2. x.at \in Nat
      BY <1>0, <3>1
    <3>3. x.at \in 1 .. Len(q)
      BY <1>0, <2>3, <3>2, PeekIs DEF End
    <3>4. PICK to \in Nat : to = x.at + 1
      BY <3>2
    <3>5. \A l, a, u, v \in Nat : u \in a + 1 + 1 .. l + 1 /\ u \in 1 .. l /\ v = u + 1 =>
             /\ v \in a + 1 .. l + 1 /\ v - a - 1 \in Nat /\ u - (a + 1) - 1 \in Nat
             /\ u - (a + 1) - 1 <= v - a - 1
      OBVIOUS
    <3>6. /\ to \in at + 1 .. Len(q) + 1 /\ to - at - 1 \in Nat /\ x.at - (at + 1) - 1 \in Nat
          /\ x.at - (at + 1) - 1 <= to - at - 1
      BY <1>0, <3>1, <3>2, <3>3, <3>4, <3>5
    <3>7. x.ast \in Trees[to - at - 1]
      BY <3>1, <3>6, TreesNested
    <3>8. LET y == Part(x.ast, to)
          IN  y \in ReadAt(q, at) /\ y.ok /\ y.at = to /\ y.ast = x.ast
      BY <1>0, <3>6, <3>7, PartIsRead
    <3> QED
      BY <3>4, <3>8
  <2>4. p \in ReadAt(q, at) /\ (x.ok /\ Peek(q, x.at) = ")" => p.ok /\ p.at = x.at + 1 /\ p.ast = x.ast)
        /\ (~x.ok => p = Bad)
    BY <1>1, <2>2, <2>3
  <2> QED
    BY <1>4, <2>0, <2>1, <2>4 DEF x
<1>5. CASE tok \in {End, ")"}
  <2>1. p = Bad /\ tok \notin {"NOT", "("} /\ tok \notin Words
    BY <1>5, WordsAssumption DEF NotPart, End, Keywords
  <2> QED
    BY <1>1, <1>5, <2>1
<1>6. CASE tok \notin {"NOT", "(", End, ")"}
  <2>1. p = Part(<<"TERM", tok>>, at + 1)
    BY <1>6 DEF NotPart
  <2>2. <<"TERM", tok>> \in Trees[at + 1 - at - 1] /\ at + 1 \in at + 1 .. Len(q) + 1
    <3>1. at + 1 - at - 1 = 0 /\ at + 1 \in at + 1 .. Len(q) + 1
      BY <1>0, <1>2, <1>6
    <3>2. Trees[0] = Leaves
      BY TreesBuilt
    <3>3. tok \in STRING
      BY <1>2, <1>6, WordsAssumption
    <3> QED
      BY <3>1, <3>2, <3>3 DEF Leaves
  <2>3. LET y == Part(<<"TERM", tok>>, at + 1)
        IN  y \in ReadAt(q, at) /\ y.ok /\ y.at = at + 1 /\ y.ast = <<"TERM", tok>>
    <3> HIDE DEF tok
    <3> QED
      BY <1>0, <2>2, PartIsRead
  <2> QED
    BY <1>6, <2>1, <2>3
<1> QED
  BY <1>3, <1>4, <1>5, <1>6

LEMMA NotPartsBuilt ==
    ASSUME NEW q \in Seq(Tokens), NEW k \in Nat
    PROVE  /\ Legible(q, NotParts(q)[k])
           /\ \A at \in Places(q) :
                 NotParts(q)[k][at] = IF k = 0 THEN Bad ELSE NotPart(q, NotParts(q)[k - 1], at)
<1> DEFINE S == {f \in [Places(q) -> UNION {ReadAt(q, at) : at \in Places(q)}] :
                   \A at \in Places(q) : f[at] \in ReadAt(q, at)}
           none == [at \in Places(q) |-> Bad]
           level(f) == [at \in Places(q) |-> NotPart(q, f, at)]
           step == [f \in S |-> level(f)]
<1>1. none \in S
  <2>1. \A at \in Places(q) : Bad \in ReadAt(q, at)
    BY DEF ReadAt
  <2> QED
    BY <2>1
<1>2. \A f \in S : Legible(q, f)
  BY DEF Legible
<1>3. ASSUME NEW f, Legible(q, f) PROVE level(f) \in S
  <2>1. \A at \in Places(q) : NotPart(q, f, at) \in ReadAt(q, at)
    BY <1>3, NotPartReads
  <2> QED
    BY <2>1
<1>4. step \in [S -> S]
  BY <1>2, <1>3
<1>5. PICK f : f \in [Nat -> S] /\ \A n \in Nat : f[n] = IF n = 0 THEN none ELSE step[f[n - 1]]
  <2> HIDE DEF S, none, step
  <2>1. \E f : RoundsOf(S, none, step, f)
    BY <1>1, <1>4, Rounds
  <2> QED
    BY <2>1 DEF RoundsOf
<1> DEFINE Built(g) == g = [n \in Nat |-> IF n = 0 THEN none ELSE level(g[n - 1])]
<1>6. Built(f)
  <2>1. ASSUME NEW n \in Nat PROVE f[n] = IF n = 0 THEN none ELSE level(f[n - 1])
    <3>1. n # 0 => n - 1 \in Nat
      OBVIOUS
    <3>2. n # 0 => f[n] = step[f[n - 1]] /\ f[n - 1] \in S
      BY <1>5, <3>1
    <3>3. n # 0 => f[n] = level(f[n - 1])
      BY <3>2
    <3>4. n = 0 => f[n] = none
      BY <1>5
    <3> HIDE DEF level, none
    <3> QED
      BY <3>3, <3>4
  <2> HIDE DEF level, none
  <2> QED
    BY <1>5, <2>1
<1> DEFINE r == NotParts(q)
<1>7. Built(r)
  BY <1>6 DEF NotParts
<1> HIDE DEF r
<1>8. ASSUME NEW n \in Nat PROVE r[n] \in S
  <2> SUFFICES ASSUME r[n] \notin S PROVE FALSE
    OBVIOUS
  <2> DEFINE Q == {i \in Nat : r[i] \notin S}
  <2>1. PICK m \in Q : \A i \in Q : m <= i
    <3>1. Q \subseteq Nat /\ n \in Q
      OBVIOUS
    <3> HIDE DEF Q
    <3> QED
      BY <3>1, LeastOf
  <2> HIDE DEF S, level, none
  <2>2. m \in Nat /\ r[m] = IF m = 0 THEN none ELSE level(r[m - 1])
    BY <1>7, <2>1
  <2>3. r[m] \notin S
    BY <2>1
  <2>4. m # 0
    BY <1>1, <2>2, <2>3
  <2>5. m - 1 \in Nat /\ ~(m <= m - 1)
    BY <2>2, <2>4
  <2>6. r[m - 1] \in S
    BY <2>1, <2>5
  <2> QED
    BY <1>2, <1>3, <2>2, <2>3, <2>4, <2>6
<1>9. r[k] = IF k = 0 THEN none ELSE level(r[k - 1])
  <2> HIDE DEF level, none
  <2> QED
    BY <1>7
<1>10. k # 0 => k - 1 \in Nat
  OBVIOUS
<1>11. Legible(q, r[k])
  BY <1>2, <1>8
<1>12. \A at \in Places(q) : r[k][at] = IF k = 0 THEN Bad ELSE NotPart(q, r[k - 1], at)
  BY <1>9
<1> QED
  BY <1>11, <1>12 DEF r

\* A tree is no higher than its query is long.
LEMMA ParseReads ==
    ASSUME NEW q \in Seq(Tokens), Len(q) <= MaxHeight, Parse(q).ok
    PROVE  Parse(q).ast \in Tree
<1>1. CASE q = <<>>
  <2>1. Parse(q).ast = <<"ALL">>
    BY <1>1 DEF Parse, Part
  <2>2. 0 \in Nat /\ 0 <= MaxHeight /\ Trees[0] = Leaves
    BY HeightAssumption, TreesBuilt
  <2>3. Leaves \subseteq Tree
    BY <2>2, HeightAssumption, TreesNested DEF Tree
  <2> QED
    BY <2>1, <2>3 DEF Leaves
<1>2. CASE q # <<>>
  <2> DEFINE nots == NotParts(q)[MaxDepth + 1]
             x == OrPart(q, nots, 1)
  <2>1. Legible(q, nots)
    BY DepthAssumption, NotPartsBuilt
  <2>2. 1 \in Places(q) /\ Len(q) \in Nat
    BY DEF Places
  <2> HIDE DEF nots
  <2>3. x \in ReadAt(q, 1)
    BY <2>1, <2>2, OrPartReads
  <2>4. Parse(q) = (IF x.ok /\ x.at = Len(q) + 1 THEN x ELSE Bad)
    BY <1>2 DEF Parse, nots
  <2> HIDE DEF x
  <2>5. Parse(q) = x /\ x.ok
    BY <2>4 DEF Bad
  <2>6. x.at \in 1 + 1 .. Len(q) + 1 /\ x.ast \in Trees[x.at - 1 - 1]
    BY <2>2, <2>3, <2>5, ReadIs
  <2>7. x.at - 1 - 1 \in Nat /\ x.at - 1 - 1 <= MaxHeight
    BY <2>2, <2>6, HeightAssumption
  <2> QED
    BY <2>5, <2>6, <2>7, HeightAssumption, TreesNested DEF Tree
<1> QED
  BY <1>1, <1>2

-----------------------------------------------------------------------------
(* What the parser builds, and what the grammar reads.                     *)

\* The values of trees, by how they are built.
LEMMA LeavesAreTrees == Leaves \subseteq Tree
<1>1. 0 \in Nat /\ 0 <= MaxHeight /\ Trees[0] = Leaves
  BY HeightAssumption, TreesBuilt
<1> QED
  BY <1>1, HeightAssumption, TreesNested DEF Tree

LEMMA TermValue ==
    ASSUME NEW word \in STRING, NEW text \in SUBSET STRING
    PROVE  /\ <<"TERM", word>> \in Tree /\ Evaluate[<<"TERM", word>>][text] = (word \in text)
<1>1. Leaves \subseteq Tree
  BY LeavesAreTrees
<1>2. <<"TERM", word>> \in Tree
  BY <1>1 DEF Leaves
<1>3. Value(Evaluate, <<"TERM", word>>, text) = (word \in text)
  BY DEF Value
<1> QED
  BY <1>2, <1>3, EvaluateBuilt

LEMMA AllValue ==
    ASSUME NEW text \in SUBSET STRING
    PROVE  Evaluate[<<"ALL">>][text] = TRUE
<1>1. <<"ALL">> \in Tree
  BY LeavesAreTrees DEF Leaves
<1>2. Value(Evaluate, <<"ALL">>, text) = TRUE
  BY DEF Value
<1> QED
  BY <1>1, <1>2, EvaluateBuilt

LEMMA NotValue ==
    ASSUME NEW x, <<"NOT", x>> \in Tree, NEW text \in SUBSET STRING
    PROVE  Evaluate[<<"NOT", x>>][text] = ~Evaluate[x][text]
<1>1. Value(Evaluate, <<"NOT", x>>, text) = ~Evaluate[x][text]
  BY DEF Value
<1> QED
  BY <1>1, EvaluateBuilt

LEMMA AndValue ==
    ASSUME NEW x, NEW y, <<"AND", x, y>> \in Tree, NEW text \in SUBSET STRING
    PROVE  Evaluate[<<"AND", x, y>>][text] = (Evaluate[x][text] /\ Evaluate[y][text])
<1>1. Value(Evaluate, <<"AND", x, y>>, text) = (Evaluate[x][text] /\ Evaluate[y][text])
  BY DEF Value
<1> QED
  BY <1>1, EvaluateBuilt

LEMMA OrValue ==
    ASSUME NEW x, NEW y, <<"OR", x, y>> \in Tree, NEW text \in SUBSET STRING
    PROVE  Evaluate[<<"OR", x, y>>][text] = (Evaluate[x][text] \/ Evaluate[y][text])
<1>1. Value(Evaluate, <<"OR", x, y>>, text) = (Evaluate[x][text] \/ Evaluate[y][text])
  BY DEF Value
<1> QED
  BY <1>1, EvaluateBuilt

LEMMA ReadTree ==
    ASSUME NEW q \in Seq(Tokens), Len(q) <= MaxHeight, NEW at \in Places(q), NEW x \in ReadAt(q, at), x.ok
    PROVE  x.ast \in Tree
<1>1. x.at \in at + 1 .. Len(q) + 1 /\ x.ast \in Trees[x.at - at - 1]
  BY ReadIs
<1>2. at \in Nat /\ at >= 1 /\ Len(q) \in Nat
  BY DEF Places
<1>3. x.at - at - 1 \in Nat /\ x.at - at - 1 <= MaxHeight
  BY <1>1, <1>2, HeightAssumption
<1> QED
  BY <1>1, <1>3, HeightAssumption, TreesNested DEF Tree

\* How deep the tokens i .. j can be nested.
Nest(q, i, j) == Cardinality({k \in i .. j : q[k] \in {"NOT", "("}})

LEMMA NestGrows ==
    ASSUME NEW q, NEW i \in Nat, NEW j \in Nat, NEW a \in Nat, NEW b \in Nat, i <= a, b <= j
    PROVE  Nest(q, i, j) \in Nat /\ Nest(q, a, b) \in Nat /\ Nest(q, a, b) <= Nest(q, i, j)
<1> DEFINE outer == {k \in i .. j : q[k] \in {"NOT", "("}}
           inner == {k \in a .. b : q[k] \in {"NOT", "("}}
<1>1. IsFiniteSet(outer)
  <2>1. IsFiniteSet(i .. j) /\ outer \subseteq i .. j
    BY FS_Interval
  <2> HIDE DEF outer
  <2> QED
    BY <2>1, FS_Subset
<1>2. inner \subseteq outer
  OBVIOUS
<1> HIDE DEF outer, inner
<1>3. IsFiniteSet(inner) /\ Cardinality(inner) <= Cardinality(outer)
  BY <1>1, <1>2, FS_Subset
<1> QED
  BY <1>1, <1>3, FS_CardinalityType DEF Nest, outer, inner

LEMMA NestingType == ASSUME NEW q \in Seq(Tokens) PROVE Nesting(q) \in Nat
<1>1. Len(q) \in Nat
  BY LenProperties
<1>2. Nest(q, 1, Len(q)) \in Nat
  BY <1>1, NestGrows
<1> QED
  BY <1>2 DEF Nest, Nesting

LEMMA NestDeeper ==
    ASSUME NEW q, NEW i \in Nat, NEW j \in Nat, NEW b \in Nat, i <= j, b <= j, q[i] \in {"NOT", "("}
    PROVE  Nest(q, i + 1, b) \in Nat /\ Nest(q, i, j) \in Nat /\ Nest(q, i + 1, b) + 1 <= Nest(q, i, j)
<1> DEFINE outer == {k \in i .. j : q[k] \in {"NOT", "("}}
           rest  == {k \in i + 1 .. j : q[k] \in {"NOT", "("}}
<1>1. IsFiniteSet(outer) /\ IsFiniteSet(rest)
  <2>1. IsFiniteSet(i .. j) /\ outer \subseteq i .. j /\ rest \subseteq i .. j
    BY FS_Interval
  <2> HIDE DEF outer, rest
  <2> QED
    BY <2>1, FS_Subset
<1>2. rest = outer \ {i} /\ i \in outer
  OBVIOUS
<1> HIDE DEF outer, rest
<1>3. Cardinality(rest) = Cardinality(outer) - 1 /\ Cardinality(outer) \in Nat
  BY <1>1, <1>2, FS_RemoveElement, FS_CardinalityType
<1>4. Nest(q, i + 1, j) + 1 = Nest(q, i, j)
  BY <1>3 DEF Nest, outer, rest
<1>5. Nest(q, i + 1, b) \in Nat /\ Nest(q, i + 1, j) \in Nat /\ Nest(q, i + 1, b) <= Nest(q, i + 1, j)
  BY NestGrows
<1> QED
  BY <1>3, <1>4, <1>5 DEF Nest, outer

Sorts == {"not", "and", "or"}

\* The readings there may be, of a query.
AllReadings(q) == [kind : Sorts, from : 1 .. Len(q), to : 1 .. Len(q), value : BOOLEAN]

\* d is one of D, or a rule makes it of some of them.
ByRule(q, text, D, d) ==
    \/ d \in D
    \/ \E i \in 1 .. Len(q) : q[i] \in Words /\ d = Reading("not", i, i, q[i] \in text)
    \/ \E c \in D : /\ c.kind = "not" /\ Before(q, c) = "NOT"
                    /\ d = Reading("not", c.from - 1, c.to, ~c.value)
    \/ \E c \in D : /\ c.kind = "or" /\ Before(q, c) = "(" /\ After(q, c) = ")"
                    /\ d = Reading("not", c.from - 1, c.to + 1, c.value)
    \/ \E c \in D : c.kind = "not" /\ d = Reading("and", c.from, c.to, c.value)
    \/ \E c \in D : c.kind = "and" /\ d = Reading("or", c.from, c.to, c.value)
    \/ \E x, y \in D : /\ x.kind = "and" /\ y.kind = "not" /\ AndJoins(q, x, y)
                       /\ d = Reading("and", x.from, y.to, x.value /\ y.value)
    \/ \E x, y \in D : /\ x.kind = "or" /\ y.kind = "and" /\ OrJoins(q, x, y)
                       /\ d = Reading("or", x.from, y.to, x.value \/ y.value)

LEMMA Rules ==
    ASSUME NEW q, NEW text, NEW D, NEW d
    PROVE  d \in Derive(q, text, D) <=> ByRule(q, text, D, d)
<1> DEFINE Of(kind) == {c \in D : c.kind = kind}
           words == {Reading("not", i, i, q[i] \in text) : i \in {k \in 1 .. Len(q) : q[k] \in Words}}
           negated == {Reading("not", c.from - 1, c.to, ~c.value)
                         : c \in {e \in Of("not") : Before(q, e) = "NOT"}}
           nested == {Reading("not", c.from - 1, c.to + 1, c.value)
                         : c \in {e \in Of("or") : Before(q, e) = "(" /\ After(q, e) = ")"}}
           ands == {Reading("and", c.from, c.to, c.value) : c \in Of("not")}
           ors == {Reading("or", c.from, c.to, c.value) : c \in Of("and")}
           both == {Reading("and", p[1].from, p[2].to, p[1].value /\ p[2].value)
                      : p \in {c \in Of("and") \X Of("not") : AndJoins(q, c[1], c[2])}}
           either == {Reading("or", p[1].from, p[2].to, p[1].value \/ p[2].value)
                        : p \in {c \in Of("or") \X Of("and") : OrJoins(q, c[1], c[2])}}
<1>1. d \in words <=> \E i \in 1 .. Len(q) : q[i] \in Words /\ d = Reading("not", i, i, q[i] \in text)
  OBVIOUS
<1>2. d \in negated <=> \E c \in D : /\ c.kind = "not" /\ Before(q, c) = "NOT"
                                     /\ d = Reading("not", c.from - 1, c.to, ~c.value)
  OBVIOUS
<1>3. d \in nested <=> \E c \in D : /\ c.kind = "or" /\ Before(q, c) = "(" /\ After(q, c) = ")"
                                    /\ d = Reading("not", c.from - 1, c.to + 1, c.value)
  OBVIOUS
<1>4. d \in ands <=> \E c \in D : c.kind = "not" /\ d = Reading("and", c.from, c.to, c.value)
  OBVIOUS
<1>5. d \in ors <=> \E c \in D : c.kind = "and" /\ d = Reading("or", c.from, c.to, c.value)
  OBVIOUS
<1>6. d \in both <=> \E x, y \in D : /\ x.kind = "and" /\ y.kind = "not" /\ AndJoins(q, x, y)
                  /\ d = Reading("and", x.from, y.to, x.value /\ y.value)
  <2>1. ASSUME d \in both
        PROVE  \E x, y \in D : /\ x.kind = "and" /\ y.kind = "not" /\ AndJoins(q, x, y)
                               /\ d = Reading("and", x.from, y.to, x.value /\ y.value)
    <3>1. PICK p \in Of("and") \X Of("not") :
             AndJoins(q, p[1], p[2]) /\ d = Reading("and", p[1].from, p[2].to, p[1].value /\ p[2].value)
      BY <2>1
    <3>2. p[1] \in D /\ p[2] \in D /\ p[1].kind = "and" /\ p[2].kind = "not"
      OBVIOUS
    <3> QED
      BY <3>1, <3>2
  <2>2. ASSUME NEW x \in D, NEW y \in D, x.kind = "and", y.kind = "not", AndJoins(q, x, y),
               d = Reading("and", x.from, y.to, x.value /\ y.value)
        PROVE  d \in both
    <3>1. <<x, y>> \in {c \in Of("and") \X Of("not") : AndJoins(q, c[1], c[2])}
      BY <2>2
    <3> QED
      BY <2>2, <3>1
  <2> QED
    BY <2>1, <2>2
<1>7. d \in either <=> \E x, y \in D : /\ x.kind = "or" /\ y.kind = "and" /\ OrJoins(q, x, y)
                  /\ d = Reading("or", x.from, y.to, x.value \/ y.value)
  <2>1. ASSUME d \in either
        PROVE  \E x, y \in D : /\ x.kind = "or" /\ y.kind = "and" /\ OrJoins(q, x, y)
                               /\ d = Reading("or", x.from, y.to, x.value \/ y.value)
    <3>1. PICK p \in Of("or") \X Of("and") :
             OrJoins(q, p[1], p[2]) /\ d = Reading("or", p[1].from, p[2].to, p[1].value \/ p[2].value)
      BY <2>1
    <3>2. p[1] \in D /\ p[2] \in D /\ p[1].kind = "or" /\ p[2].kind = "and"
      OBVIOUS
    <3> QED
      BY <3>1, <3>2
  <2>2. ASSUME NEW x \in D, NEW y \in D, x.kind = "or", y.kind = "and", OrJoins(q, x, y),
               d = Reading("or", x.from, y.to, x.value \/ y.value)
        PROVE  d \in either
    <3>1. <<x, y>> \in {c \in Of("or") \X Of("and") : OrJoins(q, c[1], c[2])}
      BY <2>2
    <3> QED
      BY <2>2, <3>1
  <2> QED
    BY <2>1, <2>2
<1>8. Derive(q, text, D) = D \cup words \cup negated \cup nested \cup ands \cup ors \cup both \cup either
  BY DEF Derive
<1> HIDE DEF Of, words, negated, nested, ands, ors, both, either
<1> QED
  BY <1>1, <1>2, <1>3, <1>4, <1>5, <1>6, <1>7, <1>8 DEF ByRule

LEMMA DeriveType ==
    ASSUME NEW q \in Seq(Tokens), NEW text, NEW D \in SUBSET AllReadings(q)
    PROVE  Derive(q, text, D) \in SUBSET AllReadings(q)
<1> SUFFICES ASSUME NEW d \in Derive(q, text, D) PROVE d \in AllReadings(q)
  OBVIOUS
<1>0. Len(q) \in Nat
  OBVIOUS
<1>1. ByRule(q, text, D, d)
  BY Rules
<1>2. ASSUME NEW c \in D PROVE c \in AllReadings(q) /\ c.from \in 1 .. Len(q) /\ c.to \in 1 .. Len(q) /\ c.value \in BOOLEAN
  BY DEF AllReadings
<1>3. ASSUME NEW k \in Sorts, NEW i \in 1 .. Len(q), NEW j \in 1 .. Len(q), NEW v \in BOOLEAN
      PROVE  Reading(k, i, j, v) \in AllReadings(q)
  BY DEF Reading, AllReadings
<1>4. ASSUME NEW i \in 1 .. Len(q) PROVE (q[i] \in text) \in BOOLEAN
  OBVIOUS
<1>5. ASSUME NEW c \in D, Before(q, c) \in {"NOT", "("} PROVE c.from - 1 \in 1 .. Len(q)
  BY <1>0, <1>2, <1>5 DEF Before, Peek, End
<1>6. ASSUME NEW c \in D, After(q, c) = ")" PROVE c.to + 1 \in 1 .. Len(q)
  BY <1>0, <1>2, <1>6 DEF After, Peek, End
<1>7. CASE \E i \in 1 .. Len(q) : q[i] \in Words /\ d = Reading("not", i, i, q[i] \in text)
  BY <1>3, <1>4, <1>7 DEF Sorts
<1>8. CASE \E c \in D : /\ c.kind = "not" /\ Before(q, c) = "NOT"
                        /\ d = Reading("not", c.from - 1, c.to, ~c.value)
  BY <1>2, <1>3, <1>5, <1>8 DEF Sorts
<1>9. CASE \E c \in D : /\ c.kind = "or" /\ Before(q, c) = "(" /\ After(q, c) = ")"
                        /\ d = Reading("not", c.from - 1, c.to + 1, c.value)
  BY <1>2, <1>3, <1>5, <1>6, <1>9 DEF Sorts
<1>10. CASE \/ \E c \in D : c.kind = "not" /\ d = Reading("and", c.from, c.to, c.value)
            \/ \E c \in D : c.kind = "and" /\ d = Reading("or", c.from, c.to, c.value)
  BY <1>2, <1>3, <1>10 DEF Sorts
<1>11. CASE \E x, y \in D : /\ x.kind = "and" /\ y.kind = "not" /\ AndJoins(q, x, y)
                            /\ d = Reading("and", x.from, y.to, x.value /\ y.value)
  BY <1>2, <1>3, <1>11 DEF Sorts
<1>12. CASE \E x, y \in D : /\ x.kind = "or" /\ y.kind = "and" /\ OrJoins(q, x, y)
                            /\ d = Reading("or", x.from, y.to, x.value \/ y.value)
  BY <1>2, <1>3, <1>12 DEF Sorts
<1> QED
  BY <1>1, <1>2, <1>7, <1>8, <1>9, <1>10, <1>11, <1>12 DEF ByRule

LEMMA ReadingsBuilt ==
    ASSUME NEW q \in Seq(Tokens), NEW text
    PROVE  /\ Readings(q, text)[0] = {}
           /\ \A n \in Nat : n # 0 => Readings(q, text)[n] = Derive(q, text, Readings(q, text)[n - 1])
<1> DEFINE S == SUBSET AllReadings(q)
           step == [D \in S |-> Derive(q, text, D)]
<1>1. {} \in S /\ step \in [S -> S]
  BY DeriveType
<1>2. PICK f : f \in [Nat -> S] /\ \A n \in Nat : f[n] = IF n = 0 THEN {} ELSE step[f[n - 1]]
  <2> HIDE DEF S, step
  <2>1. \E f : RoundsOf(S, {}, step, f)
    BY <1>1, Rounds
  <2> QED
    BY <2>1 DEF RoundsOf
<1>3. f = [n \in Nat |-> IF n = 0 THEN {} ELSE Derive(q, text, f[n - 1])]
  <2>1. ASSUME NEW n \in Nat PROVE f[n] = IF n = 0 THEN {} ELSE Derive(q, text, f[n - 1])
    <3>1. n # 0 => n - 1 \in Nat
      OBVIOUS
    <3>2. n # 0 => f[n] = step[f[n - 1]] /\ f[n - 1] \in S
      BY <1>2, <3>1
    <3> QED
      BY <1>2, <3>2
  <2> QED
    BY <1>2, <2>1
<1> DEFINE r == Readings(q, text)
<1>4. r = [n \in Nat |-> IF n = 0 THEN {} ELSE Derive(q, text, r[n - 1])]
  BY <1>3 DEF Readings
<1> HIDE DEF r
<1>5. r[0] = {} /\ \A n \in Nat : n # 0 => r[n] = Derive(q, text, r[n - 1])
  BY <1>4
<1> QED
  BY <1>5 DEF r

-----------------------------------------------------------------------------
(* The parser reads what the grammar reads.                                *)

\* Where d begins and ends, and with what.
Spans(q, d) ==
    /\ d.kind \in Sorts /\ d.from \in 1 .. Len(q) /\ d.to \in d.from .. Len(q) /\ d.value \in BOOLEAN
    /\ q[d.from] \in Words \cup {"NOT", "("}

\* x is what d reads, unless d is nested deeper than k.
IsRead(q, text, k, d, x) ==
    IF x.ok THEN x.at = d.to + 1 /\ Evaluate[x.ast][text] = d.value
    ELSE k <= Nest(q, d.from, d.to)

\* What the methods read where d begins, with k levels of nesting left; _or reads
\* on unless d ends where a conjunction does.
NotReads(q, text, k, d) == IsRead(q, text, k, d, NotParts(q)[k][d.from])

AndRead(q, text, k, d) ==
    \E n \in Nat : IsRead(q, text, k, d, AndReads(q, NotParts(q)[k], d.from)[n])

OrRead(q, text, k, d) ==
    After(q, d) \in {End, ")", "OR"} =>
       \E n \in Nat : IsRead(q, text, k, d, OrReads(q, NotParts(q)[k], d.from)[n])

Parses(q, text, d) ==
    /\ Spans(q, d)
    /\ \A k \in Nat : /\ d.kind = "not" => NotReads(q, text, k, d)
                      /\ d.kind = "and" => AndRead(q, text, k, d)
                      /\ d.kind = "or"  => OrRead(q, text, k, d)

\* The queries and texts at hand.
Readable(q, text) == q \in Seq(Tokens) /\ Len(q) <= MaxHeight /\ text \in SUBSET STRING

LEMMA WordParsed ==
    ASSUME NEW q, NEW text, Readable(q, text), NEW i \in 1 .. Len(q), q[i] \in Words
    PROVE  Parses(q, text, Reading("not", i, i, q[i] \in text))
<1> DEFINE d == Reading("not", i, i, q[i] \in text)
<1>0. q \in Seq(Tokens) /\ Len(q) \in Nat /\ text \in SUBSET STRING /\ i \in Places(q) /\ q[i] \in STRING
  BY WordsAssumption DEF Readable, Places, Tokens
<1>1. Spans(q, d) /\ d.kind = "not" /\ d.from = i /\ d.to = i /\ d.value = (q[i] \in text)
  BY <1>0 DEF Spans, Reading, Sorts
<1> HIDE DEF d
<1>2. ASSUME NEW k \in Nat PROVE IsRead(q, text, k, d, NotParts(q)[k][i])
  <2> DEFINE x == NotParts(q)[k][i]
  <2>1. CASE k = 0
    <3>1. x = Bad
      BY <1>0, <2>1, NotPartsBuilt
    <3>2. Nest(q, i, i) \in Nat
      BY <1>0, NestGrows
    <3> QED
      BY <1>1, <2>1, <3>1, <3>2 DEF IsRead, Bad
  <2>2. CASE k # 0
    <3>1. k - 1 \in Nat
      BY <2>2
    <3>2. Legible(q, NotParts(q)[k - 1]) /\ x = NotPart(q, NotParts(q)[k - 1], i)
      BY <1>0, <2>2, <3>1, NotPartsBuilt
    <3>3. Peek(q, i) = q[i]
      BY DEF Peek
    <3>4. x.ok /\ x.at = i + 1 /\ x.ast = <<"TERM", q[i]>>
      BY <1>0, <3>2, <3>3, NotPartReads
    <3>5. Evaluate[x.ast][text] = (q[i] \in text)
      BY <1>0, <3>4, TermValue
    <3> HIDE DEF x
    <3> QED
      BY <1>1, <3>4, <3>5 DEF IsRead, x
  <2> QED
    BY <2>1, <2>2
<1>3. Parses(q, text, d)
  BY <1>1, <1>2 DEF Parses, NotReads
<1> QED
  BY <1>3 DEF d

LEMMA NegationParsed ==
    ASSUME NEW q, NEW text, Readable(q, text), NEW c, Parses(q, text, c), c.kind = "not", Before(q, c) = "NOT"
    PROVE  Parses(q, text, Reading("not", c.from - 1, c.to, ~c.value))
<1> DEFINE d == Reading("not", c.from - 1, c.to, ~c.value)
           i == c.from - 1
<1>0. q \in Seq(Tokens) /\ Len(q) \in Nat /\ text \in SUBSET STRING /\ Len(q) <= MaxHeight
  BY DEF Readable
<1>1. Spans(q, c) /\ \A k \in Nat : NotReads(q, text, k, c)
  BY DEF Parses
<1>2. i \in 1 .. Len(q) /\ q[i] = "NOT" /\ i + 1 = c.from /\ Peek(q, i) = "NOT"
  BY <1>0, <1>1 DEF Before, Peek, End, Spans
<1>3. Spans(q, d) /\ d.kind = "not" /\ d.from = i /\ d.to = c.to /\ d.value = ~c.value
  BY <1>0, <1>1, <1>2 DEF Spans, Reading, Sorts
<1>4. i \in Places(q) /\ c.from \in Places(q) /\ c.from \in Nat /\ c.to \in Nat /\ c.from <= c.to
  BY <1>0, <1>1, <1>2 DEF Spans, Places
<1> HIDE DEF d, i
<1>5. ASSUME NEW k \in Nat PROVE IsRead(q, text, k, d, NotParts(q)[k][i])
  <2> DEFINE x == NotParts(q)[k][i]
  <2>0. i \in Nat /\ i <= c.to
    BY <1>2, <1>4
  <2>1. /\ Nest(q, i, c.to) \in Nat /\ Nest(q, c.from, c.to) \in Nat
        /\ Nest(q, c.from, c.to) + 1 <= Nest(q, i, c.to)
    BY <1>2, <1>4, <2>0, NestDeeper
  <2>2. CASE k = 0
    <3>1. x = Bad
      BY <1>0, <1>4, <2>2, NotPartsBuilt
    <3> QED
      BY <1>3, <2>1, <2>2, <3>1 DEF IsRead, Bad
  <2>3. CASE k # 0
    <3> DEFINE deeper == NotParts(q)[k - 1]
               y == deeper[c.from]
    <3>1. k - 1 \in Nat
      BY <2>3
    <3>2. Legible(q, deeper) /\ x = NotPart(q, deeper, i)
      BY <1>0, <1>4, <2>3, <3>1, NotPartsBuilt
    <3>3. IsRead(q, text, k - 1, c, y)
      BY <1>1, <3>1 DEF NotReads
    <3> HIDE DEF deeper
    <3>4. /\ y.ok => x.ok /\ x.at = y.at /\ x.ast = <<"NOT", y.ast>>
          /\ ~y.ok => x = Bad
      BY <1>2, <1>4, <3>2, NotPartReads
    <3>5. x \in ReadAt(q, i)
      BY <1>4, <3>2, NotPartReads
    <3> HIDE DEF x, y
    <3>6. CASE y.ok
      <4>1. <<"NOT", y.ast>> \in Tree
        BY <1>0, <1>4, <3>4, <3>5, <3>6, ReadTree
      <4>2. Evaluate[x.ast][text] = ~Evaluate[y.ast][text]
        BY <1>0, <3>4, <3>6, <4>1, NotValue
      <4> QED
        BY <1>3, <3>3, <3>4, <3>6, <4>2 DEF IsRead, x
    <3>7. CASE ~y.ok
      <4>1. k - 1 <= Nest(q, c.from, c.to)
        BY <3>3, <3>7 DEF IsRead
      <4>2. k <= Nest(q, i, c.to)
        BY <2>1, <4>1
      <4> QED
        BY <1>3, <3>4, <3>7, <4>2 DEF IsRead, x, Bad
    <3> QED
      BY <3>6, <3>7
  <2> QED
    BY <2>2, <2>3
<1>6. Parses(q, text, d)
  BY <1>3, <1>5 DEF Parses, NotReads
<1> QED
  BY <1>6 DEF d, i

LEMMA NestingParsed ==
    ASSUME NEW q, NEW text, Readable(q, text), NEW c, Parses(q, text, c), c.kind = "or",
           Before(q, c) = "(", After(q, c) = ")"
    PROVE  Parses(q, text, Reading("not", c.from - 1, c.to + 1, c.value))
<1> DEFINE d == Reading("not", c.from - 1, c.to + 1, c.value)
           i == c.from - 1
           j == c.to + 1
<1>0. q \in Seq(Tokens) /\ Len(q) \in Nat /\ text \in SUBSET STRING /\ Len(q) <= MaxHeight
  BY DEF Readable
<1>1. Spans(q, c) /\ \A k \in Nat : OrRead(q, text, k, c)
  BY DEF Parses
<1>2. i \in 1 .. Len(q) /\ q[i] = "(" /\ i + 1 = c.from /\ Peek(q, i) = "("
  BY <1>0, <1>1 DEF Before, Peek, End, Spans
<1>3. j \in 1 .. Len(q) /\ c.to + 1 = j /\ i <= j /\ c.to <= j /\ Peek(q, j) = ")"
  BY <1>0, <1>1 DEF After, Peek, End, Spans
<1>4. Spans(q, d) /\ d.kind = "not" /\ d.from = i /\ d.to = j /\ d.value = c.value
  BY <1>0, <1>1, <1>2, <1>3 DEF Spans, Reading, Sorts
<1>5. i \in Places(q) /\ c.from \in Places(q) /\ c.from \in Nat /\ c.to \in Nat /\ i \in Nat /\ j \in Nat
  BY <1>0, <1>1, <1>2, <1>3 DEF Spans, Places
<1>6. j + 1 = c.to + 1 + 1
  BY <1>3
<1> HIDE DEF d, i, j
<1>7. ASSUME NEW k \in Nat PROVE IsRead(q, text, k, d, NotParts(q)[k][i])
  <2> DEFINE x == NotParts(q)[k][i]
  <2>1. /\ Nest(q, i, j) \in Nat /\ Nest(q, c.from, c.to) \in Nat
        /\ Nest(q, c.from, c.to) + 1 <= Nest(q, i, j)
    BY <1>2, <1>3, <1>5, NestDeeper
  <2>2. CASE k = 0
    <3>1. x = Bad
      BY <1>0, <1>5, <2>2, NotPartsBuilt
    <3> QED
      BY <1>4, <2>1, <2>2, <3>1 DEF IsRead, Bad
  <2>3. CASE k # 0
    <3> DEFINE deeper == NotParts(q)[k - 1]
    <3>1. k - 1 \in Nat
      BY <2>3
    <3>2. Legible(q, deeper) /\ x = NotPart(q, deeper, i)
      BY <1>0, <1>5, <2>3, <3>1, NotPartsBuilt
    <3>3. PICK n \in Nat : IsRead(q, text, k - 1, c, OrReads(q, deeper, c.from)[n])
      BY <1>1, <3>1 DEF OrRead
    <3> HIDE DEF deeper
    <3> DEFINE y == OrPart(q, deeper, c.from)
    <3>4. OrStops(q, OrReads(q, deeper, c.from)[n])
      <4> DEFINE z == OrReads(q, deeper, c.from)[n]
      <4>1. z.ok => Peek(q, z.at) # "OR"
        BY <1>3, <3>3 DEF IsRead
      <4> QED
        BY <4>1 DEF OrStops
    <3>5. IsRead(q, text, k - 1, c, y)
      BY <1>5, <3>2, <3>3, <3>4, OrPartReads
    <3> HIDE DEF x, y
    <3>6. CASE y.ok
      <4>1. y.at = j /\ Evaluate[y.ast][text] = c.value
        BY <1>3, <3>5, <3>6 DEF IsRead
      <4>2. x.ok /\ x.at = j + 1 /\ x.ast = y.ast
        BY <1>2, <1>3, <1>5, <3>2, <3>6, <4>1, NotPartReads DEF y
      <4> QED
        BY <1>4, <4>1, <4>2 DEF IsRead, x
    <3>7. CASE ~y.ok
      <4>1. k - 1 <= Nest(q, c.from, c.to)
        BY <3>5, <3>7 DEF IsRead
      <4>2. k <= Nest(q, i, j)
        BY <2>1, <4>1
      <4>3. x = Bad
        BY <1>2, <1>5, <3>2, <3>7, NotPartReads DEF y
      <4> QED
        BY <1>4, <4>2, <4>3 DEF IsRead, x, Bad
    <3> QED
      BY <3>6, <3>7
  <2> QED
    BY <2>2, <2>3
<1>8. Parses(q, text, d)
  BY <1>4, <1>7 DEF Parses, NotReads
<1> QED
  BY <1>8 DEF d, i, j

LEMMA NotIsAnd ==
    ASSUME NEW q, NEW text, Readable(q, text), NEW c, Parses(q, text, c), c.kind = "not"
    PROVE  Parses(q, text, Reading("and", c.from, c.to, c.value))
<1> DEFINE d == Reading("and", c.from, c.to, c.value)
<1>0. q \in Seq(Tokens) /\ Len(q) \in Nat
  BY DEF Readable
<1>1. Spans(q, c) /\ \A k \in Nat : NotReads(q, text, k, c)
  BY DEF Parses
<1>2. Spans(q, d) /\ d.kind = "and" /\ d.from = c.from /\ d.to = c.to /\ d.value = c.value
  BY <1>1 DEF Spans, Reading, Sorts
<1>3. c.from \in Places(q)
  BY <1>0, <1>1 DEF Spans, Places
<1> HIDE DEF d
<1>4. ASSUME NEW k \in Nat PROVE AndRead(q, text, k, d)
  <2>1. AndReads(q, NotParts(q)[k], c.from)[0] = NotParts(q)[k][c.from]
    BY <1>0, <1>3, NotPartsBuilt, AndReadsBuilt
  <2>2. IsRead(q, text, k, c, AndReads(q, NotParts(q)[k], c.from)[0])
    BY <1>1, <2>1 DEF NotReads
  <2>3. IsRead(q, text, k, d, AndReads(q, NotParts(q)[k], d.from)[0])
    BY <1>2, <2>2 DEF IsRead
  <2> QED
    BY <2>3 DEF AndRead
<1>5. Parses(q, text, d)
  BY <1>2, <1>4 DEF Parses
<1> QED
  BY <1>5 DEF d

\* What _and reads of a conjunction that ends there.
LEMMA AndPartParsed ==
    ASSUME NEW q, NEW text, Readable(q, text), NEW c, Parses(q, text, c), c.kind = "and",
           After(q, c) \in {End, ")", "OR"}, NEW k \in Nat
    PROVE  IsRead(q, text, k, c, AndPart(q, NotParts(q)[k], c.from))
<1> DEFINE nots == NotParts(q)[k]
<1>0. q \in Seq(Tokens) /\ Len(q) \in Nat
  BY DEF Readable
<1>1. Spans(q, c) /\ AndRead(q, text, k, c)
  BY DEF Parses
<1>2. c.from \in Places(q)
  BY <1>0, <1>1 DEF Spans, Places
<1>3. Legible(q, nots)
  BY <1>0, NotPartsBuilt
<1>4. PICK n \in Nat : IsRead(q, text, k, c, AndReads(q, nots, c.from)[n])
  BY <1>1 DEF AndRead
<1> HIDE DEF nots
<1>5. AndStops(q, AndReads(q, nots, c.from)[n])
  <2> DEFINE z == AndReads(q, nots, c.from)[n]
  <2>1. z.ok => Peek(q, z.at) \in {End, ")", "OR"}
    BY <1>4 DEF IsRead, After
  <2> HIDE DEF z
  <2> QED
    BY <2>1 DEF AndStops, z
<1>6. IsRead(q, text, k, c, AndPart(q, nots, c.from))
  BY <1>2, <1>3, <1>4, <1>5, AndPartReads
<1> QED
  BY <1>6 DEF nots

LEMMA AndIsOr ==
    ASSUME NEW q, NEW text, Readable(q, text), NEW c, Parses(q, text, c), c.kind = "and"
    PROVE  Parses(q, text, Reading("or", c.from, c.to, c.value))
<1> DEFINE d == Reading("or", c.from, c.to, c.value)
<1>0. q \in Seq(Tokens) /\ Len(q) \in Nat
  BY DEF Readable
<1>1. Spans(q, c)
  BY DEF Parses
<1>2. Spans(q, d) /\ d.kind = "or" /\ d.from = c.from /\ d.to = c.to /\ d.value = c.value
  BY <1>1 DEF Spans, Reading, Sorts
<1>3. c.from \in Places(q)
  BY <1>0, <1>1 DEF Spans, Places
<1> HIDE DEF d
<1>4. ASSUME NEW k \in Nat, After(q, d) \in {End, ")", "OR"}
      PROVE  IsRead(q, text, k, d, OrReads(q, NotParts(q)[k], d.from)[0])
  <2>1. OrReads(q, NotParts(q)[k], c.from)[0] = AndPart(q, NotParts(q)[k], c.from)
    BY <1>0, <1>3, NotPartsBuilt, OrReadsBuilt
  <2>2. After(q, c) \in {End, ")", "OR"}
    BY <1>2, <1>4 DEF After
  <2>3. IsRead(q, text, k, c, OrReads(q, NotParts(q)[k], c.from)[0])
    BY <2>1, <2>2, AndPartParsed
  <2> QED
    BY <1>2, <2>3 DEF IsRead
<1>5. \A k \in Nat : OrRead(q, text, k, d)
  BY <1>4 DEF OrRead
<1>6. Parses(q, text, d)
  BY <1>2, <1>5 DEF Parses
<1> QED
  BY <1>6 DEF d

\* Two parts that are joined, as the two readings of them are.
LEMMA JoinedAsRead ==
    ASSUME NEW q, NEW text, Readable(q, text), NEW k \in Nat,
           NEW c, NEW e, Spans(q, c), Spans(q, e), c.to < e.from,
           NEW at \in Places(q), NEW x \in ReadAt(q, at), x.ok, x.at = c.to + 1,
           NEW y \in ReadAt(q, e.from), e.from = x.at \/ e.from = x.at + 1,
           IsRead(q, text, k, c, x), IsRead(q, text, k, e, y),
           NEW op \in {"AND", "OR"}, NEW d, d.from = c.from, d.to = e.to,
           d.value = IF op = "AND" THEN c.value /\ e.value ELSE c.value \/ e.value
    PROVE  IsRead(q, text, k, d, Join(op, x, y))
<1> DEFINE z == Join(op, x, y)
<1>0. q \in Seq(Tokens) /\ Len(q) \in Nat /\ text \in SUBSET STRING /\ Len(q) <= MaxHeight
  BY DEF Readable
<1>1. e.from \in Places(q) /\ c.from \in Nat /\ c.to \in Nat /\ e.from \in Nat /\ e.to \in Nat /\ c.to <= e.to
  BY <1>0 DEF Spans, Places
<1>2. /\ z \in ReadAt(q, at)
      /\ y.ok => z.ok /\ z.ast = <<op, x.ast, y.ast>> /\ z.at = y.at
      /\ ~y.ok => z = Bad
  BY <1>0, <1>1, JoinReads
<1> HIDE DEF z
<1>3. CASE y.ok
  <2>1. <<op, x.ast, y.ast>> \in Tree
    BY <1>0, <1>2, <1>3, ReadTree
  <2>2. Evaluate[x.ast][text] = c.value /\ Evaluate[y.ast][text] = e.value /\ y.at = e.to + 1
    BY <1>3 DEF IsRead
  <2>3. Evaluate[z.ast][text] = d.value
    <3>1. CASE op = "AND"
      BY <1>0, <1>2, <1>3, <2>1, <2>2, <3>1, AndValue
    <3>2. CASE op = "OR"
      BY <1>0, <1>2, <1>3, <2>1, <2>2, <3>2, OrValue
    <3> QED
      BY <3>1, <3>2
  <2> QED
    BY <1>2, <1>3, <2>2, <2>3 DEF IsRead, z
<1>4. CASE ~y.ok
  <2>1. k <= Nest(q, e.from, e.to)
    BY <1>4 DEF IsRead
  <2>2. /\ Nest(q, c.from, e.to) \in Nat /\ Nest(q, e.from, e.to) \in Nat
        /\ Nest(q, e.from, e.to) <= Nest(q, c.from, e.to)
    <3>1. c.from <= e.from
      BY <1>0, <1>1 DEF Spans
    <3> QED
      BY <1>1, <3>1, NestGrows
  <2>3. k <= Nest(q, d.from, d.to)
    BY <2>1, <2>2
  <2> QED
    BY <1>2, <1>4, <2>3 DEF IsRead, z, Bad
<1> QED
  BY <1>3, <1>4

LEMMA BothParsed ==
    ASSUME NEW q, NEW text, Readable(q, text), NEW c, Parses(q, text, c), c.kind = "and",
           NEW e, Parses(q, text, e), e.kind = "not", AndJoins(q, c, e)
    PROVE  Parses(q, text, Reading("and", c.from, e.to, c.value /\ e.value))
<1> DEFINE d == Reading("and", c.from, e.to, c.value /\ e.value)
<1>0. q \in Seq(Tokens) /\ Len(q) \in Nat
  BY DEF Readable
<1>1. Spans(q, c) /\ Spans(q, e)
  BY DEF Parses
<1>2. /\ c.from \in Places(q) /\ e.from \in Places(q) /\ c.from \in Nat /\ c.to \in Nat /\ e.from \in Nat
      /\ e.to \in Nat /\ c.to < e.from /\ c.from <= c.to /\ c.to <= e.to /\ c.from \in 1 .. Len(q) /\ e.to \in c.from .. Len(q)
  BY <1>0, <1>1 DEF Spans, Places, AndJoins
<1>3. Spans(q, d) /\ d.kind = "and" /\ d.from = c.from /\ d.to = e.to /\ d.value = (c.value /\ e.value)
  BY <1>1, <1>2 DEF Spans, Reading, Sorts
<1>4. /\ Peek(q, c.to + 1) \notin {End, ")", "OR"}
      /\ e.from = IF Peek(q, c.to + 1) = "AND" THEN c.to + 1 + 1 ELSE c.to + 1
  <2>1. CASE e.from = c.to + 1
    <3>1. Peek(q, c.to + 1) = q[e.from]
      BY <1>1, <2>1 DEF Peek, Spans
    <3>2. q[e.from] \notin {End, ")", "OR", "AND"}
      BY <1>1, WordsAssumption DEF Spans, Keywords, End
    <3> QED
      BY <2>1, <3>1, <3>2
  <2>2. CASE Peek(q, c.to + 1) = "AND" /\ e.from = c.to + 2
    <3>1. e.from = c.to + 1 + 1
      BY <1>2, <2>2
    <3>2. "AND" \notin {End, ")", "OR"}
      BY DEF End
    <3> QED
      BY <2>2, <3>1, <3>2
  <2> QED
    BY <2>1, <2>2 DEF AndJoins, After
<1> HIDE DEF d
<1>5. ASSUME NEW k \in Nat PROVE AndRead(q, text, k, d)
  <2> DEFINE nots == NotParts(q)[k]
             f == AndReads(q, nots, c.from)
  <2>1. Legible(q, nots)
    BY <1>0, NotPartsBuilt
  <2>2. PICK n \in Nat : IsRead(q, text, k, c, f[n])
    BY <1>3 DEF Parses, AndRead
  <2>3. IsRead(q, text, k, e, nots[e.from])
    BY DEF Parses, NotReads
  <2> HIDE DEF nots
  <2>4. f[n] \in ReadAt(q, c.from) /\ f[n + 1] = AndRound(q, nots, f[n])
    <3>1. f \in [Nat -> ReadAt(q, c.from)] /\ \A m \in Nat : f[m + 1] = AndRound(q, nots, f[m])
      <4>1. PICK at \in Places(q) : at = c.from
        BY <1>2
      <4> QED
        BY <2>1, <4>1, AndReadsBuilt
    <3> HIDE DEF f
    <3> QED
      BY <3>1
  <2>5. nots[e.from] \in ReadAt(q, e.from)
    BY <1>2, <2>1 DEF Legible
  <2> DEFINE x == f[n]
  <2> HIDE DEF f
  <2>6. CASE x.ok
    <3>1. x.at = c.to + 1
      BY <2>2, <2>6 DEF IsRead
    <3>2. ~AndStops(q, x)
      BY <1>4, <2>6, <3>1 DEF AndStops
    <3>3. f[n + 1] = Join("AND", x, nots[e.from])
      BY <1>2, <1>4, <2>1, <2>4, <3>1, <3>2, AndRoundReads
    <3>4. e.from = x.at \/ e.from = x.at + 1
      BY <1>4, <3>1
    <3>5. IsRead(q, text, k, d, Join("AND", x, nots[e.from]))
      <4>1. d.value = IF "AND" = "AND" THEN c.value /\ e.value ELSE c.value \/ e.value
        BY <1>3
      <4> QED
        BY <1>1, <1>2, <1>3, <2>2, <2>3, <2>4, <2>5, <2>6, <3>1, <3>4, <4>1, JoinedAsRead
    <3> QED
      BY <1>3, <3>3, <3>5 DEF AndRead, f, nots
  <2>7. CASE ~x.ok
    <3>1. k <= Nest(q, c.from, c.to)
      BY <2>2, <2>7 DEF IsRead
    <3>2. k <= Nest(q, d.from, d.to)
      BY <1>2, <1>3, <3>1, NestGrows
    <3>3. IsRead(q, text, k, d, x)
      BY <2>7, <3>2 DEF IsRead
    <3> QED
      BY <1>3, <3>3 DEF AndRead, f, nots
  <2> QED
    BY <2>6, <2>7
<1>6. Parses(q, text, d)
  BY <1>3, <1>5 DEF Parses
<1> QED
  BY <1>6 DEF d

LEMMA EitherParsed ==
    ASSUME NEW q, NEW text, Readable(q, text), NEW c, Parses(q, text, c), c.kind = "or",
           NEW e, Parses(q, text, e), e.kind = "and", OrJoins(q, c, e)
    PROVE  Parses(q, text, Reading("or", c.from, e.to, c.value \/ e.value))
<1> DEFINE d == Reading("or", c.from, e.to, c.value \/ e.value)
<1>0. q \in Seq(Tokens) /\ Len(q) \in Nat
  BY DEF Readable
<1>1. Spans(q, c) /\ Spans(q, e)
  BY DEF Parses
<1>2. /\ c.from \in Places(q) /\ e.from \in Places(q) /\ c.from \in Nat /\ c.to \in Nat /\ e.from \in Nat
      /\ e.to \in Nat /\ c.to < e.from /\ c.from <= c.to /\ c.to <= e.to /\ c.from \in 1 .. Len(q) /\ e.to \in c.from .. Len(q)
  BY <1>0, <1>1 DEF Spans, Places, OrJoins
<1>3. Spans(q, d) /\ d.kind = "or" /\ d.from = c.from /\ d.to = e.to /\ d.value = (c.value \/ e.value)
  BY <1>1, <1>2 DEF Spans, Reading, Sorts
<1>4. Peek(q, c.to + 1) = "OR" /\ e.from = c.to + 1 + 1
  BY <1>2 DEF OrJoins, After
<1> HIDE DEF d
<1>5. ASSUME NEW k \in Nat, After(q, d) \in {End, ")", "OR"}
      PROVE  \E n \in Nat : IsRead(q, text, k, d, OrReads(q, NotParts(q)[k], d.from)[n])
  <2> DEFINE nots == NotParts(q)[k]
             f == OrReads(q, nots, c.from)
             y == AndPart(q, nots, e.from)
  <2>1. Legible(q, nots)
    BY <1>0, NotPartsBuilt
  <2>2. PICK n \in Nat : IsRead(q, text, k, c, f[n])
    BY <1>4 DEF Parses, OrRead, After
  <2>3. IsRead(q, text, k, e, y)
    <3>1. After(q, e) \in {End, ")", "OR"}
      BY <1>3, <1>5 DEF After
    <3> QED
      BY <3>1, AndPartParsed
  <2> HIDE DEF nots
  <2>4. f[n] \in ReadAt(q, c.from) /\ f[n + 1] = OrRound(q, nots, f[n])
    <3>1. f \in [Nat -> ReadAt(q, c.from)] /\ \A m \in Nat : f[m + 1] = OrRound(q, nots, f[m])
      <4>1. PICK at \in Places(q) : at = c.from
        BY <1>2
      <4> QED
        BY <2>1, <4>1, OrReadsBuilt
    <3> HIDE DEF f
    <3> QED
      BY <3>1
  <2>5. y \in ReadAt(q, e.from)
    BY <1>2, <2>1, AndPartReads
  <2> DEFINE x == f[n]
  <2> HIDE DEF f, y
  <2>6. CASE x.ok
    <3>1. x.at = c.to + 1
      BY <2>2, <2>6 DEF IsRead
    <3>2. ~OrStops(q, x)
      BY <1>4, <2>6, <3>1 DEF OrStops
    <3>3. f[n + 1] = Join("OR", x, y)
      BY <1>2, <1>4, <2>1, <2>4, <3>1, <3>2, OrRoundReads DEF y
    <3>4. e.from = x.at \/ e.from = x.at + 1
      BY <1>4, <3>1
    <3>5. IsRead(q, text, k, d, Join("OR", x, y))
      <4>1. d.value = IF "OR" = "AND" THEN c.value /\ e.value ELSE c.value \/ e.value
        BY <1>3
      <4> QED
        BY <1>1, <1>2, <1>3, <2>2, <2>3, <2>4, <2>5, <2>6, <3>1, <3>4, <4>1, JoinedAsRead
    <3> QED
      BY <1>3, <3>3, <3>5 DEF f, nots
  <2>7. CASE ~x.ok
    <3>1. k <= Nest(q, c.from, c.to)
      BY <2>2, <2>7 DEF IsRead
    <3>2. k <= Nest(q, d.from, d.to)
      BY <1>2, <1>3, <3>1, NestGrows
    <3>3. IsRead(q, text, k, d, x)
      BY <2>7, <3>2 DEF IsRead
    <3> QED
      BY <1>3, <3>3 DEF f, nots
  <2> QED
    BY <2>6, <2>7
<1>6. Parses(q, text, d)
  BY <1>3, <1>5 DEF Parses, OrRead
<1> QED
  BY <1>6 DEF d

LEMMA ReadingsParsed ==
    ASSUME NEW q, NEW text, Readable(q, text), NEW k \in Nat
    PROVE  \A d \in Readings(q, text)[k] : Parses(q, text, d)
<1> DEFINE R == Readings(q, text)
           Q == {n \in Nat : \E d \in R[n] : ~Parses(q, text, d)}
<1> SUFFICES ASSUME k \in Q PROVE FALSE
  OBVIOUS
<1>1. R[0] = {} /\ \A n \in Nat : n # 0 => R[n] = Derive(q, text, R[n - 1])
  BY ReadingsBuilt DEF Readable
<1> HIDE DEF R
<1>2. PICK m \in Q : \A n \in Q : m <= n
  <2>1. Q \subseteq Nat
    OBVIOUS
  <2> HIDE DEF Q
  <2> QED
    BY <2>1, LeastOf
<1>3. m \in Nat /\ m # 0
  BY <1>1, <1>2
<1>4. m - 1 \in Nat /\ ~(m <= m - 1)
  BY <1>3
<1>5. \A c \in R[m - 1] : Parses(q, text, c)
  BY <1>2, <1>4
<1>6. PICK d \in Derive(q, text, R[m - 1]) : ~Parses(q, text, d)
  BY <1>1, <1>2, <1>3
<1> DEFINE D == R[m - 1]
<1>7. ByRule(q, text, D, d)
  BY <1>6, Rules
<1> HIDE DEF D
<1>8. \A c \in D : Parses(q, text, c)
  BY <1>5 DEF D
<1>9. Parses(q, text, d)
  BY <1>7, <1>8, WordParsed, NegationParsed, NestingParsed, NotIsAnd, AndIsOr, BothParsed, EitherParsed DEF ByRule
<1> QED
  BY <1>6, <1>9

\* How a query can be read does not depend on the text.
Alike(d, e) == e.kind = d.kind /\ e.from = d.from /\ e.to = d.to

LEMMA RulesAlike ==
    ASSUME NEW q, NEW text, NEW other, NEW D, NEW E, \A d \in D : \E e \in E : Alike(d, e),
           NEW d, ByRule(q, text, D, d)
    PROVE  \E e : ByRule(q, other, E, e) /\ Alike(d, e)
<1>1. ASSUME NEW i \in 1 .. Len(q), q[i] \in Words, d = Reading("not", i, i, q[i] \in text)
      PROVE  \E e : ByRule(q, other, E, e) /\ Alike(d, e)
  <2> DEFINE e == Reading("not", i, i, q[i] \in other)
  <2>1. Alike(d, e)
    BY <1>1 DEF Alike, Reading
  <2>2. ByRule(q, other, E, e)
    BY <1>1 DEF ByRule
  <2> QED
    BY <2>1, <2>2
<1>2. ASSUME NEW c \in D, c.kind = "not", Before(q, c) = "NOT", d = Reading("not", c.from - 1, c.to, ~c.value)
      PROVE  \E e : ByRule(q, other, E, e) /\ Alike(d, e)
  <2>1. PICK b \in E : Alike(c, b)
    OBVIOUS
  <2> DEFINE e == Reading("not", b.from - 1, b.to, ~b.value)
  <2>2. Alike(d, e)
    BY <1>2, <2>1 DEF Alike, Reading
  <2>3. b.kind = "not" /\ Before(q, b) = "NOT"
    BY <1>2, <2>1 DEF Alike, Before
  <2>4. ByRule(q, other, E, e)
    BY <2>3 DEF ByRule
  <2> QED
    BY <2>2, <2>4
<1>3. ASSUME NEW c \in D, c.kind = "or", Before(q, c) = "(", After(q, c) = ")",
             d = Reading("not", c.from - 1, c.to + 1, c.value)
      PROVE  \E e : ByRule(q, other, E, e) /\ Alike(d, e)
  <2>1. PICK b \in E : Alike(c, b)
    OBVIOUS
  <2> DEFINE e == Reading("not", b.from - 1, b.to + 1, b.value)
  <2>2. Alike(d, e)
    BY <1>3, <2>1 DEF Alike, Reading
  <2>3. b.kind = "or" /\ Before(q, b) = "(" /\ After(q, b) = ")"
    BY <1>3, <2>1 DEF Alike, Before, After
  <2>4. ByRule(q, other, E, e)
    BY <2>3 DEF ByRule
  <2> QED
    BY <2>2, <2>4
<1>4. ASSUME NEW c \in D, c.kind = "not", d = Reading("and", c.from, c.to, c.value)
      PROVE  \E e : ByRule(q, other, E, e) /\ Alike(d, e)
  <2>1. PICK b \in E : Alike(c, b)
    OBVIOUS
  <2> DEFINE e == Reading("and", b.from, b.to, b.value)
  <2>2. Alike(d, e)
    BY <1>4, <2>1 DEF Alike, Reading
  <2>3. ByRule(q, other, E, e)
    BY <1>4, <2>1 DEF ByRule, Alike
  <2> QED
    BY <2>2, <2>3
<1>5. ASSUME NEW c \in D, c.kind = "and", d = Reading("or", c.from, c.to, c.value)
      PROVE  \E e : ByRule(q, other, E, e) /\ Alike(d, e)
  <2>1. PICK b \in E : Alike(c, b)
    OBVIOUS
  <2> DEFINE e == Reading("or", b.from, b.to, b.value)
  <2>2. Alike(d, e)
    BY <1>5, <2>1 DEF Alike, Reading
  <2>3. ByRule(q, other, E, e)
    BY <1>5, <2>1 DEF ByRule, Alike
  <2> QED
    BY <2>2, <2>3
<1>6. ASSUME NEW x \in D, NEW y \in D, x.kind = "and", y.kind = "not", AndJoins(q, x, y),
             d = Reading("and", x.from, y.to, x.value /\ y.value)
      PROVE  \E e : ByRule(q, other, E, e) /\ Alike(d, e)
  <2>1. PICK a \in E : Alike(x, a)
    OBVIOUS
  <2>2. PICK b \in E : Alike(y, b)
    OBVIOUS
  <2> DEFINE e == Reading("and", a.from, b.to, a.value /\ b.value)
  <2>3. Alike(d, e)
    BY <1>6, <2>1, <2>2 DEF Alike, Reading
  <2>4. a.kind = "and" /\ b.kind = "not" /\ AndJoins(q, a, b)
    BY <1>6, <2>1, <2>2 DEF Alike, AndJoins, After
  <2>5. ByRule(q, other, E, e)
    BY <2>4 DEF ByRule
  <2> QED
    BY <2>3, <2>5
<1>7. ASSUME NEW x \in D, NEW y \in D, x.kind = "or", y.kind = "and", OrJoins(q, x, y),
             d = Reading("or", x.from, y.to, x.value \/ y.value)
      PROVE  \E e : ByRule(q, other, E, e) /\ Alike(d, e)
  <2>1. PICK a \in E : Alike(x, a)
    OBVIOUS
  <2>2. PICK b \in E : Alike(y, b)
    OBVIOUS
  <2> DEFINE e == Reading("or", a.from, b.to, a.value \/ b.value)
  <2>3. Alike(d, e)
    BY <1>7, <2>1, <2>2 DEF Alike, Reading
  <2>4. a.kind = "or" /\ b.kind = "and" /\ OrJoins(q, a, b)
    BY <1>7, <2>1, <2>2 DEF Alike, OrJoins, After
  <2>5. ByRule(q, other, E, e)
    BY <2>4 DEF ByRule
  <2> QED
    BY <2>3, <2>5
<1>8. CASE d \in D
  BY <1>8 DEF ByRule
<1> QED
  BY <1>1, <1>2, <1>3, <1>4, <1>5, <1>6, <1>7, <1>8 DEF ByRule

LEMMA ReadingsAlike ==
    ASSUME NEW q \in Seq(Tokens), NEW text, NEW other, NEW k \in Nat
    PROVE  \A d \in Readings(q, text)[k] : \E e \in Readings(q, other)[k] : Alike(d, e)
<1> DEFINE R == Readings(q, text)
           O == Readings(q, other)
           Q == {n \in Nat : ~\A d \in R[n] : \E e \in O[n] : Alike(d, e)}
<1> SUFFICES ASSUME k \in Q PROVE FALSE
  OBVIOUS
<1>1. /\ R[0] = {} /\ \A n \in Nat : n # 0 => R[n] = Derive(q, text, R[n - 1])
      /\ \A n \in Nat : n # 0 => O[n] = Derive(q, other, O[n - 1])
  BY ReadingsBuilt
<1> HIDE DEF R, O
<1>2. PICK m \in Q : \A n \in Q : m <= n
  <2>1. Q \subseteq Nat
    OBVIOUS
  <2> HIDE DEF Q
  <2> QED
    BY <2>1, LeastOf
<1>3. m \in Nat /\ m # 0
  BY <1>1, <1>2
<1>4. m - 1 \in Nat /\ ~(m <= m - 1)
  BY <1>3
<1> DEFINE D == R[m - 1]
           E == O[m - 1]
<1>5. \A d \in D : \E e \in E : Alike(d, e)
  BY <1>2, <1>4
<1>6. PICK d \in Derive(q, text, D) : ~\E e \in Derive(q, other, E) : Alike(d, e)
  BY <1>1, <1>2, <1>3
<1> HIDE DEF D, E
<1>7. PICK e : ByRule(q, other, E, e) /\ Alike(d, e)
  <2>1. ByRule(q, text, D, d)
    BY <1>6, Rules
  <2> QED
    BY <1>5, <2>1, RulesAlike
<1> QED
  BY <1>6, <1>7, Rules

\* What a query means for one text, it means something for each.
LEMMA MeaningForAll ==
    ASSUME NEW q \in Seq(Tokens), NEW text, NEW other, Meaning(q, text) # {}
    PROVE  Meaning(q, other) # {}
<1>1. CASE q = <<>>
  BY <1>1 DEF Meaning
<1>2. CASE q # <<>>
  <2> DEFINE n == 2 * Len(q) + 1
  <2>1. n \in Nat
    OBVIOUS
  <2>2. PICK d \in Readings(q, text)[n] : d.kind = "or" /\ d.from = 1 /\ d.to = Len(q)
    BY <1>2 DEF Meaning
  <2>3. PICK e \in Readings(q, other)[n] : Alike(d, e)
    BY <2>1, <2>2, ReadingsAlike
  <2>4. e.kind = "or" /\ e.from = 1 /\ e.to = Len(q)
    BY <2>2, <2>3 DEF Alike
  <2>5. e.value \in Meaning(q, other)
    BY <1>2, <2>4 DEF Meaning
  <2> QED
    BY <2>5
<1> QED
  BY <1>1, <1>2

\* The parser accepts what the grammar reads, unless it is nested too deep, and
\* its tree has the value of that reading.
LEMMA ParsedAsMeant ==
    ASSUME NEW q, NEW text, Readable(q, text), NEW v \in Meaning(q, text)
    PROVE  IF Parse(q).ok THEN Evaluate[Parse(q).ast][text] = v ELSE MaxDepth < Nesting(q)
<1>0. q \in Seq(Tokens) /\ Len(q) \in Nat /\ text \in SUBSET STRING
  <2>1. q \in Seq(Tokens) /\ text \in SUBSET STRING
    BY DEF Readable
  <2>2. Len(q) \in Nat
    BY <2>1, LenProperties
  <2> QED
    BY <2>1, <2>2
<1>1. CASE q = <<>>
  <2>1. Parse(q).ok /\ Parse(q).ast = <<"ALL">> /\ v = TRUE
    BY <1>1 DEF Parse, Part, Meaning
  <2> QED
    BY <1>0, <2>1, AllValue
<1>2. CASE q # <<>>
  <2> DEFINE n == 2 * Len(q) + 1
             k == MaxDepth + 1
             nots == NotParts(q)[k]
             x == OrPart(q, nots, 1)
  <2>1. n \in Nat /\ k \in Nat
    BY <1>0, DepthAssumption
  <2>2. PICK d \in Readings(q, text)[n] : d.kind = "or" /\ d.from = 1 /\ d.to = Len(q) /\ d.value = v
    BY <1>2 DEF Meaning
  <2>3. Parses(q, text, d)
    BY <2>1, <2>2, ReadingsParsed
  <2>4. Peek(q, Len(q) + 1) = End
    BY <1>0 DEF Peek
  <2>5. PICK i \in Nat : IsRead(q, text, k, d, OrReads(q, nots, 1)[i])
    BY <2>1, <2>2, <2>3, <2>4 DEF Parses, OrRead, After
  <2>6. Legible(q, nots) /\ 1 \in Places(q)
    BY <1>0, <2>1, NotPartsBuilt DEF Places
  <2> HIDE DEF nots, k
  <2>7. OrStops(q, OrReads(q, nots, 1)[i])
    <3> DEFINE z == OrReads(q, nots, 1)[i]
    <3>1. z.ok => Peek(q, z.at) # "OR"
      BY <2>2, <2>4, <2>5 DEF IsRead, End
    <3> QED
      BY <3>1 DEF OrStops
  <2>8. IsRead(q, text, k, d, x)
    BY <2>5, <2>6, <2>7, OrPartReads
  <2>9. Parse(q) = IF x.ok /\ x.at = Len(q) + 1 THEN x ELSE Bad
    BY <1>2 DEF Parse, nots, k
  <2> HIDE DEF x
  <2>10. CASE x.ok
    BY <2>2, <2>8, <2>9, <2>10 DEF IsRead
  <2>11. CASE ~x.ok
    <3>1. k <= Nesting(q)
      BY <2>2, <2>8, <2>11 DEF IsRead, Nest, Nesting
    <3>2. Nesting(q) \in Nat
      BY <1>0, NestingType
    <3>3. MaxDepth < Nesting(q)
      BY <3>1, <3>2, DepthAssumption DEF k
    <3> QED
      BY <2>9, <2>11, <3>3 DEF Bad
  <2> QED
    BY <2>10, <2>11
<1> QED
  BY <1>1, <1>2

\* The evaluation of a query that is accepted says what the language means by it.
LEMMA Literal ==
    ASSUME NEW q \in Seq(Tokens), Len(q) <= MaxHeight, Accepts(q), Meaning(q, {}) # {},
           NEW text \in SUBSET STRING
    PROVE  Meaning(q, text) = {Matches(q, text)}
<1>1. Meaning(q, text) # {}
  BY MeaningForAll
<1>2. Readable(q, text)
  BY DEF Readable
<1>3. ASSUME NEW v \in Meaning(q, text) PROVE v = Matches(q, text)
  BY <1>2, <1>3, ParsedAsMeant DEF Accepts, Matches
<1> QED
  BY <1>1, <1>3

-----------------------------------------------------------------------------
(* What ingest does: the inductive invariant.                              *)

\* Only a query that parses is saved and judged by.
Saved ==
    /\ profile # NoProfile => Accepts(profile)
    /\ \A p \in Procs : run[p].asked # NoProfile => Accepts(run[p].asked)

Held(p) == run[p].pc \in {"offer", "notify"}

\* A process has a row while it offers it or alerts the user of it, has it for
\* itself, and judges it by the profile that the row was marked with.
Handling ==
    \A p \in Procs :
       /\ ~Held(p) => run[p].id = 0
       /\ Held(p) => /\ run[p].id \in Ids
                     /\ jobs[run[p].id].by = "nobody"
                     /\ jobs[run[p].id].asked = run[p].asked
                     /\ \A o \in Procs \ {p} : run[o].id # run[p].id

OnOffer(i) == \E p \in Procs : run[p].id = i /\ run[p].pc = "offer"

Low(i) == TooLow(jobs[i].posting)

\* A row's offer is made as its process leaves it, and never again.
OfferIsRight(i) ==
    /\ OnOffer(i) => ~jobs[i].offered /\ ~jobs[i].lost
    /\ InLanguage(jobs[i].asked) /\ ~OnOffer(i)
          => (jobs[i].offered <=> Wanted(i) /\ ~jobs[i].lost)
    /\ jobs[i].by = "score" => Low(i)

Offers == \A i \in Ids : OfferIsRight(i)

Alone == \A o, p \in Procs : run[o].pc # "idle" /\ run[p].pc # "idle" => o = p

\* On view, or about to be: the process at work on a row may put it on view again.
OnView(i) == jobs[i].status # "archived" \/ \E p \in Procs : run[p].id = i

Reposts(i, j) == Facts(i).like = Facts(j).like /\ ~jobs[i].dup /\ ~jobs[j].dup

Kinds ==
    ~history.overlap =>
       /\ Alone
       /\ ~history.restored => \A i, j \in Ids : Reposts(i, j) /\ OnView(i) /\ OnView(j) => i = j

Untouched == ~history.hasty => \A p \in Procs : Held(p) => jobs[run[p].id].status # "archived"

Inv == TypeOK /\ Saved /\ Handling /\ Offers /\ Kinds /\ Untouched

-----------------------------------------------------------------------------
(* Data                                                                    *)

LEMMA IdleRun == Idle \in Run /\ Idle.pc = "idle" /\ Idle.id = 0 /\ Idle.asked = NoProfile
  BY DEF Idle, Run, Profiles

\* What is known of a job, whose posting is one of the world's.
LEMMA JobFacts ==
    ASSUME TypeOK, NEW i \in Ids
    PROVE  /\ jobs[i] \in Job /\ Facts(i) \in Fact /\ jobs[i].posting \in Postings
           /\ Facts(i).words \in Texts /\ Len(jobs) \in Nat
<1>1. jobs[i] \in Job /\ Len(jobs) \in Nat
  BY ElementOfSeq, LenProperties DEF TypeOK, Ids
<1>2. jobs[i].posting \in Postings
  BY <1>1 DEF Job
<1>3. world \in Worlds /\ world.facts \in [Postings -> Fact]
  BY WorldsAssumption DEF TypeOK
<1> QED
  BY <1>1, <1>2, <1>3 DEF Facts, Texts

\* A change of one field of one row.
LEMMA RowChanges ==
    ASSUME NEW rs \in Seq(Job), NEW i \in 1 .. Len(rs), NEW new \in Job,
           NEW rs2, rs2 = [rs EXCEPT ![i] = new]
    PROVE  /\ rs2 \in Seq(Job) /\ Len(rs2) = Len(rs)
           /\ rs2[i] = new /\ \A j \in 1 .. Len(rs) : j # i => rs2[j] = rs[j]
<1>1. /\ [rs EXCEPT ![i] = new] \in Seq(Job) /\ Len([rs EXCEPT ![i] = new]) = Len(rs)
      /\ \A j \in 1 .. Len(rs) : [rs EXCEPT ![i] = new][j] = IF j = i THEN new ELSE rs[j]
  BY ExceptSeq
<1> QED
  BY <1>1

\* The facts of a posting and the judgement on it, which no step rewrites.
Judgement(job) == <<job.posting, job.dup, job.by, job.asked>>

Moved(i, s) == [jobs EXCEPT ![i].status = s]

LEMMA StatusChanges ==
    ASSUME TypeOK, NEW i \in Ids, NEW s \in {"new", "notified", "archived"},
           jobs' = Moved(i, s)
    PROVE  /\ jobs' \in Seq(Job) /\ Ids' = Ids
           /\ \A j \in Ids : /\ Judgement(jobs'[j]) = Judgement(jobs[j])
                             /\ jobs'[j].offered = jobs[j].offered /\ jobs'[j].lost = jobs[j].lost
                             /\ jobs'[j].status = IF j = i THEN s ELSE jobs[j].status
<1> DEFINE new == [jobs[i] EXCEPT !.status = s]
<1>1. jobs \in Seq(Job) /\ jobs[i] \in Job
  BY JobFacts DEF TypeOK
<1>2. new \in Job /\ new.status = s /\ Judgement(new) = Judgement(jobs[i])
      /\ new.offered = jobs[i].offered /\ new.lost = jobs[i].lost
  BY <1>1 DEF Job, Judgement
<1>3. jobs' = [jobs EXCEPT ![i] = new]
  BY DEF Moved
<1> HIDE DEF new
<1>4. jobs' \in Seq(Job) /\ Len(jobs') = Len(jobs) /\ jobs'[i] = new
      /\ \A j \in 1 .. Len(jobs) : j # i => jobs'[j] = jobs[j]
  BY <1>1, <1>2, <1>3, RowChanges DEF Ids
<1> QED
  BY <1>2, <1>4 DEF Ids

\* A row that was handed to generation, and one that could not be.
Given(i) == [jobs EXCEPT ![i].offered = TRUE]
Gone(i) == [jobs EXCEPT ![i].lost = TRUE]

LEMMA OfferChanges ==
    ASSUME TypeOK, NEW i \in Ids,
           jobs' \in {Given(i), Gone(i), jobs}
    PROVE  /\ jobs' \in Seq(Job) /\ Ids' = Ids
           /\ \A j \in Ids : /\ Judgement(jobs'[j]) = Judgement(jobs[j])
                             /\ jobs'[j].status = jobs[j].status
                             /\ j # i => jobs'[j] = jobs[j]
           /\ jobs' = Given(i) => jobs'[i].offered /\ jobs'[i].lost = jobs[i].lost
           /\ jobs' = Gone(i) => jobs'[i].lost /\ jobs'[i].offered = jobs[i].offered
<1> DEFINE given == [jobs[i] EXCEPT !.offered = TRUE]
           gone  == [jobs[i] EXCEPT !.lost = TRUE]
<1>1. jobs \in Seq(Job) /\ jobs[i] \in Job
  BY JobFacts DEF TypeOK
<1>2. /\ given \in Job /\ given.offered /\ given.lost = jobs[i].lost
      /\ gone \in Job /\ gone.lost /\ gone.offered = jobs[i].offered
      /\ Judgement(given) = Judgement(jobs[i]) /\ given.status = jobs[i].status
      /\ Judgement(gone) = Judgement(jobs[i]) /\ gone.status = jobs[i].status
  BY <1>1 DEF Job, Judgement
<1>3. Given(i) = [jobs EXCEPT ![i] = given] /\ Gone(i) = [jobs EXCEPT ![i] = gone]
  BY DEF Given, Gone
<1> HIDE DEF given, gone
<1>4. ASSUME NEW new \in {given, gone}, jobs' = [jobs EXCEPT ![i] = new]
      PROVE  /\ jobs' \in Seq(Job) /\ Len(jobs') = Len(jobs) /\ jobs'[i] = new
             /\ \A j \in 1 .. Len(jobs) : j # i => jobs'[j] = jobs[j]
  BY <1>1, <1>2, <1>4, RowChanges DEF Ids
<1>5. ASSUME jobs' = Given(i)
      PROVE  jobs' = [jobs EXCEPT ![i] = given] /\ jobs'[i] = given
  BY <1>3, <1>4, <1>5
<1>6. ASSUME jobs' = Gone(i)
      PROVE  jobs' = [jobs EXCEPT ![i] = gone] /\ jobs'[i] = gone
  BY <1>3, <1>4, <1>6
<1>7. /\ jobs' \in Seq(Job) /\ Len(jobs') = Len(jobs)
      /\ jobs'[i] \in {jobs[i], given, gone}
      /\ \A j \in 1 .. Len(jobs) : j # i => jobs'[j] = jobs[j]
  <2>1. CASE jobs' = jobs
    BY <1>1, <2>1
  <2>2. CASE jobs' # jobs
    BY <1>3, <1>4, <2>2
  <2> QED
    BY <2>1, <2>2
<1>8. \A j \in Ids : /\ Judgement(jobs'[j]) = Judgement(jobs[j])
                     /\ jobs'[j].status = jobs[j].status
                     /\ j # i => jobs'[j] = jobs[j]
  BY <1>2, <1>7 DEF Ids
<1> QED
  BY <1>2, <1>5, <1>6, <1>7, <1>8 DEF Ids

\* Rows with the same judgement are alike in all that the properties ask of them.
LEMMA SameJudgement ==
    ASSUME NEW i, world' = world, Judgement(jobs'[i]) = Judgement(jobs[i])
    PROVE  /\ jobs'[i].posting = jobs[i].posting /\ jobs'[i].dup = jobs[i].dup
           /\ jobs'[i].by = jobs[i].by /\ jobs'[i].asked = jobs[i].asked
           /\ Facts(i)' = Facts(i) /\ Wanted(i)' = Wanted(i)
           /\ Low(i)' = Low(i)
<1>1. /\ jobs'[i].posting = jobs[i].posting /\ jobs'[i].dup = jobs[i].dup
      /\ jobs'[i].by = jobs[i].by /\ jobs'[i].asked = jobs[i].asked
  BY DEF Judgement
<1>2. Facts(i)' = Facts(i)
  BY <1>1 DEF Facts
<1>3. Low(i)' = Low(i)
  BY <1>1 DEF Low, TooLow
<1>4. Wanted(i)' = Wanted(i)
  BY <1>1, <1>2 DEF Wanted
<1> QED
  BY <1>1, <1>2, <1>3, <1>4

\* A process that is done with its posting.
LEMMA Continues ==
    ASSUME TypeOK, NEW p \in Procs, Continue(p)
    PROVE  /\ run' \in [Procs -> Run]
           /\ run'[p].pc = "next" /\ run'[p].id = 0 /\ run'[p].asked = run[p].asked
           /\ \A o \in Procs : o # p => run'[o] = run[o]
<1> DEFINE stepped == [run[p] EXCEPT !.pc = "next"]
           bare    == [stepped EXCEPT !.id = 0]
           free    == [bare EXCEPT !.item = {}]
<1>1. run \in [Procs -> Run] /\ run[p] \in Run
  BY DEF TypeOK
<1>2. stepped \in Run /\ stepped.pc = "next" /\ stepped.asked = run[p].asked
  BY <1>1 DEF Run
<1> HIDE DEF stepped
<1>3. bare \in Run /\ bare.pc = "next" /\ bare.asked = run[p].asked /\ bare.id = 0
  BY <1>2 DEF Run
<1> HIDE DEF bare
<1>4. free \in Run /\ free.pc = "next" /\ free.asked = run[p].asked /\ free.id = 0
  BY <1>3 DEF Run
<1>5. run' = [run EXCEPT ![p] = free]
  BY DEF Continue, free, bare, stepped
<1> HIDE DEF free
<1> QED
  BY <1>1, <1>4, <1>5

LEMMA Goes ==
    ASSUME TypeOK, NEW p \in Procs, NEW pc \in {"insert", "decide", "offer", "notify"}, Goto(p, pc)
    PROVE  /\ run' \in [Procs -> Run]
           /\ run'[p].pc = pc /\ run'[p].id = run[p].id /\ run'[p].asked = run[p].asked
           /\ \A o \in Procs : o # p => run'[o] = run[o]
<1>1. run \in [Procs -> Run] /\ run[p] \in Run
  BY DEF TypeOK
<1> QED
  BY <1>1 DEF Goto, Run

\* A process that has committed a row it goes on with.
LEMMA Holds ==
    ASSUME TypeOK, NEW p \in Procs, NEW i \in Nat,
           run' = [run EXCEPT ![p].pc = "offer", ![p].id = i, ![p].item = {}]
    PROVE  /\ run' \in [Procs -> Run]
           /\ run'[p].pc = "offer" /\ run'[p].id = i /\ run'[p].asked = run[p].asked
           /\ \A o \in Procs : o # p => run'[o] = run[o]
<1> DEFINE stepped == [run[p] EXCEPT !.pc = "offer"]
           laden   == [stepped EXCEPT !.id = i]
           free    == [laden EXCEPT !.item = {}]
<1>1. run \in [Procs -> Run] /\ run[p] \in Run
  BY DEF TypeOK
<1>2. stepped \in Run /\ stepped.pc = "offer" /\ stepped.asked = run[p].asked
  BY <1>1 DEF Run
<1> HIDE DEF stepped
<1>3. laden \in Run /\ laden.pc = "offer" /\ laden.asked = run[p].asked /\ laden.id = i
  BY <1>2 DEF Run
<1> HIDE DEF laden
<1>4. free \in Run /\ free.pc = "offer" /\ free.asked = run[p].asked /\ free.id = i
  BY <1>3 DEF Run
<1>5. run' = [run EXCEPT ![p] = free]
  BY DEF free, laden, stepped
<1> HIDE DEF free
<1> QED
  BY <1>1, <1>4, <1>5

\* A process that begins: with a batch, and the profile as it is.
LEMMA Begins ==
    ASSUME TypeOK, NEW p \in Procs, NEW batch \in SUBSET Postings, Begin(p, batch)
    PROVE  /\ run' \in [Procs -> Run]
           /\ run[p].pc = "idle" /\ run'[p].pc = "next" /\ run'[p].id = 0
           /\ run'[p].asked = profile
           /\ \A o \in Procs : o # p => run'[o] = run[o]
<1> DEFINE stepped == [Idle EXCEPT !.pc = "next"]
           laden   == [stepped EXCEPT !.todo = batch]
           asking  == [laden EXCEPT !.asked = profile]
<1>1. run \in [Procs -> Run] /\ run[p] = Idle
  BY DEF TypeOK, Begin
<1>2. profile \in Profiles
  BY WorldsAssumption DEF TypeOK, Profiles
<1>3. stepped \in Run /\ stepped.pc = "next" /\ stepped.id = 0
  BY IdleRun DEF Run
<1> HIDE DEF stepped
<1>4. laden \in Run /\ laden.pc = "next" /\ laden.id = 0
  BY <1>3 DEF Run
<1> HIDE DEF laden
<1>5. asking \in Run /\ asking.pc = "next" /\ asking.id = 0 /\ asking.asked = profile
  BY <1>2, <1>4 DEF Run
<1>6. run' = [run EXCEPT ![p] = asking]
  BY DEF Begin, asking, laden, stepped
<1> HIDE DEF asking
<1> QED
  BY <1>1, <1>5, <1>6, IdleRun

-----------------------------------------------------------------------------
(* What a step of one process leaves alone                                 *)

LEMMA HandlingKept ==
    ASSUME Handling, NEW p \in Procs, Ids' = Ids,
           \A j \in Ids : Judgement(jobs'[j]) = Judgement(jobs[j]),
           \A o \in Procs : o # p => run'[o] = run[o],
           Held(p)' => Held(p) /\ run'[p].id = run[p].id /\ run'[p].asked = run[p].asked,
           ~Held(p)' => run'[p].id = 0,
           0 \notin Ids
    PROVE  Handling'
<1>1. \A j \in Ids : jobs'[j].by = jobs[j].by /\ jobs'[j].asked = jobs[j].asked
  BY DEF Judgement
<1>2. \A o \in Procs : o # p => (Held(o)' <=> Held(o))
  BY DEF Held
<1>3. \A o \in Procs : run'[o].id \in {0, run[o].id}
  BY DEF Handling
<1>4. ASSUME NEW o \in Procs
      PROVE  ~Held(o)' => run'[o].id = 0
  BY <1>2, <1>4 DEF Handling
<1>5. ASSUME NEW o \in Procs, Held(o)'
      PROVE  /\ run'[o].id = run[o].id /\ run'[o].asked = run[o].asked /\ Held(o)
             /\ run[o].id \in Ids
  BY <1>2, <1>5 DEF Handling
<1>6. ASSUME NEW o \in Procs, Held(o)'
      PROVE  /\ run'[o].id \in Ids'
             /\ jobs'[run'[o].id].by = "nobody"
             /\ jobs'[run'[o].id].asked = run'[o].asked
  BY <1>1, <1>5, <1>6 DEF Handling
<1>7. ASSUME NEW o \in Procs, Held(o)', NEW q \in Procs \ {o}
      PROVE  run'[q].id # run'[o].id
  <2>1. run'[o].id = run[o].id /\ run[o].id # 0 /\ run[q].id # run[o].id
    BY <1>5, <1>7 DEF Handling
  <2> QED
    BY <1>3, <2>1
<1> QED
  BY <1>4, <1>6, <1>7 DEF Handling

\* A row that the step does not touch, and whose process it is not.
LEMMA OfferKept ==
    ASSUME world' = world
    PROVE  \A i : /\ OfferIsRight(i)
                  /\ Judgement(jobs'[i]) = Judgement(jobs[i])
                  /\ jobs'[i].offered = jobs[i].offered /\ jobs'[i].lost = jobs[i].lost
                  /\ (OnOffer(i)' <=> OnOffer(i))
                  => OfferIsRight(i)'
<1> SUFFICES ASSUME NEW i, OfferIsRight(i),
                    Judgement(jobs'[i]) = Judgement(jobs[i]),
                    jobs'[i].offered = jobs[i].offered, jobs'[i].lost = jobs[i].lost,
                    OnOffer(i)' <=> OnOffer(i)
             PROVE  OfferIsRight(i)'
  OBVIOUS
<1>1. /\ jobs'[i].by = jobs[i].by /\ jobs'[i].asked = jobs[i].asked
      /\ Wanted(i)' = Wanted(i) /\ Low(i)' = Low(i)
  BY SameJudgement
<1>2. InLanguage(jobs'[i].asked) = InLanguage(jobs[i].asked)
  BY <1>1
<1> QED
  BY <1>1, <1>2 DEF OfferIsRight

LEMMA KindsKept ==
    ASSUME Kinds, world' = world, Ids' = Ids,
           \A j \in Ids : Judgement(jobs'[j]) = Judgement(jobs[j]),
           \A j \in Ids : OnView(j)' => OnView(j),
           ~history'.overlap => ~history.overlap /\ Alone',
           ~history'.restored => ~history.restored
    PROVE  Kinds'
<1>1. \A j \in Ids : Facts(j)' = Facts(j) /\ jobs'[j].dup = jobs[j].dup
  BY SameJudgement
<1>2. \A i, j \in Ids : Reposts(i, j)' => Reposts(i, j)
  BY <1>1 DEF Reposts
<1> QED
  BY <1>2 DEF Kinds

LEMMA NoRowZero == TypeOK => 0 \notin Ids /\ Len(jobs) \in Nat
  BY LenProperties DEF TypeOK, Ids

\* A step of a process that has no row, and gets none.
LEMMA LightStep ==
    ASSUME Inv, NEW p \in Procs, TypeOK', world' = world, jobs' = jobs,
           \A o \in Procs : o # p => run'[o] = run[o],
           ~Held(p), ~Held(p)', run'[p].id = 0,
           run'[p].asked # NoProfile => Accepts(run'[p].asked),
           profile' = profile,
           history'.hasty = history.hasty, history'.restored = history.restored,
           ~history'.overlap => ~history.overlap /\ Alone'
    PROVE  Inv'
<1>1. Ids' = Ids /\ \A o \in Procs : run'[o].id = run[o].id
  BY DEF Ids, Inv, Handling
<1>2. Saved'
  BY DEF Inv, Saved
<1>3. Handling'
  BY <1>1, NoRowZero, HandlingKept DEF Inv
<1>4. \A o \in Procs : (run'[o].pc = "offer" <=> run[o].pc = "offer")
  BY DEF Held
<1>5. Offers'
  <2>1. ASSUME NEW i \in Ids PROVE OnOffer(i)' <=> OnOffer(i)
    BY <1>1, <1>4 DEF OnOffer
  <2>2. ASSUME NEW i \in Ids PROVE OfferIsRight(i)'
    BY <2>1, <2>2, OfferKept DEF Inv, Offers
  <2> QED
    BY <1>1, <2>2 DEF Offers
<1>6. Kinds'
  <2>1. \A j \in Ids : OnView(j)' => OnView(j)
    BY <1>1 DEF OnView
  <2> QED
    BY <1>1, <2>1, KindsKept DEF Inv
<1>7. Untouched'
  <2>1. \A o \in Procs : Held(o)' => Held(o)
    BY DEF Held
  <2> QED
    BY <1>1, <2>1 DEF Inv, Untouched
<1> QED
  BY <1>2, <1>3, <1>5, <1>6, <1>7 DEF Inv

\* A step of a process with its row, which it may let go.
LEMMA HeldStep ==
    ASSUME Inv, NEW p \in Procs, TypeOK', world' = world, profile' = profile, history' = history,
           Held(p), NEW i \in Ids, run[p].id = i,
           jobs' \in Seq(Job), Ids' = Ids,
           \A j \in Ids : Judgement(jobs'[j]) = Judgement(jobs[j]),
           \A j \in Ids : j # i => /\ jobs'[j].offered = jobs[j].offered
                                           /\ jobs'[j].lost = jobs[j].lost
                                           /\ jobs'[j].status = jobs[j].status,
           \A o \in Procs : o # p => run'[o] = run[o],
           run'[p].asked # NoProfile => run'[p].asked = run[p].asked,
           Held(p)' => /\ run'[p].pc = "notify" /\ run'[p].id = i
                       /\ run'[p].asked = run[p].asked
                       /\ jobs'[i].status = jobs[i].status,
           ~Held(p)' => run'[p].id = 0,
           OfferIsRight(i)'
    PROVE  Inv'
<1>1. Saved'
  BY DEF Inv, Saved
<1>2. Handling'
  BY NoRowZero, HandlingKept DEF Inv
<1>3. run[p].id \in Ids /\ \A o \in Procs : o # p => run[o].id # run[p].id
  BY DEF Inv, Handling
<1>4. Offers'
  <2>1. ASSUME NEW j \in Ids, j # i PROVE OfferIsRight(j)'
    <3>1. run'[p].id # j
      BY <2>1, NoRowZero DEF Inv
    <3>2. OnOffer(j)' <=> OnOffer(j)
      BY <2>1, <3>1 DEF OnOffer
    <3>3. /\ OfferIsRight(j) /\ Judgement(jobs'[j]) = Judgement(jobs[j])
          /\ jobs'[j].offered = jobs[j].offered /\ jobs'[j].lost = jobs[j].lost
      BY <2>1 DEF Inv, Offers
    <3> QED
      BY <3>2, <3>3, OfferKept
  <2> QED
    BY <2>1 DEF Offers
<1>5. Kinds'
  <2>1. \A j \in Ids : OnView(j)' => OnView(j)
    <3>1. ASSUME NEW j \in Ids, j # i, OnView(j)' PROVE OnView(j)
      <4>1. run'[p].id # j
        BY <3>1, NoRowZero DEF Inv
      <4> QED
        BY <3>1, <4>1 DEF OnView
    <3> QED
      BY <3>1 DEF OnView
  <2>2. ~history.overlap => Alone'
    <3>1. \A o \in Procs : run'[o].pc # "idle" => run[o].pc # "idle"
      BY DEF Held
    <3> QED
      BY <3>1 DEF Inv, Kinds, Alone
  <2> QED
    BY <2>1, <2>2, KindsKept DEF Inv
<1>6. Untouched'
  <2>1. ASSUME NEW o \in Procs, Held(o)', ~history.hasty
        PROVE  jobs'[run'[o].id].status # "archived"
    <3>1. Held(o) /\ run'[o].id = run[o].id /\ run[o].id \in Ids
      BY <2>1 DEF Held, Inv, Handling
    <3>2. jobs'[run[o].id].status = jobs[run[o].id].status
      BY <1>3, <2>1, <3>1
    <3> QED
      BY <2>1, <3>1, <3>2 DEF Inv, Untouched
  <2> QED
    BY <2>1 DEF Untouched
<1> QED
  BY <1>1, <1>2, <1>4, <1>5, <1>6 DEF Inv

-----------------------------------------------------------------------------
(* The steps                                                               *)

LEMMA InvInit == ASSUME Init PROVE Inv
<1>1. TypeOK
  BY IdleRun, EmptySeq, WorldsAssumption DEF Init, TypeOK
<1>2. Ids = {} /\ \A p \in Procs : run[p] = Idle
  BY EmptySeq DEF Init, Ids
<1>3. Saved
  BY <1>2, IdleRun DEF Init, Saved
<1> QED
  BY <1>1, <1>2, <1>3, IdleRun DEF Inv, Handling, Held, Offers, Kinds, Alone, Untouched

\* The user's queries, and the pacing lock.
LEMMA AsideStep ==
    ASSUME Inv, TypeOK', UNCHANGED <<world, jobs, run>>,
           profile' # NoProfile => Accepts(profile') \/ profile' = profile,
           history'.hasty = history.hasty, history'.restored = history.restored,
           history'.overlap = history.overlap
    PROVE  Inv'
<1>1. Saved'
  BY DEF Inv, Saved
<1>2. Handling' /\ Untouched'
  BY DEF Inv, Handling, Untouched, Held, Ids
<1>3. Offers'
  <2>1. ASSUME NEW i \in Ids PROVE OfferIsRight(i)'
    <3>1. OfferIsRight(i) /\ (OnOffer(i)' <=> OnOffer(i))
      BY <2>1 DEF Inv, Offers, OnOffer
    <3> QED
      BY <3>1, OfferKept
  <2> QED
    BY <2>1 DEF Offers, Ids
<1>4. Kinds'
  BY DEF Inv, Kinds, Alone, Ids, Reposts, Facts, OnView
<1> QED
  BY <1>1, <1>2, <1>3, <1>4 DEF Inv

LEMMA TypingStep ==
    ASSUME Inv, NEW q \in Queries[world.typist], ValidateQuery(q) \/ SaveProfile(q)
    PROVE  Inv'
<1>1. history' = [history EXCEPT !.typed = @ + 1] /\ typed' = q /\ UNCHANGED <<world, slot, jobs, run>>
  BY DEF ValidateQuery, SaveProfile, Type
<1>2. TypeOK'
  BY <1>1 DEF Inv, TypeOK, ValidateQuery, SaveProfile
<1>3. /\ history'.hasty = history.hasty /\ history'.restored = history.restored
      /\ history'.overlap = history.overlap
  BY <1>1 DEF Inv, TypeOK
<1>4. profile' = profile \/ Accepts(profile')
  BY DEF ValidateQuery, SaveProfile
<1> QED
  BY <1>1, <1>2, <1>3, <1>4, AsideStep

LEMMA QuietStep == ASSUME Inv, DeleteProfile \/ SlotLapses \/ \E p \in Procs : SearchInVain(p) PROVE Inv'
<1>1. UNCHANGED <<world, typed, jobs, run, history>> /\ profile' \in {profile, NoProfile}
      /\ slot' \in BOOLEAN
  BY DEF DeleteProfile, SlotLapses, SearchInVain, Inv, TypeOK
<1>2. TypeOK'
  BY <1>1 DEF Inv, TypeOK
<1> QED
  BY <1>1, <1>2, AsideStep

LEMMA BeginStep ==
    ASSUME Inv, NEW p \in Procs, NEW batch \in SUBSET Postings, Begin(p, batch),
           UNCHANGED <<world, typed, profile, jobs>>, slot' \in BOOLEAN
    PROVE  Inv'
<1>1. /\ run' \in [Procs -> Run] /\ run[p].pc = "idle"
      /\ run'[p].pc = "next" /\ run'[p].id = 0 /\ run'[p].asked = profile
      /\ \A o \in Procs : o # p => run'[o] = run[o]
  BY Begins DEF Inv
<1>2. /\ history' \in [typed : Nat, moves : Nat, restored : BOOLEAN, hasty : BOOLEAN,
                       overlap : BOOLEAN]
      /\ history'.hasty = history.hasty /\ history'.restored = history.restored
      /\ history'.overlap = (history.overlap \/ Overlap(p))
  <2>1. history' = [history EXCEPT !.overlap = history.overlap \/ Overlap(p)]
    BY DEF Begin
  <2>2. (history.overlap \/ Overlap(p)) \in BOOLEAN
    BY DEF Inv, TypeOK
  <2> HIDE DEF Overlap
  <2> QED
    BY <2>1, <2>2 DEF Inv, TypeOK
<1>3. TypeOK'
  BY <1>1, <1>2 DEF Inv, TypeOK
<1>4. ~history'.overlap => ~history.overlap /\ Alone'
  BY <1>1, <1>2 DEF Overlap, Alone
<1>5. ~Held(p) /\ ~Held(p)'
  BY <1>1 DEF Held
<1>6. run'[p].asked # NoProfile => Accepts(run'[p].asked)
  BY <1>1 DEF Inv, Saved
<1> QED
  BY <1>1, <1>2, <1>3, <1>4, <1>5, <1>6, LightStep

LEMMA IngestBegins ==
    ASSUME Inv, NEW p \in Procs, IngestPosted(p) \/ DiscoverByBeat(p) \/ DiscoverNow(p)
    PROVE  Inv'
<1>1. CASE IngestPosted(p)
  BY <1>1, BeginStep DEF IngestPosted, Inv, TypeOK
<1>2. CASE DiscoverByBeat(p) \/ DiscoverNow(p)
  <2>1. PICK found \in Found(profile) \ {{}} : Begin(p, found)
    BY <1>2 DEF DiscoverByBeat, DiscoverNow, Discover
  <2>2. found \in SUBSET Postings
    BY <2>1 DEF Found
  <2>3. UNCHANGED <<world, typed, profile, jobs>> /\ slot' \in BOOLEAN
    BY <1>2 DEF DiscoverByBeat, DiscoverNow, Discover, AcquireSlot, Inv, TypeOK
  <2> QED
    BY <2>1, <2>2, <2>3, BeginStep
<1> QED
  BY <1>1, <1>2

\* Past what is a job already, or to a posting of one's own.
LEMMA TakeStep == ASSUME Inv, NEW p \in Procs, Take(p) \/ Insert(p) PROVE Inv'
<1>1. /\ run' \in [Procs -> Run]
      /\ run[p].pc \in {"next", "insert"}
      /\ run'[p].pc \in {"idle", "next", "insert", "decide"} /\ run'[p].id = 0
      /\ run'[p].asked \in {NoProfile, run[p].asked}
      /\ \A o \in Procs : o # p => run'[o] = run[o]
  <2>1. run \in [Procs -> Run] /\ run[p] \in Run /\ (~Held(p) => run[p].id = 0)
    BY DEF Inv, TypeOK, Handling
  <2>2. CASE Insert(p)
    <3>1. CASE Continue(p)
      BY <2>2, <3>1, Continues DEF Inv, Insert
    <3>2. CASE Goto(p, "decide")
      <4>1. run'[p].id = run[p].id /\ run[p].pc = "insert"
        BY <2>2, <3>2, Goes DEF Inv, Insert
      <4> QED
        BY <2>1, <3>2, <4>1, Goes DEF Inv, Held
    <3> QED
      BY <2>2, <3>1, <3>2 DEF Insert
  <2>3. CASE Take(p)
    <3>1. run[p].pc = "next" /\ run[p].id = 0
      BY <2>1, <2>3 DEF Take, Held
    <3>2. CASE run' = [run EXCEPT ![p] = Idle]
      BY <2>1, <3>1, <3>2, IdleRun
    <3>3. ASSUME NEW x \in run[p].todo, run' = [run EXCEPT ![p].todo = @ \ {x}]
          PROVE  run' \in [Procs -> Run] /\ run'[p].pc = "next" /\ run'[p].id = 0
                 /\ run'[p].asked = run[p].asked
                 /\ \A o \in Procs : o # p => run'[o] = run[o]
      BY <2>1, <3>1, <3>3 DEF Run
    <3>4. ASSUME NEW x \in run[p].todo,
                 run' = [run EXCEPT ![p].todo = @ \ {x}, ![p].item = {x}, ![p].pc = "insert"]
          PROVE  run' \in [Procs -> Run] /\ run'[p].pc = "insert" /\ run'[p].id = 0
                 /\ run'[p].asked = run[p].asked
                 /\ \A o \in Procs : o # p => run'[o] = run[o]
      <4> DEFINE less  == [run[p] EXCEPT !.todo = @ \ {x}]
                 laden == [less EXCEPT !.item = {x}]
                 moved == [laden EXCEPT !.pc = "insert"]
      <4>1. less \in Run /\ less.id = 0 /\ less.asked = run[p].asked /\ x \in Postings
        BY <2>1, <3>1 DEF Run
      <4> HIDE DEF less
      <4>2. laden \in Run /\ laden.id = 0 /\ laden.asked = run[p].asked
        BY <4>1 DEF Run
      <4> HIDE DEF laden
      <4>3. moved \in Run /\ moved.pc = "insert" /\ moved.id = 0 /\ moved.asked = run[p].asked
        BY <4>2 DEF Run
      <4>4. run' = [run EXCEPT ![p] = moved]
        BY <3>4 DEF moved, laden, less
      <4> HIDE DEF moved
      <4> QED
        BY <2>1, <4>3, <4>4
    <3> QED
      BY <2>3, <3>1, <3>2, <3>3, <3>4 DEF Take
  <2> QED
    BY <2>2, <2>3
<1>2. UNCHANGED <<world, typed, profile, slot, jobs, history>>
  BY DEF Take, Insert
<1>3. TypeOK'
  BY <1>1, <1>2 DEF Inv, TypeOK
<1>4. ~Held(p) /\ ~Held(p)'
  BY <1>1 DEF Held
<1>5. run'[p].asked # NoProfile => Accepts(run'[p].asked)
  BY <1>1 DEF Inv, Saved
<1>6. ~history'.overlap => ~history.overlap /\ Alone'
  BY <1>1, <1>2 DEF Inv, Kinds, Alone
<1> QED
  BY <1>1, <1>2, <1>3, <1>4, <1>5, <1>6, LightStep

\* The row that a posting becomes.
LEMMA RowIsJob ==
    ASSUME TypeOK, NEW p \in Procs, NEW x \in run[p].item
    PROVE  /\ x \in Postings /\ Row(p, x) \in Job
           /\ Row(p, x).posting = x /\ Row(p, x).dup = Duplicate(x) /\ Row(p, x).by = Verdict(x)
           /\ Row(p, x).asked = run[p].asked /\ ~Row(p, x).offered /\ ~Row(p, x).lost
           /\ (Verdict(x) = "nobody" => Row(p, x).status = "new")
           /\ (Verdict(x) = "score" => TooLow(x))
<1>1. run[p] \in Run /\ x \in Postings
  BY DEF TypeOK, Run
<1>2. Verdict(x) \in {"nobody", "negative", "score"} /\ (Verdict(x) = "score" => TooLow(x))
  BY DEF Verdict
<1>3. Duplicate(x) \in BOOLEAN /\ run[p].asked \in Profiles
  BY <1>1 DEF Duplicate, Run
<1> QED
  BY <1>1, <1>2, <1>3 DEF Row, Job

LEMMA DecideStep == ASSUME Inv, NEW p \in Procs, Decide(p) PROVE Inv'
<1>1. PICK x \in run[p].item :
         /\ run[p].pc = "decide" /\ jobs' = Append(jobs, Row(p, x))
         /\ IF Verdict(x) = "nobody"
            THEN run' = [run EXCEPT ![p].pc = "offer", ![p].id = Len(jobs'), ![p].item = {}]
            ELSE Continue(p)
         /\ UNCHANGED <<world, typed, profile, slot, history>>
  BY DEF Decide
<1> DEFINE row == Row(p, x)
           n   == Len(jobs) + 1
<1>2. /\ x \in Postings /\ row \in Job
      /\ row.posting = x /\ row.dup = Duplicate(x) /\ row.by = Verdict(x)
      /\ row.asked = run[p].asked /\ ~row.offered /\ ~row.lost
      /\ (Verdict(x) = "nobody" => row.status = "new") /\ (Verdict(x) = "score" => TooLow(x))
  BY RowIsJob DEF Inv
<1>3. jobs' = Append(jobs, row) /\ jobs \in Seq(Job) /\ Len(jobs) \in Nat /\ 0 \notin Ids
  BY <1>1, NoRowZero DEF Inv, TypeOK
<1> HIDE DEF row
<1>4. /\ jobs' \in Seq(Job) /\ Len(jobs') = n /\ n \in Nat /\ n # 0
      /\ \A j \in Ids : jobs'[j] = jobs[j]
      /\ jobs'[n] = row
  BY <1>2, <1>3, AppendProperties DEF Ids
<1>5. Ids' = Ids \cup {n} /\ n \notin Ids
  BY <1>3, <1>4 DEF Ids
<1> HIDE DEF n
<1>6. /\ run' \in [Procs -> Run] /\ run'[p].asked = run[p].asked
      /\ \A o \in Procs : o # p => run'[o] = run[o]
      /\ IF Verdict(x) = "nobody" THEN run'[p].pc = "offer" /\ run'[p].id = n
                                  ELSE run'[p].pc = "next" /\ run'[p].id = 0
  <2>1. CASE Verdict(x) = "nobody"
    <3>1. run' = [run EXCEPT ![p].pc = "offer", ![p].id = n, ![p].item = {}]
      BY <1>1, <1>4, <2>1
    <3>2. TypeOK /\ n \in Nat
      BY <1>4 DEF Inv
    <3> QED
      BY <2>1, <3>1, <3>2, Holds
  <2>2. CASE Verdict(x) # "nobody"
    <3>1. TypeOK /\ Continue(p)
      BY <1>1, <2>2 DEF Inv
    <3> QED
      BY <2>2, <3>1, Continues
  <2> QED
    BY <2>1, <2>2
<1>7. /\ ~Held(p) /\ run[p].id = 0 /\ (Held(p)' <=> Verdict(x) = "nobody")
      /\ run'[p].id \in {0, n} /\ \A o \in Procs : o # p => (Held(o)' <=> Held(o))
  BY <1>1, <1>6 DEF Held, Inv, Handling
<1>8. \A o \in Procs : run[o].id \in Ids \cup {0}
  BY DEF Inv, Handling
<1>9. TypeOK'
  BY <1>1, <1>4, <1>6 DEF Inv, TypeOK
<1>10. Saved'
  BY <1>1, <1>6 DEF Inv, Saved
<1>11. Handling'
  <2>1. ASSUME NEW o \in Procs PROVE ~Held(o)' => run'[o].id = 0
    BY <1>6, <1>7 DEF Inv, Handling
  <2>2. ASSUME NEW o \in Procs, Held(o)', o # p
        PROVE  /\ run'[o].id \in Ids' /\ jobs'[run'[o].id].by = "nobody"
               /\ jobs'[run'[o].id].asked = run'[o].asked
               /\ \A q \in Procs \ {o} : run'[q].id # run'[o].id
    <3>1. /\ Held(o) /\ run'[o] = run[o] /\ run[o].id \in Ids /\ run[o].id # n /\ run[o].id # 0
          /\ jobs'[run[o].id] = jobs[run[o].id]
      BY <1>3, <1>4, <1>5, <1>6, <1>7, <2>2 DEF Inv, Handling
    <3>2. /\ jobs[run[o].id].by = "nobody" /\ jobs[run[o].id].asked = run[o].asked
          /\ \A q \in Procs \ {o} : run[q].id # run[o].id
      BY <3>1 DEF Inv, Handling
    <3>3. \A q \in Procs \ {o} : run'[q].id # run'[o].id
      BY <1>6, <1>7, <3>1, <3>2
    <3> QED
      BY <1>5, <3>1, <3>2, <3>3
  <2>3. ASSUME Held(p)'
        PROVE  /\ run'[p].id \in Ids' /\ jobs'[run'[p].id].by = "nobody"
               /\ jobs'[run'[p].id].asked = run'[p].asked
               /\ \A q \in Procs \ {p} : run'[q].id # run'[p].id
    <3>1. run'[p].id = n /\ row.by = "nobody"
      BY <1>2, <1>6, <1>7, <2>3
    <3>2. \A q \in Procs \ {p} : run'[q].id \in Ids \cup {0}
      BY <1>6, <1>8
    <3> QED
      BY <1>2, <1>4, <1>5, <1>6, <3>1, <3>2
  <2> QED
    BY <2>1, <2>2, <2>3 DEF Handling
<1>12. Offers'
  <2>1. ASSUME NEW i \in Ids PROVE OfferIsRight(i)'
    <3>1. run'[p].id # i /\ run[p].id # i
      BY <1>3, <1>5, <1>7
    <3>2. OnOffer(i)' <=> OnOffer(i)
      BY <1>6, <3>1 DEF OnOffer
    <3>3. /\ OfferIsRight(i) /\ Judgement(jobs'[i]) = Judgement(jobs[i])
          /\ jobs'[i].offered = jobs[i].offered /\ jobs'[i].lost = jobs[i].lost
      BY <1>4, <2>1 DEF Inv, Offers
    <3> QED
      BY <1>1, <3>2, <3>3, OfferKept
  <2>2. ASSUME NEW i, i = n PROVE OfferIsRight(i)'
    <3>1. jobs'[i] = row
      BY <1>4, <2>2
    <3>2. Verdict(x) = "nobody" => OnOffer(i)'
      BY <1>6, <2>2 DEF OnOffer
    <3>3. Verdict(x) # "nobody" => ~Wanted(i)'
      BY <1>2, <3>1 DEF Wanted
    <3>4. row.by = "score" => Low(i)'
      BY <1>1, <1>2, <3>1 DEF Low, TooLow
    <3> QED
      BY <1>2, <3>1, <3>2, <3>3, <3>4 DEF OfferIsRight
  <2> QED
    BY <1>5, <2>1, <2>2 DEF Offers
<1>13. Kinds'
  <2>1. SUFFICES ASSUME ~history.overlap
                 PROVE  /\ Alone'
                        /\ ~history.restored => \A i, j \in Ids' : Reposts(i, j)' /\ OnView(i)' /\ OnView(j)' => i = j
    BY <1>1 DEF Kinds
  <2>2. Alone
    BY <2>1 DEF Inv, Kinds
  <2>3. Alone'
    BY <1>1, <1>6, <2>2 DEF Alone
  <2>4. ASSUME NEW j \in Ids PROVE Facts(j)' = Facts(j) /\ (OnView(j)' => OnView(j))
    <3>1. run'[p].id # j
      BY <1>3, <1>5, <1>7
    <3> QED
      BY <1>1, <1>4, <1>6, <3>1 DEF Facts, OnView
  <2>5. ASSUME NEW j \in Ids, OnView(j)' PROVE jobs[j].status # "archived"
    <3>1. ASSUME NEW o \in Procs, run'[o].id = j PROVE FALSE
      <4>1. o # p /\ run[o].id = j /\ j # 0
        BY <1>3, <1>5, <1>6, <1>7, <3>1
      <4>2. run[o].pc # "idle"
        BY <4>1 DEF Inv, Handling, Held
      <4> QED
        BY <1>1, <2>2, <4>1, <4>2 DEF Alone
    <3> QED
      BY <1>4, <2>5, <3>1 DEF OnView
  <2>6. ASSUME NEW j \in Ids, OnView(j)', row.dup = FALSE, Facts(j).like = world.facts[x].like
        PROVE  FALSE
    BY <1>2, <2>5, <2>6 DEF Duplicate, Candidate
  <2>7. ASSUME NEW i, i = n PROVE Facts(i)' = world.facts[x] /\ jobs'[i].dup = row.dup
    BY <1>1, <1>2, <1>4, <2>7 DEF Facts
  <2>8. row.dup \in BOOLEAN
    BY <1>2 DEF Job
  <2>9. ASSUME ~history.restored, NEW i \in Ids', NEW j \in Ids',
               Reposts(i, j)', OnView(i)', OnView(j)'
        PROVE  i = j
    <3>1. CASE i \in Ids /\ j \in Ids
      BY <1>4, <2>1, <2>4, <2>9, <3>1 DEF Inv, Kinds, Reposts
    <3>2. CASE i = n /\ j \in Ids
      BY <2>4, <2>6, <2>7, <2>8, <2>9, <3>2 DEF Reposts
    <3>3. CASE j = n /\ i \in Ids
      BY <2>4, <2>6, <2>7, <2>8, <2>9, <3>3 DEF Reposts
    <3> QED
      BY <1>5, <3>1, <3>2, <3>3
  <2> QED
    BY <2>3, <2>9
<1>14. Untouched'
  <2>1. ASSUME NEW o \in Procs, Held(o)', ~history.hasty
        PROVE  jobs'[run'[o].id].status # "archived"
    <3>1. CASE o = p
      BY <1>2, <1>4, <1>6, <1>7, <2>1, <3>1
    <3>2. CASE o # p
      <4>1. Held(o) /\ run'[o].id = run[o].id /\ run[o].id \in Ids
        BY <1>6, <1>7, <2>1, <3>2 DEF Inv, Handling
      <4> QED
        BY <1>4, <2>1, <4>1 DEF Inv, Untouched
    <3> QED
      BY <3>1, <3>2
  <2> QED
    BY <1>1, <2>1 DEF Untouched
<1> QED
  BY <1>9, <1>10, <1>11, <1>12, <1>13, <1>14 DEF Inv

\* The offer is right if the gates are passed exactly by what is wanted.
LEMMA GatesAreRight ==
    ASSUME Inv, NEW p \in Procs, NEW i \in Ids, Held(p), run[p].id = i,
           InLanguage(jobs[i].asked)
    PROVE  GatesPass(p, i) <=> Wanted(i)
<1>1. /\ Facts(i) \in Fact /\ Facts(i).words \in Texts /\ jobs[i].asked = run[p].asked
      /\ jobs[i] \in Job /\ Facts(i) = world.facts[jobs[i].posting]
  BY JobFacts DEF Inv, Handling, Facts
<1>2. ASSUME run[p].asked # NoProfile
      PROVE  Meaning(run[p].asked, Facts(i).words) = {Matches(run[p].asked, Facts(i).words)}
  <2>1. Accepts(run[p].asked) /\ Meaning(run[p].asked, {}) # {}
    BY <1>1, <1>2 DEF Inv, Saved, InLanguage
  <2>2. PICK t \in DOMAIN Queries : run[p].asked \in Queries[t]
    BY <1>1, <1>2 DEF Job, Profiles
  <2>3. run[p].asked \in Seq(Tokens) /\ Len(run[p].asked) <= MaxHeight
    BY <2>2, WorldsAssumption
  <2>4. Facts(i).words \in SUBSET STRING
    BY <1>1 DEF Fact
  <2> QED
    BY <2>1, <2>3, <2>4, Literal
<1>3. run[p].asked # NoProfile
         => (TRUE \in Meaning(run[p].asked, Facts(i).words) <=> Matches(run[p].asked, Facts(i).words))
  BY <1>2
<1>4. ASSUME NEW f \in world.link
      PROVE  JobMatches(f, jobs[i].posting)
             <=> /\ Facts(i).score >= f.threshold
                 /\ \A c \in f.demands : c \notin Facts(i).fails
                 /\ \A c \in f.demands \cap Strict : c \notin Facts(i).silent
  BY <1>1 DEF JobMatches, Misses
<1> QED
  BY <1>1, <1>3, <1>4 DEF GatesPass, Wanted

LEMMA OfferStep == ASSUME Inv, NEW p \in Procs, Offer(p) PROVE Inv'
<1>1. /\ run[p].pc = "offer" /\ Held(p) /\ run[p].id \in Ids
      /\ UNCHANGED <<world, typed, profile, slot, history>>
  BY DEF Offer, Held, Inv, Handling
<1>2. PICK i \in Ids : run[p].id = i
  BY <1>1
<1>3. /\ jobs' \in IF GatesPass(p, i)
                   THEN {Given(i), Gone(i)} ELSE {jobs}
      /\ Goto(p, "notify") \/ Continue(p)
  BY <1>2 DEF Offer, Given, Gone
<1>4. /\ jobs' \in Seq(Job) /\ Ids' = Ids
      /\ \A j \in Ids : /\ Judgement(jobs'[j]) = Judgement(jobs[j])
                        /\ jobs'[j].status = jobs[j].status
                        /\ j # i => jobs'[j] = jobs[j]
      /\ jobs' = Given(i) => jobs'[i].offered /\ jobs'[i].lost = jobs[i].lost
      /\ jobs' = Gone(i) => jobs'[i].lost /\ jobs'[i].offered = jobs[i].offered
  <2>1. jobs' \in {Given(i), Gone(i), jobs}
    BY <1>3
  <2>2. TypeOK
    BY DEF Inv
  <2> QED
    BY <2>1, <2>2, OfferChanges
<1>5. /\ run' \in [Procs -> Run] /\ run'[p].pc \in {"notify", "next"}
      /\ run'[p].asked = run[p].asked
      /\ (run'[p].pc = "notify" => run'[p].id = i) /\ (run'[p].pc = "next" => run'[p].id = 0)
      /\ \A o \in Procs : o # p => run'[o] = run[o]
  <2>1. TypeOK
    BY DEF Inv
  <2>2. CASE Goto(p, "notify")
    BY <1>2, <2>1, <2>2, Goes
  <2>3. CASE Continue(p)
    BY <2>1, <2>3, Continues
  <2> QED
    BY <1>3, <2>2, <2>3
<1>6. TypeOK'
  BY <1>1, <1>4, <1>5 DEF Inv, TypeOK
<1>7. OfferIsRight(i)'
  <2>1. ~jobs[i].offered /\ ~jobs[i].lost
    BY <1>1, <1>2 DEF Inv, Offers, OfferIsRight, OnOffer
  <2>2. ~OnOffer(i)'
    <3>1. \A o \in Procs : o # p => run'[o].id # i
      BY <1>1, <1>2, <1>5 DEF Inv, Handling
    <3> QED
      BY <1>5, <3>1 DEF OnOffer
  <2>3. /\ jobs'[i].by = jobs[i].by /\ jobs'[i].asked = jobs[i].asked
        /\ Wanted(i)' = Wanted(i) /\ Low(i)' = Low(i)
    BY <1>1, <1>4, SameJudgement
  <2>4. InLanguage(jobs'[i].asked) => (GatesPass(p, i) <=> Wanted(i)')
    BY <1>1, <1>2, <2>3, GatesAreRight
  <2>5. CASE GatesPass(p, i)
    <3>1. (jobs'[i].offered /\ ~jobs'[i].lost) \/ (~jobs'[i].offered /\ jobs'[i].lost)
      BY <1>3, <1>4, <2>1, <2>5
    <3> QED
      BY <1>1, <2>2, <2>3, <2>4, <2>5, <3>1 DEF OfferIsRight, Inv, Offers
  <2>6. CASE ~GatesPass(p, i)
    <3>1. jobs' = jobs
      BY <1>3, <2>6
    <3> QED
      BY <1>1, <2>1, <2>2, <2>3, <2>4, <2>6, <3>1 DEF OfferIsRight, Inv, Offers
  <2> QED
    BY <2>5, <2>6
<1>8. Held(p)' <=> run'[p].pc = "notify"
  BY <1>5 DEF Held
<1> QED
  BY <1>1, <1>2, <1>4, <1>5, <1>6, <1>7, <1>8, HeldStep

LEMMA NotifyStep == ASSUME Inv, NEW p \in Procs, Notify(p) PROVE Inv'
<1>1. /\ run[p].pc = "notify" /\ Held(p) /\ run[p].id \in Ids
      /\ UNCHANGED <<world, typed, profile, slot, history>> /\ Continue(p) /\ TypeOK
  BY DEF Notify, Held, Inv, Handling
<1>2. PICK i \in Ids : run[p].id = i
  BY <1>1
<1>3. /\ jobs' \in Seq(Job) /\ Ids' = Ids
      /\ \A j \in Ids : /\ Judgement(jobs'[j]) = Judgement(jobs[j])
                        /\ jobs'[j].offered = jobs[j].offered /\ jobs'[j].lost = jobs[j].lost
                        /\ jobs'[j].status = IF j = i THEN "notified" ELSE jobs[j].status
  <2>1. jobs' = Moved(i, "notified")
    BY <1>2 DEF Notify, Moved
  <2> QED
    BY <1>1, <2>1, StatusChanges
<1>4. /\ run' \in [Procs -> Run] /\ run'[p].pc = "next" /\ run'[p].id = 0
      /\ run'[p].asked = run[p].asked
      /\ \A o \in Procs : o # p => run'[o] = run[o]
  BY <1>1, Continues
<1>5. TypeOK'
  BY <1>1, <1>3, <1>4 DEF TypeOK
<1>6. OfferIsRight(i)'
  <2>1. \A o \in Procs : o # p => run[o].id # i
    BY <1>1, <1>2 DEF Inv, Handling
  <2>2. OnOffer(i)' <=> OnOffer(i)
    BY <1>1, <1>4, <2>1 DEF OnOffer
  <2>3. OfferIsRight(i)
    BY DEF Inv, Offers
  <2> QED
    BY <1>1, <1>3, <2>2, <2>3, OfferKept
<1>7. ~Held(p)'
  BY <1>4 DEF Held
<1> QED
  BY <1>1, <1>2, <1>3, <1>4, <1>5, <1>6, <1>7, HeldStep

LEMMA CrashStep == ASSUME Inv, NEW p \in Procs, Crash(p) PROVE Inv'
<1>1. /\ run' \in [Procs -> Run] /\ run'[p] = Idle /\ run[p].pc # "idle"
      /\ \A o \in Procs : o # p => run'[o] = run[o]
      /\ UNCHANGED <<world, typed, profile, slot, history>> /\ TypeOK
  BY IdleRun DEF Crash, Inv, TypeOK
<1>2. run'[p].pc = "idle" /\ run'[p].id = 0 /\ run'[p].asked = NoProfile /\ ~Held(p)'
  BY <1>1, IdleRun DEF Held
<1>3. CASE ~Held(p)
  <2>1. jobs' = jobs
    BY <1>3 DEF Crash, Held
  <2>2. TypeOK'
    BY <1>1, <2>1 DEF TypeOK
  <2>3. ~history'.overlap => ~history.overlap /\ Alone'
    BY <1>1, <1>2 DEF Inv, Kinds, Alone
  <2> QED
    BY <1>1, <1>2, <1>3, <2>1, <2>2, <2>3, LightStep
<1>4. CASE Held(p)
  <2>1. run[p].id \in Ids
    BY <1>4 DEF Inv, Handling
  <2>2. PICK i \in Ids : run[p].id = i
    BY <2>1
  <2>3. /\ jobs' = Gone(i) \/ jobs' = jobs
        /\ run[p].pc = "offer" => jobs' = Gone(i)
        /\ run[p].pc # "offer" => jobs' = jobs
    BY <2>2 DEF Crash, Gone
  <2>4. /\ jobs' \in Seq(Job) /\ Ids' = Ids
        /\ \A j \in Ids : /\ Judgement(jobs'[j]) = Judgement(jobs[j])
                          /\ jobs'[j].status = jobs[j].status
                          /\ j # i => jobs'[j] = jobs[j]
        /\ jobs' = Gone(i) => jobs'[i].lost /\ jobs'[i].offered = jobs[i].offered
    BY <1>1, <2>3, OfferChanges
  <2>5. TypeOK'
    BY <1>1, <2>4 DEF TypeOK
  <2>6. \A o \in Procs : o # p => run[o].id # i
    BY <1>4, <2>2 DEF Inv, Handling
  <2>7. OfferIsRight(i) /\ ~OnOffer(i)'
    BY <1>1, <1>2, <2>6 DEF Inv, Offers, OnOffer
  <2>8. OfferIsRight(i)'
    <3>1. CASE run[p].pc # "offer"
      <4>1. OnOffer(i)' <=> OnOffer(i)
        BY <2>6, <2>7, <3>1 DEF OnOffer
      <4> QED
        BY <1>1, <2>3, <2>7, <3>1, <4>1, OfferKept
    <3>2. CASE run[p].pc = "offer"
      <4>1. ~jobs[i].offered
        BY <2>2, <2>7, <3>2 DEF OfferIsRight, OnOffer
      <4>2. jobs'[i].lost /\ ~jobs'[i].offered
        BY <2>3, <2>4, <3>2, <4>1
      <4>3. jobs'[i].by = jobs[i].by /\ Low(i)' = Low(i)
        BY <1>1, <2>4, SameJudgement
      <4> QED
        BY <2>7, <4>2, <4>3 DEF OfferIsRight
    <3> QED
      BY <3>1, <3>2
  <2> QED
    BY <1>1, <1>2, <1>4, <2>2, <2>4, <2>5, <2>8, HeldStep
<1> QED
  BY <1>3, <1>4

History == [typed : Nat, moves : Nat, restored : BOOLEAN, hasty : BOOLEAN, overlap : BOOLEAN]

\* The user moves a row in or out of the archive.
LEMMA MoveStep ==
    ASSUME Inv, NEW i \in Ids, NEW s \in {"new", "archived"},
           jobs' = Moved(i, s),
           UNCHANGED <<world, typed, profile, slot, run>>, history' \in History,
           history'.overlap = history.overlap,
           history'.restored = (history.restored \/ s = "new"),
           ~history'.hasty => /\ ~history.hasty
                              /\ s = "archived" => \A p \in Procs : run[p].id # i
    PROVE  Inv'
<1>1. /\ jobs' \in Seq(Job) /\ Ids' = Ids
      /\ \A j \in Ids : /\ Judgement(jobs'[j]) = Judgement(jobs[j])
                        /\ jobs'[j].offered = jobs[j].offered /\ jobs'[j].lost = jobs[j].lost
                        /\ jobs'[j].status = IF j = i THEN s ELSE jobs[j].status
  <2>1. TypeOK
    BY DEF Inv
  <2> QED
    BY <2>1, StatusChanges
<1>2. TypeOK' /\ Saved'
  BY <1>1 DEF Inv, TypeOK, Saved, History
<1>3. Handling'
  <2>1. \A j \in Ids : jobs'[j].by = jobs[j].by /\ jobs'[j].asked = jobs[j].asked
    BY <1>1 DEF Judgement
  <2> QED
    BY <1>1, <2>1 DEF Inv, Handling, Held
<1>4. Offers'
  <2>1. ASSUME NEW j \in Ids PROVE OfferIsRight(j)'
    <3>1. OfferIsRight(j) /\ (OnOffer(j)' <=> OnOffer(j))
      BY <2>1 DEF Inv, Offers, OnOffer
    <3> QED
      BY <1>1, <3>1, OfferKept
  <2> QED
    BY <1>1, <2>1 DEF Offers
<1>5. Kinds'
  <2>1. Alone' <=> Alone
    BY DEF Alone
  <2>2. CASE s = "new"
    BY <2>1, <2>2 DEF Inv, Kinds
  <2>3. CASE s = "archived"
    <3>1. \A j \in Ids : OnView(j)' => OnView(j)
      BY <1>1, <2>3 DEF OnView
    <3>2. Kinds /\ (~history.overlap => Alone')
      BY <2>1 DEF Inv, Kinds
    <3> QED
      BY <1>1, <3>1, <3>2, KindsKept
  <2> QED
    BY <2>2, <2>3
<1>6. Untouched'
  <2>1. ASSUME NEW p \in Procs, Held(p)', ~history'.hasty
        PROVE  jobs'[run'[p].id].status # "archived"
    <3>1. Held(p) /\ run[p].id \in Ids /\ jobs[run[p].id].status # "archived"
      BY <2>1 DEF Held, Inv, Handling, Untouched
    <3>2. jobs'[run[p].id].status = IF run[p].id = i THEN s ELSE jobs[run[p].id].status
      BY <1>1, <3>1
    <3> QED
      BY <2>1, <3>1, <3>2
  <2> QED
    BY <2>1 DEF Untouched
<1> QED
  BY <1>2, <1>3, <1>4, <1>5, <1>6 DEF Inv

LEMMA ArchiveStep == ASSUME Inv, NEW i \in Ids, Archive(i) PROVE Inv'
<1> DEFINE moved == [history EXCEPT !.moves = @ + 1]
           late  == history.hasty \/ \E p \in Procs : run[p].id = i
<1>1. history \in History
  BY DEF Inv, TypeOK, History
<1>2. /\ moved \in History /\ moved.restored = history.restored
      /\ moved.overlap = history.overlap /\ moved.hasty = history.hasty
  BY <1>1 DEF History
<1>3. history' = [moved EXCEPT !.hasty = late]
  BY DEF Archive
<1>4. late \in BOOLEAN /\ (~late => ~history.hasty /\ \A p \in Procs : run[p].id # i)
  BY <1>1 DEF History
<1> HIDE DEF moved, late
<1>5. /\ history' \in History /\ history'.hasty = late
      /\ history'.restored = history.restored /\ history'.overlap = history.overlap
  BY <1>2, <1>3, <1>4 DEF History
<1>6. history'.restored = (history.restored \/ "archived" = "new")
  BY <1>1, <1>5 DEF History
<1>7. jobs' = Moved(i, "archived") /\ UNCHANGED <<world, typed, profile, slot, run>>
  BY DEF Archive, Moved
<1> QED
  BY <1>4, <1>5, <1>6, <1>7, MoveStep

LEMMA UnarchiveStep == ASSUME Inv, NEW i \in Ids, Unarchive(i) PROVE Inv'
<1> DEFINE moved == [history EXCEPT !.moves = @ + 1]
<1>1. history \in History
  BY DEF Inv, TypeOK, History
<1>2. /\ moved \in History /\ moved.overlap = history.overlap /\ moved.hasty = history.hasty
  BY <1>1 DEF History
<1>3. history' = [moved EXCEPT !.restored = TRUE]
  BY DEF Unarchive
<1> HIDE DEF moved
<1>4. /\ history' \in History /\ history'.hasty = history.hasty
      /\ history'.restored = TRUE /\ history'.overlap = history.overlap
  BY <1>2, <1>3 DEF History
<1>5. history'.restored = (history.restored \/ "new" = "new")
  BY <1>4
<1>6. jobs' = Moved(i, "new") /\ UNCHANGED <<world, typed, profile, slot, run>>
  BY DEF Unarchive, Moved
<1> QED
  BY <1>4, <1>5, <1>6, MoveStep

LEMMA InvNext == ASSUME Inv, [Next]_vars PROVE Inv'
<1>1. CASE \E q \in Queries[world.typist] : ValidateQuery(q) \/ SaveProfile(q)
  BY <1>1, TypingStep
<1>2. CASE DeleteProfile \/ SlotLapses \/ \E p \in Procs : SearchInVain(p)
  BY <1>2, QuietStep
<1>3. CASE \E p \in Procs : IngestPosted(p) \/ DiscoverByBeat(p) \/ DiscoverNow(p)
  BY <1>3, IngestBegins
<1>4. CASE \E p \in Procs : Take(p) \/ Insert(p)
  BY <1>4, TakeStep
<1>5. CASE \E p \in Procs : Decide(p)
  BY <1>5, DecideStep
<1>6. CASE \E p \in Procs : Offer(p)
  BY <1>6, OfferStep
<1>7. CASE \E p \in Procs : Notify(p)
  BY <1>7, NotifyStep
<1>8. CASE \E p \in Procs : Crash(p)
  BY <1>8, CrashStep
<1>9. CASE \E i \in Ids : Archive(i) \/ Unarchive(i)
  BY <1>9, ArchiveStep, UnarchiveStep
<1>10. CASE UNCHANGED vars
  <2>1. UNCHANGED <<world, jobs, run>> /\ history' = history /\ profile' = profile /\ TypeOK'
    BY <1>10 DEF vars, Inv, TypeOK
  <2> QED
    BY <2>1, AsideStep
<1> QED
  BY <1>1, <1>2, <1>3, <1>4, <1>5, <1>6, <1>7, <1>8, <1>9, <1>10 DEF Next, IngestStep

-----------------------------------------------------------------------------
(* The theorems                                                            *)

\* Variables keep their types, queries that are judged by parse, each process
\* has a row for itself, and rows are offered, marked and archived as below.
THEOREM Invariant == Spec => []Inv
<1>1. Init => Inv
  BY InvInit
<1>2. Inv /\ [Next]_vars => Inv'
  BY InvNext
<1> QED
  BY <1>1, <1>2, PTL DEF Spec

LEMMA RightOffers == ASSUME Inv PROVE OfferedIffWanted
<1> SUFFICES ASSUME NEW i \in Ids
             PROVE  /\ InLanguage(jobs[i].asked) /\ ~OnOffer(i)
                          => (jobs[i].offered <=> Wanted(i) /\ ~jobs[i].lost)
                    /\ jobs[i].by = "score" => \A f \in world.filters : ~JobMatches(f, jobs[i].posting)
  BY DEF OfferedIffWanted, OnOffer
<1>1. OfferIsRight(i)
  BY DEF Inv, Offers
<1>2. ASSUME NEW f \in world.filters, Low(i) PROVE ~JobMatches(f, jobs[i].posting)
  <2>1. Facts(i) \in Fact /\ Facts(i) = world.facts[jobs[i].posting] /\ world \in Worlds
    BY JobFacts DEF Inv, TypeOK, Facts
  <2>2. f \in Filter
    BY <2>1, WorldsAssumption
  <2>3. Facts(i).score \in Nat /\ f.threshold \in Nat /\ Facts(i).score < f.threshold
    BY <1>2, <2>1, <2>2 DEF Fact, Filter, Low, TooLow
  <2> QED
    BY <2>1, <2>3 DEF JobMatches
<1> QED
  BY <1>1, <1>2 DEF OfferIsRight

\* For every set of filters, postings, queries and processes, a job is handed to
\* generation, or was to be when the broker or the process failed, exactly when
\* the profile's query means it and its filter lets it through (of a query that
\* is in the language at all); and no job that a filter lets through is archived
\* for its score.
THEOREM WhatIsWantedIsOffered == Spec => []OfferedIffWanted
<1>1. Inv => OfferedIffWanted
  BY RightOffers
<1> QED
  BY <1>1, Invariant, PTL

\* While ingests do not overlap and nothing is taken out of the archive, one at
\* most of the jobs on view that repost each other is not marked, however many
\* there are and whenever processes die.
THEOREM RepostsAreMarked == Spec => []OneOfAKind
<1>1. Inv => OneOfAKind
  BY DEF Inv, Kinds, OneOfAKind, Reposts, OnView
<1> QED
  BY <1>1, Invariant, PTL

LEMMA ArchivedRows ==
    ASSUME Inv, [Next]_vars, ~history.hasty, NEW i \in Ids,
           jobs[i].status = "archived", jobs'[i].status # "archived"
    PROVE  history'.restored
<1>1. TypeOK
  BY DEF Inv
<1>2. CASE jobs' = jobs
  BY <1>2
<1>3. ASSUME NEW p \in Procs, Decide(p) PROVE FALSE
  <2>1. PICK x \in run[p].item : jobs' = Append(jobs, Row(p, x))
    BY <1>3 DEF Decide
  <2>2. Row(p, x) \in Job /\ jobs \in Seq(Job)
    BY <1>1, RowIsJob DEF TypeOK
  <2>3. jobs'[i] = jobs[i]
    BY <2>1, <2>2, AppendProperties DEF Ids
  <2> QED
    BY <2>3
<1>4. ASSUME NEW j \in Ids, jobs' \in {Given(j), Gone(j), jobs} PROVE FALSE
  BY <1>1, <1>4, OfferChanges
<1>5. ASSUME NEW p \in Procs, Offer(p) \/ Crash(p) PROVE FALSE
  <2>1. CASE jobs' = jobs
    BY <2>1
  <2>2. CASE jobs' # jobs
    <3>1. run[p].pc = "offer" /\ jobs' \in {Given(run[p].id), Gone(run[p].id)}
      BY <1>5, <2>2 DEF Offer, Crash, Given, Gone
    <3>2. run[p].id \in Ids
      BY <3>1 DEF Inv, Handling, Held
    <3>3. PICK j \in Ids : run[p].id = j
      BY <3>2
    <3> QED
      BY <1>4, <3>1, <3>3
  <2> QED
    BY <2>1, <2>2
<1>6. ASSUME NEW p \in Procs, Notify(p) PROVE FALSE
  <2>1. run[p].id \in Ids /\ jobs[run[p].id].status # "archived"
    BY <1>6 DEF Notify, Inv, Handling, Held, Untouched
  <2>2. PICK j \in Ids : run[p].id = j
    BY <2>1
  <2>3. jobs' = Moved(j, "notified") /\ j # i
    BY <1>6, <2>1, <2>2 DEF Notify, Moved
  <2>4. jobs'[i].status = jobs[i].status
    BY <1>1, <2>3, StatusChanges
  <2> QED
    BY <2>4
<1>7. ASSUME NEW j \in Ids, Archive(j) PROVE FALSE
  <2>1. jobs' = Moved(j, "archived")
    BY <1>7 DEF Archive, Moved
  <2>2. jobs'[i].status \in {jobs[i].status, "archived"}
    BY <1>1, <2>1, StatusChanges
  <2> QED
    BY <2>2
<1>8. ASSUME NEW j \in Ids, Unarchive(j) PROVE history'.restored
  BY <1>8, UnarchiveStep DEF Unarchive, Inv, TypeOK
<1>9. CASE \E q \in Queries[world.typist] : ValidateQuery(q) \/ SaveProfile(q)
  BY <1>2, <1>9 DEF ValidateQuery, SaveProfile, Type
<1>10. CASE DeleteProfile \/ SlotLapses \/ \E p \in Procs : SearchInVain(p)
  BY <1>2, <1>10 DEF DeleteProfile, SlotLapses, SearchInVain
<1>11. CASE \E p \in Procs : \/ IngestPosted(p) \/ DiscoverByBeat(p) \/ DiscoverNow(p)
                             \/ Take(p) \/ Insert(p)
  BY <1>2, <1>11 DEF IngestPosted, DiscoverByBeat, DiscoverNow, Discover, Take, Insert
<1>12. CASE UNCHANGED vars
  BY <1>2, <1>12 DEF vars
<1> QED
  BY <1>3, <1>5, <1>6, <1>7, <1>8, <1>9, <1>10, <1>11, <1>12 DEF Next, IngestStep

\* An archived job leaves the archive by the user's hand only, unless the user
\* archived it while its ingest was still at work on it.
THEOREM ArchiveIsTheUsers == Spec => ArchivingStands
<1>1. Inv /\ [Next]_vars
         => [~history.hasty => \A i \in Ids : jobs[i].status = "archived" /\ jobs'[i].status # "archived"
                                                => history'.restored]_vars
  BY ArchivedRows
<1> QED
  BY <1>1, Invariant, PTL DEF ArchivingStands, Spec

LEMMA TypedQuery == ASSUME TypeOK PROVE typed \in Seq(Tokens) /\ Len(typed) <= MaxHeight
<1>1. CASE typed = <<>>
  BY <1>1, HeightAssumption
<1>2. CASE typed # <<>>
  BY <1>2, WorldsAssumption DEF TypeOK
<1> QED
  BY <1>1, <1>2

\* A query of the language is accepted, unless it is nested too deep, and matches
\* the texts that the grammar says it matches: for every query, every text and
\* every limit of the nesting.
THEOREM ReadRight == Spec => []ReadAsWritten
<1>1. TypeOK => ReadAsWritten
  <2> SUFFICES ASSUME TypeOK, Nesting(typed) <= MaxDepth, NEW text \in SUBSET Words,
                      Meaning(typed, text) # {}
               PROVE  Accepts(typed) /\ Meaning(typed, text) = {Matches(typed, text)}
    BY DEF ReadAsWritten
  <2>1. typed \in Seq(Tokens) /\ Len(typed) <= MaxHeight /\ text \in SUBSET STRING
    BY TypedQuery, WordsAssumption DEF Tokens
  <2>2. Readable(typed, text)
    BY <2>1 DEF Readable
  <2>3. Accepts(typed)
    <3>1. PICK v : v \in Meaning(typed, text)
      OBVIOUS
    <3>2. Nesting(typed) \in Nat
      BY <2>1, NestingType
    <3>3. ~(MaxDepth < Nesting(typed))
      BY <3>2, DepthAssumption
    <3> QED
      BY <2>2, <3>1, <3>3, ParsedAsMeant DEF Accepts
  <2>4. Meaning(typed, {}) # {}
    BY <2>1, MeaningForAll
  <2> QED
    BY <2>1, <2>3, <2>4, Literal
<1>2. Inv => TypeOK
  BY DEF Inv
<1> QED
  BY <1>1, <1>2, Invariant, PTL

\* A query's terms find what the query matches, whatever is typed and read.
THEOREM TermsFound == Spec => []TermsFindMatches
<1>1. TypeOK => TermsFindMatches
  <2> SUFFICES ASSUME TypeOK, Accepts(typed), Len(Terms(typed)) <= SearchCap, NEW text \in Texts,
                      Matches(typed, text), ~Matches(typed, {})
               PROVE  \E i \in DOMAIN SearchTerms(typed) : SearchTerms(typed)[i] \in text
    BY DEF TermsFindMatches
  <2> DEFINE ast == Parse(typed).ast
  <2>1. ast \in Tree
    BY TypedQuery, ParseReads DEF Accepts
  <2>2. text \in SUBSET STRING
    <3>1. PICK w \in Worlds, x \in Postings : text = w.facts[x].words
      BY DEF Texts
    <3>2. w.facts[x] \in Fact
      BY WorldsAssumption
    <3> QED
      BY <3>1, <3>2 DEF Fact
  <2>3. Terms(typed) \in Seq(STRING)
    BY <2>1, PositiveTermsBuilt DEF Terms, Lists
  <2>4. ~Missed(Terms(typed), text)
    BY <2>1, <2>2, TermsBound DEF Bounded, Matches, Terms
  <2>5. SearchTerms(typed) = Terms(typed)
    <3>1. Len(Terms(typed)) \in Nat
      BY <2>3, LenProperties
    <3>2. Shorter(SearchCap, Len(Terms(typed))) = Len(Terms(typed))
      BY <3>1, CapAssumption DEF Shorter
    <3> QED
      BY <2>3, <3>2 DEF SearchTerms
  <2> QED
    BY <2>4, <2>5 DEF Missed
<1>2. Inv => TypeOK
  BY DEF Inv
<1> QED
  BY <1>1, <1>2, Invariant, PTL
=============================================================================
