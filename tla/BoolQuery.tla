----------------------------- MODULE BoolQuery ------------------------------
(***************************************************************************)
(* The boolean search language of backend/app/boolquery.py: the recursive  *)
(* descent parser, which builds the trees of QueryTrees.                   *)
(*                                                                         *)
(* A query is a sequence of tokens, as _tokenize cuts them: words, quoted  *)
(* phrases (words here), keywords and parentheses.  A method of the parser *)
(* is a function of the place it starts at; a loop of a method is the      *)
(* sequence of what it has read after each round.                          *)
(***************************************************************************)
EXTENDS QueryTrees, FiniteSets

CONSTANTS Words,      \* words of queries and texts: strings
          MaxDepth    \* MAX_DEPTH

Keywords == {"AND", "OR", "NOT"}
Tokens == Words \cup Keywords \cup {"(", ")"}

\* What peek gives after the last token; no token is empty.
End == ""

ASSUME WordsAssumption ==
    /\ Tokens \subseteq STRING
    /\ \A token \in Keywords \cup {"(", ")", End} : token \notin Words

ASSUME DepthAssumption == MaxDepth \in Nat

-----------------------------------------------------------------------------
(* _Parser: a parsed part is its tree and the position after it            *)

Bad == [ok |-> FALSE, ast |-> <<"NONE">>, at |-> 0]

Part(ast, at) == [ok |-> TRUE, ast |-> ast, at |-> at]

Peek(q, at) == IF at \in 1 .. Len(q) THEN q[at] ELSE End

Join(op, x, y) == IF x.ok /\ y.ok THEN Part(<<op, x.ast, y.ast>>, y.at) ELSE Bad

\* Mutant of AndRound: OR does not end a conjunction.
AndRoundThroughOr(q, nots, x) ==
    LET tok == Peek(q, x.at)
        from == IF tok \in {"AND", "OR"} THEN x.at + 1 ELSE x.at
    IN  IF ~x.ok \/ tok \in {End, ")"} THEN x
        ELSE Join(IF tok = "OR" THEN "OR" ELSE "AND", x, nots[from])

\* A round of _and, after it has read x.  Parts that stand side by side are
\* joined like those with AND between.  (nots: what _not reads, at each place.)
AndRound(q, nots, x) ==
    LET tok == Peek(q, x.at)
        from == IF tok = "AND" THEN x.at + 1 ELSE x.at
    IN  IF ~x.ok \/ tok \in {End, ")", "OR"} THEN x ELSE Join("AND", x, nots[from])

\* A round that ends the loop changes nothing, and each of the others reads on.
AndReads(q, nots, at) ==
    LET reads[n \in Nat] == IF n = 0 THEN nots[at] ELSE AndRound(q, nots, reads[n - 1])
    IN  reads

AndPart(q, nots, at) == AndReads(q, nots, at)[Len(q)]

OrRound(q, nots, x) ==
    IF x.ok /\ Peek(q, x.at) = "OR" THEN Join("OR", x, AndPart(q, nots, x.at + 1)) ELSE x

OrReads(q, nots, at) ==
    LET reads[n \in Nat] == IF n = 0 THEN AndPart(q, nots, at) ELSE OrRound(q, nots, reads[n - 1])
    IN  reads

OrPart(q, nots, at) == OrReads(q, nots, at)[Len(q)]

\* _not; deeper: what it reads one level down.  A keyword that stands where a
\* word is due is read as a word.
NotPart(q, deeper, at) ==
    LET tok == Peek(q, at)
        inner == OrPart(q, deeper, at + 1)
        negated == deeper[at + 1]
    IN  CASE tok = "NOT" -> IF negated.ok THEN Part(<<"NOT", negated.ast>>, negated.at) ELSE Bad
          [] tok = "(" -> IF inner.ok /\ Peek(q, inner.at) = ")"
                          THEN Part(inner.ast, inner.at + 1) ELSE Bad
          [] tok \in {End, ")"} -> Bad
          [] OTHER -> Part(<<"TERM", tok>>, at + 1)

Places(q) == 1 .. Len(q) + 1

\* _descend: what _not reads where n levels of nesting are left, its own included.
NotParts(q) ==
    LET levels[n \in Nat] == IF n = 0 THEN [at \in Places(q) |-> Bad]
                             ELSE [at \in Places(q) |-> NotPart(q, levels[n - 1], at)]
    IN  levels

\* parse_boolean_query: an empty query matches everything.
Parse(q) ==
    LET x == OrPart(q, NotParts(q)[MaxDepth + 1], 1)
    IN  IF q = <<>> THEN Part(<<"ALL">>, 1)
        ELSE IF x.ok /\ x.at = Len(q) + 1 THEN x ELSE Bad

-----------------------------------------------------------------------------
(* The grammar of the module's docstring, read as a definition             *)

\* A reading: tokens from .. to are an expression of the kind, and its value
\* for the text at hand.
Reading(kind, from, to, value) == [kind |-> kind, from |-> from, to |-> to, value |-> value]

Before(q, d) == Peek(q, d.from - 1)
After(q, d)  == Peek(q, d.to + 1)

\* y follows x in a conjunction; in a disjunction.
AndJoins(q, x, y) == y.from = x.to + 1 \/ (After(q, x) = "AND" /\ y.from = x.to + 2)
OrJoins(q, x, y)  == After(q, x) = "OR" /\ y.from = x.to + 2

\* The readings D and those that one rule of the grammar makes of them.
Derive(q, text, D) ==
    LET Of(kind) == {d \in D : d.kind = kind}
    IN  D \cup {Reading("not", i, i, q[i] \in text) : i \in {k \in 1 .. Len(q) : q[k] \in Words}}
          \cup {Reading("not", d.from - 1, d.to, ~d.value)
                  : d \in {c \in Of("not") : Before(q, c) = "NOT"}}
          \cup {Reading("not", d.from - 1, d.to + 1, d.value)
                  : d \in {c \in Of("or") : Before(q, c) = "(" /\ After(q, c) = ")"}}
          \cup {Reading("and", d.from, d.to, d.value) : d \in Of("not")}
          \cup {Reading("or", d.from, d.to, d.value) : d \in Of("and")}
          \cup {Reading("and", p[1].from, p[2].to, p[1].value /\ p[2].value)
                  : p \in {c \in Of("and") \X Of("not") : AndJoins(q, c[1], c[2])}}
          \cup {Reading("or", p[1].from, p[2].to, p[1].value \/ p[2].value)
                  : p \in {c \in Of("or") \X Of("and") : OrJoins(q, c[1], c[2])}}

Readings(q, text) ==
    LET derived[n \in Nat] == IF n = 0 THEN {} ELSE Derive(q, text, derived[n - 1])
    IN  derived

\* What a query may mean for a text, by any way to read it (none: it is not in
\* the language).  A word is read by three rules, and two more tokens take three
\* more in a row at most.
Meaning(q, text) ==
    IF q = <<>> THEN {TRUE}
    ELSE {d.value : d \in {r \in Readings(q, text)[2 * Len(q) + 1] :
                             r.kind = "or" /\ r.from = 1 /\ r.to = Len(q)}}

\* How deep a query can be nested.
Nesting(q) == Cardinality({i \in 1 .. Len(q) : q[i] \in {"NOT", "("}})
=============================================================================
