----------------------------- MODULE QueryTrees -----------------------------
(***************************************************************************)
(* The trees of boolean queries (backend/app/boolquery.py): what evaluate  *)
(* makes of one for a text, and the terms that discovery searches for      *)
(* (discovery._positive_terms).  A text is the set of the words found in   *)
(* it; a quoted phrase is a word here.                                     *)
(***************************************************************************)
EXTENDS Naturals, Sequences

\* Bounds the height of a tree; the length of a query does (MAX_QUERY_LENGTH).
CONSTANT MaxHeight

ASSUME HeightAssumption == MaxHeight \in Nat

\* An empty query has the tree <<"ALL">>.
Leaves == {<<"ALL">>} \cup ({"TERM"} \X STRING)

Grow(T) == T \cup ({"NOT"} \X T) \cup ({"AND", "OR"} \X T \X T)

\* The trees of height n at most.
Trees[n \in Nat] == IF n = 0 THEN Leaves ELSE Grow(Trees[n - 1])

Tree == Trees[MaxHeight]

Evaluate[ast \in Tree] ==
    [text \in SUBSET STRING |->
        CASE ast[1] = "ALL"  -> TRUE
          [] ast[1] = "TERM" -> ast[2] \in text
          [] ast[1] = "NOT"  -> ~Evaluate[ast[2]][text]
          [] ast[1] = "AND"  -> Evaluate[ast[2]][text] /\ Evaluate[ast[3]][text]
          [] ast[1] = "OR"   -> Evaluate[ast[2]][text] \/ Evaluate[ast[3]][text]]

\* Mutant of Flip: below a NOT everything counts as negated.
FlipOnce(negated) == TRUE

Flip(negated) == ~negated

PositiveTerms[ast \in Tree] ==
    [negated \in BOOLEAN |->
        CASE ast[1] = "ALL"  -> <<>>
          [] ast[1] = "TERM" -> IF negated THEN <<>> ELSE <<ast[2]>>
          [] ast[1] = "NOT"  -> PositiveTerms[ast[2]][Flip(negated)]
          [] OTHER           -> PositiveTerms[ast[2]][negated] \o PositiveTerms[ast[3]][negated]]
=============================================================================
