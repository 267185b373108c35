--------------------------- MODULE ApprovalLedger ---------------------------
(***************************************************************************)
(* What the human-in-the-loop boundary promises, without any of the        *)
(* machinery: every approval a reviewer gives is a token, a token is       *)
(* granted once, an open token pays for one call of an adapter, and when   *)
(* the call is over the token is spent for good.  A call delivers a        *)
(* limited number of messages: it may repeat itself, nobody else does.  A  *)
(* token that was overtaken (another approval, a revert, a hand            *)
(* submission) is void for ever.  ReviewQueue implements this ledger.      *)
(***************************************************************************)
EXTENDS Naturals

CONSTANTS Tokens,
          MaxAttempts   \* messages that one call may deliver

VARIABLES life,   \* life[t]: where approval t stands
          uses    \* uses[t]: how many messages approval t has paid for

ledgerVars == <<life, uses>>

LedgerTypeOK == /\ life \in [Tokens -> {"unused", "open", "calling", "void", "spent"}]
                /\ uses \in [Tokens -> Nat]

LedgerInit == /\ life = [t \in Tokens |-> "unused"]
              /\ uses = [t \in Tokens |-> 0]

\* Move every token of V, all of them open, to "void".
Voided(V) == [t \in Tokens |-> IF t \in V THEN "void" ELSE life[t]]
OpenSets  == SUBSET {t \in Tokens : life[t] = "open"}

\* A reviewer approves; approvals this one overtakes become void.
Grant(t) == /\ life[t] = "unused"
            /\ \E V \in OpenSets : life' = [Voided(V) EXCEPT ![t] = "open"]
            /\ UNCHANGED uses

\* Approvals lapse without being used.
Lapse == \E V \in OpenSets : life' = Voided(V) /\ UNCHANGED uses

\* The call that an open approval pays for begins, and may be over at once.
Call(t) == /\ life[t] = "open"
           /\ \E stage \in {"calling", "spent"} : life' = [life EXCEPT ![t] = stage]
           /\ \E n \in {0, 1} : uses' = [uses EXCEPT ![t] = @ + n]

\* It repeats itself ...
Repeat(t) == /\ life[t] = "calling"
             /\ uses[t] < MaxAttempts
             /\ \E stage \in {"calling", "spent"} : life' = [life EXCEPT ![t] = stage]
             /\ \E n \in {0, 1} : uses' = [uses EXCEPT ![t] = @ + n]

\* ... or is over; what is written then may overtake an approval.
Settle(t) == /\ life[t] = "calling"
             /\ \E V \in OpenSets : life' = [Voided(V) EXCEPT ![t] = "spent"]
             /\ UNCHANGED uses

LedgerNext == Lapse \/ \E t \in Tokens : Grant(t) \/ Call(t) \/ Repeat(t) \/ Settle(t)

LedgerSpec == LedgerInit /\ [][LedgerNext]_ledgerVars
=============================================================================
