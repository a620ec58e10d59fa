---------------------------- MODULE MCAccountPool ----------------------------
(***************************************************************************)
(* Instances of the account pool for TLC.                                  *)
(***************************************************************************)
EXTENDS AccountPoolProps

CONSTANTS a1, a2, r1, r2, r3, k1

(* r1 insists on a1, r2 on a2, the others rotate over all accounts.        *)
MCTarget == [c \in Callers |-> CASE c = r1 -> a1 [] c = r2 -> a2 [] OTHER -> None]
MCAccepts == [c \in Callers |-> Accounts]

(* Nobody insists on an account.                                           *)
AllRotate == [c \in Callers |-> None]

Setting(per, q, total, rpm, rpd) ==
  [per |-> per, queue |-> q, total |-> total, rate |-> rpm, daily |-> rpd]

OneSlot == {Setting(1, 2, 0, 0, 0)}
TwoLimits == {Setting(1, 2, 0, 0, 0), Setting(2, 0, 3, 0, 0)}
TotalOne == {Setting(1, 3, 0, 0, 0), Setting(2, 3, 1, 0, 0)}
Quotas == {Setting(2, 2, 0, 2, 3), Setting(2, 2, 0, 0, 3)}
DailyTwo == {Setting(1, 2, 0, 0, 2)}
=============================================================================
