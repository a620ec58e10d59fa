----------------------------- MODULE SlotLedger -----------------------------
(***************************************************************************)
(* What the account pool promises its callers, without its data            *)
(* structures: a caller holds at most one lease at a time, a lease is      *)
(* granted only while fewer than perAccount callers hold the account and   *)
(* fewer than total hold any, and none is granted while the gate is shut.  *)
(* The counts are of the callers that really hold a lease.                 *)
(***************************************************************************)
EXTENDS Naturals, FiniteSets

CONSTANTS Accounts, Callers, None

VARIABLES
  lease,        \* lease[c]: the account c holds, or None
  perAccount,   \* the limit per account
  total,        \* the limit over all accounts; 0: none
  shut          \* leases are not granted now

vars == <<lease, perAccount, total, shut>>

HeldBy(a) == {c \in Callers : lease[c] = a}
Holding == {c \in Callers : lease[c] # None}

Init ==
  /\ lease = [c \in Callers |-> None]
  /\ perAccount \in Nat \ {0}
  /\ total \in Nat
  /\ shut \in BOOLEAN

Grant(c, a) ==
  /\ lease[c] = None /\ ~shut
  /\ Cardinality(HeldBy(a)) < perAccount
  /\ total > 0 => Cardinality(Holding) < total
  /\ lease' = [lease EXCEPT ![c] = a]
  /\ UNCHANGED <<perAccount, total, shut>>

End(c) ==
  /\ lease[c] # None
  /\ lease' = [lease EXCEPT ![c] = None]
  /\ UNCHANGED <<perAccount, total, shut>>

(* New limits or a moved gate leave the leases alone.                      *)
Adjust ==
  /\ perAccount' \in Nat \ {0}
  /\ total' \in Nat
  /\ shut' \in BOOLEAN
  /\ UNCHANGED lease

(* The process starts over: no lease survives it.                          *)
StartOver ==
  /\ lease' = [c \in Callers |-> None]
  /\ perAccount' \in Nat \ {0}
  /\ total' \in Nat
  /\ shut' \in BOOLEAN

Next ==
  \/ \E c \in Callers, a \in Accounts : Grant(c, a)
  \/ \E c \in Callers : End(c)
  \/ Adjust
  \/ StartOver

Spec == Init /\ [][Next]_vars
=============================================================================
