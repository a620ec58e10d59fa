--------------------------- MODULE MCManagedRequest ---------------------------
(***************************************************************************)
(* Instances of managed requests for TLC.                                  *)
(***************************************************************************)
EXTENDS ManagedRequest, TLC

CONSTANTS a1, a2

AnyAccount == {None}
AnyOrFirst == {None, a1}
Alike == Permutations(Requests)
=============================================================================
