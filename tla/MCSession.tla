----------------------------- MODULE MCSession -----------------------------
(***************************************************************************)
(* Session on two accounts.  Request slots are alike, and so are accounts  *)
(* while no e-mail changes.                                                *)
(***************************************************************************)
EXTENDS Session, TLC

CONSTANTS u1, u2

NoChange  == u1 :> 0 @@ u2 :> 0
OneChange == u1 :> 1 @@ u2 :> 0

Accounts == {u1, u2}
Symmetry     == Permutations(Accounts) \cup Permutations(Slot)
SlotSymmetry == Permutations(Slot)
=============================================================================
