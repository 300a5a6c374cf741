-------------------------- MODULE MCProfilePicture --------------------------
(* ProfilePicture on two accounts, one of which chooses a second picture;  *)
(* slots are alike.                                                        *)
EXTENDS ProfilePicture, TLC

CONSTANTS u1, u2

TwoAndOne == u1 :> 2 @@ u2 :> 1

SlotSymmetry == Permutations(Slot)

\* Once the sessions were mixed up for every account, they stay so and the
\* properties say nothing any more: no need to look further.
NotAllCrossed == crossed # Uid
=============================================================================
