--------------------------- MODULE MCEmailUpdate ---------------------------
(* EmailUpdate on a few devices and accounts.                              *)
EXTENDS EmailUpdate, TLC

CONSTANTS u1, u2, d1, d2, m1, m2

\* Addresses as people type them: as they are, or one of the two only with
\* spaces.
PlainText == {Plain(m1), Plain(m2)}
MixedText == {Plain(m1), [addr |-> m2, spaced |-> TRUE]}

\* Accounts are alike, and so are addresses typed without spaces.
Symmetry == Permutations(Uid) \cup Permutations(Address)

\* How many changes of its own each device has under way.
Two    == [d \in Device |-> 2]
OnlyD1 == [d \in Device |-> IF d = d1 THEN 1 ELSE 0]
=============================================================================
