------------------------- MODULE MCLimboResolution -------------------------
(* LimboResolution for a list of documents, and one document of it.        *)
EXTENDS LimboResolution

CONSTANTS list, document

Keys == 1..2
ThreeKeys == 1..3
ListAndDocument == [t \in Target |-> IF t = document THEN {1} ELSE Key]
=============================================================================
