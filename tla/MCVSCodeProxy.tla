--------------------------- MODULE MCVSCodeProxy ---------------------------
(* Instances of VSCodeProxy for TLC: two sessions and the forwards share a *)
(* connection, a third session has one of its own.                         *)
EXTENDS VSCodeProxy

CONSTANTS k1, k2, s3

MCConnOf == [x \in Sessions \cup Forwards |-> IF x = s3 THEN k2 ELSE k1]
=============================================================================
