----------------------------- MODULE LatestLines ----------------------------
(***************************************************************************)
(* What the history of the line editor promises: the latest lines, newest  *)
(* first, and never more than max of them.                                 *)
(***************************************************************************)
EXTENDS Naturals, Sequences

CONSTANTS Lines, max

VARIABLE latest

Init == latest = <<>>

Least(m, n) == IF m < n THEN m ELSE n

(* The list after line a was added.                                        *)
Pushed(a) ==
  [n \in 1..Least(Len(latest) + 1, max) |-> IF n = 1 THEN a ELSE latest[n - 1]]

Add(a) == latest' = Pushed(a)

Next == \E a \in Lines : Add(a)

Spec == Init /\ [][Next]_latest
=============================================================================
