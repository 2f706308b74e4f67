----------------------------- MODULE RingBuffer -----------------------------
(***************************************************************************)
(* stRingBuffer (common/terminal.go), the history of the line editor.  The *)
(* code allocates max = 100 entries, all empty, with the first Add; they   *)
(* are here from the start.                                                *)
(***************************************************************************)
EXTENDS Naturals, Sequences

CONSTANTS
  Lines,   \* what can be added
  Empty,   \* the empty string
  max      \* the number of entries

ASSUME RingAssumption == max \in Nat \ {0} /\ Empty \in Lines

VARIABLES entries, head, size

ring == <<entries, head, size>>

RingInit ==
  /\ entries = [i \in 0..(max - 1) |-> Empty]
  /\ head = 0 /\ size = 0

(* Fault: the next entry is taken after the oldest one is overwritten.     *)
AddLate(a) ==
  /\ head' = (head + 1) % max
  /\ entries' = [entries EXCEPT ![head] = a]
  /\ size' = IF size < max THEN size + 1 ELSE size

Add(a) ==
  /\ head' = (head + 1) % max
  /\ entries' = [entries EXCEPT ![head'] = a]
  /\ size' = IF size < max THEN size + 1 ELSE size

(* NthPreviousEntry, whose second result is ok.                            *)
Previous(n) == n < size

NthPreviousEntry(n) == entries[IF head < n THEN head + max - n ELSE head - n]

RingNext == \E a \in Lines : Add(a)

RingSpec == RingInit /\ [][RingNext]_ring

-----------------------------------------------------------------------------
latest == [n \in 1..size |-> NthPreviousEntry(n - 1)]

Latest == INSTANCE LatestLines

(* The ring is a list of the latest lines: NthPreviousEntry returns the    *)
(* value passed to the n-th previous call of Add, also while the ring is   *)
(* only partly filled and after head went round.                           *)
HistoryIsLatest == Latest!Spec
=============================================================================
