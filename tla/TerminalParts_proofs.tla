------------------------ MODULE TerminalParts_proofs ------------------------
(***************************************************************************)
(* Proofs about the parts of the terminal, for any glyphs, widths and      *)
(* height of the screen: what completion finds, and what the editor prints *)
(* when it moves and edits.  A tape is what was printed since the line     *)
(* began, one cell after another; the lemmas say what each function does   *)
(* to the tape and to the place of the cursor on it, wherever the terminal *)
(* wraps and scrolls.                                                      *)
(***************************************************************************)
EXTENDS Terminal, WellFoundedInduction, TLAPS

(* A non-empty set of natural numbers has a least element.                 *)
LEMMA NatMin ==
  ASSUME NEW T, T \subseteq Nat, T # {}
  PROVE  \E x \in T : \A y \in T : x <= y
<1>1. PICK x \in T : \A y \in T : ~(<<y, x>> \in OpToRel(<, Nat))
  BY NatLessThanWellFounded, WFMin, Zenon
<1>2. ASSUME NEW y \in T, ~(x <= y) PROVE FALSE
  <2>1. y \in Nat /\ x \in Nat /\ y < x
    BY <1>2
  <2>2. <<y, x>> \in OpToRel(<, Nat)
    BY <2>1 DEF OpToRel
  <2> QED BY <1>1, <2>2, Zenon
<1> QED BY <1>2

(* Induction, for a set in the place of a predicate.                       *)
LEMMA Induct ==
  ASSUME NEW T, 0 \in T, \A n \in Nat : n \in T => n + 1 \in T
  PROVE  Nat \subseteq T
<1> SUFFICES ASSUME Nat \ T # {} PROVE FALSE
  OBVIOUS
<1>1. PICK x \in Nat \ T : \A y \in Nat \ T : x <= y
  BY NatMin, Zenon
<1>2. x # 0 /\ x - 1 \in Nat /\ x - 1 \in T
  BY <1>1
<1> QED BY <1>1, <1>2

(* An element of a sequence.                                               *)
LEMMA Element ==
  ASSUME NEW S, NEW s \in Seq(S), NEW i \in 1..Len(s)
  PROVE  s[i] \in S
OBVIOUS

(* A sequence, from its elements.                                          *)
LEMMA MadeSeq ==
  ASSUME NEW S, NEW n \in Nat, NEW f, f = [i \in 1..n |-> f[i]], \A i \in 1..n : f[i] \in S
  PROVE  f \in Seq(S)
OBVIOUS

(* Sequences that have the same elements.                                  *)
LEMMA SameSeq ==
  ASSUME NEW S, NEW s \in Seq(S), NEW u \in Seq(S), Len(s) = Len(u), \A i \in 1..Len(s) : s[i] = u[i]
  PROVE  s = u
<1>1. s = [i \in 1..Len(s) |-> s[i]] /\ u = [i \in 1..Len(u) |-> u[i]]
  OBVIOUS
<1> QED BY <1>1

-----------------------------------------------------------------------------
(* The place where row y begins, counted from the prompt.                  *)
Row(y, w) == y * w

(* Row y begins w places after row y - 1.                                  *)
LEMMA RowNat ==
  ASSUME NEW y \in Nat, NEW w \in Nat
  PROVE  Row(y, w) \in Nat /\ Row(0, w) = 0 /\ Row(y + 1, w) = Row(y, w) + w
BY DEF Row

(* A row ends before a later one begins.                                   *)
LEMMA RowOrder ==
  ASSUME NEW y \in Nat, NEW z \in Nat, NEW w \in Nat, y < z
  PROVE  Row(y, w) + w <= Row(z, w)
<1>1. PICK k \in Nat : z = y + 1 + k
  <2>1. z - y - 1 \in Nat /\ z = y + 1 + (z - y - 1)
    OBVIOUS
  <2> QED BY <2>1
<1>2. k * w \in Nat /\ (y + 1 + k) * w = y * w + w + k * w
  OBVIOUS
<1>3. y * w \in Nat
  OBVIOUS
<1> QED BY <1>1, <1>2, <1>3 DEF Row

(* A place is in one row and one column.                                   *)
LEMMA RowUnique ==
  ASSUME NEW w \in Nat, NEW y \in Nat, NEW x \in Nat, x < w,
         NEW z \in Nat, NEW u \in Nat, u < w, Row(y, w) + x = Row(z, w) + u
  PROVE  y = z /\ x = u
<1>1. Row(y, w) \in Nat /\ Row(z, w) \in Nat
  BY RowNat
<1>2. ASSUME y < z PROVE FALSE
  <2>1. Row(y, w) + w <= Row(z, w)
    BY <1>2, RowOrder
  <2> QED BY <1>1, <2>1
<1>3. ASSUME z < y PROVE FALSE
  <2>1. Row(z, w) + w <= Row(y, w)
    BY <1>3, RowOrder
  <2> QED BY <1>1, <2>1
<1>4. y = z
  BY <1>2, <1>3
<1> QED BY <1>1, <1>4

(* The row and the column of place i.                                      *)
LEMMA RowOf ==
  ASSUME NEW w \in Nat \ {0}, NEW i \in Nat
  PROVE  /\ i \div w \in Nat /\ i % w \in Nat /\ i % w < w
         /\ Row(i \div w, w) + (i % w) = i
<1>1. i \div w \in Nat
  BY SMT
<1>2. i % w \in 0..(w - 1)
  BY SMT
<1>3. i = w * (i \div w) + (i % w)
  BY SMT
<1>4. w * (i \div w) = (i \div w) * w
  BY <1>1
<1>5. i = (i \div w) * w + (i % w)
  BY <1>3, <1>4
<1> QED BY <1>1, <1>2, <1>5 DEF Row

(* Rows add up.                                                            *)
LEMMA RowSum ==
  ASSUME NEW y \in Nat, NEW z \in Nat, NEW w \in Nat
  PROVE  Row(y + z, w) = Row(y, w) + Row(z, w)
BY DEF Row

(* n places after the cursor, where the screen's cursor is.                *)
LEMMA RowAdvance ==
  ASSUME NEW w \in Nat \ {0}, NEW cx \in Nat, cx < w, NEW cy \in Nat, NEW n \in Nat
  PROVE  LET x == (cx + n) % w
             y == cy + ((cx + n) \div w)
         IN /\ x \in Nat /\ y \in Nat /\ x < w
            /\ Row(cy, w) + cx + n = Row(y, w) + x
<1> DEFINE X == cx + n
           d == X \div w
           x == X % w
           y == cy + d
<1>1. X \in Nat /\ w \in Nat
  OBVIOUS
<1>2. d \in Nat /\ x \in Nat /\ x < w /\ Row(d, w) + x = X
  <2> HIDE DEF X
  <2> QED BY <1>1, RowOf, Zenon
<1>3. Row(cy, w) \in Nat /\ Row(d, w) \in Nat /\ Row(y, w) = Row(cy, w) + Row(d, w)
  <2>1. d \in Nat
    BY <1>2
  <2> HIDE DEF d
  <2>2. Row(cy + d, w) = Row(cy, w) + Row(d, w)
    BY <1>1, <2>1, RowSum
  <2>3. Row(cy, w) \in Nat /\ Row(d, w) \in Nat
    BY <1>1, <2>1, RowNat, Zenon
  <2> QED BY <2>2, <2>3
<1>4. Row(cy, w) + cx + n = Row(y, w) + x
  <2> HIDE DEF d, x, y
  <2> QED BY <1>2, <1>3
<1>5. y \in Nat
  BY <1>2
<1> QED BY <1>2, <1>4, <1>5

(* The place one after the last column is the start of the next row.       *)
LEMMA RowWrap ==
  ASSUME NEW w \in Nat \ {0}, NEW py \in Nat
  PROVE  /\ py + 1 \in Nat /\ w - 1 \in Nat /\ w \in Nat /\ 0 < w
         /\ Row(py, w) + (w - 1) + 1 = Row(py + 1, w) + 0
BY RowNat

(* A later row begins at a later place.                                    *)
LEMMA RowMono ==
  ASSUME NEW y \in Nat, NEW z \in Nat, NEW w \in Nat, y <= z
  PROVE  Row(y, w) <= Row(z, w)
<1>1. CASE y = z
  BY <1>1, RowNat
<1>2. CASE y < z
  BY <1>2, RowOrder, RowNat
<1> QED BY <1>1, <1>2

-----------------------------------------------------------------------------
(* Words: the cursor stays in the line.                                    *)

(* First, of a non-empty set of naturals.                                  *)
LEMMA FirstIn ==
  ASSUME NEW S, S \subseteq Nat, S # {}
  PROVE  First(S) \in S /\ \A q \in S : First(S) <= q
<1>1. \E x \in S : \A y \in S : x <= y
  BY NatMin, Zenon
<1> QED BY <1>1, Zenon DEF First

(* A set of numbers up to n has a greatest element.                        *)
LEMMA NatMax ==
  ASSUME NEW n \in Nat, NEW S, S \subseteq 0..n, S # {}
  PROVE  \E x \in S : \A y \in S : y <= x
<1> DEFINE T == {k \in Nat : n - k \in S}
<1>1. PICK z : z \in S
  OBVIOUS
<1>2. n - z \in Nat /\ n - (n - z) = z
  BY <1>1
<1>3. n - z \in T
  BY <1>1, <1>2
<1>4. T # {} /\ T \subseteq Nat
  BY <1>3
<1> HIDE DEF T
<1>5. PICK k \in T : \A j \in T : k <= j
  BY <1>4, NatMin, Zenon
<1>6. k \in Nat /\ n - k \in S
  BY <1>5 DEF T
<1>7. ASSUME NEW y \in S PROVE y <= n - k
  <2>1. y \in 0..n
    OBVIOUS
  <2>2. n - y \in Nat /\ n - (n - y) = y
    BY <2>1
  <2>3. n - y \in T
    BY <2>2 DEF T
  <2>4. k <= n - y
    BY <1>5, <2>3
  <2> QED BY <1>6, <2>1, <2>4
<1> QED BY <1>6, <1>7

(* A word to the left begins at or before the cursor.                      *)
LEMMA LeftWord ==
  ASSUME t.pos \in Nat
  PROVE  leftWord \in Nat /\ leftWord <= t.pos
<1> DEFINE skip == {p \in 1..(t.pos - 1) : ~IsSpace(p)}
           last == IF skip = {} THEN 0 ELSE CHOOSE p \in skip : \A q \in skip : q <= p
           gaps == {p \in 1..last : IsSpace(p)}
           most == CHOOSE p \in gaps : \A q \in gaps : q <= p
<1>1. leftWord = IF gaps = {} THEN 0 ELSE 1 + most
  BY DEF leftWord
<1>2. last \in Nat /\ (last = 0 \/ last <= t.pos - 1)
  <2>1. CASE skip = {}
    BY <2>1
  <2>2. CASE skip # {}
    <3>1. skip \subseteq 0..t.pos
      OBVIOUS
    <3>2. \E p \in skip : \A q \in skip : q <= p
      <4> HIDE DEF skip
      <4> QED BY <2>2, <3>1, NatMax, Zenon
    <3>3. last \in skip
      <4> HIDE DEF skip
      <4> QED BY <2>2, <3>2
    <3> QED BY <3>3
  <2> QED BY <2>1, <2>2
<1> HIDE DEF last
<1>3. CASE gaps = {}
  BY <1>1, <1>3
<1>4. CASE gaps # {}
  <2>1. gaps \subseteq 0..last
    BY <1>2
  <2>2. most \in gaps
    <3> HIDE DEF gaps
    <3>1. \E p \in gaps : \A q \in gaps : q <= p
      BY <1>2, <1>4, <2>1, NatMax, Zenon
    <3> QED BY <3>1
  <2>3. most \in 1..last
    BY <2>2
  <2> HIDE DEF most
  <2> QED BY <1>1, <1>2, <1>4, <2>3
<1> QED BY <1>3, <1>4

(* A word to the right begins at or before the end of the line.            *)
LEMMA RightWord ==
  ASSUME t.pos \in Nat, t.line \in Seq(Glyphs), t.pos <= Len(t.line)
  PROVE  rightWord \in Nat /\ rightWord <= Len(t.line)
<1> DEFINE len == Len(t.line)
           A == {len} \union {p \in t.pos..(len - 1) : IsSpace(p)}
           gap == First(A)
           B == {len} \union {p \in gap..(len - 1) : ~IsSpace(p)}
<1>1. rightWord = First(B)
  BY DEF rightWord
<1>2. len \in Nat
  OBVIOUS
<1> HIDE DEF len
<1>3. A \subseteq 0..len /\ A # {} /\ A \subseteq Nat
  BY <1>2
<1> HIDE DEF A
<1>4. gap \in Nat
  BY <1>3, FirstIn, Zenon
<1> HIDE DEF gap
<1>5. B \subseteq 0..len /\ B # {} /\ B \subseteq Nat
  BY <1>2, <1>4
<1> HIDE DEF B
<1>6. First(B) \in B
  BY <1>5, FirstIn, Zenon
<1>7. First(B) \in 0..len
  BY <1>5, <1>6, Zenon
<1> QED BY <1>1, <1>2, <1>7 DEF len

-----------------------------------------------------------------------------
(* The completion.                                                         *)

(* Lines are the sequences of glyphs that fit the limit.                   *)
LEMMA InLines ==
  ASSUME NEW line
  PROVE  line \in Lines <=> line \in Seq(Glyphs) /\ Len(line) <= maxLineLength
<1>1. maxLineLength \in Nat
  BY ConstAssumption
<1>2. ASSUME line \in Lines PROVE line \in Seq(Glyphs) /\ Len(line) <= maxLineLength
  <2>1. PICK n \in 0..maxLineLength : line \in [1..n -> Glyphs]
    BY <1>2, TextAssumption
  <2>2. n \in Nat
    BY <1>1
  <2>3. line \in Seq(Glyphs) /\ Len(line) = n
    BY <2>1, <2>2
  <2> QED BY <1>1, <2>1, <2>3
<1>3. ASSUME line \in Seq(Glyphs), Len(line) <= maxLineLength PROVE line \in Lines
  <2>1. Len(line) \in 0..maxLineLength /\ line \in [1..Len(line) -> Glyphs]
    BY <1>1, <1>3
  <2> QED BY <2>1, TextAssumption
<1> QED BY <1>2, <1>3

(* What FilterPrefix has kept after each string.                           *)
LEMMA FilterSteps ==
  ASSUME NEW strs, NEW line, Len(strs) \in Nat
  PROVE  \E f : /\ FilterPrefix(strs, line) = f[Len(strs)]
                /\ f[0] = <<>>
                /\ \A n \in 1..Len(strs) : f[n] = FilterStep(f[n - 1], strs[n], line)
<1> DEFINE Runs(n, f) ==
      f = [i \in 0..n |-> IF i = 0 THEN <<>> ELSE FilterStep(f[i - 1], strs[i], line)]
           T == {n \in Nat : \E f : Runs(n, f)}
<1>1. 0 \in T
  <2>1. Runs(0, [i \in 0..0 |-> <<>>])
    OBVIOUS
  <2> QED BY <2>1, Zenon
<1>2. ASSUME NEW n \in Nat, n \in T PROVE n + 1 \in T
  <2>1. PICK f : Runs(n, f)
    BY <1>2
  <2> DEFINE g == [i \in 0..(n + 1) |-> IF i = n + 1 THEN FilterStep(f[n], strs[n + 1], line) ELSE f[i]]
  <2>2. \A i \in 0..n : f[i] = IF i = 0 THEN <<>> ELSE FilterStep(f[i - 1], strs[i], line)
    BY <2>1
  <2>3. \A i \in 0..n : g[i] = f[i]
    OBVIOUS
  <2>4. g[n + 1] = FilterStep(f[n], strs[n + 1], line) /\ g = [i \in 0..(n + 1) |-> g[i]]
    OBVIOUS
  <2> HIDE DEF g
  <2>5. ASSUME NEW i \in 0..(n + 1)
        PROVE  g[i] = IF i = 0 THEN <<>> ELSE FilterStep(g[i - 1], strs[i], line)
    <3>1. CASE i = n + 1
      <4>1. i # 0 /\ i - 1 = n /\ g[n] = f[n]
        BY <2>3, <3>1
      <4> QED BY <2>4, <3>1, <4>1
    <3>2. CASE i \in 0..n
      <4>1. g[i] = f[i] /\ (i # 0 => g[i - 1] = f[i - 1])
        BY <2>3, <3>2
      <4> QED BY <2>2, <3>2, <4>1
    <3> QED BY <3>1, <3>2
  <2>6. Runs(n + 1, g)
    BY <2>4, <2>5, Zenon
  <2> QED BY <2>6
<1>3. Len(strs) \in T
  BY <1>1, <1>2, Induct, Zenon
<1> DEFINE f == CHOOSE f : Runs(Len(strs), f)
<1>4. Runs(Len(strs), f)
  BY <1>3, Zenon
<1>5. FilterPrefix(strs, line) = f[Len(strs)]
  BY DEF FilterPrefix
<1> HIDE DEF f
<1>6. f[0] = <<>> /\ \A n \in 1..Len(strs) : f[n] = FilterStep(f[n - 1], strs[n], line)
  BY <1>4
<1> QED BY <1>5, <1>6

(* FilterPrefix keeps host names that start with the line.                 *)
LEMMA FilterType ==
  ASSUME NEW S, NEW strs \in Seq(S), NEW line
  PROVE  /\ FilterPrefix(strs, line) \in Seq(S)
         /\ \A i \in 1..Len(FilterPrefix(strs, line)) : HasPrefix(FilterPrefix(strs, line)[i], line)
<1> DEFINE Kept(r) == r \in Seq(S) /\ \A i \in 1..Len(r) : HasPrefix(r[i], line)
<1>1. Len(strs) \in Nat
  OBVIOUS
<1>2. PICK f : /\ FilterPrefix(strs, line) = f[Len(strs)]
               /\ f[0] = <<>>
               /\ \A n \in 1..Len(strs) : f[n] = FilterStep(f[n - 1], strs[n], line)
  BY <1>1, FilterSteps
<1> DEFINE T == {n \in Nat : n <= Len(strs) => Kept(f[n])}
<1>3. 0 \in T
  <2>1. Kept(<<>>)
    OBVIOUS
  <2> HIDE DEF Kept
  <2> QED BY <1>2, <2>1
<1>4. ASSUME NEW n \in Nat, n \in T PROVE n + 1 \in T
  <2> SUFFICES ASSUME n + 1 <= Len(strs) PROVE Kept(f[n + 1])
    OBVIOUS
  <2> DEFINE str == strs[n + 1]
             old == f[n]
  <2>1. f[n + 1] = FilterStep(old, str, line) /\ str \in S
    <3>1. n + 1 \in 1..Len(strs) /\ (n + 1) - 1 = n
      BY <1>1
    <3> QED BY <1>2, <3>1, Element
  <2>2. Kept(old)
    BY <1>1, <1>4
  <2> HIDE DEF str, old
  <2>3. CASE HasPrefix(str, line)
    <3>1. f[n + 1] = Append(old, str)
      BY <2>1, <2>3 DEF FilterStep
    <3>2. /\ Append(old, str) \in Seq(S) /\ Len(Append(old, str)) = Len(old) + 1
          /\ \A i \in 1..(Len(old) + 1) : Append(old, str)[i] = IF i <= Len(old) THEN old[i] ELSE str
      BY <2>1, <2>2
    <3>3. ASSUME NEW i \in 1..(Len(old) + 1) PROVE HasPrefix(Append(old, str)[i], line)
      <4>1. Append(old, str)[i] = IF i <= Len(old) THEN old[i] ELSE str
        BY <3>2
      <4>2. i <= Len(old) => i \in 1..Len(old)
        BY <2>2
      <4> QED BY <2>2, <2>3, <4>1, <4>2, Zenon
    <3> QED BY <3>1, <3>2, <3>3
  <2>4. CASE ~HasPrefix(str, line)
    BY <2>1, <2>2, <2>4 DEF FilterStep
  <2> QED BY <2>3, <2>4
<1>5. Len(strs) \in T
  <2> HIDE DEF T
  <2> QED BY <1>1, <1>3, <1>4, Induct
<1>6. Kept(f[Len(strs)])
  BY <1>1, <1>5
<1> QED BY <1>2, <1>6

(* SubSeq of a prefix.                                                     *)
LEMMA Prefixes ==
  ASSUME NEW S, NEW x \in Seq(S), NEW k \in Nat, k <= Len(x), NEW j \in Nat, j <= k
  PROVE  /\ SubSeq(x, 1, k) \in Seq(S) /\ Len(SubSeq(x, 1, k)) = k
         /\ SubSeq(SubSeq(x, 1, k), 1, j) = SubSeq(x, 1, j)
<1> DEFINE y == SubSeq(x, 1, k)
<1>1. y \in Seq(S) /\ Len(y) = k /\ \A i \in 1..k : y[i] = x[i]
  OBVIOUS
<1>2. SubSeq(x, 1, j) \in Seq(S) /\ Len(SubSeq(x, 1, j)) = j /\ \A i \in 1..j : SubSeq(x, 1, j)[i] = x[i]
  OBVIOUS
<1> HIDE DEF y
<1>3. SubSeq(y, 1, j) \in Seq(S) /\ Len(SubSeq(y, 1, j)) = j /\ \A i \in 1..j : SubSeq(y, 1, j)[i] = y[i]
  BY <1>1
<1>4. SubSeq(y, 1, j) = SubSeq(x, 1, j)
  <2> DEFINE u == SubSeq(y, 1, j)
             v == SubSeq(x, 1, j)
  <2>1. u \in Seq(S) /\ v \in Seq(S) /\ Len(u) = Len(v) /\ \A i \in 1..Len(u) : u[i] = v[i]
    BY <1>1, <1>2, <1>3
  <2> HIDE DEF u, v
  <2>2. u = v
    BY <2>1, SameSeq
  <2> QED BY <2>2 DEF u, v
<1> QED BY <1>1, <1>4 DEF y

(* minLength is the length of a shortest string.                           *)
LEMMA MinLength ==
  ASSUME NEW strs \in Seq(Seq(Glyphs)), Len(strs) > 0
  PROVE  /\ minLength(strs) \in Nat
         /\ \A i \in 1..Len(strs) : minLength(strs) <= Len(strs[i])
         /\ \E i \in 1..Len(strs) : minLength(strs) = Len(strs[i])
<1> DEFINE S == {Len(strs[i]) : i \in 1..Len(strs)}
<1>1. \A i \in 1..Len(strs) : strs[i] \in Seq(Glyphs)
  BY Element
<1>2. \A i \in 1..Len(strs) : Len(strs[i]) \in Nat
  BY <1>1
<1>3. S \subseteq Nat
  BY <1>2
<1>4. 1 \in 1..Len(strs)
  OBVIOUS
<1>5. Len(strs[1]) \in S
  BY <1>4
<1>6. First(S) \in S /\ \A q \in S : First(S) <= q
  <2> HIDE DEF S
  <2> QED BY <1>3, <1>5, FirstIn, Zenon
<1>7. minLength(strs) = First(S)
  BY DEF minLength
<1>8. minLength(strs) \in Nat
  BY <1>3, <1>6, <1>7
<1> QED BY <1>6, <1>7, <1>8, Zenon

(* What starts every name starts every name however short it is cut.       *)
LEMMA ShorterPrefix ==
  ASSUME NEW strs \in Seq(Seq(Glyphs)), Len(strs) > 0, NEW k \in Nat, k <= minLength(strs),
         isCommonPrefix(strs, k), NEW j \in Nat, j <= k
  PROVE  isCommonPrefix(strs, j)
<1>1. minLength(strs) \in Nat /\ \A i \in 1..Len(strs) : minLength(strs) <= Len(strs[i])
  BY MinLength
<1>2. ASSUME NEW i \in 1..Len(strs)
      PROVE  strs[i] \in Seq(Glyphs) /\ SubSeq(SubSeq(strs[i], 1, k), 1, j) = SubSeq(strs[i], 1, j)
  <2> DEFINE x == strs[i]
  <2>1. x \in Seq(Glyphs)
    BY Element
  <2>2. minLength(strs) <= Len(x)
    BY <1>1
  <2> HIDE DEF x
  <2>3. Len(x) \in Nat
    BY <2>1
  <2>4. k <= Len(x)
    BY <1>1, <2>2, <2>3
  <2>5. SubSeq(SubSeq(x, 1, k), 1, j) = SubSeq(x, 1, j)
    BY <2>1, <2>4, Prefixes
  <2> QED BY <2>1, <2>5 DEF x
<1>3. 1 \in 1..Len(strs)
  OBVIOUS
<1> SUFFICES ASSUME NEW i \in 1..Len(strs) PROVE SubSeq(strs[i], 1, j) = SubSeq(strs[1], 1, j)
  BY DEF isCommonPrefix
<1>4. SubSeq(strs[i], 1, k) = SubSeq(strs[1], 1, k)
  BY DEF isCommonPrefix
<1>5. /\ SubSeq(SubSeq(strs[i], 1, k), 1, j) = SubSeq(strs[i], 1, j)
      /\ SubSeq(SubSeq(strs[1], 1, k), 1, j) = SubSeq(strs[1], 1, j)
  BY <1>2, <1>3
<1> QED BY <1>4, <1>5, Zenon

(* The binary search after n rounds.                                       *)
Bisected(strs, a, n) ==
  LET most == minLength(strs)
  IN /\ a = [low |-> a.low, high |-> a.high] /\ a.low \in Nat /\ a.high \in Nat
     /\ a.low <= a.high /\ a.high <= most
     /\ a.low = a.high \/ a.high - a.low + n <= most
     /\ isCommonPrefix(strs, a.low)
     /\ \A k \in Nat : a.high < k /\ k <= most => ~isCommonPrefix(strs, k)

(* A round of the binary search keeps what it has found.                   *)
LEMMA BisectRound ==
  ASSUME NEW strs \in Seq(Seq(Glyphs)), Len(strs) > 0, NEW n \in Nat, NEW a, Bisected(strs, a, n)
  PROVE  Bisected(strs, Bisect(strs, a), n + 1)
<1> DEFINE lo == a.low
           hi == a.high
           mid == (hi - lo + 1) \div 2 + lo
           most == minLength(strs)
           r == Bisect(strs, a)
<1>1. /\ a = [low |-> lo, high |-> hi] /\ lo \in Nat /\ hi \in Nat /\ lo <= hi /\ hi <= most
      /\ lo = hi \/ hi - lo + n <= most
  BY DEF Bisected
<1>2. isCommonPrefix(strs, lo) /\ \A k \in Nat : hi < k /\ k <= most => ~isCommonPrefix(strs, k)
  BY DEF Bisected
<1>3. most \in Nat
  BY MinLength
<1>4. r = IF lo >= hi THEN a ELSE IF isCommonPrefix(strs, mid) THEN [a EXCEPT !.low = mid] ELSE [a EXCEPT !.high = mid - 1]
  BY DEF Bisect
<1> HIDE DEF lo, hi, most, r
<1>5. CASE lo >= hi
  <2>1. r = a /\ lo = hi
    BY <1>1, <1>4, <1>5
  <2> QED BY <1>1, <1>2, <2>1 DEF Bisected, r, lo, hi, most
<1>6. CASE lo < hi
  <2>1. mid \in Nat /\ lo < mid /\ mid <= hi
    BY <1>1, <1>6
  <2>2. ~(lo >= hi) /\ hi - lo + n <= most
    BY <1>1, <1>6
  <2> HIDE DEF mid
  <2>3. CASE isCommonPrefix(strs, mid)
    <3>1. r = [low |-> mid, high |-> hi]
      BY <1>1, <1>4, <2>2, <2>3
    <3>2. mid <= hi /\ (mid = hi \/ hi - mid + (n + 1) <= most)
      BY <1>1, <1>3, <2>1, <2>2
    <3> QED BY <1>1, <1>2, <2>1, <2>3, <3>1, <3>2 DEF Bisected, r, most
  <2>4. CASE ~isCommonPrefix(strs, mid)
    <3> DEFINE up == mid - 1
    <3>1. r = [low |-> lo, high |-> up]
      BY <1>1, <1>4, <2>2, <2>4
    <3>2. up \in Nat /\ lo <= up /\ up <= most /\ up - lo + (n + 1) <= most /\ mid <= most
      BY <1>1, <1>3, <2>1, <2>2
    <3>3. ASSUME NEW k \in Nat, up < k, k <= most PROVE ~isCommonPrefix(strs, k)
      <4>1. mid <= k
        BY <2>1, <3>3
      <4> QED BY <2>1, <2>4, <3>3, <4>1, ShorterPrefix DEF most
    <3> HIDE DEF up
    <3> QED BY <1>2, <1>1, <3>1, <3>2, <3>3 DEF Bisected, r, most
  <2> QED BY <2>3, <2>4
<1>7. lo >= hi \/ lo < hi
  BY <1>1
<1> QED BY <1>5, <1>6, <1>7

(* The bounds of the binary search after each round.                       *)
LEMMA BisectSteps ==
  ASSUME NEW strs, minLength(strs) \in Nat
  PROVE  \E f : /\ LongestCommonPrefix(strs) = SubSeq(strs[1], 1, f[minLength(strs)].low)
                /\ f[0] = [low |-> 0, high |-> minLength(strs)]
                /\ \A n \in 1..minLength(strs) : f[n] = Bisect(strs, f[n - 1])
<1> DEFINE Runs(n, f) ==
      f = [i \in 0..n |-> IF i = 0 THEN [low |-> 0, high |-> minLength(strs)] ELSE Bisect(strs, f[i - 1])]
           T == {n \in Nat : \E f : Runs(n, f)}
<1>1. 0 \in T
  <2>1. Runs(0, [i \in 0..0 |-> [low |-> 0, high |-> minLength(strs)]])
    OBVIOUS
  <2> QED BY <2>1, Zenon
<1>2. ASSUME NEW n \in Nat, n \in T PROVE n + 1 \in T
  <2>1. PICK f : Runs(n, f)
    BY <1>2
  <2> DEFINE g == [i \in 0..(n + 1) |-> IF i = n + 1 THEN Bisect(strs, f[n]) ELSE f[i]]
  <2>2. \A i \in 0..n : f[i] = IF i = 0 THEN [low |-> 0, high |-> minLength(strs)] ELSE Bisect(strs, f[i - 1])
    BY <2>1
  <2>3. \A i \in 0..n : g[i] = f[i]
    OBVIOUS
  <2>4. g[n + 1] = Bisect(strs, f[n]) /\ g = [i \in 0..(n + 1) |-> g[i]]
    OBVIOUS
  <2> HIDE DEF g
  <2>5. ASSUME NEW i \in 0..(n + 1)
        PROVE  g[i] = IF i = 0 THEN [low |-> 0, high |-> minLength(strs)] ELSE Bisect(strs, g[i - 1])
    <3>1. CASE i = n + 1
      <4>1. i # 0 /\ i - 1 = n /\ g[n] = f[n]
        BY <2>3, <3>1
      <4> QED BY <2>4, <3>1, <4>1
    <3>2. CASE i \in 0..n
      <4>1. g[i] = f[i] /\ (i # 0 => g[i - 1] = f[i - 1])
        BY <2>3, <3>2
      <4> QED BY <2>2, <3>2, <4>1
    <3> QED BY <3>1, <3>2
  <2>6. Runs(n + 1, g)
    BY <2>4, <2>5, Zenon
  <2> QED BY <2>6
<1>3. minLength(strs) \in T
  BY <1>1, <1>2, Induct, Zenon
<1> DEFINE f == CHOOSE f : Runs(minLength(strs), f)
<1>4. Runs(minLength(strs), f)
  BY <1>3, Zenon
<1>5. LongestCommonPrefix(strs) = SubSeq(strs[1], 1, f[minLength(strs)].low)
  BY DEF LongestCommonPrefix
<1> HIDE DEF f
<1>6. f[0] = [low |-> 0, high |-> minLength(strs)] /\ \A n \in 1..minLength(strs) : f[n] = Bisect(strs, f[n - 1])
  BY <1>4
<1> QED BY <1>5, <1>6, Zenon

(* The search ends at the last length that all the strings share.          *)
LEMMA BisectEnds ==
  ASSUME NEW strs \in Seq(Seq(Glyphs)), Len(strs) > 0
  PROVE  \E n \in Nat : /\ LongestCommonPrefix(strs) = SubSeq(strs[1], 1, n)
                        /\ n <= minLength(strs) /\ isCommonPrefix(strs, n)
                        /\ \A k \in Nat : n < k /\ k <= minLength(strs) => ~isCommonPrefix(strs, k)
<1> DEFINE most == minLength(strs)
<1>1. most \in Nat
  BY MinLength
<1>2. PICK f : /\ LongestCommonPrefix(strs) = SubSeq(strs[1], 1, f[most].low)
               /\ f[0] = [low |-> 0, high |-> most]
               /\ \A n \in 1..most : f[n] = Bisect(strs, f[n - 1])
  BY <1>1, BisectSteps
<1> DEFINE T == {n \in Nat : n <= most => Bisected(strs, f[n], n)}
<1>3. 0 \in T
  <2> DEFINE a == f[0]
             z == 0
  <2>1. a = [low |-> z, high |-> most]
    BY <1>2
  <2>2. z \in Nat /\ z <= most /\ most <= most /\ most - z + 0 <= most /\ \A k \in Nat : ~(most < k /\ k <= most)
    BY <1>1
  <2>3. isCommonPrefix(strs, z)
    <3> SUFFICES ASSUME NEW i \in 1..Len(strs) PROVE SubSeq(strs[i], 1, 0) = SubSeq(strs[1], 1, 0)
      BY DEF isCommonPrefix
    <3>1. 1 \in 1..Len(strs)
      OBVIOUS
    <3>2. strs[i] \in Seq(Glyphs) /\ strs[1] \in Seq(Glyphs)
      BY <3>1, Element
    <3>3. \A x \in Seq(Glyphs) : SubSeq(x, 1, 0) = <<>>
      OBVIOUS
    <3> QED BY <3>2, <3>3
  <2> HIDE DEF a, z, most
  <2>4. a.low = z /\ a.high = most
    BY <2>1
  <2>5. Bisected(strs, a, 0)
    BY <1>1, <2>1, <2>2, <2>3, <2>4 DEF Bisected, most
  <2> QED BY <2>5 DEF a
<1>4. ASSUME NEW n \in Nat, n \in T PROVE n + 1 \in T
  <2> SUFFICES ASSUME n + 1 <= most PROVE Bisected(strs, f[n + 1], n + 1)
    OBVIOUS
  <2>1. n + 1 \in 1..most /\ (n + 1) - 1 = n /\ n <= most
    BY <1>1
  <2>2. f[n + 1] = Bisect(strs, f[n]) /\ Bisected(strs, f[n], n)
    BY <1>2, <1>4, <2>1
  <2> QED BY <2>2, BisectRound
<1>5. most \in T
  <2> HIDE DEF T
  <2> QED BY <1>1, <1>3, <1>4, Induct, Zenon
<1>6. Bisected(strs, f[most], most)
  BY <1>1, <1>5
<1> DEFINE n == f[most].low
<1>7. n \in Nat /\ f[most].high = n
  <2> DEFINE h == f[most].high
  <2>1. n \in Nat /\ h \in Nat /\ n <= h /\ (n = h \/ h - n + most <= most)
    BY <1>6 DEF Bisected
  <2> HIDE DEF n, h, most
  <2>2. n = h
    BY <1>1, <2>1
  <2> QED BY <2>1, <2>2 DEF h
<1>8. n <= most /\ isCommonPrefix(strs, n) /\ \A k \in Nat : n < k /\ k <= most => ~isCommonPrefix(strs, k)
  BY <1>6, <1>7 DEF Bisected
<1> QED BY <1>2, <1>7, <1>8, Zenon

(* LongestCommonPrefix returns what all the names start with, and there    *)
(* is nothing longer they all start with: the binary search over the       *)
(* length is right for every list.                                         *)
THEOREM LongestPrefix ==
  ASSUME NEW strs \in Seq(Seq(Glyphs)), Len(strs) > 0
  PROVE  LET p == LongestCommonPrefix(strs)
         IN /\ p \in Seq(Glyphs)
            /\ \A i \in 1..Len(strs) : HasPrefix(strs[i], p)
            /\ \A q \in Seq(Glyphs) : (\A i \in 1..Len(strs) : HasPrefix(strs[i], q)) => HasPrefix(p, q)
<1> DEFINE p == LongestCommonPrefix(strs)
           most == minLength(strs)
<1>1. /\ most \in Nat
      /\ \A i \in 1..Len(strs) : most <= Len(strs[i])
      /\ \E i \in 1..Len(strs) : most = Len(strs[i])
  BY MinLength
<1>2. PICK n \in Nat : /\ p = SubSeq(strs[1], 1, n)
                       /\ n <= most /\ isCommonPrefix(strs, n)
                       /\ \A k \in Nat : n < k /\ k <= most => ~isCommonPrefix(strs, k)
  BY BisectEnds
<1> HIDE DEF p, most
<1>3. 1 \in 1..Len(strs)
  OBVIOUS
<1>4. \A i \in 1..Len(strs) : strs[i] \in Seq(Glyphs) /\ Len(strs[i]) \in Nat
  <2>1. ASSUME NEW i \in 1..Len(strs) PROVE strs[i] \in Seq(Glyphs)
    BY Element
  <2>2. \A x \in Seq(Glyphs) : Len(x) \in Nat
    OBVIOUS
  <2> QED BY <2>1, <2>2
<1>5. \A i \in 1..Len(strs) : n <= Len(strs[i])
  BY <1>1, <1>2, <1>4
<1> DEFINE x == strs[1]
<1>6. x \in Seq(Glyphs) /\ n <= Len(x) /\ n <= n
  BY <1>3, <1>4, <1>5
<1> HIDE DEF x
<1>7. p \in Seq(Glyphs) /\ Len(p) = n
  BY <1>2, <1>6, Prefixes DEF x
<1>8. ASSUME NEW i \in 1..Len(strs) PROVE HasPrefix(strs[i], p)
  <2>1. SubSeq(strs[i], 1, n) = p
    BY <1>2 DEF isCommonPrefix
  <2>2. Len(strs[i]) >= n
    BY <1>4, <1>5
  <2> QED BY <1>7, <2>1, <2>2 DEF HasPrefix
<1>9. ASSUME NEW q \in Seq(Glyphs), \A i \in 1..Len(strs) : HasPrefix(strs[i], q) PROVE HasPrefix(p, q)
  <2> DEFINE k == Len(q)
  <2>1. k \in Nat
    OBVIOUS
  <2>2. \A i \in 1..Len(strs) : k <= Len(strs[i]) /\ SubSeq(strs[i], 1, k) = q
    <3>1. ASSUME NEW i \in 1..Len(strs) PROVE k <= Len(strs[i]) /\ SubSeq(strs[i], 1, k) = q
      <4>1. Len(strs[i]) >= k /\ SubSeq(strs[i], 1, k) = q
        BY <1>9 DEF HasPrefix
      <4> HIDE DEF k
      <4> QED BY <1>4, <2>1, <4>1
    <3> QED BY <3>1
  <2> HIDE DEF k
  <2>3. k <= most
    BY <1>1, <2>2
  <2>4. isCommonPrefix(strs, k)
    BY <1>3, <2>2, Zenon DEF isCommonPrefix
  <2>5. k <= n
    BY <1>2, <2>1, <2>3, <2>4
  <2>6. SubSeq(SubSeq(x, 1, n), 1, k) = SubSeq(x, 1, k)
    BY <1>6, <2>1, <2>5, Prefixes
  <2>7. SubSeq(p, 1, k) = q
    BY <1>2, <1>3, <2>2, <2>6, Zenon DEF x
  <2>8. Len(p) >= k
    BY <1>7, <2>1, <2>5
  <2> QED BY <2>7, <2>8 DEF HasPrefix, k
<1> QED BY <1>7, <1>8, <1>9 DEF p

(* The line a completion returns starts with the line that was typed: the  *)
(* callback never takes away a character, whatever the host names are.     *)
THEOREM CompletionExtends ==
  ASSUME NEW line \in Seq(Glyphs), FilterPrefix(Suggestions, line) # <<>>
  PROVE  /\ HasPrefix(LongestCommonPrefix(FilterPrefix(Suggestions, line)), line)
         /\ LongestCommonPrefix(FilterPrefix(Suggestions, line)) \in Lines
<1> DEFINE sugs == FilterPrefix(Suggestions, line)
           p == LongestCommonPrefix(sugs)
<1>1. sugs \in Seq(Lines) /\ \A i \in 1..Len(sugs) : HasPrefix(sugs[i], line)
  BY TextAssumption, FilterType
<1>2. sugs # <<>>
  OBVIOUS
<1> HIDE DEF sugs
<1>3. Len(sugs) \in Nat /\ Len(sugs) > 0 /\ 1 \in 1..Len(sugs)
  BY <1>1, <1>2
<1>4. \A i \in 1..Len(sugs) : sugs[i] \in Lines
  BY <1>1, Element
<1>5. sugs \in Seq(Seq(Glyphs))
  <2>1. \A i \in 1..Len(sugs) : sugs[i] \in Seq(Glyphs)
    BY <1>4, InLines
  <2> QED BY <1>1, <2>1
<1>6. /\ p \in Seq(Glyphs)
      /\ \A i \in 1..Len(sugs) : HasPrefix(sugs[i], p)
      /\ \A q \in Seq(Glyphs) : (\A i \in 1..Len(sugs) : HasPrefix(sugs[i], q)) => HasPrefix(p, q)
  BY <1>3, <1>5, LongestPrefix
<1> HIDE DEF p
<1>7. HasPrefix(p, line)
  BY <1>1, <1>6
<1>8. p \in Lines
  <2>1. sugs[1] \in Seq(Glyphs) /\ Len(sugs[1]) <= maxLineLength /\ Len(sugs[1]) >= Len(p)
    BY <1>3, <1>4, <1>6, InLines DEF HasPrefix
  <2> DEFINE x == sugs[1]
  <2>2. Len(x) \in Nat /\ Len(p) \in Nat /\ Len(x) <= maxLineLength /\ Len(x) >= Len(p) /\ maxLineLength \in Nat
    BY <1>6, <2>1, ConstAssumption
  <2> HIDE DEF x
  <2>3. Len(p) <= maxLineLength
    BY <2>2
  <2> QED BY <1>6, <2>3, InLines
<1> QED BY <1>7, <1>8 DEF p, sugs

(* A cell of Pretty has room for every name.                               *)
LEMMA CellFits ==
  ASSUME NEW strs \in Seq(Lines), Len(strs) > 0, strs[1] # <<>>
  PROVE  Cell(strs) \in Nat \ {0} /\ \A i \in 1..Len(strs) : Len(strs[i]) + Gap <= Cell(strs)
<1> DEFINE S == {Len(strs[i]) : i \in 1..Len(strs)}
           Longest(i) == \A j \in 1..Len(strs) : Len(strs[j]) <= Len(strs[i])
           c == CHOOSE i \in 1..Len(strs) : Longest(i)
<1>1. maxLineLength \in Nat /\ Gap \in Nat
  BY ConstAssumption
<1>2. ASSUME NEW i \in 1..Len(strs) PROVE Len(strs[i]) \in 0..maxLineLength /\ strs[i] \in Seq(Glyphs)
  <2> DEFINE x == strs[i]
  <2>1. x \in Lines
    BY Element
  <2> HIDE DEF x
  <2>2. x \in Seq(Glyphs) /\ Len(x) <= maxLineLength
    BY <2>1, InLines
  <2>3. Len(x) \in Nat
    BY <2>2
  <2>4. Len(x) \in 0..maxLineLength
    BY <1>1, <2>2, <2>3
  <2> QED BY <2>2, <2>4 DEF x
<1>3. 1 \in 1..Len(strs)
  OBVIOUS
<1>4. S \subseteq 0..maxLineLength /\ Len(strs[1]) \in S
  BY <1>2, <1>3
<1>5. PICK m \in S : \A y \in S : y <= m
  <2> HIDE DEF S
  <2> QED BY <1>1, <1>4, NatMax, Zenon
<1>6. \E i \in 1..Len(strs) : Longest(i)
  BY <1>5, Zenon
<1>7. c \in 1..Len(strs) /\ Longest(c)
  <2> HIDE DEF Longest
  <2> QED BY <1>6
<1>8. Cell(strs) = Gap + Len(strs[c])
  BY DEF Cell
<1> HIDE DEF c
<1> DEFINE l == Len(strs[c])
<1>9. l \in Nat
  BY <1>1, <1>2, <1>7
<1>10. \A i \in 1..Len(strs) : Len(strs[i]) <= l /\ Len(strs[i]) \in Nat
  BY <1>1, <1>2, <1>7
<1>11. Len(strs[1]) # 0
  BY <1>2, <1>3
<1> HIDE DEF l
<1>12. Gap + l \in Nat \ {0}
  <2>1. Len(strs[1]) <= l /\ Len(strs[1]) \in Nat
    BY <1>3, <1>10
  <2> QED BY <1>1, <1>9, <1>11, <2>1
<1>13. ASSUME NEW i \in 1..Len(strs) PROVE Len(strs[i]) + Gap <= Gap + l
  <2>1. Len(strs[i]) <= l /\ Len(strs[i]) \in Nat
    BY <1>10
  <2> QED BY <1>1, <1>9, <2>1
<1>14. Cell(strs) = Gap + l
  BY <1>8 DEF l
<1> QED BY <1>12, <1>13, <1>14

(* Pretty lays the names out in rows, or panics: no index is out of range. *)
LEMMA PrettyType ==
  ASSUME NEW strs \in Seq(Lines), Len(strs) > 0, strs[1] # <<>>, NEW width \in Nat \ {0},
         ~PrettyPanics(strs, width)
  PROVE  Pretty(strs, width) \in Seq(Seq(Glyphs))
<1> DEFINE n == Len(strs)
           cell == Cell(strs)
           perRow == IF n = 1 THEN 1 ELSE width \div cell
           count == (n - 1) \div perRow + 1
           inRow(r) == First({perRow, n - (r - 1) * perRow})
           at(r, x) == strs[(r - 1) * perRow + (x - 1) \div cell + 1]
           char(r, x) == IF (x - 1) % cell < Len(at(r, x)) THEN at(r, x)[((x - 1) % cell) + 1] ELSE Blank
           row(r) == [x \in 1..(inRow(r) * cell) |-> char(r, x)]
<1>1. Pretty(strs, width) = [r \in 1..count |-> row(r)]
  BY DEF Pretty
<1>2. cell \in Nat \ {0} /\ n \in Nat \ {0}
  BY CellFits
<1> HIDE DEF n, cell
<1>3. perRow \in Nat \ {0}
  <2>1. width \div cell \in Nat
    <3>1. width \in Nat /\ cell \in Nat \ {0}
      BY <1>2
    <3> QED BY <3>1, RowOf, Zenon
  <2>2. CASE n = 1
    BY <2>2
  <2>3. CASE n # 1
    <3>1. width \div cell # 0
      <4>1. n > 1
        BY <1>2, <2>3
      <4> QED BY <4>1, Zenon DEF PrettyPanics, n, cell
    <3> HIDE DEF cell
    <3> QED BY <2>1, <2>3, <3>1
  <2> QED BY <2>2, <2>3
<1> HIDE DEF perRow
<1> DEFINE d == (n - 1) \div perRow
           rem == (n - 1) % perRow
<1>4. n - 1 \in Nat
  BY <1>2
<1>5. d \in Nat /\ rem \in Nat /\ Row(d, perRow) + rem = n - 1
  BY <1>3, <1>4, RowOf, Zenon
<1> HIDE DEF d, rem
<1>6. count \in Nat /\ count = d + 1
  <2>1. count = d + 1
    BY DEF d
  <2> QED BY <1>5, <2>1
<1>7. ASSUME NEW r \in 1..count PROVE row(r) \in Seq(Glyphs)
  <2> DEFINE z == r - 1
             b == Row(z, perRow)
             k == inRow(r)
  <2>1. z \in Nat /\ z <= d /\ perRow \in Nat
    BY <1>3, <1>5, <1>6
  <2>2. b \in Nat /\ Row(d, perRow) \in Nat /\ b <= Row(d, perRow)
    <3> HIDE DEF z
    <3>1. b \in Nat /\ Row(d, perRow) \in Nat
      BY <1>5, <2>1, RowNat, Zenon
    <3>2. b <= Row(d, perRow)
      BY <1>5, <2>1, RowMono
    <3> QED BY <3>1, <3>2
  <2>3. (r - 1) * perRow = b
    BY DEF Row
  <2> HIDE DEF b
  <2>4. n - b \in Nat
    BY <1>2, <1>5, <2>2
  <2> DEFINE two == {perRow, n - b}
  <2>5. k = First(two)
    BY <2>3, Zenon
  <2>6. k \in Nat /\ k <= n - b
    <3>1. two \subseteq Nat /\ two # {} /\ n - b \in two
      BY <2>1, <2>4
    <3> HIDE DEF two
    <3>2. First(two) \in two /\ First(two) <= n - b
      BY <3>1, FirstIn, Zenon
    <3> QED BY <2>5, <3>1, <3>2, Zenon
  <2>7. inRow(r) * cell = Row(k, cell)
    BY DEF Row
  <2> HIDE DEF k
  <2>8. Row(k, cell) \in Nat
    BY <1>2, <2>6, RowNat, Zenon
  <2>9. ASSUME NEW x \in 1..Row(k, cell) PROVE char(r, x) \in Glyphs
    <3> DEFINE y == x - 1
               j == y \div cell
               i == y % cell
    <3>1. y \in Nat /\ y < Row(k, cell) /\ x - 1 = y
      BY <2>8
    <3> HIDE DEF y
    <3>2. j \in Nat /\ i \in Nat /\ Row(j, cell) + i = y
      BY <1>2, <3>1, RowOf, Zenon
    <3> HIDE DEF j, i
    <3>3. j < k
      <4>1. Row(j, cell) \in Nat
        BY <1>2, <3>2, RowNat
      <4>2. k <= j => Row(k, cell) <= Row(j, cell)
        BY <1>2, <2>6, <3>2, RowMono
      <4> QED BY <2>6, <2>8, <3>1, <3>2, <4>1, <4>2
    <3> DEFINE at0 == b + j + 1
               name == strs[at0]
    <3>4. at0 \in 1..n
      BY <1>2, <2>2, <2>4, <2>6, <3>2, <3>3
    <3>5. name \in Lines
      <4> HIDE DEF at0
      <4> QED BY <3>4, Element DEF n
    <3>6. char(r, x) = IF i < Len(name) THEN name[i + 1] ELSE Blank
      BY <2>3, <3>1 DEF i, j
    <3> HIDE DEF name, char
    <3>7. name \in Seq(Glyphs)
      BY <3>5, InLines
    <3>8. i < Len(name) => name[i + 1] \in Glyphs
      <4>1. i < Len(name) => i + 1 \in 1..Len(name)
        BY <3>2, <3>7
      <4> QED BY <3>7, <4>1, Element
    <3> QED BY <3>6, <3>8, TextAssumption
  <2>10. row(r) = [x \in 1..Row(k, cell) |-> char(r, x)]
    BY <2>7
  <2> HIDE DEF char, row
  <2> QED BY <2>8, <2>9, <2>10
<1> DEFINE f == [r \in 1..count |-> row(r)]
<1> HIDE DEF row, count
<1>8. f = [r \in 1..count |-> f[r]] /\ \A r \in 1..count : f[r] \in Seq(Glyphs)
  BY <1>7
<1> HIDE DEF f
<1>9. f \in Seq(Seq(Glyphs))
  BY <1>6, <1>8, MadeSeq
<1> QED BY <1>1, <1>9 DEF f

-----------------------------------------------------------------------------
(* Loops of the terminal, as sequences of screens.                         *)

(* The screens between the characters of a queue.                          *)
LEMMA QueueSteps ==
  ASSUME NEW s, NEW str, Len(str) \in Nat
  PROVE  \E f : /\ queue(s, str) = f[Len(str)]
                /\ f[0] = s
                /\ \A n \in 1..Len(str) : f[n] = Put(f[n - 1], str[n])
<1> DEFINE Runs(n, f) ==
      f = [i \in 0..n |-> IF i = 0 THEN s ELSE Put(f[i - 1], str[i])]
           T == {n \in Nat : \E f : Runs(n, f)}
<1>1. 0 \in T
  <2>1. Runs(0, [i \in 0..0 |-> s])
    OBVIOUS
  <2> QED BY <2>1, Zenon
<1>2. ASSUME NEW n \in Nat, n \in T PROVE n + 1 \in T
  <2>1. PICK f : Runs(n, f)
    BY <1>2
  <2> DEFINE g == [i \in 0..(n + 1) |-> IF i = n + 1 THEN Put(f[n], str[n + 1]) ELSE f[i]]
  <2>2. \A i \in 0..n : f[i] = IF i = 0 THEN s ELSE Put(f[i - 1], str[i])
    BY <2>1
  <2>3. \A i \in 0..n : g[i] = f[i]
    OBVIOUS
  <2>4. g[n + 1] = Put(f[n], str[n + 1]) /\ g = [i \in 0..(n + 1) |-> g[i]]
    OBVIOUS
  <2> HIDE DEF g
  <2>5. ASSUME NEW i \in 0..(n + 1)
        PROVE  g[i] = IF i = 0 THEN s ELSE Put(g[i - 1], str[i])
    <3>1. CASE i = n + 1
      <4>1. i # 0 /\ i - 1 = n /\ g[n] = f[n]
        BY <2>3, <3>1
      <4> QED BY <2>4, <3>1, <4>1
    <3>2. CASE i \in 0..n
      <4>1. g[i] = f[i] /\ (i # 0 => g[i - 1] = f[i - 1])
        BY <2>3, <3>2
      <4> QED BY <2>2, <3>2, <4>1
    <3> QED BY <3>1, <3>2
  <2>6. Runs(n + 1, g)
    BY <2>4, <2>5, Zenon
  <2> QED BY <2>6
<1>3. Len(str) \in T
  BY <1>1, <1>2, Induct, Zenon
<1> DEFINE f == CHOOSE f : Runs(Len(str), f)
<1>4. Runs(Len(str), f)
  BY <1>3, Zenon
<1>5. queue(s, str) = f[Len(str)]
  BY DEF queue
<1> HIDE DEF f
<1>6. f[0] = s /\ \A n \in 1..Len(str) : f[n] = Put(f[n - 1], str[n])
  BY <1>4
<1> QED BY <1>5, <1>6

(* The same for the other loops.                                           *)
LEMMA WipeSteps ==
  ASSUME NEW s, NEW k \in Nat
  PROVE  \E f : /\ wipe(s, k) = f[k]
                /\ f[0] = s
                /\ \A n \in 1..k : f[n] = advanceCursor(queue(f[n - 1], Spaces(1)), 1)
<1> DEFINE Runs(n, f) ==
      f = [i \in 0..n |-> IF i = 0 THEN s ELSE advanceCursor(queue(f[i - 1], Spaces(1)), 1)]
           T == {n \in Nat : \E f : Runs(n, f)}
<1>1. 0 \in T
  <2>1. Runs(0, [i \in 0..0 |-> s])
    OBVIOUS
  <2> QED BY <2>1, Zenon
<1>2. ASSUME NEW n \in Nat, n \in T PROVE n + 1 \in T
  <2>1. PICK f : Runs(n, f)
    BY <1>2
  <2> DEFINE g == [i \in 0..(n + 1) |-> IF i = n + 1 THEN advanceCursor(queue(f[n], Spaces(1)), 1) ELSE f[i]]
  <2>2. \A i \in 0..n : f[i] = IF i = 0 THEN s ELSE advanceCursor(queue(f[i - 1], Spaces(1)), 1)
    BY <2>1
  <2>3. \A i \in 0..n : g[i] = f[i]
    OBVIOUS
  <2>4. g[n + 1] = advanceCursor(queue(f[n], Spaces(1)), 1) /\ g = [i \in 0..(n + 1) |-> g[i]]
    OBVIOUS
  <2> HIDE DEF g
  <2>5. ASSUME NEW i \in 0..(n + 1)
        PROVE  g[i] = IF i = 0 THEN s ELSE advanceCursor(queue(g[i - 1], Spaces(1)), 1)
    <3>1. CASE i = n + 1
      <4>1. i # 0 /\ i - 1 = n /\ g[n] = f[n]
        BY <2>3, <3>1
      <4> QED BY <2>4, <3>1, <4>1
    <3>2. CASE i \in 0..n
      <4>1. g[i] = f[i] /\ (i # 0 => g[i - 1] = f[i - 1])
        BY <2>3, <3>2
      <4> QED BY <2>2, <3>2, <4>1
    <3> QED BY <3>1, <3>2
  <2>6. Runs(n + 1, g)
    BY <2>4, <2>5, Zenon
  <2> QED BY <2>6
<1>3. k \in T
  BY <1>1, <1>2, Induct, Zenon
<1> DEFINE f == CHOOSE f : Runs(k, f)
<1>4. Runs(k, f)
  BY <1>3, Zenon
<1>5. wipe(s, k) = f[k]
  BY DEF wipe
<1> HIDE DEF f
<1>6. f[0] = s /\ \A n \in 1..k : f[n] = advanceCursor(queue(f[n - 1], Spaces(1)), 1)
  BY <1>4
<1> QED BY <1>5, <1>6

(* The screens between the rows of a text.                                 *)
LEMMA RowSteps ==
  ASSUME NEW s, NEW rows, Len(rows) \in Nat
  PROVE  \E f : /\ writeWithCRLF(s, rows) = f[Len(rows)]
                /\ f[0] = s
                /\ \A n \in 1..Len(rows) : f[n] = CrLf(queue(f[n - 1], rows[n]))
<1> DEFINE Runs(n, f) ==
      f = [i \in 0..n |-> IF i = 0 THEN s ELSE CrLf(queue(f[i - 1], rows[i]))]
           T == {n \in Nat : \E f : Runs(n, f)}
<1>1. 0 \in T
  <2>1. Runs(0, [i \in 0..0 |-> s])
    OBVIOUS
  <2> QED BY <2>1, Zenon
<1>2. ASSUME NEW n \in Nat, n \in T PROVE n + 1 \in T
  <2>1. PICK f : Runs(n, f)
    BY <1>2
  <2> DEFINE g == [i \in 0..(n + 1) |-> IF i = n + 1 THEN CrLf(queue(f[n], rows[n + 1])) ELSE f[i]]
  <2>2. \A i \in 0..n : f[i] = IF i = 0 THEN s ELSE CrLf(queue(f[i - 1], rows[i]))
    BY <2>1
  <2>3. \A i \in 0..n : g[i] = f[i]
    OBVIOUS
  <2>4. g[n + 1] = CrLf(queue(f[n], rows[n + 1])) /\ g = [i \in 0..(n + 1) |-> g[i]]
    OBVIOUS
  <2> HIDE DEF g
  <2>5. ASSUME NEW i \in 0..(n + 1)
        PROVE  g[i] = IF i = 0 THEN s ELSE CrLf(queue(g[i - 1], rows[i]))
    <3>1. CASE i = n + 1
      <4>1. i # 0 /\ i - 1 = n /\ g[n] = f[n]
        BY <2>3, <3>1
      <4> QED BY <2>4, <3>1, <4>1
    <3>2. CASE i \in 0..n
      <4>1. g[i] = f[i] /\ (i # 0 => g[i - 1] = f[i - 1])
        BY <2>3, <3>2
      <4> QED BY <2>2, <3>2, <4>1
    <3> QED BY <3>1, <3>2
  <2>6. Runs(n + 1, g)
    BY <2>4, <2>5, Zenon
  <2> QED BY <2>6
<1>3. Len(rows) \in T
  BY <1>1, <1>2, Induct, Zenon
<1> DEFINE f == CHOOSE f : Runs(Len(rows), f)
<1>4. Runs(Len(rows), f)
  BY <1>3, Zenon
<1>5. writeWithCRLF(s, rows) = f[Len(rows)]
  BY DEF writeWithCRLF
<1> HIDE DEF f
<1>6. f[0] = s /\ \A n \in 1..Len(rows) : f[n] = CrLf(queue(f[n - 1], rows[n]))
  BY <1>4
<1> QED BY <1>5, <1>6

(* The screens between the rows that are cleared upwards.                  *)
LEMMA UpSteps ==
  ASSUME NEW s, s.cursorY \in Nat
  PROVE  \E f : /\ ClearUp(s) = f[s.cursorY]
                /\ f[0] = s
                /\ \A n \in 1..s.cursorY : f[n] = RowUp(f[n - 1])
<1> DEFINE Runs(n, f) ==
      f = [i \in 0..n |-> IF i = 0 THEN s ELSE RowUp(f[i - 1])]
           T == {n \in Nat : \E f : Runs(n, f)}
<1>1. 0 \in T
  <2>1. Runs(0, [i \in 0..0 |-> s])
    OBVIOUS
  <2> QED BY <2>1, Zenon
<1>2. ASSUME NEW n \in Nat, n \in T PROVE n + 1 \in T
  <2>1. PICK f : Runs(n, f)
    BY <1>2
  <2> DEFINE g == [i \in 0..(n + 1) |-> IF i = n + 1 THEN RowUp(f[n]) ELSE f[i]]
  <2>2. \A i \in 0..n : f[i] = IF i = 0 THEN s ELSE RowUp(f[i - 1])
    BY <2>1
  <2>3. \A i \in 0..n : g[i] = f[i]
    OBVIOUS
  <2>4. g[n + 1] = RowUp(f[n]) /\ g = [i \in 0..(n + 1) |-> g[i]]
    OBVIOUS
  <2> HIDE DEF g
  <2>5. ASSUME NEW i \in 0..(n + 1)
        PROVE  g[i] = IF i = 0 THEN s ELSE RowUp(g[i - 1])
    <3>1. CASE i = n + 1
      <4>1. i # 0 /\ i - 1 = n /\ g[n] = f[n]
        BY <2>3, <3>1
      <4> QED BY <2>4, <3>1, <4>1
    <3>2. CASE i \in 0..n
      <4>1. g[i] = f[i] /\ (i # 0 => g[i - 1] = f[i - 1])
        BY <2>3, <3>2
      <4> QED BY <2>2, <3>2, <4>1
    <3> QED BY <3>1, <3>2
  <2>6. Runs(n + 1, g)
    BY <2>4, <2>5, Zenon
  <2> QED BY <2>6
<1>3. s.cursorY \in T
  BY <1>1, <1>2, Induct, Zenon
<1> DEFINE f == CHOOSE f : Runs(s.cursorY, f)
<1>4. Runs(s.cursorY, f)
  BY <1>3, Zenon
<1>5. ClearUp(s) = f[s.cursorY]
  BY DEF ClearUp
<1> HIDE DEF f
<1>6. f[0] = s /\ \A n \in 1..s.cursorY : f[n] = RowUp(f[n - 1])
  BY <1>4
<1> QED BY <1>5, <1>6

(* The screens between the rows that are cleared downwards.                *)
LEMMA DownSteps ==
  ASSUME NEW s, NEW rows \in Nat
  PROVE  \E f : /\ ClearDown(s, rows) = f[rows]
                /\ f[0] = s
                /\ \A n \in 1..rows : f[n] = RowDown(f[n - 1])
<1> DEFINE Runs(n, f) ==
      f = [i \in 0..n |-> IF i = 0 THEN s ELSE RowDown(f[i - 1])]
           T == {n \in Nat : \E f : Runs(n, f)}
<1>1. 0 \in T
  <2>1. Runs(0, [i \in 0..0 |-> s])
    OBVIOUS
  <2> QED BY <2>1, Zenon
<1>2. ASSUME NEW n \in Nat, n \in T PROVE n + 1 \in T
  <2>1. PICK f : Runs(n, f)
    BY <1>2
  <2> DEFINE g == [i \in 0..(n + 1) |-> IF i = n + 1 THEN RowDown(f[n]) ELSE f[i]]
  <2>2. \A i \in 0..n : f[i] = IF i = 0 THEN s ELSE RowDown(f[i - 1])
    BY <2>1
  <2>3. \A i \in 0..n : g[i] = f[i]
    OBVIOUS
  <2>4. g[n + 1] = RowDown(f[n]) /\ g = [i \in 0..(n + 1) |-> g[i]]
    OBVIOUS
  <2> HIDE DEF g
  <2>5. ASSUME NEW i \in 0..(n + 1)
        PROVE  g[i] = IF i = 0 THEN s ELSE RowDown(g[i - 1])
    <3>1. CASE i = n + 1
      <4>1. i # 0 /\ i - 1 = n /\ g[n] = f[n]
        BY <2>3, <3>1
      <4> QED BY <2>4, <3>1, <4>1
    <3>2. CASE i \in 0..n
      <4>1. g[i] = f[i] /\ (i # 0 => g[i - 1] = f[i - 1])
        BY <2>3, <3>2
      <4> QED BY <2>2, <3>2, <4>1
    <3> QED BY <3>1, <3>2
  <2>6. Runs(n + 1, g)
    BY <2>4, <2>5, Zenon
  <2> QED BY <2>6
<1>3. rows \in T
  BY <1>1, <1>2, Induct, Zenon
<1> DEFINE f == CHOOSE f : Runs(rows, f)
<1>4. Runs(rows, f)
  BY <1>3, Zenon
<1>5. ClearDown(s, rows) = f[rows]
  BY DEF ClearDown
<1> HIDE DEF f
<1>6. f[0] = s /\ \A n \in 1..rows : f[n] = RowDown(f[n - 1])
  BY <1>4
<1> QED BY <1>5, <1>6

(* What writeLine has written, and what is left, after each row.           *)
LEMMA WriteSteps ==
  ASSUME NEW s, NEW str, Len(str) \in Nat
  PROVE  \E f : /\ writeLine(s, str) = f[Len(str)].term
                /\ f[0] = [term |-> s, left |-> str]
                /\ \A n \in 1..Len(str) : f[n] = WriteRow(f[n - 1])
<1> DEFINE Runs(n, f) ==
      f = [i \in 0..n |-> IF i = 0 THEN [term |-> s, left |-> str] ELSE WriteRow(f[i - 1])]
           T == {n \in Nat : \E f : Runs(n, f)}
<1>1. 0 \in T
  <2>1. Runs(0, [i \in 0..0 |-> [term |-> s, left |-> str]])
    OBVIOUS
  <2> QED BY <2>1, Zenon
<1>2. ASSUME NEW n \in Nat, n \in T PROVE n + 1 \in T
  <2>1. PICK f : Runs(n, f)
    BY <1>2
  <2> DEFINE g == [i \in 0..(n + 1) |-> IF i = n + 1 THEN WriteRow(f[n]) ELSE f[i]]
  <2>2. \A i \in 0..n : f[i] = IF i = 0 THEN [term |-> s, left |-> str] ELSE WriteRow(f[i - 1])
    BY <2>1
  <2>3. \A i \in 0..n : g[i] = f[i]
    OBVIOUS
  <2>4. g[n + 1] = WriteRow(f[n]) /\ g = [i \in 0..(n + 1) |-> g[i]]
    OBVIOUS
  <2> HIDE DEF g
  <2>5. ASSUME NEW i \in 0..(n + 1)
        PROVE  g[i] = IF i = 0 THEN [term |-> s, left |-> str] ELSE WriteRow(g[i - 1])
    <3>1. CASE i = n + 1
      <4>1. i # 0 /\ i - 1 = n /\ g[n] = f[n]
        BY <2>3, <3>1
      <4> QED BY <2>4, <3>1, <4>1
    <3>2. CASE i \in 0..n
      <4>1. g[i] = f[i] /\ (i # 0 => g[i - 1] = f[i - 1])
        BY <2>3, <3>2
      <4> QED BY <2>2, <3>2, <4>1
    <3> QED BY <3>1, <3>2
  <2>6. Runs(n + 1, g)
    BY <2>4, <2>5, Zenon
  <2> QED BY <2>6
<1>3. Len(str) \in T
  BY <1>1, <1>2, Induct, Zenon
<1> DEFINE f == CHOOSE f : Runs(Len(str), f)
<1>4. Runs(Len(str), f)
  BY <1>3, Zenon
<1>5. writeLine(s, str) = f[Len(str)].term
  BY DEF writeLine
<1> HIDE DEF f
<1>6. f[0] = [term |-> s, left |-> str] /\ \A n \in 1..Len(str) : f[n] = WriteRow(f[n - 1])
  BY <1>4
<1> QED BY <1>5, <1>6

-----------------------------------------------------------------------------
(* The screen, as a tape on which the rows follow each other.              *)
Tapes == [Nat -> Glyphs]
Screens == [0..(Rows - 1) -> [0..(Widths[2] - 1) -> Glyphs]]

Terms ==
  [line : Seq(Glyphs), pos : Nat, cursorX : Nat, cursorY : Nat, maxLine : Nat,
   width : Nat \ {0}, prompt : Seq(Glyphs), echo : BOOLEAN,
   scr : Screens, px : Nat, py : Nat, pend : BOOLEAN]

(* The screen of s shows the tape.                                         *)
Cells(s, tape) ==
  \A y \in 0..(Rows - 1), x \in 0..(Widths[2] - 1) :
    s.scr[y][x] = IF x < s.width THEN tape[Row(y, s.width) + x] ELSE Blank

(* The next character goes to place at.                                    *)
NextAt(s, at) ==
  /\ s.px < s.width
  /\ s.pend => s.px = s.width - 1
  /\ at = Row(s.py, s.width) + s.px + (IF s.pend THEN 1 ELSE 0)

View(s, tape, at) == s \in Terms /\ tape \in Tapes /\ at \in Nat /\ Cells(s, tape) /\ NextAt(s, at)

(* What writing leaves alone, and what only the screen's own steps do.     *)
SameLine(s, r) ==
  /\ r.line = s.line /\ r.pos = s.pos /\ r.prompt = s.prompt
  /\ r.echo = s.echo /\ r.width = s.width

SameCursor(s, r) == r.cursorX = s.cursorX /\ r.cursorY = s.cursorY /\ r.maxLine = s.maxLine

(* A pending wrap does not move the next place.                            *)
LEMMA WrappedView ==
  ASSUME NEW s, NEW tape, NEW at, View(s, tape, at)
  PROVE  /\ View(Wrapped(s), tape, at) /\ ~Wrapped(s).pend
         /\ SameLine(s, Wrapped(s)) /\ SameCursor(s, Wrapped(s))
<1> DEFINE w == Wrapped(s)
           y == s.py + 1
<1>1. s \in Terms /\ s.py \in Nat /\ s.width \in Nat \ {0} /\ s.px \in Nat
  BY DEF View, Terms
<1>2. CASE s.pend
  <2>1. w = [s EXCEPT !.px = 0, !.py = y, !.pend = FALSE] /\ y \in Nat
    BY <1>1, <1>2 DEF Wrapped
  <2>2. Row(y, s.width) = Row(s.py, s.width) + s.width /\ Row(s.py, s.width) \in Nat
    BY <1>1, RowNat, Zenon
  <2> HIDE DEF y, w
  <2>3. /\ w \in Terms /\ w.px = 0 /\ w.py = y /\ w.pend = FALSE /\ w.scr = s.scr
        /\ SameLine(s, w) /\ SameCursor(s, w)
    BY <1>1, <2>1, Zenon DEF Terms, SameLine, SameCursor
  <2>4. NextAt(w, at)
    BY <1>1, <1>2, <2>2, <2>3 DEF View, NextAt, SameLine
  <2>5. Cells(w, tape)
    BY <2>3 DEF View, Cells, SameLine
  <2> QED BY <2>3, <2>4, <2>5, Zenon DEF View, w
<1>3. CASE ~s.pend
  BY <1>3 DEF Wrapped, SameLine, SameCursor
<1> QED BY <1>2, <1>3

(* A glyph goes to the next place of the tape.                             *)
LEMMA PutView ==
  ASSUME NEW s, NEW tape, NEW at, View(s, tape, at), NEW c \in Glyphs
  PROVE  LET r == Put(s, c)
         IN /\ View(r, [tape EXCEPT ![at] = c], at + 1)
            /\ SameLine(s, r) /\ SameCursor(s, r)
            /\ r.pend \/ r.px > 0
<1> DEFINE w == Wrapped(s)
           scr == [w.scr EXCEPT ![w.py][w.px] = c]
           d == [w EXCEPT !.scr = scr]
           x == w.px + 1
           r == Put(s, c)
           after == [tape EXCEPT ![at] = c]
<1>1. View(w, tape, at) /\ ~w.pend /\ SameLine(s, w) /\ SameCursor(s, w)
  BY WrappedView
<1>2. r = IF d.px = d.width - 1 THEN [d EXCEPT !.pend = TRUE] ELSE [d EXCEPT !.px = d.px + 1]
  BY DEF Put
<1> HIDE DEF w, r
<1>3. /\ w \in Terms /\ w.py \in Nat /\ w.px \in Nat /\ w.width \in Nat \ {0}
      /\ w.scr \in Screens /\ x \in Nat /\ Cells(w, tape) /\ tape \in Tapes
      /\ w.px < w.width /\ at = Row(w.py, w.width) + w.px /\ at \in Nat
  <2>1. w \in Terms /\ Cells(w, tape) /\ tape \in Tapes /\ at \in Nat /\ NextAt(w, at)
    BY <1>1 DEF View
  <2>2. /\ w.py \in Nat /\ w.px \in Nat /\ w.width \in Nat \ {0} /\ w.scr \in Screens
        /\ x \in Nat
    BY <2>1 DEF Terms
  <2>3. Row(w.py, w.width) \in Nat
    BY <2>2, RowNat, Zenon
  <2>4. w.px < w.width /\ at = Row(w.py, w.width) + w.px
    BY <1>1, <2>1, <2>2, <2>3 DEF NextAt
  <2> QED BY <2>1, <2>2, <2>4
<1>4. scr \in Screens
  BY <1>3, Zenon DEF Screens
<1>5. \A i \in 0..(Rows - 1), j \in 0..(Widths[2] - 1) :
        scr[i][j] = IF i = w.py /\ j = w.px THEN c ELSE w.scr[i][j]
  BY <1>3, Zenon DEF Screens
<1> HIDE DEF scr, x
<1>6. /\ d \in Terms /\ d.scr = scr /\ d.px = w.px /\ d.py = w.py /\ d.pend = w.pend
      /\ SameLine(w, d) /\ SameCursor(w, d)
  BY <1>3, <1>4, Zenon DEF Terms, SameLine, SameCursor
<1> HIDE DEF d
<1>7. /\ r \in Terms /\ r.scr = scr /\ r.py = w.py /\ SameLine(d, r) /\ SameCursor(d, r)
      /\ IF w.px = w.width - 1 THEN r.px = w.px /\ r.pend = TRUE
                               ELSE r.px = x /\ r.pend = FALSE
  <2>1. CASE d.px = d.width - 1
    BY <1>2, <1>6, <2>1, Zenon DEF Terms, SameLine, SameCursor
  <2>2. CASE d.px # d.width - 1
    BY <1>1, <1>2, <1>3, <1>6, <2>2, Zenon DEF Terms, SameLine, SameCursor, x
  <2> QED BY <2>1, <2>2, Zenon
<1>8. SameLine(s, r) /\ SameCursor(s, r) /\ r.width = w.width
  BY <1>1, <1>6, <1>7 DEF SameLine, SameCursor
<1>9. Cells(r, after)
  <2> SUFFICES ASSUME NEW i \in 0..(Rows - 1), NEW j \in 0..(Widths[2] - 1)
               PROVE  r.scr[i][j] = IF j < r.width THEN after[Row(i, r.width) + j] ELSE Blank
    BY DEF Cells
  <2>1. w.scr[i][j] = IF j < w.width THEN tape[Row(i, w.width) + j] ELSE Blank
    BY <1>3 DEF Cells
  <2>2. i \in Nat /\ j \in Nat /\ Row(i, w.width) \in Nat /\ Row(i, w.width) + j \in Nat
    <3>1. i \in Nat /\ j \in Nat
      BY ConstAssumption
    <3>2. Row(i, w.width) \in Nat
      BY <1>3, <3>1, RowNat, Zenon
    <3> QED BY <3>1, <3>2
  <2>3. CASE i = w.py /\ j = w.px
    BY <1>3, <1>5, <1>7, <1>8, <2>3 DEF Tapes
  <2>4. CASE ~(i = w.py /\ j = w.px)
    <3>1. j < w.width => Row(i, w.width) + j # at
      BY <1>3, <2>2, <2>4, RowUnique
    <3> QED BY <1>3, <1>5, <1>7, <1>8, <2>1, <2>2, <2>4, <3>1 DEF Tapes
  <2> QED BY <2>3, <2>4
<1>10. NextAt(r, at + 1)
  <2>1. Row(w.py, w.width) \in Nat
    BY <1>3, RowNat, Zenon
  <2> QED BY <1>3, <1>7, <1>8, <2>1 DEF NextAt, x
<1>11. after \in Tapes /\ at + 1 \in Nat
  BY <1>3 DEF Tapes
<1>12. r.pend \/ r.px > 0
  BY <1>3, <1>7 DEF x
<1> QED BY <1>7, <1>8, <1>9, <1>10, <1>11, <1>12, Zenon DEF View, r

(* The tape after str was written at place at.                             *)
Written(tape, at, str) ==
  [i \in Nat |-> IF at <= i /\ i < at + Len(str) THEN str[i - at + 1] ELSE tape[i]]

(* So does a string, wherever it wraps and scrolls.                        *)
LEMMA QueueView ==
  ASSUME NEW s, NEW tape, NEW at, View(s, tape, at), NEW str \in Seq(Glyphs)
  PROVE  LET r == queue(s, str)
         IN /\ View(r, Written(tape, at, str), at + Len(str))
            /\ SameLine(s, r) /\ SameCursor(s, r)
            /\ IF str = <<>> THEN r = s ELSE r.pend \/ r.px > 0
<1> DEFINE L == Len(str)
           W(n) == [i \in Nat |-> IF at <= i /\ i < at + n THEN str[i - at + 1] ELSE tape[i]]
<1>1. L \in Nat /\ at \in Nat /\ tape \in Tapes /\ \A n \in 1..L : str[n] \in Glyphs
  BY DEF View
<1>2. PICK f : /\ queue(s, str) = f[L] /\ f[0] = s
               /\ \A n \in 1..L : f[n] = Put(f[n - 1], str[n])
  BY <1>1, QueueSteps
<1> DEFINE Good(n) == /\ View(f[n], W(n), at + n)
                      /\ SameLine(s, f[n]) /\ SameCursor(s, f[n])
                      /\ n > 0 => f[n].pend \/ f[n].px > 0
           T == {n \in Nat : n <= L => Good(n)}
<1>3. 0 \in T
  <2>1. W(0) = tape
    BY <1>1 DEF Tapes
  <2>2. at + 0 = at
    BY <1>1
  <2>3. Good(0)
    BY <1>2, <2>1, <2>2 DEF SameLine, SameCursor
  <2> QED BY <2>3
<1>4. ASSUME NEW n \in Nat, n \in T PROVE n + 1 \in T
  <2> SUFFICES ASSUME n + 1 <= L PROVE Good(n + 1)
    OBVIOUS
  <2>1. n + 1 \in 1..L /\ Good(n)
    BY <1>1, <1>4
  <2>2. f[n + 1] = Put(f[n], str[n + 1]) /\ str[n + 1] \in Glyphs
    BY <1>1, <1>2, <2>1
  <2>3. [W(n) EXCEPT ![at + n] = str[n + 1]] = W(n + 1)
    <3>1. at + n \in Nat /\ (at + n) - at + 1 = n + 1
      BY <1>1
    <3>2. ASSUME NEW i \in Nat
          PROVE  (IF i = at + n THEN str[n + 1] ELSE W(n)[i]) = W(n + 1)[i]
      BY <1>1, <3>1
    <3>3. [W(n) EXCEPT ![at + n] = str[n + 1]]
            = [i \in Nat |-> IF i = at + n THEN str[n + 1] ELSE W(n)[i]]
      BY Zenon
    <3>4. W(n + 1) = [i \in Nat |-> W(n + 1)[i]]
      OBVIOUS
    <3> HIDE DEF W
    <3> QED BY <3>2, <3>3, <3>4, Zenon
  <2>4. at + n + 1 = at + (n + 1) /\ n + 1 > 0
    BY <1>1
  <2> HIDE DEF W
  <2>5. /\ View(f[n], W(n), at + n) /\ SameLine(s, f[n]) /\ SameCursor(s, f[n])
    BY <2>1
  <2>6. /\ View(Put(f[n], str[n + 1]), [W(n) EXCEPT ![at + n] = str[n + 1]], at + n + 1)
        /\ SameLine(f[n], Put(f[n], str[n + 1])) /\ SameCursor(f[n], Put(f[n], str[n + 1]))
        /\ Put(f[n], str[n + 1]).pend \/ Put(f[n], str[n + 1]).px > 0
    BY <2>2, <2>5, PutView, Zenon
  <2>7. /\ View(f[n + 1], W(n + 1), at + (n + 1))
        /\ SameLine(f[n], f[n + 1]) /\ SameCursor(f[n], f[n + 1])
        /\ f[n + 1].pend \/ f[n + 1].px > 0
    BY <2>2, <2>3, <2>4, <2>6, Zenon
  <2>8. SameLine(s, f[n + 1]) /\ SameCursor(s, f[n + 1])
    BY <2>5, <2>7, Zenon DEF SameLine, SameCursor
  <2> QED BY <2>7, <2>8, Zenon
<1>5. L \in T
  <2> HIDE DEF T, L
  <2> QED BY <1>1, <1>3, <1>4, Induct
<1>9. Good(L)
  BY <1>1, <1>5
<1>6. W(L) = Written(tape, at, str)
  BY DEF Written
<1>7. str = <<>> => queue(s, str) = s
  BY <1>2
<1>8. str # <<>> => L > 0
  BY <1>1
<1> QED BY <1>2, <1>9, <1>6, <1>7, <1>8

(* The editor's cursor is the screen's.                                    *)
Synced(s, tape, at) ==
  /\ View(s, tape, at) /\ ~s.pend
  /\ s.cursorX = s.px /\ s.cursorY = s.py

(* The place where the editor believes the cursor to be.                   *)
AtCursor(s) == Row(s.cursorY, s.width) + s.cursorX

(* What queue leaves of n characters.                                      *)
Moved(q, n) ==
  IF n = 0 THEN ~q.pend /\ q.cursorX = q.px /\ q.cursorY = q.py ELSE q.pend \/ q.px > 0

(* Where n characters take the cursor.                                     *)
Placed(w, cx, cy, n, px, py) ==
  LET x == (cx + n) % w
      y == cy + ((cx + n) \div w)
      at == Row(cy, w) + cx + n
  IN /\ x \in Nat /\ y \in Nat /\ at = Row(y, w) + x
     /\ at = Row(py, w) + px + 1 /\ px = w - 1 => y = py + 1 /\ x = 0
     /\ at = Row(py, w) + px + 0 => y = py /\ x = px

(* Where advanceCursor puts the cursor, in all its cases.                  *)
LEMMA AdvancePlace ==
  ASSUME NEW w \in Nat \ {0}, NEW cx \in Nat, cx < w, NEW cy \in Nat, NEW n \in Nat,
         NEW px \in Nat, px < w, NEW py \in Nat
  PROVE  Placed(w, cx, cy, n, px, py)
<1> DEFINE x == (cx + n) % w
           y == cy + ((cx + n) \div w)
           at == Row(cy, w) + cx + n
           z == py + 1
<1>1. x \in Nat /\ y \in Nat /\ x < w /\ at = Row(y, w) + x
  BY RowAdvance, Zenon
<1>2. w \in Nat /\ z \in Nat /\ 0 < w /\ 0 \in Nat
  OBVIOUS
<1>3. Row(py, w) + (w - 1) + 1 = Row(z, w) + 0
  BY RowWrap, Zenon
<1> HIDE DEF x, y, z, at
<1>4. x \in Nat /\ y \in Nat /\ x < w
  BY <1>1
<1>5. ASSUME at = Row(py, w) + px + 1, px = w - 1 PROVE y = z /\ x = 0
  <2>2. Row(y, w) + x = Row(z, w) + 0
    BY <1>1, <1>3, <1>5
  <2> HIDE <1>5
  <2> QED BY <1>2, <1>4, <2>2, RowUnique
<1>6. ASSUME at = Row(py, w) + px + 0 PROVE y = py /\ x = px
  <2>1. Row(py, w) \in Nat
    BY <1>2, RowNat, Zenon
  <2>2. Row(y, w) + x = Row(py, w) + px
    BY <1>1, <1>6, <2>1
  <2> HIDE <1>6
  <2> QED BY <1>2, <1>4, <2>2, RowUnique
<1> QED BY <1>1, <1>5, <1>6 DEF x, y, z, at, Placed

(* After n characters advanceCursor knows where the screen's cursor is: at *)
(* the margin it has sent the new line that takes it to the next row.      *)
LEMMA AdvanceView ==
  ASSUME NEW q, NEW tape, NEW at, View(q, tape, at), q.cursorX < q.width,
         NEW n \in Nat, at = AtCursor(q) + n,
         Moved(q, n)
  PROVE  LET r == advanceCursor(q, n)
         IN /\ Synced(r, tape, at) /\ SameLine(q, r)
            /\ q.maxLine <= r.maxLine /\ r.cursorY <= r.maxLine
<1> DEFINE w == q.width
           x == (q.cursorX + n) % w
           y == q.cursorY + ((q.cursorX + n) \div w)
           m == IF y > q.maxLine THEN y ELSE q.maxLine
           a == [q EXCEPT !.cursorX = x, !.cursorY = y, !.maxLine = m]
           z == q.py + 1
           r == advanceCursor(q, n)
<1>1. /\ q \in Terms /\ w \in Nat \ {0} /\ q.cursorX \in Nat /\ q.cursorY \in Nat
      /\ q.maxLine \in Nat /\ q.px \in Nat /\ q.py \in Nat /\ q.pend \in BOOLEAN /\ at \in Nat
  BY DEF View, Terms
<1>2. /\ q.px < w
      /\ q.pend => q.px = w - 1
      /\ at = Row(q.py, w) + q.px + (IF q.pend THEN 1 ELSE 0)
  BY DEF View, NextAt
<1>3. at = Row(q.cursorY, w) + q.cursorX + n
  BY DEF AtCursor
<1>4. /\ x \in Nat /\ y \in Nat /\ at = Row(y, w) + x
      /\ IF q.pend THEN y = q.py + 1 /\ x = 0 ELSE y = q.py /\ x = q.px
  <2> DEFINE cx == q.cursorX
             cy == q.cursorY
             px == q.px
             py == q.py
             pd == q.pend
  <2>1. /\ w \in Nat \ {0} /\ cx \in Nat /\ cy \in Nat /\ px \in Nat /\ py \in Nat /\ pd \in BOOLEAN
        /\ px < w /\ cx < w
    BY <1>1, <1>2
  <2>2. pd => px = w - 1
    BY <1>2
  <2>3. at = Row(cy, w) + cx + n /\ at = Row(py, w) + px + (IF pd THEN 1 ELSE 0)
    BY <1>2, <1>3
  <2>4. /\ (cx + n) % w \in Nat /\ cy + ((cx + n) \div w) \in Nat
        /\ Row(cy, w) + cx + n = Row(cy + ((cx + n) \div w), w) + ((cx + n) % w)
        /\ Row(cy, w) + cx + n = Row(py, w) + px + 1 /\ px = w - 1
             => cy + ((cx + n) \div w) = py + 1 /\ (cx + n) % w = 0
        /\ Row(cy, w) + cx + n = Row(py, w) + px + 0
             => cy + ((cx + n) \div w) = py /\ (cx + n) % w = px
    <3>1. Placed(w, cx, cy, n, px, py)
      <4> HIDE DEF w, cx, cy, px, py, pd
      <4> QED BY <2>1, AdvancePlace, Zenon
    <3> QED BY <3>1, Zenon DEF Placed
  <2>5. /\ x = (cx + n) % w /\ y = cy + ((cx + n) \div w)
        /\ q.pend = pd /\ q.py = py /\ q.px = px
    OBVIOUS
  <2> HIDE DEF w, cx, cy, px, py, pd, x, y
  <2>6. CASE pd
    BY <2>2, <2>3, <2>4, <2>5, <2>6, Zenon
  <2>7. CASE ~pd
    BY <2>3, <2>4, <2>5, <2>7, Zenon
  <2> QED BY <2>6, <2>7, Zenon
<1>5. r = IF n > 0 /\ x = 0 THEN CrLf(a) ELSE a
  BY DEF advanceCursor
<1>6. CrLf(a) = [a EXCEPT !.px = 0, !.py = a.py + 1, !.pend = FALSE]
  BY DEF CrLf
<1>7. z \in Nat /\ w \in Nat /\ 0 < w
  BY <1>1
<1> HIDE DEF x, y
<1>8. m \in Nat /\ q.maxLine <= m /\ y <= m
  BY <1>1, <1>4
<1>9. Row(q.py, w) \in Nat /\ Row(z, w) \in Nat
  <2> HIDE DEF z
  <2> QED BY <1>1, <1>7, RowNat, Zenon
<1>11. q.pend => y = z /\ x = 0
  BY <1>4
<1>12. ~q.pend => y = q.py /\ x = q.px
  BY <1>4
<1> HIDE DEF w, m, a, z, r
<1>13. /\ a \in Terms /\ a.cursorX = x /\ a.cursorY = y /\ a.maxLine = m
       /\ a.px = q.px /\ a.py = q.py /\ a.pend = q.pend /\ a.scr = q.scr /\ SameLine(q, a)
  BY <1>1, <1>4, <1>8, Zenon DEF Terms, SameLine, a
<1>14. CASE n > 0 /\ x = 0
  <2>1. q.pend
    BY <1>1, <1>12, <1>14 DEF Moved
  <2>2. r = [a EXCEPT !.px = 0, !.py = z, !.pend = FALSE]
    BY <1>5, <1>6, <1>13, <1>14 DEF z
  <2>3. /\ r \in Terms /\ r.cursorX = x /\ r.cursorY = y /\ r.maxLine = m
        /\ r.px = 0 /\ r.py = z /\ r.pend = FALSE /\ r.scr = q.scr /\ SameLine(q, r)
    BY <1>7, <1>13, <2>2, Zenon DEF Terms, SameLine
  <2>4. NextAt(r, at)
    <3>1. r.width = w /\ at = Row(z, w) + 0
      BY <1>4, <1>11, <2>1, <2>3, Zenon DEF SameLine, w
    <3> QED BY <1>7, <1>9, <2>3, <3>1 DEF NextAt
  <2>5. Cells(r, tape)
    BY <2>3 DEF View, Cells, SameLine
  <2> QED BY <1>8, <1>11, <1>14, <2>1, <2>3, <2>4, <2>5, Zenon DEF View, Synced, r
<1>15. CASE ~(n > 0 /\ x = 0)
  <2>1. ~q.pend
    BY <1>1, <1>11, <1>15 DEF Moved
  <2>2. r = a
    BY <1>5, <1>15
  <2>3. NextAt(r, at)
    <3>1. r.width = w
      BY <1>1, <1>13, <2>2 DEF SameLine, w
    <3> QED BY <1>2, <1>9, <1>13, <2>1, <2>2, <3>1 DEF NextAt
  <2>4. Cells(r, tape)
    BY <1>13, <2>2 DEF View, Cells, SameLine
  <2> QED BY <1>8, <1>12, <1>13, <2>1, <2>2, <2>3, <2>4, Zenon DEF View, Synced, r
<1> QED BY <1>14, <1>15

(* queue and advanceCursor together, as the editor writes its line.        *)
Advanced(s, str) == advanceCursor(queue(s, str), Len(str))

(* What the tape and the cursor are when the two agree.                    *)
LEMMA SyncedAt ==
  ASSUME NEW s, NEW tape, NEW at, Synced(s, tape, at)
  PROVE  /\ s \in Terms /\ tape \in Tapes /\ at \in Nat /\ at = AtCursor(s)
         /\ s.cursorX < s.width /\ s.cursorX \in Nat /\ s.cursorY \in Nat
         /\ s.width \in Nat \ {0} /\ Row(s.cursorY, s.width) \in Nat
<1>1. s \in Terms /\ tape \in Tapes /\ at \in Nat
  BY DEF Synced, View
<1>2. s.cursorX \in Nat /\ s.cursorY \in Nat /\ s.width \in Nat \ {0}
  BY <1>1 DEF Terms
<1>3. Row(s.cursorY, s.width) \in Nat
  BY <1>2, RowNat, Zenon
<1>4. s.cursorX < s.width /\ at = Row(s.cursorY, s.width) + s.cursorX + 0
  BY DEF Synced, View, NextAt
<1> QED BY <1>1, <1>2, <1>3, <1>4 DEF AtCursor

(* A string and advanceCursor: tape and cursor agree again.                *)
LEMMA ShowView ==
  ASSUME NEW s, NEW tape, NEW at, Synced(s, tape, at), NEW str \in Seq(Glyphs)
  PROVE  LET r == Advanced(s, str)
         IN /\ Synced(r, Written(tape, at, str), at + Len(str)) /\ SameLine(s, r)
            /\ s.maxLine <= r.maxLine /\ r.cursorY <= r.maxLine
<1> DEFINE q == queue(s, str)
           n == Len(str)
           there == at + n
<1>1. n \in Nat /\ (n = 0 <=> str = <<>>)
  OBVIOUS
<1>2. /\ View(q, Written(tape, at, str), there) /\ SameLine(s, q) /\ SameCursor(s, q)
      /\ IF str = <<>> THEN q = s ELSE q.pend \/ q.px > 0
  BY QueueView DEF Synced
<1>3. at = AtCursor(s) /\ s.cursorX < s.width
  BY SyncedAt
<1>4. there = AtCursor(q) + n /\ q.cursorX < q.width
  BY <1>2, <1>3 DEF SameLine, SameCursor, AtCursor
<1>5. Moved(q, n)
  BY <1>1, <1>2 DEF Synced, Moved
<1> HIDE DEF n, q, there
<1>6. LET r == advanceCursor(q, n)
      IN /\ Synced(r, Written(tape, at, str), there) /\ SameLine(q, r)
         /\ q.maxLine <= r.maxLine /\ r.cursorY <= r.maxLine
  BY <1>1, <1>2, <1>4, <1>5, AdvanceView
<1>7. SameLine(s, advanceCursor(q, n)) /\ q.maxLine = s.maxLine
  BY <1>2, <1>6, Zenon DEF SameLine, SameCursor
<1> QED BY <1>6, <1>7, Zenon DEF Advanced, n, q, there

-----------------------------------------------------------------------------
(* The editor knows how far down it has been.                              *)
Shows(s, tape, at) == Synced(s, tape, at) /\ s.cursorY <= s.maxLine

(* From s to r, str was written at place at.                               *)
Wrote(s, tape, at, str, r) ==
  /\ Shows(r, Written(tape, at, str), at + Len(str))
  /\ s \in Terms /\ SameLine(s, r) /\ s.maxLine <= r.maxLine

(* The same, as a step that wrote a string.                                *)
LEMMA ShowWrites ==
  ASSUME NEW s, NEW tape, NEW at, Shows(s, tape, at), NEW str \in Seq(Glyphs)
  PROVE  Wrote(s, tape, at, str, Advanced(s, str))
<1>1. s \in Terms
  BY SyncedAt DEF Shows
<1>2. LET r == Advanced(s, str)
      IN /\ Synced(r, Written(tape, at, str), at + Len(str)) /\ SameLine(s, r)
         /\ s.maxLine <= r.maxLine /\ r.cursorY <= r.maxLine
  BY ShowView DEF Shows
<1> QED BY <1>1, <1>2 DEF Wrote, Shows

(* The cursor has not left the rows down to maxLine.                       *)
LEMMA ShowsFits ==
  ASSUME NEW s, NEW tape, NEW at, Shows(s, tape, at)
  PROVE  at < Row(s.maxLine + 1, s.width)
<1> DEFINE z == s.maxLine + 1
<1>1. /\ s \in Terms /\ at = Row(s.cursorY, s.width) + s.cursorX
      /\ s.cursorX < s.width /\ s.cursorX \in Nat /\ s.cursorY \in Nat
      /\ s.width \in Nat /\ Row(s.cursorY, s.width) \in Nat
  BY SyncedAt DEF Shows, AtCursor
<1>2. s.cursorY < z /\ z \in Nat
  BY <1>1 DEF Terms, Shows
<1> HIDE DEF z
<1>3. Row(s.cursorY, s.width) + s.width <= Row(z, s.width)
  BY <1>1, <1>2, RowOrder
<1>4. Row(z, s.width) \in Nat
  BY <1>1, <1>2, RowNat, Zenon
<1>5. at < Row(z, s.width)
  BY <1>1, <1>3, <1>4
<1> QED BY <1>5 DEF z

(* The elements of a concatenation.                                        *)
LEMMA Concats ==
  ASSUME NEW S, NEW a \in Seq(S), NEW b \in Seq(S)
  PROVE  /\ Len(a) \in Nat /\ Len(b) \in Nat
         /\ a \o b \in Seq(S) /\ Len(a \o b) = Len(a) + Len(b)
         /\ \A i \in 1..(Len(a) + Len(b)) :
              (a \o b)[i] = IF i <= Len(a) THEN a[i] ELSE b[i - Len(a)]
OBVIOUS

(* What is written piece by piece is written.                              *)
LEMMA WroteMore ==
  ASSUME NEW s, NEW tape \in Tapes, NEW at \in Nat,
         NEW a \in Seq(Glyphs), NEW r, Wrote(s, tape, at, a, r),
         NEW b \in Seq(Glyphs), NEW q, Wrote(r, Written(tape, at, a), at + Len(a), b, q)
  PROVE  Wrote(s, tape, at, a \o b, q)
<1>1. /\ Len(a) \in Nat /\ Len(b) \in Nat /\ a \o b \in Seq(Glyphs) /\ Len(a \o b) = Len(a) + Len(b)
      /\ \A i \in 1..(Len(a) + Len(b)) : (a \o b)[i] = IF i <= Len(a) THEN a[i] ELSE b[i - Len(a)]
  BY Concats
<1>2. Written(Written(tape, at, a), at + Len(a), b) = Written(tape, at, a \o b)
  <2> DEFINE A == Written(tape, at, a)
             B == Written(A, at + Len(a), b)
             C == Written(tape, at, a \o b)
  <2>1. ASSUME NEW i \in Nat PROVE B[i] = C[i]
    <3>1. A[i] = IF at <= i /\ i < at + Len(a) THEN a[i - at + 1] ELSE tape[i]
      BY DEF Written
    <3>2. B[i] = IF at + Len(a) <= i /\ i < at + Len(a) + Len(b) THEN b[i - (at + Len(a)) + 1] ELSE A[i]
      BY DEF Written
    <3>3. C[i] = IF at <= i /\ i < at + Len(a \o b) THEN (a \o b)[i - at + 1] ELSE tape[i]
      BY DEF Written
    <3> HIDE DEF A, B, C
    <3>4. i - (at + Len(a)) + 1 = (i - at + 1) - Len(a)
      BY <1>1
    <3>5. CASE at <= i /\ i < at + Len(a) + Len(b)
      <4>1. (a \o b)[i - at + 1] = IF i - at + 1 <= Len(a) THEN a[i - at + 1] ELSE b[(i - at + 1) - Len(a)]
        BY <1>1, <3>5
      <4> QED BY <1>1, <3>1, <3>2, <3>3, <3>4, <3>5, <4>1
    <3>6. CASE ~(at <= i /\ i < at + Len(a) + Len(b))
      BY <1>1, <3>1, <3>2, <3>3, <3>6
    <3> QED BY <3>5, <3>6
  <2>2. B = [i \in Nat |-> B[i]] /\ C = [i \in Nat |-> C[i]]
    BY DEF Written
  <2> HIDE DEF A, B, C
  <2>3. B = C
    BY <2>1, <2>2, Zenon
  <2> QED BY <2>3 DEF A, B, C
<1>3. at + Len(a) + Len(b) = at + Len(a \o b)
  BY <1>1
<1>4. SameLine(s, q)
  BY Zenon DEF Wrote, SameLine
<1>5. s.maxLine <= q.maxLine
  <2>1. s.maxLine \in Nat /\ r.maxLine \in Nat /\ q.maxLine \in Nat
    BY SyncedAt DEF Wrote, Shows, Terms
  <2>2. s.maxLine <= r.maxLine /\ r.maxLine <= q.maxLine
    BY DEF Wrote
  <2> QED BY <2>1, <2>2
<1> QED BY <1>2, <1>3, <1>4, <1>5 DEF Wrote

(* Nothing was written.                                                    *)
LEMMA EmptyWrites ==
  ASSUME NEW s, NEW tape, NEW at, Shows(s, tape, at)
  PROVE  Wrote(s, tape, at, <<>>, s)
<1>1. s \in Terms /\ tape \in Tapes /\ at \in Nat
  BY SyncedAt DEF Shows
<1>2. Written(tape, at, <<>>) = tape
  BY <1>1 DEF Written, Tapes
<1>3. at + Len(<<>>) = at
  BY <1>1
<1>4. s.maxLine <= s.maxLine
  BY <1>1 DEF Terms
<1> QED BY <1>1, <1>2, <1>3, <1>4 DEF Wrote, SameLine

(* Two pieces of a string that follow each other.                          *)
LEMMA SubSeqs ==
  ASSUME NEW str \in Seq(Glyphs), NEW k \in 0..Len(str), NEW j \in 0..(Len(str) - k)
  PROVE  /\ SubSeq(str, k + 1, k + j) \in Seq(Glyphs) /\ Len(SubSeq(str, k + 1, k + j)) = j
         /\ SubSeq(str, 1, k) \in Seq(Glyphs) /\ Len(SubSeq(str, 1, k)) = k
         /\ SubSeq(str, 1, k) \o SubSeq(str, k + 1, k + j) = SubSeq(str, 1, k + j)
<1> DEFINE l == SubSeq(str, 1, k) \o SubSeq(str, k + 1, k + j)
           r == SubSeq(str, 1, k + j)
<1>1. l \in Seq(Glyphs) /\ r \in Seq(Glyphs) /\ Len(l) = Len(r) /\ \A i \in 1..Len(l) : l[i] = r[i]
  OBVIOUS
<1> HIDE DEF l, r
<1>2. l = r
  BY <1>1, SameSeq
<1> QED BY <1>2 DEF l, r

(* writeLine writes the line, a row at a time.                             *)
LEMMA LineWrites ==
  ASSUME NEW s, NEW tape, NEW at, Shows(s, tape, at), NEW str \in Seq(Glyphs)
  PROVE  Wrote(s, tape, at, str, writeLine(s, str))
<1> DEFINE L == Len(str)
<1>1. L \in Nat /\ at \in Nat /\ tape \in Tapes
  BY SyncedAt DEF Shows
<1>2. PICK f : /\ writeLine(s, str) = f[L].term /\ f[0] = [term |-> s, left |-> str]
               /\ \A n \in 1..L : f[n] = WriteRow(f[n - 1])
  BY <1>1, WriteSteps
<1> DEFINE Done(n, k) == /\ n <= k /\ f[n].left = SubSeq(str, k + 1, L)
                         /\ Wrote(s, tape, at, SubSeq(str, 1, k), f[n].term)
           T == {n \in Nat : n <= L => \E k \in 0..L : Done(n, k)}
<1>3. 0 \in T
  <2>1. f[0].term = s /\ f[0].left = str
    BY <1>2
  <2>2. SubSeq(str, 0 + 1, L) = str
    BY <1>1
  <2>3. SubSeq(str, 1, 0) = <<>>
    BY <1>1
  <2>4. Wrote(s, tape, at, <<>>, s)
    BY EmptyWrites
  <2>5. 0 <= 0
    OBVIOUS
  <2>6. Done(0, 0)
    BY <2>1, <2>2, <2>3, <2>4, <2>5, Zenon
  <2> QED BY <1>1, <2>6
<1>4. ASSUME NEW n \in Nat, n \in T PROVE n + 1 \in T
  <2> SUFFICES ASSUME n + 1 <= L PROVE \E k \in 0..L : Done(n + 1, k)
    OBVIOUS
  <2>1. PICK k \in 0..L : Done(n, k)
    BY <1>1, <1>4
  <2>2. f[n + 1] = WriteRow(f[n])
    BY <1>1, <1>2
  <2> DEFINE a == f[n]
             left == SubSeq(str, k + 1, L)
             room == a.term.width - a.term.cursorX
             j == IF Len(left) > room THEN room ELSE Len(left)
             now == SubSeq(str, 1, k)
             piece == SubSeq(str, k + 1, k + j)
  <2>3. k \in Nat /\ left \in Seq(Glyphs) /\ Len(left) = L - k /\ L - k \in Nat
    BY <1>1
  <2>4. CASE k = L
    <3>1. a.left = <<>>
      BY <2>1, <2>3, <2>4
    <3>2. f[n + 1] = a
      BY <2>2, <3>1 DEF WriteRow
    <3>3. Done(n + 1, k)
      BY <2>1, <2>4, <3>2
    <3> QED BY <3>3
  <2>5. CASE k # L
    <3>1. a.left = left /\ Wrote(s, tape, at, now, a.term)
      BY <2>1
    <3>2. Shows(a.term, Written(tape, at, now), at + Len(now))
      BY <3>1 DEF Wrote
    <3>3. a.term.width \in Nat /\ a.term.cursorX \in Nat /\ a.term.cursorX < a.term.width
      BY <3>2, SyncedAt DEF Shows
    <3>4. j \in 1..(L - k) /\ Len(left) > 0
      <4>1. L \in Nat /\ k <= L
        BY <1>1
      <4> HIDE DEF left, L, a
      <4> QED BY <2>3, <2>5, <3>3, <4>1
    <3> HIDE DEF j
    <3>5. left # <<>>
      <4> HIDE DEF left
      <4> QED BY <2>3, <3>4
    <3>6. SubSeq(left, 1, j) = piece /\ SubSeq(left, j + 1, Len(left)) = SubSeq(str, (k + j) + 1, L)
      BY <1>1, <2>3, <3>4
    <3>7. now \in Seq(Glyphs) /\ piece \in Seq(Glyphs) /\ Len(piece) = j /\ now \o piece = SubSeq(str, 1, k + j)
      BY <3>4, SubSeqs
    <3>8. f[n + 1] = [term |-> Advanced(a.term, piece), left |-> SubSeq(str, (k + j) + 1, L)]
      <4>1. f[n + 1] = [term |-> advanceCursor(queue(a.term, SubSeq(left, 1, j)), j),
                        left |-> SubSeq(left, j + 1, Len(left))]
        BY <2>2, <3>1, <3>5, Zenon DEF WriteRow, j
      <4> QED BY <3>6, <3>7, <4>1, Zenon DEF Advanced
    <3> HIDE DEF now, piece, a
    <3>9. Wrote(a.term, Written(tape, at, now), at + Len(now), piece, Advanced(a.term, piece))
      BY <3>2, <3>7, ShowWrites
    <3>10. Wrote(s, tape, at, now \o piece, Advanced(a.term, piece))
      BY <1>1, <3>1, <3>7, <3>9, WroteMore, Zenon
    <3>11. k + j \in 0..L /\ n + 1 <= k + j
      BY <1>1, <2>1, <3>4
    <3>12. f[n + 1].term = Advanced(a.term, piece) /\ f[n + 1].left = SubSeq(str, (k + j) + 1, L)
      <4> DEFINE new == f[n + 1]
                 X == Advanced(a.term, piece)
                 Y == SubSeq(str, (k + j) + 1, L)
      <4>1. new = [term |-> X, left |-> Y]
        BY <3>8
      <4> HIDE DEF new, X, Y
      <4>2. new.term = X /\ new.left = Y
        BY <4>1
      <4> QED BY <4>2 DEF new, X, Y
    <3>13. Done(n + 1, k + j)
      BY <3>7, <3>10, <3>11, <3>12, Zenon
    <3> QED BY <3>11, <3>13
  <2> QED BY <2>4, <2>5
<1>5. L \in T
  <2> HIDE DEF T, L
  <2> QED BY <1>1, <1>3, <1>4, Induct
<1>6. PICK k \in 0..L : Done(L, k)
  BY <1>1, <1>5
<1>7. k = L /\ SubSeq(str, 1, L) = str
  BY <1>1, <1>6
<1> QED BY <1>2, <1>6, <1>7, Zenon

(* n spaces, and one more.                                                 *)
LEMMA SpacesType ==
  ASSUME NEW n \in Nat
  PROVE  /\ Spaces(n) \in Seq(Glyphs) /\ Len(Spaces(n)) = n
         /\ \A i \in 1..n : Spaces(n)[i] = Blank
         /\ Spaces(n) \o Spaces(1) = Spaces(n + 1)
<1>1. ASSUME NEW k \in Nat
      PROVE  /\ Spaces(k) \in Seq(Glyphs) /\ Len(Spaces(k)) = k
             /\ \A i \in 1..k : Spaces(k)[i] = Blank
  BY TextAssumption DEF Spaces
<1> DEFINE A == Spaces(n)
           B == Spaces(1)
           C == Spaces(n + 1)
<1>2. /\ A \in Seq(Glyphs) /\ Len(A) = n /\ \A i \in 1..n : A[i] = Blank
      /\ B \in Seq(Glyphs) /\ Len(B) = 1 /\ B[1] = Blank
      /\ C \in Seq(Glyphs) /\ Len(C) = n + 1 /\ \A i \in 1..(n + 1) : C[i] = Blank
  <2>1. n + 1 \in Nat /\ 1 \in Nat /\ 1 \in 1..1
    OBVIOUS
  <2> QED BY <1>1, <2>1, Zenon
<1> HIDE DEF A, B, C
<1>3. A \o B \in Seq(Glyphs) /\ Len(A \o B) = n + 1 /\ \A i \in 1..(n + 1) : (A \o B)[i] = Blank
  <2>0. A \in Seq(Glyphs) /\ B \in Seq(Glyphs) /\ Len(A) = n /\ Len(B) = 1
    BY <1>2
  <2>4. /\ A \o B \in Seq(Glyphs) /\ Len(A \o B) = Len(A) + Len(B)
        /\ \A i \in 1..(Len(A) + Len(B)) : (A \o B)[i] = IF i <= Len(A) THEN A[i] ELSE B[i - Len(A)]
    BY <2>0, Concats, Zenon
  <2>1. \A i \in 1..(n + 1) : (A \o B)[i] = IF i <= n THEN A[i] ELSE B[i - n]
    BY <2>0, <2>4, Zenon
  <2>2. ASSUME NEW i \in 1..(n + 1) PROVE (A \o B)[i] = Blank
    <3>1. CASE i <= n
      BY <1>2, <2>1, <3>1
    <3>2. CASE ~(i <= n)
      <4>1. i - n = 1
        BY <3>2
      <4> QED BY <1>2, <2>1, <3>2, <4>1, Zenon
    <3> QED BY <3>1, <3>2, Zenon
  <2> QED BY <2>0, <2>4, <2>2
<1>4. A \o B = C
  BY <1>2, <1>3, SameSeq
<1> QED BY <1>2, <1>4 DEF A, B, C

(* wipe writes n spaces.                                                   *)
LEMMA WipeWrites ==
  ASSUME NEW s, NEW tape, NEW at, Shows(s, tape, at), NEW n \in Nat
  PROVE  Wrote(s, tape, at, Spaces(n), wipe(s, n))
<1>1. at \in Nat /\ tape \in Tapes
  BY SyncedAt DEF Shows
<1>2. PICK f : /\ wipe(s, n) = f[n] /\ f[0] = s
               /\ \A i \in 1..n : f[i] = advanceCursor(queue(f[i - 1], Spaces(1)), 1)
  BY WipeSteps
<1> DEFINE T == {i \in Nat : i <= n => Wrote(s, tape, at, Spaces(i), f[i])}
<1>3. 0 \in T
  <2>1. Spaces(0) = <<>>
    BY DEF Spaces
  <2> QED BY <1>2, <2>1, EmptyWrites
<1>4. ASSUME NEW i \in Nat, i \in T PROVE i + 1 \in T
  <2> SUFFICES ASSUME i + 1 <= n PROVE Wrote(s, tape, at, Spaces(i + 1), f[i + 1])
    OBVIOUS
  <2> DEFINE a == Spaces(i)
             b == Spaces(1)
  <2>1. Wrote(s, tape, at, a, f[i])
    BY <1>4
  <2>2. f[i + 1] = Advanced(f[i], b)
    BY <1>2, SpacesType DEF Advanced
  <2>3. a \in Seq(Glyphs) /\ b \in Seq(Glyphs) /\ a \o b = Spaces(i + 1)
    BY SpacesType, Zenon
  <2> HIDE DEF a, b
  <2>4. Wrote(f[i], Written(tape, at, a), at + Len(a), b, f[i + 1])
    BY <2>1, <2>2, <2>3, ShowWrites DEF Wrote
  <2>5. Wrote(s, tape, at, a \o b, f[i + 1])
    BY <1>1, <2>1, <2>3, <2>4, WroteMore, Zenon
  <2> QED BY <2>3, <2>5
<1>5. n \in T
  <2> HIDE DEF T
  <2> QED BY <1>3, <1>4, Induct
<1> QED BY <1>2, <1>5

(* moveCursorToPos takes the cursor to the place of pos in the line.       *)
LEMMA MoveShows ==
  ASSUME NEW s, NEW tape, NEW at, Shows(s, tape, at), s.echo,
         NEW pos \in Nat, Len(s.prompt) + pos < Row(s.maxLine + 1, s.width)
  PROVE  LET r == moveCursorToPos(s, pos)
         IN /\ Shows(r, tape, Len(s.prompt) + pos) /\ SameLine(s, r)
            /\ r.maxLine = s.maxLine
<1> DEFINE w == s.width
           p == Len(s.prompt) + pos
           x == p % w
           y == p \div w
           c == [s EXCEPT !.cursorX = x, !.cursorY = y]
           up == Over(s.cursorY, y)
           down == Over(y, s.cursorY)
           left == Over(s.cursorX, x)
           right == Over(x, s.cursorX)
           r == moveCursorToPos(s, pos)
<1>1. /\ s \in Terms /\ tape \in Tapes /\ w \in Nat \ {0} /\ w \in Nat
      /\ s.cursorX \in Nat /\ s.cursorX < w /\ s.cursorY \in Nat
  BY SyncedAt DEF Shows
<1>2. /\ s.pend = FALSE /\ s.px = s.cursorX /\ s.py = s.cursorY
      /\ s.maxLine \in Nat /\ s.prompt \in Seq(Glyphs)
  BY <1>1 DEF Shows, Synced, Terms
<1>3. p \in Nat
  BY <1>2
<1>4. r = move(c, up, down, left, right)
  BY DEF moveCursorToPos
<1> HIDE DEF p
<1>5. x \in Nat /\ y \in Nat /\ x < w /\ Row(y, w) + x = p
  BY <1>1, <1>3, RowOf, Zenon
<1> HIDE DEF x, y
<1>6. y <= s.maxLine
  <2>1. p < Row(s.maxLine + 1, w)
    BY DEF p
  <2>2. s.maxLine + 1 \in Nat /\ Row(y, w) \in Nat
    <3>1. Row(y, w) \in Nat
      BY <1>1, <1>5, RowNat, Zenon
    <3> QED BY <1>2, <3>1
  <2>3. ~(y <= s.maxLine) => Row(s.maxLine + 1, w) <= Row(y, w)
    BY <1>1, <1>2, <1>5, <2>2, RowMono
  <2>4. Row(s.maxLine + 1, w) \in Nat
    BY <1>1, <2>2, RowNat, Zenon
  <2> QED BY <1>3, <1>5, <2>1, <2>2, <2>3, <2>4
<1>7. /\ c \in Terms /\ c.cursorX = x /\ c.cursorY = y /\ c.maxLine = s.maxLine
      /\ c.px = s.px /\ c.py = s.py /\ c.pend = s.pend /\ c.scr = s.scr /\ SameLine(s, c)
  BY <1>1, <1>5, Zenon DEF Terms, SameLine
<1>8. /\ up \in Nat /\ down \in Nat /\ left \in Nat /\ right \in Nat
      /\ s.cursorY + down - up = y /\ s.cursorX + right - left = x
  BY <1>1, <1>5 DEF Over
<1>9. up + down + left + right = 0 => y = s.cursorY /\ x = s.cursorX
  BY <1>1, <1>5, <1>8
<1>10. c.width = w
  BY <1>7 DEF SameLine
<1> HIDE DEF c, up, down, left, right
<1>11. /\ r \in Terms /\ r.cursorX = x /\ r.cursorY = y /\ r.maxLine = s.maxLine
       /\ r.px = x /\ r.py = y /\ r.pend = FALSE /\ r.scr = s.scr /\ SameLine(s, r)
  <2>1. CASE up + down + left + right = 0
    <3>1. r = c
      BY <1>4, <2>1 DEF move
    <3> QED BY <1>2, <1>7, <1>9, <2>1, <3>1
  <2>2. CASE up + down + left + right # 0
    <3>1. c.py + down - up = y /\ c.px + right - left = x
      BY <1>2, <1>7, <1>8
    <3>2. r = [c EXCEPT !.py = y, !.pend = FALSE, !.px = x]
      <4>1. r = [c EXCEPT !.py = c.py + down - up, !.pend = FALSE,
                          !.px = IF c.px + right - left < c.width THEN c.px + right - left ELSE c.width - 1]
        BY <1>4, <2>2 DEF move
      <4> QED BY <1>5, <1>10, <3>1, <4>1, Zenon
    <3> HIDE DEF r
    <3> QED BY <1>5, <1>7, <3>2, Zenon DEF Terms, SameLine
  <2> QED BY <2>1, <2>2, Zenon
<1> HIDE DEF r
<1>12. NextAt(r, p) /\ Cells(r, tape)
  <2>1. Row(y, w) \in Nat
    BY <1>1, <1>5, RowNat, Zenon
  <2>2. r.width = w
    BY <1>11 DEF SameLine
  <2>3. NextAt(r, p)
    BY <1>5, <1>11, <2>1, <2>2 DEF NextAt
  <2>4. Cells(r, tape)
    BY <1>11, <2>2 DEF Shows, Synced, View, Cells
  <2> QED BY <2>3, <2>4
<1>13. Shows(r, tape, p)
  BY <1>1, <1>3, <1>6, <1>11, <1>12 DEF Shows, Synced, View
<1> QED BY <1>11, <1>13 DEF p, r

(* Without echo the cursor stays.                                          *)
LEMMA NoMove ==
  ASSUME NEW s, NEW pos, ~s.echo
  PROVE  moveCursorToPos(s, pos) = s
BY DEF moveCursorToPos

-----------------------------------------------------------------------------
(* The tape that shows str and nothing else.                               *)
Ink(str) == [i \in Nat |-> IF i < Len(str) THEN str[i + 1] ELSE Blank]

(* A string and then blanks make a tape.                                   *)
LEMMA InkType ==
  ASSUME NEW str \in Seq(Glyphs)
  PROVE  Ink(str) \in Tapes /\ \A i \in Nat : i >= Len(str) => Ink(str)[i] = Blank
BY TextAssumption DEF Ink, Tapes

(* Writing b over c, with as many spaces after it as c is longer.          *)
LEMMA InkOver ==
  ASSUME NEW a \in Seq(Glyphs), NEW b \in Seq(Glyphs), NEW c \in Seq(Glyphs),
         NEW k \in Nat, Len(c) <= Len(b) + k
  PROVE  Written(Ink(a \o c), Len(a), b \o Spaces(k)) = Ink(a \o b)
<1> DEFINE d == Spaces(k)
           T == Ink(a \o c)
           U == Ink(a \o b)
           W == Written(T, Len(a), b \o d)
<1>1. d \in Seq(Glyphs) /\ Len(d) = k /\ \A i \in 1..k : d[i] = Blank
  BY SpacesType, Zenon
<1> HIDE DEF d
<1>2. /\ Len(a) \in Nat /\ Len(b) \in Nat /\ Len(c) \in Nat
      /\ Len(a \o c) = Len(a) + Len(c) /\ Len(a \o b) = Len(a) + Len(b)
      /\ Len(b \o d) = Len(b) + k
  BY <1>1, Concats, Zenon
<1>3. \A i \in 1..(Len(a) + Len(c)) : (a \o c)[i] = IF i <= Len(a) THEN a[i] ELSE c[i - Len(a)]
  BY Concats, Zenon
<1>4. \A i \in 1..(Len(a) + Len(b)) : (a \o b)[i] = IF i <= Len(a) THEN a[i] ELSE b[i - Len(a)]
  BY Concats, Zenon
<1>5. \A i \in 1..(Len(b) + k) : (b \o d)[i] = IF i <= Len(b) THEN b[i] ELSE d[i - Len(b)]
  <2>1. \A i \in 1..(Len(b) + Len(d)) : (b \o d)[i] = IF i <= Len(b) THEN b[i] ELSE d[i - Len(b)]
    BY <1>1, Concats, Zenon
  <2> QED BY <1>1, <2>1, Zenon
<1>6. ASSUME NEW i \in Nat PROVE W[i] = U[i]
  <2>1. W[i] = IF Len(a) <= i /\ i < Len(a) + Len(b \o d) THEN (b \o d)[i - Len(a) + 1] ELSE T[i]
    BY DEF Written
  <2>2. T[i] = IF i < Len(a \o c) THEN (a \o c)[i + 1] ELSE Blank
    BY DEF Ink
  <2>3. U[i] = IF i < Len(a \o b) THEN (a \o b)[i + 1] ELSE Blank
    BY DEF Ink
  <2> HIDE DEF W, T, U
  <2>4. CASE i < Len(a)
    <3>1. (a \o c)[i + 1] = a[i + 1]
      BY <1>2, <1>3, <2>4
    <3>2. (a \o b)[i + 1] = a[i + 1]
      BY <1>2, <1>4, <2>4
    <3> QED BY <1>2, <2>1, <2>2, <2>3, <2>4, <3>1, <3>2
  <2>5. CASE Len(a) <= i /\ i < Len(a) + Len(b)
    <3>1. (b \o d)[i - Len(a) + 1] = b[i - Len(a) + 1]
      BY <1>2, <1>5, <2>5
    <3>2. (a \o b)[i + 1] = b[(i + 1) - Len(a)]
      BY <1>2, <1>4, <2>5
    <3>3. i - Len(a) + 1 = (i + 1) - Len(a)
      BY <1>2
    <3>4. W[i] = b[i - Len(a) + 1]
      BY <1>2, <2>1, <2>5, <3>1
    <3>5. U[i] = b[(i + 1) - Len(a)]
      BY <1>2, <2>3, <2>5, <3>2
    <3> QED BY <3>3, <3>4, <3>5
  <2>6. CASE Len(a) + Len(b) <= i /\ i < Len(a) + Len(b) + k
    <3> DEFINE j == i - Len(a) + 1
    <3>1. j \in 1..(Len(b) + k) /\ ~(j <= Len(b)) /\ j - Len(b) \in 1..k
      BY <1>2, <2>6
    <3>2. W[i] = (b \o d)[j]
      BY <1>2, <2>1, <2>6
    <3> HIDE DEF j
    <3>3. W[i] = Blank
      BY <1>1, <1>5, <3>1, <3>2
    <3>4. U[i] = Blank
      BY <1>2, <2>3, <2>6
    <3> QED BY <3>3, <3>4
  <2>7. CASE Len(a) + Len(b) + k <= i
    BY <1>2, <2>1, <2>2, <2>3, <2>7
  <2> QED BY <1>2, <2>4, <2>5, <2>6, <2>7
<1>7. W = [i \in Nat |-> W[i]] /\ U = [i \in Nat |-> U[i]]
  BY DEF Written, Ink
<1> HIDE DEF W, U, T
<1>8. W = U
  BY <1>6, <1>7, Zenon
<1> QED BY <1>8 DEF W, U, T, d

(* A text written over the end of another one.                             *)
LEMMA Overwritten ==
  ASSUME NEW s, NEW a \in Seq(Glyphs), NEW b \in Seq(Glyphs), NEW c \in Seq(Glyphs), NEW k \in Nat,
         Len(c) <= Len(b) + k,
         NEW r, Wrote(s, Ink(a \o c), Len(a), b \o Spaces(k), r)
  PROVE  /\ Shows(r, Ink(a \o b), Len(a) + Len(b) + k) /\ SameLine(s, r)
         /\ r \in Terms /\ r.maxLine \in Nat /\ s.maxLine <= r.maxLine
         /\ Len(a) + Len(b) < Row(r.maxLine + 1, r.width)
<1> DEFINE e == Len(a) + Len(b) + k
<1>1. Len(a) + Len(b \o Spaces(k)) = e /\ e \in Nat /\ Len(a) + Len(b) \in Nat /\ Len(a) + Len(b) <= e
  <2>1. Len(b \o Spaces(k)) = Len(b) + k /\ Len(a) \in Nat /\ Len(b) \in Nat
    <3> DEFINE d == Spaces(k)
    <3>1. d \in Seq(Glyphs) /\ Len(d) = k
      BY SpacesType
    <3> HIDE DEF d
    <3>2. Len(b \o d) = Len(b) + Len(d)
      BY <3>1, Concats, Zenon
    <3> QED BY <3>1, <3>2 DEF d
  <2> QED BY <2>1
<1>2. Shows(r, Ink(a \o b), e)
  BY <1>1, InkOver, SMTT(15) DEF Wrote
<1> HIDE DEF e
<1>3. r \in Terms /\ r.maxLine \in Nat /\ r.width \in Nat
  BY <1>2, SyncedAt DEF Shows, Terms
<1>4. e < Row(r.maxLine + 1, r.width)
  BY <1>2, ShowsFits
<1>5. Row(r.maxLine + 1, r.width) \in Nat
  <2>1. r.maxLine + 1 \in Nat
    BY <1>3
  <2> QED BY <1>3, <2>1, RowNat, Zenon
<1>6. Len(a) + Len(b) < Row(r.maxLine + 1, r.width)
  BY <1>1, <1>4, <1>5
<1> QED BY <1>2, <1>3, <1>6 DEF e, Wrote

(* Two editors whose screens and cursors are the same.                     *)
SameScreen(s, r) ==
  /\ r.scr = s.scr /\ r.px = s.px /\ r.py = s.py /\ r.pend = s.pend
  /\ r.prompt = s.prompt /\ r.echo = s.echo /\ r.width = s.width
  /\ SameCursor(s, r)

(* What is shown depends on the screen and the cursor alone.               *)
LEMMA ScreenShows ==
  ASSUME NEW s, NEW tape, NEW at, Shows(s, tape, at), NEW r \in Terms, SameScreen(s, r)
  PROVE  Shows(r, tape, at)
BY DEF Shows, Synced, View, Cells, NextAt, SameScreen, SameCursor

-----------------------------------------------------------------------------
(* What the user sees between two keys.  With echo, the prompt and the     *)
(* line, and the cursor at its place in the line.                          *)
Echoed(s) ==
  LET a == Len(s.prompt)
  IN /\ s.echo /\ s.pos <= Len(s.line)
     /\ Shows(s, Ink(s.prompt \o s.line), a + s.pos)
     /\ a + Len(s.line) < Row(s.maxLine + 1, s.width)

(* Without, the prompt, and the cursor somewhere after it.                 *)
Hidden(s) ==
  /\ ~s.echo /\ s.pos <= Len(s.line)
  /\ \E at \in Nat : at >= Len(s.prompt) /\ Shows(s, Ink(s.prompt), at)

(* An edit shows another line.                                             *)
Edited(s, r, line) ==
  (IF s.echo THEN Echoed(r) ELSE Hidden(r))
  /\ r.line = line /\ r.prompt = s.prompt /\ r.width = s.width /\ r.echo = s.echo

(* moveCursorToPos reaches every place of the line that was written.       *)
LEMMA MoveFits ==
  ASSUME NEW q, NEW tape, NEW at, Shows(q, tape, at), q.echo, NEW n \in Nat, NEW pos \in Nat, pos <= n,
         Len(q.prompt) + n < Row(q.maxLine + 1, q.width)
  PROVE  LET r == moveCursorToPos(q, pos)
         IN /\ Shows(r, tape, Len(q.prompt) + pos) /\ SameLine(q, r)
            /\ r.maxLine = q.maxLine /\ r \in Terms
<1> DEFINE a == Len(q.prompt)
           r == moveCursorToPos(q, pos)
<1>1. q \in Terms /\ q.prompt \in Seq(Glyphs) /\ q.maxLine \in Nat /\ q.width \in Nat
  BY SyncedAt DEF Shows, Terms
<1>2. a + pos < Row(q.maxLine + 1, q.width)
  <2>1. q.maxLine + 1 \in Nat
    BY <1>1
  <2>2. Row(q.maxLine + 1, q.width) \in Nat
    BY <1>1, <2>1, RowNat, Zenon
  <2>3. a \in Nat
    BY <1>1
  <2>4. a + n < Row(q.maxLine + 1, q.width)
    OBVIOUS
  <2> HIDE DEF a
  <2> QED BY <2>2, <2>3, <2>4
<1>3. Shows(r, tape, a + pos) /\ SameLine(q, r) /\ r.maxLine = q.maxLine
  BY <1>2, MoveShows
<1> HIDE DEF r, a
<1>4. r \in Terms
  BY <1>3, SyncedAt DEF Shows
<1> QED BY <1>3, <1>4 DEF r, a

(* The last step of an edit: the new line is shown, the cursor goes to pos.*)
LEMMA Repainted ==
  ASSUME NEW q, NEW line \in Seq(Glyphs), NEW pos \in Nat, pos <= Len(line),
         NEW at, Shows(q, Ink(q.prompt \o line), at), q.echo,
         Len(q.prompt) + Len(line) < Row(q.maxLine + 1, q.width),
         NEW r \in Terms, SameScreen(moveCursorToPos(q, pos), r), r.line = line, r.pos = pos
  PROVE  Echoed(r)
<1> DEFINE m == moveCursorToPos(q, pos)
           a == Len(q.prompt)
<1>1. Len(line) \in Nat
  OBVIOUS
<1>3. Shows(m, Ink(q.prompt \o line), a + pos) /\ SameLine(q, m) /\ m.maxLine = q.maxLine
  BY <1>1, MoveFits, Zenon
<1> HIDE DEF m
<1>4. Shows(r, Ink(q.prompt \o line), a + pos)
  BY <1>3, ScreenShows, SMTT(15) DEF m
<1>5. r.prompt = q.prompt /\ r.echo = q.echo /\ r.width = q.width /\ r.maxLine = q.maxLine
  BY <1>3 DEF SameScreen, SameCursor, SameLine, m
<1> QED BY <1>4, <1>5 DEF Echoed

(* movePos: the arrow keys, home and end.                                  *)
LEMMA MovePosEchoed ==
  ASSUME NEW s, Echoed(s), NEW pos \in Nat, pos <= Len(s.line)
  PROVE  Edited(s, movePos(s, pos), s.line)
<1> DEFINE q == [s EXCEPT !.pos = pos]
           r == moveCursorToPos(q, pos)
           at == Len(s.prompt) + s.pos
<1>1. s \in Terms
  BY SyncedAt DEF Echoed, Shows
<1>2. /\ q \in Terms /\ SameScreen(s, q) /\ q.line = s.line /\ q.pos = pos
      /\ q.prompt = s.prompt /\ q.echo = s.echo /\ q.width = s.width /\ q.maxLine = s.maxLine
  BY <1>1, Zenon DEF Terms, SameScreen, SameCursor
<1>3. Shows(q, Ink(s.prompt \o s.line), at)
  BY <1>2, ScreenShows DEF Echoed
<1> HIDE DEF q
<1>0. Len(s.prompt) + Len(s.line) < Row(s.maxLine + 1, s.width) /\ s.echo
  BY Zenon DEF Echoed
<1>4. r \in Terms /\ SameLine(q, r) /\ r.echo = s.echo
  <2>1. Len(s.line) \in Nat
    BY <1>1 DEF Terms
  <2>2. r \in Terms /\ SameLine(q, r)
    BY <1>2, <1>3, <1>0, <2>1, MoveFits, Zenon
  <2> QED BY <1>2, <2>2 DEF SameLine
<1>5. r.line = s.line /\ r.pos = pos /\ r.prompt = s.prompt /\ r.width = s.width
  BY <1>2, <1>4 DEF SameLine
<1>6. SameScreen(r, r)
  BY DEF SameScreen, SameCursor
<1>7. s.line \in Seq(Glyphs)
  BY <1>1 DEF Terms
<1> HIDE DEF r
<1>8. Echoed(r)
  BY <1>2, <1>3, <1>4, <1>5, <1>6, <1>7, <1>0, Repainted, Zenon DEF r
<1> QED BY <1>4, <1>5, <1>8, <1>0, Zenon DEF Edited, movePos, r, q

(* setLine: the line is written over the old one.                          *)
LEMMA SetLineEchoed ==
  ASSUME NEW s, s.echo, NEW old \in Seq(Glyphs), Len(old) <= Len(s.line),
         NEW at, Shows(s, Ink(s.prompt \o old), at),
         Len(s.prompt) + 0 < Row(s.maxLine + 1, s.width),
         NEW newLine \in Seq(Glyphs), NEW newPos \in Nat, newPos <= Len(newLine)
  PROVE  Edited(s, setLine(s, newLine, newPos), newLine)
<1> DEFINE a == s.prompt
           k == Over(Len(s.line), Len(newLine))
           home == moveCursorToPos(s, 0)
           shown == writeLine(home, newLine)
           wiped == wipe(shown, k)
           end == moveCursorToPos(wiped, newPos)
           r == [end EXCEPT !.line = newLine, !.pos = newPos]
<1>1. s \in Terms /\ a \in Seq(Glyphs) /\ s.line \in Seq(Glyphs)
  BY SyncedAt DEF Shows, Terms
<1>2. Len(a) \in Nat /\ Len(a) + 0 = Len(a) /\ Len(newLine) \in Nat /\ Len(s.line) \in Nat /\ Len(old) \in Nat
  BY <1>1
<1>3. k \in Nat /\ Len(old) <= Len(newLine) + k
  BY <1>2 DEF Over
<1>4. setLine(s, newLine, newPos) = r
  BY DEF setLine
<1>5. Shows(home, Ink(a \o old), Len(a)) /\ SameLine(s, home)
  <2>1. 0 \in Nat /\ 0 <= 0
    OBVIOUS
  <2>2. Shows(home, Ink(a \o old), Len(a) + 0) /\ SameLine(s, home)
    BY <2>1, MoveFits
  <2> QED BY <1>2, <2>2
<1> HIDE DEF k, home
<1>6. Ink(a \o old) \in Tapes
  BY <1>5, SyncedAt DEF Shows
<1>7. Wrote(home, Ink(a \o old), Len(a), newLine, shown)
  BY <1>5, LineWrites
<1> HIDE DEF shown
<1>8. Wrote(shown, Written(Ink(a \o old), Len(a), newLine), Len(a) + Len(newLine), Spaces(k), wiped)
  BY <1>3, <1>7, WipeWrites, Zenon DEF Wrote
<1> HIDE DEF wiped
<1>9. Wrote(home, Ink(a \o old), Len(a), newLine \o Spaces(k), wiped)
  BY <1>2, <1>3, <1>6, <1>7, <1>8, SpacesType, WroteMore, Zenon
<1>10. /\ Shows(wiped, Ink(a \o newLine), Len(a) + Len(newLine) + k) /\ SameLine(home, wiped)
       /\ Len(a) + Len(newLine) < Row(wiped.maxLine + 1, wiped.width)
  BY <1>1, <1>3, <1>9, Overwritten, Zenon
<1>11. wiped.prompt = a /\ wiped.echo = s.echo /\ wiped.width = s.width
  BY <1>5, <1>10 DEF SameLine
<1>12. end \in Terms /\ SameLine(wiped, end)
  BY <1>2, <1>10, <1>11, MoveFits, Zenon
<1> HIDE DEF end
<1>13. r \in Terms /\ SameScreen(end, r) /\ r.line = newLine /\ r.pos = newPos
  BY <1>12, Zenon DEF Terms, SameScreen, SameCursor
<1> HIDE DEF r
<1>14. Echoed(r)
  BY <1>10, <1>11, <1>13, Repainted, Zenon DEF end
<1>15. r.prompt = s.prompt /\ r.width = s.width /\ r.echo = s.echo
  BY <1>11, <1>12, <1>13 DEF SameScreen, SameLine
<1> QED BY <1>4, <1>13, <1>14, <1>15, SMTT(15) DEF Edited

(* Without echo setLine prints nothing.                                    *)
LEMMA SetLineHidden ==
  ASSUME NEW s, NEW at \in Nat, at >= Len(s.prompt), Shows(s, Ink(s.prompt), at), ~s.echo,
         NEW newLine \in Seq(Glyphs), NEW newPos \in Nat, newPos <= Len(newLine)
  PROVE  Edited(s, setLine(s, newLine, newPos), newLine)
<1> DEFINE r == [s EXCEPT !.line = newLine, !.pos = newPos]
<1>1. s \in Terms
  BY SyncedAt DEF Shows
<1>2. setLine(s, newLine, newPos) = r
  BY DEF setLine
<1>3. r \in Terms /\ SameScreen(s, r) /\ r.line = newLine /\ r.pos = newPos
  BY <1>1, Zenon DEF Terms, SameScreen, SameCursor
<1> HIDE DEF r
<1>4. Shows(r, Ink(s.prompt), at)
  BY <1>3, ScreenShows
<1> QED BY <1>2, <1>3, <1>4 DEF Edited, Hidden, SameScreen

(* setLine as the history and the completion use it.                       *)
LEMMA SetLineEdits ==
  ASSUME NEW s, Echoed(s) \/ Hidden(s), NEW newLine \in Seq(Glyphs)
  PROVE  Edited(s, setLine(s, newLine, Len(newLine)), newLine)
<1>1. Len(newLine) \in Nat /\ Len(newLine) <= Len(newLine)
  OBVIOUS
<1>2. CASE Echoed(s)
  <2>1. s \in Terms
    BY <1>2, SyncedAt DEF Echoed, Shows
  <2>2. s.line \in Seq(Glyphs) /\ s.prompt \in Seq(Glyphs) /\ s.maxLine \in Nat /\ s.width \in Nat
    BY <2>1 DEF Terms
  <2>3. Len(s.prompt) + 0 < Row(s.maxLine + 1, s.width) /\ Len(s.line) <= Len(s.line)
    <3>1. s.maxLine + 1 \in Nat
      BY <2>2
    <3>2. Row(s.maxLine + 1, s.width) \in Nat
      BY <2>2, <3>1, RowNat, Zenon
    <3>3. Len(s.prompt) + Len(s.line) < Row(s.maxLine + 1, s.width)
      BY <1>2, Zenon DEF Echoed
    <3>4. Len(s.prompt) \in Nat /\ Len(s.line) \in Nat
      BY <2>2
    <3> DEFINE R == Row(s.maxLine + 1, s.width)
               a == Len(s.prompt)
               l == Len(s.line)
    <3>5. R \in Nat /\ a + l < R /\ a \in Nat /\ l \in Nat
      BY <3>2, <3>3, <3>4, Zenon
    <3> HIDE DEF R, a, l
    <3>6. a + 0 < R /\ l <= l
      BY <3>5
    <3> QED BY <3>6 DEF R, a, l
  <2> QED BY <1>1, <1>2, <2>2, <2>3, SetLineEchoed, Zenon DEF Echoed
<1>3. CASE Hidden(s)
  BY <1>1, <1>3, SetLineHidden DEF Hidden
<1> QED BY <1>2, <1>3

Assoc(a, b, c) == (a \o b) \o c = a \o (b \o c)

(* Concatenation is associative.                                           *)
LEMMA ConcatAssoc ==
  ASSUME NEW a \in Seq(Glyphs), NEW b \in Seq(Glyphs), NEW c \in Seq(Glyphs)
  PROVE  Assoc(a, b, c)
<1> DEFINE l == (a \o b) \o c
           r == a \o (b \o c)
<1>1. l \in Seq(Glyphs) /\ r \in Seq(Glyphs) /\ Len(l) = Len(r) /\ \A i \in 1..Len(l) : l[i] = r[i]
  OBVIOUS
<1> HIDE DEF l, r
<1>2. l = r
  BY <1>1, SameSeq
<1> QED BY <1>2 DEF l, r, Assoc

(* The line, cut at p.                                                     *)
Cut(a, line, p, x) ==
  LET b == SubSeq(line, 1, p)
      c == SubSeq(line, p + 1, Len(line))
  IN /\ b \in Seq(Glyphs) /\ Len(b) = p /\ c \in Seq(Glyphs) /\ Len(c) = Len(line) - p
     /\ a \o b \in Seq(Glyphs) /\ Len(a \o b) = Len(a) + p
     /\ (a \o b) \o c = a \o line /\ (a \o b) \o x = a \o (b \o x)
     /\ b \o x \in Seq(Glyphs) /\ Len(b \o x) = p + Len(x)
     /\ SubSeq(b \o x, p + 1, Len(b \o x)) = x

(* What follows b in b \o x is x.                                          *)
LEMMA Suffix ==
  ASSUME NEW b \in Seq(Glyphs), NEW x \in Seq(Glyphs)
  PROVE  SubSeq(b \o x, Len(b) + 1, Len(b \o x)) = x
<1> DEFINE y == b \o x
           l == SubSeq(y, Len(b) + 1, Len(y))
<1>1. y \in Seq(Glyphs) /\ Len(y) = Len(b) + Len(x) /\ \A i \in 1..Len(x) : y[Len(b) + i] = x[i]
  OBVIOUS
<1> HIDE DEF y
<1>3. l \in Seq(Glyphs) /\ Len(l) = Len(x) /\ \A i \in 1..Len(l) : l[i] = x[i]
  BY <1>1
<1> HIDE DEF l
<1>2. l = x
  BY <1>3, SameSeq
<1> QED BY <1>2 DEF l, y

(* A line cut at p, and its rest replaced by x.                            *)
LEMMA CutLine ==
  ASSUME NEW a \in Seq(Glyphs), NEW line \in Seq(Glyphs), NEW p \in Nat, p <= Len(line), NEW x \in Seq(Glyphs)
  PROVE  Cut(a, line, p, x)
<1> DEFINE b == SubSeq(line, 1, p)
           j == Len(line) - p
           c == SubSeq(line, p + 1, Len(line))
<1>1. p \in 0..Len(line) /\ j \in 0..(Len(line) - p) /\ p + j = Len(line)
  OBVIOUS
<1>2. /\ SubSeq(line, p + 1, p + j) \in Seq(Glyphs) /\ Len(SubSeq(line, p + 1, p + j)) = j
      /\ b \in Seq(Glyphs) /\ Len(b) = p
      /\ b \o SubSeq(line, p + 1, p + j) = SubSeq(line, 1, p + j)
  <2> HIDE DEF j
  <2> QED BY <1>1, SubSeqs, Zenon
<1>3. SubSeq(line, 1, Len(line)) = line
  OBVIOUS
<1>4. /\ b \in Seq(Glyphs) /\ Len(b) = p
      /\ c \in Seq(Glyphs) /\ Len(c) = Len(line) - p /\ b \o c = line
  BY <1>1, <1>2, <1>3, Zenon
<1> HIDE DEF b, c, j
<1>0. b \in Seq(Glyphs) /\ c \in Seq(Glyphs)
  BY <1>4
<1>5. (a \o b) \o c = a \o line /\ (a \o b) \o x = a \o (b \o x)
  <2>1. Assoc(a, b, c) /\ Assoc(a, b, x)
    BY <1>0, ConcatAssoc, Zenon
  <2>3. b \o c = line
    BY <1>4
  <2> QED BY <2>1, <2>3, Zenon DEF Assoc
<1>6. a \o b \in Seq(Glyphs) /\ Len(a \o b) = Len(a) + p
  <2>1. a \o b \in Seq(Glyphs) /\ Len(a \o b) = Len(a) + Len(b) /\ Len(b) = p
    BY <1>4, <1>0, Concats, Zenon
  <2> QED BY <2>1, Zenon
<1>7. b \o x \in Seq(Glyphs) /\ Len(b \o x) = p + Len(x)
  <2>1. b \o x \in Seq(Glyphs) /\ Len(b \o x) = Len(b) + Len(x) /\ Len(b) = p
    BY <1>4, <1>0, Concats, Zenon
  <2> QED BY <2>1, Zenon
<1>8. SubSeq(b \o x, p + 1, Len(b \o x)) = x
  BY <1>4, Suffix, Zenon
<1> QED BY <1>4, <1>5, <1>6, <1>7, <1>8, Zenon DEF b, c, Cut

(* The text after p, rewritten: q shows the line that ends in x.           *)
LEMMA Tailed ==
  ASSUME NEW m, m.echo, NEW line \in Seq(Glyphs), NEW p \in Nat, p <= Len(line),
         NEW x \in Seq(Glyphs), NEW k \in Nat, Len(line) <= p + Len(x) + k,
         m.prompt \in Seq(Glyphs), NEW q,
         Wrote(m, Ink(m.prompt \o line), Len(m.prompt) + p, x \o Spaces(k), q)
  PROVE  LET new == SubSeq(line, 1, p) \o x
         IN /\ new \in Seq(Glyphs) /\ Len(new) = p + Len(x) /\ SameLine(m, q) /\ q \in Terms
            /\ Shows(q, Ink(q.prompt \o new), Len(m.prompt) + p + Len(x) + k)
            /\ Len(q.prompt) + Len(new) < Row(q.maxLine + 1, q.width)
<1> DEFINE a == m.prompt
           b == SubSeq(line, 1, p)
           c == SubSeq(line, p + 1, Len(line))
           new == b \o x
           ab == a \o b
           e == Len(a) + p + Len(x) + k
<1>1. Cut(a, line, p, x)
  <2> HIDE DEF a
  <2> QED BY CutLine DEF a
<1>2. /\ b \in Seq(Glyphs) /\ Len(b) = p /\ c \in Seq(Glyphs) /\ Len(c) = Len(line) - p
      /\ ab \in Seq(Glyphs) /\ Len(ab) = Len(a) + p
      /\ ab \o c = a \o line /\ ab \o x = a \o new
      /\ new \in Seq(Glyphs) /\ Len(new) = p + Len(x)
  BY <1>1, Zenon DEF Cut
<1>3. Len(a) \in Nat /\ Len(x) \in Nat /\ Len(line) \in Nat
  OBVIOUS
<1> HIDE DEF a, b, c, new, ab
<1>4. Len(c) <= Len(x) + k
  BY <1>2, <1>3
<1>5. Wrote(m, Ink(ab \o c), Len(ab), x \o Spaces(k), q)
  BY <1>2 DEF a
<1>6. /\ Shows(q, Ink(ab \o x), Len(ab) + Len(x) + k) /\ SameLine(m, q)
      /\ q \in Terms /\ Len(ab) + Len(x) < Row(q.maxLine + 1, q.width)
  BY <1>2, <1>4, <1>5, Overwritten, Zenon
<1>7. q.prompt = a
  BY <1>6 DEF SameLine, a
<1>8. Shows(q, Ink(q.prompt \o new), e)
  BY <1>2, <1>6, <1>7
<1>9. Len(q.prompt) + Len(new) < Row(q.maxLine + 1, q.width)
  <2>1. Len(q.prompt) + Len(new) = Len(ab) + Len(x)
    BY <1>2, <1>3, <1>7, SMTT(15)
  <2> QED BY <1>6, <2>1
<1> QED BY <1>2, <1>6, <1>8, <1>9, Zenon DEF new, b, a

(* What remains of the line when the n characters before the cursor go.    *)
Erased(s, n) == SubSeq(s.line, 1, s.pos - n) \o SubSeq(s.line, s.pos + 1, Len(s.line))

(* eraseNPreviousChars writes the rest of the line over what it erases,    *)
(* and blanks over the end.                                                *)
LEMMA EraseEchoed ==
  ASSUME NEW s, s.echo, s.pos <= Len(s.line), s.pos > 0, NEW count \in Nat \ {0},
         NEW at, Shows(s, Ink(s.prompt \o s.line), at),
         Len(s.prompt) + Len(s.line) < Row(s.maxLine + 1, s.width)
  PROVE  LET n == IF s.pos < count THEN s.pos ELSE count
         IN Edited(s, eraseNPreviousChars(s, count), Erased(s, n))
<1> DEFINE n == IF s.pos < count THEN s.pos ELSE count
           p == s.pos - n
           line == s.line
           new == Erased(s, n)
           x == SubSeq(line, s.pos + 1, Len(line))
           mv == moveCursorToPos(s, p)
           m == [mv EXCEPT !.pos = p,
                           !.line = SubSeq(mv.line, 1, p) \o SubSeq(mv.line, s.pos + 1, Len(mv.line))]
           w == writeLine(m, SubSeq(m.line, p + 1, Len(m.line)))
           q == Advanced(w, Spaces(n))
           r == moveCursorToPos(q, p)
           here == Len(s.prompt) + p
           tape == Ink(s.prompt \o line)
<1>1. s \in Terms /\ s.prompt \in Seq(Glyphs) /\ line \in Seq(Glyphs) /\ s.pos \in Nat
  BY SyncedAt DEF Shows, Terms
<1>2. /\ n \in Nat \ {0} /\ p \in Nat /\ p + n = s.pos /\ p <= Len(line) /\ Len(line) \in Nat
      /\ Len(s.prompt) \in Nat /\ here \in Nat
  BY <1>1
<1>3. eraseNPreviousChars(s, count) = r
  BY <1>2, SpacesType, Zenon DEF eraseNPreviousChars, Advanced
<1>4. x \in Seq(Glyphs) /\ Len(x) = Len(line) - s.pos
  BY <1>1
<1> HIDE DEF n, p
<1>5. Shows(mv, tape, here) /\ SameLine(s, mv) /\ mv \in Terms
  BY <1>2, MoveFits, Zenon
<1> HIDE DEF mv
<1>6. mv.line = line
  BY <1>5 DEF SameLine
<1>7. new = SubSeq(line, 1, p) \o x /\ m = [mv EXCEPT !.pos = p, !.line = new]
  BY <1>6 DEF Erased, p
<1> HIDE DEF x
<1>8. Cut(s.prompt, line, p, x)
  BY <1>1, <1>2, <1>4, CutLine
<1>9. new \in Seq(Glyphs) /\ Len(new) = p + Len(x) /\ SubSeq(new, p + 1, Len(new)) = x
  BY <1>7, <1>8, Zenon DEF Cut
<1> HIDE DEF new, m
<1>10. /\ m \in Terms /\ SameScreen(mv, m) /\ m.line = new /\ m.pos = p
       /\ m.prompt = mv.prompt /\ m.echo = mv.echo /\ m.width = mv.width
  BY <1>2, <1>5, <1>7, <1>9, Zenon DEF Terms, SameScreen, SameCursor
<1>11. Shows(m, tape, here)
  BY <1>5, <1>10, ScreenShows
<1>12. w = writeLine(m, x)
  BY <1>9, <1>10, Zenon
<1>13. Wrote(m, tape, here, x, w)
  BY <1>4, <1>11, <1>12, LineWrites
<1> HIDE DEF w
<1>14. Wrote(w, Written(tape, here, x), here + Len(x), Spaces(n), q)
  BY <1>2, <1>13, SpacesType, ShowWrites, Zenon DEF Wrote
<1> HIDE DEF q
<1>15. Wrote(m, tape, here, x \o Spaces(n), q)
  <2>1. tape \in Tapes
    BY <1>5, SyncedAt DEF Shows
  <2> HIDE DEF tape, here
  <2> QED BY <1>2, <1>4, <1>13, <1>14, <2>1, SpacesType, WroteMore, Zenon
<1>16. m.prompt = s.prompt /\ m.echo = s.echo /\ m.width = s.width
  BY <1>5, <1>10 DEF SameLine
<1>17. Len(line) <= p + Len(x) + n
  BY <1>2, <1>4
<1>18. /\ SameLine(m, q) /\ q \in Terms
       /\ Shows(q, Ink(q.prompt \o new), here + Len(x) + n)
       /\ Len(q.prompt) + Len(new) < Row(q.maxLine + 1, q.width)
  <2>1. Wrote(m, Ink(m.prompt \o line), Len(m.prompt) + p, x \o Spaces(n), q)
    BY <1>15, <1>16
  <2>2. m.prompt \in Seq(Glyphs) /\ m.echo
    BY <1>1, <1>16
  <2> HIDE DEF line, tape, here
  <2>3. /\ SameLine(m, q) /\ q \in Terms
        /\ Shows(q, Ink(q.prompt \o new), Len(m.prompt) + p + Len(x) + n)
        /\ Len(q.prompt) + Len(new) < Row(q.maxLine + 1, q.width)
    BY <1>1, <1>2, <1>4, <1>7, <1>17, <2>1, <2>2, Tailed, Zenon DEF line
  <2> QED BY <1>16, <2>3, SMTT(15) DEF here
<1>19. q.line = new /\ q.pos = p /\ q.prompt = s.prompt /\ q.echo = s.echo /\ q.width = s.width
  BY <1>10, <1>16, <1>18 DEF SameLine
<1>20. p <= Len(new) /\ Len(new) \in Nat
  BY <1>2, <1>4, <1>9
<1>21. r \in Terms /\ SameLine(q, r)
  BY <1>2, <1>18, <1>19, <1>20, MoveFits, Zenon
<1>22. r.line = new /\ r.pos = p /\ r.prompt = s.prompt /\ r.echo = s.echo /\ r.width = s.width
  BY <1>19, <1>21 DEF SameLine
<1>23. SameScreen(moveCursorToPos(q, p), r) /\ q.echo
  BY <1>19 DEF SameScreen, SameCursor
<1> HIDE DEF r
<1>24. Echoed(r)
  <2> DEFINE end == here + Len(x) + n
  <2>1. Shows(q, Ink(q.prompt \o new), end)
    BY <1>18
  <2> HIDE DEF end
  <2> QED BY <1>2, <1>9, <1>18, <1>20, <1>21, <1>22, <1>23, <2>1, Repainted, Zenon
<1> QED BY <1>3, <1>22, <1>24, SMTT(15) DEF Edited, n, new

(* The types of what the user edits.                                       *)
LEMMA DisplayTerms ==
  ASSUME NEW s, Echoed(s) \/ Hidden(s)
  PROVE  /\ s \in Terms /\ s.prompt \in Seq(Glyphs) /\ s.line \in Seq(Glyphs)
         /\ s.pos \in Nat /\ s.pos <= Len(s.line)
<1>1. s.pos <= Len(s.line)
  BY Zenon DEF Echoed, Hidden
<1>2. s \in Terms
  BY SyncedAt, Zenon DEF Shows, Echoed, Hidden
<1> QED BY <1>1, <1>2 DEF Terms

(* The line with key put in at the cursor.                                 *)
Inserted(s, key) == SubSeq(s.line, 1, s.pos) \o <<key>> \o SubSeq(s.line, s.pos + 1, Len(s.line))

(* addKeyToLine.                                                           *)
LEMMA AddEdits ==
  ASSUME NEW s, Echoed(s) \/ Hidden(s), NEW key \in Glyphs
  PROVE  /\ Edited(s, addKeyToLine(s, key), Inserted(s, key))
         /\ Inserted(s, key) \in Seq(Glyphs) /\ Len(Inserted(s, key)) = Len(s.line) + 1
<1> DEFINE line == s.line
           p == s.pos
           z == p + 1
           y == SubSeq(line, p + 1, Len(line))
           x == <<key>> \o y
           new == SubSeq(line, 1, p) \o x
           a == [s EXCEPT !.line = new]
<1>1. s \in Terms /\ s.prompt \in Seq(Glyphs) /\ line \in Seq(Glyphs) /\ p \in Nat /\ p <= Len(line)
  BY DisplayTerms
<1>2. /\ y \in Seq(Glyphs) /\ Len(y) = Len(line) - p /\ <<key>> \in Seq(Glyphs) /\ Len(<<key>>) = 1
      /\ SubSeq(line, 1, p) \in Seq(Glyphs) /\ Len(line) \in Nat
  BY <1>1
<1>3. Inserted(s, key) = new
  <2>1. Assoc(SubSeq(line, 1, p), <<key>>, y)
    BY <1>2, ConcatAssoc, Zenon
  <2> QED BY <2>1, Zenon DEF Assoc, Inserted
<1> HIDE DEF y
<1>4. x \in Seq(Glyphs) /\ Len(x) = 1 + (Len(line) - p)
  BY <1>2, Concats
<1> HIDE DEF x
<1>5. Cut(s.prompt, line, p, x)
  BY <1>1, <1>4, CutLine
<1>6. new \in Seq(Glyphs) /\ Len(new) = p + Len(x) /\ SubSeq(new, p + 1, Len(new)) = x
  BY <1>5, Zenon DEF Cut
<1> HIDE DEF new
<1>7. Len(new) = Len(line) + 1 /\ z \in Nat /\ z <= Len(new) /\ Len(new) \in Nat
  <2> DEFINE m == Len(line)
             n == Len(x)
             k == Len(new)
  <2>1. m \in Nat /\ n = 1 + (m - p) /\ k = p + n /\ p \in Nat /\ p <= m
    BY <1>1, <1>2, <1>4, <1>6
  <2> HIDE DEF m, n, k, p
  <2>2. k = m + 1 /\ p + 1 \in Nat /\ p + 1 <= k /\ k \in Nat
    BY <2>1
  <2> QED BY <2>2 DEF m, k
<1>8. /\ a \in Terms /\ SameScreen(s, a) /\ a.line = new /\ a.pos = p
      /\ a.prompt = s.prompt /\ a.echo = s.echo /\ a.width = s.width
  BY <1>1, <1>6, Zenon DEF Terms, SameScreen, SameCursor
<1>9. addKeyToLine(s, key)
        = LET w == IF s.echo THEN writeLine(a, SubSeq(a.line, p + 1, Len(a.line))) ELSE a
          IN moveCursorToPos([w EXCEPT !.pos = w.pos + 1], p + 1)
  <2> DEFINE b == [s EXCEPT !.line = Inserted(s, key)]
  <2>1. addKeyToLine(s, key)
          = LET w == IF s.echo THEN writeLine(b, SubSeq(b.line, p + 1, Len(b.line))) ELSE b
            IN moveCursorToPos([w EXCEPT !.pos = w.pos + 1], p + 1)
    BY DEF addKeyToLine, Inserted
  <2>2. b = a
    BY <1>3
  <2> HIDE DEF a, b
  <2> QED BY <2>1, <2>2
<1> HIDE DEF a
<1>10. CASE Echoed(s)
  <2> DEFINE w == writeLine(a, x)
             q == [w EXCEPT !.pos = z]
             r == moveCursorToPos(q, z)
             here == Len(s.prompt) + p
             tape == Ink(s.prompt \o line)
             end == here + Len(x) + 0
  <2>1. s.echo /\ Shows(s, tape, here)
    BY <1>10 DEF Echoed
  <2>2. Wrote(a, tape, here, x, w)
    BY <1>4, <1>8, <2>1, ScreenShows, LineWrites
  <2> HIDE DEF w
  <2>3. Spaces(0) = <<>> /\ x \o <<>> = x
    BY <1>4 DEF Spaces
  <2>4. Wrote(a, Ink(a.prompt \o line), Len(a.prompt) + p, x \o Spaces(0), w)
    BY <1>8, <2>2, <2>3, Zenon
  <2>5. Len(line) <= p + Len(x) + 0 /\ 0 \in Nat
    BY <1>1, <1>2, <1>4
  <2>6. a.echo /\ a.prompt \in Seq(Glyphs)
    BY <1>1, <1>8, <2>1
  <2>7. /\ SameLine(a, w) /\ w \in Terms
        /\ Shows(w, Ink(w.prompt \o new), Len(a.prompt) + p + Len(x) + 0)
        /\ Len(w.prompt) + Len(new) < Row(w.maxLine + 1, w.width)
    <3> HIDE DEF line, p
    <3> QED BY <1>1, <1>4, <2>4, <2>5, <2>6, Tailed, Zenon DEF new
  <2>8. /\ w.line = new /\ w.pos = p /\ w.prompt = s.prompt /\ w.echo = s.echo /\ w.width = s.width
    BY <1>8, <2>7 DEF SameLine
  <2>9. /\ q \in Terms /\ SameScreen(w, q) /\ q.line = w.line /\ q.pos = z /\ q.prompt = w.prompt
        /\ q.echo = w.echo /\ q.width = w.width /\ q.maxLine = w.maxLine
    BY <1>7, <2>7, Zenon DEF Terms, SameScreen, SameCursor
  <2> HIDE DEF q
  <2>10. Shows(q, Ink(q.prompt \o new), end) /\ Len(q.prompt) + Len(new) < Row(q.maxLine + 1, q.width)
    BY <1>8, <2>7, <2>8, <2>9, ScreenShows, SMTT(15)
  <2>11. q.echo
    BY <2>1, <2>8, <2>9, Zenon
  <2> HIDE DEF end
  <2>12. r \in Terms /\ SameLine(q, r)
    BY <1>7, <2>10, <2>11, MoveFits, Zenon
  <2>13. r.line = new /\ r.pos = z /\ r.prompt = s.prompt /\ r.echo = s.echo /\ r.width = s.width
    BY <2>8, <2>9, <2>12 DEF SameLine
  <2>14. SameScreen(moveCursorToPos(q, z), r)
    BY DEF SameScreen, SameCursor
  <2>15. addKeyToLine(s, key) = r
    BY <1>6, <1>8, <1>9, <2>1, <2>8, Zenon DEF q, w
  <2> HIDE DEF r
  <2>16. Echoed(r)
    BY <1>6, <1>7, <2>10, <2>11, <2>12, <2>13, <2>14, Repainted, Zenon
  <2> QED BY <1>3, <1>6, <1>7, <2>1, <2>13, <2>15, <2>16, Zenon DEF Edited
<1>11. CASE Hidden(s)
  <2> DEFINE q == [a EXCEPT !.pos = z]
  <2>1. PICK at \in Nat : at >= Len(s.prompt) /\ Shows(s, Ink(s.prompt), at)
    BY <1>11 DEF Hidden
  <2>2. ~s.echo
    BY <1>11 DEF Hidden
  <2>3. /\ q \in Terms /\ SameScreen(a, q) /\ q.line = a.line /\ q.pos = z /\ q.prompt = a.prompt
        /\ q.echo = a.echo /\ q.width = a.width
    BY <1>7, <1>8, Zenon DEF Terms, SameScreen, SameCursor
  <2>4. addKeyToLine(s, key) = moveCursorToPos(q, z)
    BY <1>8, <1>9, <2>2
  <2> HIDE DEF q
  <2>5. Shows(q, Ink(s.prompt), at)
    BY <1>8, <2>1, <2>3, ScreenShows
  <2>6. addKeyToLine(s, key) = q
    BY <1>8, <2>2, <2>3, <2>4, NoMove
  <2> QED BY <1>3, <1>6, <1>7, <1>8, <2>1, <2>2, <2>3, <2>5, <2>6, Zenon DEF Edited, Hidden
<1> QED BY <1>10, <1>11

(* The line without the n characters before the cursor.                    *)
LEMMA ErasedType ==
  ASSUME NEW s \in Terms, s.pos <= Len(s.line), NEW n \in Nat, n <= s.pos
  PROVE  Erased(s, n) \in Seq(Glyphs) /\ Len(Erased(s, n)) = Len(s.line) - n
<1> DEFINE p == s.pos - n
           x == SubSeq(s.line, s.pos + 1, Len(s.line))
           line == s.line
<1>1. s.pos \in Nat /\ line \in Seq(Glyphs) /\ Len(line) \in Nat
  BY DEF Terms
<1>2. p \in Nat /\ p <= Len(line) /\ x \in Seq(Glyphs) /\ Len(x) = Len(line) - s.pos
  <2>1. p \in Nat /\ p <= Len(line)
    BY <1>1
  <2>2. x \in Seq(Glyphs) /\ Len(x) = Len(line) - s.pos
    BY <1>1
  <2> QED BY <2>1, <2>2
<1>3. Erased(s, n) = SubSeq(line, 1, p) \o x
  BY DEF Erased
<1> HIDE DEF p, x, line
<1>4. Cut(line, line, p, x)
  BY <1>1, <1>2, CutLine
<1>5. Erased(s, n) \in Seq(Glyphs) /\ Len(Erased(s, n)) = p + Len(x)
  BY <1>3, <1>4 DEF Cut
<1> QED BY <1>1, <1>2, <1>5 DEF p, line

(* eraseNPreviousChars, without echo.                                      *)
LEMMA EraseHidden ==
  ASSUME NEW s, Hidden(s), s.pos > 0, NEW count \in Nat \ {0}
  PROVE  LET n == IF s.pos < count THEN s.pos ELSE count
         IN Edited(s, eraseNPreviousChars(s, count), Erased(s, n))
<1> DEFINE n == IF s.pos < count THEN s.pos ELSE count
           p == s.pos - n
           new == Erased(s, n)
           m == [s EXCEPT !.pos = p, !.line = new]
<1>1. s \in Terms /\ s.pos \in Nat /\ s.line \in Seq(Glyphs) /\ s.pos <= Len(s.line) /\ ~s.echo
  BY DisplayTerms DEF Hidden
<1>2. n \in Nat \ {0} /\ n <= s.pos /\ p \in Nat
  BY <1>1
<1>3. new \in Seq(Glyphs) /\ Len(new) = Len(s.line) - n
  <2> HIDE DEF n
  <2> QED BY <1>1, <1>2, ErasedType
<1>4. eraseNPreviousChars(s, count) = m
  <2>1. moveCursorToPos(s, p) = s
    BY <1>1, NoMove
  <2> QED BY <1>1, <1>2, <2>1, Zenon DEF eraseNPreviousChars, Erased
<1>5. p <= Len(new)
  <2> HIDE DEF new
  <2> QED BY <1>1, <1>2, <1>3
<1> HIDE DEF n, p, new
<1>6. /\ m \in Terms /\ SameScreen(s, m) /\ m.line = new /\ m.pos = p /\ m.prompt = s.prompt
      /\ m.echo = s.echo /\ m.width = s.width
  BY <1>1, <1>2, <1>3, Zenon DEF Terms, SameScreen, SameCursor
<1> HIDE DEF m
<1>7. PICK at \in Nat : at >= Len(s.prompt) /\ Shows(s, Ink(s.prompt), at)
  BY DEF Hidden
<1>8. Shows(m, Ink(s.prompt), at)
  BY <1>6, <1>7, ScreenShows
<1> QED BY <1>1, <1>4, <1>5, <1>6, <1>7, <1>8, SMTT(15) DEF Edited, Hidden, new, n

(* Backspace, the word before the cursor, Ctrl-U.                          *)
LEMMA EraseEdits ==
  ASSUME NEW s, Echoed(s) \/ Hidden(s), NEW count \in Nat
  PROVE  \E line \in Seq(Glyphs) :
           Len(line) <= Len(s.line) /\ Edited(s, eraseNPreviousChars(s, count), line)
<1> DEFINE n == IF s.pos < count THEN s.pos ELSE count
<1>1. s \in Terms /\ s.pos \in Nat /\ s.line \in Seq(Glyphs) /\ s.pos <= Len(s.line)
  BY DisplayTerms
<1>2. CASE n = 0
  <2>1. eraseNPreviousChars(s, count) = s
    BY <1>2 DEF eraseNPreviousChars
  <2>2. (Echoed(s) => s.echo) /\ (Hidden(s) => ~s.echo)
    BY Zenon DEF Echoed, Hidden
  <2>3. Edited(s, s, s.line)
    BY <2>2 DEF Edited
  <2>4. Len(s.line) <= Len(s.line)
    BY <1>1
  <2> QED BY <1>1, <2>1, <2>3, <2>4
<1>3. CASE n # 0
  <2>1. s.pos > 0 /\ count \in Nat \ {0} /\ n \in Nat /\ n <= s.pos
    BY <1>1, <1>3
  <2>2. Edited(s, eraseNPreviousChars(s, count), Erased(s, n))
    <3>1. CASE Echoed(s)
      BY <2>1, <3>1, EraseEchoed, Zenon DEF Echoed
    <3>2. CASE Hidden(s)
      BY <2>1, <3>2, EraseHidden
    <3> QED BY <3>1, <3>2
  <2> HIDE DEF n
  <2>3. Erased(s, n) \in Seq(Glyphs) /\ Len(Erased(s, n)) = Len(s.line) - n
    BY <1>1, <2>1, ErasedType
  <2> QED BY <1>1, <2>1, <2>2, <2>3
<1> QED BY <1>2, <1>3

(* Ctrl-D steps over the character first.                                  *)
LEMMA EraseNext ==
  ASSUME NEW s, Echoed(s) \/ Hidden(s), s.pos < Len(s.line)
  PROVE  \E line \in Seq(Glyphs) :
           /\ Len(line) <= Len(s.line)
           /\ Edited(s, eraseNPreviousChars([s EXCEPT !.pos = @ + 1], 1), line)
<1> DEFINE z == s.pos + 1
           q == [s EXCEPT !.pos = z]
<1>1. s \in Terms /\ s.pos \in Nat /\ s.line \in Seq(Glyphs) /\ Len(s.line) \in Nat
  BY DisplayTerms
<1>2. z \in Nat /\ z > 0 /\ z <= Len(s.line)
  BY <1>1
<1> HIDE DEF z
<1>3. /\ q \in Terms /\ SameScreen(s, q) /\ q.line = s.line /\ q.pos = z /\ q.prompt = s.prompt
      /\ q.echo = s.echo /\ q.width = s.width /\ q.maxLine = s.maxLine
  BY <1>1, <1>2, Zenon DEF Terms, SameScreen, SameCursor
<1>4. [s EXCEPT !.pos = @ + 1] = q
  BY DEF z
<1> HIDE DEF q
<1> DEFINE n == IF q.pos < 1 THEN q.pos ELSE 1
<1>5. n = 1 /\ 1 \in Nat \ {0} /\ q.pos > 0 /\ q.pos <= Len(q.line)
  BY <1>2, <1>3
<1>6. Edited(q, eraseNPreviousChars(q, 1), Erased(q, n))
  <2>1. CASE Echoed(s)
    <3> DEFINE at == Len(s.prompt) + s.pos
    <3>1. Shows(s, Ink(s.prompt \o s.line), at)
      BY <2>1 DEF Echoed
    <3>2. Shows(q, Ink(q.prompt \o q.line), at)
      BY <1>3, <3>1, ScreenShows
    <3>3. q.echo /\ Len(q.prompt) + Len(q.line) < Row(q.maxLine + 1, q.width)
      BY <1>3, <2>1, Zenon DEF Echoed
    <3> HIDE DEF at
    <3> QED BY <1>5, <3>2, <3>3, EraseEchoed, Zenon
  <2>2. CASE Hidden(s)
    <3>1. Hidden(q)
      BY <1>3, <1>5, <2>2, ScreenShows DEF Hidden
    <3> QED BY <1>5, <3>1, EraseHidden
  <2> QED BY <2>1, <2>2
<1>7. Erased(q, 1) \in Seq(Glyphs) /\ Len(Erased(q, 1)) = Len(q.line) - 1
  BY <1>1, <1>2, <1>3, <1>5, ErasedType
<1>8. Edited(s, eraseNPreviousChars(q, 1), Erased(q, 1))
  BY <1>3, <1>5, <1>6, Zenon DEF Edited
<1> QED BY <1>1, <1>3, <1>4, <1>7, <1>8

(* Blanks over blanks.                                                     *)
LEMMA BlankWritten ==
  ASSUME NEW str \in Seq(Glyphs), NEW at \in Nat, at >= Len(str), NEW k \in Nat
  PROVE  Written(Ink(str), at, Spaces(k)) = Ink(str)
<1> DEFINE d == Spaces(k)
           T == Ink(str)
           W == Written(T, at, d)
<1>1. Len(d) = k /\ \A i \in 1..k : d[i] = Blank
  BY SpacesType, Zenon
<1> HIDE DEF d
<1>2. ASSUME NEW i \in Nat PROVE W[i] = T[i]
  <2>1. W[i] = IF at <= i /\ i < at + k THEN d[i - at + 1] ELSE T[i]
    BY <1>1 DEF Written
  <2>2. i >= Len(str) => T[i] = Blank
    BY InkType
  <2> HIDE DEF W, T
  <2>3. CASE at <= i /\ i < at + k
    <3>1. i - at + 1 \in 1..k /\ i >= Len(str)
      BY <2>3
    <3> QED BY <1>1, <2>1, <2>2, <2>3, <3>1
  <2> QED BY <2>1, <2>3
<1>3. W = [i \in Nat |-> W[i]] /\ T = [i \in Nat |-> T[i]]
  BY DEF Written, Ink
<1> HIDE DEF W, T
<1>4. W = T
  BY <1>2, <1>3, Zenon
<1> QED BY <1>4 DEF W, T, d

(* Nothing is added.                                                       *)
LEMMA ConcatEmpty ==
  ASSUME NEW x \in Seq(Glyphs)
  PROVE  x \o <<>> = x /\ <<>> \o x = x
<1>1. /\ x \o <<>> \in Seq(Glyphs) /\ Len(x \o <<>>) = Len(x) /\ \A i \in 1..Len(x) : (x \o <<>>)[i] = x[i]
      /\ <<>> \o x \in Seq(Glyphs) /\ Len(<<>> \o x) = Len(x) /\ \A i \in 1..Len(x) : (<<>> \o x)[i] = x[i]
  OBVIOUS
<1> QED BY <1>1, SameSeq

(* keyDeleteLine blanks the line from the cursor on.                       *)
LEMMA DeleteEdits ==
  ASSUME NEW s, Echoed(s) \/ Hidden(s)
  PROVE  Edited(s, moveCursorToPos([wipe(s, Len(s.line) - s.pos) EXCEPT !.line = SubSeq(@, 1, s.pos)], s.pos),
                SubSeq(s.line, 1, s.pos))
<1> DEFINE line == s.line
           p == s.pos
           k == Len(line) - p
           w == wipe(s, k)
           new == SubSeq(line, 1, p)
           q == [w EXCEPT !.line = new]
           r == moveCursorToPos(q, p)
<1>1. s \in Terms /\ s.prompt \in Seq(Glyphs) /\ line \in Seq(Glyphs) /\ p \in Nat /\ p <= Len(line)
  BY DisplayTerms
<1>2. k \in Nat /\ new \in Seq(Glyphs) /\ Len(new) = p /\ Len(line) \in Nat
  <2>1. Cut(line, line, p, line)
    BY <1>1, CutLine
  <2>2. new \in Seq(Glyphs) /\ Len(new) = p
    BY <2>1, Zenon DEF Cut
  <2>3. k \in Nat /\ Len(line) \in Nat
    BY <1>1
  <2> QED BY <2>2, <2>3
<1>3. ASSUME w \in Terms, SameLine(s, w)
      PROVE  /\ q \in Terms /\ SameScreen(w, q) /\ q.line = new /\ q.pos = p /\ q.prompt = s.prompt
             /\ q.echo = s.echo /\ q.width = s.width /\ q.maxLine = w.maxLine
             /\ [w EXCEPT !.line = SubSeq(@, 1, p)] = q
  <2>1. w.line = line /\ w.pos = p /\ w.prompt = s.prompt /\ w.echo = s.echo /\ w.width = s.width
    BY <1>3 DEF SameLine
  <2>2. [w EXCEPT !.line = SubSeq(@, 1, p)] = q
    BY <2>1, Zenon
  <2> HIDE DEF w, new, p
  <2>3. q.line = new /\ q.pos = w.pos /\ q.prompt = w.prompt /\ q.echo = w.echo /\ q.width = w.width
    BY <1>3, Zenon DEF Terms
  <2>4. q \in Terms /\ SameScreen(w, q) /\ q.maxLine = w.maxLine
    BY <1>2, <1>3, Zenon DEF Terms, SameScreen, SameCursor
  <2> QED BY <2>1, <2>2, <2>3, <2>4
<1>4. CASE Echoed(s)
  <2> DEFINE tape == Ink(s.prompt \o line)
             here == Len(s.prompt) + p
             x == <<>>
             end == Len(s.prompt) + p + Len(x) + k
  <2>1. s.echo /\ Shows(s, tape, here)
    BY <1>4 DEF Echoed
  <2>2. Wrote(s, tape, here, Spaces(k), w)
    <3> HIDE DEF k, tape, here
    <3> QED BY <1>2, <2>1, WipeWrites
  <2>3. Spaces(k) = x \o Spaces(k) /\ x \in Seq(Glyphs) /\ Len(x) = 0 /\ new \o x = new
    BY <1>2, SpacesType, ConcatEmpty
  <2>4. Len(line) <= p + Len(x) + k
    BY <1>1, <1>2, <2>3
  <2> HIDE DEF w, x, k
  <2>5. Wrote(s, tape, here, x \o Spaces(k), w)
    BY <2>2, <2>3
  <2>6. /\ SameLine(s, w) /\ w \in Terms
        /\ Shows(w, Ink(w.prompt \o (new \o x)), end)
        /\ Len(w.prompt) + Len(new \o x) < Row(w.maxLine + 1, w.width)
    <3> HIDE DEF line, p
    <3> QED BY <1>1, <1>2, <2>1, <2>3, <2>4, <2>5, Tailed, Zenon
  <2> HIDE DEF q, end
  <2>7. /\ q \in Terms /\ SameScreen(w, q) /\ q.line = new /\ q.pos = p /\ q.prompt = s.prompt
        /\ q.echo = s.echo /\ q.width = s.width /\ q.maxLine = w.maxLine
        /\ [w EXCEPT !.line = SubSeq(@, 1, p)] = q
    BY <1>3, <2>6
  <2>8. w.prompt = s.prompt /\ w.width = s.width
    BY <2>6 DEF SameLine
  <2>9. Shows(q, Ink(q.prompt \o new), end)
    BY <2>3, <2>6, <2>7, <2>8, ScreenShows
  <2>10. Len(q.prompt) + Len(new) < Row(q.maxLine + 1, q.width) /\ q.echo /\ p <= Len(new) /\ Len(new) \in Nat
    BY <1>1, <1>2, <2>1, <2>3, <2>6, <2>7, <2>8, SMTT(15)
  <2> HIDE DEF new, p
  <2>11. r \in Terms /\ SameLine(q, r)
    BY <1>1, <2>9, <2>10, MoveFits
  <2>12. r.line = new /\ r.pos = p /\ r.prompt = s.prompt /\ r.echo = s.echo /\ r.width = s.width
    BY <2>7, <2>11 DEF SameLine
  <2>13. SameScreen(moveCursorToPos(q, p), r)
    BY DEF SameScreen, SameCursor
  <2> HIDE DEF r
  <2>14. Echoed(r)
    BY <1>1, <1>2, <2>9, <2>10, <2>11, <2>12, <2>13, Repainted, Zenon
  <2>15. Edited(s, r, new)
    BY <2>1, <2>12, <2>14 DEF Edited
  <2> QED BY <2>7, <2>15, Zenon DEF r, p, new, w, k
<1>5. CASE Hidden(s)
  <2>1. PICK at \in Nat : at >= Len(s.prompt) /\ Shows(s, Ink(s.prompt), at)
    BY <1>5 DEF Hidden
  <2>2. Wrote(s, Ink(s.prompt), at, Spaces(k), w)
    <3> HIDE DEF k
    <3> QED BY <1>2, <2>1, WipeWrites
  <2>3. Len(Spaces(k)) = k /\ Written(Ink(s.prompt), at, Spaces(k)) = Ink(s.prompt)
    <3> HIDE DEF k
    <3> QED BY <1>1, <1>2, <2>1, SpacesType, BlankWritten, Zenon
  <2> HIDE DEF w, k
  <2>4. Shows(w, Ink(s.prompt), at + k) /\ SameLine(s, w)
    BY <2>2, <2>3 DEF Wrote
  <2>5. w \in Terms
    BY <2>4, SyncedAt DEF Shows
  <2> HIDE DEF q
  <2>6. /\ q \in Terms /\ SameScreen(w, q) /\ q.line = new /\ q.pos = p /\ q.prompt = s.prompt
        /\ q.echo = s.echo /\ q.width = s.width
        /\ [w EXCEPT !.line = SubSeq(@, 1, p)] = q
    BY <1>3, <2>4, <2>5
  <2>7. Shows(q, Ink(q.prompt), at + k) /\ at + k \in Nat /\ at + k >= Len(q.prompt)
    BY <1>1, <1>2, <2>1, <2>4, <2>6, ScreenShows
  <2>8. ~s.echo /\ r = q
    BY <1>5, <2>6, NoMove DEF Hidden
  <2>9. Hidden(q)
    BY <1>1, <1>2, <2>6, <2>7, <2>8 DEF Hidden
  <2>10. Edited(s, q, new)
    BY <2>6, <2>8, <2>9 DEF Edited
  <2> QED BY <2>6, <2>8, <2>10, Zenon DEF w, k
<1> QED BY <1>4, <1>5

-----------------------------------------------------------------------------
(* Moving and clearing whole rows.                                         *)

(* The sizes of the window.                                                *)
LEMMA Sizes == Rows \in Nat /\ Widths[1] \in Nat \ {0} /\ Widths[2] \in Nat \ {0}
<1>1. 1 \in 1..Len(Widths) /\ 2 \in 1..Len(Widths)
  BY ConstAssumption
<1> QED BY <1>1, ConstAssumption, Element

(* move up, down and to the left.                                          *)
MovedTo(s, r, x, y) ==
  /\ r \in Terms /\ SameLine(s, r) /\ SameCursor(s, r) /\ r.scr = s.scr
  /\ r.px = x /\ r.py = y /\ r.pend = FALSE

(* Where move puts the cursor of the screen.                               *)
LEMMA MoveTo ==
  ASSUME NEW s \in Terms, s.pend = FALSE, s.px < s.width,
         NEW up \in Nat, up <= s.py, NEW down \in Nat, NEW left \in Nat, left <= s.px
  PROVE  MovedTo(s, move(s, up, down, left, 0), s.px - left, s.py + down - up)
<1> DEFINE r == move(s, up, down, left, 0)
           x == s.px - left
           y == s.py + down - up
<1>1. s.px \in Nat /\ s.py \in Nat /\ s.width \in Nat
  BY DEF Terms
<1>2. x \in Nat /\ y \in Nat
  BY <1>1
<1>3. CASE up + down + left + 0 = 0
  <2>1. x = s.px /\ y = s.py
    BY <1>1, <1>3
  <2>2. r = s
    BY <1>3 DEF move
  <2> QED BY <2>1, <2>2 DEF SameLine, SameCursor, MovedTo
<1>4. CASE up + down + left + 0 # 0
  <2>1. s.px + 0 - left = x /\ x < s.width
    BY <1>1
  <2>2. r = [s EXCEPT !.py = s.py + down - up, !.pend = FALSE,
                      !.px = IF s.px + 0 - left < s.width THEN s.px + 0 - left ELSE s.width - 1]
    BY <1>4 DEF move
  <2>3. r = [s EXCEPT !.py = y, !.pend = FALSE, !.px = x]
    BY <2>1, <2>2, Zenon
  <2> HIDE DEF r, x, y
  <2>4. /\ r \in Terms /\ SameLine(s, r) /\ SameCursor(s, r) /\ r.scr = s.scr
        /\ r.px = x /\ r.py = y /\ r.pend = FALSE
    BY <1>2, <2>3, Zenon DEF Terms, SameLine, SameCursor
  <2> QED BY <2>4 DEF r, x, y, MovedTo
<1> QED BY <1>3, <1>4

(* From s to r, the rows lo..hi became blank.                              *)
Rubbed(s, r, lo, hi) ==
  \A y \in 0..(Rows - 1), x \in 0..(Widths[2] - 1) :
    r.scr[y][x] = IF lo <= y /\ y <= hi THEN Blank ELSE s.scr[y][x]

(* clearLineToRight from the first column clears the row.                  *)
LEMMA ClearRow ==
  ASSUME NEW s \in Terms, s.px = 0
  PROVE  LET r == clearLineToRight(s)
         IN /\ r \in Terms /\ SameLine(s, r) /\ SameCursor(s, r)
            /\ r.px = 0 /\ r.py = s.py /\ r.pend = s.pend /\ Rubbed(s, r, s.py, s.py)
<1> DEFINE r == clearLineToRight(s)
           row == [x \in DOMAIN s.scr[s.py] |-> IF x < s.px THEN s.scr[s.py][x] ELSE Blank]
           scr == [s.scr EXCEPT ![s.py] = row]
<1>1. s.scr \in Screens /\ s.py \in Nat
  BY DEF Terms
<1>2. r = [s EXCEPT !.scr = scr]
  BY DEF clearLineToRight
<1>3. Rows \in Nat /\ Widths[2] \in Nat \ {0}
  BY Sizes
<1>4. s.py \in 0..(Rows - 1) => row = [x \in 0..(Widths[2] - 1) |-> Blank]
  BY <1>1, <1>3 DEF Screens
<1>5. scr \in Screens
  <2>1. Blank \in Glyphs
    BY TextAssumption
  <2>2. s.py \in 0..(Rows - 1) => row \in [0..(Widths[2] - 1) -> Glyphs]
    BY <1>4, <2>1
  <2> HIDE DEF row
  <2> QED BY <1>1, <2>2, Zenon DEF Screens
<1>6. ASSUME NEW y \in 0..(Rows - 1), NEW x \in 0..(Widths[2] - 1)
      PROVE  scr[y][x] = IF s.py <= y /\ y <= s.py THEN Blank ELSE s.scr[y][x]
  <2>1. y = s.py <=> (s.py <= y /\ y <= s.py)
    BY <1>1, <1>3
  <2>2. scr[y] = IF y = s.py THEN row ELSE s.scr[y]
    BY <1>1, Zenon DEF Screens
  <2> HIDE DEF scr, row
  <2> QED BY <1>4, <2>1, <2>2, Zenon
<1> HIDE DEF r, scr, row
<1>7. /\ r \in Terms /\ SameLine(s, r) /\ SameCursor(s, r)
      /\ r.px = s.px /\ r.py = s.py /\ r.pend = s.pend /\ r.scr = scr
  BY <1>2, <1>5, Zenon DEF Terms, SameLine, SameCursor
<1> QED BY <1>6, <1>7 DEF Rubbed, r

(* The cursor is at the start of row y, and rows lo..hi have been cleared. *)
Swept(s, r, y, lo, hi) ==
  /\ r \in Terms /\ SameLine(s, r) /\ r.maxLine = s.maxLine
  /\ r.cursorX = 0 /\ r.cursorY = y /\ r.px = 0 /\ r.py = y /\ r.pend = FALSE
  /\ Rubbed(s, r, lo, hi)

(* One more row cleared, upwards.                                          *)
LEMMA RowUpSweeps ==
  ASSUME NEW s, NEW q, NEW y \in Nat \ {0}, NEW hi \in Nat, y <= hi, Swept(s, q, y, y, hi)
  PROVE  Swept(s, RowUp(q), y - 1, y - 1, hi)
<1> DEFINE m == move(q, 1, 0, 0, 0)
           z == y - 1
           a == [m EXCEPT !.cursorY = z]
           r == clearLineToRight(a)
<1>1. /\ q \in Terms /\ q.pend = FALSE /\ q.px = 0 /\ q.py = y /\ q.cursorX = 0 /\ q.cursorY = y
      /\ q.width \in Nat \ {0}
  BY Zenon DEF Swept, Terms
<1>2. 0 < q.width /\ 1 \in Nat /\ 1 <= y /\ 0 \in Nat /\ 0 <= 0 /\ z \in Nat /\ y + 0 - 1 = z /\ 0 - 0 = 0
  BY <1>1
<1>3. /\ m \in Terms /\ SameLine(q, m) /\ SameCursor(q, m) /\ m.scr = q.scr
      /\ m.px = 0 /\ m.py = z /\ m.pend = FALSE
  <2>1. q.px < q.width /\ 1 <= q.py /\ 0 <= q.px /\ q.px - 0 = 0 /\ q.py + 0 - 1 = z
    BY <1>1, <1>2
  <2>2. MovedTo(q, m, q.px - 0, q.py + 0 - 1)
    BY <1>1, <1>2, <2>1, MoveTo, Zenon
  <2> QED BY <2>1, <2>2, Zenon DEF MovedTo
<1>4. RowUp(q) = r
  BY <1>1, <1>3 DEF RowUp, SameCursor
<1> HIDE DEF m, z
<1>5. /\ a \in Terms /\ SameLine(m, a) /\ a.cursorX = m.cursorX /\ a.cursorY = z /\ a.maxLine = m.maxLine
      /\ a.px = m.px /\ a.py = m.py /\ a.pend = m.pend /\ a.scr = m.scr
  BY <1>2, <1>3, Zenon DEF Terms, SameLine
<1> HIDE DEF a
<1>6. /\ r \in Terms /\ SameLine(a, r) /\ SameCursor(a, r)
      /\ r.px = 0 /\ r.py = z /\ r.pend = FALSE /\ Rubbed(a, r, z, z)
  <2>1. /\ r \in Terms /\ SameLine(a, r) /\ SameCursor(a, r)
        /\ r.px = 0 /\ r.py = a.py /\ r.pend = a.pend /\ Rubbed(a, r, a.py, a.py)
    BY <1>3, <1>5, ClearRow, Zenon
  <2> QED BY <1>3, <1>5, <2>1, Zenon
<1> HIDE DEF r
<1>7. r.maxLine = s.maxLine /\ r.cursorX = 0 /\ r.cursorY = z
  BY <1>1, <1>3, <1>5, <1>6, SMTT(15) DEF Swept, SameCursor
<1>8. SameLine(s, r)
  BY <1>3, <1>5, <1>6, SMTT(15) DEF Swept, SameLine
<1>9. Rubbed(s, r, z, hi)
  <2> SUFFICES ASSUME NEW i \in 0..(Rows - 1), NEW j \in 0..(Widths[2] - 1)
               PROVE  r.scr[i][j] = IF z <= i /\ i <= hi THEN Blank ELSE s.scr[i][j]
    BY DEF Rubbed
  <2>1. r.scr[i][j] = IF z <= i /\ i <= z THEN Blank ELSE a.scr[i][j]
    BY <1>6, SMTT(15) DEF Rubbed
  <2>2. a.scr[i][j] = IF y <= i /\ i <= hi THEN Blank ELSE s.scr[i][j]
    BY <1>3, <1>5 DEF Swept, Rubbed
  <2>3. i \in Int
    BY ConstAssumption, SMTT(15)
  <2>4. (z <= i /\ i <= z) <=> i = z
    BY <2>3 DEF z
  <2>5. (z <= i /\ i <= hi) <=> ((y <= i /\ i <= hi) \/ i = z)
    BY <2>3 DEF z
  <2> QED BY <2>1, <2>2, <2>4, <2>5, Zenon
<1> QED BY <1>4, <1>6, <1>7, <1>8, <1>9, Zenon DEF Swept, z

(* One more row cleared, downwards.                                        *)
LEMMA RowDownSweeps ==
  ASSUME NEW s, NEW q, NEW y \in Nat, NEW lo \in Nat, lo <= y, Swept(s, q, y, lo, y)
  PROVE  Swept(s, RowDown(q), y + 1, lo, y + 1)
<1> DEFINE m == move(q, 0, 1, 0, 0)
           z == y + 1
           a == [m EXCEPT !.cursorY = z]
           r == clearLineToRight(a)
<1>1. /\ q \in Terms /\ q.pend = FALSE /\ q.px = 0 /\ q.py = y /\ q.cursorX = 0 /\ q.cursorY = y
      /\ q.width \in Nat \ {0}
  BY Zenon DEF Swept, Terms
<1>2. 0 < q.width /\ 1 \in Nat /\ 0 <= y /\ 0 \in Nat /\ 0 <= 0 /\ z \in Nat /\ y + 1 - 0 = z /\ 0 - 0 = 0
  BY <1>1
<1>3. /\ m \in Terms /\ SameLine(q, m) /\ SameCursor(q, m) /\ m.scr = q.scr
      /\ m.px = 0 /\ m.py = z /\ m.pend = FALSE
  <2>1. q.px < q.width /\ 0 <= q.py /\ 0 <= q.px /\ q.px - 0 = 0 /\ q.py + 1 - 0 = z
    BY <1>1, <1>2
  <2>2. MovedTo(q, m, q.px - 0, q.py + 1 - 0)
    BY <1>1, <1>2, <2>1, MoveTo, Zenon
  <2> QED BY <2>1, <2>2, Zenon DEF MovedTo
<1>4. RowDown(q) = r
  BY <1>1, <1>3 DEF RowDown, SameCursor
<1> HIDE DEF m, z
<1>5. /\ a \in Terms /\ SameLine(m, a) /\ a.cursorX = m.cursorX /\ a.cursorY = z /\ a.maxLine = m.maxLine
      /\ a.px = m.px /\ a.py = m.py /\ a.pend = m.pend /\ a.scr = m.scr
  BY <1>2, <1>3, Zenon DEF Terms, SameLine
<1> HIDE DEF a
<1>6. /\ r \in Terms /\ SameLine(a, r) /\ SameCursor(a, r)
      /\ r.px = 0 /\ r.py = z /\ r.pend = FALSE /\ Rubbed(a, r, z, z)
  <2>1. /\ r \in Terms /\ SameLine(a, r) /\ SameCursor(a, r)
        /\ r.px = 0 /\ r.py = a.py /\ r.pend = a.pend /\ Rubbed(a, r, a.py, a.py)
    BY <1>3, <1>5, ClearRow, Zenon
  <2> QED BY <1>3, <1>5, <2>1, Zenon
<1> HIDE DEF r
<1>7. r.maxLine = s.maxLine /\ r.cursorX = 0 /\ r.cursorY = z
  BY <1>1, <1>3, <1>5, <1>6, SMTT(15) DEF Swept, SameCursor
<1>8. SameLine(s, r)
  BY <1>3, <1>5, <1>6, SMTT(15) DEF Swept, SameLine
<1>9. Rubbed(s, r, lo, z)
  <2> SUFFICES ASSUME NEW i \in 0..(Rows - 1), NEW j \in 0..(Widths[2] - 1)
               PROVE  r.scr[i][j] = IF lo <= i /\ i <= z THEN Blank ELSE s.scr[i][j]
    BY DEF Rubbed
  <2>1. r.scr[i][j] = IF z <= i /\ i <= z THEN Blank ELSE a.scr[i][j]
    BY <1>6, SMTT(15) DEF Rubbed
  <2>2. a.scr[i][j] = IF lo <= i /\ i <= y THEN Blank ELSE s.scr[i][j]
    BY <1>3, <1>5 DEF Swept, Rubbed
  <2>3. i \in Int
    BY ConstAssumption
  <2>4. (z <= i /\ i <= z) <=> i = z
    BY <2>3 DEF z
  <2>5. (lo <= i /\ i <= z) <=> ((lo <= i /\ i <= y) \/ i = z)
    BY <2>3 DEF z
  <2> QED BY <2>1, <2>2, <2>4, <2>5, Zenon
<1> QED BY <1>4, <1>6, <1>7, <1>8, <1>9, Zenon DEF Swept, z

(* All rows from y to the first.                                           *)
LEMMA ClearUpSweeps ==
  ASSUME NEW s, NEW q, NEW y \in Nat, Swept(s, q, y, y, y)
  PROVE  Swept(s, ClearUp(q), 0, 0, y)
<1>1. q.cursorY = y
  BY DEF Swept
<1>2. PICK f : /\ ClearUp(q) = f[y] /\ f[0] = q
               /\ \A n \in 1..y : f[n] = RowUp(f[n - 1])
  BY <1>1, UpSteps
<1> DEFINE T == {n \in Nat : n <= y => Swept(s, f[n], y - n, y - n, y)}
<1>3. 0 \in T
  <2>1. y - 0 = y
    OBVIOUS
  <2> QED BY <1>2, <2>1
<1>4. ASSUME NEW n \in Nat, n \in T PROVE n + 1 \in T
  <2> SUFFICES ASSUME n + 1 <= y PROVE Swept(s, f[n + 1], y - (n + 1), y - (n + 1), y)
    OBVIOUS
  <2> DEFINE k == y - n
  <2>1. k \in Nat \ {0} /\ k <= y /\ y - (n + 1) = k - 1
    OBVIOUS
  <2>2. f[n + 1] = RowUp(f[n]) /\ Swept(s, f[n], k, k, y)
    BY <1>2, <1>4
  <2> HIDE DEF k
  <2>3. Swept(s, RowUp(f[n]), k - 1, k - 1, y)
    BY <2>1, <2>2, RowUpSweeps
  <2> QED BY <2>1, <2>2, <2>3
<1>5. y \in T
  <2> HIDE DEF T
  <2> QED BY <1>3, <1>4, Induct
<1>6. y - y = 0 /\ y <= y
  OBVIOUS
<1> QED BY <1>2, <1>5, <1>6

(* All rows from the first to y.                                           *)
LEMMA ClearDownSweeps ==
  ASSUME NEW s, NEW q, NEW y \in Nat, Swept(s, q, 0, 0, 0)
  PROVE  Swept(s, ClearDown(q, y), y, 0, y)
<1>2. PICK f : /\ ClearDown(q, y) = f[y] /\ f[0] = q
               /\ \A n \in 1..y : f[n] = RowDown(f[n - 1])
  BY DownSteps
<1> DEFINE T == {n \in Nat : n <= y => Swept(s, f[n], n, 0, n)}
<1>3. 0 \in T
  BY <1>2
<1>4. ASSUME NEW n \in Nat, n \in T PROVE n + 1 \in T
  <2> SUFFICES ASSUME n + 1 <= y PROVE Swept(s, f[n + 1], n + 1, 0, n + 1)
    OBVIOUS
  <2>1. f[n + 1] = RowDown(f[n]) /\ Swept(s, f[n], n, 0, n) /\ 0 \in Nat /\ 0 <= n
    BY <1>2, <1>4
  <2> QED BY <2>1, RowDownSweeps
<1>5. y \in T
  <2> HIDE DEF T
  <2> QED BY <1>3, <1>4, Induct
<1> QED BY <1>2, <1>5

(* A blank screen, and the cursor in its corner.                           *)
AllBlank(s) == \A y \in 0..(Rows - 1), x \in 0..(Widths[2] - 1) : s.scr[y][x] = Blank

(* On a blank screen, from its corner, nothing is shown yet.               *)
LEMMA BlankShows ==
  ASSUME NEW r \in Terms, AllBlank(r), r.px = 0, r.py = 0, r.pend = FALSE, r.cursorX = 0, r.cursorY = 0
  PROVE  Shows(r, Ink(<<>>), 0)
<1>1. r.width \in Nat \ {0} /\ r.maxLine \in Nat /\ <<>> \in Seq(Glyphs) /\ Len(<<>>) = 0
  BY DEF Terms
<1>2. Ink(<<>>) \in Tapes /\ \A i \in Nat : Ink(<<>>)[i] = Blank
  <2> DEFINE e == <<>>
  <2>1. e \in Seq(Glyphs) /\ Len(e) = 0
    BY <1>1
  <2> HIDE DEF e
  <2>2. Ink(e) \in Tapes /\ \A i \in Nat : i >= 0 => Ink(e)[i] = Blank
    BY <2>1, InkType, Zenon
  <2> QED BY <2>2 DEF e
<1>3. Cells(r, Ink(<<>>))
  <2> SUFFICES ASSUME NEW y \in 0..(Rows - 1), NEW x \in 0..(Widths[2] - 1), x < r.width
               PROVE  Ink(<<>>)[Row(y, r.width) + x] = Blank
    BY DEF AllBlank, Cells
  <2>1. y \in Nat /\ x \in Nat
    BY Sizes
  <2>2. Row(y, r.width) \in Nat
    BY <1>1, <2>1, RowNat, Zenon
  <2> QED BY <1>2, <2>1, <2>2, SMTT(15)
<1>4. Row(0, r.width) = 0
  BY <1>1, RowNat, Zenon
<1>5. NextAt(r, 0)
  BY <1>1, <1>4 DEF NextAt
<1> QED BY <1>1, <1>2, <1>3, <1>5 DEF Shows, Synced, View

(* Nothing is shown from place n on.                                       *)
BlankFrom(tape, n) == \A i \in Nat : i >= n => tape[i] = Blank

(* Scrolling away everything that was shown leaves a blank screen.         *)
LEMMA ScrollBlank ==
  ASSUME NEW s \in Terms, NEW tape, Cells(s, tape), BlankFrom(tape, Row(s.py, s.width))
  PROVE  LET r == Scrolled(s)
         IN /\ r \in Terms /\ SameLine(s, r) /\ SameCursor(s, r)
            /\ r.px = s.px /\ r.py = 0 /\ r.pend = s.pend /\ AllBlank(r)
<1> DEFINE r == Scrolled(s)
           scr == [y \in DOMAIN s.scr |-> IF y + s.py < Rows THEN s.scr[y + s.py] ELSE BlankRow]
<1>1. s.scr \in Screens /\ s.py \in Nat /\ s.width \in Nat /\ 0 \in Nat
  BY DEF Terms
<1>2. r = [s EXCEPT !.py = 0, !.scr = scr]
  BY DEF Scrolled
<1>3. Rows \in Nat /\ Widths[2] \in Nat \ {0} /\ DOMAIN s.scr = 0..(Rows - 1) /\ Blank \in Glyphs
  BY <1>1, Sizes, TextAssumption, SMTT(15) DEF Screens
<1>4. scr \in Screens
  <2>1. BlankRow \in [0..(Widths[2] - 1) -> Glyphs]
    BY <1>3 DEF BlankRow
  <2>2. ASSUME NEW y \in 0..(Rows - 1), y + s.py < Rows PROVE s.scr[y + s.py] \in [0..(Widths[2] - 1) -> Glyphs]
    <3>1. y + s.py \in 0..(Rows - 1)
      BY <1>1, <1>3, <2>2, SMTT(15)
    <3> QED BY <1>1, <3>1, Zenon DEF Screens
  <2> QED BY <1>3, <2>1, <2>2 DEF Screens
<1>5. ASSUME NEW y \in 0..(Rows - 1), NEW x \in 0..(Widths[2] - 1) PROVE scr[y][x] = Blank
  <2>1. scr[y] = IF y + s.py < Rows THEN s.scr[y + s.py] ELSE BlankRow
    BY <1>3
  <2>2. CASE y + s.py < Rows
    <3> DEFINE z == y + s.py
    <3>1. z \in 0..(Rows - 1) /\ z \in Nat /\ s.py <= z /\ x \in Nat
      BY <1>1, <1>3, <2>2, SMTT(15)
    <3>2. scr[y] = s.scr[z]
      BY <2>1, <2>2
    <3> HIDE DEF z, scr
    <3>3. s.scr[z][x] = IF x < s.width THEN tape[Row(z, s.width) + x] ELSE Blank
      BY <3>1 DEF Cells
    <3>4. Row(s.py, s.width) <= Row(z, s.width) /\ Row(z, s.width) \in Nat /\ Row(s.py, s.width) \in Nat
      BY <1>1, <3>1, RowMono, RowNat, Zenon
    <3>5. Row(z, s.width) + x \in Nat /\ Row(z, s.width) + x >= Row(s.py, s.width)
      BY <3>1, <3>4
    <3>6. tape[Row(z, s.width) + x] = Blank
      BY <3>5 DEF BlankFrom
    <3> QED BY <3>2, <3>3, <3>6, SMTT(15)
  <2>3. CASE ~(y + s.py < Rows)
    <3>1. BlankRow[x] = Blank
      BY DEF BlankRow
    <3> QED BY <2>1, <2>3, <3>1
  <2> QED BY <2>2, <2>3, Zenon
<1> HIDE DEF r, scr
<1>6. /\ r \in Terms /\ SameLine(s, r) /\ SameCursor(s, r)
      /\ r.px = s.px /\ r.py = 0 /\ r.pend = s.pend /\ r.scr = scr
  BY <1>1, <1>2, <1>4, Zenon DEF Terms, SameLine, SameCursor
<1> QED BY <1>5, <1>6, Zenon DEF AllBlank, r

=============================================================================
