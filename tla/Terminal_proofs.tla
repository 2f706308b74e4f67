--------------------------- MODULE Terminal_proofs --------------------------
(***************************************************************************)
(* Proofs about the terminal, for any glyphs, widths, height, lines and    *)
(* size of the history: what the user sees is the line they edit, after    *)
(* every key, every change of the window and every text the menu prints,   *)
(* and the history holds the latest lines.                                 *)
(***************************************************************************)
EXTENDS TerminalParts_proofs

-----------------------------------------------------------------------------
(* A new line, below everything that is shown.                             *)
LEMMA CrLfView ==
  ASSUME NEW q, NEW tape, NEW at, View(q, tape, at), BlankFrom(tape, at)
  PROVE  LET r == CrLf(q)
         IN /\ View(r, tape, Row(r.py, r.width)) /\ BlankFrom(tape, Row(r.py, r.width))
            /\ SameLine(q, r) /\ SameCursor(q, r) /\ r.px = 0 /\ r.pend = FALSE
<1> DEFINE r == CrLf(q)
           z == q.py + 1
           w == q.width
<1>1. q \in Terms /\ q.py \in Nat /\ q.px \in Nat /\ w \in Nat \ {0} /\ z \in Nat /\ tape \in Tapes /\ at \in Nat
  <2>1. q \in Terms /\ tape \in Tapes /\ at \in Nat
    BY DEF View
  <2>2. q.py \in Nat /\ q.px \in Nat /\ w \in Nat \ {0}
    BY <2>1 DEF Terms
  <2> QED BY <2>1, <2>2
<1>2. r = [q EXCEPT !.px = 0, !.py = z, !.pend = FALSE]
  BY DEF CrLf
<1>3. Row(z, w) = Row(q.py, w) + w /\ Row(q.py, w) \in Nat /\ Row(z, w) \in Nat
  BY <1>1, RowNat, Zenon
<1>4. at <= Row(z, w)
  <2>1. q.px < w /\ at = Row(q.py, w) + q.px + (IF q.pend THEN 1 ELSE 0)
    BY DEF View, NextAt
  <2> HIDE DEF z, w
  <2> QED BY <1>1, <1>3, <2>1
<1> HIDE DEF r, z
<1>5. /\ r \in Terms /\ SameLine(q, r) /\ SameCursor(q, r)
      /\ r.px = 0 /\ r.py = z /\ r.pend = FALSE /\ r.scr = q.scr
  BY <1>1, <1>2, Zenon DEF Terms, SameLine, SameCursor
<1>6. r.width = w
  BY <1>5 DEF SameLine
<1>7. Cells(r, tape)
  BY <1>5, <1>6 DEF View, Cells
<1>8. NextAt(r, Row(z, w))
  BY <1>1, <1>3, <1>5, <1>6 DEF NextAt
<1>9. BlankFrom(tape, Row(z, w))
  <2> HIDE DEF w
  <2>1. ASSUME NEW i \in Nat, i >= Row(z, w) PROVE i >= at
    BY <1>1, <1>3, <1>4, <2>1
  <2> QED BY <2>1 DEF BlankFrom
<1> HIDE DEF w
<1> QED BY <1>1, <1>3, <1>5, <1>6, <1>7, <1>8, <1>9 DEF View, r

(* After a string there are only blanks.                                   *)
LEMMA InkEnds ==
  ASSUME NEW str \in Seq(Glyphs), NEW n \in Nat, n >= Len(str)
  PROVE  BlankFrom(Ink(str), n)
<1>1. \A i \in Nat : i >= Len(str) => Ink(str)[i] = Blank
  BY InkType
<1>2. Len(str) \in Nat
  OBVIOUS
<1> QED BY <1>1, <1>2 DEF BlankFrom

(* A new line, and what is above it is out of sight.                       *)
LEMMA NewLine ==
  ASSUME NEW q, NEW tape, NEW at, View(q, tape, at), BlankFrom(tape, at)
  PROVE  LET r == Scrolled(CrLf(q))
         IN /\ r \in Terms /\ SameLine(q, r) /\ SameCursor(q, r)
            /\ r.px = 0 /\ r.py = 0 /\ r.pend = FALSE /\ AllBlank(r)
<1> DEFINE c == CrLf(q)
           r == Scrolled(c)
<1>1. /\ View(c, tape, Row(c.py, c.width)) /\ BlankFrom(tape, Row(c.py, c.width))
      /\ SameLine(q, c) /\ SameCursor(q, c) /\ c.px = 0 /\ c.pend = FALSE
  BY CrLfView, Zenon
<1> HIDE DEF c
<1>2. c \in Terms /\ Cells(c, tape)
  BY <1>1 DEF View
<1>3. /\ r \in Terms /\ SameLine(c, r) /\ SameCursor(c, r)
      /\ r.px = c.px /\ r.py = 0 /\ r.pend = c.pend /\ AllBlank(r)
  BY <1>1, <1>2, ScrollBlank
<1> HIDE DEF r
<1>4. SameLine(q, r) /\ SameCursor(q, r)
  BY <1>1, <1>3 DEF SameLine, SameCursor
<1> QED BY <1>1, <1>3, <1>4 DEF r, c

(* Between two lines: nothing is shown yet of the next one.                *)
Origin(s) == Shows(s, Ink(<<>>), 0) /\ s.line = <<>> /\ s.pos = 0

(* The return key, on what the user sees.                                  *)
LEMMA EnterShows ==
  ASSUME NEW s, Echoed(s) \/ Hidden(s)
  PROVE  LET q == Scrolled(CrLf(moveCursorToPos(s, Len(s.line))))
             r == [q EXCEPT !.line = <<>>, !.pos = 0, !.cursorX = 0, !.cursorY = 0, !.maxLine = 0]
         IN Origin(r) /\ r.prompt = s.prompt /\ r.width = s.width /\ r.echo = s.echo
<1> DEFINE m == moveCursorToPos(s, Len(s.line))
           q == Scrolled(CrLf(m))
           r == [q EXCEPT !.line = <<>>, !.pos = 0, !.cursorX = 0, !.cursorY = 0, !.maxLine = 0]
<1>1. s \in Terms
  BY SyncedAt, Zenon DEF Echoed, Hidden, Shows
<1>2. s.line \in Seq(Glyphs) /\ s.prompt \in Seq(Glyphs) /\ Len(s.line) \in Nat /\ Len(s.prompt) \in Nat
  BY <1>1 DEF Terms
<1>3. \E tape, at : View(m, tape, at) /\ BlankFrom(tape, at) /\ SameLine(s, m)
  <2>1. CASE Echoed(s)
    <3> DEFINE n == Len(s.line)
               p == Len(s.prompt) + n
               str == s.prompt \o s.line
    <3>1. Shows(s, Ink(str), Len(s.prompt) + s.pos) /\ s.echo /\ p < Row(s.maxLine + 1, s.width)
      BY <2>1, Zenon DEF Echoed
    <3>2. n \in Nat /\ n <= n
      BY <1>2
    <3>3. p \in Nat /\ str \in Seq(Glyphs) /\ Len(str) = p
      <4>1. str \in Seq(Glyphs) /\ Len(str) = p
        BY <1>2, Concats
      <4>2. p \in Nat
        <5> DEFINE a == Len(s.prompt)
        <5>1. a \in Nat /\ n \in Nat
          BY <1>2
        <5> HIDE DEF a, n
        <5>2. a + n \in Nat
          BY <5>1
        <5> QED BY <5>2 DEF a
      <4> QED BY <4>1, <4>2, Zenon
    <3> HIDE DEF str
    <3>4. Shows(m, Ink(str), p) /\ SameLine(s, m)
      BY <3>1, <3>2, MoveFits, Zenon
    <3> HIDE DEF n, p
    <3>5. BlankFrom(Ink(str), p)
      <4>1. p >= Len(str)
        BY <3>3
      <4> QED BY <3>3, <4>1, InkEnds
    <3> QED BY <3>4, <3>5 DEF Shows, Synced
  <2>2. CASE Hidden(s)
    <3>1. m = s
      BY <2>2, NoMove DEF Hidden
    <3>2. PICK at \in Nat : at >= Len(s.prompt) /\ Shows(s, Ink(s.prompt), at)
      BY <2>2 DEF Hidden
    <3>3. BlankFrom(Ink(s.prompt), at)
      BY <1>2, <3>2, InkEnds
    <3>4. SameLine(s, s)
      BY DEF SameLine
    <3> QED BY <3>1, <3>2, <3>3, <3>4 DEF Shows, Synced
  <2> QED BY <2>1, <2>2
<1> HIDE DEF m
<1>4. /\ q \in Terms /\ SameLine(s, q) /\ q.px = 0 /\ q.py = 0 /\ q.pend = FALSE /\ AllBlank(q)
  <2>1. PICK tape, at : View(m, tape, at) /\ BlankFrom(tape, at)
    BY <1>3
  <2>2. q \in Terms /\ SameLine(m, q) /\ q.px = 0 /\ q.py = 0 /\ q.pend = FALSE /\ AllBlank(q)
    BY <2>1, NewLine, Zenon
  <2> QED BY <1>3, <2>2 DEF SameLine
<1> HIDE DEF q
<1>5. /\ r \in Terms /\ r.line = <<>> /\ r.pos = 0 /\ r.cursorX = 0 /\ r.cursorY = 0
      /\ r.px = q.px /\ r.py = q.py /\ r.pend = q.pend /\ r.scr = q.scr
      /\ r.prompt = q.prompt /\ r.width = q.width /\ r.echo = q.echo
  <2> DEFINE e == <<>>
             z == 0
  <2>1. e \in Seq(Glyphs) /\ z \in Nat
    OBVIOUS
  <2> DEFINE u == [q EXCEPT !.line = e, !.pos = z, !.cursorX = z, !.cursorY = z, !.maxLine = z]
  <2>2. u = r
    OBVIOUS
  <2> HIDE DEF e, z, r
  <2>3. /\ u \in Terms /\ u.line = e /\ u.pos = z /\ u.cursorX = z /\ u.cursorY = z
        /\ u.px = q.px /\ u.py = q.py /\ u.pend = q.pend /\ u.scr = q.scr
        /\ u.prompt = q.prompt /\ u.width = q.width /\ u.echo = q.echo
    BY <1>4, <2>1, Zenon DEF Terms
  <2> QED BY <2>2, <2>3, Zenon DEF e, z
<1> HIDE DEF r
<1>6. AllBlank(r)
  BY <1>4, <1>5 DEF AllBlank
<1>7. Shows(r, Ink(<<>>), 0)
  BY <1>4, <1>5, <1>6, BlankShows, Zenon
<1> QED BY <1>4, <1>5, <1>7 DEF Origin, SameLine, r, q, m

(* The arrow keys without echo.                                            *)
LEMMA MovePosEdits ==
  ASSUME NEW s, Echoed(s) \/ Hidden(s), NEW pos \in Nat, pos <= Len(s.line)
  PROVE  Edited(s, movePos(s, pos), s.line)
<1>1. CASE Echoed(s)
  BY <1>1, MovePosEchoed
<1>2. CASE Hidden(s)
  <2> DEFINE r == [s EXCEPT !.pos = pos]
  <2>1. PICK at \in Nat : at >= Len(s.prompt) /\ Shows(s, Ink(s.prompt), at)
    BY <1>2 DEF Hidden
  <2>2. s \in Terms /\ ~s.echo
    BY <1>2, <2>1, SyncedAt DEF Hidden, Shows
  <2>3. r \in Terms /\ SameScreen(s, r) /\ r.line = s.line /\ r.pos = pos
    BY <2>2, Zenon DEF Terms, SameScreen, SameCursor
  <2> HIDE DEF r
  <2>4. r.prompt = s.prompt /\ r.echo = s.echo /\ r.width = s.width
    BY <2>3 DEF SameScreen
  <2>5. movePos(s, pos) = r
    BY <2>2, <2>4, NoMove, Zenon DEF movePos, r
  <2>6. Shows(r, Ink(s.prompt), at)
    BY <2>1, <2>3, ScreenShows
  <2> QED BY <2>1, <2>2, <2>3, <2>4, <2>5, <2>6 DEF Edited, Hidden
<1> QED BY <1>1, <1>2

(* ReadLine shows the prompt.                                              *)
LEMMA PromptShown ==
  ASSUME NEW s, Origin(s), NEW p \in Seq(Glyphs)
  PROVE  LET r == writeLine([s EXCEPT !.prompt = p], p)
         IN /\ (IF s.echo THEN Echoed(r) ELSE Hidden(r)) /\ r.line = <<>> /\ r.pos = 0
            /\ r.prompt = p /\ r.width = s.width /\ r.echo = s.echo
<1> DEFINE e == <<>>
           q == [s EXCEPT !.prompt = p]
           r == writeLine(q, p)
<1>1. s \in Terms /\ Shows(s, Ink(e), 0) /\ s.line = e /\ s.pos = 0
  BY SyncedAt DEF Origin, Shows
<1>2. e \in Seq(Glyphs) /\ Len(e) = 0 /\ Len(p) \in Nat /\ p \o e = p /\ e \o p = p
  OBVIOUS
<1> HIDE DEF e
<1>3. /\ q \in Terms /\ q.line = s.line /\ q.pos = s.pos /\ q.cursorX = s.cursorX /\ q.cursorY = s.cursorY
      /\ q.px = s.px /\ q.py = s.py /\ q.pend = s.pend /\ q.scr = s.scr /\ q.maxLine = s.maxLine
      /\ q.prompt = p /\ q.width = s.width /\ q.echo = s.echo
  BY <1>1, Zenon DEF Terms
<1> HIDE DEF q
<1>4. Shows(q, Ink(e), 0)
  BY <1>1, <1>3 DEF Shows, Synced, View, Cells, NextAt
<1>5. Wrote(q, Ink(e), 0, p, r)
  BY <1>4, LineWrites
<1> HIDE DEF r
<1>6. Shows(r, Ink(p), Len(p)) /\ SameLine(q, r)
  <2>1. Written(Ink(e), 0, p) = Ink(p)
    <3> USE DEF Written, Ink
    <3> QED BY <1>2
  <2>2. 0 + Len(p) = Len(p)
    BY <1>2
  <2> QED BY <1>5, <2>1, <2>2 DEF Wrote
<1>7. r.line = e /\ r.pos = 0 /\ r.prompt = p /\ r.width = s.width /\ r.echo = s.echo
  BY <1>1, <1>3, <1>6 DEF SameLine
<1>8. Len(p) < Row(r.maxLine + 1, r.width)
  BY <1>6, ShowsFits
<1>9. CASE s.echo
  <2>1. Len(p) + 0 = Len(p) /\ 0 <= 0
    BY <1>2
  <2> QED BY <1>2, <1>6, <1>7, <1>8, <1>9, <2>1, Zenon DEF Echoed, r, q, e
<1>10. CASE ~s.echo
  <2>1. Len(p) >= Len(p) /\ 0 <= 0
    BY <1>2
  <2> QED BY <1>2, <1>6, <1>7, <1>10, <2>1 DEF Hidden, r, q, e
<1> QED BY <1>9, <1>10

-----------------------------------------------------------------------------
(* The prompt and the line, again on a blank screen.                       *)

(* A string on a blank tape.                                               *)
LEMMA InkWritten ==
  ASSUME NEW str \in Seq(Glyphs)
  PROVE  Written(Ink(<<>>), 0, str) = Ink(str) /\ 0 + Len(str) = Len(str)
<1>1. Len(<<>>) = 0 /\ Len(str) \in Nat /\ 0 + Len(str) = Len(str)
  OBVIOUS
<1>2. Written(Ink(<<>>), 0, str) = Ink(str)
  BY <1>1 DEF Written, Ink
<1> QED BY <1>1, <1>2

(* The prompt was written on a blank screen; the line follows and the      *)
(* cursor returns to its place.                                            *)
LEMMA RepaintEdits ==
  ASSUME NEW q, Shows(q, Ink(<<>>), 0), q.echo, q.pos <= Len(q.line),
         NEW p, Wrote(q, Ink(<<>>), 0, q.prompt, p)
  PROVE  Edited(q, moveCursorToPos(writeLine(p, q.line), q.pos), q.line)
<1> DEFINE a == q.prompt
           line == q.line
           pos == q.pos
           w == writeLine(p, line)
           r == moveCursorToPos(w, pos)
           str == a \o line
           e == <<>>
<1>1. /\ q \in Terms /\ a \in Seq(Glyphs) /\ line \in Seq(Glyphs) /\ pos \in Nat /\ pos <= Len(line)
      /\ Ink(e) \in Tapes /\ 0 \in Nat /\ Len(line) \in Nat
  <2>1. q \in Terms /\ Ink(e) \in Tapes
    BY SyncedAt, Zenon DEF Shows
  <2>2. a \in Seq(Glyphs) /\ line \in Seq(Glyphs) /\ pos \in Nat
    BY <2>1 DEF Terms
  <2> QED BY <2>1, <2>2
<1>2. str \in Seq(Glyphs) /\ Len(str) = Len(a) + Len(line)
  BY <1>1, Concats
<1>3. Wrote(q, Ink(e), 0, a, p)
  OBVIOUS
<1> HIDE DEF a, line, pos, str, e
<1>4. Wrote(p, Written(Ink(e), 0, a), 0 + Len(a), line, w)
  BY <1>1, <1>3, LineWrites DEF Wrote
<1> HIDE DEF w
<1>5. Wrote(q, Ink(e), 0, str, w)
  BY <1>1, <1>3, <1>4, WroteMore, Zenon DEF str
<1>6. Shows(w, Ink(str), Len(a) + Len(line)) /\ SameLine(q, w)
  <2>1. Written(Ink(e), 0, str) = Ink(str) /\ 0 + Len(str) = Len(str)
    BY <1>2, InkWritten DEF e
  <2> QED BY <1>2, <1>5, <2>1 DEF Wrote
<1>7. w.prompt = a /\ w.echo /\ w.width = q.width /\ w.line = line /\ w.pos = pos /\ w.echo = q.echo
  BY <1>6 DEF SameLine, a, line, pos
<1>8. Len(a) + Len(line) < Row(w.maxLine + 1, w.width)
  BY <1>6, ShowsFits
<1>9. r \in Terms /\ SameLine(w, r)
  BY <1>1, <1>6, <1>7, <1>8, MoveFits
<1>10. SameScreen(r, r) /\ r.line = line /\ r.pos = pos /\ r.prompt = a /\ r.echo = q.echo /\ r.width = q.width
  BY <1>7, <1>9 DEF SameScreen, SameCursor, SameLine
<1> HIDE DEF r
<1>11. Echoed(r)
  BY <1>1, <1>6, <1>7, <1>8, <1>9, <1>10, Repainted, Zenon DEF r, str
<1> QED BY <1>10, <1>11, Zenon DEF Edited, r, w, a, line, pos

(* Ctrl-L.                                                                 *)
LEMMA ClearEdits ==
  ASSUME NEW s, Echoed(s) \/ Hidden(s)
  PROVE  LET c == [s EXCEPT !.scr = BlankScreen, !.px = 0, !.py = 0, !.pend = FALSE,
                            !.cursorX = 0, !.cursorY = 0]
         IN Edited(s, setLine(advanceCursor(queue(c, s.prompt), Len(s.prompt)), s.line, s.pos), s.line)
<1> DEFINE z == 0
           b == BlankScreen
           f == FALSE
           c == [s EXCEPT !.scr = b, !.px = z, !.py = z, !.pend = f, !.cursorX = z, !.cursorY = z]
           a == s.prompt
           e == <<>>
           p == Advanced(c, a)
           r == setLine(p, s.line, s.pos)
<1>1. /\ s \in Terms /\ a \in Seq(Glyphs) /\ s.line \in Seq(Glyphs)
      /\ s.pos \in Nat /\ s.pos <= Len(s.line) /\ Len(s.line) \in Nat /\ Len(a) \in Nat
  <2>1. /\ s \in Terms /\ a \in Seq(Glyphs) /\ s.line \in Seq(Glyphs)
        /\ s.pos \in Nat /\ s.pos <= Len(s.line)
    BY DisplayTerms
  <2> QED BY <2>1
<1>2. r = setLine(advanceCursor(queue([s EXCEPT !.scr = BlankScreen, !.px = 0, !.py = 0, !.pend = FALSE,
                                                !.cursorX = 0, !.cursorY = 0],
                                      s.prompt), Len(s.prompt)), s.line, s.pos)
  BY DEF Advanced
<1>3. z \in Nat /\ b \in Screens /\ f \in BOOLEAN
  BY TextAssumption DEF BlankScreen, BlankRow, Screens
<1>4. \A y \in 0..(Rows - 1), x \in 0..(Widths[2] - 1) : b[y][x] = Blank
  BY DEF BlankScreen, BlankRow
<1>5. z = 0 /\ f = FALSE /\ e = <<>> /\ e \in Seq(Glyphs) /\ Len(e) = 0
  OBVIOUS
<1> HIDE DEF z, b, f, e
<1>6. /\ c \in Terms /\ SameLine(s, c) /\ c.cursorX = z /\ c.cursorY = z
      /\ c.px = z /\ c.py = z /\ c.pend = f /\ c.scr = b
  BY <1>1, <1>3, Zenon DEF Terms, SameLine
<1> HIDE DEF c
<1>7. AllBlank(c)
  BY <1>4, <1>6 DEF AllBlank
<1>8. Shows(c, Ink(e), 0)
  BY <1>5, <1>6, <1>7, BlankShows, Zenon
<1>9. Wrote(c, Ink(e), 0, a, p)
  BY <1>1, <1>8, ShowWrites
<1> HIDE DEF p
<1>10. Shows(p, Ink(a), Len(a)) /\ SameLine(c, p)
  <2>1. Written(Ink(e), 0, a) = Ink(a) /\ 0 + Len(a) = Len(a)
    BY <1>1, <1>5, InkWritten
  <2> QED BY <1>9, <2>1 DEF Wrote
<1>11. p.line = s.line /\ p.prompt = a /\ p.echo = s.echo /\ p.width = s.width
  BY <1>6, <1>10 DEF SameLine
<1>12. Edited(p, r, s.line)
  <2>1. CASE s.echo
    <3>1. a \o e = a
      BY <1>1 DEF e
    <3>2. Len(a) + 0 < Row(p.maxLine + 1, p.width)
      <4>1. Len(a) + 0 = Len(a)
        BY <1>1
      <4> QED BY <1>10, <4>1, ShowsFits
    <3>3. Len(e) <= Len(p.line)
      BY <1>1, <1>5, <1>11
    <3> QED BY <1>1, <1>5, <1>10, <1>11, <2>1, <3>1, <3>2, <3>3, SetLineEchoed, Zenon
  <2>2. CASE ~s.echo
    <3>1. Len(a) >= Len(a)
      BY <1>1
    <3> QED BY <1>1, <1>10, <1>11, <2>2, <3>1, SetLineHidden
  <2> QED BY <2>1, <2>2
<1> HIDE DEF r
<1>13. Edited(s, r, s.line)
  BY <1>11, <1>12 DEF Edited
<1> QED BY <1>2, <1>13

-----------------------------------------------------------------------------
(* Clearing what is shown: SetSize and Write.                              *)

(* A screen that shows nothing is blank.                                   *)
LEMMA ShowsNothing ==
  ASSUME NEW s, Shows(s, Ink(<<>>), 0)
  PROVE  AllBlank(s) /\ s.cursorX = 0 /\ s.cursorY = 0
<1>1. s \in Terms /\ s.width \in Nat \ {0} /\ s.cursorX \in Nat /\ s.cursorY \in Nat
  BY SyncedAt DEF Shows, Terms
<1>2. \A i \in Nat : Ink(<<>>)[i] = Blank
  <2>1. Len(<<>>) = 0
    OBVIOUS
  <2> QED BY <2>1 DEF Ink
<1>3. AllBlank(s)
  <2> SUFFICES ASSUME NEW y \in 0..(Rows - 1), NEW x \in 0..(Widths[2] - 1)
               PROVE  s.scr[y][x] = Blank
    BY DEF AllBlank
  <2>1. s.scr[y][x] = IF x < s.width THEN Ink(<<>>)[Row(y, s.width) + x] ELSE Blank
    BY DEF Shows, Synced, View, Cells
  <2>2. y \in Nat /\ x \in Nat
    BY Sizes
  <2>3. Row(y, s.width) \in Nat
    BY <1>1, <2>2, RowNat, Zenon
  <2>4. Row(y, s.width) + x \in Nat
    BY <2>2, <2>3
  <2> QED BY <1>2, <2>1, <2>4
<1>4. Row(s.cursorY, s.width) + s.cursorX = 0
  BY SyncedAt DEF Shows, AtCursor
<1>5. s.cursorX = 0 /\ Row(s.cursorY, s.width) = 0
  <2>1. Row(s.cursorY, s.width) \in Nat
    BY <1>1, RowNat, Zenon
  <2> QED BY <1>1, <1>4, <2>1
<1>6. s.cursorY = 0
  <2>1. Row(0, s.width) = 0
    BY <1>1, RowNat, Zenon
  <2>2. 0 < s.cursorY => Row(0, s.width) + s.width <= Row(s.cursorY, s.width)
    BY <1>1, RowOrder
  <2> QED BY <1>1, <1>5, <2>1, <2>2
<1> QED BY <1>3, <1>5, <1>6

(* The rows down to k are cleared, and nothing was shown below them.       *)
LEMMA RubbedBlank ==
  ASSUME NEW s \in Terms, NEW tape, Cells(s, tape), NEW k \in Nat, BlankFrom(tape, Row(k + 1, s.width)),
         NEW u, u.scr = s.scr, NEW r, Rubbed(u, r, 0, k)
  PROVE  AllBlank(r)
<1>1. s.width \in Nat /\ k + 1 \in Nat
  BY DEF Terms
<1> SUFFICES ASSUME NEW y \in 0..(Rows - 1), NEW x \in 0..(Widths[2] - 1)
             PROVE  r.scr[y][x] = Blank
  BY DEF AllBlank
<1>2. r.scr[y][x] = IF 0 <= y /\ y <= k THEN Blank ELSE s.scr[y][x]
  BY DEF Rubbed
<1>3. y \in Nat /\ x \in Nat
  BY Sizes
<1>4. CASE y <= k
  BY <1>2, <1>3, <1>4
<1>5. CASE ~(y <= k)
  <2>1. k + 1 <= y
    BY <1>3, <1>5
  <2>2. Row(k + 1, s.width) <= Row(y, s.width)
    BY <1>1, <1>3, <2>1, RowMono
  <2>3. Row(k + 1, s.width) \in Nat /\ Row(y, s.width) \in Nat
    <3>1. Row(k + 1, s.width) \in Nat
      BY <1>1, RowNat, Zenon
    <3>2. Row(y, s.width) \in Nat
      BY <1>1, <1>3, RowNat, Zenon
    <3> QED BY <3>1, <3>2
  <2>4. Row(y, s.width) + x \in Nat /\ Row(y, s.width) + x >= Row(k + 1, s.width)
    BY <1>3, <2>2, <2>3
  <2>5. tape[Row(y, s.width) + x] = Blank
    BY <2>4 DEF BlankFrom
  <2>6. s.scr[y][x] = IF x < s.width THEN tape[Row(y, s.width) + x] ELSE Blank
    BY DEF Cells
  <2> QED BY <1>2, <1>5, <2>5, <2>6
<1> QED BY <1>4, <1>5

(* The first row is cleared.                                               *)
LEMMA FirstSwept ==
  ASSUME NEW s, NEW a \in Terms, NEW y, SameLine(s, a), a.maxLine = s.maxLine, a.scr = s.scr,
         a.cursorX = 0, a.cursorY = y, a.px = 0, a.py = y, a.pend = FALSE
  PROVE  Swept(s, clearLineToRight(a), y, y, y)
<1> DEFINE r == clearLineToRight(a)
<1>1. /\ r \in Terms /\ SameLine(a, r) /\ SameCursor(a, r)
      /\ r.px = 0 /\ r.py = a.py /\ r.pend = a.pend /\ Rubbed(a, r, a.py, a.py)
  BY ClearRow
<1> HIDE DEF r
<1>2. Rubbed(s, r, y, y)
  BY <1>1 DEF Rubbed
<1> QED BY <1>1, <1>2 DEF Swept, SameLine, SameCursor, r

(* Everything is cleared, and the cursor goes up to the corner.            *)
LEMMA CornerShows ==
  ASSUME NEW s, NEW low, NEW k \in Nat, Swept(s, low, k, 0, k), AllBlank(low)
  PROVE  LET r == [move(low, low.cursorY, 0, 0, 0) EXCEPT !.cursorX = 0, !.cursorY = 0]
         IN Shows(r, Ink(<<>>), 0) /\ SameLine(s, r)
<1> DEFINE m == move(low, low.cursorY, 0, 0, 0)
           z == 0
           r == [m EXCEPT !.cursorX = z, !.cursorY = z]
<1>1. /\ low \in Terms /\ low.pend = FALSE /\ low.px = 0 /\ low.py = k /\ low.cursorY = k
      /\ low.width \in Nat \ {0} /\ SameLine(s, low)
  BY DEF Swept, Terms
<1>2. /\ low.px < low.width /\ low.cursorY \in Nat /\ low.cursorY <= low.py /\ 0 \in Nat /\ 0 <= low.px
      /\ low.px - 0 = 0 /\ low.py + 0 - low.cursorY = 0
  BY <1>1
<1>3. MovedTo(low, m, low.px - 0, low.py + 0 - low.cursorY)
  BY <1>1, <1>2, MoveTo, Zenon
<1>4. m \in Terms /\ SameLine(low, m) /\ m.scr = low.scr /\ m.px = 0 /\ m.py = 0 /\ m.pend = FALSE
  BY <1>2, <1>3 DEF MovedTo
<1>5. z \in Nat /\ z = 0
  OBVIOUS
<1> HIDE DEF m, z
<1>6. /\ r \in Terms /\ SameLine(m, r) /\ r.cursorX = z /\ r.cursorY = z
      /\ r.px = m.px /\ r.py = m.py /\ r.pend = m.pend /\ r.scr = m.scr
  BY <1>4, <1>5, Zenon DEF Terms, SameLine
<1> HIDE DEF r
<1>7. AllBlank(r)
  BY <1>4, <1>6 DEF AllBlank
<1>8. Shows(r, Ink(<<>>), 0)
  BY <1>4, <1>5, <1>6, <1>7, BlankShows, Zenon
<1>9. SameLine(s, r)
  BY <1>1, <1>4, <1>6 DEF SameLine
<1> QED BY <1>8, <1>9 DEF r, m, z

(* Nothing is shown below the last row that the editor wrote.              *)
LEMMA EchoedBelow ==
  ASSUME NEW s, Echoed(s)
  PROVE  BlankFrom(Ink(s.prompt \o s.line), Row(s.maxLine + 1, s.width))
<1> DEFINE str == s.prompt \o s.line
           n == Row(s.maxLine + 1, s.width)
<1>1. s \in Terms /\ s.prompt \in Seq(Glyphs) /\ s.line \in Seq(Glyphs)
  BY DisplayTerms
<1>2. s.maxLine + 1 \in Nat /\ s.width \in Nat
  BY <1>1 DEF Terms
<1>3. n \in Nat
  BY <1>2, RowNat, Zenon
<1>4. str \in Seq(Glyphs) /\ Len(str) = Len(s.prompt) + Len(s.line)
  BY <1>1, Concats
<1>5. Len(str) < n
  BY <1>4, Zenon DEF Echoed
<1> HIDE DEF str, n
<1>6. n >= Len(str)
  <2>1. str \in Seq(Glyphs)
    BY <1>4
  <2>2. Len(str) \in Nat
    BY <2>1
  <2> QED BY <1>3, <1>5, <2>2
<1>7. BlankFrom(Ink(str), n)
  BY <1>3, <1>4, <1>6, InkEnds, Zenon
<1> QED BY <1>7 DEF str, n

(* SetSize repaints the line on a wider screen.                            *)
LEMMA ResizeEdits ==
  ASSUME NEW s, Echoed(s), NEW width \in Nat \ {0}, s.width <= width
  PROVE  LET wide == [s EXCEPT !.width = width]
         IN Edited(wide, clearAndRepaintLinePlusNPrevious(wide, s.maxLine), s.line)
<1> DEFINE u == [s EXCEPT !.width = width]
           k == s.maxLine
           z == 0
           m == move(u, u.cursorY, 0, u.cursorX, 0)
           a == [m EXCEPT !.cursorX = z, !.cursorY = z]
           top == clearLineToRight(a)
           low == ClearDown(top, k)
           q == [move(low, low.cursorY, 0, 0, 0) EXCEPT !.cursorX = 0, !.cursorY = 0]
           p == Advanced(q, u.prompt)
           tape == Ink(s.prompt \o s.line)
<1>1. s \in Terms /\ s.prompt \in Seq(Glyphs) /\ s.line \in Seq(Glyphs) /\ s.pos \in Nat /\ s.pos <= Len(s.line)
  BY DisplayTerms
<1>2. /\ u \in Terms /\ u.width = width /\ u.line = s.line /\ u.pos = s.pos /\ u.prompt = s.prompt
      /\ u.echo = s.echo /\ SameCursor(s, u) /\ u.px = s.px /\ u.py = s.py /\ u.pend = s.pend /\ u.scr = s.scr
  BY <1>1, Zenon DEF Terms, SameCursor
<1>3. s.echo /\ Shows(s, tape, Len(s.prompt) + s.pos)
  BY DEF Echoed
<1>4. /\ s.pend = FALSE /\ s.px = s.cursorX /\ s.py = s.cursorY /\ Cells(s, tape) /\ s.cursorX < s.width
      /\ s.cursorX \in Nat /\ s.cursorY \in Nat /\ k \in Nat /\ s.width \in Nat
  BY <1>1, <1>3, SyncedAt DEF Shows, Synced, View, Terms
<1>5. clearAndRepaintLinePlusNPrevious(u, k) = moveCursorToPos(writeLine(p, u.line), u.pos)
  BY DEF clearAndRepaintLinePlusNPrevious, Advanced
<1> HIDE DEF u, k, tape
<1>6. BlankFrom(tape, Row(k + 1, s.width))
  BY EchoedBelow DEF tape, k
<1>7. m \in Terms /\ SameLine(u, m) /\ SameCursor(u, m) /\ m.scr = u.scr /\ m.px = 0 /\ m.py = 0 /\ m.pend = FALSE
  <2>1. /\ u.pend = FALSE /\ u.px < u.width /\ u.cursorY \in Nat /\ u.cursorY <= u.py /\ 0 \in Nat
        /\ u.cursorX \in Nat /\ u.cursorX <= u.px /\ u.px - u.cursorX = 0 /\ u.py + 0 - u.cursorY = 0
    BY <1>2, <1>4 DEF SameCursor
  <2>2. MovedTo(u, m, u.px - u.cursorX, u.py + 0 - u.cursorY)
    BY <1>2, <2>1, MoveTo, Zenon
  <2> QED BY <2>1, <2>2 DEF MovedTo
<1>8. z \in Nat /\ z = 0
  OBVIOUS
<1> HIDE DEF m, z
<1>9. /\ a \in Terms /\ SameLine(m, a) /\ a.cursorX = z /\ a.cursorY = z /\ a.maxLine = m.maxLine
      /\ a.px = m.px /\ a.py = m.py /\ a.pend = m.pend /\ a.scr = m.scr
  BY <1>7, <1>8, Zenon DEF Terms, SameLine
<1> HIDE DEF a
<1>10. SameLine(u, a) /\ a.maxLine = u.maxLine
  BY <1>7, <1>9 DEF SameLine, SameCursor
<1>11. Swept(u, top, 0, 0, 0)
  BY <1>7, <1>8, <1>9, <1>10, FirstSwept, Zenon
<1> HIDE DEF top
<1>12. Swept(u, low, k, 0, k)
  BY <1>4, <1>11, ClearDownSweeps
<1> HIDE DEF low
<1>13. AllBlank(low)
  BY <1>1, <1>2, <1>4, <1>6, <1>12, RubbedBlank DEF Swept
<1>14. Shows(q, Ink(<<>>), 0) /\ SameLine(u, q)
  BY <1>4, <1>12, <1>13, CornerShows, Zenon
<1> HIDE DEF q
<1>15. q.line = s.line /\ q.pos = s.pos /\ q.prompt = u.prompt /\ q.echo = s.echo /\ q.width = width
  BY <1>2, <1>14 DEF SameLine
<1>16. Wrote(q, Ink(<<>>), 0, q.prompt, p)
  BY <1>1, <1>2, <1>14, <1>15, ShowWrites
<1> HIDE DEF p
<1>17. Edited(q, moveCursorToPos(writeLine(p, q.line), q.pos), q.line)
  BY <1>1, <1>3, <1>14, <1>15, <1>16, RepaintEdits, Zenon
<1>18. Edited(u, moveCursorToPos(writeLine(p, u.line), u.pos), s.line)
  BY <1>2, <1>15, <1>17 DEF Edited
<1> QED BY <1>5, <1>18 DEF u, k

(* Nothing is shown: it is shown on a wider screen.                        *)
LEMMA ResizeNothing ==
  ASSUME NEW s, Shows(s, Ink(<<>>), 0), NEW width \in Nat \ {0}
  PROVE  LET r == [s EXCEPT !.width = width]
         IN /\ Shows(r, Ink(<<>>), 0) /\ r.line = s.line /\ r.pos = s.pos
            /\ r.prompt = s.prompt /\ r.echo = s.echo /\ r.width = width
<1> DEFINE r == [s EXCEPT !.width = width]
<1>1. s \in Terms /\ s.pend = FALSE /\ s.px = s.cursorX /\ s.py = s.cursorY
  BY SyncedAt DEF Shows, Synced
<1>2. AllBlank(s) /\ s.cursorX = 0 /\ s.cursorY = 0
  BY ShowsNothing
<1>3. /\ r \in Terms /\ r.width = width /\ r.line = s.line /\ r.pos = s.pos /\ r.prompt = s.prompt
      /\ r.echo = s.echo /\ SameCursor(s, r) /\ r.px = s.px /\ r.py = s.py /\ r.pend = s.pend /\ r.scr = s.scr
  BY <1>1, Zenon DEF Terms, SameCursor
<1> HIDE DEF r
<1>4. AllBlank(r) /\ r.cursorX = 0 /\ r.cursorY = 0
  BY <1>2, <1>3 DEF AllBlank, SameCursor
<1>5. Shows(r, Ink(<<>>), 0)
  BY <1>1, <1>2, <1>3, <1>4, BlankShows, Zenon
<1> QED BY <1>3, <1>5 DEF r

(* With an empty line the cursor is in the corner only before a prompt, or *)
(* after an empty one.                                                     *)
LEMMA CornerOrigin ==
  ASSUME NEW s, Echoed(s) \/ Hidden(s), s.line = <<>>, s.cursorX = 0, s.cursorY = 0
  PROVE  Origin(s) /\ s.prompt = <<>>
<1>1. s \in Terms /\ s.prompt \in Seq(Glyphs) /\ s.line \in Seq(Glyphs) /\ s.pos \in Nat /\ s.pos <= Len(s.line)
  BY DisplayTerms
<1>2. s.pos = 0 /\ Len(s.prompt) \in Nat
  BY <1>1
<1>3. Row(s.cursorY, s.width) + s.cursorX = 0
  <2>1. Row(0, s.width) = 0
    BY <1>1, RowNat DEF Terms
  <2> QED BY <2>1
<1>4. Len(s.prompt) = 0 /\ Shows(s, Ink(s.prompt), 0)
  <2>1. CASE Echoed(s)
    <3> DEFINE str == s.prompt \o s.line
    <3>1. str = s.prompt
      BY <1>1
    <3> HIDE DEF str
    <3>2. Shows(s, Ink(str), Len(s.prompt) + s.pos)
      BY <2>1 DEF Echoed, str
    <3>3. Len(s.prompt) + s.pos = Row(s.cursorY, s.width) + s.cursorX
      BY <3>2, SyncedAt DEF Shows, AtCursor
    <3>4. Len(s.prompt) = 0 /\ Len(s.prompt) + s.pos = 0
      BY <1>2, <1>3, <3>3
    <3> QED BY <3>1, <3>2, <3>4
  <2>2. CASE Hidden(s)
    <3>1. PICK at \in Nat : at >= Len(s.prompt) /\ Shows(s, Ink(s.prompt), at)
      BY <2>2 DEF Hidden
    <3>2. at = Row(s.cursorY, s.width) + s.cursorX
      BY <3>1, SyncedAt DEF Shows, AtCursor
    <3>3. Len(s.prompt) = 0 /\ at = 0
      BY <1>2, <1>3, <3>1, <3>2
    <3> QED BY <3>1, <3>3
  <2> QED BY <2>1, <2>2
<1>5. s.prompt = <<>>
  BY <1>1, <1>4
<1> QED BY <1>2, <1>4, <1>5 DEF Origin

(* The cursor is at the start of a row, and nothing is shown from there.   *)
AtStart(s, r) ==
  /\ \E tape : View(r, tape, Row(r.py, r.width)) /\ BlankFrom(tape, Row(r.py, r.width))
  /\ r.px = 0 /\ r.pend = FALSE /\ SameLine(s, r) /\ SameCursor(s, r)

(* One row of a text.                                                      *)
LEMMA RowPrinted ==
  ASSUME NEW s, NEW q, SameLine(s, q), SameCursor(s, q), NEW tape, NEW at, View(q, tape, at),
         NEW str \in Seq(Glyphs), BlankFrom(tape, at + Len(str))
  PROVE  AtStart(s, CrLf(queue(q, str)))
<1> DEFINE w == queue(q, str)
           r == CrLf(w)
           new == Written(tape, at, str)
           end == at + Len(str)
<1>1. View(w, new, end) /\ SameLine(q, w) /\ SameCursor(q, w)
  BY QueueView
<1>2. at \in Nat /\ Len(str) \in Nat
  BY DEF View
<1>3. BlankFrom(new, end)
  <2> SUFFICES ASSUME NEW i \in Nat, i >= end PROVE new[i] = Blank
    BY DEF BlankFrom
  <2>1. tape[i] = Blank
    BY DEF BlankFrom
  <2>2. ~(i < at + Len(str))
    BY <1>2
  <2> QED BY <2>1, <2>2 DEF Written
<1> HIDE DEF w, new, end
<1>4. /\ View(r, new, Row(r.py, r.width)) /\ BlankFrom(new, Row(r.py, r.width))
      /\ SameLine(w, r) /\ SameCursor(w, r) /\ r.px = 0 /\ r.pend = FALSE
  BY <1>1, <1>3, CrLfView, Zenon
<1> HIDE DEF r
<1>5. SameLine(s, r) /\ SameCursor(s, r)
  BY <1>1, <1>4 DEF SameLine, SameCursor
<1> QED BY <1>4, <1>5 DEF AtStart, r, w

(* The rows of a text, the first of them over all that is shown.           *)
LEMMA RowsPrinted ==
  ASSUME NEW s, NEW tape, View(s, tape, 0), NEW rows \in Seq(Seq(Glyphs)), Len(rows) > 0,
         BlankFrom(tape, Len(rows[1]))
  PROVE  AtStart(s, writeWithCRLF(s, rows))
<1>1. Len(rows) \in Nat /\ \A n \in 1..Len(rows) : rows[n] \in Seq(Glyphs)
  BY Element
<1>2. PICK f : /\ writeWithCRLF(s, rows) = f[Len(rows)]
               /\ f[0] = s
               /\ \A n \in 1..Len(rows) : f[n] = CrLf(queue(f[n - 1], rows[n]))
  <2>1. Len(rows) \in Nat
    BY <1>1
  <2> QED BY <2>1, RowSteps
<1> DEFINE T == {n \in Nat : n + 1 <= Len(rows) => AtStart(s, f[n + 1])}
<1>3. 0 \in T
  <2>1. f[1] = CrLf(queue(s, rows[1])) /\ rows[1] \in Seq(Glyphs)
    BY <1>1, <1>2
  <2>2. SameLine(s, s) /\ SameCursor(s, s)
    BY DEF SameLine, SameCursor
  <2>3. BlankFrom(tape, 0 + Len(rows[1]))
    <3>1. 0 + Len(rows[1]) = Len(rows[1])
      BY <2>1
    <3> QED BY <3>1
  <2>4. AtStart(s, f[1])
    BY <2>1, <2>2, <2>3, RowPrinted
  <2>5. 0 + 1 = 1
    OBVIOUS
  <2> QED BY <2>4, <2>5
<1>4. ASSUME NEW n \in Nat, n \in T PROVE n + 1 \in T
  <2> SUFFICES ASSUME (n + 1) + 1 <= Len(rows) PROVE AtStart(s, f[(n + 1) + 1])
    OBVIOUS
  <2> DEFINE q == f[n + 1]
             str == rows[(n + 1) + 1]
  <2>1. f[(n + 1) + 1] = CrLf(queue(q, str)) /\ str \in Seq(Glyphs)
    <3>1. (n + 1) + 1 \in 1..Len(rows) /\ (n + 1) + 1 - 1 = n + 1
      BY <1>1
    <3> QED BY <1>1, <1>2, <3>1
  <2>2. AtStart(s, q)
    BY <1>1, <1>4
  <2> HIDE DEF q, str
  <2> DEFINE at == Row(q.py, q.width)
  <2>3. PICK old : View(q, old, at) /\ BlankFrom(old, at)
    BY <2>2 DEF AtStart
  <2>4. at \in Nat /\ Len(str) \in Nat
    BY <2>1, <2>3 DEF View
  <2> HIDE DEF at
  <2>5. BlankFrom(old, at + Len(str))
    <3>1. ASSUME NEW i \in Nat, i >= at + Len(str) PROVE i >= at
      BY <2>4, <3>1
    <3> QED BY <2>3, <3>1 DEF BlankFrom
  <2>6. SameLine(s, q) /\ SameCursor(s, q)
    BY <2>2 DEF AtStart
  <2> QED BY <2>1, <2>3, <2>5, <2>6, RowPrinted
<1>5. Len(rows) - 1 \in T
  <2> HIDE DEF T
  <2>1. Len(rows) - 1 \in Nat
    BY <1>1
  <2> QED BY <1>3, <1>4, <2>1, Induct, Zenon
<1>6. Len(rows) - 1 + 1 = Len(rows) /\ Len(rows) <= Len(rows)
  BY <1>1
<1> QED BY <1>2, <1>5, <1>6

(* The screen after its rows down to k have been cleared.                  *)
LEMMA RubbedCells ==
  ASSUME NEW s \in Terms, NEW tape \in Tapes, Cells(s, tape), NEW k \in Nat,
         NEW r, r.width = s.width, Rubbed(s, r, 0, k)
  PROVE  LET new == [i \in Nat |-> IF i < Row(k + 1, s.width) THEN Blank ELSE tape[i]]
         IN new \in Tapes /\ Cells(r, new)
<1> DEFINE w == s.width
           z == Row(k + 1, w)
           new == [i \in Nat |-> IF i < z THEN Blank ELSE tape[i]]
<1>1. w \in Nat \ {0} /\ w \in Nat /\ k + 1 \in Nat
  BY DEF Terms
<1>2. new \in Tapes
  BY TextAssumption DEF Tapes
<1>3. ASSUME NEW y \in 0..(Rows - 1), NEW x \in 0..(Widths[2] - 1)
      PROVE  r.scr[y][x] = IF x < w THEN new[Row(y, w) + x] ELSE Blank
  <2>1. r.scr[y][x] = IF 0 <= y /\ y <= k THEN Blank ELSE s.scr[y][x]
    BY DEF Rubbed
  <2>2. s.scr[y][x] = IF x < w THEN tape[Row(y, w) + x] ELSE Blank
    BY DEF Cells
  <2>3. y \in Nat /\ x \in Nat
    BY Sizes
  <2>4. Row(y, w) \in Nat /\ z \in Nat
    <3>1. Row(y, w) \in Nat
      BY <1>1, <2>3, RowNat, Zenon
    <3>2. z \in Nat
      BY <1>1, RowNat, Zenon
    <3> QED BY <3>1, <3>2
  <2>5. Row(y, w) + x \in Nat
    BY <2>3, <2>4
  <2>6. new[Row(y, w) + x] = IF Row(y, w) + x < z THEN Blank ELSE tape[Row(y, w) + x]
    BY <2>5
  <2>7. x < w => (y <= k <=> Row(y, w) + x < z)
    <3>1. CASE y <= k
      <4>1. y < k + 1
        BY <2>3, <3>1
      <4>2. Row(y, w) + w <= z
        BY <1>1, <2>3, <4>1, RowOrder
      <4> HIDE DEF z, w
      <4> QED BY <1>1, <2>3, <2>4, <3>1, <4>2
    <3>2. CASE ~(y <= k)
      <4>1. k + 1 <= y
        BY <2>3, <3>2
      <4>2. z <= Row(y, w)
        BY <1>1, <2>3, <4>1, RowMono
      <4> HIDE DEF z, w
      <4> QED BY <1>1, <2>3, <2>4, <3>2, <4>2
    <3> QED BY <3>1, <3>2
  <2> HIDE DEF new, w, z
  <2>8. 0 <= y
    BY <2>3
  <2> QED BY <2>1, <2>2, <2>6, <2>7, <2>8, SMTT(15)
<1> HIDE DEF new
<1>4. Cells(r, new)
  BY <1>3 DEF Cells
<1> QED BY <1>2, <1>4 DEF new

(* Write shows a text above the line, the first row of it a copy of what   *)
(* is shown.                                                               *)
LEMMA WriteEdits ==
  ASSUME NEW s, Echoed(s), NEW rows \in Seq(Seq(Glyphs)), Len(rows) > 0, rows[1] = s.prompt \o s.line
  PROVE  Edited(s, Write(s, rows), s.line)
<1> DEFINE k == s.cursorY
           z == 0
           m == move(s, 0, 0, s.cursorX, 0)
           a == [m EXCEPT !.cursorX = z]
           home == clearLineToRight(a)
           top == ClearUp(home)
           end == writeWithCRLF(top, rows)
           q == Scrolled(end)
           p == writeLine(q, s.prompt)
           str == s.prompt \o s.line
           tape == Ink(str)
           new == [i \in Nat |-> IF i < Row(k + 1, s.width) THEN Blank ELSE tape[i]]
<1>1. s \in Terms /\ s.prompt \in Seq(Glyphs) /\ s.line \in Seq(Glyphs) /\ s.pos \in Nat /\ s.pos <= Len(s.line)
  BY DisplayTerms
<1>2. s.echo /\ Shows(s, tape, Len(s.prompt) + s.pos)
  BY DEF Echoed
<1>3. /\ s.pend = FALSE /\ s.px = s.cursorX /\ s.py = k /\ Cells(s, tape) /\ s.cursorX < s.width
      /\ s.cursorX \in Nat /\ k \in Nat /\ tape \in Tapes /\ s.width \in Nat
  BY <1>1, <1>2, SyncedAt, Zenon DEF Shows, Synced, View, Terms
<1>4. Write(s, rows) = moveCursorToPos(writeLine(p, s.line), s.pos)
  BY <1>2 DEF Write
<1>5. str \in Seq(Glyphs)
  BY <1>1, Concats, SMTT(15)
<1> HIDE DEF k, str
<1>6. m \in Terms /\ SameLine(s, m) /\ SameCursor(s, m) /\ m.scr = s.scr /\ m.px = 0 /\ m.py = k /\ m.pend = FALSE
  <2>1. /\ s.px < s.width /\ 0 \in Nat /\ 0 <= s.py /\ s.cursorX <= s.px
        /\ s.px - s.cursorX = 0 /\ s.py + 0 - 0 = k
    BY <1>3
  <2>2. MovedTo(s, m, s.px - s.cursorX, s.py + 0 - 0)
    BY <1>1, <1>3, <2>1, MoveTo, Zenon
  <2> QED BY <2>1, <2>2 DEF MovedTo
<1>7. z \in Nat /\ z = 0
  OBVIOUS
<1> HIDE DEF m, z
<1>8. /\ a \in Terms /\ SameLine(m, a) /\ a.cursorX = z /\ a.cursorY = m.cursorY /\ a.maxLine = m.maxLine
      /\ a.px = m.px /\ a.py = m.py /\ a.pend = m.pend /\ a.scr = m.scr
  BY <1>6, <1>7, Zenon DEF Terms, SameLine
<1> HIDE DEF a
<1>9. SameLine(s, a) /\ a.maxLine = s.maxLine /\ a.cursorY = k
  BY <1>6, <1>8 DEF SameLine, SameCursor, k
<1>10. Swept(s, home, k, k, k)
  BY <1>6, <1>7, <1>8, <1>9, FirstSwept, Zenon
<1> HIDE DEF home
<1>11. Swept(s, top, 0, 0, k)
  BY <1>3, <1>10, ClearUpSweeps, SMTT(15)
<1> HIDE DEF top
<1>12. /\ top \in Terms /\ SameLine(s, top) /\ top.width = s.width /\ top.cursorX = 0 /\ top.cursorY = 0
       /\ top.px = 0 /\ top.py = 0 /\ top.pend = FALSE /\ Rubbed(s, top, 0, k) /\ s.width \in Nat \ {0}
  BY <1>1, <1>11 DEF Swept, SameLine, Terms
<1>13. new \in Tapes /\ Cells(top, new)
  BY <1>1, <1>3, <1>12, RubbedCells
<1>14. BlankFrom(new, Len(str))
  <2>1. BlankFrom(tape, Len(str))
    <3>1. Len(str) \in Nat /\ Len(str) >= Len(str)
      BY <1>5
    <3> QED BY <1>5, <3>1, InkEnds
  <2> QED BY <2>1 DEF BlankFrom
<1> HIDE DEF new, tape
<1>15. View(top, new, 0)
  <2>1. Row(0, s.width) = 0
    BY <1>12, RowNat, Zenon
  <2>2. NextAt(top, 0)
    BY <1>12, <2>1 DEF NextAt
  <2> QED BY <1>12, <1>13, <2>2 DEF View
<1>16. AtStart(top, end)
  <2>1. BlankFrom(new, Len(rows[1]))
    BY <1>14 DEF str
  <2> QED BY <1>15, <2>1, RowsPrinted, Zenon
<1> HIDE DEF end
<1>17. PICK text : View(end, text, Row(end.py, end.width)) /\ BlankFrom(text, Row(end.py, end.width))
  BY <1>16 DEF AtStart
<1>18. end \in Terms /\ Cells(end, text) /\ SameLine(top, end) /\ SameCursor(top, end) /\ end.px = 0 /\ end.pend = FALSE
  BY <1>16, <1>17 DEF AtStart, View
<1>19. /\ q \in Terms /\ SameLine(end, q) /\ SameCursor(end, q)
       /\ q.px = end.px /\ q.py = 0 /\ q.pend = end.pend /\ AllBlank(q)
  BY <1>17, <1>18, ScrollBlank, SMTT(15)
<1> HIDE DEF q
<1>20. SameLine(s, q) /\ q.cursorX = 0 /\ q.cursorY = 0
  BY <1>12, <1>18, <1>19 DEF SameLine, SameCursor
<1>21. Shows(q, Ink(<<>>), 0)
  BY <1>18, <1>19, <1>20, BlankShows, Zenon
<1>22. q.line = s.line /\ q.pos = s.pos /\ q.prompt = s.prompt /\ q.echo = s.echo /\ q.width = s.width
  BY <1>20 DEF SameLine
<1>23. Wrote(q, Ink(<<>>), 0, q.prompt, p)
  BY <1>1, <1>21, <1>22, LineWrites
<1> HIDE DEF p
<1>24. Edited(q, moveCursorToPos(writeLine(p, q.line), q.pos), q.line)
  BY <1>1, <1>2, <1>21, <1>22, <1>23, RepaintEdits, Zenon
<1>25. Edited(s, moveCursorToPos(writeLine(p, s.line), s.pos), s.line)
  BY <1>22, <1>24 DEF Edited
<1> QED BY <1>4, <1>25

-----------------------------------------------------------------------------
(* The history (RingBuffer).                                               *)
RingInv ==
  /\ entries \in [0..(max - 1) -> Lines]
  /\ head \in 0..(max - 1)
  /\ size \in 0..max

(* The entry after i, without a remainder.                                 *)
LEMMA NextEntry ==
  ASSUME NEW i \in 0..(max - 1)
  PROVE  (i + 1) % max = IF i = max - 1 THEN 0 ELSE i + 1
<1>1. max \in Nat /\ max > 0
  BY RingAssumption
<1>2. CASE i = max - 1
  <2>1. max % max = 0
    BY <1>1, Z3
  <2> QED BY <1>1, <1>2, <2>1
<1>3. CASE i # max - 1
  <2>1. i + 1 \in Nat /\ i + 1 < max
    BY <1>1, <1>3
  <2>2. (i + 1) % max = i + 1
    BY <1>1, <2>1, Z3
  <2> QED BY <1>3, <2>2
<1> QED BY <1>2, <1>3

(* The list has as many lines as the ring counts.                          *)
LEMMA LatestLen ==
  ASSUME RingInv
  PROVE  Len(latest) = size /\ DOMAIN latest = 1..size
BY DEF RingInv, latest

(* The ring is empty at first.                                             *)
LEMMA RingInvInit == RingInit => RingInv
BY RingAssumption DEF RingInit, RingInv

(* Add keeps the ring.                                                     *)
LEMMA RingInvNext == RingInv /\ [RingNext]_ring => RingInv'
<1> SUFFICES ASSUME RingInv, [RingNext]_ring
             PROVE  RingInv'
  OBVIOUS
<1>1. CASE RingNext
  <2>1. PICK a \in Lines : Add(a)
    BY <1>1 DEF RingNext
  <2>2. head' \in 0..(max - 1)
    BY <2>1, NextEntry, RingAssumption DEF Add, RingInv
  <2> QED BY <2>1, <2>2, RingAssumption DEF Add, RingInv
<1>2. CASE UNCHANGED ring
  BY <1>2 DEF ring, RingInv
<1> QED BY <1>1, <1>2

(* One call of Add pushes the line on the list.                            *)
LEMMA AddPushes ==
  ASSUME RingInv, NEW a \in Lines, Add(a)
  PROVE  latest' = Latest!Pushed(a)
<1>1. max \in Nat /\ max > 0 /\ size \in 0..max /\ head \in 0..(max - 1)
  BY RingAssumption DEF RingInv
<1>2. head' = IF head = max - 1 THEN 0 ELSE head + 1
  BY <1>1, NextEntry DEF Add
<1>3. size' = IF size + 1 < max THEN size + 1 ELSE max
  BY <1>1 DEF Add
<1>4. Latest!Least(Len(latest) + 1, max) = size'
  BY <1>1, <1>3, LatestLen DEF Latest!Least
<1>5. ASSUME NEW n \in 1..size'
      PROVE  NthPreviousEntry(n - 1)' = IF n = 1 THEN a ELSE latest[n - 1]
  <2>1. CASE n = 1
    BY <1>1, <1>2, <2>1 DEF NthPreviousEntry, Add, RingInv
  <2>2. CASE n # 1
    <3>1. n - 1 \in 1..size /\ n - 1 \in 1..(max - 1)
      BY <1>1, <1>3, <1>5, <2>2
    <3>2. latest[n - 1] = NthPreviousEntry(n - 2)
      BY <1>1, <3>1 DEF latest
    <3> DEFINE old == IF head < n - 2 THEN head + max - (n - 2) ELSE head - (n - 2)
               new == IF head' < n - 1 THEN head' + max - (n - 1) ELSE head' - (n - 1)
    <3>3. new = old /\ new # head' /\ new \in 0..(max - 1)
      BY <1>1, <1>2, <3>1
    <3>4. entries'[new] = entries[old]
      BY <3>3 DEF Add, RingInv
    <3> QED BY <2>2, <3>2, <3>4 DEF NthPreviousEntry
  <2> QED BY <2>1, <2>2
<1> QED BY <1>4, <1>5, Zenon DEF latest, Latest!Pushed

(* The ring buffer implements the list of the latest lines: what           *)
(* NthPreviousEntry returns is what was passed to the n-th previous call   *)
(* of Add (stRingBuffer, terminal.go).                                     *)
THEOREM RingImplementsList == RingSpec => HistoryIsLatest
<1>1. RingInit => Latest!Init
  BY DEF RingInit, Latest!Init, latest
<1>2. RingInv /\ [RingNext]_ring => [Latest!Next]_latest
  <2> SUFFICES ASSUME RingInv, [RingNext]_ring
               PROVE  Latest!Next \/ latest' = latest
    OBVIOUS
  <2>1. CASE RingNext
    BY <2>1, AddPushes DEF RingNext, Latest!Next, Latest!Add
  <2>2. CASE UNCHANGED ring
    BY <2>2 DEF ring, latest, NthPreviousEntry
  <2> QED BY <2>1, <2>2
<1> QED BY RingInvInit, RingInvNext, <1>1, <1>2, PTL DEF RingSpec, HistoryIsLatest, Latest!Spec

-----------------------------------------------------------------------------
(* The inductive invariant.  Between two keys the user sees the line they  *)
(* edit, or, between two lines, nothing yet.  An edit needs more than the  *)
(* invariant of the screen: how far down the editor has written (maxLine)  *)
(* and that what it recalls and completes are lines.                       *)
DisplayInv ==
  /\ reading \in BOOLEAN
  /\ Echoed(t) \/ Hidden(t) \/ (~reading /\ Origin(t))
  /\ ~reading => t.line = <<>>
  /\ t.line \in Lines /\ t.width \in {Widths[1], Widths[2]} /\ t.echo = typist.echo

TypistInv ==
  /\ typist = [chars |-> typist.chars, keys |-> typist.keys, lines |-> typist.lines, echo |-> typist.echo]
  /\ typist.chars \subseteq Glyphs /\ ("tab" \in typist.keys => typist.echo)

HistoryInv ==
  /\ RingInv /\ historyPending \in Lines
  /\ historyIndex \in Int /\ -1 <= historyIndex /\ historyIndex < size

CompletionInv ==
  completion \subseteq Lines /\ (completion # {} => reading /\ t.echo)

TInv == DisplayInv /\ TypistInv /\ HistoryInv /\ CompletionInv

(* The empty line.                                                         *)
LEMMA EmptyLine == <<>> \in Lines
<1>1. <<>> \in Seq(Glyphs) /\ Len(<<>>) = 0 /\ maxLineLength \in Nat
  BY ConstAssumption
<1>2. Len(<<>>) <= maxLineLength
  BY <1>1
<1> QED BY <1>1, <1>2, InLines, Zenon

(* The ring's entries are lines.                                           *)
LEMMA PreviousLine ==
  ASSUME RingInv, NEW n \in Nat, n < size
  PROVE  NthPreviousEntry(n) \in Lines
<1>1. max \in Nat /\ max > 0 /\ size \in 0..max /\ head \in 0..(max - 1) /\ entries \in [0..(max - 1) -> Lines]
  BY RingAssumption DEF RingInv
<1> DEFINE i == IF head < n THEN head + max - n ELSE head - n
<1>2. i \in 0..(max - 1)
  BY <1>1
<1> QED BY <1>1, <1>2 DEF NthPreviousEntry

(* The invariant holds at first.                                           *)
LEMMA InvInit == Init => TInv
<1> SUFFICES ASSUME Init PROVE TInv
  OBVIOUS
<1>1. typist \in Typists /\ reading = FALSE /\ RingInit /\ historyIndex = -1 /\ historyPending = <<>> /\ completion = {}
  BY DEF Init
<1>2. TypistInv
  BY <1>1, TextAssumption DEF TypistInv
<1>3. CompletionInv
  BY <1>1 DEF CompletionInv
<1>4. HistoryInv
  <2>1. RingInv /\ size = 0
    BY <1>1, RingInvInit DEF RingInit
  <2> QED BY <1>1, <2>1, EmptyLine DEF HistoryInv
<1>5. DisplayInv
  <2> DEFINE e == <<>>
             z == 0
             f == FALSE
             w == Widths[1]
             b == BlankScreen
             echo == typist.echo
  <2>1. t = [line |-> e, pos |-> z, cursorX |-> z, cursorY |-> z, maxLine |-> z,
             width |-> w, prompt |-> e, echo |-> echo,
             scr |-> b, px |-> z, py |-> z, pend |-> f]
    BY DEF Init
  <2>2. e \in Seq(Glyphs) /\ z \in Nat /\ f \in BOOLEAN /\ w \in Nat \ {0} /\ z = 0 /\ f = FALSE
    BY Sizes
  <2>3. b \in Screens
    BY TextAssumption DEF BlankScreen, BlankRow, Screens
  <2>4. \A y \in 0..(Rows - 1), x \in 0..(Widths[2] - 1) : b[y][x] = Blank
    BY DEF BlankScreen, BlankRow
  <2>5. echo \in BOOLEAN
    BY <1>1, TextAssumption
  <2> HIDE DEF e, z, f, w, b, echo
  <2>6. /\ t \in Terms /\ t.line = e /\ t.pos = z /\ t.cursorX = z /\ t.cursorY = z /\ t.px = z /\ t.py = z
        /\ t.pend = f /\ t.scr = b /\ t.width = w /\ t.echo = echo
    <3> HIDE <1>1
    <3> QED BY <2>1, <2>2, <2>3, <2>5, Zenon DEF Terms
  <2>7. AllBlank(t)
    BY <2>4, <2>6 DEF AllBlank
  <2>8. Shows(t, Ink(<<>>), 0)
    BY <2>2, <2>6, <2>7, BlankShows, Zenon
  <2>9. Origin(t)
    BY <2>2, <2>6, <2>8 DEF Origin, e
  <2> QED BY <1>1, <2>6, <2>9, EmptyLine, Zenon DEF DisplayInv, e, w, echo
<1> QED BY <1>2, <1>3, <1>4, <1>5 DEF TInv

(* An edit, with everything else as it was.                                *)
LEMMA EditKeeps ==
  ASSUME TInv, NEW line \in Lines, Edited(t, t', line), reading,
         UNCHANGED <<typist, reading>>
  PROVE  DisplayInv' /\ TypistInv' /\ (CompletionInv' \/ completion' # completion)
<1>1. Echoed(t') \/ Hidden(t')
  BY DEF Edited
<1>2. t'.line = line /\ t'.width = t.width /\ t'.echo = t.echo
  BY DEF Edited
<1>3. DisplayInv'
  BY <1>1, <1>2 DEF TInv, DisplayInv
<1>4. TypistInv'
  BY DEF TInv, TypistInv
<1>5. completion' = completion => CompletionInv'
  BY <1>2 DEF TInv, CompletionInv
<1> QED BY <1>3, <1>4, <1>5

(* What leaves the history alone.                                          *)
LEMMA HistoryKept ==
  ASSUME HistoryInv, UNCHANGED <<ring, recall>>
  PROVE  HistoryInv'
BY DEF HistoryInv, RingInv, ring, recall

(* A shorter line.                                                         *)
LEMMA ShorterLine ==
  ASSUME NEW old \in Lines, NEW line \in Seq(Glyphs), Len(line) <= Len(old)
  PROVE  line \in Lines
<1>1. old \in Seq(Glyphs) /\ Len(old) <= maxLineLength /\ maxLineLength \in Nat
  BY InLines, ConstAssumption
<1>2. Len(old) \in Nat /\ Len(line) \in Nat
  BY <1>1
<1>3. Len(line) <= maxLineLength
  BY <1>1, <1>2
<1> QED BY <1>3, InLines

(* Keys that take characters away, or move the cursor.                     *)
LEMMA ShortenEdits ==
  ASSUME TInv, Backspace \/ DeleteWord \/ CtrlU \/ CtrlD \/ DeleteLine
  PROVE  \E line \in Lines : Edited(t, t', line)
<1>1. reading /\ (Echoed(t) \/ Hidden(t)) /\ t.line \in Lines
  BY DEF TInv, DisplayInv, Backspace, DeleteWord, CtrlU, CtrlD, DeleteLine, Pressed, HandlesKey
<1>2. t.pos \in Nat /\ t.line \in Seq(Glyphs) /\ t.pos <= Len(t.line)
  BY <1>1, DisplayTerms
<1>3. ASSUME NEW count \in Nat, t' = eraseNPreviousChars(t, count)
      PROVE  \E line \in Lines : Edited(t, t', line)
  <2>1. PICK line \in Seq(Glyphs) : Len(line) <= Len(t.line) /\ Edited(t, eraseNPreviousChars(t, count), line)
    BY <1>1, EraseEdits
  <2>2. line \in Lines
    BY <1>1, <2>1, ShorterLine
  <2> QED BY <1>3, <2>1, <2>2
<1>4. CASE Backspace
  BY <1>3, <1>4 DEF Backspace, Edit
<1>5. CASE DeleteWord
  <2> DEFINE count == IF t.pos = 0 THEN 0 ELSE t.pos - leftWord
  <2>1. leftWord \in Nat /\ leftWord <= t.pos
    BY <1>2, LeftWord
  <2>2. count \in Nat
    BY <1>2, <2>1
  <2>3. t' = eraseNPreviousChars(t, count)
    BY <1>5 DEF DeleteWord, Edit
  <2> HIDE DEF count
  <2> QED BY <1>3, <2>2, <2>3
<1>6. CASE CtrlU
  BY <1>2, <1>3, <1>6 DEF CtrlU, Edit
<1>7. CASE CtrlD
  <2>1. t.pos < Len(t.line) /\ t' = eraseNPreviousChars([t EXCEPT !.pos = @ + 1], 1)
    BY <1>7 DEF CtrlD, Edit
  <2>2. PICK line \in Seq(Glyphs) :
           /\ Len(line) <= Len(t.line)
           /\ Edited(t, eraseNPreviousChars([t EXCEPT !.pos = @ + 1], 1), line)
    BY <1>1, <2>1, EraseNext
  <2>3. line \in Lines
    BY <1>1, <2>2, ShorterLine
  <2> QED BY <2>1, <2>2, <2>3
<1>8. CASE DeleteLine
  <2> DEFINE line == SubSeq(t.line, 1, t.pos)
  <2>1. t' = moveCursorToPos([wipe(t, Len(t.line) - t.pos) EXCEPT !.line = SubSeq(@, 1, t.pos)], t.pos)
    BY <1>8 DEF DeleteLine, Edit
  <2>2. Edited(t, moveCursorToPos([wipe(t, Len(t.line) - t.pos) EXCEPT !.line = SubSeq(@, 1, t.pos)], t.pos), line)
    BY <1>1, DeleteEdits, Zenon
  <2>3. line \in Seq(Glyphs) /\ Len(line) <= Len(t.line)
    BY <1>2
  <2>4. line \in Lines
    <3> HIDE DEF line
    <3> QED BY <1>1, <2>3, ShorterLine
  <2> HIDE DEF line
  <2> QED BY <2>1, <2>2, <2>4
<1> QED BY <1>4, <1>5, <1>6, <1>7, <1>8, SMTT(15)

(* The keys that move the cursor.                                          *)
LEMMA MoveEdits ==
  ASSUME TInv, AltLeft \/ AltRight \/ Left \/ Right \/ Home \/ End
  PROVE  Edited(t, t', t.line)
<1>1. reading /\ (Echoed(t) \/ Hidden(t))
  BY DEF TInv, DisplayInv, AltLeft, AltRight, Left, Right, Home, End, Pressed, HandlesKey
<1>2. t.pos \in Nat /\ t.line \in Seq(Glyphs) /\ t.pos <= Len(t.line) /\ Len(t.line) \in Nat
  <2>1. t.pos \in Nat /\ t.line \in Seq(Glyphs) /\ t.pos <= Len(t.line)
    BY <1>1, DisplayTerms
  <2> QED BY <2>1
<1>3. PICK pos : t' = movePos(t, pos) /\ pos \in Nat /\ pos <= Len(t.line)
  <2>1. CASE AltLeft
    <3> DEFINE p == IF t.pos = 0 THEN 0 ELSE leftWord
    <3>1. leftWord \in Nat /\ leftWord <= t.pos
      BY <1>2, LeftWord
    <3>2. p \in Nat /\ p <= Len(t.line)
      BY <1>2, <3>1
    <3>3. t' = movePos(t, p)
      BY <2>1 DEF AltLeft, Edit
    <3> HIDE DEF p
    <3> QED BY <3>2, <3>3
  <2>2. CASE AltRight
    BY <1>2, <2>2, RightWord DEF AltRight, Edit
  <2>3. CASE Left
    <3>1. t' = movePos(t, t.pos - 1) /\ t.pos > 0
      BY <2>3 DEF Left, Edit
    <3>2. t.pos - 1 \in Nat /\ t.pos - 1 <= Len(t.line)
      BY <1>2, <3>1
    <3> QED BY <3>1, <3>2
  <2>4. CASE Right
    <3>1. t' = movePos(t, t.pos + 1) /\ t.pos < Len(t.line)
      BY <2>4 DEF Right, Edit
    <3>2. t.pos + 1 \in Nat /\ t.pos + 1 <= Len(t.line)
      BY <1>2, <3>1
    <3> QED BY <3>1, <3>2
  <2>5. CASE Home
    <3>1. t' = movePos(t, 0) /\ 0 <= Len(t.line)
      BY <1>2, <2>5 DEF Home, Edit
    <3> QED BY <3>1
  <2>6. CASE End
    <3>1. t' = movePos(t, Len(t.line)) /\ Len(t.line) <= Len(t.line)
      BY <1>2, <2>6 DEF End, Edit
    <3> QED BY <1>2, <3>1
  <2> QED BY <2>1, <2>2, <2>3, <2>4, <2>5, <2>6
<1>4. Edited(t, movePos(t, pos), t.line)
  BY <1>1, <1>3, MovePosEdits
<1> QED BY <1>3, <1>4

(* The keys that type a character.                                         *)
LEMMA TypeEdits ==
  ASSUME TInv, TypeKey
  PROVE  \E line \in Lines : Edited(t, t', line)
<1>1. reading /\ (Echoed(t) \/ Hidden(t)) /\ typist.chars \subseteq Glyphs /\ t.line \in Lines
  BY DEF TInv, DisplayInv, TypistInv, TypeKey, HandlesKey
<1>2. PICK c \in typist.chars : t' = addKeyToLine(t, c)
  BY DEF TypeKey, Edit
<1> DEFINE line == Inserted(t, c)
<1>3. Edited(t, addKeyToLine(t, c), line) /\ line \in Seq(Glyphs) /\ Len(line) = Len(t.line) + 1
  BY <1>1, AddEdits
<1>4. t.line \in Seq(Glyphs) /\ Len(t.line) < maxLineLength /\ maxLineLength \in Nat
  BY <1>1, InLines, ConstAssumption DEF TypeKey
<1> HIDE DEF line
<1>5. Len(line) <= maxLineLength
  <2>1. Len(t.line) \in Nat
    BY <1>4
  <2> QED BY <1>3, <1>4, <2>1
<1>6. line \in Lines
  BY <1>3, <1>5, InLines
<1> QED BY <1>2, <1>3, <1>6

(* The key that clears the screen.                                         *)
LEMMA ClearScreenEdits ==
  ASSUME TInv, ClearScreen
  PROVE  Edited(t, t', t.line)
<1>1. reading /\ (Echoed(t) \/ Hidden(t))
  BY DEF TInv, DisplayInv, ClearScreen, Pressed, HandlesKey
<1> DEFINE c == [t EXCEPT !.scr = BlankScreen, !.px = 0, !.py = 0, !.pend = FALSE,
                          !.cursorX = 0, !.cursorY = 0]
<1>2. t' = setLine(advanceCursor(queue(c, t.prompt), Len(t.prompt)), t.line, t.pos)
  BY DEF ClearScreen, Edit
<1>3. Edited(t, setLine(advanceCursor(queue(c, t.prompt), Len(t.prompt)), t.line, t.pos), t.line)
  BY <1>1, ClearEdits, Zenon
<1> QED BY <1>2, <1>3

(* All of them leave the history and the completion alone.                 *)
LEMMA KeyKeeps ==
  ASSUME TInv, NEW line \in Lines, Edited(t, t', line), reading,
         UNCHANGED <<typist, reading, panic, ring, recall, completion>>
  PROVE  TInv'
<1>1. UNCHANGED <<typist, reading>> /\ completion' = completion
  OBVIOUS
<1>2. DisplayInv' /\ TypistInv' /\ CompletionInv'
  BY <1>1, EditKeeps
<1>3. HistoryInv'
  BY HistoryKept DEF TInv
<1> QED BY <1>2, <1>3 DEF TInv

(* Up and Down show a line of the history.                                 *)
LEMMA RecallKeeps ==
  ASSUME TInv, reading, NEW line \in Lines, Recalled(line)
  PROVE  DisplayInv' /\ TypistInv' /\ CompletionInv' /\ UNCHANGED ring
<1>1. Echoed(t) \/ Hidden(t)
  BY DEF TInv, DisplayInv
<1>2. t' = setLine(t, line, Len(line)) /\ UNCHANGED <<typist, reading>> /\ completion' = completion /\ UNCHANGED ring
  BY DEF Recalled
<1>3. line \in Seq(Glyphs)
  BY InLines
<1>4. Edited(t, t', line)
  BY <1>1, <1>2, <1>3, SetLineEdits
<1> QED BY <1>2, <1>4, EditKeeps

(* The keys that recall a line.                                            *)
LEMMA UpDownKeep ==
  ASSUME TInv, Up \/ Down
  PROVE  TInv'
<1>1. reading
  BY DEF Up, Down, Pressed, HandlesKey
<1>2. /\ RingInv /\ historyPending \in Lines /\ t.line \in Lines
      /\ historyIndex \in Int /\ -1 <= historyIndex /\ historyIndex < size
  BY DEF TInv, HistoryInv, DisplayInv
<1>3. size \in Nat
  BY <1>2, RingAssumption DEF RingInv
<1>4. CASE Up
  <2> DEFINE n == historyIndex + 1
  <2>1. /\ n < size /\ historyIndex' = n /\ Recalled(NthPreviousEntry(n))
        /\ historyPending' = IF historyIndex = -1 THEN t.line ELSE historyPending
    BY <1>4 DEF Up, Previous
  <2>2. n \in Nat /\ n \in Int /\ -1 <= n
    BY <1>2
  <2> HIDE DEF n
  <2>3. NthPreviousEntry(n) \in Lines
    BY <1>2, <2>1, <2>2, PreviousLine
  <2>4. DisplayInv' /\ TypistInv' /\ CompletionInv' /\ UNCHANGED ring
    BY <1>1, <2>1, <2>3, RecallKeeps, SMTT(15)
  <2>5. HistoryInv'
    BY <1>2, <2>1, <2>2, <2>4 DEF HistoryInv, RingInv, ring
  <2> QED BY <2>4, <2>5 DEF TInv
<1>5. CASE Down
  <2> DEFINE n == historyIndex - 1
  <2>1. historyIndex >= 0 /\ historyIndex' = n
    BY <1>5 DEF Down
  <2>2. n \in Int /\ -1 <= n /\ n < size
    BY <1>2, <1>3, <2>1
  <2>3. DisplayInv' /\ TypistInv' /\ CompletionInv' /\ UNCHANGED ring /\ historyPending' \in Lines
    <3>1. CASE historyIndex = 0
      <4>1. Recalled(historyPending) /\ historyPending' = <<>>
        BY <1>5, <3>1 DEF Down
      <4> QED BY <1>1, <1>2, <4>1, RecallKeeps, EmptyLine
    <3>2. CASE historyIndex # 0
      <4>1. Recalled(NthPreviousEntry(n)) /\ historyPending' = historyPending
        BY <1>5, <3>2 DEF Down
      <4>2. n \in Nat
        BY <1>2, <2>1, <3>2
      <4> HIDE DEF n
      <4>3. NthPreviousEntry(n) \in Lines
        BY <1>2, <2>2, <4>2, PreviousLine, SMTT(15)
      <4>4. DisplayInv' /\ TypistInv' /\ CompletionInv' /\ UNCHANGED ring
        BY <1>1, <4>1, <4>3, RecallKeeps, SMTT(15)
      <4> QED BY <1>2, <4>1, <4>4
    <3> QED BY <3>1, <3>2
  <2> HIDE DEF n
  <2>4. HistoryInv'
    BY <1>2, <2>1, <2>2, <2>3 DEF HistoryInv, RingInv, ring
  <2> QED BY <2>3, <2>4 DEF TInv
<1> QED BY <1>4, <1>5

(* The return key, and Ctrl-C.                                             *)
LEMMA EnterKeeps ==
  ASSUME TInv, Enter \/ CtrlC
  PROVE  TInv'
<1>1. reading /\ completion = {} /\ \E line \in Lines : EnterKey(line)
  BY EmptyLine DEF TInv, DisplayInv, Enter, CtrlC, Pressed, HandlesKey
<1>2. PICK line \in Lines : EnterKey(line)
  BY <1>1
<1>3. Echoed(t) \/ Hidden(t)
  BY <1>1 DEF TInv, DisplayInv
<1>4. Origin(t') /\ t'.prompt = t.prompt /\ t'.width = t.width /\ t'.echo = t.echo
  <2> DEFINE q == Scrolled(CrLf(moveCursorToPos(t, Len(t.line))))
             r == [q EXCEPT !.line = <<>>, !.pos = 0, !.cursorX = 0, !.cursorY = 0, !.maxLine = 0]
  <2>1. t' = r
    BY <1>2 DEF EnterKey
  <2>2. Origin(r) /\ r.prompt = t.prompt /\ r.width = t.width /\ r.echo = t.echo
    BY <1>3, EnterShows, Zenon
  <2> HIDE DEF r
  <2> QED BY <2>1, <2>2
<1>5. reading' = FALSE /\ typist' = [typist EXCEPT !.lines = @ - 1] /\ completion' = completion
  BY <1>2 DEF EnterKey
<1>6. TypistInv' /\ typist'.echo = typist.echo
  <2> DEFINE l == typist.lines - 1
             c == typist.chars
             k == typist.keys
             e == typist.echo
             o == typist.lines
  <2>1. typist = [chars |-> c, keys |-> k, lines |-> o, echo |-> e] /\ c \subseteq Glyphs /\ ("tab" \in k => e)
    BY DEF TInv, TypistInv
  <2>2. typist' = [typist EXCEPT !.lines = l]
    BY <1>5
  <2> HIDE DEF l, c, k, e, o
  <2>3. typist' = [chars |-> c, keys |-> k, lines |-> l, echo |-> e]
    BY <2>1, <2>2
  <2>4. typist'.chars = c /\ typist'.keys = k /\ typist'.lines = l /\ typist'.echo = e
    BY <2>3
  <2> QED BY <2>1, <2>3, <2>4 DEF TypistInv, e
<1>7. DisplayInv'
  <2>1. t'.line = <<>>
    BY <1>4 DEF Origin
  <2> QED BY <1>4, <1>5, <1>6, <2>1, EmptyLine, Zenon DEF TInv, DisplayInv
<1>8. CompletionInv'
  BY <1>1, <1>5 DEF CompletionInv
<1>9. HistoryInv'
  <2>1. CASE t.echo
    <3>1. Add(line) /\ historyIndex' = -1 /\ historyPending' = <<>>
      BY <1>2, <2>1 DEF EnterKey
    <3>2. RingInv /\ [RingNext]_ring
      BY <3>1 DEF TInv, HistoryInv, RingNext
    <3>3. RingInv'
      BY <3>2, RingInvNext
    <3>4. size' \in Nat
      BY <3>3, RingAssumption DEF RingInv
    <3>5. -1 \in Int /\ -1 <= -1 /\ -1 < size'
      BY <3>4
    <3> QED BY <3>1, <3>3, <3>5, EmptyLine DEF HistoryInv
  <2>2. CASE ~t.echo
    <3>1. UNCHANGED <<ring, recall>>
      BY <1>2, <2>2 DEF EnterKey
    <3> QED BY <3>1, HistoryKept DEF TInv
  <2> QED BY <2>1, <2>2
<1> QED BY <1>6, <1>7, <1>8, <1>9, SMTT(15) DEF TInv

(* ReadLine shows the prompt, unless it is shown.                          *)
LEMMA ReadKeeps ==
  ASSUME TInv, ReadLine
  PROVE  TInv'
<1>1. /\ ~reading /\ reading' = TRUE /\ t.line = <<>> /\ completion = {} /\ UNCHANGED <<ring, recall>>
      /\ typist' = typist /\ completion' = completion
  BY DEF TInv, DisplayInv, CompletionInv, ReadLine
<1>2. (Echoed(t') \/ Hidden(t')) /\ t'.line = <<>> /\ t'.width = t.width /\ t'.echo = t.echo
  <2>1. CASE t.cursorX = 0 /\ t.cursorY = 0
    <3>1. PICK p \in Prompts : t' = writeLine([t EXCEPT !.prompt = p], p)
      BY <2>1 DEF ReadLine
    <3>2. Origin(t)
      BY <1>1, <2>1, CornerOrigin DEF TInv, DisplayInv
    <3>3. p \in Seq(Glyphs)
      BY TextAssumption
    <3> DEFINE r == writeLine([t EXCEPT !.prompt = p], p)
    <3>4. (IF t.echo THEN Echoed(r) ELSE Hidden(r)) /\ r.line = <<>> /\ r.width = t.width /\ r.echo = t.echo
      BY <3>2, <3>3, PromptShown
    <3> HIDE DEF r
    <3> QED BY <3>1, <3>4 DEF r
  <2>2. CASE ~(t.cursorX = 0 /\ t.cursorY = 0)
    <3>1. t' = t
      BY <2>2 DEF ReadLine
    <3>2. ~Origin(t)
      BY <2>2, ShowsNothing, SMTT(15) DEF Origin
    <3> QED BY <1>1, <3>1, <3>2 DEF TInv, DisplayInv
  <2> QED BY <2>1, <2>2
<1>3. DisplayInv'
  BY <1>1, <1>2, EmptyLine, SMTT(15) DEF TInv, DisplayInv
<1>4. TypistInv'
  BY <1>1 DEF TInv, TypistInv
<1>5. CompletionInv'
  BY <1>1 DEF CompletionInv
<1>6. HistoryInv'
  BY <1>1, HistoryKept DEF TInv
<1> QED BY <1>3, <1>4, <1>5, <1>6 DEF TInv

(* The tab key.                                                            *)
LEMMA CompleteKeeps ==
  ASSUME TInv, Complete
  PROVE  TInv'
<1> DEFINE sugs == FilterPrefix(Suggestions, t.line)
           text == Pretty(sugs, t.width)
           first == t.prompt \o t.line
           rows == <<first>> \o text
           new == LongestCommonPrefix(sugs)
<1>1. /\ reading /\ completion = {} /\ t.line # <<>> /\ sugs # <<>> /\ "tab" \in typist.keys
      /\ UNCHANGED <<typist, reading>> /\ UNCHANGED <<ring, recall>>
  BY DEF Complete, Pressed, HandlesKey
<1>2. Echoed(t) /\ t.echo /\ t.line \in Lines
  BY <1>1 DEF TInv, DisplayInv, TypistInv, Hidden
<1>3. HistoryInv'
  BY <1>1, HistoryKept DEF TInv
<1>4. CASE PrettyPanics(sugs, t.width)
  <2>1. UNCHANGED <<t, completion>>
    BY <1>4 DEF Complete
  <2> QED BY <1>1, <1>3, <2>1, SMTT(15) DEF TInv, DisplayInv, TypistInv, CompletionInv
<1>5. CASE ~PrettyPanics(sugs, t.width)
  <2>1. t' = Write(t, rows) /\ completion' = {new}
    BY <1>5 DEF Complete
  <2>2. t \in Terms /\ t.prompt \in Seq(Glyphs) /\ t.line \in Seq(Glyphs) /\ t.width \in Nat \ {0}
    BY <1>2, DisplayTerms, SMTT(15) DEF Terms
  <2>3. new \in Lines
    BY <1>1, <2>2, CompletionExtends
  <2>4. sugs \in Seq(Lines) /\ \A i \in 1..Len(sugs) : HasPrefix(sugs[i], t.line)
    BY TextAssumption, FilterType
  <2> HIDE DEF sugs, new
  <2>5. Len(sugs) > 0 /\ 1 \in 1..Len(sugs)
    BY <1>1, <2>4
  <2>6. sugs[1] # <<>>
    <3>1. Len(sugs[1]) >= Len(t.line)
      BY <2>4, <2>5 DEF HasPrefix
    <3>2. Len(t.line) > 0
      BY <1>1, <2>2
    <3>3. Len(<<>>) = 0 /\ Len(t.line) \in Nat
      BY <2>2, SMTT(15)
    <3> QED BY <3>1, <3>2, <3>3
  <2>7. text \in Seq(Seq(Glyphs))
    BY <1>5, <2>2, <2>4, <2>5, <2>6, PrettyType
  <2>8. first \in Seq(Glyphs)
    BY <2>2, Concats, SMTT(15)
  <2> HIDE DEF text, first
  <2>9. rows \in Seq(Seq(Glyphs)) /\ Len(rows) > 0 /\ rows[1] = first
    <3> DEFINE one == <<first>>
    <3>1. one \in Seq(Seq(Glyphs)) /\ Len(one) = 1 /\ one[1] = first
      BY <2>8
    <3> HIDE DEF one
    <3>2. one \o text \in Seq(Seq(Glyphs)) /\ Len(one \o text) > 0 /\ (one \o text)[1] = one[1]
      BY <2>7, <3>1
    <3> QED BY <3>1, <3>2 DEF one
  <2> HIDE DEF rows
  <2>10. Edited(t, Write(t, rows), t.line)
    BY <1>2, <2>9, WriteEdits, Zenon DEF first
  <2>11. DisplayInv' /\ TypistInv'
    BY <1>1, <1>2, <2>1, <2>10, EditKeeps
  <2>12. t'.echo = t.echo
    BY <2>1, <2>10 DEF Edited
  <2>13. CompletionInv'
    BY <1>1, <1>2, <2>1, <2>3, <2>12 DEF CompletionInv
  <2> QED BY <1>3, <2>11, <2>13, SMTT(15) DEF TInv
<1> QED BY <1>4, <1>5, SMTT(15)

(* What the callback returned becomes the line.                            *)
LEMMA CompletedKeeps ==
  ASSUME TInv, Completed
  PROVE  TInv'
<1>1. PICK new \in completion : t' = setLine(t, new, Len(new))
  BY DEF Completed
<1>2. UNCHANGED <<typist, reading>> /\ completion' = {} /\ UNCHANGED <<ring, recall>>
  BY DEF Completed
<1>3. reading /\ new \in Lines /\ (Echoed(t) \/ Hidden(t))
  BY <1>1 DEF TInv, CompletionInv, DisplayInv
<1>4. Edited(t, t', new)
  BY <1>1, <1>3, InLines, SetLineEdits, SMTT(15)
<1>5. DisplayInv' /\ TypistInv'
  BY <1>2, <1>3, <1>4, EditKeeps
<1>6. CompletionInv'
  BY <1>2 DEF CompletionInv
<1>7. HistoryInv'
  BY <1>2, HistoryKept DEF TInv
<1> QED BY <1>5, <1>6, <1>7 DEF TInv

(* Ctrl-D on an empty line.                                                *)
LEMMA EndKeeps ==
  ASSUME TInv, EndOfFile
  PROVE  TInv'
<1>1. /\ reading /\ completion = {} /\ t.line = <<>> /\ reading' = FALSE /\ t' = t
      /\ UNCHANGED <<typist, completion>> /\ UNCHANGED <<ring, recall>>
  BY DEF EndOfFile, Pressed, HandlesKey
<1>2. DisplayInv' /\ TypistInv' /\ CompletionInv'
  BY <1>1, Zenon DEF TInv, DisplayInv, TypistInv, CompletionInv
<1>3. HistoryInv'
  BY <1>1, HistoryKept DEF TInv
<1> QED BY <1>2, <1>3 DEF TInv

(* A wider window.                                                         *)
LEMMA SizeKeeps ==
  ASSUME TInv, SetSize
  PROVE  TInv'
<1> DEFINE w == Widths[2]
           wide == [t EXCEPT !.width = w]
           corner == t.line = <<>> /\ t.cursorX = 0 /\ t.cursorY = 0
<1>1. /\ t.echo /\ t.width = Widths[1] /\ UNCHANGED <<typist, reading, completion>> /\ UNCHANGED <<ring, recall>>
      /\ t' = IF corner THEN wide ELSE clearAndRepaintLinePlusNPrevious(wide, t.maxLine)
  BY DEF SetSize, Edit
<1>2. w \in Nat \ {0} /\ t.width <= w
  <2>1. Widths[1] < Widths[2] /\ Widths[1] \in Nat /\ Widths[2] \in Nat \ {0}
    BY Sizes, ConstAssumption
  <2> QED BY <1>1, <2>1
<1>3. Echoed(t) \/ (~reading /\ Origin(t))
  BY <1>1 DEF TInv, DisplayInv, Hidden
<1>4. /\ Echoed(t') \/ (~reading /\ Origin(t'))
      /\ t'.line = t.line /\ t'.width = w /\ t'.echo = t.echo
  <2>1. CASE corner
    <3>1. Origin(t) /\ (reading => Echoed(t) /\ t.prompt = <<>>)
      BY <1>3, <2>1, CornerOrigin
    <3>2. Shows(t, Ink(<<>>), 0)
      BY <3>1 DEF Origin
    <3>3. /\ Shows(wide, Ink(<<>>), 0) /\ wide.line = t.line /\ wide.pos = t.pos
          /\ wide.prompt = t.prompt /\ wide.echo = t.echo /\ wide.width = w
      BY <1>2, <3>2, ResizeNothing
    <3>4. t' = wide
      BY <1>1, <2>1
    <3> HIDE DEF wide
    <3>5. Origin(wide)
      BY <3>1, <3>3 DEF Origin
    <3>6. reading => Echoed(wide)
      <4> SUFFICES ASSUME reading PROVE Echoed(wide)
        OBVIOUS
      <4> DEFINE e == <<>>
      <4>1. wide.prompt = e /\ wide.line = e /\ wide.pos = 0 /\ wide.echo
        BY <1>1, <2>1, <3>1, <3>3 DEF Origin
      <4>2. e \o e = e /\ Len(e) = 0 /\ 0 + 0 = 0 /\ 0 <= 0
        OBVIOUS
      <4>3. 0 < Row(wide.maxLine + 1, wide.width)
        BY <3>3, ShowsFits
      <4>4. Shows(wide, Ink(e), 0)
        BY <3>3
      <4> HIDE DEF e
      <4> QED BY <4>1, <4>2, <4>3, <4>4 DEF Echoed
    <3> QED BY <3>3, <3>4, <3>5, <3>6, SMTT(15)
  <2>2. CASE ~corner
    <3>1. Echoed(t)
      BY <1>3, <2>2, ShowsNothing DEF Origin
    <3> DEFINE r == clearAndRepaintLinePlusNPrevious(wide, t.maxLine)
    <3>2. Edited(wide, r, t.line)
      BY <1>2, <3>1, ResizeEdits
    <3>3. t' = r
      BY <1>1, <2>2
    <3>4. wide.width = w /\ wide.echo = t.echo
      <4>1. t \in Terms
        BY <3>1, DisplayTerms
      <4> QED BY <4>1 DEF Terms
    <3> HIDE DEF r, wide
    <3> QED BY <1>1, <3>2, <3>3, <3>4, Zenon DEF Edited
  <2> QED BY <2>1, <2>2, SMTT(15)
<1>5. DisplayInv' /\ TypistInv' /\ CompletionInv'
  BY <1>1, <1>4, Zenon DEF TInv, DisplayInv, TypistInv, CompletionInv
<1>6. HistoryInv'
  BY <1>1, HistoryKept DEF TInv
<1> QED BY <1>5, <1>6 DEF TInv

(* Every step keeps the invariant.                                         *)
LEMMA InvNext == TInv /\ [Next]_vars => TInv'
<1> SUFFICES ASSUME TInv, [Next]_vars PROVE TInv'
  OBVIOUS
<1>1. t.line \in Lines
  BY DEF TInv, DisplayInv
<1>2. ASSUME NEW line \in Lines, Edited(t, t', line), reading,
             UNCHANGED <<typist, reading, panic, ring, recall, completion>>
      PROVE  TInv'
  BY <1>2, KeyKeeps
<1>3. CASE Backspace \/ DeleteWord \/ CtrlU \/ CtrlD \/ DeleteLine
  <2>1. reading /\ UNCHANGED <<typist, reading, panic, ring, recall, completion>>
    BY <1>3 DEF Backspace, DeleteWord, CtrlU, CtrlD, DeleteLine, Pressed, HandlesKey, Edit
  <2> QED BY <1>2, <1>3, <2>1, ShortenEdits
<1>4. CASE AltLeft \/ AltRight \/ Left \/ Right \/ Home \/ End
  <2>1. reading /\ UNCHANGED <<typist, reading, panic, ring, recall, completion>>
    BY <1>4 DEF AltLeft, AltRight, Left, Right, Home, End, Pressed, HandlesKey, Edit
  <2> QED BY <1>1, <1>2, <1>4, <2>1, MoveEdits
<1>5. CASE TypeKey
  <2>1. reading /\ UNCHANGED <<typist, reading, panic, ring, recall, completion>>
    BY <1>5 DEF TypeKey, HandlesKey, Edit
  <2> QED BY <1>2, <1>5, <2>1, TypeEdits, SMTT(15)
<1>6. CASE ClearScreen
  <2>1. reading /\ UNCHANGED <<typist, reading, panic, ring, recall, completion>>
    BY <1>6 DEF ClearScreen, Pressed, HandlesKey, Edit
  <2> QED BY <1>1, <1>2, <1>6, <2>1, ClearScreenEdits
<1>7. CASE Up \/ Down
  BY <1>7, UpDownKeep
<1>8. CASE Enter \/ CtrlC
  BY <1>8, EnterKeeps
<1>9. CASE ReadLine
  BY <1>9, ReadKeeps
<1>10. CASE EndOfFile
  BY <1>10, EndKeeps
<1>11. CASE Complete
  BY <1>11, CompleteKeeps
<1>12. CASE Completed
  BY <1>12, CompletedKeeps
<1>13. CASE SetSize
  BY <1>13, SizeKeeps
<1>14. CASE UNCHANGED vars
  <2>1. UNCHANGED <<t, typist, reading, completion>> /\ UNCHANGED <<ring, recall>>
    BY <1>14 DEF vars
  <2>2. HistoryInv'
    BY <2>1, HistoryKept DEF TInv
  <2> QED BY <2>1, <2>2 DEF TInv, DisplayInv, TypistInv, CompletionInv
<1> QED BY <1>3, <1>4, <1>5, <1>6, <1>7, <1>8, <1>9, <1>10, <1>11, <1>12, <1>13, <1>14 DEF Next

(* The tape is what the rows of the screen hold, read one after another.   *)
LEMMA CellsRead ==
  ASSUME NEW s \in Terms, NEW str \in Seq(Glyphs), Cells(s, Ink(str)), s.width <= Widths[2],
         NEW i \in 0..(Rows * s.width - 1)
  PROVE  s.scr[i \div s.width][i % s.width] = IF i < Len(str) THEN str[i + 1] ELSE Blank
<1> DEFINE w == s.width
           y == i \div w
           x == i % w
<1>1. w \in Nat \ {0} /\ w \in Nat /\ Rows \in Nat /\ Widths[2] \in Nat \ {0} /\ w <= Widths[2]
  BY Sizes, SMTT(15) DEF Terms
<1>2. Rows * w = Row(Rows, w) /\ Row(Rows, w) \in Nat
  <2>1. Rows * w = Row(Rows, w)
    BY DEF Row
  <2>2. Row(Rows, w) \in Nat
    BY <1>1, RowNat, Zenon
  <2> QED BY <2>1, <2>2
<1>3. i \in Nat /\ i < Row(Rows, w)
  <2> DEFINE n == Rows * w
  <2>1. n \in Nat /\ i \in 0..(n - 1)
    BY <1>2
  <2> HIDE DEF n
  <2>2. i \in Nat /\ i < n
    BY <2>1
  <2> QED BY <1>2, <2>2 DEF n
<1>4. y \in Nat /\ x \in Nat /\ x < w /\ Row(y, w) + x = i
  BY <1>1, <1>3, RowOf, Zenon
<1> HIDE DEF w, y, x
<1>5. y < Rows
  <2>1. Rows <= y => Row(Rows, w) <= Row(y, w)
    BY <1>1, <1>4, RowMono
  <2>2. Row(y, w) \in Nat
    BY <1>1, <1>4, RowNat, SMTT(15)
  <2> QED BY <1>1, <1>2, <1>3, <1>4, <2>1, <2>2
<1>6. y \in 0..(Rows - 1) /\ x \in 0..(Widths[2] - 1)
  BY <1>1, <1>4, <1>5, SMTT(15)
<1>7. s.scr[y][x] = Ink(str)[i]
  BY <1>4, <1>6 DEF Cells, w
<1>8. Ink(str)[i] = IF i < Len(str) THEN str[i + 1] ELSE Blank
  BY <1>3 DEF Ink
<1> QED BY <1>7, <1>8 DEF y, x, w

(* What the invariant says about each cell.                                *)
LEMMA InvShows == TInv => ScreenShowsLine
<1> DEFINE shown == t.prompt \o (IF t.echo THEN t.line ELSE <<>>)
<1> SUFFICES ASSUME TInv, reading
             PROVE  /\ \A i \in 0..(Rows * t.width - 1) :
                         t.scr[i \div t.width][i % t.width] = IF i < Len(shown) THEN shown[i + 1] ELSE Blank
                    /\ t.px = t.cursorX /\ t.py = t.cursorY /\ ~t.pend
                    /\ t.echo => t.cursorY * t.width + t.cursorX = Len(t.prompt) + t.pos
  BY Zenon DEF ScreenShowsLine
<1>1. (Echoed(t) \/ Hidden(t)) /\ t.width \in {Widths[1], Widths[2]}
  BY DEF TInv, DisplayInv
<1>2. t \in Terms /\ t.prompt \in Seq(Glyphs) /\ t.line \in Seq(Glyphs)
  BY <1>1, DisplayTerms
<1>3. t.width <= Widths[2]
  BY <1>1, Sizes, ConstAssumption
<1>4. shown \in Seq(Glyphs) /\ \E at : Shows(t, Ink(shown), at) /\ (t.echo => at = Len(t.prompt) + t.pos)
  <2>1. CASE Echoed(t)
    <3>1. shown = t.prompt \o t.line
      BY <2>1, Zenon DEF Echoed
    <3> HIDE DEF shown
    <3>2. shown \in Seq(Glyphs)
      BY <1>2, <3>1, Concats, Zenon
    <3>3. Shows(t, Ink(shown), Len(t.prompt) + t.pos)
      BY <2>1, <3>1 DEF Echoed
    <3> QED BY <3>2, <3>3
  <2>2. CASE Hidden(t)
    <3>1. shown = t.prompt /\ ~t.echo
      <4>1. ~t.echo
        BY <2>2 DEF Hidden
      <4>2. t.prompt \o <<>> = t.prompt
        BY <1>2
      <4> QED BY <4>1, <4>2
    <3> HIDE DEF shown
    <3> QED BY <1>2, <2>2, <3>1 DEF Hidden
  <2> QED BY <1>1, <2>1, <2>2, Zenon
<1> HIDE DEF shown
<1>5. PICK at : Shows(t, Ink(shown), at) /\ (t.echo => at = Len(t.prompt) + t.pos)
  BY <1>4
<1>6. Cells(t, Ink(shown)) /\ t.px = t.cursorX /\ t.py = t.cursorY /\ ~t.pend
  BY <1>5 DEF Shows, Synced, View
<1>7. at = t.cursorY * t.width + t.cursorX
  BY <1>5, SyncedAt, SMTT(15) DEF Shows, AtCursor, Row
<1>8. \A i \in 0..(Rows * t.width - 1) :
        t.scr[i \div t.width][i % t.width] = IF i < Len(shown) THEN shown[i + 1] ELSE Blank
  BY <1>2, <1>3, <1>4, <1>6, CellsRead
<1> QED BY <1>5, <1>6, <1>7, <1>8, Zenon DEF shown

(* After every key the screen shows the prompt and the line and nothing    *)
(* else, and its cursor is where the editor believes it to be: for every   *)
(* width, prompt, history and list of host names, and lines of any length. *)
THEOREM ScreenCorrect == Spec => []ScreenShowsLine
<1> QED BY InvInit, InvNext, InvShows, PTL DEF Spec

(* A key adds to the history a line of the editor, or nothing.             *)
LEMMA KeyAddsLine == TInv /\ [Next]_vars => [RingNext]_ring
<1> SUFFICES ASSUME TInv, [Next]_vars PROVE RingNext \/ UNCHANGED ring
  OBVIOUS
<1>1. ASSUME NEW line \in Lines, EnterKey(line) PROVE RingNext \/ UNCHANGED ring
  BY <1>1 DEF EnterKey, RingNext
<1>2. CASE Enter
  <2>1. t.line \in Lines
    BY DEF TInv, DisplayInv
  <2> QED BY <1>1, <1>2, <2>1 DEF Enter
<1>3. CASE CtrlC
  BY <1>1, <1>3, EmptyLine DEF CtrlC
<1>4. CASE Up \/ Down
  <2>1. \E line : Recalled(line)
    BY <1>4, SMTT(15) DEF Up, Down
  <2> QED BY <2>1 DEF Recalled
<1>5. Enter \/ CtrlC \/ Up \/ Down \/ UNCHANGED ring
  BY DEF Next, ReadLine, TypeKey, EndOfFile, Backspace, DeleteWord, DeleteLine, CtrlU, CtrlD,
       AltLeft, AltRight, Left, Right, Home, End, ClearScreen, Complete, Completed, SetSize, Edit, vars
<1> QED BY <1>2, <1>3, <1>4, <1>5

(* What the arrow keys offer is what was entered: in the editor, too, the  *)
(* ring is the list of the latest lines, for any number of entries and any *)
(* keys in between.                                                        *)
THEOREM EditorHistory == Spec => HistoryIsLatest
<1>1. Init => RingInit
  BY DEF Init
<1>2. Spec => RingSpec
  BY <1>1, InvInit, InvNext, KeyAddsLine, PTL DEF Spec, RingSpec
<1> QED BY <1>2, RingImplementsList, PTL

=============================================================================
