------------------------------ MODULE Terminal ------------------------------
(***************************************************************************)
(* The line editor (common/terminal.go) and the screen it writes to.  The  *)
(* editor keeps the line, the cursor's place in it, and where it believes  *)
(* the cursor of the screen to be; a key changes the line and sends        *)
(* characters and escape sequences that bring the screen up to date.       *)
(*                                                                         *)
(* The screen is a VT100: a character in the last column leaves the cursor *)
(* there, and the next one wraps first (pend).  Row 0 is the row where the *)
(* prompt starts.  t is the state of both; the operators that take a t     *)
(* return the t after a method of the code.  Glyphs are one column wide.   *)
(***************************************************************************)
EXTENDS Integers, RingBuffer

CONSTANTS
  Glyphs,         \* what a column can show
  Typists,        \* users: [chars, keys, lines, echo], see MCTerminal
  Prompts,        \* prompts the menu sets
  Suggestions,    \* sorted host names for the completion
  Widths,         \* <<width of the terminal, width after a resize>>
  Rows,           \* bound: rows of the screen the model keeps
  maxLineLength,  \* 4096 in the code
  Gap             \* columns between suggestions, 4 in the code

Blank == " "

ASSUME ConstAssumption ==
  /\ Widths \in Seq(Nat \ {0}) /\ Len(Widths) = 2 /\ Widths[1] < Widths[2]
  /\ Rows \in Nat /\ maxLineLength \in Nat /\ Gap \in Nat

(* Lines are as long as the editor lets them get, and host names no longer *)
(* than that.  Only the menu completes: what it reads is echoed, and its   *)
(* prompts are not empty.                                                  *)
ASSUME TextAssumption ==
  /\ Blank \in Glyphs
  /\ Lines = UNION {[1..n -> Glyphs] : n \in 0..maxLineLength}
  /\ Prompts \subseteq Seq(Glyphs)
  /\ Suggestions \in Seq(Lines)
  /\ \A u \in Typists :
       /\ u = [chars |-> u.chars, keys |-> u.keys, lines |-> u.lines, echo |-> u.echo]
       /\ u.chars \subseteq Glyphs /\ u.lines \in Nat /\ u.echo \in BOOLEAN
       /\ "tab" \in u.keys => u.echo /\ <<>> \notin Prompts

VARIABLES
  t,               \* the editor and the screen
  typist,          \* who types
  reading,         \* in ReadLine (or ReadPassword)
  panic,           \* the process has died
  historyIndex, historyPending,
  completion       \* the line AutoCompleteCallback has returned, or none

recall  == <<historyIndex, historyPending>>
vars == <<t, typist, reading, panic, ring, recall, completion>>

BlankRow == [x \in 0..(Widths[2] - 1) |-> Blank]
BlankScreen == [y \in 0..(Rows - 1) |-> BlankRow]

(* NewTerminal.  The session has told the editor its width.                *)
Init ==
  /\ typist \in Typists
  /\ t = [line |-> <<>>, pos |-> 0, cursorX |-> 0, cursorY |-> 0, maxLine |-> 0,
          width |-> Widths[1], prompt |-> <<>>, echo |-> typist.echo,
          scr |-> BlankScreen, px |-> 0, py |-> 0, pend |-> FALSE]
  /\ reading = FALSE /\ panic = FALSE
  /\ RingInit
  /\ historyIndex = -1 /\ historyPending = <<>>
  /\ completion = {}

-----------------------------------------------------------------------------
(* The screen.                                                             *)

Wrapped(s) == IF s.pend THEN [s EXCEPT !.px = 0, !.py = @ + 1, !.pend = FALSE] ELSE s

Put(s, c) ==
  LET w == Wrapped(s)
      d == [w EXCEPT !.scr[w.py][w.px] = c]
  IN IF d.px = d.width - 1 THEN [d EXCEPT !.pend = TRUE] ELSE [d EXCEPT !.px = @ + 1]

(* queue: characters to be shown.                                          *)
queue(s, str) ==
  LET shown[n \in 0..Len(str)] == IF n = 0 THEN s ELSE Put(shown[n - 1], str[n])
  IN shown[Len(str)]

CrLf(s) == [s EXCEPT !.px = 0, !.py = @ + 1, !.pend = FALSE]

(* move: the cursor stops at the right margin.                             *)
move(s, up, down, left, right) ==
  IF up + down + left + right = 0 THEN s
  ELSE [s EXCEPT !.py = @ + down - up, !.pend = FALSE,
                 !.px = IF @ + right - left < s.width THEN @ + right - left ELSE s.width - 1]

clearLineToRight(s) ==
  [s EXCEPT !.scr[s.py] = [x \in DOMAIN @ |-> IF x < s.px THEN @[x] ELSE Blank]]

(* What was above the cursor's row is of no interest any more.             *)
Scrolled(s) ==
  [s EXCEPT !.py = 0,
            !.scr = [y \in DOMAIN @ |-> IF y + s.py < Rows THEN @[y + s.py] ELSE BlankRow]]

-----------------------------------------------------------------------------
(* Writing and moving in the line.                                         *)

(* Fault: no new line is sent at the right margin.                         *)
advanceCursorNoCrLf(s, places) ==
  LET x == s.cursorX + places
      y == s.cursorY + x \div s.width
  IN [s EXCEPT !.cursorX = x % s.width, !.cursorY = y,
               !.maxLine = IF y > @ THEN y ELSE @]

advanceCursor(s, places) ==
  LET x == s.cursorX + places
      y == s.cursorY + x \div s.width
      a == [s EXCEPT !.cursorX = x % s.width, !.cursorY = y,
                     !.maxLine = IF y > @ THEN y ELSE @]
  IN IF places > 0 /\ a.cursorX = 0 THEN CrLf(a) ELSE a

(* One round of writeLine's loop: what fits in the row.                    *)
WriteRow(a) ==
  LET room == a.term.width - a.term.cursorX
      todo == IF Len(a.left) > room THEN room ELSE Len(a.left)
  IN IF a.left = <<>> THEN a
     ELSE [term |-> advanceCursor(queue(a.term, SubSeq(a.left, 1, todo)), todo),
           left |-> SubSeq(a.left, todo + 1, Len(a.left))]

writeLine(s, str) ==
  LET after[n \in 0..Len(str)] ==
        IF n = 0 THEN [term |-> s, left |-> str] ELSE WriteRow(after[n - 1])
  IN after[Len(str)].term

Over(a, b) == IF a > b THEN a - b ELSE 0

moveCursorToPos(s, pos) ==
  LET x == (Len(s.prompt) + pos) % s.width
      y == (Len(s.prompt) + pos) \div s.width
  IN IF ~s.echo THEN s
     ELSE move([s EXCEPT !.cursorX = x, !.cursorY = y],
               Over(s.cursorY, y), Over(y, s.cursorY), Over(s.cursorX, x), Over(x, s.cursorX))

Spaces(n) == [i \in 1..n |-> Blank]

(* The loops of setLine and of keyDeleteLine: n times a space, one by one. *)
wipe(s, n) ==
  LET after[i \in 0..n] ==
        IF i = 0 THEN s ELSE advanceCursor(queue(after[i - 1], Spaces(1)), 1)
  IN after[n]

setLine(s, newLine, newPos) ==
  LET shown == writeLine(moveCursorToPos(s, 0), newLine)
      wiped == wipe(shown, Over(Len(s.line), Len(newLine)))
  IN [(IF s.echo THEN moveCursorToPos(wiped, newPos) ELSE s) EXCEPT
        !.line = newLine, !.pos = newPos]

eraseNPreviousChars(s, count) ==
  LET n == IF s.pos < count THEN s.pos ELSE count
      p == s.pos - n
      m == [moveCursorToPos(s, p) EXCEPT
              !.pos = p,
              !.line = SubSeq(@, 1, p) \o SubSeq(@, s.pos + 1, Len(@))]
      w == writeLine(m, SubSeq(m.line, p + 1, Len(m.line)))
  IN IF n = 0 THEN s
     ELSE IF ~s.echo THEN m
     ELSE moveCursorToPos(advanceCursor(queue(w, Spaces(n)), n), p)

addKeyToLine(s, key) ==
  LET a == [s EXCEPT !.line = SubSeq(@, 1, s.pos) \o <<key>> \o SubSeq(@, s.pos + 1, Len(@))]
      w == IF s.echo THEN writeLine(a, SubSeq(a.line, s.pos + 1, Len(a.line))) ELSE a
  IN moveCursorToPos([w EXCEPT !.pos = @ + 1], s.pos + 1)

movePos(s, pos) == moveCursorToPos([s EXCEPT !.pos = pos], pos)

(* The start of the word before the cursor, and of the one after it.       *)
IsSpace(i) == t.line[i + 1] = Blank

leftWord ==
  LET skip == {p \in 1..(t.pos - 1) : ~IsSpace(p)}
      last == IF skip = {} THEN 0 ELSE CHOOSE p \in skip : \A q \in skip : q <= p
      gaps == {p \in 1..last : IsSpace(p)}
  IN IF gaps = {} THEN 0 ELSE 1 + CHOOSE p \in gaps : \A q \in gaps : q <= p

First(S) == CHOOSE p \in S : \A q \in S : p <= q

rightWord ==
  LET len == Len(t.line)
      gap == First({len} \union {p \in t.pos..(len - 1) : IsSpace(p)})
  IN First({len} \union {p \in gap..(len - 1) : ~IsSpace(p)})

-----------------------------------------------------------------------------
(* ReadLine and ReadPassword.  A prompt is shown unless one is.            *)
ReadLine ==
  /\ ~reading /\ ~panic
  /\ reading' = TRUE
  /\ IF t.cursorX = 0 /\ t.cursorY = 0
       THEN \E p \in Prompts : t' = writeLine([t EXCEPT !.prompt = p], p)
       ELSE UNCHANGED t
  /\ UNCHANGED <<typist, panic, ring, recall, completion>>

HandlesKey == reading /\ ~panic /\ completion = {}
Pressed(key) == HandlesKey /\ key \in typist.keys

Edit(s) ==
  /\ t' = s
  /\ UNCHANGED <<typist, reading, panic, ring, recall, completion>>

Backspace  == Pressed("backspace") /\ t.pos > 0 /\ Edit(eraseNPreviousChars(t, 1))
AltLeft    == Pressed("altLeft") /\ Edit(movePos(t, IF t.pos = 0 THEN 0 ELSE leftWord))
AltRight   == Pressed("altRight") /\ Edit(movePos(t, rightWord))
Left       == Pressed("left") /\ t.pos > 0 /\ Edit(movePos(t, t.pos - 1))
Right      == Pressed("right") /\ t.pos < Len(t.line) /\ Edit(movePos(t, t.pos + 1))
Home       == Pressed("home") /\ t.pos > 0 /\ Edit(movePos(t, 0))
End        == Pressed("end") /\ t.pos < Len(t.line) /\ Edit(movePos(t, Len(t.line)))
DeleteWord ==
  /\ Pressed("deleteWord")
  /\ Edit(eraseNPreviousChars(t, IF t.pos = 0 THEN 0 ELSE t.pos - leftWord))
CtrlU      == Pressed("ctrlU") /\ Edit(eraseNPreviousChars(t, t.pos))
CtrlD ==
  /\ Pressed("ctrlD") /\ t.pos < Len(t.line)
  /\ Edit(eraseNPreviousChars([t EXCEPT !.pos = @ + 1], 1))

(* On an empty line it ends ReadLine with io.EOF.                          *)
EndOfFile ==
  /\ Pressed("ctrlD") /\ t.line = <<>>
  /\ reading' = FALSE
  /\ UNCHANGED <<t, typist, panic, ring, recall, completion>>

(* Without echo the blanks move the cursor on and it stays there: Rows     *)
(* bounds how often.                                                       *)
DeleteLine ==
  LET wiped == wipe(t, Len(t.line) - t.pos)
  IN /\ Pressed("deleteLine") /\ wiped.py < Rows - 1
     /\ Edit(moveCursorToPos([wiped EXCEPT !.line = SubSeq(@, 1, t.pos)], t.pos))

ClearScreen ==
  LET cleared == [t EXCEPT !.scr = BlankScreen, !.px = 0, !.py = 0, !.pend = FALSE,
                           !.cursorX = 0, !.cursorY = 0]
  IN /\ Pressed("clearScreen")
     /\ Edit(setLine(advanceCursor(queue(cleared, t.prompt), Len(t.prompt)), t.line, t.pos))

TypeKey ==
  /\ HandlesKey /\ Len(t.line) < maxLineLength
  /\ \E c \in typist.chars : Edit(addKeyToLine(t, c))

(* Enter, or Ctrl-C, which returns an empty line.  Lines that were echoed  *)
(* go into the history.                                                    *)
EnterKey(line) ==
  LET s == Scrolled(CrLf(moveCursorToPos(t, Len(t.line))))
  IN /\ t' = [s EXCEPT !.line = <<>>, !.pos = 0, !.cursorX = 0, !.cursorY = 0, !.maxLine = 0]
     /\ reading' = FALSE
     /\ IF t.echo
          THEN /\ Add(line) /\ historyIndex' = -1 /\ historyPending' = <<>>
          ELSE UNCHANGED <<ring, recall>>
     /\ typist' = [typist EXCEPT !.lines = @ - 1]
     /\ UNCHANGED <<panic, completion>>

Enter == Pressed("enter") /\ typist.lines > 0 /\ EnterKey(t.line)
CtrlC == Pressed("ctrlC") /\ typist.lines > 0 /\ EnterKey(<<>>)

Recalled(line) ==
  /\ t' = setLine(t, line, Len(line))
  /\ UNCHANGED <<typist, reading, panic, ring, completion>>

Up ==
  /\ Pressed("up") /\ Previous(historyIndex + 1)
  /\ historyPending' = IF historyIndex = -1 THEN t.line ELSE historyPending
  /\ historyIndex' = historyIndex + 1
  /\ Recalled(NthPreviousEntry(historyIndex + 1))

(* historyPending has no meaning once historyIndex is -1.                  *)
Down ==
  /\ Pressed("down") /\ historyIndex >= 0
  /\ historyIndex' = historyIndex - 1
  /\ IF historyIndex = 0
       THEN Recalled(historyPending) /\ historyPending' = <<>>
       ELSE Recalled(NthPreviousEntry(historyIndex - 1)) /\ UNCHANGED historyPending

-----------------------------------------------------------------------------
(* Write, to a terminal with a prompt: the rows above the cursor are       *)
(* cleared, the text is shown, then prompt and line again.                 *)
RowUp(s) == clearLineToRight([move(s, 1, 0, 0, 0) EXCEPT !.cursorY = @ - 1])

ClearUp(s) ==
  LET after[n \in 0..s.cursorY] == IF n = 0 THEN s ELSE RowUp(after[n - 1])
  IN after[s.cursorY]

writeWithCRLF(s, rows) ==
  LET after[n \in 0..Len(rows)] ==
        IF n = 0 THEN s ELSE CrLf(queue(after[n - 1], rows[n]))
  IN after[Len(rows)]

Write(s, rows) ==
  LET home == clearLineToRight([move(s, 0, 0, s.cursorX, 0) EXCEPT !.cursorX = 0])
      text == Scrolled(writeWithCRLF(ClearUp(home), rows))
      line == writeLine(writeLine(text, s.prompt), IF s.echo THEN s.line ELSE <<>>)
  IN moveCursorToPos(line, s.pos)

(* The callback AutoCompletion installs for the tab key.                   *)
HasPrefix(str, line) == Len(str) >= Len(line) /\ SubSeq(str, 1, Len(line)) = line

FilterStep(r, str, line) == IF HasPrefix(str, line) THEN Append(r, str) ELSE r

FilterPrefix(strs, line) ==
  LET after[n \in 0..Len(strs)] ==
        IF n = 0 THEN <<>> ELSE FilterStep(after[n - 1], strs[n], line)
  IN after[Len(strs)]

(* LongestCommonPrefix: a binary search for how long it is.                *)
isCommonPrefix(strs, length) ==
  \A i \in 1..Len(strs) : SubSeq(strs[i], 1, length) = SubSeq(strs[1], 1, length)

Bisect(strs, a) ==
  LET mid == (a.high - a.low + 1) \div 2 + a.low
  IN IF a.low >= a.high THEN a
     ELSE IF isCommonPrefix(strs, mid) THEN [a EXCEPT !.low = mid]
     ELSE [a EXCEPT !.high = mid - 1]

minLength(strs) == First({Len(strs[i]) : i \in 1..Len(strs)})

LongestCommonPrefix(strs) ==
  LET after[n \in 0..minLength(strs)] ==
        IF n = 0 THEN [low |-> 0, high |-> minLength(strs)] ELSE Bisect(strs, after[n - 1])
  IN SubSeq(strs[1], 1, after[minLength(strs)].low)

(* Pretty: cells of one size, as many in a row as fit.  With none that     *)
(* fits, the second suggestion is a division by zero.                      *)
Cell(strs) == Gap + Len(strs[CHOOSE i \in 1..Len(strs) : \A j \in 1..Len(strs) : Len(strs[j]) <= Len(strs[i])])

PrettyPanics(strs, width) == Len(strs) > 1 /\ width \div Cell(strs) = 0

Pretty(strs, width) ==
  LET cell   == Cell(strs)
      perRow == IF Len(strs) = 1 THEN 1 ELSE width \div cell
      inRow(r)   == First({perRow, Len(strs) - (r - 1) * perRow})
      at(r, x)   == strs[(r - 1) * perRow + (x - 1) \div cell + 1]
      char(r, x) == LET k == (x - 1) % cell
                    IN IF k < Len(at(r, x)) THEN at(r, x)[k + 1] ELSE Blank
  IN [r \in 1..((Len(strs) - 1) \div perRow + 1) |->
        [x \in 1..(inRow(r) * cell) |-> char(r, x)]]

(* The callback runs without the lock and writes the suggestions below a   *)
(* copy of the line ...                                                    *)
Complete ==
  LET sugs == FilterPrefix(Suggestions, t.line)
      rows == <<t.prompt \o t.line>> \o Pretty(sugs, t.width)
  IN /\ Pressed("tab") /\ t.line # <<>> /\ sugs # <<>>
     /\ IF PrettyPanics(sugs, t.width)
          THEN panic' = TRUE /\ UNCHANGED <<t, completion>>
          ELSE t' = Write(t, rows) /\ completion' = {LongestCommonPrefix(sugs)} /\ UNCHANGED panic
     /\ UNCHANGED <<typist, reading, ring, recall>>

(* ... and handleKey, with the lock again, takes over what it returned.    *)
Completed ==
  /\ ~panic
  /\ \E newLine \in completion : t' = setLine(t, newLine, Len(newLine))
  /\ completion' = {}
  /\ UNCHANGED <<typist, reading, panic, ring, recall>>

-----------------------------------------------------------------------------
(* SetSize, by the goroutine that watches the window, for the menu's       *)
(* editor.  A screen that gets wider keeps its rows.                       *)
RowDown(s) == clearLineToRight([move(s, 0, 1, 0, 0) EXCEPT !.cursorY = @ + 1])

ClearDown(s, rows) ==
  LET after[n \in 0..rows] == IF n = 0 THEN s ELSE RowDown(after[n - 1])
  IN after[rows]

clearAndRepaintLinePlusNPrevious(s, rows) ==
  LET top == clearLineToRight(
               [move(s, s.cursorY, 0, s.cursorX, 0) EXCEPT !.cursorX = 0, !.cursorY = 0])
      low == ClearDown(top, rows)
      origin == [move(low, low.cursorY, 0, 0, 0) EXCEPT !.cursorX = 0, !.cursorY = 0]
      prompt == advanceCursor(queue(origin, s.prompt), Len(s.prompt))
  IN moveCursorToPos(writeLine(prompt, s.line), s.pos)

SetSize ==
  LET wide == [t EXCEPT !.width = Widths[2]]
  IN /\ t.echo /\ ~panic /\ "resize" \in typist.keys /\ t.width = Widths[1]
     /\ Edit(IF t.line = <<>> /\ t.cursorX = 0 /\ t.cursorY = 0 THEN wide
             ELSE clearAndRepaintLinePlusNPrevious(wide, t.maxLine))

-----------------------------------------------------------------------------
Next ==
  \/ ReadLine \/ TypeKey \/ Enter \/ CtrlC \/ EndOfFile
  \/ Backspace \/ DeleteWord \/ DeleteLine \/ CtrlU \/ CtrlD
  \/ AltLeft \/ AltRight \/ Left \/ Right \/ Home \/ End
  \/ ClearScreen \/ Up \/ Down \/ Complete \/ Completed \/ SetSize

Spec == Init /\ [][Next]_vars

-----------------------------------------------------------------------------
(* After every key the screen shows the prompt and the line, and nothing   *)
(* else below the row where the prompt starts; no part of the line is      *)
(* shown without echo.  The screen's cursor is where the editor believes   *)
(* it to be, and that is the cursor's place in the line.                   *)
ScreenShowsLine ==
  LET shown == t.prompt \o (IF t.echo THEN t.line ELSE <<>>)
      cell(i) == t.scr[i \div t.width][i % t.width]
  IN reading =>
       /\ \A i \in 0..(Rows * t.width - 1) :
            cell(i) = IF i < Len(shown) THEN shown[i + 1] ELSE Blank
       /\ t.px = t.cursorX /\ t.py = t.cursorY /\ ~t.pend
       /\ t.echo => t.cursorY * t.width + t.cursorX = Len(t.prompt) + t.pos
=============================================================================
