-------------------------------- MODULE Menu --------------------------------
(***************************************************************************)
(* The interactive menu of a user: the loop of Dispatch                    *)
(* (handler/dispatch.go) and the goroutine checkMaxIdleTime                *)
(* (handler/interactive.go) that ends the session of a user who types      *)
(* nothing.  They meet on an unbuffered channel, checkChan: true starts    *)
(* the clock before a prompt, false stops it while a command runs.         *)
(*                                                                         *)
(* The ticker's channel holds one tick, and Reset does not drain it.  What *)
(* a command does with the list of assets is in AssetList; here it matters *)
(* when a command asks for input, waits for a confirmation or connects to  *)
(* an asset.  AdminSystem (handler/admin.go) is the same loop, whose       *)
(* commands ask for nothing.                                               *)
(***************************************************************************)
EXTENDS Naturals

VARIABLES
  dispatch,     \* where Dispatch is, see Busy
  single,       \* the user has just one asset, which is opened at once
  checker,      \* "select" or "gone"
  checkStatus,  \* the clock runs
  tick,         \* a tick is in the ticker's channel
  client,       \* "here", "closed" (its channel), "lost" (ctx is done) or "gone" (both)
  sessClosed    \* sess.Close was called by the checker or by Exit

vars == <<dispatch, single, checker, checkStatus, tick, client, sessClosed>>

clock == <<checker, checkStatus, tick>>
ends  == <<client, sessClosed>>

ctxDone    == client \in {"lost", "gone"}
chanClosed == client \in {"closed", "gone"}

Prompts == {"read", "ask"}
Busy == {"command", "ask", "confirm", "confirmed", "connect", "bridge", "bridged"}

Init ==
  /\ dispatch = "choose" /\ single \in BOOLEAN
  /\ checker = "select" /\ checkStatus = TRUE
  /\ tick = FALSE
  /\ client = "here" /\ sessClosed = FALSE

-----------------------------------------------------------------------------
(* Dispatch.  A user with one asset never sees the menu.                   *)
HasJustOneAsset ==
  /\ dispatch = "choose"
  /\ dispatch' = IF single THEN "take" ELSE "offer"
  /\ UNCHANGED <<single, clock, ends>>

(* Fault: the checker does not take the new status over.                   *)
StartNoClock ==
  /\ dispatch = "offer" /\ checker = "select"
  /\ dispatch' = "read"
  /\ UNCHANGED <<single, checker, checkStatus, tick, ends>>

(* checkChan <- true: both goroutines at once; the checker resets.         *)
StartClock ==
  /\ dispatch = "offer" /\ checker = "select"
  /\ checkStatus' = TRUE
  /\ dispatch' = "read"
  /\ UNCHANGED <<single, checker, tick, ends>>

(* A chunk of input completes a line, or the editor reads on.              *)
ReadLine ==
  /\ dispatch = "read"
  /\ dispatch' \in {"read", "take"}
  /\ UNCHANGED <<single, clock, ends>>

ReadLineFails ==
  /\ dispatch = "read"
  /\ dispatch' = "end"
  /\ UNCHANGED <<single, clock, ends>>

(* Fault: the clock is not stopped for a command.                          *)
StopNoClock ==
  /\ dispatch = "take" /\ checker = "select"
  /\ dispatch' = "command"
  /\ UNCHANGED <<single, checker, checkStatus, tick, ends>>

(* checkChan <- false.                                                     *)
StopClock ==
  /\ dispatch = "take" /\ checker = "select"
  /\ checkStatus' = FALSE
  /\ dispatch' = "command"
  /\ UNCHANGED <<single, checker, tick, ends>>

NextPrompt == IF single THEN "end" ELSE "offer"

(* The command, or Proxy, is over: the loop goes on, or q, quit or exit    *)
(* end it.                                                                 *)
RunCommand ==
  /\ \/ dispatch = "command" /\ dispatch' \in {NextPrompt, "end"}
     \/ dispatch = "connect" /\ dispatch' = NextPrompt
  /\ UNCHANGED <<single, clock, ends>>

(* chooseSystemUser: its prompt has no clock.  An answer is completed or   *)
(* not, is wrong and asked again, goes back, or names a system user.       *)
AskSystemUser ==
  /\ dispatch = "command"
  /\ dispatch' = "ask"
  /\ UNCHANGED <<single, clock, ends>>

AnswerSystemUser ==
  /\ dispatch = "ask"
  /\ dispatch' \in {"ask", NextPrompt, "command"}
  /\ UNCHANGED <<single, clock, ends>>

AskFails ==
  /\ dispatch = "ask"
  /\ dispatch' = NextPrompt
  /\ UNCHANGED <<single, clock, ends>>

(* A step of Proxy that gives input to another goroutine, or takes it back.*)
Phase(from, to) ==
  /\ dispatch = from
  /\ dispatch' = to
  /\ UNCHANGED <<single, clock, ends>>

-----------------------------------------------------------------------------
(* checkMaxIdleTime.                                                       *)
TickerFires ==
  /\ checker = "select"
  /\ ~tick
  /\ tick' = TRUE
  /\ UNCHANGED <<dispatch, single, checker, checkStatus, ends>>

TakeTick ==
  /\ checker = "select" /\ tick
  /\ tick' = FALSE
  /\ sessClosed' = (sessClosed \/ checkStatus)
  /\ UNCHANGED <<dispatch, single, checker, checkStatus, client>>

CheckerEnds ==
  /\ checker = "select" /\ ctxDone
  /\ checker' = "gone"
  /\ UNCHANGED <<dispatch, single, checkStatus, tick, ends>>

-----------------------------------------------------------------------------
(* The handler has returned: sess.Exit(0) closes the channel.              *)
Exit ==
  /\ dispatch = "end" /\ ~sessClosed
  /\ sessClosed' = TRUE
  /\ UNCHANGED <<dispatch, single, clock, client>>

(* The client closes its side, by itself or in answer to a close.          *)
ClientCloses ==
  /\ client = "here"
  /\ client' = "closed"
  /\ UNCHANGED <<dispatch, single, clock, sessClosed>>

(* The connection ends.  An error of the network cancels the context first *)
(* (serverConn, ssh/conn.go), and the channels are closed after that.      *)
ConnectionEnds ==
  /\ \/ client = "here" /\ client' = "lost"
     \/ client = "closed" /\ client' = "gone"
  /\ UNCHANGED <<dispatch, single, clock, sessClosed>>

ChannelEnds ==
  /\ client = "lost"
  /\ client' = "gone"
  /\ UNCHANGED <<dispatch, single, clock, sessClosed>>

-----------------------------------------------------------------------------
Dispatch == HasJustOneAsset \/ StartClock \/ StopClock \/ RunCommand \/ Exit

Checker == TickerFires \/ TakeTick \/ CheckerEnds
=============================================================================
