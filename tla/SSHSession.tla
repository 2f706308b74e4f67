----------------------------- MODULE SSHSession -----------------------------
(***************************************************************************)
(* The requests of one SSH session (ssh/session.go), the handler they      *)
(* start (SessionHandler of server/sshHandler.go), and what becomes of the *)
(* size of the user's window: the request loop puts it into winch,         *)
(* WatchWinSizeChange passes it on to the line editor and, if it is        *)
(* waiting for one, to the Bridge of a connection to an asset.             *)
(*                                                                         *)
(* Windows are numbered in the order the client announces them; 0 is none. *)
(* A refused request changes nothing and is not a step; nor are env,       *)
(* signal, break and agent requests, whose effect nothing in gojump uses,  *)
(* and subsystem, for which gojump has no handler.                         *)
(***************************************************************************)
EXTENDS Naturals, Sequences

CONSTANT MaxWindows   \* bound: sizes the client announces

ASSUME WindowsAssumption == MaxWindows \in Nat

VARIABLES
  loop,         \* handleRequests: "recv", "winch" (it sends a size), "end"
  pty,          \* the size in sess.pty, 0 before a pty-req
  winch,        \* the channel of size 1
  winchClosed,
  handler,      \* SessionHandler: "none", "start", "idle", "open", "select", "busy", "return", "exited"
  direct,       \* the login names an asset (DirectHandler)
  watcher,      \* WatchWinSizeChange: "none", "select", "send", "store", "resize", "gone"
  win,          \* the size the watcher has taken
  currentWin,   \* WrapperSession.currentWin
  termWin,      \* the size of the line editor
  assetWin,     \* the size of the asset's pty
  missed,       \* a size passed by while the asset's connection could not take it
  peer          \* "here", "closed", "lost", "gone", as in Menu

requests == <<loop, pty, winch, winchClosed>>
sizes    == <<win, currentWin, termWin>>
asset    == <<assetWin, missed>>
sessionVars == <<requests, handler, direct, watcher, sizes, asset, peer>>

ctxDone    == peer \in {"lost", "gone"}
chanClosed == peer \in {"closed", "gone"}

(* DefaultSessionHandler accepted the channel.                             *)
SessionInit ==
  /\ loop = "recv" /\ pty = 0 /\ winch = <<>> /\ winchClosed = FALSE
  /\ handler = "none" /\ direct \in BOOLEAN
  /\ watcher = "none" /\ win = 0 /\ currentWin = 0 /\ termWin = 0
  /\ assetWin = 0 /\ missed = FALSE
  /\ peer = "here"

-----------------------------------------------------------------------------
(* handleRequests.                                                         *)
handled == handler # "none"

Shell ==
  /\ loop = "recv" /\ peer = "here"
  /\ ~handled
  /\ handler' = "start"
  /\ UNCHANGED <<requests, direct, watcher, sizes, asset, peer>>

PtyReq ==
  /\ loop = "recv" /\ peer = "here"
  /\ ~handled /\ pty = 0 /\ MaxWindows > 0
  /\ pty' = 1 /\ winch' = <<1>>
  /\ UNCHANGED <<loop, winchClosed, handler, direct, watcher, sizes, asset, peer>>

WindowChange ==
  /\ loop = "recv" /\ peer = "here"
  /\ pty > 0 /\ pty < MaxWindows
  /\ pty' = pty + 1
  /\ loop' = "winch"
  /\ UNCHANGED <<winch, winchClosed, handler, direct, watcher, sizes, asset, peer>>

(* Fault: a full channel is not waited for.                                *)
SendWinchDrops ==
  /\ loop = "winch"
  /\ winch' = IF Len(winch) < 1 THEN Append(winch, pty) ELSE winch
  /\ loop' = "recv"
  /\ UNCHANGED <<pty, winchClosed, handler, direct, watcher, sizes, asset, peer>>

(* sess.winch <- win.                                                      *)
SendWinch ==
  /\ loop = "winch" /\ Len(winch) < 1
  /\ winch' = Append(winch, pty)
  /\ loop' = "recv"
  /\ UNCHANGED <<pty, winchClosed, handler, direct, watcher, sizes, asset, peer>>

(* reqs is closed: the deferred close(sess.winch).                         *)
RequestsEnd ==
  /\ loop = "recv" /\ chanClosed
  /\ loop' = "end"
  /\ winchClosed' = (pty > 0)
  /\ UNCHANGED <<pty, winch, handler, direct, watcher, sizes, asset, peer>>

-----------------------------------------------------------------------------
(* The goroutine of the handler.  Without a pty there is no window (see    *)
(* VSCodeProxy); the asset of a direct login may not exist.                *)
SessionHandler ==
  /\ handler = "start"
  /\ \/ handler' = "return" /\ (pty = 0 \/ direct) /\ UNCHANGED watcher
     \/ pty > 0 /\ handler' = "idle" /\ watcher' = "select"
  /\ UNCHANGED <<requests, direct, sizes, asset, peer>>

(* WrapperSession.Pty.                                                     *)
Pty == IF currentWin = 0 THEN pty ELSE currentWin

(* The asset's pty is requested with the size known now.                   *)
OpenAsset ==
  /\ handler = "idle"
  /\ handler' = "open"
  /\ assetWin' = Pty
  /\ missed' = (watcher = "store")
  /\ UNCHANGED <<requests, direct, watcher, sizes, peer>>

(* Bridge waits in its select, or handles one of its other cases.          *)
BridgeWaits ==
  /\ handler \in {"open", "busy"}
  /\ handler' = "select"
  /\ UNCHANGED <<requests, direct, watcher, sizes, asset, peer>>

BridgeWorks ==
  /\ handler = "select"
  /\ handler' = "busy"
  /\ UNCHANGED <<requests, direct, watcher, sizes, asset, peer>>

(* The connection failed or is over: back to the menu, if there is one.    *)
AssetCloses ==
  /\ handler \in {"open", "busy"}
  /\ handler' = IF direct THEN "return" ELSE "idle"
  /\ UNCHANGED <<requests, direct, watcher, sizes, asset, peer>>

HandlerReturns ==
  /\ handler = "idle"
  /\ handler' = "return"
  /\ UNCHANGED <<requests, direct, watcher, sizes, asset, peer>>

(* sess.Exit(0).                                                           *)
Exit ==
  /\ handler = "return"
  /\ handler' = "exited"
  /\ UNCHANGED <<requests, direct, watcher, sizes, asset, peer>>

-----------------------------------------------------------------------------
(* WatchWinSizeChange.                                                     *)
WatchTakes ==
  /\ watcher = "select" /\ winch # <<>>
  /\ win' = Head(winch) /\ winch' = Tail(winch)
  /\ watcher' = "send"
  /\ UNCHANGED <<loop, pty, winchClosed, handler, direct, currentWin, termWin, asset, peer>>

WatchEnds ==
  /\ watcher = "select"
  /\ ctxDone \/ (winchClosed /\ winch = <<>>)
  /\ watcher' = "gone"
  /\ UNCHANGED <<requests, handler, direct, sizes, asset, peer>>

(* Fault: the send waits for Bridge.                                       *)
SetWinWaits ==
  /\ watcher = "send" /\ handler = "select"
  /\ watcher' = "store"
  /\ assetWin' = win
  /\ UNCHANGED <<requests, handler, direct, sizes, missed, peer>>

(* SetWin: Bridge gets the size only if it waits for one at this moment.   *)
SetWin ==
  /\ watcher = "send"
  /\ watcher' = "store"
  /\ assetWin' = IF handler = "select" THEN win ELSE assetWin
  /\ missed' = (missed \/ handler \in {"open", "busy"})
  /\ UNCHANGED <<requests, handler, direct, sizes, peer>>

StoreWin ==
  /\ watcher = "store"
  /\ watcher' = "resize"
  /\ currentWin' = win
  /\ UNCHANGED <<requests, handler, direct, win, termWin, asset, peer>>

SetSize ==
  /\ watcher = "resize"
  /\ watcher' = "select"
  /\ termWin' = win
  /\ UNCHANGED <<requests, handler, direct, win, currentWin, asset, peer>>

-----------------------------------------------------------------------------
(* The client closes its channel, the connection ends, or both; an error   *)
(* of the network cancels the context before the channels are closed.      *)
ClientLeaves ==
  /\ \/ peer = "here" /\ peer' \in {"closed", "lost"}
     \/ peer = "closed" /\ peer' = "gone"
  /\ UNCHANGED <<requests, handler, direct, watcher, sizes, asset>>

ChannelEnds ==
  /\ peer = "lost" /\ peer' = "gone"
  /\ UNCHANGED <<requests, handler, direct, watcher, sizes, asset>>

-----------------------------------------------------------------------------
Loop    == SendWinch \/ RequestsEnd
Watcher == WatchTakes \/ WatchEnds \/ SetWin \/ StoreWin \/ SetSize
Handler ==
  \/ SessionHandler \/ OpenAsset \/ BridgeWaits \/ BridgeWorks \/ AssetCloses
  \/ HandlerReturns \/ Exit

SessionNext ==
  \/ Shell \/ PtyReq \/ WindowChange \/ Loop \/ Handler \/ Watcher
  \/ ClientLeaves \/ ChannelEnds

SessionSpec == SessionInit /\ [][SessionNext]_sessionVars

(* Goroutines that can run do; the handler starts and exits, and need not  *)
(* do anything else.  Nobody has to send requests or to leave.             *)
SessionFairness ==
  /\ WF_sessionVars(Loop) /\ WF_sessionVars(Watcher)
  /\ WF_sessionVars(ChannelEnds) /\ WF_sessionVars(SessionHandler \/ Exit)

FairSessionSpec == SessionSpec /\ SessionFairness

-----------------------------------------------------------------------------
(* Once every size is passed on, the line editor has the latest one; so    *)
(* has an asset that waits in Bridge, unless a size came while its         *)
(* connection was being opened, between its look at currentWin and the     *)
(* watcher's store, or while Bridge was busy: SetWin does not wait.        *)
WindowFollowed ==
  /\ loop = "recv" /\ winch = <<>> /\ watcher = "select" =>
       termWin = pty /\ currentWin = pty
  /\ handler = "select" /\ watcher = "select" /\ ~missed /\ currentWin > 0 =>
       assetWin = currentWin

(* The request loop ends with the client's channel, unless it holds a size *)
(* that nobody takes any more: the watcher was never started, because the  *)
(* handler failed or a size came before the shell, or has ended first.     *)
RequestLoopEnds ==
  chanClosed ~> \/ loop = "end"
                \/ loop = "winch" /\ winch # <<>> /\ watcher \in {"none", "gone"}
=============================================================================
