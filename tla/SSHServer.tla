----------------------------- MODULE SSHServer -----------------------------
(***************************************************************************)
(* Life and end of the SSH server: Serve, HandleConn, Shutdown and Close   *)
(* of ssh.Server (pkg/ssh/server.go) with one listener, as server.Serve    *)
(* and server.Shutdown (pkg/server/server.go) use it.  Serve runs in its   *)
(* own goroutine, so a shutdown may come at any moment, before the         *)
(* listener is tracked included.                                           *)
(*                                                                         *)
(* Sections under srv.mu are single steps.                                 *)
(***************************************************************************)
EXTENDS Naturals, FiniteSets

CONSTANT Conns   \* network connections clients open

ASSUME ConstAssumption == IsFiniteSet(Conns)

VARIABLES
  serve,         \* the goroutine of Serve
  result,        \* what Serve returns: "none", "ErrServerClosed", "acceptError"
  listenerOpen,  \* the socket
  listening,     \* the listener is in srv.listeners
  listenerWg, connWg,  \* the wait groups
  doneChan,      \* "nil", "open" or "closed"
  conn,          \* HandleConn of each connection
  conns,         \* srv.conns
  shutdown,      \* the caller of Shutdown
  closeCalled,   \* Close was called
  late           \* history: connections in their handshake, or not accepted
                 \* yet, when Shutdown's waiting was over

vars == <<serve, result, listenerOpen, listening, listenerWg, connWg, doneChan,
          conn, conns, shutdown, closeCalled, late>>

serveVars == <<serve, result>>
lnVars    == <<listenerOpen, listening, listenerWg, doneChan>>
connVars  == <<conn, conns, connWg>>
stopVars  == <<shutdown, closeCalled, late>>

Init ==
  /\ serve = "start" /\ result = "none"
  /\ listenerOpen = TRUE /\ listening = FALSE
  /\ listenerWg = 0 /\ connWg = 0 /\ doneChan = "nil"
  /\ conn = [c \in Conns |-> "new"] /\ conns = {}
  /\ shutdown = "no" /\ closeCalled = FALSE /\ late = {}

-----------------------------------------------------------------------------
(* Serve.                                                                  *)

(* trackListener(l, true): an idle server forgets an earlier shutdown.     *)
TrackListener ==
  /\ serve = "start"
  /\ doneChan' = IF ~listening /\ conns = {} THEN "nil" ELSE doneChan
  /\ listening' = TRUE
  /\ listenerWg' = listenerWg + 1
  /\ serve' = "accept"
  /\ UNCHANGED <<result, listenerOpen, connVars, stopVars>>

Accept(c) ==
  /\ serve = "accept" /\ listenerOpen /\ conn[c] = "new"
  /\ conn' = [conn EXCEPT ![c] = "handshake"]
  /\ UNCHANGED <<serveVars, lnVars, conns, connWg, stopVars>>

(* Accept fails, because the listener was closed or for another reason;    *)
(* whether the server was stopped is only looked at in a second step.      *)
AcceptFails ==
  /\ serve = "accept"
  /\ serve' = "error"
  /\ UNCHANGED <<result, lnVars, connVars, stopVars>>

(* getDoneChan creates the channel; a temporary error, which a closed      *)
(* listener does not give, is retried after a delay.                       *)
HandleAcceptError ==
  /\ serve = "error"
  /\ doneChan' = IF doneChan = "nil" THEN "open" ELSE doneChan
  /\ \/ doneChan = "closed" /\ serve' = "untrack" /\ result' = "ErrServerClosed"
     \/ doneChan # "closed" /\ serve' = "untrack" /\ result' = "acceptError"
     \/ doneChan # "closed" /\ listenerOpen /\ serve' = "accept" /\ UNCHANGED result
  /\ UNCHANGED <<listenerOpen, listening, listenerWg, connVars, stopVars>>

(* The deferred trackListener(l, false) and l.Close().                     *)
UntrackListener ==
  /\ serve = "untrack"
  /\ listening' = FALSE
  /\ listenerWg' = listenerWg - 1
  /\ listenerOpen' = FALSE
  /\ serve' = "returned"
  /\ UNCHANGED <<result, doneChan, connVars, stopVars>>

-----------------------------------------------------------------------------
(* HandleConn.                                                             *)

HandshakeFails(c) ==
  /\ conn[c] = "handshake"
  /\ conn' = [conn EXCEPT ![c] = "gone"]
  /\ UNCHANGED <<serveVars, lnVars, conns, connWg, stopVars>>

(* NewServerConn succeeds; only now the connection is tracked.             *)
TrackConn(c) ==
  /\ conn[c] = "handshake"
  /\ conn' = [conn EXCEPT ![c] = "serving"]
  /\ conns' = conns \cup {c}
  /\ connWg' = connWg + 1
  /\ UNCHANGED <<serveVars, lnVars, stopVars>>

(* Fault: Done only for connections still in conns.                        *)
ConnEndsIfTracked(c) ==
  /\ conn[c] = "serving"
  /\ conn' = [conn EXCEPT ![c] = "gone"]
  /\ conns' = conns \ {c}
  /\ connWg' = IF c \in conns THEN connWg - 1 ELSE connWg
  /\ UNCHANGED <<serveVars, lnVars, stopVars>>

(* The connection is closed by either side, or by Close: its channels end. *)
ConnEnds(c) ==
  /\ conn[c] = "serving"
  /\ conn' = [conn EXCEPT ![c] = "gone"]
  /\ conns' = conns \ {c}
  /\ connWg' = connWg - 1
  /\ UNCHANGED <<serveVars, lnVars, stopVars>>

-----------------------------------------------------------------------------
(* Shutdown and Close.                                                     *)

(* Fault: the listener is forgotten without being closed.                  *)
ForgetListeners ==
  /\ listening' = FALSE
  /\ doneChan' = "closed"
  /\ UNCHANGED listenerOpen

(* closeListenersLocked closes the listeners it knows.                     *)
CloseListeners ==
  /\ listenerOpen' = (listenerOpen /\ ~listening)
  /\ listening' = FALSE
  /\ doneChan' = "closed"

Shutdown ==
  /\ shutdown = "no"
  /\ CloseListeners
  /\ shutdown' = "waitListeners"
  /\ UNCHANGED <<serveVars, listenerWg, connVars, closeCalled, late>>

WaitListeners ==
  /\ shutdown = "waitListeners" /\ listenerWg = 0
  /\ shutdown' = "waitConns"
  /\ UNCHANGED <<serveVars, lnVars, connVars, closeCalled, late>>

(* Fault: the connections are not waited for.                              *)
WaitForNoConns ==
  /\ shutdown = "waitConns"
  /\ shutdown' = "finished"
  /\ late' = {c \in Conns : conn[c] \in {"new", "handshake"}}
  /\ UNCHANGED <<serveVars, lnVars, connVars, closeCalled>>

WaitConns ==
  /\ shutdown = "waitConns" /\ connWg = 0
  /\ shutdown' = "finished"
  /\ late' = {c \in Conns : conn[c] \in {"new", "handshake"}}
  /\ UNCHANGED <<serveVars, lnVars, connVars, closeCalled>>

(* The context server.Shutdown passes expires after five seconds.          *)
ShutdownTimesOut ==
  /\ shutdown \in {"waitListeners", "waitConns"}
  /\ shutdown' = "timedOut"
  /\ UNCHANGED <<serveVars, lnVars, connVars, closeCalled, late>>

Close ==
  /\ ~closeCalled /\ closeCalled' = TRUE
  /\ CloseListeners
  /\ conns' = {}
  /\ UNCHANGED <<serveVars, listenerWg, conn, connWg, shutdown, late>>

-----------------------------------------------------------------------------
ServeStep == TrackListener \/ AcceptFails \/ HandleAcceptError \/ UntrackListener

Next ==
  \/ ServeStep
  \/ \E c \in Conns : Accept(c) \/ HandshakeFails(c) \/ TrackConn(c) \/ ConnEnds(c)
  \/ Shutdown \/ WaitListeners \/ WaitConns \/ ShutdownTimesOut \/ Close

Spec == Init /\ [][Next]_vars

(* Serve runs; Accept on a closed listener fails; a connection that Close  *)
(* closed ends; Shutdown's goroutine runs.  Clients need not disconnect.   *)
Fairness ==
  /\ WF_vars(TrackListener \/ HandleAcceptError \/ UntrackListener)
  /\ WF_vars(~listenerOpen /\ AcceptFails)
  /\ WF_vars(WaitListeners) /\ WF_vars(WaitConns)
  /\ \A c \in Conns : WF_vars(closeCalled /\ c \notin conns /\ ConnEnds(c))
  /\ \A c \in Conns : WF_vars(TrackConn(c) \/ HandshakeFails(c))

FairSpec == Spec /\ Fairness

-----------------------------------------------------------------------------
Serving == {c \in Conns : conn[c] = "serving"}

(* The wait groups count what they should, however Close, Shutdown and the *)
(* ends of connections overlap: a connection is counted until its          *)
(* HandleConn returns, also after Close took it out of conns.              *)
WaitGroupsExact ==
  /\ connWg = Cardinality(Serving)
  /\ conns \subseteq Serving
  /\ listenerWg = IF serve \in {"accept", "error", "untrack"} THEN 1 ELSE 0

(* The only connections served after Shutdown returned are ones that were  *)
(* not through their handshake when it did, as HandleConn tracks a         *)
(* connection no earlier.                                                  *)
OnlyHandshakesOutliveShutdown == shutdown = "finished" => Serving \subseteq late

(* Comment of Shutdown: it works by "waiting indefinitely for connections  *)
(* to close" (it returns nil only then).                                   *)
ShutdownWaits ==
  [][shutdown' = "finished" /\ shutdown # "finished" /\ serve = "returned" =>
       \A c \in Conns : conn[c] \in {"new", "gone"}]_vars

(* Once stopped with its listener tracked the server accepts nothing more, *)
(* and Serve returns (ErrServerClosed, or the error it was handling).      *)
StoppedServeReturns ==
  (doneChan = "closed" /\ serve # "start") ~> (serve = "returned" /\ ~listenerOpen)
=============================================================================
