----------------------------- MODULE SSH_proofs -----------------------------
(***************************************************************************)
(* Proofs about the SSH side: the wait groups of the server, for any       *)
(* number of connections; the window sizes of a session, for any number of *)
(* sizes; and the registry of VS Code clients, for any number of           *)
(* connections, sessions and forwards.                                     *)
(***************************************************************************)
EXTENDS SSHServer, SSHSession, VSCodeProxy, FiniteSetTheorems, TLAPS

-----------------------------------------------------------------------------
(* The server.                                                             *)

ServerTypeInv ==
  /\ conn \in [Conns -> {"new", "handshake", "serving", "gone"}]
  /\ conns \in SUBSET Conns
  /\ serve \in {"start", "accept", "error", "untrack", "returned"}
  /\ listenerWg \in Nat /\ connWg \in Nat

(* Who is before its handshake's end after Shutdown returned was so when   *)
(* it returned.                                                            *)
LateKept ==
  shutdown = "finished" => {c \in Conns : conn[c] \in {"new", "handshake"}} \subseteq late

(* The inductive invariant.                                                *)
ServerInv == ServerTypeInv /\ WaitGroupsExact /\ LateKept /\ OnlyHandshakesOutliveShutdown

USE DEF serveVars, lnVars, connVars, stopVars

LEMMA ServingFinite == IsFiniteSet(Serving) /\ IsFiniteSet(Serving')
BY ConstAssumption, FS_Subset DEF Serving

LEMMA ServerInvInit == Init => ServerInv
<1> SUFFICES ASSUME Init PROVE ServerInv
  OBVIOUS
<1>1. Serving = {}
  BY DEF Init, Serving
<1>2. Cardinality(Serving) = 0
  BY <1>1, FS_EmptySet
<1> QED
  BY <1>1, <1>2 DEF Init, ServerInv, ServerTypeInv, WaitGroupsExact, LateKept, OnlyHandshakesOutliveShutdown

(* Steps that leave the connections alone.                                 *)
LEMMA ConnsKept ==
  ASSUME ServerInv, UNCHANGED <<conn, connWg>>
  PROVE  Serving' = Serving /\ Cardinality(Serving') = Cardinality(Serving)
BY DEF Serving

LEMMA ServerInvNext == ServerInv /\ [Next]_vars => ServerInv'
<1> SUFFICES ASSUME ServerInv, [Next]_vars PROVE ServerInv'
  OBVIOUS
<1> USE DEF ServerInv, ServerTypeInv, WaitGroupsExact, LateKept, OnlyHandshakesOutliveShutdown
<1>1. CASE ServeStep
  <2>1. UNCHANGED <<conn, connWg, conns, shutdown, late>>
    BY <1>1 DEF ServeStep, TrackListener, AcceptFails, HandleAcceptError, UntrackListener
  <2>2. /\ serve' \in {"start", "accept", "error", "untrack", "returned"}
        /\ listenerWg' = IF serve' \in {"accept", "error", "untrack"} THEN 1 ELSE 0
    BY <1>1 DEF ServeStep, TrackListener, AcceptFails, HandleAcceptError, UntrackListener
  <2> QED BY <2>1, <2>2, ConnsKept
<1>2. ASSUME NEW c \in Conns, Accept(c) PROVE ServerInv'
  <2>1. Serving' = Serving
    BY <1>2 DEF Accept, Serving
  <2>2. Cardinality(Serving') = Cardinality(Serving)
    BY <2>1
  <2> QED BY <1>2, <2>1, <2>2 DEF Accept
<1>3. ASSUME NEW c \in Conns, HandshakeFails(c) PROVE ServerInv'
  <2>1. Serving' = Serving
    BY <1>3 DEF HandshakeFails, Serving
  <2>2. Cardinality(Serving') = Cardinality(Serving)
    BY <2>1
  <2> QED BY <1>3, <2>1, <2>2 DEF HandshakeFails
<1>4. ASSUME NEW c \in Conns, TrackConn(c) PROVE ServerInv'
  <2>1. Serving' = Serving \cup {c} /\ c \notin Serving
    BY <1>4 DEF TrackConn, Serving
  <2>2. Cardinality(Serving') = Cardinality(Serving) + 1
    BY <2>1, ServingFinite, FS_AddElement
  <2> QED BY <1>4, <2>1, <2>2 DEF TrackConn
<1>5. ASSUME NEW c \in Conns, ConnEnds(c) PROVE ServerInv'
  <2>1. Serving' = Serving \ {c} /\ c \in Serving
    BY <1>5 DEF ConnEnds, Serving
  <2>2. /\ Cardinality(Serving') = Cardinality(Serving) - 1
        /\ Cardinality(Serving') \in Nat
    BY <2>1, ServingFinite, FS_RemoveElement, FS_CardinalityType
  <2> QED BY <1>5, <2>1, <2>2 DEF ConnEnds
<1>6. CASE Shutdown \/ WaitListeners \/ ShutdownTimesOut
  <2>1. /\ UNCHANGED <<conn, connWg, conns, serve, listenerWg>>
        /\ shutdown' # "finished"
    BY <1>6 DEF Shutdown, WaitListeners, ShutdownTimesOut, CloseListeners
  <2> QED BY <2>1, ConnsKept
<1>7. CASE WaitConns
  <2>1. Serving = {}
    BY <1>7, ServingFinite, FS_EmptySet DEF WaitConns
  <2> QED BY <1>7, <2>1, ConnsKept DEF WaitConns
<1>8. CASE Close
  <2>1. UNCHANGED <<conn, connWg, serve, listenerWg, shutdown, late>> /\ conns' = {}
    BY <1>8 DEF Close, CloseListeners
  <2> QED BY <2>1, ConnsKept
<1>9. CASE UNCHANGED vars
  BY <1>9, ConnsKept DEF vars
<1> QED
  BY <1>1, <1>2, <1>3, <1>4, <1>5, <1>6, <1>7, <1>8, <1>9 DEF Next

LEMMA ServerInvHolds == Spec => []ServerInv
BY ServerInvInit, ServerInvNext, PTL DEF Spec

(* connWg and listenerWg count exactly the running HandleConn calls and    *)
(* the listener Serve tracks, whatever Close and Shutdown do meanwhile; so *)
(* Done is never called on a wait group at zero.                           *)
THEOREM WaitGroupsCorrect == Spec => []WaitGroupsExact
BY ServerInvHolds, PTL DEF ServerInv

(* When Shutdown has returned nil, what is served was not through its      *)
(* handshake at that moment (HandleConn tracks a connection only then).    *)
THEOREM ShutdownCorrect == Spec => []OnlyHandshakesOutliveShutdown
BY ServerInvHolds, PTL DEF ServerInv

-----------------------------------------------------------------------------
(* A session.  The inductive invariant follows a size on its way: what is  *)
(* newest in the channel, in the watcher's hand or stored is what the      *)
(* client announced last, unless the request loop still holds that one.    *)
Connected == handler \in {"open", "select", "busy"}

NewestOnItsWay ==
  loop # "winch" =>
    /\ winch # <<>> => winch[1] = pty
    /\ winch = <<>> /\ watcher \in {"send", "store", "resize"} => win = pty
    /\ winch = <<>> /\ watcher = "select" => termWin = pty /\ currentWin = pty

(* An asset that missed no size has the one the watcher has just offered   *)
(* to Bridge or, before and after that, the stored one.                    *)
AssetFollows ==
  Connected /\ ~missed =>
    IF watcher = "store" THEN assetWin = win
                         ELSE currentWin > 0 => assetWin = currentWin

(* The sizes are passed on in the order in which they were announced.      *)
InOrder ==
  /\ termWin <= currentWin /\ currentWin <= win /\ win <= pty
  /\ loop = "winch" => win < pty /\ (winch # <<>> => winch[1] < pty)

WindowInv ==
  /\ pty \in Nat /\ win \in Nat /\ currentWin \in Nat /\ termWin \in Nat
  /\ winch = <<>> \/ \E w \in (win + 1)..pty : winch = <<w>>
  /\ watcher = "none" => (winch = <<>> <=> pty = 0)
  /\ handler \in {"none", "start"} => watcher = "none"
  /\ watcher = "resize" => currentWin = win
  /\ InOrder /\ NewestOnItsWay /\ AssetFollows

(* A later window never gives way to an earlier one: not in the line       *)
(* editor, not in currentWin and, once a size is stored and while none was *)
(* missed, not at the asset.  (WatchWinSizeChange alone takes sizes from   *)
(* winch, and passes each on before it takes the next.)                    *)
SizesInOrder ==
  [][/\ termWin <= termWin' /\ currentWin <= currentWin'
     /\ Connected /\ ~missed /\ currentWin > 0 => assetWin <= assetWin']_sessionVars

USE DEF requests, sizes, asset

LEMMA WindowInvInit == SessionInit => WindowInv
BY DEF SessionInit, WindowInv, InOrder, NewestOnItsWay, AssetFollows, Connected

(* The handler's own steps change neither sizes nor the channel.           *)
LEMMA HandlerKeepsInv ==
  ASSUME WindowInv, Shell \/ Handler \/ ClientLeaves \/ ChannelEnds
  PROVE  WindowInv'
<1> USE DEF WindowInv, InOrder, NewestOnItsWay, AssetFollows, Connected
<1>1. CASE Shell \/ ClientLeaves \/ ChannelEnds
  BY <1>1 DEF Shell, ClientLeaves, ChannelEnds, handled
<1>2. CASE SessionHandler
  BY <1>2 DEF SessionHandler
<1>3. CASE OpenAsset
  <2>1. AssetFollows'
    <3>1. CASE watcher = "store"
      BY <1>3, <3>1 DEF OpenAsset
    <3>2. CASE watcher # "store"
      BY <1>3, <3>2 DEF OpenAsset, Pty
    <3> QED BY <3>1, <3>2
  <2> QED BY <1>3, <2>1 DEF OpenAsset
<1>4. CASE BridgeWaits \/ BridgeWorks \/ AssetCloses \/ HandlerReturns \/ Exit
  BY <1>4 DEF BridgeWaits, BridgeWorks, AssetCloses, HandlerReturns, Exit
<1> QED BY <1>1, <1>2, <1>3, <1>4 DEF Handler

LEMMA WindowInvNext == WindowInv /\ [SessionNext]_sessionVars => WindowInv'
<1> SUFFICES ASSUME WindowInv, [SessionNext]_sessionVars PROVE WindowInv'
  OBVIOUS
<1> USE DEF WindowInv, InOrder, NewestOnItsWay, AssetFollows, Connected
<1>1. CASE PtyReq
  BY <1>1 DEF PtyReq, handled
<1>2. CASE WindowChange
  BY <1>2 DEF WindowChange
<1>3. CASE SendWinch
  <2>1. winch = <<>>
    <3>1. \A w : Len(<<w>>) = 1
      OBVIOUS
    <3> QED BY <1>3, <3>1 DEF SendWinch
  <2>2. winch' = <<pty>>
    BY <1>3, <2>1 DEF SendWinch
  <2> QED BY <1>3, <2>1, <2>2 DEF SendWinch
<1>4. CASE RequestsEnd
  BY <1>4 DEF RequestsEnd
<1>5. CASE WatchTakes
  <2>1. PICK w \in (win + 1)..pty : winch = <<w>>
    BY <1>5 DEF WatchTakes
  <2>2. win' = w /\ winch' = <<>>
    BY <1>5, <2>1 DEF WatchTakes
  <2> QED BY <1>5, <2>1, <2>2 DEF WatchTakes
<1>6. CASE WatchEnds
  BY <1>6 DEF WatchEnds
<1>7. CASE SetWin
  BY <1>7 DEF SetWin
<1>8. CASE StoreWin
  BY <1>8 DEF StoreWin
<1>9. CASE SetSize
  BY <1>9 DEF SetSize
<1>10. CASE UNCHANGED sessionVars
  BY <1>10 DEF sessionVars
<1> QED
  BY <1>1, <1>2, <1>3, <1>4, <1>5, <1>6, <1>7, <1>8, <1>9, <1>10, HandlerKeepsInv
  DEF SessionNext, Loop, Watcher

LEMMA WindowInvHolds == SessionSpec => []WindowInv
BY WindowInvInit, WindowInvNext, PTL DEF SessionSpec

(* Once the request loop and the watcher have nothing in hand, the line    *)
(* editor has the latest size, and so has an asset that missed none        *)
(* (sess.winch holds one size; SetWin does not wait for Bridge).           *)
THEOREM WindowCorrect == SessionSpec => []WindowFollowed
<1>1. WindowInv => WindowFollowed
  BY DEF WindowInv, InOrder, NewestOnItsWay, AssetFollows, Connected, WindowFollowed
<1> QED BY <1>1, WindowInvHolds, PTL

(* The user's windows take effect in their order.                          *)
THEOREM SizesInOrderCorrect == SessionSpec => SizesInOrder
<1> DEFINE Later ==
      /\ termWin <= termWin' /\ currentWin <= currentWin'
      /\ Connected /\ ~missed /\ currentWin > 0 => assetWin <= assetWin'
<1>1. ASSUME WindowInv, [SessionNext]_sessionVars
      PROVE  [Later]_sessionVars
  <2>1. CASE SetWin
    BY <1>1, <2>1 DEF SetWin, WindowInv, InOrder, AssetFollows
  <2>2. CASE StoreWin \/ SetSize
    BY <1>1, <2>2 DEF StoreWin, SetSize, WindowInv, InOrder, AssetFollows
  <2>3. CASE OpenAsset
    BY <1>1, <2>3 DEF OpenAsset, WindowInv, Connected
  <2>4. CASE UNCHANGED <<termWin, currentWin, assetWin>>
    BY <1>1, <2>4 DEF WindowInv, AssetFollows
  <2>5. SetWin \/ StoreWin \/ SetSize \/ OpenAsset \/ UNCHANGED <<termWin, currentWin, assetWin>>
    BY <1>1 DEF SessionNext, Loop, Watcher, Handler, Shell, PtyReq, WindowChange,
         SendWinch, RequestsEnd, SessionHandler, BridgeWaits, BridgeWorks, AssetCloses,
         HandlerReturns, Exit, WatchTakes, WatchEnds, ClientLeaves, ChannelEnds, sessionVars
  <2> QED BY <2>1, <2>2, <2>3, <2>4, <2>5
<1> QED BY <1>1, WindowInvHolds, PTL DEF SizesInOrder, SessionSpec

-----------------------------------------------------------------------------
(* The registry of VS Code clients.                                        *)

Steps == {"new", "shell", "register", "loop", "unregister", "close", "done"}

VSCodeTypeInv ==
  /\ vscodeClients \in [Connections -> Sessions \cup {NoSession}]
  /\ pc \in [Sessions -> Steps]
  /\ client \in [Sessions -> {"none", "open", "closed"}]
  /\ registered \subseteq Sessions

(* A session has an open client from the dial to its last deferred         *)
(* function, and has been in the registry once it is in its loop.          *)
Progress ==
  \A s \in Sessions :
    /\ pc[s] \in {"shell", "register", "loop", "unregister", "close"} => client[s] = "open"
    /\ pc[s] \in {"loop", "unregister"} => s \in registered

(* The inductive invariant of VSCodeProxy.                                 *)
VSCodeInv == VSCodeTypeInv /\ Progress /\ RegisteredIsLive /\ SoleSessionForwards

USE VSCodeAssumption DEF Goto, Steps

LEMMA VSCodeInvInit == VSCodeInit => VSCodeInv
BY DEF VSCodeInit, VSCodeInv, VSCodeTypeInv, Progress, RegisteredIsLive, SoleSessionForwards

LEMMA VSCodeInvNext == VSCodeInv /\ [VSCodeNext]_vscodeVars => VSCodeInv'
<1> SUFFICES ASSUME VSCodeInv, [VSCodeNext]_vscodeVars PROVE VSCodeInv'
  OBVIOUS
<1> USE DEF VSCodeInv, VSCodeTypeInv, Progress, RegisteredIsLive, SoleSessionForwards, sessVars, fwdVars
<1>1. ASSUME NEW s \in Sessions, Connect(s) PROVE VSCodeInv'
  BY <1>1 DEF Connect
<1>2. ASSUME NEW s \in Sessions, StartShell(s) PROVE VSCodeInv'
  BY <1>2 DEF StartShell
<1>3. ASSUME NEW s \in Sessions, AddVSCodeReq(s) PROVE VSCodeInv'
  <2>1. VSCodeTypeInv' /\ Progress'
    BY <1>3 DEF AddVSCodeReq
  <2>2. RegisteredIsLive'
    BY <1>3 DEF AddVSCodeReq
  <2>3. SoleSessionForwards'
    BY <1>3 DEF AddVSCodeReq
  <2> QED BY <2>1, <2>2, <2>3
<1>4. ASSUME NEW s \in Sessions, LeaveLoop(s) PROVE VSCodeInv'
  BY <1>4 DEF LeaveLoop
<1>5. ASSUME NEW s \in Sessions, DeleteVSCodeReq(s) PROVE VSCodeInv'
  <2>1. VSCodeTypeInv' /\ Progress'
    BY <1>5 DEF DeleteVSCodeReq
  <2>2. RegisteredIsLive'
    BY <1>5 DEF DeleteVSCodeReq
  <2>3. SoleSessionForwards'
    BY <1>5 DEF DeleteVSCodeReq
  <2> QED BY <2>1, <2>2, <2>3
<1>6. ASSUME NEW s \in Sessions, CloseClient(s) PROVE VSCodeInv'
  BY <1>6 DEF CloseClient
<1>7. CASE UNCHANGED sessVars
  BY <1>7
<1> QED
  BY <1>1, <1>2, <1>3, <1>4, <1>5, <1>6, <1>7
     DEF VSCodeNext, Unwind, vscodeVars, Expire, GetVSCodeReq, DialForward, CopyEnds,
         ConnectionEnds

LEMMA VSCodeInvHolds == VSCodeSpec => []VSCodeInv
BY VSCodeInvInit, VSCodeInvNext, PTL DEF VSCodeSpec

(* Whoever overwrites or deletes whose entry (AddVSCodeReq and             *)
(* DeleteVSCodeReq go by the id of the connection), a client found in the  *)
(* registry is open and its session runs.                                  *)
THEOREM RegistryCorrect == VSCodeSpec => []RegisteredIsLive
BY VSCodeInvHolds, PTL DEF VSCodeInv

(* A session in proxyVscode's loop is missing from the registry only if    *)
(* another session of its connection was registered as well.               *)
THEOREM SoleSessionCorrect == VSCodeSpec => []SoleSessionForwards
BY VSCodeInvHolds, PTL DEF VSCodeInv
=============================================================================
