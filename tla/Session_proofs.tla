--------------------------- MODULE Session_proofs ---------------------------
(***************************************************************************)
(* Proofs about a user's session: the proxy's session with an asset, for   *)
(* any number of sessions and administrators (ProxySession), and who reads *)
(* what the user types, for any number of goroutines and chunks            *)
(* (UserSession).                                                          *)
(***************************************************************************)
EXTENDS ProxySession, UserSession, TLAPS

-----------------------------------------------------------------------------
(* The proxy's session.                                                    *)

TypeInv ==
  /\ pc \in [Sessions -> Steps]
  /\ expireInfo \in [Sessions -> {"unknown", "valid", "expired"}]
  /\ conn \in [Sessions -> {"none", "open", "closed"}]

(* Where in Proxy a session is in which table.                             *)
Entries ==
  \A s \in Sessions :
    /\ pc[s] \in {"add", "connect", "failed", "success", "bridge"} => s \in session
    /\ s \in session =>
         pc[s] \in {"add", "connect", "failed", "success", "bridge", "disconnect"}
    /\ s \in registry <=>
         pc[s] \in {"connect", "failed", "success", "bridge", "disconnect", "remove"}

(* Where it may have a connection to the asset.                            *)
Connections ==
  \A s \in Sessions :
    /\ pc[s] \in {"new", "auth"} => s \notin cached /\ conn[s] = "none"
    /\ s \notin cached /\ conn[s] = "open" => pc[s] \in {"success", "bridge"}
    /\ s \in cached /\ pc[s] = "done" => conn[s] = "closed"

(* What it has passed.                                                     *)
Checks ==
  \A s \in Sessions :
    /\ pc[s] \in {"confirm", "create", "add", "connect", "success", "bridge"} =>
         expireInfo[s] = "valid"
    /\ pc[s] \in {"create", "add", "connect", "success", "bridge"} => s \in confirmed

(* The inductive invariant for the tables, connections and checks.         *)
CInv ==
  TypeInv /\ Entries /\ Connections /\ Checks /\ NothingLeftBehind /\ BridgedUnderControl

(* The logs a session may have before it is connected, while it is, and    *)
(* in the end.                                                             *)
Logs      == Seq({"failed", "success", "disconnect"})
NoRow     == {l \in Logs : Len(l) = 0}
Connected == {l \in Logs : Len(l) <= 1 /\ (Len(l) = 1 => l[1] = "success")}
Story     == {l \in Logs : Len(l) <= 2 /\ (Len(l) = 2 => l[1] = "success" /\ l[2] = "disconnect")}

LInv ==
  /\ userlog \in [Sessions -> Story]
  /\ \A s \in Sessions :
       /\ pc[s] \in {"new", "auth", "expiry", "confirm", "create", "add", "connect",
                     "failed", "success"} => userlog[s] \in NoRow
       /\ pc[s] = "bridge" \/ (pc[s] = "disconnect" /\ s \in session) =>
            userlog[s] \in Connected

(* The inductive invariant.                                                *)
ProxyInv == CInv /\ LInv

USE DEF Goto, Steps

LEMMA CInvInit == ProxyInit => CInv
BY DEF ProxyInit, CInv, TypeInv, Entries, Connections, Checks, NothingLeftBehind, BridgedUnderControl

LEMMA CInvNext == CInv /\ [ProxyNext]_proxyVars => CInv'
<1> SUFFICES ASSUME CInv, [ProxyNext]_proxyVars PROVE CInv'
  OBVIOUS
<1> USE DEF CInv, TypeInv, Entries, Connections, Checks, NothingLeftBehind,
            BridgedUnderControl, shared, termVars
<1>1. ASSUME NEW s \in Sessions, NewServer(s) PROVE CInv'
  BY <1>1 DEF NewServer
<1>2. ASSUME NEW s \in Sessions, CheckRequiredAuth(s) PROVE CInv'
  BY <1>2 DEF CheckRequiredAuth
<1>3. ASSUME NEW s \in Sessions, CheckPermissionExpired(s) PROVE CInv'
  BY <1>3 DEF CheckPermissionExpired, Panic
<1>4. ASSUME NEW s \in Sessions, CheckLoginConfirm(s) PROVE CInv'
  BY <1>4 DEF CheckLoginConfirm
<1>5. ASSUME NEW s \in Sessions, CreateSession(s) PROVE CInv'
  BY <1>5 DEF CreateSession
<1>6. ASSUME NEW s \in Sessions, AddCommonSwitch(s) PROVE CInv'
  BY <1>6 DEF AddCommonSwitch
<1>7. ASSUME NEW s \in Sessions, GetServerConn(s) PROVE CInv'
  BY <1>7 DEF GetServerConn, Panic
<1>8. ASSUME NEW s \in Sessions, SessionFailed(s) PROVE CInv'
  BY <1>8 DEF SessionFailed
<1>9. ASSUME NEW s \in Sessions, SessionSuccess(s) PROVE CInv'
  BY <1>9 DEF SessionSuccess
<1>10. ASSUME NEW s \in Sessions, BridgeReturns(s) PROVE CInv'
  BY <1>10 DEF BridgeReturns
<1>11. ASSUME NEW s \in Sessions, SessionDisconnect(s) PROVE CInv'
  BY <1>11 DEF SessionDisconnect
<1>12. ASSUME NEW s \in Sessions, RemoveCommonSwitch(s) PROVE CInv'
  BY <1>12 DEF RemoveCommonSwitch
<1>13. ASSUME NEW s \in Sessions, CloseCached(s) PROVE CInv'
  BY <1>13 DEF CloseCached
<1>14. CASE UNCHANGED <<pc, expireInfo, cached, conn, confirmed, session, registry>>
  BY <1>14
<1> QED
  BY <1>1, <1>2, <1>3, <1>4, <1>5, <1>6, <1>7, <1>8, <1>9, <1>10, <1>11, <1>12, <1>13, <1>14, Zenon
     DEF ProxyNext, Proceed, TerminateCheck, SetTerminateAdmin, Cancel, proxyVars

(* How the rows continue a log.                                            *)
LEMMA LogRows ==
  /\ NoRow \subseteq Connected /\ Connected \subseteq Story
  /\ \A l \in NoRow : Append(l, "failed") \in Story /\ Append(l, "success") \in Connected
  /\ \A l \in Connected : Append(l, "disconnect") \in Story
<1>1. NoRow \subseteq Connected /\ Connected \subseteq Story
  BY DEF NoRow, Connected, Story
<1>2. ASSUME NEW l \in NoRow
      PROVE  Append(l, "failed") \in Story /\ Append(l, "success") \in Connected
  BY <1>2 DEF NoRow, Connected, Story, Logs
<1>3. ASSUME NEW l \in Connected PROVE Append(l, "disconnect") \in Story
  <2> DEFINE m == Append(l, "disconnect")
  <2>0. l \in Logs /\ Len(l) <= 1 /\ (Len(l) = 1 => l[1] = "success")
    BY <1>3 DEF Connected
  <2>1. Len(l) \in Nat
    BY <2>0 DEF Logs
  <2>2. /\ m \in Logs /\ Len(m) = Len(l) + 1 /\ m[Len(l) + 1] = "disconnect"
        /\ \A i \in 1..Len(l) : m[i] = l[i]
    BY <2>0 DEF Logs
  <2> HIDE DEF m
  <2>3. Len(m) <= 2 /\ (Len(m) = 2 => m[1] = "success" /\ m[2] = "disconnect")
    <3>1. CASE Len(l) = 0
      BY <2>2, <3>1
    <3>2. CASE Len(l) = 1
      <4>1. Len(m) = 2 /\ m[2] = "disconnect" /\ m[1] = l[1]
        BY <2>2, <3>2
      <4> QED BY <2>0, <3>2, <4>1
    <3>3. \A n \in Nat : n <= 1 => n \in {0, 1}
      OBVIOUS
    <3>4. Len(l) \in {0, 1}
      BY <2>0, <2>1, <3>3, Zenon
    <3> QED BY <3>1, <3>2, <3>4
  <2>4. m \in Story
    BY <2>2, <2>3 DEF Story
  <2> QED BY <2>4 DEF m
<1> QED BY <1>1, <1>2, <1>3

(* Log changes nothing but the session's own rows.                         *)
LEMMA LogStep ==
  ASSUME NEW s \in Sessions, NEW row, NEW S, userlog \in [Sessions -> Story], Log(s, row),
         userlog[s] \in S, Append(userlog[s], row) \in S
  PROVE  \E l \in S : userlog' = [userlog EXCEPT ![s] = l]
<1>1. PICK m : m = Append(userlog[s], row)
  BY Zenon
<1>2. m \in S /\ userlog' \in {userlog, [userlog EXCEPT ![s] = m]}
  BY <1>1 DEF Log
<1> QED BY <1>2

LEMMA LInvInit == ProxyInit => LInv
<1>1. <<>> \in NoRow
  BY DEF NoRow, Logs
<1> QED BY <1>1, LogRows DEF ProxyInit, LInv

LEMMA LInvNext == CInv /\ LInv /\ [ProxyNext]_proxyVars => LInv'
<1> SUFFICES ASSUME CInv, LInv, [ProxyNext]_proxyVars PROVE LInv'
  OBVIOUS
<1> USE DEF CInv, TypeInv, Entries, LInv
<1>1. ASSUME NEW s \in Sessions, SessionFailed(s) PROVE LInv'
  <2>1. PICK l \in Story : userlog' = [userlog EXCEPT ![s] = l]
    <3>1. userlog[s] \in NoRow
      BY <1>1 DEF SessionFailed
    <3>2. userlog[s] \in Story /\ Append(userlog[s], "failed") \in Story
      BY <3>1, LogRows
    <3> QED BY <1>1, <3>2, LogStep DEF SessionFailed
  <2> QED BY <1>1, <2>1 DEF SessionFailed
<1>2. ASSUME NEW s \in Sessions, SessionSuccess(s) PROVE LInv'
  <2>1. PICK l \in Connected : userlog' = [userlog EXCEPT ![s] = l]
    <3>1. userlog[s] \in NoRow
      BY <1>2 DEF SessionSuccess
    <3>2. userlog[s] \in Connected /\ Append(userlog[s], "success") \in Connected
      BY <3>1, LogRows
    <3> QED BY <1>2, <3>2, LogStep DEF SessionSuccess
  <2> QED BY <1>2, <2>1, LogRows DEF SessionSuccess
<1>3. ASSUME NEW s \in Sessions, SessionDisconnect(s) PROVE LInv'
  <2>1. PICK l \in Story : userlog' = [userlog EXCEPT ![s] = l]
    <3>1. CASE s \in session
      <4>1. userlog[s] \in Story /\ Append(userlog[s], "disconnect") \in Story
        BY <1>3, <3>1, LogRows DEF SessionDisconnect
      <4> QED BY <1>3, <3>1, <4>1, LogStep DEF SessionDisconnect
    <3>2. CASE s \notin session
      BY <1>3, <3>2 DEF SessionDisconnect
    <3> QED BY <3>1, <3>2
  <2> QED BY <1>3, <2>1 DEF SessionDisconnect
<1>4. ASSUME NEW s \in Sessions,
             \/ NewServer(s) \/ CheckRequiredAuth(s) \/ CheckPermissionExpired(s)
             \/ CheckLoginConfirm(s) \/ CreateSession(s)
      PROVE  LInv'
  BY <1>4, LogRows DEF NewServer, CheckRequiredAuth, CheckPermissionExpired, CheckLoginConfirm,
     CreateSession, Panic, shared, termVars
<1>5. ASSUME NEW s \in Sessions,
             \/ AddCommonSwitch(s) \/ GetServerConn(s) \/ BridgeReturns(s)
             \/ RemoveCommonSwitch(s) \/ CloseCached(s)
      PROVE  LInv'
  BY <1>5, LogRows DEF AddCommonSwitch, GetServerConn, BridgeReturns, RemoveCommonSwitch,
     CloseCached, Panic, shared, termVars
<1>6. CASE UNCHANGED <<pc, session, userlog>>
  BY <1>6
<1> QED
  BY <1>1, <1>2, <1>3, <1>4, <1>5, <1>6
     DEF ProxyNext, Proceed, TerminateCheck, SetTerminateAdmin, Cancel, proxyVars

LEMMA ProxyInvHolds == ProxySpec => []ProxyInv
BY CInvInit, CInvNext, LInvInit, LInvNext, PTL DEF ProxySpec, ProxyInv

(* On every path through Proxy, panics of other sessions included, its     *)
(* deferred functions leave no entry and no connection behind.             *)
THEOREM CleanupCorrect == ProxySpec => []NothingLeftBehind
BY ProxyInvHolds, PTL DEF ProxyInv, CInv

(* Bridge runs only for confirmed sessions with a permission that was      *)
(* valid when checked, and administrators can find them.                   *)
THEOREM ControlCorrect == ProxySpec => []BridgedUnderControl
BY ProxyInvHolds, PTL DEF ProxyInv, CInv

(* SessionFailed, SessionSuccess and the deferred SessionDisconnect log    *)
(* one story.                                                              *)
THEOREM LogCorrect == ProxySpec => []LogConsistent
<1>1. LInv => LogConsistent
  BY Zenon DEF LInv, LogConsistent, Story
<1> QED BY <1>1, ProxyInvHolds, PTL DEF ProxyInv

HIDE DEF Goto, Steps

-----------------------------------------------------------------------------
(* Who reads what a user types (UserSession).  A goroutine is the current  *)
(* one before it can take anything that is not meant for it, and Bridge    *)
(* takes chunks only from the channel of the current one.                  *)
LeftoverInv ==
  /\ aux \in [Goroutines -> {"free", "confirm", "bridge", "send", "end"}]
  /\ userChan \in [Goroutines -> 0 .. 1]
  /\ stolen \in [Goroutines -> Nat]
  /\ dispatch = "bridge" => current \in Goroutines
  /\ \A i \in Goroutines : aux[i] = "free" \/ current = i => stolen[i] = 0
  /\ LeftoverReaderBounded

(* The clock is off while a command runs.                                  *)
ClockInv ==
  /\ sessClosed \in BOOLEAN /\ checkStatus \in BOOLEAN
  /\ dispatch \in Menu!Busy => ~checkStatus

(* Close is called by one goroutine at a time: a second call could only    *)
(* come from a confirmation or a session that ends while the menu's        *)
(* goroutine is still inside the Close of the one before.                  *)
CloseExclusive == closer # "out" => dispatch \in {"confirmed", "bridged"}

USE DEF menuVars, wrapper, helpers, Menu!clock, Menu!ends, Menu!NextPrompt

(* What the menu, its clock and the client do leaves the goroutines alone. *)
LEMMA MenuKeeps ==
  ASSUME MenuStep \/ CheckerStep \/ ClientStep \/ MenuReads \/ MenuGets \/ AskSystemUser
  PROVE  /\ UNCHANGED <<helpers, closer>>
         /\ dispatch' = "bridge" => dispatch = "bridge"
         /\ dispatch \in {"confirmed", "bridged"} => dispatch' = dispatch
<1>1. CASE MenuStep
  BY <1>1 DEF MenuStep, Menu!Dispatch, Menu!HasJustOneAsset, Menu!StartClock,
       Menu!StopClock, Menu!RunCommand, Menu!Exit
<1>2. CASE CheckerStep
  BY <1>2 DEF CheckerStep, Menu!Checker, Menu!TickerFires, Menu!TakeTick, Menu!CheckerEnds
<1>3. CASE ClientStep
  BY <1>3 DEF ClientStep, Menu!ClientCloses, Menu!ConnectionEnds, Menu!ChannelEnds
<1>4. CASE MenuReads
  BY <1>4 DEF MenuReads, Wrapper!Read
<1>5. CASE MenuGets
  BY <1>5 DEF MenuGets, Wrapper!Returned, Menu!ReadLine, Menu!AnswerSystemUser,
       Menu!ReadLineFails, Menu!AskFails
<1>6. CASE AskSystemUser
  BY <1>6 DEF AskSystemUser, Menu!AskSystemUser
<1> QED BY <1>1, <1>2, <1>3, <1>4, <1>5, <1>6

LEMMA LeftoverInvInit == Init => LeftoverInv
BY ConstAssumption DEF Init, Menu!Init, LeftoverInv, LeftoverReaderBounded, Goroutines

LEMMA LeftoverInvNext == LeftoverInv /\ [Next]_vars => LeftoverInv'
<1> SUFFICES ASSUME LeftoverInv, [Next]_vars PROVE LeftoverInv'
  OBVIOUS
<1> USE DEF LeftoverInv, LeftoverReaderBounded
<1>1. CASE MenuStep \/ CheckerStep \/ ClientStep \/ MenuReads \/ MenuGets \/ AskSystemUser
  BY <1>1, MenuKeeps
<1>2. CASE WrapperStep \/ SessRead
  BY <1>2 DEF WrapperStep, SessRead
<1>3. CASE Finish
  BY <1>3 DEF Finish, Menu!Phase
<1>4. CASE CloseReturns
  <2>1. current' = 0 /\ dispatch' # "bridge" /\ 0 \notin Goroutines
    BY <1>4, ConstAssumption DEF CloseReturns, Menu!Phase, Goroutines
  <2> QED BY <1>4, <2>1 DEF CloseReturns
<1>5. ASSUME NEW i \in Goroutines, NEW kind \in {"confirm", "bridge"}, Start(i, kind)
      PROVE  LeftoverInv'
  BY <1>5 DEF Start
<1>6. ASSUME NEW i \in Goroutines, Helper(i)
      PROVE  LeftoverInv'
  <2>1. CASE HelperReads(i)
    BY <2>1 DEF HelperReads
  <2>2. CASE ConfirmGets(i)
    BY <2>2 DEF ConfirmGets
  <2>3. CASE BridgeGets(i)
    BY <2>3 DEF BridgeGets
  <2>4. CASE BridgeSend(i)
    BY <2>4 DEF BridgeSend
  <2> QED BY <1>6, <2>1, <2>2, <2>3, <2>4 DEF Helper
<1>7. CASE BridgeForwards
  BY <1>7 DEF BridgeForwards
<1>8. CASE UNCHANGED vars
  BY <1>8 DEF vars
<1> QED BY <1>1, <1>2, <1>3, <1>4, <1>5, <1>6, <1>7, <1>8 DEF Next

(* A goroutine that a Bridge left behind takes at most two chunks of what  *)
(* the user types afterwards: one fits in userChan, and nothing receives   *)
(* the second (Bridge of switchManager.go, Close of wrapperSession.go).    *)
THEOREM LeftoverCorrect ==
  Spec => [](LeftoverReaderBounded /\ \A i \in Goroutines : stolen[i] <= 2)
<1>1. LeftoverInv => LeftoverReaderBounded /\ \A i \in Goroutines : stolen[i] <= 2
  BY DEF LeftoverInv, LeftoverReaderBounded
<1> QED BY <1>1, LeftoverInvInit, LeftoverInvNext, PTL DEF Spec

-----------------------------------------------------------------------------
(* Only the handshakes on checkChan and the steps of Proxy move dispatch   *)
(* into a command and out of it.                                           *)
LEMMA ClockInvNext == ClockInv /\ [Next]_vars => ClockInv'
<1> SUFFICES ASSUME ClockInv, [Next]_vars PROVE ClockInv'
  OBVIOUS
<1> USE DEF ClockInv, Menu!Busy
<1>1. CASE MenuStep
  BY <1>1, Zenon DEF MenuStep, Menu!Dispatch, Menu!HasJustOneAsset, Menu!StartClock,
       Menu!StopClock, Menu!RunCommand, Menu!Exit
<1>2. CASE CheckerStep
  BY <1>2 DEF CheckerStep, Menu!Checker, Menu!TickerFires, Menu!TakeTick, Menu!CheckerEnds
<1>3. CASE ClientStep
  BY <1>3 DEF ClientStep, Menu!ClientCloses, Menu!ConnectionEnds, Menu!ChannelEnds
<1>4. CASE MenuGets
  BY <1>4 DEF MenuGets, Menu!ReadLine, Menu!AnswerSystemUser, Menu!ReadLineFails, Menu!AskFails
<1>5. CASE AskSystemUser
  BY <1>5 DEF AskSystemUser, Menu!AskSystemUser
<1>6. CASE Finish
  BY <1>6 DEF Finish, Menu!Phase
<1>7. CASE CloseReturns
  BY <1>7 DEF CloseReturns, Menu!Phase
<1>8. ASSUME NEW i \in Goroutines, NEW kind \in {"confirm", "bridge"}, Start(i, kind)
      PROVE  ClockInv'
  BY <1>8 DEF Start, Menu!Phase
<1>9. CASE UNCHANGED menuVars
  BY <1>9
<1>10. ASSUME NEW i \in Goroutines, Helper(i) PROVE UNCHANGED menuVars
  BY <1>10 DEF Helper, HelperReads, ConfirmGets, BridgeGets, BridgeSend
<1>11. WrapperStep \/ SessRead \/ MenuReads \/ BridgeForwards \/ UNCHANGED vars
       => UNCHANGED menuVars
  BY DEF WrapperStep, SessRead, MenuReads, BridgeForwards, vars
<1> QED
  BY <1>1, <1>2, <1>3, <1>4, <1>5, <1>6, <1>7, <1>8, <1>9, <1>10, <1>11 DEF Next

(* The idle clock never closes the session of a user whose command is      *)
(* running (checkMaxIdleTime takes a tick only while checkStatus is set,   *)
(* and Dispatch clears it before a command).                               *)
THEOREM NotInterrupted == Spec => CommandNotInterrupted
<1>1. Init => ClockInv
  BY Zenon DEF Init, Menu!Init, ClockInv, Menu!Busy
<1>2. ASSUME ClockInv, [Next]_vars
      PROVE  [sessClosed' # sessClosed => dispatch \notin Menu!Busy]_vars
  <2>1. CASE MenuStep
    BY <2>1 DEF MenuStep, Menu!Dispatch, Menu!HasJustOneAsset, Menu!StartClock,
         Menu!StopClock, Menu!RunCommand, Menu!Exit, Menu!Busy
  <2>2. CASE CheckerStep
    <3>1. Menu!TakeTick => sessClosed' = (sessClosed \/ checkStatus)
      BY DEF Menu!TakeTick
    <3>2. Menu!TickerFires \/ Menu!CheckerEnds => sessClosed' = sessClosed
      BY DEF Menu!TickerFires, Menu!CheckerEnds
    <3> QED BY <1>2, <2>2, <3>1, <3>2 DEF ClockInv, CheckerStep, Menu!Checker
  <2>3. CASE sessClosed' = sessClosed
    BY <2>3, SMTT(15)
  <2>4. MenuStep \/ CheckerStep \/ sessClosed' = sessClosed
    BY <1>2 DEF Next, ClientStep, WrapperStep, SessRead, MenuReads, MenuGets, AskSystemUser,
         Finish, CloseReturns, Start, Helper, HelperReads, ConfirmGets, BridgeGets, BridgeSend,
         BridgeForwards, vars, Menu!ClientCloses, Menu!ConnectionEnds, Menu!ChannelEnds,
         Menu!ReadLine, Menu!AnswerSystemUser, Menu!ReadLineFails, Menu!AskFails,
         Menu!AskSystemUser, Menu!Phase
  <2> QED BY <2>1, <2>2, <2>3, <2>4
<1> QED BY <1>1, <1>2, ClockInvNext, PTL DEF Spec, CommandNotInterrupted

-----------------------------------------------------------------------------
(* Nobody calls Close while another Close is under way, which is what      *)
(* lets WrapperSession close a pipe outside of its lock: the goroutine of  *)
(* the menu waits in Close before it starts anything new.                  *)
THEOREM CloseExclusiveCorrect == Spec => []CloseExclusive
<1>1. Init => CloseExclusive
  BY DEF Init, Wrapper!Init, CloseExclusive
<1>2. CloseExclusive /\ [Next]_vars => CloseExclusive'
  <2> SUFFICES ASSUME CloseExclusive, [Next]_vars PROVE CloseExclusive'
    OBVIOUS
  <2> USE DEF CloseExclusive
  <2>1. CASE MenuStep \/ CheckerStep \/ ClientStep \/ MenuReads \/ MenuGets \/ AskSystemUser
    BY <2>1, MenuKeeps
  <2>2. CASE WrapperStep
    BY <2>2 DEF WrapperStep, Wrapper!ReadLoop, Wrapper!Pipe, Wrapper!WriteRLock,
         Wrapper!WriteFails, Wrapper!EndClosesPipe, Wrapper!EndClosesChan,
         Wrapper!PipeTransfer, Wrapper!ClosePipe, Wrapper!InitReadPip,
         Wrapper!ReadRLock, Wrapper!ReadFails
  <2>3. CASE SessRead
    BY <2>3 DEF SessRead, Wrapper!SessRead
  <2>4. CASE Finish
    BY <2>4 DEF Finish, Menu!Phase, Wrapper!Close
  <2>5. CASE CloseReturns
    BY <2>5 DEF CloseReturns
  <2>6. ASSUME NEW i \in Goroutines, NEW kind \in {"confirm", "bridge"}, Start(i, kind)
        PROVE  CloseExclusive'
    BY <2>6 DEF Start, Menu!Phase
  <2>7. ASSUME NEW i \in Goroutines, Helper(i) PROVE CloseExclusive'
    BY <2>7 DEF Helper, HelperReads, ConfirmGets, BridgeGets, BridgeSend, Wrapper!Read,
         Wrapper!Returned
  <2>8. CASE BridgeForwards \/ UNCHANGED vars
    BY <2>8 DEF BridgeForwards, vars
  <2> QED BY <2>1, <2>2, <2>3, <2>4, <2>5, <2>6, <2>7, <2>8 DEF Next
<1> QED BY <1>1, <1>2, PTL DEF Spec

=============================================================================
