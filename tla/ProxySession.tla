---------------------------- MODULE ProxySession ----------------------------
(***************************************************************************)
(* One call of Server.Proxy (proxy/server.go) per session, from NewServer  *)
(* to the last deferred function, with the state the sessions share: the   *)
(* core's table of sessions and its log (core/session.go) and the registry *)
(* through which administrators terminate them (sessionManager in          *)
(* proxy/switchManager.go).                                                *)
(*                                                                         *)
(* What Bridge, the login confirmation and the client cache do inside is   *)
(* in the modules of these names; here they are one step with any outcome. *)
(* A panic in any session ends the process, for nothing recovers it.       *)
(***************************************************************************)
EXTENDS Naturals, Sequences

CONSTANTS
  Sessions,         \* calls of Proxy
  OneCharPassword,  \* those with a system user's password of one character
  Admins,           \* administrators who terminate sessions
  NoAdmin           \* terminateAdmin is not set

ASSUME ProxyAssumption == OneCharPassword \subseteq Sessions /\ NoAdmin \notin Admins

VARIABLES
  pc,          \* where each session is
  expireInfo,  \* what NewServer read: "unknown" stands for the nil pointer
  cached,      \* sessions with a cacheSSHConnection
  conn,        \* the connection to the asset: "none", "open", "closed"
  confirmed,   \* history: sessions that passed checkLoginConfirm
  session,     \* ids in Core.session
  registry,    \* ids in sessManager
  terminated,  \* sessions whose ctx was cancelled
  terminateAdmin,  \* the name each session was terminated by
  call,        \* each administrator's call of Terminate: <<step, session>>
  userlog,     \* history: rows of each session in USERLOG
  panicked     \* the process is gone

proxyVars == <<pc, expireInfo, cached, conn, confirmed, session, registry,
               terminated, terminateAdmin, call, userlog, panicked>>

termVars == <<terminated, terminateAdmin, call>>
shared   == <<session, registry, termVars, userlog, panicked>>

Steps == {"new", "auth", "expiry", "confirm", "create", "add", "connect",
          "failed", "success", "bridge", "disconnect", "remove", "closeCache",
          "done"}

Goto(s, step) == pc' = [pc EXCEPT ![s] = step]

(* An insert that fails leaves no row, and its error is only logged.       *)
Log(s, row) == userlog' \in {userlog, [userlog EXCEPT ![s] = Append(@, row)]}

Panic(s) == panicked' = TRUE /\ UNCHANGED pc

ProxyInit ==
  /\ pc         = [s \in Sessions |-> "new"]
  /\ expireInfo = [s \in Sessions |-> "unknown"]
  /\ cached     = {}
  /\ conn       = [s \in Sessions |-> "none"]
  /\ confirmed  = {}
  /\ session = {} /\ registry = {} /\ terminated = {}
  /\ terminateAdmin = [s \in Sessions |-> NoAdmin]
  /\ call       = [a \in Admins |-> <<>>]
  /\ userlog    = [s \in Sessions |-> <<>>]
  /\ panicked   = FALSE

-----------------------------------------------------------------------------
(* Protocol or configuration errors end it here; an error of the expiry    *)
(* query does not.                                                         *)
NewServer(s) ==
  /\ pc[s] = "new"
  /\ \/ Goto(s, "done") /\ UNCHANGED expireInfo
     \/ /\ \E e \in {"unknown", "valid", "expired"} : expireInfo' = [expireInfo EXCEPT ![s] = e]
        /\ Goto(s, "auth")
  /\ UNCHANGED <<cached, conn, confirmed, shared>>

(* With REUSE_CONNECTION the connection may be there before the checks.    *)
CheckRequiredAuth(s) ==
  /\ pc[s] = "auth"
  /\ \/ Goto(s, "done") /\ UNCHANGED <<cached, conn>>
     \/ Goto(s, "expiry") /\ UNCHANGED <<cached, conn>>
     \/ /\ Goto(s, "expiry")
        /\ cached' = cached \cup {s}
        /\ conn' = [conn EXCEPT ![s] = "open"]
  /\ UNCHANGED <<expireInfo, confirmed, shared>>

(* Fault: an expired permission is only reported.                          *)
ExpiryOnlyReported(s) ==
  /\ pc[s] = "expiry"
  /\ Goto(s, "confirm")
  /\ UNCHANGED <<expireInfo, cached, conn, confirmed, shared>>

(* IsExpired dereferences the nil pointer.                                 *)
CheckPermissionExpired(s) ==
  /\ pc[s] = "expiry"
  /\ \/ expireInfo[s] = "unknown" /\ Panic(s)
     \/ expireInfo[s] = "expired" /\ Goto(s, "closeCache") /\ UNCHANGED panicked
     \/ expireInfo[s] = "valid" /\ Goto(s, "confirm") /\ UNCHANGED panicked
  /\ UNCHANGED <<expireInfo, cached, conn, confirmed, session, registry,
                 termVars, userlog>>

CheckLoginConfirm(s) ==
  /\ pc[s] = "confirm"
  /\ \/ Goto(s, "create") /\ confirmed' = confirmed \cup {s}
     \/ Goto(s, "closeCache") /\ UNCHANGED confirmed
  /\ UNCHANGED <<expireInfo, cached, conn, shared>>

CreateSession(s) ==
  /\ pc[s] = "create"
  /\ session' = session \cup {s}
  /\ Goto(s, "add")
  /\ UNCHANGED <<expireInfo, cached, conn, confirmed, registry, termVars,
                 userlog, panicked>>

AddCommonSwitch(s) ==
  /\ pc[s] = "add"
  /\ registry' = registry \cup {s}
  /\ Goto(s, "connect")
  /\ UNCHANGED <<expireInfo, cached, conn, confirmed, session, termVars,
                 userlog, panicked>>

(* getServerConn; on an error sendConnectErrorMsg slices the password's    *)
(* first two characters.                                                   *)
GetServerConn(s) ==
  /\ pc[s] = "connect"
  /\ \/ s \in cached /\ Goto(s, "success") /\ UNCHANGED <<conn, panicked>>
     \/ /\ s \notin cached
        /\ \/ Goto(s, "success") /\ conn' = [conn EXCEPT ![s] = "open"] /\ UNCHANGED panicked
           \/ /\ IF s \in OneCharPassword THEN Panic(s)
                                          ELSE Goto(s, "failed") /\ UNCHANGED panicked
              /\ UNCHANGED conn
  /\ UNCHANGED <<expireInfo, cached, confirmed, session, registry, termVars, userlog>>

(* Fault: the failed session stays in the table.                           *)
SessionFailedKeeps(s) ==
  /\ pc[s] = "failed"
  /\ Log(s, "failed")
  /\ Goto(s, "disconnect")
  /\ UNCHANGED <<expireInfo, cached, conn, confirmed, session, registry,
                 termVars, panicked>>

SessionFailed(s) ==
  /\ pc[s] = "failed"
  /\ Log(s, "failed")
  /\ session' = session \ {s}
  /\ Goto(s, "disconnect")
  /\ UNCHANGED <<expireInfo, cached, conn, confirmed, registry, termVars, panicked>>

SessionSuccess(s) ==
  /\ pc[s] = "success"
  /\ Log(s, "success")
  /\ Goto(s, "bridge")
  /\ UNCHANGED <<expireInfo, cached, conn, confirmed, session, registry,
                 termVars, panicked>>

(* Fault: Bridge does not end for a cancelled context.                     *)
BridgeIgnoresCtx(s) ==
  /\ pc[s] = "bridge" /\ s \notin terminated
  /\ conn' = [conn EXCEPT ![s] = "closed"]
  /\ Goto(s, "disconnect")
  /\ UNCHANGED <<expireInfo, cached, confirmed, shared>>

(* Bridge returns and has closed the connection; srvCon.Close is deferred  *)
(* too, a second time.                                                     *)
BridgeReturns(s) ==
  /\ pc[s] = "bridge"
  /\ conn' = [conn EXCEPT ![s] = "closed"]
  /\ Goto(s, "disconnect")
  /\ UNCHANGED <<expireInfo, cached, confirmed, shared>>

(* The deferred functions, last one first.  After SessionFailed there is   *)
(* no entry any more, and nothing is logged.                               *)
SessionDisconnect(s) ==
  /\ pc[s] = "disconnect"
  /\ IF s \in session THEN Log(s, "disconnect") ELSE UNCHANGED userlog
  /\ session' = session \ {s}
  /\ Goto(s, "remove")
  /\ UNCHANGED <<expireInfo, cached, conn, confirmed, registry, termVars, panicked>>

(* Fault: the registry entry is dropped and the cached connection kept.    *)
RemoveAndReturn(s) ==
  /\ pc[s] = "disconnect"
  /\ registry' = registry \ {s}
  /\ Goto(s, "done")
  /\ UNCHANGED <<expireInfo, cached, conn, confirmed, session, termVars,
                 userlog, panicked>>

RemoveCommonSwitch(s) ==
  /\ pc[s] = "remove"
  /\ registry' = registry \ {s}
  /\ Goto(s, "closeCache")
  /\ UNCHANGED <<expireInfo, cached, conn, confirmed, session, termVars,
                 userlog, panicked>>

CloseCached(s) ==
  /\ pc[s] = "closeCache"
  /\ conn' = IF s \in cached THEN [conn EXCEPT ![s] = "closed"] ELSE conn
  /\ Goto(s, "done")
  /\ UNCHANGED <<expireInfo, cached, confirmed, shared>>

(* Terminate of a session GetSessionById found: unless ctx is done already *)
(* the name is set, and then ctx cancelled.                                *)
TerminateCheck(a, s) ==
  /\ call[a] = <<>>
  /\ s \in registry \ terminated
  /\ call' = [call EXCEPT ![a] = <<"set", s>>]
  /\ UNCHANGED <<pc, expireInfo, cached, conn, confirmed, session, registry,
                 terminated, terminateAdmin, userlog, panicked>>

SetTerminateAdmin(a, s) ==
  /\ call[a] = <<"set", s>>
  /\ terminateAdmin' = [terminateAdmin EXCEPT ![s] = a]
  /\ call' = [call EXCEPT ![a] = <<"cancel", s>>]
  /\ UNCHANGED <<pc, expireInfo, cached, conn, confirmed, session, registry,
                 terminated, userlog, panicked>>

Cancel(a, s) ==
  /\ call[a] = <<"cancel", s>>
  /\ terminated' = terminated \cup {s}
  /\ call' = [call EXCEPT ![a] = <<>>]
  /\ UNCHANGED <<pc, expireInfo, cached, conn, confirmed, session, registry,
                 terminateAdmin, userlog, panicked>>

-----------------------------------------------------------------------------
Proceed(s) ==
  \/ NewServer(s) \/ CheckRequiredAuth(s) \/ CheckPermissionExpired(s)
  \/ CheckLoginConfirm(s) \/ CreateSession(s) \/ AddCommonSwitch(s)
  \/ GetServerConn(s) \/ SessionFailed(s) \/ SessionSuccess(s)
  \/ SessionDisconnect(s) \/ RemoveCommonSwitch(s) \/ CloseCached(s)

ProxyNext ==
  ~panicked /\ \E s \in Sessions :
    \/ Proceed(s) \/ BridgeReturns(s)
    \/ \E a \in Admins : TerminateCheck(a, s) \/ SetTerminateAdmin(a, s) \/ Cancel(a, s)

ProxySpec == ProxyInit /\ [][ProxyNext]_proxyVars

(* Proxy's own steps end; Bridge has to return only when its ctx is done.  *)
ProxyFairness ==
  \A s \in Sessions : /\ WF_proxyVars(~panicked /\ Proceed(s))
                      /\ WF_proxyVars(~panicked /\ s \in terminated /\ BridgeReturns(s))

FairProxySpec == ProxySpec /\ ProxyFairness

-----------------------------------------------------------------------------
(* The log of a session tells one story: failed, or connected and then     *)
(* disconnected once, with rows missing only where an insert failed; the   *)
(* deferred SessionDisconnect adds nothing after SessionFailed.            *)
LogConsistent ==
  \A s \in Sessions :
    /\ Len(userlog[s]) <= 2
    /\ Len(userlog[s]) = 2 => userlog[s][1] = "success" /\ userlog[s][2] = "disconnect"

(* When Proxy has returned, on whichever path, nothing of the session is   *)
(* left: no entry in either table and no open connection to the asset.     *)
NothingLeftBehind ==
  \A s \in Sessions : pc[s] = "done" =>
    s \notin session /\ s \notin registry /\ conn[s] # "open"

(* A session that exchanges data is confirmed, had a valid permission when *)
(* it was checked, and can be found and terminated by an administrator; an *)
(* asset is dialled only after these checks (only a connection from the    *)
(* cache is there before them).                                            *)
BridgedUnderControl ==
  \A s \in Sessions :
    /\ pc[s] = "bridge" => s \in session /\ s \in registry
    /\ conn[s] = "open" /\ (s \notin cached \/ pc[s] = "bridge") =>
         s \in confirmed /\ expireInfo[s] = "valid"

(* Terminating a session is never lost, also if it comes before Bridge has *)
(* started: the session ends.                                              *)
TerminateNotLost ==
  \A s \in Sessions : s \in terminated ~> (panicked \/ pc[s] = "done")
=============================================================================
