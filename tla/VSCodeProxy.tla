---------------------------- MODULE VSCodeProxy ----------------------------
(***************************************************************************)
(* Sessions of VS Code's Remote-SSH: proxyVscode keeps a client to the     *)
(* asset, registers it under the id of the user's SSH connection, and      *)
(* direct-tcpip channels of that connection are dialled through it         *)
(* (server/sshHandler.go, server/vscode.go).                               *)
(*                                                                         *)
(* One SSH connection can carry several sessions, all with the same id.    *)
(* The registry is locked for single reads and writes only.                *)
(***************************************************************************)
EXTENDS Naturals, FiniteSets

CONSTANTS
  Connections, \* SSH connections of users; their ids are the registry's keys
  Sessions,    \* session channels asking for a shell without a pty
  Forwards,    \* direct-tcpip channels
  ConnOf,      \* the connection of each session and forward
  NoSession    \* no entry in vscodeClients

ASSUME VSCodeAssumption ==
  /\ ConnOf \in [Sessions \cup Forwards -> Connections]
  /\ NoSession \notin Sessions

VARIABLES
  vscodeClients,  \* the registry: connection -> session whose client it is
  pc,             \* proxyVscode of each session
  client,         \* its client to the asset: "none", "open", "closed"
  expired,        \* sessions whose permission has expired
  ended,          \* connections whose context is done
  forward,        \* DirectTCPIPChannelHandler of each forward
  via,            \* the session whose client the forward found
  registered      \* history: sessions that have been in the registry

vscodeVars == <<vscodeClients, pc, client, expired, ended, forward, via, registered>>

sessVars == <<vscodeClients, pc, client, registered>>
fwdVars  == <<forward, via>>

Goto(s, step) == pc' = [pc EXCEPT ![s] = step]

VSCodeInit ==
  /\ vscodeClients = [k \in Connections |-> NoSession]
  /\ pc      = [s \in Sessions |-> "new"]
  /\ client  = [s \in Sessions |-> "none"]
  /\ expired = {} /\ ended = {} /\ registered = {}
  /\ forward = [f \in Forwards |-> "new"]
  /\ via     = [f \in Forwards |-> NoSession]

-----------------------------------------------------------------------------
(* A query fails, the permission is missing, or the asset is out of reach; *)
(* otherwise there is a client.                                            *)
Connect(s) ==
  /\ pc[s] = "new" /\ ConnOf[s] \notin ended
  /\ \/ Goto(s, "done") /\ UNCHANGED client
     \/ Goto(s, "shell") /\ client' = [client EXCEPT ![s] = "open"]
  /\ UNCHANGED <<vscodeClients, registered, expired, ended, fwdVars>>

(* AcquireSession, the pipes and the shell.                                *)
StartShell(s) ==
  /\ pc[s] = "shell"
  /\ \/ Goto(s, "register")
     \/ Goto(s, "close")
  /\ UNCHANGED <<vscodeClients, client, registered, expired, ended, fwdVars>>

(* Fault: an entry of the connection is not replaced.                      *)
AddIfAbsent(s) ==
  /\ pc[s] = "register"
  /\ vscodeClients' = [vscodeClients EXCEPT ![ConnOf[s]] = IF @ = NoSession THEN s ELSE @]
  /\ registered' = registered
  /\ Goto(s, "loop")
  /\ UNCHANGED <<client, expired, ended, fwdVars>>

AddVSCodeReq(s) ==
  /\ pc[s] = "register"
  /\ vscodeClients' = [vscodeClients EXCEPT ![ConnOf[s]] = s]
  /\ registered' = registered \cup {s}
  /\ Goto(s, "loop")
  /\ UNCHANGED <<client, expired, ended, fwdVars>>

(* Fault: the expiry of the permission does not end the loop.              *)
LeaveLoopUnexpired(s) ==
  /\ pc[s] = "loop" /\ s \notin expired
  /\ Goto(s, "unregister")
  /\ UNCHANGED <<vscodeClients, client, registered, expired, ended, fwdVars>>

(* The loop ends with the connection, after eight hours, or at the tick    *)
(* that finds the permission expired.                                      *)
LeaveLoop(s) ==
  /\ pc[s] = "loop"
  /\ Goto(s, "unregister")
  /\ UNCHANGED <<vscodeClients, client, registered, expired, ended, fwdVars>>

(* Fault: the entry is not deleted.                                        *)
DeleteNothing(s) ==
  /\ pc[s] = "unregister"
  /\ Goto(s, "close")
  /\ UNCHANGED <<vscodeClients, client, registered, expired, ended, fwdVars>>

(* The deferred functions: delete by id, then release and close.           *)
DeleteVSCodeReq(s) ==
  /\ pc[s] = "unregister"
  /\ vscodeClients' = [vscodeClients EXCEPT ![ConnOf[s]] = NoSession]
  /\ Goto(s, "close")
  /\ UNCHANGED <<client, registered, expired, ended, fwdVars>>

CloseClient(s) ==
  /\ pc[s] = "close"
  /\ client' = [client EXCEPT ![s] = "closed"]
  /\ Goto(s, "done")
  /\ UNCHANGED <<vscodeClients, registered, expired, ended, fwdVars>>

-----------------------------------------------------------------------------
(* A direct-tcpip channel: look the client up, dial through it, copy.      *)
GetVSCodeReq(f) ==
  LET s == vscodeClients[ConnOf[f]]
  IN /\ forward[f] = "new" /\ ConnOf[f] \notin ended
     /\ forward' = [forward EXCEPT ![f] = IF s = NoSession THEN "rejected" ELSE "dial"]
     /\ via' = [via EXCEPT ![f] = s]
     /\ UNCHANGED <<sessVars, expired, ended>>

(* Dial or Accept can fail; over a closed client Dial does.                *)
DialForward(f) ==
  /\ forward[f] = "dial"
  /\ \/ forward' = [forward EXCEPT ![f] = "rejected"]
     \/ client[via[f]] = "open" /\ forward' = [forward EXCEPT ![f] = "copy"]
  /\ UNCHANGED <<sessVars, expired, ended, via>>

(* Either copy ends: a peer closes, the connection or the client is gone.  *)
CopyEnds(f) ==
  /\ forward[f] = "copy"
  /\ forward' = [forward EXCEPT ![f] = "closed"]
  /\ UNCHANGED <<sessVars, expired, ended, via>>

-----------------------------------------------------------------------------
Expire(s) ==
  /\ s \notin expired
  /\ expired' = expired \cup {s}
  /\ UNCHANGED <<sessVars, ended, fwdVars>>

ConnectionEnds(k) ==
  /\ k \notin ended
  /\ ended' = ended \cup {k}
  /\ UNCHANGED <<sessVars, expired, fwdVars>>

Unwind(s) == StartShell(s) \/ AddVSCodeReq(s) \/ DeleteVSCodeReq(s) \/ CloseClient(s)

VSCodeNext ==
  \/ \E s \in Sessions : Connect(s) \/ LeaveLoop(s) \/ Unwind(s) \/ Expire(s)
  \/ \E f \in Forwards : GetVSCodeReq(f) \/ DialForward(f) \/ CopyEnds(f)
  \/ \E k \in Connections : ConnectionEnds(k)

VSCodeSpec == VSCodeInit /\ [][VSCodeNext]_vscodeVars

(* Goroutines run, the ticker ticks, and copying over a closed client or a *)
(* closed connection fails.                                                *)
VSCodeFairness ==
  /\ \A s \in Sessions : /\ WF_vscodeVars(Unwind(s))
                         /\ WF_vscodeVars((s \in expired \/ ConnOf[s] \in ended) /\ LeaveLoop(s))
  /\ \A f \in Forwards : /\ WF_vscodeVars(DialForward(f))
                         /\ WF_vscodeVars(forward[f] = "copy" /\ client[via[f]] = "closed" /\ CopyEnds(f))

FairVSCodeSpec == VSCodeSpec /\ VSCodeFairness

-----------------------------------------------------------------------------
(* A client in the registry is open and its session is in its loop, also   *)
(* when sessions of one connection overwrite and delete each other's       *)
(* entries: a forward that finds a client finds a usable one.              *)
RegisteredIsLive ==
  \A k \in Connections : vscodeClients[k] # NoSession =>
    LET s == vscodeClients[k]
    IN client[s] = "open" /\ ConnOf[s] = k /\ pc[s] \in {"loop", "unregister"}

(* A session in its loop can be forwarded through, unless another session  *)
(* of the same connection was registered too: the delete goes by id, so    *)
(* the end of one session also takes the entry of another away.            *)
SoleSessionForwards ==
  \A s \in Sessions : pc[s] = "loop" =>
    \/ vscodeClients[ConnOf[s]] = s
    \/ \E r \in registered \ {s} : ConnOf[r] = ConnOf[s]

(* Port forwarding ends with the permission: once it has expired, the      *)
(* client is closed and every copy through it comes to an end.             *)
ForwardsEndAtExpiry ==
  \A s \in Sessions :
    (s \in expired /\ client[s] = "open") ~>
      (client[s] = "closed" /\ \A f \in Forwards : via[f] = s => forward[f] # "copy")
=============================================================================
