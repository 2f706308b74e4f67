------------------------ MODULE SSHClientCache_proofs ------------------------
(***************************************************************************)
(* Proofs about the cache of SSH clients, for any number of sessions,      *)
(* clients and keys.                                                       *)
(***************************************************************************)
EXTENDS SSHClientCache, FiniteSetTheorems, TLAPS

(* Types; and the table holds only clients that were dialed and that       *)
(* recycleClients has not closed, so a session is never handed another.    *)
TypeInv ==
  /\ data \in [Keys -> SUBSET (dialed \ recycled)]
  /\ mgr \in [at : {"select", "reply", "recycle", "close"}, todo : SUBSET Clients,
              client : Clients \cup {NoClient}]
  /\ refCount \in [Clients -> Int]
  /\ dialed \in SUBSET Clients /\ recycled \in SUBSET dialed
  /\ key \in [Sessions -> Keys]
  /\ pc \in [Sessions -> Steps]
  /\ client \in [Sessions -> Clients \cup {NoClient}]

(* Which session has a client.                                             *)
Held ==
  \A s \in Sessions :
    /\ client[s] \in dialed \cup {NoClient}
    /\ pc[s] \in {"store", "acquire", "open", "shell", "use", "closed"} => client[s] # NoClient

(* A client that is not stored yet is known to one session only.           *)
Fresh ==
  \A s \in Sessions : pc[s] = "store" =>
    /\ client[s] \notin recycled
    /\ \A k \in Keys : client[s] \notin data[k]
    /\ \A r \in Sessions : client[r] = client[s] => r = s

(* A client belongs to one key.                                            *)
OneKey == \A j, k \in Keys : \A c \in Clients : c \in data[j] /\ c \in data[k] => j = k

(* What the manager has at hand is in the table.                           *)
Manager ==
  /\ \A c \in mgr.todo : \E k \in Keys : c \in data[k]
  /\ mgr.at = "close" => mgr.client \notin mgr.todo /\ \E k \in Keys : mgr.client \in data[k]
  /\ mgr.at \notin {"recycle", "close"} => mgr.todo = {}

(* While it recycles, sessions without a reference are known to be slow,   *)
(* and nobody else uses the client it is about to close.                   *)
Recycling ==
  /\ mgr.at \in {"recycle", "close"} =>
       \A s \in Sessions : pc[s] = "acquire" => s \in slow
  /\ mgr.at = "close" =>
       \A s \in Sessions \ slow :
         pc[s] \in {"acquire", "open", "shell", "use"} => client[s] # mgr.client

(* The inductive invariant but for the counts.                             *)
TInv ==
  TypeInv /\ Held /\ Fresh /\ OneKey /\ Manager /\ ResultForRequester

USE ConstAssumption DEF Goto, Select, Steps

LEMMA TInvInit == Init => TInv
BY DEF Init, TInv, TypeInv, Held, Fresh, OneKey, Manager, ResultForRequester

LEMMA TInvNext == TInv /\ [Next]_vars => TInv'
<1> SUFFICES ASSUME TInv, [Next]_vars PROVE TInv'
  OBVIOUS
<1> USE DEF TInv, TypeInv, Held, Fresh, OneKey, Manager, ResultForRequester, mgrVars, connVars
<1>1. ASSUME NEW s \in Sessions, TakeRequest(s) PROVE TInv'
  <2>1. PICK c \in IF data[key[s]] = {} THEN {NoClient} ELSE GetClient(data[key[s]]) :
          mgr' = [Select EXCEPT !.at = "reply", !.client = c]
    BY <1>1 DEF TakeRequest
  <2>2. /\ c \in data[key[s]] \cup {NoClient}
        /\ mgr' = [at |-> "reply", todo |-> {}, client |-> c]
    BY <2>1 DEF GetClient
  <2>3. TypeInv'
    BY <1>1, <2>1, <2>2 DEF TakeRequest
  <2>4. Held'
    BY <1>1, <2>1, <2>2 DEF TakeRequest
  <2>5. Fresh'
    BY <1>1, <2>1, <2>2 DEF TakeRequest
  <2>6. OneKey'
    BY <1>1, <2>1, <2>2 DEF TakeRequest
  <2>7. Manager'
    BY <1>1, <2>1, <2>2 DEF TakeRequest
  <2>8. ResultForRequester'
    <3>1. \A r \in Sessions : pc'[r] = "await" => r = s
      BY <1>1 DEF TakeRequest
    <3>2. UNCHANGED <<data, key, client>> /\ mgr'.at = "reply" /\ mgr'.client = c
      BY <1>1, <2>2 DEF TakeRequest
    <3> QED BY <2>2, <3>1, <3>2
  <2> QED BY <2>3, <2>4, <2>5, <2>6, <2>7, <2>8
<1>2. ASSUME NEW s \in Sessions, SendResult(s) PROVE TInv'
  <2>1. TypeInv'
    BY <1>2 DEF SendResult
  <2>2. Held'
    BY <1>2 DEF SendResult
  <2>3. Fresh'
    BY <1>2 DEF SendResult
  <2>4. OneKey'
    BY <1>2 DEF SendResult
  <2>5. Manager'
    BY <1>2 DEF SendResult
  <2>6. ResultForRequester'
    BY <1>2 DEF SendResult
  <2> QED BY <2>1, <2>2, <2>3, <2>4, <2>5, <2>6
<1>3. ASSUME NEW s \in Sessions, StoreClient(s) PROVE TInv'
  <2>1. TypeInv'
    BY <1>3 DEF StoreClient
  <2>2. Held'
    BY <1>3 DEF StoreClient
  <2>3. Fresh'
    BY <1>3 DEF StoreClient
  <2>4. OneKey'
    BY <1>3 DEF StoreClient
  <2>5. Manager'
    BY <1>3 DEF StoreClient
  <2>6. ResultForRequester'
    BY <1>3 DEF StoreClient
  <2> QED BY <2>1, <2>2, <2>3, <2>4, <2>5, <2>6
<1>4. CASE TickBusy
  BY <1>4 DEF TickBusy
<1>5. CASE TickRecycle
  BY <1>5 DEF TickRecycle
<1>6. ASSUME NEW c \in Clients, CheckRefCount(c) PROVE TInv'
  BY <1>6 DEF CheckRefCount
<1>7. CASE CloseClient
  <2>1. TypeInv'
    <3>1. mgr.client \in dialed
      BY <1>7 DEF CloseClient
    <3>2. data' \in [Keys -> SUBSET (dialed' \ recycled')]
      BY <1>7 DEF CloseClient
    <3>3. mgr' \in [at : {"select", "reply", "recycle", "close"}, todo : SUBSET Clients,
                    client : Clients \cup {NoClient}]
      BY <1>7 DEF CloseClient
    <3> QED BY <1>7, <3>1, <3>2, <3>3 DEF CloseClient
  <2>2. Held'
    BY <1>7 DEF CloseClient
  <2>3. Fresh'
    BY <1>7 DEF CloseClient
  <2>4. OneKey'
    BY <1>7 DEF CloseClient
  <2>5. Manager'
    BY <1>7 DEF CloseClient
  <2>6. ResultForRequester'
    BY <1>7 DEF CloseClient
  <2> QED BY <2>1, <2>2, <2>3, <2>4, <2>5, <2>6
<1>8. CASE RecycleEnds
  BY <1>8 DEF RecycleEnds
<1>9. ASSUME NEW s \in Sessions, CheckReuse(s) PROVE TInv'
  BY <1>9 DEF CheckReuse
<1>10. ASSUME NEW s \in Sessions, Dial(s) PROVE TInv'
  <2>1. TypeInv'
    BY <1>10 DEF Dial
  <2>2. Held'
    BY <1>10 DEF Dial
  <2>3. Fresh'
    BY <1>10 DEF Dial
  <2>4. OneKey'
    BY <1>10 DEF Dial
  <2>5. Manager'
    BY <1>10 DEF Dial
  <2>6. ResultForRequester'
    BY <1>10 DEF Dial
  <2> QED BY <2>1, <2>2, <2>3, <2>4, <2>5, <2>6
<1>11. ASSUME NEW s \in Sessions, AddRef(s) PROVE TInv'
  BY <1>11 DEF AddRef
<1>12. ASSUME NEW s \in Sessions, NewSession(s) PROVE TInv'
  <2>1. TypeInv'
    BY <1>12 DEF NewSession, DropRef, AfterFailure
  <2>2. Held'
    BY <1>12 DEF NewSession, DropRef, AfterFailure
  <2>3. Fresh'
    BY <1>12 DEF NewSession, DropRef, AfterFailure
  <2>4. OneKey'
    BY <1>12 DEF NewSession, DropRef, AfterFailure
  <2>5. Manager'
    BY <1>12 DEF NewSession, DropRef, AfterFailure
  <2>6. ResultForRequester'
    BY <1>12 DEF NewSession, DropRef, AfterFailure
  <2> QED BY <2>1, <2>2, <2>3, <2>4, <2>5, <2>6
<1>13. ASSUME NEW s \in Sessions, NewSSHConnection(s) PROVE TInv'
  <2>1. TypeInv'
    BY <1>13 DEF NewSSHConnection, DropRef, AfterFailure
  <2>2. Held'
    BY <1>13 DEF NewSSHConnection, DropRef, AfterFailure
  <2>3. Fresh'
    BY <1>13 DEF NewSSHConnection, DropRef, AfterFailure
  <2>4. OneKey'
    BY <1>13 DEF NewSSHConnection, DropRef, AfterFailure
  <2>5. Manager'
    BY <1>13 DEF NewSSHConnection, DropRef, AfterFailure
  <2>6. ResultForRequester'
    BY <1>13 DEF NewSSHConnection, DropRef, AfterFailure
  <2> QED BY <2>1, <2>2, <2>3, <2>4, <2>5, <2>6
<1>14. ASSUME NEW s \in Sessions, ConnectionEnds(s) PROVE TInv'
  BY <1>14 DEF ConnectionEnds
<1>15. ASSUME NEW s \in Sessions, ReleaseSession(s) PROVE TInv'
  BY <1>15 DEF ReleaseSession, DropRef
<1>16. ASSUME NEW c \in Clients, TransportLost(c) PROVE TInv'
  BY <1>16 DEF TransportLost
<1>17. CASE UNCHANGED vars
  BY <1>17 DEF vars
<1> QED
  BY <1>1, <1>2, <1>3, <1>4, <1>5, <1>6, <1>7, <1>8, <1>9, <1>10, <1>11, <1>12, <1>13,
     <1>14, <1>15, <1>16, <1>17 DEF Next, Recycle, Channel, Session
-----------------------------------------------------------------------------
Holders(c) == {s \in Sessions : pc[s] \in Holding /\ client[s] = c}

LEMMA HoldersFinite ==
  \A c : /\ IsFiniteSet(Holders(c)) /\ IsFiniteSet(Holders(c)')
         /\ Cardinality(Holders(c)) \in Nat
BY FS_Subset, FS_CardinalityType DEF Holders

LEMMA RefInit == Init => RefCountExact
<1> SUFFICES ASSUME Init, NEW c \in Clients
             PROVE  refCount[c] = Cardinality({s \in Sessions : pc[s] \in Holding /\ client[s] = c})
  BY DEF RefCountExact
<1>1. {s \in Sessions : pc[s] \in Holding /\ client[s] = c} = {}
  BY DEF Init, Holding
<1> QED BY <1>1, FS_EmptySet DEF Init

(* A session takes a reference.                                            *)
LEMMA OneMore ==
  ASSUME TInv, RefCountExact, NEW s \in Sessions, AddRef(s)
  PROVE  RefCountExact'
<1> SUFFICES ASSUME NEW c \in Clients PROVE refCount'[c] = Cardinality(Holders(c)')
  BY DEF RefCountExact, Holders
<1>1. refCount[c] = Cardinality(Holders(c))
  BY DEF RefCountExact, Holders
<1>2. CASE c = client[s]
  <2>1. Holders(c)' = Holders(c) \cup {s} /\ s \notin Holders(c)
    BY <1>2 DEF AddRef, Holders, Holding, TInv, TypeInv
  <2>2. Cardinality(Holders(c)') = Cardinality(Holders(c)) + 1
    BY <2>1, HoldersFinite, FS_AddElement
  <2> QED BY <1>1, <1>2, <2>2 DEF AddRef, TInv, TypeInv
<1>3. CASE c # client[s]
  <2>1. Holders(c)' = Holders(c)
    BY <1>3 DEF AddRef, Holders, Holding, TInv, TypeInv
  <2> QED BY <1>1, <1>3, <2>1 DEF AddRef, TInv, TypeInv
<1> QED BY <1>2, <1>3

(* A session drops its reference and moves on.                             *)
LEMMA OneLess ==
  ASSUME TInv, RefCountExact, NEW s \in Sessions, NEW step \in Steps \ Holding,
         pc[s] \in Holding, DropRef(s), Goto(s, step), UNCHANGED client
  PROVE  RefCountExact'
<1> SUFFICES ASSUME NEW c \in Clients PROVE refCount'[c] = Cardinality(Holders(c)')
  BY DEF RefCountExact, Holders
<1>1. refCount[c] = Cardinality(Holders(c))
  BY DEF RefCountExact, Holders
<1>2. CASE c = client[s]
  <2>1. Holders(c)' = Holders(c) \ {s} /\ s \in Holders(c)
    BY <1>2 DEF Holders, Holding, TInv, TypeInv
  <2>2. Cardinality(Holders(c)') = Cardinality(Holders(c)) - 1
    BY <2>1, HoldersFinite, FS_RemoveElement
  <2> QED BY <1>1, <1>2, <2>2 DEF DropRef, TInv, TypeInv
<1>3. CASE c # client[s]
  <2>1. Holders(c)' = Holders(c)
    BY <1>3 DEF Holders, Holding, TInv, TypeInv
  <2> QED BY <1>1, <1>3, <2>1 DEF DropRef, TInv, TypeInv
<1> QED BY <1>2, <1>3

(* Any other step.                                                         *)
LEMMA Same ==
  ASSUME RefCountExact, UNCHANGED refCount,
         \A r \in Sessions : /\ pc'[r] \in Holding <=> pc[r] \in Holding
                             /\ pc[r] \in Holding => client'[r] = client[r]
  PROVE  RefCountExact'
<1> SUFFICES ASSUME NEW c \in Clients PROVE refCount'[c] = Cardinality(Holders(c)')
  BY DEF RefCountExact, Holders
<1>1. refCount[c] = Cardinality(Holders(c))
  BY DEF RefCountExact, Holders
<1>2. Holders(c)' = Holders(c)
  BY DEF Holders
<1> QED BY <1>1, <1>2

LEMMA RefNext == TInv /\ RefCountExact /\ [Next]_vars => RefCountExact'
<1> SUFFICES ASSUME TInv, RefCountExact, [Next]_vars PROVE RefCountExact'
  OBVIOUS
<1> USE DEF mgrVars, connVars
<1>1. ASSUME NEW s \in Sessions, AddRef(s) PROVE RefCountExact'
  BY <1>1, OneMore
<1>2. ASSUME NEW s \in Sessions, NewSession(s) PROVE RefCountExact'
  <2>1. CASE Goto(s, "shell") /\ UNCHANGED refCount
    BY <1>2, <2>1, Same DEF NewSession, Holding, TInv, TypeInv
  <2>2. CASE DropRef(s) /\ Goto(s, AfterFailure(s))
    <3>1. PICK step \in {"dial", "done"} : step = AfterFailure(s)
      BY DEF AfterFailure
    <3> QED BY <1>2, <2>2, <3>1, OneLess DEF NewSession, Holding
  <2> QED BY <1>2, <2>1, <2>2 DEF NewSession
<1>3. ASSUME NEW s \in Sessions, NewSSHConnection(s) PROVE RefCountExact'
  <2>1. CASE Goto(s, "use") /\ UNCHANGED refCount
    BY <1>3, <2>1, Same DEF NewSSHConnection, Holding, TInv, TypeInv
  <2>2. CASE DropRef(s) /\ Goto(s, AfterFailure(s))
    <3>1. PICK step \in {"dial", "done"} : step = AfterFailure(s)
      BY DEF AfterFailure
    <3> QED BY <1>3, <2>2, <3>1, OneLess DEF NewSSHConnection, Holding
  <2> QED BY <1>3, <2>1, <2>2 DEF NewSSHConnection
<1>4. ASSUME NEW s \in Sessions, ReleaseSession(s) PROVE RefCountExact'
  BY <1>4, OneLess DEF ReleaseSession, Holding
<1>5. ASSUME NEW s \in Sessions,
             TakeRequest(s) \/ SendResult(s) \/ StoreClient(s) \/ CheckReuse(s)
             \/ Dial(s) \/ ConnectionEnds(s)
      PROVE  RefCountExact'
  <2>1. \A r \in Sessions : /\ pc'[r] \in Holding <=> pc[r] \in Holding
                            /\ pc[r] \in Holding => client'[r] = client[r]
    BY <1>5 DEF TakeRequest, SendResult, StoreClient, CheckReuse, Dial, ConnectionEnds,
       Holding, TInv, TypeInv
  <2> QED
    BY <1>5, <2>1, Same DEF TakeRequest, SendResult, StoreClient, CheckReuse, Dial, ConnectionEnds
<1>6. CASE UNCHANGED <<refCount, pc, client>>
  BY <1>6, Same
<1> QED
  BY <1>1, <1>2, <1>3, <1>4, <1>5, <1>6
     DEF Next, Recycle, Channel, Session, vars, TickBusy, TickRecycle, CloseClient,
         RecycleEnds, CheckRefCount, TransportLost

-----------------------------------------------------------------------------
UInv == Recycling /\ InUseNotRecycled

LEMMA UInvInit == Init => UInv
BY DEF Init, UInv, Recycling, InUseNotRecycled

LEMMA UInvNext == TInv /\ RefCountExact /\ UInv /\ [Next]_vars => UInv'
<1> SUFFICES ASSUME TInv, RefCountExact, UInv, [Next]_vars PROVE UInv'
  OBVIOUS
<1> USE DEF UInv, Recycling, InUseNotRecycled, mgrVars, connVars
<1>u USE DEF TInv, TypeInv
<1>1. ASSUME NEW s \in Sessions, TakeRequest(s) PROVE UInv'
  BY <1>1 DEF TakeRequest
<1>2. ASSUME NEW s \in Sessions, SendResult(s) PROVE UInv'
  BY <1>2 DEF SendResult, ResultForRequester
<1>3. ASSUME NEW s \in Sessions, StoreClient(s) PROVE UInv'
  BY <1>3 DEF StoreClient, Fresh
<1>4. CASE TickBusy
  BY <1>4 DEF TickBusy
<1>5. CASE TickRecycle
  BY <1>5 DEF TickRecycle
<1>6. ASSUME NEW c \in Clients, CheckRefCount(c) PROVE UInv'
  <2>1. CASE refCount[c] <= 0
    <3>1. refCount[c] = Cardinality(Holders(c))
      BY DEF RefCountExact, Holders
    <3>2. Cardinality(Holders(c)) = 0
      BY <2>1, <3>1, HoldersFinite
    <3>3. Holders(c) = {}
      BY <3>2, HoldersFinite, FS_EmptySet
    <3>4. \A s \in Sessions : pc[s] \in {"open", "shell", "use"} => client[s] # c
      BY <3>3 DEF Holders, Holding
    <3> QED BY <1>6, <2>1, <3>4 DEF CheckRefCount
  <2>2. CASE ~(refCount[c] <= 0)
    BY <1>6, <2>2 DEF CheckRefCount
  <2> QED BY <2>1, <2>2
<1>7. CASE CloseClient
  BY <1>7 DEF CloseClient
<1>8. CASE RecycleEnds
  BY <1>8 DEF RecycleEnds
<1>9. ASSUME NEW s \in Sessions, CheckReuse(s) \/ Dial(s) \/ ConnectionEnds(s) PROVE UInv'
  BY <1>9 DEF CheckReuse, Dial, ConnectionEnds
<1>10. ASSUME NEW s \in Sessions, AddRef(s) \/ ReleaseSession(s) PROVE UInv'
  BY <1>10 DEF AddRef, ReleaseSession
<1>11. ASSUME NEW s \in Sessions, NewSession(s) \/ NewSSHConnection(s) PROVE UInv'
  BY <1>11 DEF NewSession, NewSSHConnection, AfterFailure
<1>12. ASSUME NEW c \in Clients, TransportLost(c) PROVE UInv'
  BY <1>12 DEF TransportLost
<1>13. CASE UNCHANGED vars
  BY <1>13 DEF vars
<1> QED
  BY <1>1, <1>2, <1>3, <1>4, <1>5, <1>6, <1>7, <1>8, <1>9, <1>10, <1>11, <1>12, <1>13
     DEF Next, Recycle, Channel, Session

-----------------------------------------------------------------------------
LEMMA AllHold == Spec => [](TInv /\ RefCountExact /\ UInv)
BY TInvInit, TInvNext, RefInit, RefNext, UInvInit, UInvNext, PTL DEF Spec

(* SSHClient.refCount is exact on every path of AcquireSession,            *)
(* NewSSHConnection and ReleaseSession.                                    *)
THEOREM RefCountCorrect == Spec => []RefCountExact
BY AllHold, PTL

(* Results on the manager's shared resultChan reach the session that asked,*)
(* with a client of its own key.                                           *)
THEOREM PairingCorrect == Spec => []ResultForRequester
BY AllHold, PTL DEF TInv

(* recycleClients closes no client under a session that had taken its      *)
(* reference before the recycling began.                                   *)
THEOREM RecyclingCorrect == Spec => []InUseNotRecycled
BY AllHold, PTL DEF UInv
=============================================================================
