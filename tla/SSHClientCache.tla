--------------------------- MODULE SSHClientCache ---------------------------
(***************************************************************************)
(* The cache of SSH clients to assets: the SSHManager goroutine and the    *)
(* reference counts of the clients (srvconn/ssh.go), and what a proxy      *)
(* session does with them (getCacheSSHConn and getSSHConn in               *)
(* proxy/server.go).                                                       *)
(*                                                                         *)
(* The manager owns the table and talks to the sessions over unbuffered    *)
(* channels, so sending and receiving is one step of both.  The reference  *)
(* counts are shared atomics that sessions change while the manager reads  *)
(* them.                                                                   *)
(***************************************************************************)
EXTENDS Integers, FiniteSets

CONSTANTS
  Sessions,   \* proxy sessions
  Clients,    \* SSH clients a dial can return
  Keys,       \* MakeReuseSSHClientKey results
  NoClient    \* nil

ASSUME ConstAssumption ==
  /\ NoClient \notin Clients
  /\ IsFiniteSet(Sessions)

VARIABLES
  data,      \* the manager's table: key -> set of clients
  idle,      \* whether a tick has passed since latestVisited
  mgr,       \* what the manager goroutine is doing
  refCount,  \* SSHClient.refCount
  dialed,    \* clients that exist
  down,      \* clients whose transport is gone
  recycled,  \* those of them the manager closed
  key,       \* the key of each session's user, asset and system user
  pc,        \* where each session is
  cached,    \* whether the session is on getCacheSSHConn's path
  client,    \* the client a session holds
  slow       \* history: sessions that had a client, but no reference to it
             \* yet, when a recycling began

vars == <<data, idle, mgr, refCount, dialed, down, recycled, key, pc, cached, client,
          slow>>

mgrVars  == <<data, idle, mgr>>
connVars == <<dialed, down, recycled, key>>

Select == [at |-> "select", todo |-> {}, client |-> NoClient]

(* ask, await: getClientFromCache; dial, store: getSSHConn; acquire, open: *)
(* the two halves of AcquireSession; shell: NewSSHConnection; use: the     *)
(* connection is proxied; closed: the goroutine in sess.Wait is next.      *)
Steps == {"new", "ask", "await", "dial", "store", "acquire", "open", "shell",
          "use", "closed", "done"}

Goto(s, step) == pc' = [pc EXCEPT ![s] = step]

Init ==
  /\ data     = [k \in Keys |-> {}]
  /\ idle     = FALSE
  /\ mgr      = Select
  /\ refCount = [c \in Clients |-> 0]
  /\ dialed   = {} /\ down = {} /\ recycled = {}
  /\ key      \in [Sessions -> Keys]
  /\ pc       = [s \in Sessions |-> "new"]
  /\ cached   = [s \in Sessions |-> FALSE]
  /\ client   = [s \in Sessions |-> NoClient]
  /\ slow     = {}

-----------------------------------------------------------------------------
(* The manager goroutine (SSHManager.run).                                 *)

(* GetClient keeps the last client whose count is at least the largest so  *)
(* far, in the random order of a map: any client with the largest count.   *)
GetClient(S) == {c \in S : \A d \in S : refCount[d] <= refCount[c]}

(* Fault: the manager looks in another key's clients.                      *)
TakeRequestAnyKey(s) ==
  /\ pc[s] = "ask" /\ mgr.at = "select"
  /\ \E c \in {NoClient} \cup UNION {data[k] : k \in Keys} :
       mgr' = [Select EXCEPT !.at = "reply", !.client = c]
  /\ Goto(s, "await")
  /\ UNCHANGED <<data, idle, refCount, connVars, cached, client, slow>>

(* Fault: a request for an unknown key is not answered.                    *)
TakeKnownKeys(s) ==
  /\ pc[s] = "ask" /\ mgr.at = "select"
  /\ \E c \in GetClient(data[key[s]]) :
       mgr' = [Select EXCEPT !.at = "reply", !.client = c]
  /\ Goto(s, "await")
  /\ UNCHANGED <<data, idle, refCount, connVars, cached, client, slow>>

(* reqChan: the session's send and the manager's receive, and the search.  *)
TakeRequest(s) ==
  /\ pc[s] = "ask" /\ mgr.at = "select"
  /\ \E c \in IF data[key[s]] = {} THEN {NoClient} ELSE GetClient(data[key[s]]) :
       mgr' = [Select EXCEPT !.at = "reply", !.client = c]
  /\ Goto(s, "await")
  /\ UNCHANGED <<data, idle, refCount, connVars, cached, client, slow>>

(* resultChan: whichever session waits for a result gets this one.         *)
SendResult(s) ==
  /\ pc[s] = "await" /\ mgr.at = "reply"
  /\ client' = [client EXCEPT ![s] = mgr.client]
  /\ Goto(s, IF mgr.client = NoClient THEN "dial" ELSE "acquire")
  /\ cached' = [cached EXCEPT ![s] = mgr.client # NoClient]
  /\ mgr' = Select
  /\ idle' = FALSE
  /\ slow' = slow \ {s}
  /\ UNCHANGED <<data, refCount, connVars>>

(* storeChan.                                                              *)
StoreClient(s) ==
  /\ pc[s] = "store" /\ mgr.at = "select"
  /\ data' = [data EXCEPT ![key[s]] = @ \cup {client[s]}]
  /\ idle' = FALSE
  /\ slow' = slow \ {s}
  /\ Goto(s, "acquire")
  /\ UNCHANGED <<mgr, refCount, connVars, cached, client>>

(* A tick within a minute of the last visit does nothing.                  *)
TickBusy ==
  /\ mgr.at = "select" /\ ~idle
  /\ idle' = TRUE
  /\ UNCHANGED <<data, mgr, refCount, connVars, pc, cached, client, slow>>

(* Any later tick goes through all clients of all keys.                    *)
TickRecycle ==
  /\ mgr.at = "select" /\ idle
  /\ mgr' = [at |-> "recycle", todo |-> UNION {data[k] : k \in Keys}, client |-> NoClient]
  /\ slow' = slow \cup {s \in Sessions : pc[s] = "acquire"}
  /\ UNCHANGED <<data, idle, refCount, connVars, pc, cached, client>>

(* Fault: recycling does not look at the count.                            *)
IgnoreRefCount(c) ==
  /\ mgr.at = "recycle" /\ c \in mgr.todo
  /\ mgr' = [at |-> "close", todo |-> mgr.todo \ {c}, client |-> c]
  /\ UNCHANGED <<data, idle, refCount, connVars, pc, cached, client, slow>>

(* recycleClients reads one client's count ...                             *)
CheckRefCount(c) ==
  /\ mgr.at = "recycle" /\ c \in mgr.todo
  /\ mgr' = IF refCount[c] <= 0
            THEN [at |-> "close", todo |-> mgr.todo \ {c}, client |-> c]
            ELSE [mgr EXCEPT !.todo = @ \ {c}]
  /\ UNCHANGED <<data, idle, refCount, connVars, pc, cached, client, slow>>

(* ... and then closes it and takes it out of the table.                   *)
CloseClient ==
  /\ mgr.at = "close"
  /\ down' = down \cup {mgr.client}
  /\ recycled' = recycled \cup {mgr.client}
  /\ data' = [k \in Keys |-> data[k] \ {mgr.client}]
  /\ mgr' = [mgr EXCEPT !.at = "recycle", !.client = NoClient]
  /\ UNCHANGED <<idle, refCount, dialed, key, pc, cached, client, slow>>

RecycleEnds ==
  /\ mgr.at = "recycle" /\ mgr.todo = {}
  /\ mgr' = Select
  /\ UNCHANGED <<data, idle, refCount, connVars, pc, cached, client, slow>>

-----------------------------------------------------------------------------
(* A proxy session.                                                        *)

(* checkReuseSSHClient: only with REUSE_CONNECTION and for Linux assets.   *)
CheckReuse(s) ==
  /\ pc[s] = "new"
  /\ \/ Goto(s, "ask")
     \/ Goto(s, "dial")
  /\ UNCHANGED <<mgrVars, refCount, connVars, cached, client, slow>>

(* NewSSHClient, reached only if the checks before it let the session go   *)
(* on.  A new client is stored whether or not clients are reused.          *)
Dial(s) ==
  /\ pc[s] = "dial"
  /\ \/ /\ Goto(s, "done") /\ UNCHANGED <<dialed, client>>
     \/ \E c \in Clients \ dialed :
          /\ dialed' = dialed \cup {c}
          /\ client' = [client EXCEPT ![s] = c]
          /\ Goto(s, "store")
  /\ UNCHANGED <<mgrVars, refCount, down, recycled, key, cached, slow>>

(* Where getCacheSSHConn (ok = false) and getSSHConn (an error) lead.      *)
AfterFailure(s) == IF cached[s] THEN "dial" ELSE "done"

AddRef(s) ==
  /\ pc[s] = "acquire"
  /\ refCount' = [refCount EXCEPT ![client[s]] = @ + 1]
  /\ Goto(s, "open")
  /\ UNCHANGED <<mgrVars, connVars, cached, client, slow>>

DropRef(s) == refCount' = [refCount EXCEPT ![client[s]] = @ - 1]

(* NewSession, which needs the transport and may fail anyway.              *)
NewSession(s) ==
  /\ pc[s] = "open"
  /\ \/ client[s] \notin down /\ Goto(s, "shell") /\ UNCHANGED <<refCount, cached>>
     \/ /\ DropRef(s)
        /\ Goto(s, AfterFailure(s))
        /\ cached' = [cached EXCEPT ![s] = FALSE]
  /\ UNCHANGED <<mgrVars, connVars, client, slow>>

(* Fault: the session is not released when there is no shell.              *)
ShellErrorKeepsRef(s) ==
  /\ pc[s] = "shell"
  /\ \/ client[s] \notin down /\ Goto(s, "use") /\ UNCHANGED cached
     \/ /\ Goto(s, AfterFailure(s))
        /\ cached' = [cached EXCEPT ![s] = FALSE]
  /\ UNCHANGED <<mgrVars, refCount, connVars, client, slow>>

(* NewSSHConnection; on an error the session is closed and released.       *)
NewSSHConnection(s) ==
  /\ pc[s] = "shell"
  /\ \/ client[s] \notin down /\ Goto(s, "use") /\ UNCHANGED <<refCount, cached>>
     \/ /\ DropRef(s)
        /\ Goto(s, AfterFailure(s))
        /\ cached' = [cached EXCEPT ![s] = FALSE]
  /\ UNCHANGED <<mgrVars, connVars, client, slow>>

(* Proxy's deferred Close, or the other side: also when expiry or the      *)
(* login confirmation stop a session that already has a cached connection. *)
ConnectionEnds(s) ==
  /\ pc[s] = "use"
  /\ Goto(s, "closed")
  /\ UNCHANGED <<mgrVars, refCount, connVars, cached, client, slow>>

(* The goroutine waiting in sess.Wait releases the session.                *)
ReleaseSession(s) ==
  /\ pc[s] = "closed"
  /\ DropRef(s)
  /\ Goto(s, "done")
  /\ UNCHANGED <<mgrVars, connVars, cached, client, slow>>

(* The asset or the network ends the transport of a client.                *)
TransportLost(c) ==
  /\ c \in dialed \ down
  /\ down' = down \cup {c}
  /\ UNCHANGED <<mgrVars, refCount, dialed, recycled, key, pc, cached, client, slow>>

-----------------------------------------------------------------------------
Channel(s) == TakeRequest(s) \/ SendResult(s) \/ StoreClient(s)

Recycle == CloseClient \/ RecycleEnds \/ \E c \in Clients : CheckRefCount(c)

Session(s) ==
  \/ CheckReuse(s) \/ Dial(s) \/ AddRef(s) \/ NewSession(s)
  \/ NewSSHConnection(s) \/ ConnectionEnds(s) \/ ReleaseSession(s)

Next ==
  \/ TickBusy \/ TickRecycle \/ Recycle
  \/ \E s \in Sessions : Channel(s) \/ Session(s)
  \/ \E c \in Clients : TransportLost(c)

Spec == Init /\ [][Next]_vars

(* Runnable goroutines run, the ticker ticks, and every proxied connection *)
(* ends some day.  A channel operation is taken from select with any other *)
(* case ready again and again, which Go's random choice cannot starve.     *)
Fairness ==
  /\ WF_vars(Recycle)
  /\ WF_vars(TickBusy \/ TickRecycle)
  /\ \A s \in Sessions : /\ WF_vars(Session(s))
                         /\ SF_vars(Channel(s))

FairSpec == Spec /\ Fairness

-----------------------------------------------------------------------------
Holding == {"open", "shell", "use", "closed"}

(* refCount is the number of sessions that have the client and have not    *)
(* released it, on every error path of AcquireSession and NewSSHConnection *)
(* too: it never drifts, so a client is neither kept for ever nor closed   *)
(* because of an error.                                                    *)
RefCountExact ==
  \A c \in Clients :
    refCount[c] = Cardinality({s \in Sessions : pc[s] \in Holding /\ client[s] = c})

(* Requests and results are paired by nothing but the order on two         *)
(* channels that all sessions share; still a session only ever waits for   *)
(* the result of its own request, and is handed a client of its own key.   *)
ResultForRequester ==
  /\ \A r, s \in Sessions : pc[r] = "await" /\ pc[s] = "await" => r = s
  /\ \A s \in Sessions : pc[s] = "await" =>
       mgr.at = "reply" /\ mgr.client \in data[key[s]] \cup {NoClient}
  /\ \A s \in Sessions : client[s] # NoClient =>
       \A k \in Keys : client[s] \in data[k] => k = key[s]

(* The manager does not close a client under a session that uses it, if    *)
(* the session took its reference before the recycling began               *)
(* (recycleClients reads the count and closes in two steps, without a      *)
(* lock, and only a minute after the session was handed the client).       *)
InUseNotRecycled ==
  \A s \in Sessions \ slow : pc[s] \in {"acquire", "open", "shell", "use"} =>
                              client[s] \notin recycled

(* Nobody waits for ever on the manager's unbuffered channels, and the     *)
(* manager does not wait for ever on theirs.                               *)
RequestsServed ==
  \A s \in Sessions : pc[s] \in {"ask", "await", "store"} ~>
                        pc[s] \notin {"ask", "await", "store"}

(* A client that no session holds any more does not stay connected: once   *)
(* sessions stop coming, the recycling closes it and empties the table.    *)
UnusedRecycled ==
  \A c \in Clients : (\E k \in Keys : c \in data[k]) ~> (\A k \in Keys : c \notin data[k])
=============================================================================
