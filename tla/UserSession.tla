---------------------------- MODULE UserSession -----------------------------
(***************************************************************************)
(* Who reads what a user types.  The menu (Menu), the goroutine that lets  *)
(* a user cancel a login confirmation (proxy/loginConfirm.go) and the one  *)
(* that copies input to an asset (SwitchSession.Bridge) read from the same *)
(* WrapperSession; the menu's goroutine sends the other two away with      *)
(* Close when their part is over.                                          *)
(***************************************************************************)
EXTENDS Naturals, FiniteSets

CONSTANTS
  MaxChunks,    \* bound: chunks of input the user types
  MaxSessions   \* bound: goroutines started for confirmations and assets

ASSUME ConstAssumption == MaxChunks \in Nat /\ MaxSessions \in Nat

VARIABLES
  dispatch, single, checker, checkStatus, tick, client, sessClosed,  \* Menu
  readLoop, reader, closer, pipeClosed, closed, typed,               \* WrapperSession
  aux,        \* goroutine i: "free", "confirm", "bridge", "send", "end"
  userChan,   \* chunks in the channel of goroutine i, of size 1
  current,    \* the goroutine of the running confirmation or session, or 0
  stolen      \* chunks that goroutine i of a Bridge took after its session

Menu == INSTANCE Menu

menu == 0
Goroutines == 1..MaxSessions

Wrapper == INSTANCE WrapperSession WITH Readers <- {menu} \union Goroutines

menuVars == <<dispatch, single, checker, checkStatus, tick, client, sessClosed>>
wrapper  == <<readLoop, reader, closer, pipeClosed, closed, typed>>
helpers  == <<aux, userChan, current, stolen>>
vars == <<menuVars, wrapper, helpers>>

Init ==
  /\ Menu!Init /\ Wrapper!Init
  /\ aux = [i \in Goroutines |-> "free"]
  /\ userChan = [i \in Goroutines |-> 0]
  /\ current = 0
  /\ stolen = [i \in Goroutines |-> 0]

-----------------------------------------------------------------------------
(* The menu's goroutine, and the wrapper on its own.                       *)
MenuStep == Menu!Dispatch /\ UNCHANGED <<wrapper, helpers>>

CheckerStep == Menu!Checker /\ UNCHANGED <<wrapper, helpers>>

ClientStep ==
  /\ Menu!ClientCloses \/ Menu!ConnectionEnds \/ Menu!ChannelEnds
  /\ UNCHANGED <<wrapper, helpers>>

WrapperStep ==
  /\ Wrapper!ReadLoop \/ Wrapper!Pipe
  /\ UNCHANGED <<menuVars, helpers>>

SessRead ==
  /\ Wrapper!SessRead(Menu!chanClosed)
  /\ UNCHANGED <<menuVars, helpers>>

(* h.term.ReadLine in the menu and in chooseSystemUser.                    *)
MenuReads ==
  /\ dispatch \in Menu!Prompts
  /\ Wrapper!Read(menu)
  /\ UNCHANGED <<menuVars, helpers>>

MenuGets ==
  /\ \/ Wrapper!Returned(menu, "data") /\ (Menu!ReadLine \/ Menu!AnswerSystemUser)
     \/ Wrapper!Returned(menu, "err") /\ (Menu!ReadLineFails \/ Menu!AskFails)
  /\ UNCHANGED helpers

AskSystemUser == Menu!AskSystemUser /\ UNCHANGED <<wrapper, helpers>>

-----------------------------------------------------------------------------
(* validateLoginConfirm and Bridge start a goroutine that reads.           *)
Start(i, kind) ==
  /\ aux[i] = "free" /\ \A j \in Goroutines : j < i => aux[j] # "free"
  /\ \/ Menu!Phase("command", kind)
     \/ kind = "bridge" /\ Menu!Phase("connect", kind)
  /\ aux' = [aux EXCEPT ![i] = kind]
  /\ current' = i
  /\ UNCHANGED <<wrapper, userChan, stolen>>

(* A confirmation is decided or cancelled, or a session with an asset is   *)
(* over, at any moment: the deferred Close begins.                         *)
Finish ==
  /\ Menu!Phase("confirm", "confirmed") \/ Menu!Phase("bridge", "bridged")
  /\ Wrapper!Close
  /\ UNCHANGED helpers

(* Close has returned.  After a confirmation Proxy goes on or fails.       *)
CloseReturns ==
  /\ closer = "out"
  /\ Menu!Phase("confirmed", "connect") \/ Menu!Phase("bridged", Menu!NextPrompt)
  /\ current' = 0
  /\ UNCHANGED <<wrapper, aux, userChan, stolen>>

-----------------------------------------------------------------------------
(* The goroutines.                                                         *)
HelperReads(i) ==
  /\ aux[i] \in {"confirm", "bridge"}
  /\ Wrapper!Read(i)
  /\ UNCHANGED <<menuVars, helpers>>

(* Every line but q and quit is ignored.                                   *)
ConfirmGets(i) ==
  /\ aux[i] = "confirm"
  /\ \/ Wrapper!Returned(i, "data") /\ aux' \in {aux, [aux EXCEPT ![i] = "end"]}
     \/ Wrapper!Returned(i, "err") /\ aux' = [aux EXCEPT ![i] = "end"]
  /\ UNCHANGED <<menuVars, userChan, current, stolen>>

BridgeGets(i) ==
  /\ aux[i] = "bridge"
  /\ \/ /\ Wrapper!Returned(i, "data")
        /\ aux' = [aux EXCEPT ![i] = "send"]
        /\ stolen' = IF current = i THEN stolen ELSE [stolen EXCEPT ![i] = @ + 1]
     \/ /\ Wrapper!Returned(i, "err")
        /\ aux' = [aux EXCEPT ![i] = "end"]
        /\ UNCHANGED stolen
  /\ UNCHANGED <<menuVars, userChan, current>>

(* Fault: input is dropped when the channel is full.                       *)
BridgeSendDrops(i) ==
  /\ aux[i] = "send"
  /\ userChan' = [userChan EXCEPT ![i] = 1]
  /\ aux' = [aux EXCEPT ![i] = "bridge"]
  /\ UNCHANGED <<menuVars, wrapper, current, stolen>>

(* A plain send: nothing else wakes this goroutine up.                     *)
BridgeSend(i) ==
  /\ aux[i] = "send" /\ userChan[i] = 0
  /\ userChan' = [userChan EXCEPT ![i] = 1]
  /\ aux' = [aux EXCEPT ![i] = "bridge"]
  /\ UNCHANGED <<menuVars, wrapper, current, stolen>>

(* The select loop of Bridge takes the chunk.                              *)
BridgeForwards ==
  /\ dispatch = "bridge" /\ userChan[current] = 1
  /\ userChan' = [userChan EXCEPT ![current] = 0]
  /\ UNCHANGED <<menuVars, wrapper, aux, current, stolen>>

Helper(i) == HelperReads(i) \/ ConfirmGets(i) \/ BridgeGets(i) \/ BridgeSend(i)

-----------------------------------------------------------------------------
Next ==
  \/ MenuStep \/ CheckerStep \/ ClientStep \/ WrapperStep \/ SessRead
  \/ MenuReads \/ MenuGets \/ AskSystemUser \/ Finish \/ CloseReturns
  \/ \E i \in Goroutines : Start(i, "confirm") \/ Start(i, "bridge") \/ Helper(i)
  \/ BridgeForwards

Spec == Init /\ [][Next]_vars

(* The menu's goroutine goes on whenever it can; commands and sessions end *)
(* (see Bridge), a confirmation ends at least with the connection (see     *)
(* LoginTicket).  The other goroutines run, and a client answers the close *)
(* of its channel with its own.                                            *)
Fairness ==
  /\ WF_vars(MenuStep \/ MenuReads \/ MenuGets \/ CloseReturns \/ BridgeForwards
             \/ ((dispatch = "bridge" \/ Menu!ctxDone) /\ Finish))
  /\ WF_vars(CheckerStep)
  /\ WF_vars(WrapperStep)
  /\ WF_vars(Menu!chanClosed /\ SessRead)
  /\ WF_vars((client = "lost" \/ (client = "here" /\ sessClosed)) /\ ClientStep)
  /\ \A i \in Goroutines : WF_vars(Helper(i))

FairSpec == Spec /\ Fairness

-----------------------------------------------------------------------------
(* The clock never ends a session while a command runs, a connection to an *)
(* asset included: the handshake on checkChan stops it first, and a tick   *)
(* that is already waiting is then ignored.                                *)
CommandNotInterrupted ==
  [][sessClosed' # sessClosed => dispatch \notin Menu!Busy]_vars

(* A prompt of the menu does not stay open for ever: a user who types      *)
(* nothing is disconnected, each time the menu comes back too.  It can     *)
(* only wait on a pipe that Close made when the read loop was ending.      *)
IdlePromptEnds ==
  dispatch = "read" ~> dispatch # "read" \/ Wrapper!PipeOrphaned

(* When the client is gone Dispatch ends, whatever it was doing, except    *)
(* where it waits on checkChan for a checker that has already ended or on  *)
(* a pipe that Close made when the read loop was ending.                   *)
DispatchEnds ==
  Menu!ctxDone ~> \/ dispatch = "end"
                  \/ checker = "gone" /\ dispatch \in {"offer", "take"}
                  \/ dispatch \in Menu!Prompts /\ Wrapper!PipeOrphaned

(* readLoop ends with the connection, unless it holds input that was typed *)
(* ahead and nobody reads any more: Dispatch has ended or is stuck, and    *)
(* nothing closes the pipe it writes to.                                   *)
ReadLoopEnds ==
  Menu!ctxDone ~> \/ readLoop = "end"
                  \/ readLoop = "write" /\ dispatch \in {"offer", "take", "end"}

(* A goroutine of Bridge that was not waiting in Read when its session was *)
(* closed reads from the new pipe: it takes at most two chunks of what the *)
(* user types next, one fits in userChan and the send of the second never  *)
(* returns.                                                                *)
LeftoverReaderBounded ==
  \A i \in Goroutines : stolen[i] <= userChan[i] + (IF aux[i] = "send" THEN 1 ELSE 0)
=============================================================================
