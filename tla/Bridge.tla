------------------------------- MODULE Bridge -------------------------------
(***************************************************************************)
(* SwitchSession.Bridge (proxy/switchManager.go): the loop that connects a *)
(* user's connection with a connection to an asset, its two reader         *)
(* goroutines, and the recording of the asset's output (proxy/record.go).  *)
(*                                                                         *)
(* The asset's output are chunks numbered 1, 2, 3, ...; the user's input   *)
(* is only counted.  Every channel operation is one step.                  *)
(***************************************************************************)
EXTENDS Naturals, Sequences

CONSTANTS
  MaxOut,        \* bound: chunks of output the asset produces
  MaxIn,         \* bound: chunks of input and window changes of the user
  MaxIdleTicks   \* MaxIdleTime in ticks of 30 seconds

ASSUME ConstAssumption ==
  MaxOut \in Nat /\ MaxIn \in Nat /\ MaxIdleTicks \in Nat

VARIABLES
  main,            \* the goroutine of Bridge
  exitBy,          \* how: the asset's signal, its closed channel, or another case
  srvReader,       \* the goroutine reading the asset: [pc, last]
  userReader,      \* the goroutine reading the user
  srvChan, userChan, exitSignal,  \* buffered channels of size 1 (userChan: its length)
  produced, typed,                \* chunks read from the asset and the user
  idle,            \* ticks since lastActiveTime
  userGone,        \* the user's connection, and its context, have ended
  recorder,        \* replay recorder: "disabled", "failed" or "open"
  recorded, rowsLost, shown,      \* rows written, rows failed, chunks shown
  raw, gz, compress               \* the .cast file, the .gz file, compressReplay

readers  == <<srvReader, userReader>>
chans    == <<srvChan, userChan, exitSignal>>
traffic  == <<produced, typed>>
record   == <<recorder, recorded, rowsLost, shown>>
files    == <<raw, gz, compress>>
vars == <<main, exitBy, idle, readers, chans, traffic, userGone, record, files>>

(* NewReplayRecord may be switched off, fail, or create an empty file.     *)
GetReplayRecorder ==
  /\ recorder \in {"disabled", "failed", "open"}
  /\ raw = IF recorder = "open" THEN "empty" ELSE "none"

Init ==
  /\ main = "loop" /\ exitBy = "none" /\ idle = 0
  /\ srvReader = [pc |-> "read", last |-> FALSE]
  /\ userReader = "read"
  /\ srvChan = <<>> /\ userChan = 0 /\ exitSignal = <<>>
  /\ produced = 0 /\ typed = 0
  /\ userGone = FALSE
  /\ GetReplayRecorder
  /\ recorded = <<>> /\ rowsLost = 0 /\ shown = <<>>
  /\ gz = "none" /\ compress = "off"

-----------------------------------------------------------------------------
(* The goroutine that reads the asset.                                     *)

connsClosed == main = "ended"

(* Read returns data, data with an error, or only an error.                *)
SrvRead ==
  /\ srvReader.pc = "read"
  /\ \/ /\ produced < MaxOut
        /\ produced' = produced + 1
        /\ \E last \in BOOLEAN :
             srvReader' = [pc |-> "send", last |-> last]
     \/ srvReader' = [srvReader EXCEPT !.pc = "signal"] /\ UNCHANGED produced
  /\ UNCHANGED <<main, exitBy, idle, userReader, chans, typed,
                 userGone, record, files>>

(* Fault: a full channel is overwritten.                                   *)
SrvSendOverwrites ==
  /\ srvReader.pc = "send"
  /\ srvChan' = <<produced>>
  /\ srvReader' = [srvReader EXCEPT !.pc = IF srvReader.last THEN "signal" ELSE "read"]
  /\ UNCHANGED <<main, exitBy, idle, userReader, userChan, exitSignal, traffic,
                 userGone, record, files>>

(* select: the channel has room, or done is closed.                        *)
SrvSend ==
  /\ srvReader.pc = "send"
  /\ \/ /\ srvChan = <<>>
        /\ srvChan' = <<produced>>
        /\ srvReader' = [srvReader EXCEPT !.pc = IF srvReader.last THEN "signal" ELSE "read"]
     \/ /\ connsClosed
        /\ srvReader' = [srvReader EXCEPT !.pc = "signal"]
        /\ UNCHANGED srvChan
  /\ UNCHANGED <<main, exitBy, idle, userReader, userChan, exitSignal,
                 traffic, userGone, record, files>>

(* Fault: exitSignal has no buffer.                                        *)
SrvSignalUnbuffered ==
  /\ srvReader.pc = "signal"
  /\ main = "loop"
  /\ exitSignal' = <<"srv">>
  /\ srvReader' = [srvReader EXCEPT !.pc = "close"]
  /\ UNCHANGED <<main, exitBy, idle, userReader, srvChan, userChan, traffic,
                 userGone, record, files>>

SrvSignal ==
  /\ srvReader.pc = "signal"
  /\ exitSignal = <<>>
  /\ exitSignal' = <<"srv">>
  /\ srvReader' = [srvReader EXCEPT !.pc = "close"]
  /\ UNCHANGED <<main, exitBy, idle, userReader, srvChan, userChan, traffic,
                 userGone, record, files>>

(* close(srvChan), which the loop notices once the channel is empty.       *)
SrvClose ==
  /\ srvReader.pc = "close"
  /\ srvReader' = [srvReader EXCEPT !.pc = "end"]
  /\ UNCHANGED <<main, exitBy, idle, userReader, chans, traffic, userGone,
                 record, files>>

-----------------------------------------------------------------------------
(* The goroutine that reads the user.  Closing a WrapperSession ends a     *)
(* Read that is waiting, but a Read that starts later gets the new pipe,   *)
(* that is, input the user types after this session (see UserSession).     *)
UserRead ==
  /\ userReader = "read"
  /\ \/ /\ typed < MaxIn
        /\ typed' = typed + 1
        /\ userReader' = "send"
     \/ /\ connsClosed \/ userGone
        /\ userReader' = "signal"
        /\ UNCHANGED typed
  /\ UNCHANGED <<main, exitBy, idle, srvReader, chans, produced,
                 userGone, record, files>>

(* A plain send: nothing else wakes this goroutine up.                     *)
UserSend ==
  /\ userReader = "send"
  /\ userChan = 0
  /\ userChan' = 1
  /\ userReader' = "read"
  /\ UNCHANGED <<main, exitBy, idle, srvReader, srvChan, exitSignal,
                 traffic, userGone, record, files>>

UserSignal ==
  /\ userReader = "signal"
  /\ exitSignal = <<>>
  /\ exitSignal' = <<"user">>
  /\ userReader' = "end"
  /\ UNCHANGED <<main, exitBy, idle, srvReader, srvChan, userChan, traffic,
                 userGone, record, files>>

-----------------------------------------------------------------------------
(* The select loop.                                                        *)

Leave(why) == main' = "leave" /\ exitBy' = why

(* The ticker: too long idle, or the permission has expired by now.        *)
Tick ==
  /\ main = "loop"
  /\ \/ Leave("other") /\ UNCHANGED idle
     \/ idle <= MaxIdleTicks /\ idle' = idle + 1 /\ UNCHANGED <<main, exitBy>>
  /\ UNCHANGED <<readers, chans, traffic, userGone, record, files>>

(* Fault: the case does not continue, and falls into lastActiveTime = now. *)
KeepAliveIsActivity ==
  /\ main = "loop"
  /\ idle' = 0
  /\ UNCHANGED <<main, exitBy, readers, chans, traffic, userGone, record, files>>

(* Keeps the asset's connection open and is no activity of the user.       *)
KeepAliveTick == main = "loop" /\ UNCHANGED vars

(* Terminate, whose own steps are in ProxySession, has cancelled ctx.      *)
AdminStops ==
  /\ main = "loop"
  /\ Leave("other")
  /\ UNCHANGED <<idle, readers, chans, traffic, userGone, record, files>>

ContextDone ==
  /\ main = "loop" /\ userGone
  /\ Leave("other")
  /\ UNCHANGED <<idle, readers, chans, traffic, userGone, record, files>>

WindowChange ==
  /\ main = "loop" /\ typed < MaxIn
  /\ typed' = typed + 1
  /\ idle' = 0
  /\ UNCHANGED <<main, exitBy, readers, chans, produced,
                 userGone, record, files>>

(* Fault: the row is written inside once.Do with the header.               *)
RecordFirstOnly ==
  /\ main = "loop" /\ srvChan # <<>> /\ recorder # "failed"
  /\ \/ recorder = "disabled" /\ UNCHANGED <<recorded, raw>>
     \/ /\ recorder = "open"
        /\ recorded' = IF recorded = <<>> THEN <<Head(srvChan)>> ELSE recorded
        /\ raw' = "rows"
  /\ main' = "show"
  /\ UNCHANGED <<exitBy, idle, readers, chans, traffic, userGone, recorder, rowsLost,
                 shown, gz, compress>>

(* Output: recorded (a failed write is only logged) ...                    *)
RecordOutput ==
  /\ main = "loop" /\ srvChan # <<>> /\ recorder # "failed"
  /\ \/ recorder = "disabled" /\ UNCHANGED <<recorded, rowsLost, raw>>
     \/ /\ recorder = "open"
        /\ \/ recorded' = Append(recorded, Head(srvChan)) /\ UNCHANGED rowsLost
           \/ rowsLost' = rowsLost + 1 /\ UNCHANGED recorded
        /\ raw' = IF recorded' = <<>> THEN raw ELSE "rows"
  /\ main' = "show"
  /\ UNCHANGED <<exitBy, idle, readers, chans, traffic, userGone, recorder,
                 shown, gz, compress>>

(* ... and then written to the user, whether or not that succeeds.         *)
ShowOutput ==
  /\ main = "show"
  /\ \/ shown' = Append(shown, Head(srvChan))
     \/ UNCHANGED shown
  /\ srvChan' = Tail(srvChan)
  /\ main' = "loop" /\ idle' = 0
  /\ UNCHANGED <<exitBy, readers, userChan, exitSignal, traffic, userGone,
                 recorder, recorded, rowsLost, files>>

(* A recorder whose file could not be created has no Writer: a nil         *)
(* dereference that nothing recovers from ends the process.                *)
RecordPanics ==
  /\ main = "loop" /\ srvChan # <<>> /\ recorder = "failed"
  /\ main' = "panic"
  /\ UNCHANGED <<exitBy, idle, readers, chans, traffic, userGone, record, files>>

OutputClosed ==
  /\ main = "loop" /\ srvReader.pc = "end" /\ srvChan = <<>>
  /\ Leave("closed")
  /\ UNCHANGED <<idle, readers, chans, traffic, userGone, record, files>>

ForwardInput ==
  /\ main = "loop" /\ userChan > 0
  /\ userChan' = userChan - 1
  /\ idle' = 0
  /\ UNCHANGED <<main, exitBy, readers, srvChan, exitSignal, traffic,
                 userGone, record, files>>

ExitSignal ==
  /\ main = "loop" /\ exitSignal # <<>>
  /\ Leave(IF Head(exitSignal) = "srv" THEN "srv" ELSE "other")
  /\ exitSignal' = Tail(exitSignal)
  /\ UNCHANGED <<idle, readers, srvChan, userChan, traffic, userGone, record, files>>

(* The deferred function: close(done), close both connections, End.        *)
Deferred ==
  /\ main = "leave"
  /\ main' = "ended"
  /\ compress' = IF recorder = "disabled" THEN "off" ELSE "stat"
  /\ UNCHANGED <<exitBy, idle, readers, chans, traffic, userGone, record, raw, gz>>

-----------------------------------------------------------------------------
(* Fault: the file is removed before it is compressed.                     *)
CompressRemovesFirst ==
  /\ compress = "stat"
  /\ raw' = IF raw = "none" THEN raw ELSE "removed"
  /\ compress' = IF raw = "rows" THEN "gzip" ELSE "off"
  /\ UNCHANGED <<main, exitBy, idle, readers, chans, traffic, userGone, record, gz>>

(* compressReplay, in a goroutine of its own.                              *)
CompressStat ==
  /\ compress = "stat"
  /\ raw' = IF raw = "empty" THEN "removed" ELSE raw
  /\ compress' = IF raw = "rows" THEN "gzip" ELSE "off"
  /\ UNCHANGED <<main, exitBy, idle, readers, chans, traffic, userGone, record, gz>>

(* GzipCompressFile, whose error is ignored.                               *)
CompressGzip ==
  /\ compress = "gzip"
  /\ gz' \in {"full", "broken"}
  /\ compress' = "remove"
  /\ UNCHANGED <<main, exitBy, idle, readers, chans, traffic, userGone, record, raw>>

CompressRemove ==
  /\ compress = "remove"
  /\ raw' = "removed"
  /\ compress' = "off"
  /\ UNCHANGED <<main, exitBy, idle, readers, chans, traffic, userGone, record, gz>>

-----------------------------------------------------------------------------
(* Only the loop and the user's reader look at this.                       *)
UserLeaves ==
  /\ main # "ended" /\ ~userGone
  /\ userGone' = TRUE
  /\ UNCHANGED <<main, exitBy, idle, readers, chans, traffic, record, files>>

-----------------------------------------------------------------------------
SrvReader  == SrvRead \/ SrvSend \/ SrvSignal \/ SrvClose
UserReader == UserRead \/ UserSend \/ UserSignal
Main ==
  \/ ContextDone \/ RecordOutput \/ ShowOutput \/ RecordPanics
  \/ OutputClosed \/ ForwardInput \/ ExitSignal \/ Deferred
Compress == CompressStat \/ CompressGzip \/ CompressRemove

Alive == main # "panic"

Next ==
  Alive /\
     \/ SrvReader \/ UserReader \/ Main \/ Tick \/ KeepAliveTick \/ WindowChange
     \/ Compress \/ AdminStops \/ UserLeaves

Spec == Init /\ [][Next]_vars

(* Goroutines that can run do, and the ticker ticks.  Nobody has to type,  *)
(* leave or terminate, and the asset need not produce anything.            *)
Fairness ==
  /\ WF_vars(Alive /\ (SrvSend \/ SrvSignal \/ SrvClose))
  /\ WF_vars(Alive /\ srvReader.pc = "read" /\ connsClosed /\ SrvRead)
  /\ WF_vars(Alive /\ (UserSend \/ UserSignal))
  /\ WF_vars(Alive /\ userReader = "read" /\ connsClosed /\ UserRead)
  /\ WF_vars(Alive /\ Main) /\ WF_vars(Alive /\ Tick) /\ WF_vars(Alive /\ Compress)

FairSpec == Spec /\ Fairness

-----------------------------------------------------------------------------
Increasing(s) == \A i, j \in 1..Len(s) : i < j => s[i] < s[j]
Elements(s) == {s[i] : i \in 1..Len(s)}

(* What an asset shows a user is on record before the user sees it, also   *)
(* if the process dies in between; the only exceptions are a switched off  *)
(* recorder and rows the disk refused.  Rows and screen keep the order.    *)
ShownIsRecorded ==
  /\ Increasing(recorded) /\ Increasing(shown)
  /\ recorder = "open" /\ rowsLost = 0 => Elements(shown) \subseteq Elements(recorded)
  /\ recorder = "failed" => shown = <<>>

(* When the asset ends the session the loop may take the exit signal       *)
(* before the last output (Go's select chooses at random): at most the one *)
(* chunk in srvChan is then missing from screen and record.                *)
LastOutputLossBounded ==
  exitBy \in {"srv", "closed"} /\ recorder = "open" =>
    produced - (Len(recorded) + rowsLost) <= (IF exitBy = "srv" THEN 1 ELSE 0)

(* A recording with rows stays on disk, as .cast or as .gz, unless the     *)
(* compression failed: compressReplay never removes the only copy, also    *)
(* when the process dies while it works.                                   *)
ReplayKept == Len(recorded) > 0 => raw = "rows" \/ gz # "none"

(* A session nobody uses ends (MaxIdleTime): keep-alives do not prolong it.*)
IdleSessionEnds == <>(~Alive \/ main = "ended")

(* exitSignal has room for one of its two senders, and userChan may stay   *)
(* full; still at most one of the reader goroutines is left behind.        *)
OneReaderEnds == main = "ended" ~> (~Alive \/ srvReader.pc = "end" \/ userReader = "end")
=============================================================================
