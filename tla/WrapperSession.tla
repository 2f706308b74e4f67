--------------------------- MODULE WrapperSession ---------------------------
(***************************************************************************)
(* WrapperSession (handler/wrapperSession.go): the input of a user's SSH   *)
(* session goes through a pipe, so that a goroutine waiting in Read can be *)
(* sent away with Close while the session itself stays open.  readLoop     *)
(* copies the session into the pipe; Close closes the pipe and makes a new *)
(* one.  A pipe has no buffer: a Write waits for a Read.                   *)
(*                                                                         *)
(* mux is a sync.RWMutex.  readLoop holds it shared at "write", a reader   *)
(* at "reading"; a Close that waits for it ("lock") keeps new readers of   *)
(* the lock out.  All pipes but the last are closed, and nobody is inside  *)
(* an old one when it is replaced, so one flag is enough for them.  Only   *)
(* one goroutine at a time calls Close.  Callers take a result away with   *)
(* Returned, and say in their own module when they call.                   *)
(***************************************************************************)
EXTENDS Naturals

CONSTANTS
  Readers,    \* goroutines that call Read
  MaxChunks   \* bound: chunks of input the user types

VARIABLES
  readLoop,    \* "read", "rlock", "write", "endlock", "closing", "end"
  reader,      \* [Readers -> "out", "checked", "reading", "data", "err"]
  closer,      \* the caller of Close: "out", "close", "lock"
  pipeClosed,  \* the current pipe is closed
  closed,      \* the channel closed is closed
  typed        \* chunks read from the session

vars == <<readLoop, reader, closer, pipeClosed, closed, typed>>

(* NewWrapperSession, initial.                                             *)
Init ==
  /\ readLoop = "read"
  /\ reader = [r \in Readers |-> "out"]
  /\ closer = "out"
  /\ pipeClosed = FALSE /\ closed = FALSE
  /\ typed = 0

-----------------------------------------------------------------------------
(* readLoop.  Sess.Read returns data, or an error once the client is gone. *)
SessRead(clientGone) ==
  /\ readLoop = "read"
  /\ \/ typed < MaxChunks /\ typed' = typed + 1 /\ readLoop' = "rlock"
     \/ clientGone /\ readLoop' = "endlock" /\ UNCHANGED typed
  /\ UNCHANGED <<reader, closer, pipeClosed, closed>>

WriteRLock ==
  /\ readLoop = "rlock" /\ closer # "lock"
  /\ readLoop' = "write"
  /\ UNCHANGED <<reader, closer, pipeClosed, closed, typed>>

(* Write meets Read in an open pipe ...                                    *)
PipeTransfer(r) ==
  /\ readLoop = "write" /\ reader[r] = "reading" /\ ~pipeClosed
  /\ readLoop' = "read"
  /\ reader' = [reader EXCEPT ![r] = "data"]
  /\ UNCHANGED <<closer, pipeClosed, closed, typed>>

(* ... and fails in a closed one: the chunk is dropped.                    *)
WriteFails ==
  /\ readLoop = "write" /\ pipeClosed
  /\ readLoop' = "read"
  /\ UNCHANGED <<reader, closer, pipeClosed, closed, typed>>

EndClosesPipe ==
  /\ readLoop = "endlock" /\ closer # "lock"
  /\ pipeClosed' = TRUE
  /\ readLoop' = "closing"
  /\ UNCHANGED <<reader, closer, closed, typed>>

EndClosesChan ==
  /\ readLoop = "closing"
  /\ closed' = TRUE
  /\ readLoop' = "end"
  /\ UNCHANGED <<reader, closer, pipeClosed, typed>>

-----------------------------------------------------------------------------
(* Read: look at closed, then take the lock, then wait in the pipe.        *)
Read(r) ==
  /\ reader[r] = "out"
  /\ reader' = [reader EXCEPT ![r] = IF closed THEN "err" ELSE "checked"]
  /\ UNCHANGED <<readLoop, closer, pipeClosed, closed, typed>>

ReadRLock(r) ==
  /\ reader[r] = "checked" /\ closer # "lock"
  /\ reader' = [reader EXCEPT ![r] = "reading"]
  /\ UNCHANGED <<readLoop, closer, pipeClosed, closed, typed>>

ReadFails(r) ==
  /\ reader[r] = "reading" /\ pipeClosed
  /\ reader' = [reader EXCEPT ![r] = "err"]
  /\ UNCHANGED <<readLoop, closer, pipeClosed, closed, typed>>

Returned(r, result) ==
  /\ reader[r] = result
  /\ reader' = [reader EXCEPT ![r] = "out"]
  /\ UNCHANGED <<readLoop, closer, pipeClosed, closed, typed>>

-----------------------------------------------------------------------------
(* Close: look at closed, close the pipe, and replace it under the lock.   *)
Close ==
  /\ closer = "out"
  /\ closer' = IF closed THEN "out" ELSE "close"
  /\ UNCHANGED <<readLoop, reader, pipeClosed, closed, typed>>

(* Fault: the pipe is replaced without being closed first.                 *)
CloseKeepsPipe ==
  /\ closer = "close"
  /\ closer' = "lock"
  /\ UNCHANGED <<readLoop, reader, pipeClosed, closed, typed>>

ClosePipe ==
  /\ closer = "close"
  /\ pipeClosed' = TRUE
  /\ closer' = "lock"
  /\ UNCHANGED <<readLoop, reader, closed, typed>>

(* Fault: the lock is not released.                                        *)
InitStaysLocked ==
  /\ closer = "lock"
  /\ readLoop # "write" /\ \A r \in Readers : reader[r] # "reading"
  /\ pipeClosed' = FALSE
  /\ UNCHANGED <<readLoop, reader, closer, closed, typed>>

(* initReadPip.                                                            *)
InitReadPip ==
  /\ closer = "lock"
  /\ readLoop # "write" /\ \A r \in Readers : reader[r] # "reading"
  /\ pipeClosed' = FALSE
  /\ closer' = "out"
  /\ UNCHANGED <<readLoop, reader, closed, typed>>

-----------------------------------------------------------------------------
(* The pipe in use was made after the read loop had closed the one before: *)
(* nobody will ever write to it or close it.                               *)
PipeOrphaned == readLoop \in {"closing", "end"} /\ ~pipeClosed

ReadLoop ==
  \/ WriteRLock \/ WriteFails \/ EndClosesPipe \/ EndClosesChan
  \/ \E r \in Readers : PipeTransfer(r)

Pipe ==
  \/ ClosePipe \/ InitReadPip
  \/ \E r \in Readers : ReadRLock(r) \/ ReadFails(r)
=============================================================================
