----------------------------- MODULE LoginTicket -----------------------------
(***************************************************************************)
(* Login confirmation: before a session to an asset starts, a ticket is    *)
(* put in the LOGINTICKET table and the session polls it until an          *)
(* administrator has approved or rejected it, or the user gives up.        *)
(* Sources: core/auth.go (the table), auth/loginConfirm.go (the polling),  *)
(* proxy/loginConfirm.go (the session's side), handler/admin.go (the       *)
(* administrators' side).                                                  *)
(*                                                                         *)
(* Every database call is one step, may fail, and races with every other   *)
(* session's and administrator's calls.  The table outlives the process:   *)
(* Restart drops all sessions and keeps the tickets.                       *)
(***************************************************************************)
EXTENDS Naturals, FiniteSets

CONSTANTS
  Sessions,   \* runs of Server.checkLoginConfirm
  Tickets,    \* ticket ids uuid.NewV4 can return
  Admins,     \* administrators
  NoTicket,   \* ticketId is still the empty string
  NoAdmin     \* the empty approver

ASSUME TicketAssumption == NoTicket \notin Tickets /\ NoAdmin \notin Admins

VARIABLES
  ticket,     \* rows of LOGINTICKET, state "absent" for ids not inserted
  pc,         \* where each session is
  ticketId,   \* LoginConfirmService.ticketId
  cancelled,  \* sessions whose confirm context is cancelled
  abandoned   \* history: tickets lost to a database error or a restart

ticketVars == <<ticket, pc, ticketId, cancelled, abandoned>>

States == {"absent", "pending", "approved", "rejected", "closed"}
Decided == {"approved", "rejected", "closed"}

(* new: not started; reviewers: ticket inserted; wait: polling; close: the *)
(* context is done, cancelConfirm is next; proceed and refused: the result *)
(* of validateLoginConfirm; killed: the process died meanwhile.            *)
Steps == {"new", "reviewers", "wait", "close", "proceed", "refused", "killed"}

Goto(s, step) == pc' = [pc EXCEPT ![s] = step]

TicketInit ==
  /\ ticket    = [t \in Tickets |-> [state |-> "absent", approver |-> NoAdmin]]
  /\ pc        = [s \in Sessions |-> "new"]
  /\ ticketId  = [s \in Sessions |-> NoTicket]
  /\ cancelled = {}
  /\ abandoned = {}

-----------------------------------------------------------------------------
(* Fault: the statement without AND state = pending.                       *)
UpdateAnyTicket(t, state, who) ==
  ticket' = [ticket EXCEPT ![t] = [state |-> state, approver |-> who]]

(* UPDATE LOGINTICKET ... WHERE ticketid = ? AND state = pending: a ticket *)
(* that is decided, or does not exist, is left alone without an error.     *)
UpdateTicketState(t, state, who) ==
  ticket' = IF ticket[t].state = "pending"
            THEN [ticket EXCEPT ![t] = [state |-> state, approver |-> who]]
            ELSE ticket

-----------------------------------------------------------------------------
(* CheckIfNeedAssetLoginConfirm                                            *)

(* The row says no confirmation is needed, or reading or inserting fails.  *)
DecideWithoutTicket(s) ==
  /\ pc[s] = "new"
  /\ \/ Goto(s, "proceed")
     \/ Goto(s, "refused")
  /\ UNCHANGED <<ticket, ticketId, cancelled, abandoned>>

(* Confirmation is needed (also when the row is missing).                  *)
InsertTicket(s, t) ==
  /\ pc[s] = "new"
  /\ ticket[t].state = "absent"
  /\ ticket' = [ticket EXCEPT ![t] = [state |-> "pending", approver |-> NoAdmin]]
  /\ ticketId' = [ticketId EXCEPT ![s] = t]
  /\ Goto(s, "reviewers")
  /\ UNCHANGED <<cancelled, abandoned>>

(* getReviewers fails with the ticket already in the table, or the session *)
(* starts to wait.                                                         *)
GetReviewers(s) ==
  /\ pc[s] = "reviewers"
  /\ \/ Goto(s, "wait") /\ UNCHANGED abandoned
     \/ Goto(s, "refused") /\ abandoned' = abandoned \cup {ticketId[s]}
  /\ UNCHANGED <<ticket, ticketId, cancelled>>

-----------------------------------------------------------------------------
(* validateLoginConfirm and waitConfirmFinish                              *)

(* The user enters q, the reader fails, or the connection's context ends.  *)
UserGivesUp(s) ==
  /\ pc[s] \in {"wait", "close"}
  /\ s \notin cancelled
  /\ cancelled' = cancelled \cup {s}
  /\ UNCHANGED <<ticket, pc, ticketId, abandoned>>

(* Fault: any verdict lets the session go on.                              *)
PollAnyVerdict(s) ==
  /\ pc[s] = "wait"
  /\ ticket[ticketId[s]].state \in Decided
  /\ Goto(s, "proceed")
  /\ UNCHANGED <<ticket, ticketId, cancelled, abandoned>>

(* A tick reads the row; an open ticket or an error means another tick.    *)
PollTicket(s) ==
  LET state == ticket[ticketId[s]].state
  IN /\ pc[s] = "wait"
     /\ state \in Decided
     /\ Goto(s, IF state = "approved" THEN "proceed" ELSE "refused")
     /\ UNCHANGED <<ticket, ticketId, cancelled, abandoned>>

(* Fault: the wait ends without closing the ticket.                        *)
LeaveTicketOpen(s) ==
  /\ pc[s] = "wait"
  /\ s \in cancelled
  /\ Goto(s, "refused")
  /\ UNCHANGED <<ticket, ticketId, cancelled, abandoned>>

(* Fault: the context is looked at only once the ticket is decided.        *)
NoticeCancelLate(s) ==
  /\ pc[s] = "wait"
  /\ s \in cancelled
  /\ ticket[ticketId[s]].state \in Decided
  /\ Goto(s, "close")
  /\ UNCHANGED <<ticket, ticketId, cancelled, abandoned>>

(* select takes the ctx.Done branch.                                       *)
NoticeCancel(s) ==
  /\ pc[s] = "wait"
  /\ s \in cancelled
  /\ Goto(s, "close")
  /\ UNCHANGED <<ticket, ticketId, cancelled, abandoned>>

(* cancelConfirm closes the ticket; a database error is only logged.       *)
CancelConfirm(s) ==
  /\ pc[s] = "close"
  /\ Goto(s, "refused")
  /\ \/ UpdateTicketState(ticketId[s], "closed", NoAdmin) /\ UNCHANGED abandoned
     \/ abandoned' = abandoned \cup {ticketId[s]} /\ UNCHANGED ticket
  /\ UNCHANGED <<ticketId, cancelled>>

-----------------------------------------------------------------------------
(* An administrator's "approve <id>" or "reject <id>", with whatever id    *)
(* was on the screen.                                                      *)
Decide(a, t, state) ==
  /\ UpdateTicketState(t, state, a)
  /\ UNCHANGED <<pc, ticketId, cancelled, abandoned>>

(* The process ends and is started again on the same database.             *)
Restart ==
  /\ \E s \in Sessions : pc[s] \in {"reviewers", "wait", "close"}
  /\ pc' = [s \in Sessions |-> IF pc[s] \in {"reviewers", "wait", "close"}
                               THEN "killed" ELSE pc[s]]
  /\ abandoned' = abandoned \cup
       {ticketId[s] : s \in {r \in Sessions : pc[r] \in {"reviewers", "wait", "close"}}}
  /\ UNCHANGED <<ticket, ticketId, cancelled>>

Proceed(s) == GetReviewers(s) \/ PollTicket(s) \/ NoticeCancel(s) \/ CancelConfirm(s)

TicketNext ==
  \/ \E s \in Sessions : DecideWithoutTicket(s) \/ UserGivesUp(s) \/ Proceed(s)
  \/ \E s \in Sessions, t \in Tickets : InsertTicket(s, t)
  \/ \E a \in Admins, t \in Tickets, v \in {"approved", "rejected"} : Decide(a, t, v)
  \/ Restart

TicketSpec == TicketInit /\ [][TicketNext]_ticketVars

(* The session's goroutines run and its ticker ticks; polling fails only   *)
(* finitely often in a row, which is what leaving failed ticks out says.   *)
FairTicketSpec == TicketSpec /\ \A s \in Sessions : WF_ticketVars(Proceed(s))

-----------------------------------------------------------------------------
TypeOK ==
  /\ ticket \in [Tickets -> [state : States, approver : Admins \cup {NoAdmin}]]
  /\ pc \in [Sessions -> Steps]
  /\ ticketId \in [Sessions -> Tickets \cup {NoTicket}]
  /\ cancelled \in SUBSET Sessions
  /\ abandoned \in SUBSET Tickets

(* A session that inserted a ticket only goes on when an administrator     *)
(* approved that very ticket: neither a cancel that lost the race, nor the *)
(* verdict on another session's ticket, nor one from before a restart      *)
(* lets it through.                                                        *)
ProceedsOnlyIfApproved ==
  \A s \in Sessions :
    pc[s] = "proceed" /\ ticketId[s] # NoTicket =>
      /\ ticket[ticketId[s]].state = "approved"
      /\ ticket[ticketId[s]].approver \in Admins
      /\ \A r \in Sessions : ticketId[r] = ticketId[s] => r = s

Promise == INSTANCE Confirmation WITH
  verdict <- [t \in Tickets |-> ticket[t].state],
  holds   <- ticketId,
  outcome <- [s \in Sessions |-> CASE pc[s] = "proceed" -> "proceed"
                                   [] pc[s] \in {"refused", "killed"} -> "refused"
                                   [] OTHER -> "none"]

(* The table, the polling sessions and the administrators implement        *)
(* Confirmation: approve, reject and the user's cancel race in             *)
(* UpdateTicketState and the first one decides for good; no session passes *)
(* on anything but the approval of the ticket it opened.                   *)
ImplementsConfirmation == Promise!Spec

(* A ticket that administrators still see as pending belongs to a session  *)
(* that is still waiting for it; the exceptions are the ones a database    *)
(* error or a restart left behind.                                         *)
PendingHasWaiter ==
  \A t \in Tickets :
    ticket[t].state = "pending" =>
      \/ t \in abandoned
      \/ \E s \in Sessions : ticketId[s] = t /\ pc[s] \in {"reviewers", "wait", "close"}

(* The waiting ends once the ticket is decided or the user has given up    *)
(* (both branches of waitConfirmFinish's select stay enabled).             *)
WaitEnds ==
  \A s \in Sessions :
    (pc[s] = "wait" /\ (s \in cancelled \/ ticket[ticketId[s]].state \in Decided))
      ~> pc[s] \in {"proceed", "refused", "killed"}
=============================================================================
