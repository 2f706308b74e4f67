---------------------------- MODULE Proxy_proofs ----------------------------
(***************************************************************************)
(* Proofs about the proxy: a login that waits for its confirmation, for    *)
(* any number of sessions, tickets and administrators (LoginTicket); and   *)
(* that the record of a session is complete, ordered and kept, for any     *)
(* amount of output and input and any idle time (Bridge).                  *)
(***************************************************************************)
EXTENDS LoginTicket, Bridge, SequenceTheorems, TLAPS

-----------------------------------------------------------------------------
(* The confirmation of a login.                                            *)

Confirming == {"reviewers", "wait", "close"}

(* Who owns which row: a session gets its ticket when it inserts it, and   *)
(* no two sessions share one.                                              *)
Ownership ==
  \A s \in Sessions :
    /\ pc[s] = "new" => ticketId[s] = NoTicket
    /\ pc[s] \in Confirming => ticketId[s] \in Tickets
    /\ ticketId[s] \in Tickets => ticket[ticketId[s]].state # "absent"
    /\ \A r \in Sessions : ticketId[r] = ticketId[s] /\ ticketId[s] # NoTicket => r = s

(* An approved row names its administrator.                                *)
ApproverNamed ==
  \A t \in Tickets : ticket[t].state = "approved" => ticket[t].approver \in Admins

(* The inductive invariant.                                                *)
TicketInv ==
  TypeOK /\ Ownership /\ ApproverNamed /\ ProceedsOnlyIfApproved /\ PendingHasWaiter

USE DEF Goto, Steps, States, Decided, Confirming

LEMMA TicketInvInit == TicketInit => TicketInv
BY TicketAssumption
   DEF TicketInit, TicketInv, TypeOK, Ownership, ApproverNamed, ProceedsOnlyIfApproved, PendingHasWaiter

LEMMA TicketInvNext == TicketInv /\ [TicketNext]_ticketVars => TicketInv'
<1> SUFFICES ASSUME TicketInv, [TicketNext]_ticketVars PROVE TicketInv'
  OBVIOUS
<1> USE TicketAssumption
    DEF TicketInv, TypeOK, Ownership, ApproverNamed, ProceedsOnlyIfApproved, PendingHasWaiter
<1>1. ASSUME NEW s \in Sessions, DecideWithoutTicket(s) PROVE TicketInv'
  BY <1>1 DEF DecideWithoutTicket
<1>2. ASSUME NEW s \in Sessions, UserGivesUp(s) PROVE TicketInv'
  BY <1>2 DEF UserGivesUp
<1>3. ASSUME NEW s \in Sessions, GetReviewers(s) PROVE TicketInv'
  <2>1. CASE Goto(s, "wait") /\ UNCHANGED abandoned
    BY <1>3, <2>1 DEF GetReviewers
  <2>2. CASE Goto(s, "refused") /\ abandoned' = abandoned \cup {ticketId[s]}
    BY <1>3, <2>2 DEF GetReviewers
  <2> QED
    BY <1>3, <2>1, <2>2 DEF GetReviewers
<1>4. ASSUME NEW s \in Sessions, PollTicket(s) PROVE TicketInv'
  BY <1>4 DEF PollTicket
<1>5. ASSUME NEW s \in Sessions, NoticeCancel(s) PROVE TicketInv'
  BY <1>5 DEF NoticeCancel
<1>6. ASSUME NEW s \in Sessions, CancelConfirm(s) PROVE TicketInv'
  <2>1. PICK t \in Tickets : t = ticketId[s]
    BY <1>6 DEF CancelConfirm
  <2>2. CASE UpdateTicketState(t, "closed", NoAdmin) /\ UNCHANGED abandoned
    <3>1. /\ ticket' \in [Tickets -> [state : States, approver : Admins \cup {NoAdmin}]]
          /\ \A x \in Tickets : \/ ticket'[x] = ticket[x]
                                \/ /\ x = t /\ ticket[x].state = "pending"
                                   /\ ticket'[x].state = "closed"
      BY <2>2 DEF UpdateTicketState
    <3>2. ticket'[t].state # "pending"
      BY <2>2 DEF UpdateTicketState
    <3>3. /\ pc' = [pc EXCEPT ![s] = "refused"] /\ pc[s] = "close"
          /\ UNCHANGED <<ticketId, cancelled, abandoned>>
      BY <1>6, <2>2 DEF CancelConfirm
    <3>4. TypeOK'
      BY <3>1, <3>3
    <3>5. Ownership' /\ ApproverNamed'
      BY <3>1, <3>3
    <3>6. ProceedsOnlyIfApproved'
      BY <3>1, <3>3
    <3>7. PendingHasWaiter'
      BY <2>1, <3>1, <3>2, <3>3
    <3> QED
      BY <3>4, <3>5, <3>6, <3>7
  <2>3. CASE abandoned' = abandoned \cup {t} /\ UNCHANGED ticket
    BY <1>6, <2>1, <2>3 DEF CancelConfirm
  <2> QED
    BY <1>6, <2>1, <2>2, <2>3 DEF CancelConfirm
<1>7. ASSUME NEW s \in Sessions, NEW t \in Tickets, InsertTicket(s, t) PROVE TicketInv'
  BY <1>7 DEF InsertTicket
<1>8. ASSUME NEW a \in Admins, NEW t \in Tickets, NEW v \in {"approved", "rejected"},
             Decide(a, t, v)
      PROVE  TicketInv'
  <2>1. /\ ticket' \in [Tickets -> [state : States, approver : Admins \cup {NoAdmin}]]
        /\ \A x \in Tickets : \/ ticket'[x] = ticket[x]
                              \/ /\ x = t /\ ticket[x].state = "pending"
                                 /\ ticket'[x].state \in {"approved", "rejected"}
                                 /\ ticket'[x].approver \in Admins
    BY <1>8 DEF Decide, UpdateTicketState
  <2>2. UNCHANGED <<pc, ticketId, cancelled, abandoned>>
    BY <1>8 DEF Decide
  <2>3. TypeOK'
    BY <2>1, <2>2
  <2>4. Ownership' /\ ApproverNamed'
    BY <2>1, <2>2
  <2>5. ProceedsOnlyIfApproved'
    BY <2>1, <2>2
  <2>6. PendingHasWaiter'
    BY <2>1, <2>2
  <2> QED
    BY <2>3, <2>4, <2>5, <2>6
<1>9. CASE Restart
  BY <1>9 DEF Restart
<1>10. CASE UNCHANGED ticketVars
  BY <1>10 DEF ticketVars
<1> HIDE DEF TicketInv
<1> QED
  BY <1>1, <1>2, <1>3, <1>4, <1>5, <1>6, <1>7, <1>8, <1>9, <1>10, Zenon DEF TicketNext, Proceed

LEMMA TicketInvHolds == TicketSpec => []TicketInv
BY TicketInvInit, TicketInvNext, PTL DEF TicketSpec

(* The rows and the sessions keep their types.                             *)
THEOREM TypeCorrect == TicketSpec => []TypeOK
BY TicketInvHolds, PTL DEF TicketInv

(* No session gets past validateLoginConfirm on anything but the approval  *)
(* of its own ticket.                                                      *)
THEOREM ApprovalCorrect == TicketSpec => []ProceedsOnlyIfApproved
BY TicketInvHolds, PTL DEF TicketInv

(* Tickets shown as pending have a waiting session unless an error or a    *)
(* restart lost it.                                                        *)
THEOREM PendingCorrect == TicketSpec => []PendingHasWaiter
BY TicketInvHolds, PTL DEF TicketInv

(* What a session's step means for Confirmation.                           *)
Ended(s) == CASE pc[s] = "proceed" -> "proceed"
              [] pc[s] \in {"refused", "killed"} -> "refused"
              [] OTHER -> "none"

Verdicts == [t \in Tickets |-> ticket[t].state]
Outcomes == [s \in Sessions |-> Ended(s)]

(* A step that leaves Confirmation's state alone.                          *)
Stutter == UNCHANGED <<Verdicts, ticketId, Outcomes>>

USE DEF Ended, Verdicts, Outcomes, Stutter

(* A step of one session that keeps the table and does not end it.         *)
LEMMA QuietStep ==
  ASSUME TicketInv, NEW s \in Sessions, NEW step \in {"reviewers", "wait", "close"},
         Goto(s, step), pc[s] \in {"reviewers", "wait", "close"},
         UNCHANGED <<ticket, ticketId>>
  PROVE  Stutter
BY DEF TicketInv, TypeOK

(* A session is refused; its ticket is closed or left as it was.           *)
LEMMA RefusedStep ==
  ASSUME TicketInv, NEW s \in Sessions, Goto(s, "refused"),
         pc[s] \in {"new", "reviewers", "wait", "close"},
         UNCHANGED ticketId,
         \/ UNCHANGED ticket
         \/ ticketId[s] \in Tickets /\ UpdateTicketState(ticketId[s], "closed", NoAdmin)
  PROVE  Promise!Refuse({s})
<1> USE DEF TicketInv, TypeOK
<1>1. /\ \A r \in {s} : Outcomes[r] = "none"
      /\ Outcomes' = [r \in Sessions |-> IF r \in {s} THEN "refused" ELSE Outcomes[r]]
  OBVIOUS
<1>2. \E C \in SUBSET {ticketId[r] : r \in {s}} :
        Verdicts' = [t \in Tickets |-> IF t \in C /\ Verdicts[t] = "pending"
                                       THEN "closed" ELSE Verdicts[t]]
  <2>1. CASE UNCHANGED ticket
    <3>1. Verdicts' = [t \in Tickets |-> IF t \in {} /\ Verdicts[t] = "pending"
                                         THEN "closed" ELSE Verdicts[t]]
      BY <2>1
    <3>2. {} \in SUBSET {ticketId[r] : r \in {s}}
      OBVIOUS
    <3> HIDE DEF Verdicts
    <3> QED BY <3>1, <3>2, Zenon
  <2>2. CASE ticketId[s] \in Tickets /\ UpdateTicketState(ticketId[s], "closed", NoAdmin)
    <3>1. Verdicts' = [t \in Tickets |-> IF t \in {ticketId[s]} /\ Verdicts[t] = "pending"
                                         THEN "closed" ELSE Verdicts[t]]
      BY <2>2 DEF UpdateTicketState
    <3>2. {ticketId[s]} \in SUBSET {ticketId[r] : r \in {s}}
      OBVIOUS
    <3> HIDE DEF Verdicts
    <3> QED BY <3>1, <3>2, Zenon
  <2> QED BY <2>1, <2>2, Zenon
<1> QED BY <1>1, <1>2, Zenon DEF Promise!Refuse

(* A session passes.                                                       *)
LEMMA PassStep ==
  ASSUME TicketInv, NEW s \in Sessions, Goto(s, "proceed"),
         pc[s] \in {"new", "wait"},
         ticketId[s] # NoTicket => ticket[ticketId[s]].state = "approved",
         UNCHANGED <<ticket, ticketId>>
  PROVE  Promise!Pass(s)
<1> USE DEF TicketInv, TypeOK
<1>1. /\ Outcomes[s] = "none"
      /\ Outcomes' = [Outcomes EXCEPT ![s] = "proceed"]
      /\ UNCHANGED Verdicts
  BY Zenon
<1>2. ticketId[s] # NoTicket => Verdicts[ticketId[s]] = "approved"
  OBVIOUS
<1> QED BY <1>1, <1>2 DEF Promise!Pass

(* The table, the sessions that poll it and the administrators implement   *)
(* Confirmation: the conditional UPDATE settles every ticket at most once, *)
(* and only the approval of its own ticket lets a session pass.            *)
THEOREM ConfirmationImplemented == TicketSpec => ImplementsConfirmation
<1>1. TicketInit => Promise!Init
  BY DEF TicketInit, Promise!Init
<1>2. TicketInv /\ [TicketNext]_ticketVars => [Promise!Next]_(Promise!vars)
  <2> SUFFICES ASSUME TicketInv, [TicketNext]_ticketVars
               PROVE  Promise!Next \/ Stutter
    BY DEF Promise!vars
  <2> USE DEF TicketInv, TypeOK
  <2>1. ASSUME NEW s \in Sessions, DecideWithoutTicket(s) PROVE Promise!Next
    <3>1. CASE Goto(s, "proceed")
      <4>1. Promise!Pass(s)
        BY <2>1, <3>1, PassStep, Zenon DEF DecideWithoutTicket, Ownership
      <4> QED BY <4>1 DEF Promise!Next
    <3>2. CASE Goto(s, "refused")
      <4>1. Promise!Refuse({s})
        BY <2>1, <3>2, RefusedStep, Zenon DEF DecideWithoutTicket
      <4> QED BY <4>1 DEF Promise!Next
    <3> QED BY <2>1, <3>1, <3>2 DEF DecideWithoutTicket
  <2>2. ASSUME NEW s \in Sessions, UserGivesUp(s) PROVE Stutter
    BY <2>2 DEF UserGivesUp
  <2>3. ASSUME NEW s \in Sessions, GetReviewers(s) PROVE Promise!Next \/ Stutter
    <3>1. CASE Goto(s, "wait")
      BY <2>3, <3>1, QuietStep DEF GetReviewers
    <3>2. CASE Goto(s, "refused")
      <4>1. Promise!Refuse({s})
        BY <2>3, <3>2, RefusedStep, Zenon DEF GetReviewers
      <4> QED BY <4>1 DEF Promise!Next
    <3> QED BY <2>3, <3>1, <3>2 DEF GetReviewers
  <2>4. ASSUME NEW s \in Sessions, PollTicket(s) PROVE Promise!Next
    <3>1. CASE ticket[ticketId[s]].state = "approved"
      <4>1. Promise!Pass(s)
        BY <2>4, <3>1, PassStep, Zenon DEF PollTicket
      <4> QED BY <4>1 DEF Promise!Next
    <3>2. CASE ticket[ticketId[s]].state # "approved"
      <4>1. Promise!Refuse({s})
        BY <2>4, <3>2, RefusedStep, Zenon DEF PollTicket
      <4> QED BY <4>1 DEF Promise!Next
    <3> QED BY <3>1, <3>2
  <2>5. ASSUME NEW s \in Sessions, NoticeCancel(s) PROVE Stutter
    BY <2>5, QuietStep DEF NoticeCancel
  <2>6. ASSUME NEW s \in Sessions, CancelConfirm(s) PROVE Promise!Next
    <3>1. Promise!Refuse({s})
      BY <2>6, RefusedStep, Zenon DEF CancelConfirm, Ownership
    <3> QED BY <3>1 DEF Promise!Next
  <2>7. ASSUME NEW s \in Sessions, NEW t \in Tickets, InsertTicket(s, t) PROVE Promise!Next
    <3>1. /\ Outcomes[s] = "none" /\ UNCHANGED Outcomes
          /\ Verdicts[t] = "absent" /\ Verdicts' = [Verdicts EXCEPT ![t] = "pending"]
          /\ ticketId[s] = NoTicket /\ ticketId' = [ticketId EXCEPT ![s] = t]
      BY <2>7, Zenon DEF InsertTicket, Ownership
    <3>2. Promise!Open(s, t)
      BY <3>1 DEF Promise!Open
    <3> QED BY <3>2 DEF Promise!Next
  <2>8. ASSUME NEW a \in Admins, NEW t \in Tickets, NEW v \in {"approved", "rejected"},
               Decide(a, t, v)
        PROVE  Promise!Next \/ Stutter
    <3>1. UNCHANGED <<ticketId, Outcomes>>
      BY <2>8 DEF Decide
    <3>2. CASE ticket[t].state = "pending"
      <4>1. Verdicts[t] = "pending" /\ Verdicts' = [Verdicts EXCEPT ![t] = v]
        BY <2>8, <3>2, Zenon DEF Decide, UpdateTicketState
      <4>2. Promise!Settle(t, v)
        BY <3>1, <4>1 DEF Promise!Settle
      <4> QED BY <4>2 DEF Promise!Next
    <3>3. CASE ticket[t].state # "pending"
      BY <2>8, <3>1, <3>3 DEF Decide, UpdateTicketState
    <3> QED BY <3>2, <3>3
  <2>9. CASE Restart
    <3>0. PICK S : S = {s \in Sessions : pc[s] \in Confirming}
      BY Zenon
    <3>1. /\ \A s \in S : Outcomes[s] = "none"
          /\ Outcomes' = [s \in Sessions |-> IF s \in S THEN "refused" ELSE Outcomes[s]]
      BY <2>9, <3>0 DEF Restart
    <3>2. /\ {} \in SUBSET {ticketId[s] : s \in S}
          /\ Verdicts' = [t \in Tickets |-> IF t \in {} /\ Verdicts[t] = "pending"
                                            THEN "closed" ELSE Verdicts[t]]
          /\ UNCHANGED ticketId
      BY <2>9, <3>0 DEF Restart
    <3>3. \E C \in SUBSET {ticketId[s] : s \in S} :
            Verdicts' = [t \in Tickets |-> IF t \in C /\ Verdicts[t] = "pending"
                                           THEN "closed" ELSE Verdicts[t]]
      <4> HIDE DEF Verdicts
      <4> QED BY <3>2, Zenon
    <3>4. Promise!Refuse(S)
      BY <3>1, <3>2, <3>3, Zenon DEF Promise!Refuse
    <3>5. S \in SUBSET Sessions
      BY <3>0
    <3> QED BY <3>4, <3>5 DEF Promise!Next
  <2>10. CASE UNCHANGED ticketVars
    BY <2>10 DEF ticketVars
  <2> QED
    BY <2>1, <2>2, <2>3, <2>4, <2>5, <2>6, <2>7, <2>8, <2>9, <2>10 DEF TicketNext, Proceed
<1> QED
  BY <1>1, <1>2, TicketInvHolds, PTL DEF TicketSpec, ImplementsConfirmation, Promise!Spec

HIDE DEF Goto, Steps, States, Decided, Confirming, Ended, Verdicts, Outcomes, Stutter

-----------------------------------------------------------------------------
(* The record of a session.                                                *)

TypeInv ==
  /\ main \in {"loop", "show", "panic", "leave", "ended"}
  /\ exitBy \in {"none", "srv", "closed", "other"}
  /\ srvReader \in [pc : {"read", "send", "signal", "close", "end"}, last : BOOLEAN]
  /\ srvChan \in Seq(Nat) /\ Len(srvChan) <= 1
  /\ main = "show" => srvChan # <<>>
  /\ exitSignal \in Seq({"srv", "user"}) /\ Len(exitSignal) <= 1
  /\ produced \in Nat /\ rowsLost \in Nat
  /\ recorder \in {"disabled", "failed", "open"}
  /\ recorded \in Seq(Nat) /\ shown \in Seq(Nat)

(* The asset's reader signals only after its last chunk, and the loop knows*)
(* of the signal, or of the closed channel, only from it.                  *)
EndInv ==
  /\ exitBy = "none" <=> main \in {"loop", "show", "panic"}
  /\ Len(exitSignal) = 1 /\ exitSignal[1] = "srv" => srvReader.pc \in {"close", "end"}
  /\ exitBy = "srv" => srvReader.pc \in {"close", "end"}
  /\ exitBy = "closed" => srvReader.pc = "end" /\ Len(srvChan) = 0

(* A chunk is in the reader's hand, in srvChan, or dealt with.             *)
InHand == IF srvReader.pc = "send" THEN 1 ELSE 0
Waiting == IF main = "show" THEN 0 ELSE Len(srvChan)

CountInv ==
  recorder = "open" /\ exitBy # "other" =>
    produced = Len(recorded) + rowsLost + Waiting + InHand

(* Chunks reach srvChan, the record and the screen in the asset's order.   *)
Below(s, n)  == \A i \in 1..Len(s) : s[i] < n
UpTo(s, n) == \A i \in 1..Len(s) : s[i] <= n

OrderInv ==
  /\ Increasing(recorded) /\ Increasing(shown)
  /\ UpTo(srvChan, produced) /\ UpTo(recorded, produced) /\ UpTo(shown, produced)
  /\ srvReader.pc = "send" =>
       Below(srvChan, produced) /\ Below(recorded, produced) /\ Below(shown, produced)
  /\ Len(srvChan) = 1 => Below(shown, srvChan[1]) /\ UpTo(recorded, srvChan[1])
  /\ Len(srvChan) = 1 /\ main # "show" => Below(recorded, srvChan[1])
(* What the loop is about to show has been recorded.                       *)
RecordInv ==
  /\ recorder = "open" /\ rowsLost = 0 =>
       /\ Elements(shown) \subseteq Elements(recorded)
       /\ main = "show" => srvChan[1] \in Elements(recorded)
  /\ recorder = "failed" => shown = <<>> /\ main # "show"

(* compressReplay removes the rows only once there is a compressed file.   *)
FileInv ==
  /\ Len(recorded) > 0 => raw = "rows" \/ gz # "none"
  /\ compress = "remove" => gz # "none"

USE DEF readers, chans, traffic, record, files, connsClosed

-----------------------------------------------------------------------------
LEMMA OneChunk ==
  ASSUME NEW S, NEW x \in S
  PROVE  <<x>> \in Seq(S) /\ Len(<<x>>) = 1 /\ <<x>>[1] = x
OBVIOUS

LEMMA NoChunk ==
  ASSUME NEW S, NEW s \in Seq(S)
  PROVE  s = <<>> <=> Len(s) = 0
BY EmptySeq

LEMMA LastChunk ==
  ASSUME NEW S, NEW s \in Seq(S), s # <<>>, Len(s) <= 1
  PROVE  Len(s) = 1 /\ Head(s) = s[1] /\ s[1] \in S /\ Tail(s) \in Seq(S) /\ Len(Tail(s)) = 0
<1>1. Len(s) \in Nat /\ Len(s) # 0
  BY EmptySeq
<1>2. Len(s) = 1
  BY <1>1
<1> QED
  BY <1>2, HeadTailProperties

LEMMA AppendElements ==
  ASSUME NEW S, NEW s \in Seq(S), NEW x \in S
  PROVE  /\ Append(s, x) \in Seq(S)
         /\ Len(Append(s, x)) = Len(s) + 1
         /\ \A i \in 1..Len(s) : Append(s, x)[i] = s[i]
         /\ Append(s, x)[Len(s) + 1] = x
         /\ Elements(Append(s, x)) = Elements(s) \cup {x}
<1>1. /\ Append(s, x) \in Seq(S)
      /\ Len(Append(s, x)) = Len(s) + 1
      /\ \A i \in 1..Len(s) : Append(s, x)[i] = s[i]
      /\ Append(s, x)[Len(s) + 1] = x
  BY AppendProperties
<1>2. Len(s) \in Nat
  OBVIOUS
<1>3. Elements(Append(s, x)) = Elements(s) \cup {x}
  <2>1. 1..(Len(s) + 1) = (1..Len(s)) \cup {Len(s) + 1}
    BY <1>2
  <2> QED
    BY <1>1, <2>1 DEF Elements
<1> QED
  BY <1>1, <1>3

(* A chunk later than all before it keeps the order.                       *)
LEMMA AppendLater ==
  ASSUME NEW s \in Seq(Nat), NEW x \in Nat, Increasing(s), Below(s, x)
  PROVE  Increasing(Append(s, x)) /\ UpTo(Append(s, x), x)
<1>0. PICK a : a = Append(s, x)
  BY Zenon
<1>1. /\ a \in Seq(Nat) /\ Len(a) = Len(s) + 1 /\ Len(s) \in Nat
      /\ \A i \in 1..Len(s) : a[i] = s[i]
      /\ a[Len(s) + 1] = x
  BY <1>0, AppendElements
<1>2. \A i \in 1..Len(a) : i \in 1..Len(s) \/ i = Len(s) + 1
  BY <1>1
<1>3. \A i \in 1..Len(s) : s[i] \in Nat
  OBVIOUS
<1>4. Increasing(a)
  <2> SUFFICES ASSUME NEW i \in 1..Len(a), NEW j \in 1..Len(a), i < j
               PROVE  a[i] < a[j]
    BY DEF Increasing
  <2>1. i \in 1..Len(s)
    BY <1>1, <1>2
  <2>2. CASE j \in 1..Len(s)
    BY <1>1, <2>1, <2>2 DEF Increasing
  <2>3. CASE j = Len(s) + 1
    BY <1>1, <2>1, <2>3, Zenon DEF Below
  <2> QED
    BY <1>2, <2>2, <2>3
<1>5. UpTo(a, x)
  <2> SUFFICES ASSUME NEW i \in 1..Len(a) PROVE a[i] <= x
    BY DEF UpTo
  <2>1. CASE i \in 1..Len(s)
    <3>1. a[i] = s[i] /\ s[i] < x /\ s[i] \in Nat
      BY <1>1, <1>3, <2>1, SMTT(15) DEF Below
    <3> QED
      BY <3>1
  <2>2. CASE i = Len(s) + 1
    BY <1>1, <2>2
  <2> QED
    BY <1>2, <2>1, <2>2
<1> QED
  BY <1>0, <1>4, <1>5, Zenon

-----------------------------------------------------------------------------
LEMMA TypeInvInit == Init => TypeInv
BY DEF Init, GetReplayRecorder, TypeInv

LEMMA TypeInvNext == TypeInv /\ [Next]_vars => TypeInv'
<1> SUFFICES ASSUME TypeInv, [Next]_vars PROVE TypeInv'
  OBVIOUS
<1> USE DEF TypeInv
<1>1. CASE SrvRead
  BY <1>1 DEF SrvRead
<1>2. CASE SrvSend
  <2>1. srvReader' \in [pc : {"read", "send", "signal", "close", "end"}, last : BOOLEAN]
    BY <1>2, Zenon DEF SrvSend
  <2>2. CASE srvChan' = <<produced>>
    <3>1. srvChan' \in Seq(Nat) /\ Len(srvChan') = 1
      BY <2>2, OneChunk
    <3>2. srvChan' # <<>>
      BY <2>2
    <3> QED
      BY <1>2, <2>1, <3>1, <3>2 DEF SrvSend
  <2>3. CASE srvChan' = srvChan
    BY <1>2, <2>1, <2>3 DEF SrvSend
  <2> QED
    BY <1>2, <2>2, <2>3 DEF SrvSend
<1>3. CASE SrvSignal
  <2>1. exitSignal' \in Seq({"srv", "user"}) /\ Len(exitSignal') <= 1
    BY <1>3, OneChunk DEF SrvSignal
  <2>2. srvReader' \in [pc : {"read", "send", "signal", "close", "end"}, last : BOOLEAN]
    BY <1>3, Zenon DEF SrvSignal
  <2> QED
    BY <1>3, <2>1, <2>2, Zenon DEF SrvSignal
<1>4. CASE SrvClose
  BY <1>4, Zenon DEF SrvClose
<1>5. CASE UserSignal
  <2>1. exitSignal' \in Seq({"srv", "user"}) /\ Len(exitSignal') <= 1
    BY <1>5, OneChunk DEF UserSignal
  <2> QED
    BY <1>5, <2>1, Zenon DEF UserSignal
<1>6. CASE UserRead \/ UserSend
  BY <1>6 DEF UserRead, UserSend
<1>7. CASE RecordOutput
  <2>1. Head(srvChan) \in Nat
    BY <1>7, LastChunk DEF RecordOutput
  <2>2. Append(recorded, Head(srvChan)) \in Seq(Nat)
    BY <2>1, AppendElements
  <2>3. recorded' \in {recorded, Append(recorded, Head(srvChan))} /\ rowsLost' \in Nat
    BY <1>7 DEF RecordOutput
  <2>4. recorded' \in Seq(Nat)
    BY <2>2, <2>3, Zenon
  <2> QED
    BY <1>7, <2>3, <2>4 DEF RecordOutput
<1>8. CASE ShowOutput
  <2>1. Head(srvChan) \in Nat /\ srvChan' \in Seq(Nat) /\ Len(srvChan') <= 1
    BY <1>8, LastChunk DEF ShowOutput
  <2>2. Append(shown, Head(srvChan)) \in Seq(Nat)
    BY <2>1, AppendElements
  <2>3. shown' \in {shown, Append(shown, Head(srvChan))}
    BY <1>8 DEF ShowOutput
  <2>4. shown' \in Seq(Nat)
    BY <2>2, <2>3, Zenon
  <2> QED
    BY <1>8, <2>1, <2>4 DEF ShowOutput
<1>9. CASE ExitSignal
  <2>1. exitSignal' \in Seq({"srv", "user"}) /\ Len(exitSignal') <= 1
    BY <1>9, LastChunk DEF ExitSignal
  <2> QED
    BY <1>9, <2>1 DEF ExitSignal, Leave
<1>10. CASE ContextDone \/ AdminStops \/ OutputClosed \/ Tick \/ KeepAliveTick
  BY <1>10 DEF ContextDone, AdminStops, OutputClosed, Tick, KeepAliveTick, Leave, vars
<1>11. CASE RecordPanics \/ ForwardInput \/ Deferred \/ WindowChange \/ UserLeaves
  BY <1>11 DEF RecordPanics, ForwardInput, Deferred, WindowChange, UserLeaves
<1>12. CASE Compress
  BY <1>12 DEF Compress, CompressStat, CompressGzip, CompressRemove
<1>13. CASE UNCHANGED vars
  BY <1>13 DEF vars
<1> QED
  BY <1>1, <1>2, <1>3, <1>4, <1>5, <1>6, <1>7, <1>8, <1>9, <1>10, <1>11,
     <1>12, <1>13 DEF Next, SrvReader, UserReader, Main

(* Steps that leave the asset's output, its record and the loop's end      *)
(* alone: what the user types, the ticks of an open session, and so on.    *)
outputVars == <<main, exitBy, srvReader, srvChan, exitSignal, produced, recorder,
                recorded, rowsLost, shown>>

LEMMA Frame ==
  ASSUME \/ UserRead \/ UserSend \/ (Tick /\ main' = main) \/ KeepAliveTick \/ ForwardInput
         \/ WindowChange \/ UserLeaves \/ Compress \/ UNCHANGED vars
  PROVE  UNCHANGED outputVars
BY DEF UserRead, UserSend, Tick, Leave, KeepAliveTick, ForwardInput, WindowChange, UserLeaves,
       Compress, CompressStat, CompressGzip, CompressRemove, vars, outputVars

(* The steps with which the loop ends a session for a reason of its own.   *)
Leaves == main = "loop" /\ Leave("other")
          /\ UNCHANGED <<srvReader, srvChan, exitSignal, produced, recorder, recorded,
                         rowsLost, shown>>

LEMMA LeaveSteps ==
  ASSUME ContextDone \/ AdminStops \/ (Tick /\ main' # main)
  PROVE  Leaves
BY DEF ContextDone, AdminStops, Tick, Leaves

(* The cases of a step, as far as the asset's output is concerned.         *)
LEMMA StepCases ==
  ASSUME TypeInv, [Next]_vars
  PROVE  \/ SrvRead \/ SrvSend \/ SrvSignal \/ SrvClose \/ UserSignal
         \/ RecordOutput \/ ShowOutput \/ RecordPanics \/ OutputClosed \/ ExitSignal
         \/ Deferred \/ Leaves \/ UNCHANGED outputVars
BY Frame, LeaveSteps DEF Next, SrvReader, UserReader, Main

-----------------------------------------------------------------------------
LEMMA EndInvNext == TypeInv /\ EndInv /\ [Next]_vars => EndInv'
<1> SUFFICES ASSUME TypeInv, EndInv, [Next]_vars PROVE EndInv'
  OBVIOUS
<1> USE DEF TypeInv, EndInv
<1>1. CASE SrvRead
  BY <1>1 DEF SrvRead
<1>2. CASE SrvSend
  BY <1>2 DEF SrvSend
<1>3. CASE SrvSignal
  BY <1>3 DEF SrvSignal
<1>4. CASE SrvClose
  BY <1>4 DEF SrvClose
<1>5. CASE UserSignal
  <2>1. exitSignal'[1] = "user"
    BY <1>5 DEF UserSignal
  <2> QED
    BY <1>5, <2>1 DEF UserSignal
<1>6. CASE RecordOutput
  BY <1>6 DEF RecordOutput
<1>7. CASE ShowOutput
  <2>1. exitBy = "none"
    BY <1>7 DEF ShowOutput
  <2> QED
    BY <1>7, <2>1 DEF ShowOutput
<1>8. CASE RecordPanics
  BY <1>8 DEF RecordPanics
<1>9. CASE OutputClosed
  <2>1. Len(srvChan) = 0
    BY <1>9 DEF OutputClosed
  <2> QED
    BY <1>9, <2>1 DEF OutputClosed, Leave
<1>10. CASE ExitSignal
  <2>1. Len(exitSignal) = 1 /\ Head(exitSignal) = exitSignal[1] /\ Len(exitSignal') = 0
    BY <1>10, LastChunk DEF ExitSignal
  <2>2. /\ main' = "leave" /\ srvReader' = srvReader
        /\ exitBy' \in {"srv", "other"}
        /\ exitBy' = "srv" => exitSignal[1] = "srv"
    BY <1>10, <2>1 DEF ExitSignal, Leave
  <2> QED
    BY <2>1, <2>2
<1>11. CASE Deferred
  BY <1>11 DEF Deferred
<1>12. CASE Leaves
  BY <1>12 DEF Leaves, Leave
<1>13. CASE UNCHANGED outputVars
  BY <1>13 DEF outputVars
<1> QED
  BY <1>1, <1>2, <1>3, <1>4, <1>5, <1>6, <1>7, <1>8, <1>9, <1>10, <1>11,
     <1>12, <1>13, StepCases, Zenon

LEMMA CountInvNext == TypeInv /\ EndInv /\ CountInv /\ [Next]_vars => CountInv'
<1> SUFFICES ASSUME TypeInv, EndInv, CountInv, [Next]_vars PROVE CountInv'
  OBVIOUS
<1> USE DEF TypeInv, CountInv, InHand, Waiting
<1>0. Len(recorded) \in Nat /\ Len(srvChan) \in Nat
  OBVIOUS
<1>1. CASE SrvRead
  BY <1>0, <1>1 DEF SrvRead
<1>2. CASE SrvSend
  <2>1. CASE srvChan = <<>> /\ srvChan' = <<produced>>
    <3>1. Len(srvChan) = 0 /\ Len(srvChan') = 1
      BY <2>1
    <3>2. srvReader.pc = "send" /\ srvReader'.pc # "send" /\ main' = main /\ main # "show"
      BY <1>2, <2>1 DEF SrvSend
    <3> QED
      BY <1>0, <1>2, <3>1, <3>2 DEF SrvSend
  <2>2. CASE connsClosed
    BY <1>2, <2>2 DEF SrvSend, EndInv
  <2> QED
    BY <1>2, <2>1, <2>2 DEF SrvSend
<1>3. CASE SrvSignal
  BY <1>0, <1>3 DEF SrvSignal
<1>4. CASE SrvClose
  BY <1>0, <1>4 DEF SrvClose
<1>5. CASE UserSignal
  BY <1>5 DEF UserSignal
<1>6. CASE RecordOutput
  <2>1. Len(srvChan) = 1 /\ Head(srvChan) \in Nat
    BY <1>6, LastChunk DEF RecordOutput
  <2>2. Len(Append(recorded, Head(srvChan))) = Len(recorded) + 1
    BY <2>1, AppendElements
  <2>3. recorder = "open" => Len(recorded') + rowsLost' = Len(recorded) + rowsLost + 1
    BY <1>0, <1>6, <2>2 DEF RecordOutput
  <2>4. Len(recorded') \in Nat /\ rowsLost' \in Nat
    BY <1>0, <1>6, <2>2 DEF RecordOutput
  <2> QED
    BY <1>0, <1>6, <2>1, <2>3, <2>4 DEF RecordOutput
<1>7. CASE ShowOutput
  <2>1. Len(srvChan') = 0
    BY <1>7, LastChunk DEF ShowOutput
  <2> QED
    BY <1>0, <1>7, <2>1 DEF ShowOutput
<1>8. CASE RecordPanics
  BY <1>8 DEF RecordPanics
<1>9. CASE OutputClosed
  BY <1>9, Zenon DEF OutputClosed, Leave, EndInv
<1>10. CASE ExitSignal
  BY <1>10 DEF ExitSignal, Leave, EndInv
<1>11. CASE Deferred
  BY <1>11 DEF Deferred
<1>12. CASE Leaves
  BY <1>12 DEF Leaves, Leave
<1>13. CASE UNCHANGED outputVars
  BY <1>13, SMTT(15) DEF outputVars
<1> QED
  BY <1>1, <1>2, <1>3, <1>4, <1>5, <1>6, <1>7, <1>8, <1>9, <1>10, <1>11,
     <1>12, <1>13, StepCases, Zenon

-----------------------------------------------------------------------------
LEMMA FileInvNext == TypeInv /\ FileInv /\ [Next]_vars => FileInv'
<1> SUFFICES ASSUME TypeInv, FileInv, [Next]_vars PROVE FileInv'
  OBVIOUS
<1> USE DEF TypeInv, FileInv
<1>1. CASE RecordOutput
  <2>1. Head(srvChan) \in Nat
    BY <1>1, LastChunk DEF RecordOutput
  <2>2. recorded' \in Seq(Nat)
    BY <1>1, <2>1, TypeInvNext
  <2>3. Len(recorded') > 0 => recorded' # <<>>
    BY <2>2
  <2> QED
    BY <1>1, <2>3 DEF RecordOutput
<1>2. CASE Deferred
  BY <1>2 DEF Deferred
<1>3. CASE Compress
  BY <1>3 DEF Compress, CompressStat, CompressGzip, CompressRemove
<1>4. CASE UNCHANGED <<recorded, files>>
  BY <1>4
<1> QED
  BY <1>1, <1>2, <1>3, <1>4 DEF Next, SrvReader, SrvRead, SrvSend, SrvSignal, SrvClose,
     UserReader, UserRead, UserSend, UserSignal, Main, ContextDone, ShowOutput,
     RecordPanics, OutputClosed, ForwardInput, ExitSignal, Tick, KeepAliveTick,
     WindowChange, AdminStops, UserLeaves, vars

-----------------------------------------------------------------------------
LEMMA BelowUpTo ==
  ASSUME NEW s \in Seq(Nat), NEW m \in Nat, NEW n \in Nat
  PROVE  /\ Below(s, n) => UpTo(s, n)
         /\ UpTo(s, m) /\ m < n => Below(s, n)
         /\ UpTo(s, m) /\ m <= n => UpTo(s, n)
<1>1. \A i \in 1..Len(s) : s[i] \in Nat
  OBVIOUS
<1> QED
  BY <1>1 DEF Below, UpTo

LEMMA OrderInvNext == TypeInv /\ OrderInv /\ [Next]_vars => OrderInv'
<1> SUFFICES ASSUME TypeInv, OrderInv, [Next]_vars PROVE OrderInv'
  OBVIOUS
<1> USE DEF TypeInv, OrderInv
<1>1. CASE SrvRead
  <2>1. CASE produced' = produced + 1
    <3>1. /\ UNCHANGED <<main, srvChan, recorded, shown>>
          /\ produced' \in Nat /\ produced < produced' /\ produced <= produced'
      BY <1>1, <2>1 DEF SrvRead
    <3>2. \A s \in {srvChan, recorded, shown} : Below(s, produced') /\ UpTo(s, produced')
      BY <3>1, BelowUpTo
    <3> QED
      BY <3>1, <3>2 DEF Below, UpTo
  <2>2. CASE produced' = produced /\ srvReader'.pc = "signal"
    BY <1>1, <2>2 DEF SrvRead
  <2> QED
    BY <1>1, <2>1, <2>2 DEF SrvRead
<1>2. CASE SrvSend
  <2>0. UNCHANGED <<main, produced, recorded, shown>> /\ srvReader'.pc # "send"
    BY <1>2 DEF SrvSend
  <2>1. CASE srvChan = <<>> /\ srvChan' = <<produced>>
    <3>1. Len(srvChan') = 1 /\ srvChan'[1] = produced /\ main # "show"
      BY <2>1
    <3>2. Below(recorded, produced) /\ Below(shown, produced) /\ UpTo(recorded, produced)
      BY <1>2, BelowUpTo DEF SrvSend
    <3>3. UpTo(srvChan', produced)
      BY <3>1 DEF UpTo
    <3> QED
      BY <2>0, <3>1, <3>2, <3>3
  <2>2. CASE srvChan' = srvChan
    BY <2>0, <2>2
  <2> QED
    BY <1>2, <2>1, <2>2 DEF SrvSend
<1>3. CASE SrvSignal
  BY <1>3 DEF SrvSignal
<1>4. CASE SrvClose
  BY <1>4 DEF SrvClose
<1>5. CASE UserSignal
  BY <1>5 DEF UserSignal
<1>6. CASE RecordOutput
  <2>0. PICK x : x = srvChan[1]
    OBVIOUS
  <2>1. Len(srvChan) = 1 /\ Head(srvChan) = x /\ x \in Nat
    BY <1>6, <2>0, LastChunk DEF RecordOutput
  <2>2. UNCHANGED <<srvReader, srvChan, produced, shown>> /\ main' = "show" /\ main # "show"
    BY <1>6 DEF RecordOutput
  <2>3. CASE recorded' = recorded
    BY <2>2, <2>3
  <2>4. CASE recorded' = Append(recorded, x)
    <3>1. Below(recorded, x)
      BY <2>0, <2>1, <2>2
    <3>2. Increasing(recorded') /\ UpTo(recorded', x) /\ recorded' \in Seq(Nat)
      BY <2>1, <2>4, <3>1, AppendLater, AppendElements
    <3>3. x <= produced /\ (srvReader.pc = "send" => x < produced)
      BY <2>0, <2>1 DEF UpTo, Below
    <3>4. UpTo(recorded', produced) /\ (srvReader.pc = "send" => Below(recorded', produced))
      BY <2>1, <3>2, <3>3, BelowUpTo
    <3> QED
      BY <2>0, <2>2, <3>2, <3>4
  <2> QED
    BY <1>6, <2>1, <2>3, <2>4 DEF RecordOutput
<1>7. CASE ShowOutput
  <2>0. PICK x : x = srvChan[1]
    OBVIOUS
  <2>1. Len(srvChan) = 1 /\ Head(srvChan) = x /\ x \in Nat /\ Len(srvChan') = 0
    BY <1>7, <2>0, LastChunk DEF ShowOutput
  <2>2. UNCHANGED <<srvReader, produced, recorded>>
    BY <1>7 DEF ShowOutput
  <2>3. UpTo(srvChan', produced) /\ Below(srvChan', produced)
    BY <2>1 DEF UpTo, Below
  <2>4. CASE shown' = shown
    BY <2>1, <2>2, <2>3, <2>4
  <2>5. CASE shown' = Append(shown, x)
    <3>1. Below(shown, x)
      BY <2>0, <2>1
    <3>2. Increasing(shown') /\ UpTo(shown', x) /\ shown' \in Seq(Nat)
      BY <2>1, <2>5, <3>1, AppendLater, AppendElements
    <3>3. x <= produced /\ (srvReader.pc = "send" => x < produced)
      BY <2>0, <2>1 DEF UpTo, Below
    <3>4. UpTo(shown', produced) /\ (srvReader.pc = "send" => Below(shown', produced))
      BY <2>1, <3>2, <3>3, BelowUpTo
    <3> QED
      BY <2>1, <2>2, <2>3, <3>2, <3>4
  <2> QED
    BY <1>7, <2>1, <2>4, <2>5, Zenon DEF ShowOutput
<1>8. CASE RecordPanics
  BY <1>8 DEF RecordPanics
<1>9. CASE OutputClosed
  BY <1>9 DEF OutputClosed, Leave
<1>10. CASE ExitSignal
  BY <1>10 DEF ExitSignal, Leave
<1>11. CASE Deferred
  BY <1>11 DEF Deferred
<1>12. CASE Leaves
  BY <1>12 DEF Leaves, Leave
<1>13. CASE UNCHANGED outputVars
  BY <1>13 DEF outputVars
<1> QED
  BY <1>1, <1>2, <1>3, <1>4, <1>5, <1>6, <1>7, <1>8, <1>9, <1>10, <1>11,
     <1>12, <1>13, StepCases, Zenon

-----------------------------------------------------------------------------
LEMMA RecordInvNext == TypeInv /\ RecordInv /\ [Next]_vars => RecordInv'
<1> SUFFICES ASSUME TypeInv, RecordInv, [Next]_vars PROVE RecordInv'
  OBVIOUS
<1> USE DEF TypeInv, RecordInv
<1>1. CASE SrvRead
  BY <1>1 DEF SrvRead
<1>2. CASE SrvSend
  <2>1. UNCHANGED <<main, recorder, recorded, rowsLost, shown>>
        /\ (main = "show" => srvChan' = srvChan)
    BY <1>2 DEF SrvSend
  <2> QED
    BY <2>1
<1>3. CASE SrvSignal
  BY <1>3 DEF SrvSignal
<1>4. CASE SrvClose
  BY <1>4 DEF SrvClose
<1>5. CASE UserSignal
  BY <1>5 DEF UserSignal
<1>6. CASE RecordOutput
  <2>0. PICK x : x = srvChan[1]
    OBVIOUS
  <2>1. Head(srvChan) = x /\ x \in Nat
    BY <1>6, <2>0, LastChunk DEF RecordOutput
  <2>2. UNCHANGED <<srvChan, recorder, shown>> /\ recorder # "failed"
    BY <1>6 DEF RecordOutput
  <2>3. CASE recorder = "open" /\ rowsLost' = 0
    <3>1. rowsLost = 0 /\ recorded' = Append(recorded, x)
      BY <1>6, <2>1, <2>3 DEF RecordOutput
    <3>2. Elements(recorded') = Elements(recorded) \cup {x}
      BY <2>1, <3>1, AppendElements
    <3> QED
      BY <2>0, <2>2, <2>3, <3>1, <3>2
  <2> QED
    BY <2>2, <2>3
<1>7. CASE ShowOutput
  <2>0. PICK x : x = srvChan[1]
    OBVIOUS
  <2>1. Head(srvChan) = x /\ x \in Nat
    BY <1>7, <2>0, LastChunk DEF ShowOutput
  <2>2. UNCHANGED <<recorder, recorded, rowsLost>> /\ main = "show" /\ main' = "loop"
        /\ recorder # "failed"
    BY <1>7 DEF ShowOutput
  <2>3. shown' \in {shown, Append(shown, x)}
    BY <1>7, <2>1 DEF ShowOutput
  <2>4. Elements(Append(shown, x)) = Elements(shown) \cup {x}
    BY <2>1, AppendElements
  <2>5. Elements(shown') \subseteq Elements(shown) \cup {x}
    BY <2>3, <2>4, Zenon
  <2> QED
    BY <2>0, <2>2, <2>5
<1>8. CASE RecordPanics
  BY <1>8 DEF RecordPanics
<1>9. CASE OutputClosed
  BY <1>9 DEF OutputClosed, Leave
<1>10. CASE ExitSignal
  BY <1>10 DEF ExitSignal, Leave
<1>11. CASE Deferred
  BY <1>11 DEF Deferred
<1>12. CASE Leaves
  BY <1>12 DEF Leaves, Leave
<1>13. CASE UNCHANGED outputVars
  BY <1>13 DEF outputVars
<1> QED
  BY <1>1, <1>2, <1>3, <1>4, <1>5, <1>6, <1>7, <1>8, <1>9, <1>10, <1>11,
     <1>12, <1>13, StepCases, Zenon

-----------------------------------------------------------------------------
IInv == TypeInv /\ EndInv /\ CountInv /\ OrderInv /\ RecordInv /\ FileInv

LEMMA IInvInvariant == Spec => []IInv
<1>1. Init => EndInv /\ CountInv
  BY DEF Init, EndInv, CountInv, InHand, Waiting
<1>2. Init => OrderInv
  BY DEF Init, OrderInv, Increasing, Below, UpTo
<1>3. Init => RecordInv /\ FileInv
  BY DEF Init, RecordInv, FileInv, Elements
<1>4. Init => IInv
  BY <1>1, <1>2, <1>3, TypeInvInit DEF IInv
<1>5. IInv /\ [Next]_vars => IInv'
  BY TypeInvNext, EndInvNext, CountInvNext, OrderInvNext, RecordInvNext, FileInvNext
     DEF IInv
<1> QED
  BY <1>4, <1>5, PTL DEF Spec

(* Whatever the select loop's order, each chunk is written to the replay   *)
(* before it goes to the user, both in the order the asset sent them.      *)
THEOREM RecordCorrect == Spec => []ShownIsRecorded
<1>1. IInv => ShownIsRecorded
  BY DEF IInv, OrderInv, RecordInv, ShownIsRecorded
<1> QED
  BY <1>1, IInvInvariant, PTL

(* If the session ends because the asset's output has, all of the output   *)
(* went through the recorder, except for one chunk when the exit signal    *)
(* was seen before srvChan was.                                            *)
THEOREM LossCorrect == Spec => []LastOutputLossBounded
<1>1. IInv => LastOutputLossBounded
  <2> SUFFICES ASSUME IInv, exitBy \in {"srv", "closed"}, recorder = "open"
               PROVE  produced - (Len(recorded) + rowsLost)
                        <= (IF exitBy = "srv" THEN 1 ELSE 0)
    BY DEF LastOutputLossBounded
  <2>1. /\ Len(recorded) \in Nat /\ rowsLost \in Nat /\ produced \in Nat
        /\ Len(srvChan) \in Nat /\ Len(srvChan) <= 1
    BY DEF IInv, TypeInv
  <2>2. InHand = 0 /\ main # "show" /\ (exitBy = "closed" => Len(srvChan) = 0)
    BY DEF IInv, TypeInv, EndInv, InHand
  <2>3. produced = Len(recorded) + rowsLost + Len(srvChan)
    BY <2>1, <2>2 DEF IInv, CountInv, Waiting
  <2> QED
    BY <2>1, <2>2, <2>3
<1> QED
  BY <1>1, IInvInvariant, PTL

(* At every moment, also in the middle of compressReplay, the rows written *)
(* are in the .cast file or GzipCompressFile has run on it.                *)
THEOREM ReplayCorrect == Spec => []ReplayKept
<1>1. IInv => ReplayKept
  BY DEF IInv, FileInv, ReplayKept
<1> QED
  BY <1>1, IInvInvariant, PTL

=============================================================================
