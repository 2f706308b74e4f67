---------------------------- MODULE Confirmation ----------------------------
(***************************************************************************)
(* What login confirmation promises, with no database, polling or races: a *)
(* ticket that was opened is settled at most once, its verdict stands, and *)
(* a session that opened one passes only when it was approved.             *)
(***************************************************************************)
CONSTANTS Sessions, Tickets, NoTicket

VARIABLES
  verdict,   \* of each ticket: "absent", "pending" or how it was settled
  holds,     \* the ticket a session opened
  outcome    \* of each session: "none", "proceed" or "refused"

vars == <<verdict, holds, outcome>>

Init ==
  /\ verdict = [t \in Tickets |-> "absent"]
  /\ holds   = [s \in Sessions |-> NoTicket]
  /\ outcome = [s \in Sessions |-> "none"]

Open(s, t) ==
  /\ outcome[s] = "none" /\ holds[s] = NoTicket /\ verdict[t] = "absent"
  /\ verdict' = [verdict EXCEPT ![t] = "pending"]
  /\ holds' = [holds EXCEPT ![s] = t]
  /\ UNCHANGED outcome

Settle(t, v) ==
  /\ verdict[t] = "pending"
  /\ verdict' = [verdict EXCEPT ![t] = v]
  /\ UNCHANGED <<holds, outcome>>

Pass(s) ==
  /\ outcome[s] = "none"
  /\ holds[s] # NoTicket => verdict[holds[s]] = "approved"
  /\ outcome' = [outcome EXCEPT ![s] = "proceed"]
  /\ UNCHANGED <<verdict, holds>>

(* Sessions end without passing; their tickets may be closed.              *)
Refuse(S) ==
  /\ \A s \in S : outcome[s] = "none"
  /\ outcome' = [s \in Sessions |-> IF s \in S THEN "refused" ELSE outcome[s]]
  /\ \E C \in SUBSET {holds[s] : s \in S} :
       verdict' = [t \in Tickets |-> IF t \in C /\ verdict[t] = "pending"
                                     THEN "closed" ELSE verdict[t]]
  /\ UNCHANGED holds

Next ==
  \/ \E s \in Sessions, t \in Tickets : Open(s, t)
  \/ \E t \in Tickets, v \in {"approved", "rejected"} : Settle(t, v)
  \/ \E s \in Sessions : Pass(s)
  \/ \E S \in SUBSET Sessions : Refuse(S)

Spec == Init /\ [][Next]_vars
=============================================================================
