------------------------------ MODULE UserAuth ------------------------------
(***************************************************************************)
(* How gojump decides that an SSH client is who it says it is              *)
(* (pkg/auth/ssh.go, pkg/auth/userAuth.go) together with the two pieces of *)
(* shared state in pkg/core the decision uses: the table of failed logins  *)
(* that blocks a user (core/auth.go) and the table of one-time passwords   *)
(* an administrator hands out (core/otp.go).                               *)
(*                                                                         *)
(* Every SSH connection authenticates in its own goroutine, and both       *)
(* tables are only locked for single reads and writes, so an attempt is    *)
(* several steps, each one critical section of the code.  Timers are       *)
(* goroutines that sleep and then run one critical section; they may fire  *)
(* at any moment.                                                          *)
(***************************************************************************)
EXTENDS Naturals, FiniteSets

CONSTANTS
  Users,        \* login names
  OtpUsers,     \* those whose record has OTPLevel 1
  Conns,        \* connections being authenticated concurrently
  Admins,       \* administrators' terminals
  Passwords,    \* one-time passwords randomPass can draw
  NoPass,       \* no entry in otpassword; the empty password of a client
  NoUser,       \* a connection or administrator at rest
  MaxTryLogin   \* config MAX_TRY_LOGIN

ASSUME ConstAssumption ==
  /\ OtpUsers \subseteq Users
  /\ NoUser \notin Users
  /\ NoPass \notin Passwords
  /\ IsFiniteSet(Conns)
  /\ IsFiniteSet(Admins)
  /\ MaxTryLogin \in Nat \ {0}

VARIABLES
  tryLoginCount,  \* failed attempts; 0 is "no entry", entries start at 1
  resets,         \* sleeping goroutines that will delete a user's entry
  otpassword,     \* the one-time password of a user, or NoPass
  clears,         \* sleeping clearOTPassword goroutines of a user
  conn,           \* where each connection's attempt is
  admin,          \* the user an administrator generated for, or NoUser
  issued,         \* history: the passwords drawn so far
  accepted,       \* history: verifications each password has passed
  used            \* history: verifications each user has passed

vars == <<tryLoginCount, resets, otpassword, clears, conn, admin, issued,
          accepted, used>>

guardVars == <<tryLoginCount, resets>>
otpVars   == <<otpassword, clears, admin, issued, accepted, used>>

AtRest == [pc |-> "idle", user |-> NoUser, pass |-> NoPass]

Steps == {"idle", "verify", "clear", "checked", "failed", "startReset"}

Goto(c, step) == conn' = [conn EXCEPT ![c].pc = step]
Finish(c)     == conn' = [conn EXCEPT ![c] = AtRest]

Init ==
  /\ tryLoginCount = [u \in Users |-> 0]
  /\ resets        = [u \in Users |-> 0]
  /\ otpassword    = [u \in Users |-> NoPass]
  /\ clears        = [u \in Users |-> 0]
  /\ conn          = [c \in Conns |-> AtRest]
  /\ admin         = [a \in Admins |-> NoUser]
  /\ issued        = {}
  /\ accepted      = [p \in Passwords |-> 0]
  /\ used          = [u \in Users |-> 0]

-----------------------------------------------------------------------------
(* One attempt of a connection.                                            *)

(* Fault: one attempt too many.                                            *)
UserIsBlockedLate(u) == tryLoginCount[u] > MaxTryLogin

UserIsBlocked(u) == tryLoginCount[u] >= MaxTryLogin

(* Authenticate's first critical section.  A blocked user is turned away   *)
(* (AuthBlock) without being counted, so only the other outcome is a step. *)
Authenticate(c, u, p) ==
  /\ conn[c].pc = "idle"
  /\ ~UserIsBlocked(u)
  /\ conn' = [conn EXCEPT ![c] = [pc |-> "verify", user |-> u, pass |-> p]]
  /\ UNCHANGED <<guardVars, otpVars>>

(* GetUser fails, the user is inactive, or has no secret in the database.  *)
UserUnusable(c) ==
  /\ conn[c].pc = "verify"
  /\ Goto(c, "failed")
  /\ UNCHANGED <<guardVars, otpVars>>

(* doPasswordsMatch or doPublicKeyMatch against the stored secret.         *)
CheckSecret(c) ==
  /\ conn[c].pc = "verify"
  /\ conn[c].user \notin OtpUsers
  /\ \E match \in BOOLEAN : Goto(c, IF match THEN "checked" ELSE "failed")
  /\ UNCHANGED <<guardVars, otpVars>>

(* The first half of verifyOTP: read the table under otpLock, compare.     *)
ReadOTP(c) ==
  LET u == conn[c].user
      p == conn[c].pass
  IN /\ conn[c].pc = "verify"
     /\ u \in OtpUsers
     /\ Goto(c, IF p # NoPass /\ otpassword[u] = p THEN "clear" ELSE "failed")
     /\ UNCHANGED <<guardVars, otpVars>>

(* Fault: a matching password stays in the table.                          *)
KeepMatchedOTP(c) ==
  /\ conn[c].pc = "clear"
  /\ accepted' = [accepted EXCEPT ![conn[c].pass] = @ + 1]
  /\ used' = [used EXCEPT ![conn[c].user] = @ + 1]
  /\ Goto(c, "checked")
  /\ UNCHANGED <<guardVars, otpassword, clears, admin, issued>>

(* Its second half, on a match: clearOTPassword(name, 0) deletes whatever  *)
(* is in the table for this name by now.                                   *)
ClearMatchedOTP(c) ==
  LET u == conn[c].user
      p == conn[c].pass
  IN /\ conn[c].pc = "clear"
     /\ otpassword' = [otpassword EXCEPT ![u] = NoPass]
     /\ accepted' = [accepted EXCEPT ![p] = @ + 1]
     /\ used' = [used EXCEPT ![u] = @ + 1]
     /\ Goto(c, "checked")
     /\ UNCHANGED <<guardVars, clears, admin, issued>>

(* The address white list and the account's expiry date.                   *)
AdmitOrRefuse(c) ==
  /\ conn[c].pc = "checked"
  /\ \/ Finish(c)            \* AuthSuccess
     \/ Goto(c, "failed")    \* AuthFailed
  /\ UNCHANGED <<guardVars, otpVars>>

(* Fault: every failure starts a timer, not only the first.                *)
LimitTryLoginEachTime(c) ==
  /\ conn[c].pc = "failed"
  /\ tryLoginCount' = [tryLoginCount EXCEPT ![conn[c].user] = @ + 1]
  /\ Goto(c, "startReset")
  /\ UNCHANGED <<resets, otpVars>>

(* AuthFailed is counted; whoever creates the entry starts its timer, but  *)
(* only after having released loginLock.                                   *)
LimitTryLogin(c) ==
  LET u == conn[c].user
  IN /\ conn[c].pc = "failed"
     /\ tryLoginCount' = [tryLoginCount EXCEPT ![u] = @ + 1]
     /\ IF tryLoginCount[u] = 0 THEN Goto(c, "startReset") ELSE Finish(c)
     /\ UNCHANGED <<resets, otpVars>>

StartReset(c) ==
  /\ conn[c].pc = "startReset"
  /\ resets' = [resets EXCEPT ![conn[c].user] = @ + 1]
  /\ Finish(c)
  /\ UNCHANGED <<tryLoginCount, otpVars>>

(* Fault: the timer is set again and the entry never deleted.              *)
ResetRearms(u) == resets[u] > 0 /\ UNCHANGED vars

(* LoginBlockTime later.                                                   *)
ResetFires(u) ==
  /\ resets[u] > 0
  /\ resets' = [resets EXCEPT ![u] = @ - 1]
  /\ tryLoginCount' = [tryLoginCount EXCEPT ![u] = 0]
  /\ UNCHANGED <<conn, otpVars>>

-----------------------------------------------------------------------------
(* One-time passwords.                                                     *)

(* Fault: no timer for a new password.                                     *)
GenWithoutTimer(a, u, p) ==
  /\ admin[a] = NoUser
  /\ otpassword[u] = NoPass
  /\ p \notin issued
  /\ otpassword' = [otpassword EXCEPT ![u] = p]
  /\ issued' = issued \cup {p}
  /\ UNCHANGED <<guardVars, clears, conn, admin, accepted, used>>

(* An administrator's "otp <name>": an existing password is shown again    *)
(* (no step), otherwise one is drawn, stored and its timer started after   *)
(* otpLock is released.  Draws are taken to be distinct.                   *)
GenOTPassword(a, u, p) ==
  /\ admin[a] = NoUser
  /\ otpassword[u] = NoPass
  /\ p \notin issued
  /\ otpassword' = [otpassword EXCEPT ![u] = p]
  /\ issued' = issued \cup {p}
  /\ admin' = [admin EXCEPT ![a] = u]
  /\ UNCHANGED <<guardVars, clears, conn, accepted, used>>

StartClear(a) ==
  /\ admin[a] # NoUser
  /\ clears' = [clears EXCEPT ![admin[a]] = @ + 1]
  /\ admin' = [admin EXCEPT ![a] = NoUser]
  /\ UNCHANGED <<guardVars, otpassword, conn, issued, accepted, used>>

(* OtpDuration later: the entry of this name goes, whichever it is.        *)
ClearFires(u) ==
  /\ clears[u] > 0
  /\ clears' = [clears EXCEPT ![u] = @ - 1]
  /\ otpassword' = [otpassword EXCEPT ![u] = NoPass]
  /\ UNCHANGED <<guardVars, conn, admin, issued, accepted, used>>

-----------------------------------------------------------------------------
(* What a client can send for a user: a stored secret is compared in one   *)
(* step whose outcome CheckSecret picks, so the bytes only matter for OTP. *)
Inputs(u) == IF u \in OtpUsers THEN Passwords \cup {NoPass} ELSE {NoPass}

Proceed(c) ==
  \/ UserUnusable(c) \/ CheckSecret(c) \/ ReadOTP(c) \/ ClearMatchedOTP(c)
  \/ AdmitOrRefuse(c) \/ LimitTryLogin(c) \/ StartReset(c)

Next ==
  \/ \E c \in Conns, u \in Users : \E p \in Inputs(u) : Authenticate(c, u, p)
  \/ \E c \in Conns : Proceed(c)
  \/ \E u \in Users : ResetFires(u) \/ ClearFires(u)
  \/ \E a \in Admins, u \in OtpUsers, p \in Passwords : GenOTPassword(a, u, p)
  \/ \E a \in Admins : StartClear(a)

Spec == Init /\ [][Next]_vars

(* Goroutines that are runnable run, and timers that were started fire;    *)
(* nobody has to log in or to generate a password.                         *)
Fairness ==
  /\ \A c \in Conns : WF_vars(Proceed(c))
  /\ \A u \in Users : WF_vars(ResetFires(u)) /\ WF_vars(ClearFires(u))
  /\ \A a \in Admins : WF_vars(StartClear(a))

FairSpec == Spec /\ Fairness

-----------------------------------------------------------------------------
TypeOK ==
  /\ tryLoginCount \in [Users -> Nat]
  /\ resets \in [Users -> Nat]
  /\ otpassword \in [Users -> Passwords \cup {NoPass}]
  /\ clears \in [Users -> Nat]
  /\ conn \in [Conns -> [pc : Steps, user : Users \cup {NoUser},
                         pass : Passwords \cup {NoPass}]]
  /\ admin \in [Admins -> Users \cup {NoUser}]
  /\ issued \in SUBSET Passwords
  /\ accepted \in [Passwords -> Nat]
  /\ used \in [Users -> Nat]

Starting(u)  == {c \in Conns : conn[c].pc = "startReset" /\ conn[c].user = u}
Inside(u)    == {c \in Conns : conn[c].pc # "idle" /\ conn[c].pc # "startReset"
                               /\ conn[c].user = u}
Matched(p)   == {c \in Conns : conn[c].pc = "clear" /\ conn[c].pass = p}
ToStart(u)   == {a \in Admins : admin[a] = u}

(* A user has an entry in tryLoginCount exactly when one deletion of it is *)
(* under way: a sleeping timer, or a connection about to start one.  So no *)
(* block is permanent, and no leftover timer cuts a later block short      *)
(* (LimitTryLogin decides under the lock, but starts the timer outside).   *)
OneResetPerEntry ==
  \A u \in Users :
    \/ tryLoginCount[u] = 0 /\ resets[u] = 0 /\ Starting(u) = {}
    \/ tryLoginCount[u] > 0 /\ resets[u] = 1 /\ Starting(u) = {}
    \/ tryLoginCount[u] > 0 /\ resets[u] = 0 /\ \E c \in Conns : Starting(u) = {c}

(* UserIsBlocked and LimitTryLogin are separate critical sections, so more *)
(* than MaxTryLogin attempts can fail before the block works; the excess   *)
(* is less than the number of connections that were already past the check.*)
OvershootBounded ==
  \A u \in Users :
    tryLoginCount[u] + Cardinality(Inside(u)) <= MaxTryLogin - 1 + Cardinality(Conns)

(* A one-time password in the table always has somebody who will take it   *)
(* out again, also between GenOTPassword's unlock and its go statement.    *)
(* The timers delete by name, so one left over from an earlier password    *)
(* can delete a later one early; leftovers only come from passwords that   *)
(* were used: there are never more timers than verifications passed, plus  *)
(* the one of the password in the table.                                   *)
OtpTimers ==
  \A u \in Users :
    LET timers == clears[u] + Cardinality(ToStart(u))
    IN /\ otpassword[u] # NoPass => timers > 0
       /\ timers <= used[u] + (IF otpassword[u] = NoPass THEN 0 ELSE 1)

(* verifyOTP compares outside the lock, so a password may pass more than   *)
(* once; but only on connections that had read it before it was cleared:   *)
(* a password still in the table has passed nowhere, and it passes at most *)
(* once per connection in all.                                             *)
AcceptedOnlyByEarlyReaders ==
  /\ \A u \in Users : \A p \in Passwords : otpassword[u] = p => accepted[p] = 0
  /\ \A p \in Passwords : accepted[p] + Cardinality(Matched(p)) <= Cardinality(Conns)

(* The block is temporary: a blocked user is let through to the password   *)
(* check again (the goroutine LimitTryLogin starts).                       *)
BlockEnds == \A u \in Users : UserIsBlocked(u) ~> ~UserIsBlocked(u)
=============================================================================
