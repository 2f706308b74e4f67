--------------------------- MODULE UserAuth_proofs ---------------------------
(***************************************************************************)
(* Proofs that the safety properties of UserAuth hold for any number of    *)
(* users, connections, administrators and passwords and any MaxTryLogin.   *)
(***************************************************************************)
EXTENDS UserAuth, FiniteSetTheorems, TLAPS

(* A connection inside an attempt has a user; one that matched a one-time  *)
(* password has that password.                                             *)
ConnOK ==
  \A c \in Conns : /\ conn[c].pc # "idle" => conn[c].user \in Users
                   /\ conn[c].pc = "clear" => conn[c].pass \in Passwords

TypeInv == TypeOK /\ ConnOK

USE DEF AtRest, Goto, Finish, guardVars, otpVars, UserIsBlocked, Steps

LEMMA TypeInvInit == Init => TypeInv
BY ConstAssumption DEF Init, TypeInv, TypeOK, ConnOK

LEMMA InputsType == \A u \in Users : Inputs(u) \subseteq Passwords \cup {NoPass}
BY DEF Inputs

LEMMA TypeInvNext == TypeInv /\ [Next]_vars => TypeInv'
<1> SUFFICES ASSUME TypeInv, [Next]_vars PROVE TypeInv'
  OBVIOUS
<1> USE ConstAssumption DEF TypeInv, TypeOK, ConnOK
<1>1. ASSUME NEW c \in Conns, NEW u \in Users, NEW p \in Inputs(u),
             Authenticate(c, u, p)
      PROVE  TypeInv'
  BY <1>1, InputsType DEF Authenticate
<1>2. ASSUME NEW c \in Conns, UserUnusable(c) PROVE TypeInv'
  BY <1>2 DEF UserUnusable
<1>3. ASSUME NEW c \in Conns, CheckSecret(c) PROVE TypeInv'
  BY <1>3 DEF CheckSecret
<1>4. ASSUME NEW c \in Conns, ReadOTP(c) PROVE TypeInv'
  BY <1>4 DEF ReadOTP
<1>5. ASSUME NEW c \in Conns, ClearMatchedOTP(c) PROVE TypeInv'
  BY <1>5 DEF ClearMatchedOTP
<1>6. ASSUME NEW c \in Conns, AdmitOrRefuse(c) PROVE TypeInv'
  <2>1. CASE Finish(c)
    BY <1>6, <2>1 DEF AdmitOrRefuse
  <2>2. CASE Goto(c, "failed")
    BY <1>6, <2>2 DEF AdmitOrRefuse
  <2> QED
    BY <1>6, <2>1, <2>2 DEF AdmitOrRefuse
<1>7. ASSUME NEW c \in Conns, LimitTryLogin(c) PROVE TypeInv'
  BY <1>7 DEF LimitTryLogin
<1>8. ASSUME NEW c \in Conns, StartReset(c) PROVE TypeInv'
  BY <1>8 DEF StartReset
<1>9. ASSUME NEW u \in Users, ResetFires(u) PROVE TypeInv'
  BY <1>9 DEF ResetFires
<1>10. ASSUME NEW u \in Users, ClearFires(u) PROVE TypeInv'
  BY <1>10 DEF ClearFires
<1>11. ASSUME NEW a \in Admins, NEW u \in OtpUsers, NEW p \in Passwords,
              GenOTPassword(a, u, p)
       PROVE  TypeInv'
  BY <1>11 DEF GenOTPassword
<1>12. ASSUME NEW a \in Admins, StartClear(a) PROVE TypeInv'
  BY <1>12 DEF StartClear
<1>13. CASE UNCHANGED vars
  BY <1>13 DEF vars
<1> QED
  BY <1>1, <1>2, <1>3, <1>4, <1>5, <1>6, <1>7, <1>8, <1>9, <1>10, <1>11,
     <1>12, <1>13 DEF Next, Proceed

(* Every variable of the authentication code keeps its type, and a         *)
(* connection inside an attempt knows its user.                            *)
THEOREM TypeCorrect == Spec => []TypeInv
BY TypeInvInit, TypeInvNext, PTL DEF Spec

-----------------------------------------------------------------------------
(* Steps that leave the two guard tables and the connections that are about*)
(* to start a timer alone.                                                 *)
LEMMA OneResetFrame ==
  ASSUME TypeInv, OneResetPerEntry, UNCHANGED guardVars,
         \A u \in Users : Starting(u)' = Starting(u)
  PROVE  OneResetPerEntry'
BY DEF OneResetPerEntry

LEMMA OneResetNext == TypeInv /\ OneResetPerEntry /\ [Next]_vars => OneResetPerEntry'
<1> SUFFICES ASSUME TypeInv, OneResetPerEntry, [Next]_vars
             PROVE  OneResetPerEntry'
  OBVIOUS
<1> USE ConstAssumption DEF TypeInv, TypeOK, ConnOK
<1>1. ASSUME NEW c \in Conns, NEW u \in Users, NEW p \in Inputs(u),
             Authenticate(c, u, p)
      PROVE  OneResetPerEntry'
  BY <1>1, OneResetFrame DEF Authenticate, Starting
<1>2. ASSUME NEW c \in Conns, UserUnusable(c) PROVE OneResetPerEntry'
  BY <1>2, OneResetFrame DEF UserUnusable, Starting
<1>3. ASSUME NEW c \in Conns, CheckSecret(c) PROVE OneResetPerEntry'
  BY <1>3, OneResetFrame DEF CheckSecret, Starting
<1>4. ASSUME NEW c \in Conns, ReadOTP(c) PROVE OneResetPerEntry'
  BY <1>4, OneResetFrame DEF ReadOTP, Starting
<1>5. ASSUME NEW c \in Conns, ClearMatchedOTP(c) PROVE OneResetPerEntry'
  BY <1>5, OneResetFrame DEF ClearMatchedOTP, Starting
<1>6. ASSUME NEW c \in Conns, AdmitOrRefuse(c) PROVE OneResetPerEntry'
  <2>1. \A v \in Users : Starting(v)' = Starting(v)
    BY <1>6 DEF AdmitOrRefuse, Starting
  <2> QED
    BY <1>6, <2>1, OneResetFrame DEF AdmitOrRefuse
<1>7. ASSUME NEW c \in Conns, LimitTryLogin(c) PROVE OneResetPerEntry'
  <2>0. PICK u \in Users : u = conn[c].user
    BY <1>7 DEF LimitTryLogin
  <2>1. tryLoginCount' = [tryLoginCount EXCEPT ![u] = @ + 1] /\ resets' = resets
    BY <1>7, <2>0 DEF LimitTryLogin
  <2>2. \A v \in Users : v # u => Starting(v)' = Starting(v)
    <3>1. CASE tryLoginCount[u] = 0
      <4>1. /\ \A d \in Conns : d # c => conn'[d] = conn[d]
            /\ conn[c].user = u /\ conn'[c].user = u
        BY <2>0, <1>7, <3>1 DEF LimitTryLogin
      <4> QED
        BY <4>1 DEF Starting
    <3>2. CASE tryLoginCount[u] # 0
      BY <2>0, <1>7, <3>2 DEF LimitTryLogin, Starting
    <3> QED
      BY <3>1, <3>2
  <2>3. CASE tryLoginCount[u] = 0
    <3>1. Starting(u)' = Starting(u) \cup {c}
      BY <2>0, <1>7, <2>1, <2>3 DEF LimitTryLogin, Starting
    <3>2. Starting(u) = {} /\ resets[u] = 0
      BY <2>1, <2>3 DEF OneResetPerEntry
    <3>3. Starting(u)' = {c}
      BY <3>1, <3>2
    <3> QED
      BY <2>1, <2>2, <2>3, <3>2, <3>3 DEF OneResetPerEntry
  <2>4. CASE tryLoginCount[u] # 0
    <3>1. Starting(u)' = Starting(u)
      BY <2>0, <1>7, <2>1, <2>4 DEF LimitTryLogin, Starting
    <3> QED
      BY <2>1, <2>2, <2>4, <3>1 DEF OneResetPerEntry
  <2> QED
    BY <2>3, <2>4
<1>8. ASSUME NEW c \in Conns, StartReset(c) PROVE OneResetPerEntry'
  <2>0. PICK u \in Users : u = conn[c].user
    BY <1>8 DEF StartReset
  <2>1. resets' = [resets EXCEPT ![u] = @ + 1] /\ tryLoginCount' = tryLoginCount
    BY <1>8, <2>0 DEF StartReset
  <2>2. \A v \in Users : v # u => Starting(v)' = Starting(v)
    BY <2>0, <1>8 DEF StartReset, Starting
  <2>3. c \in Starting(u) /\ Starting(u)' = Starting(u) \ {c}
    BY <2>0, <1>8 DEF StartReset, Starting
  <2>4. tryLoginCount[u] > 0 /\ resets[u] = 0 /\ Starting(u) = {c}
    BY <2>1, <2>3 DEF OneResetPerEntry
  <2>5. Starting(u)' = {}
    BY <2>3, <2>4
  <2> QED
    BY <2>1, <2>2, <2>4, <2>5 DEF OneResetPerEntry
<1>9. ASSUME NEW u \in Users, ResetFires(u) PROVE OneResetPerEntry'
  <2>1. \A v \in Users : Starting(v)' = Starting(v)
    BY <1>9 DEF ResetFires, Starting
  <2>2. resets[u] = 1 /\ Starting(u) = {}
    BY <1>9 DEF ResetFires, OneResetPerEntry
  <2> QED
    BY <1>9, <2>1, <2>2 DEF ResetFires, OneResetPerEntry
<1>10. ASSUME NEW u \in Users, ClearFires(u) PROVE OneResetPerEntry'
  BY <1>10, OneResetFrame DEF ClearFires, Starting
<1>11. ASSUME NEW a \in Admins, NEW u \in OtpUsers, NEW p \in Passwords,
              GenOTPassword(a, u, p)
       PROVE  OneResetPerEntry'
  BY <1>11, OneResetFrame DEF GenOTPassword, Starting
<1>12. ASSUME NEW a \in Admins, StartClear(a) PROVE OneResetPerEntry'
  BY <1>12, OneResetFrame DEF StartClear, Starting
<1>13. CASE UNCHANGED vars
  BY <1>13, OneResetFrame DEF vars, Starting
<1> QED
  BY <1>1, <1>2, <1>3, <1>4, <1>5, <1>6, <1>7, <1>8, <1>9, <1>10, <1>11,
     <1>12, <1>13 DEF Next, Proceed

(* An entry of tryLoginCount exists exactly as long as one deletion of it  *)
(* is under way, whatever the interleaving of attempts and timers.         *)
THEOREM OneResetCorrect == Spec => []OneResetPerEntry
<1>1. Init => OneResetPerEntry
  BY DEF Init, OneResetPerEntry, Starting
<1> QED
  BY <1>1, TypeCorrect, OneResetNext, PTL DEF Spec

-----------------------------------------------------------------------------
(* Sizes of sets of connections.                                           *)
LEMMA ConnSets ==
  /\ Cardinality(Conns) \in Nat
  /\ \A S \in SUBSET Conns : Cardinality(S) \in Nat /\ Cardinality(S) <= Cardinality(Conns)
  /\ \A S, T \in SUBSET Conns : S \subseteq T => Cardinality(S) <= Cardinality(T)
  /\ \A S \in SUBSET Conns : \A c \in S : Cardinality(S \ {c}) = Cardinality(S) - 1
<1>1. Cardinality(Conns) \in Nat
  BY ConstAssumption, FS_CardinalityType
<1>2. ASSUME NEW S \in SUBSET Conns
      PROVE  IsFiniteSet(S) /\ Cardinality(S) \in Nat /\ Cardinality(S) <= Cardinality(Conns)
  BY ConstAssumption, FS_Subset, FS_CardinalityType
<1>3. ASSUME NEW S \in SUBSET Conns, NEW T \in SUBSET Conns, S \subseteq T
      PROVE  Cardinality(S) <= Cardinality(T)
  BY <1>2, <1>3, FS_Subset
<1>4. ASSUME NEW S \in SUBSET Conns, NEW c \in S
      PROVE  Cardinality(S \ {c}) = Cardinality(S) - 1
  BY <1>2, FS_RemoveElement
<1> QED
  BY <1>1, <1>2, <1>3, <1>4

(* Steps after which no user has a higher count or more connections past   *)
(* the check.                                                              *)
LEMMA OvershootFrame ==
  ASSUME TypeInv, TypeInv', OvershootBounded, UNCHANGED tryLoginCount,
         \A u \in Users : Inside(u)' \subseteq Inside(u)
  PROVE  OvershootBounded'
<1> SUFFICES ASSUME NEW u \in Users
             PROVE  tryLoginCount'[u] + Cardinality(Inside(u)')
                      <= MaxTryLogin - 1 + Cardinality(Conns)
  BY DEF OvershootBounded
<1>1. Inside(u) \in SUBSET Conns /\ Inside(u)' \in SUBSET Conns
  BY DEF Inside
<1>2. Cardinality(Inside(u)') <= Cardinality(Inside(u))
      /\ Cardinality(Inside(u)') \in Nat /\ Cardinality(Inside(u)) \in Nat
  BY <1>1, ConnSets
<1>3. tryLoginCount[u] \in Nat /\ tryLoginCount'[u] = tryLoginCount[u]
  BY DEF TypeInv, TypeOK
<1> QED
  BY <1>2, <1>3, ConnSets, ConstAssumption DEF OvershootBounded

LEMMA OvershootNext ==
  TypeInv /\ TypeInv' /\ OvershootBounded /\ [Next]_vars => OvershootBounded'
<1> SUFFICES ASSUME TypeInv, TypeInv', OvershootBounded, [Next]_vars
             PROVE  OvershootBounded'
  OBVIOUS
<1> USE ConstAssumption DEF TypeInv, TypeOK, ConnOK
<1>1. ASSUME NEW c \in Conns, NEW u \in Users, NEW p \in Inputs(u),
             Authenticate(c, u, p)
      PROVE  OvershootBounded'
  <2>1. \A v \in Users : v # u => Inside(v)' \subseteq Inside(v)
    BY <1>1 DEF Authenticate, Inside
  <2>2. tryLoginCount' = tryLoginCount /\ tryLoginCount[u] \in Nat
        /\ tryLoginCount[u] <= MaxTryLogin - 1
    BY <1>1 DEF Authenticate
  <2> SUFFICES ASSUME NEW v \in Users
               PROVE  tryLoginCount'[v] + Cardinality(Inside(v)')
                        <= MaxTryLogin - 1 + Cardinality(Conns)
    BY DEF OvershootBounded
  <2>3. Inside(v) \in SUBSET Conns /\ Inside(v)' \in SUBSET Conns
    BY DEF Inside
  <2>4. CASE v = u
    <3>1. Cardinality(Inside(v)') \in Nat /\ Cardinality(Inside(v)') <= Cardinality(Conns)
      BY <2>3, ConnSets
    <3> QED
      BY <2>2, <2>4, <3>1, ConnSets
  <2>5. CASE v # u
    <3>1. Cardinality(Inside(v)') <= Cardinality(Inside(v))
          /\ Cardinality(Inside(v)') \in Nat /\ Cardinality(Inside(v)) \in Nat
      BY <2>1, <2>3, <2>5, ConnSets
    <3> QED
      BY <2>2, <3>1, ConnSets DEF OvershootBounded
  <2> QED
    BY <2>4, <2>5
<1>2. ASSUME NEW c \in Conns, UserUnusable(c) PROVE OvershootBounded'
  BY <1>2, OvershootFrame DEF UserUnusable, Inside
<1>3. ASSUME NEW c \in Conns, CheckSecret(c) PROVE OvershootBounded'
  BY <1>3, OvershootFrame DEF CheckSecret, Inside
<1>4. ASSUME NEW c \in Conns, ReadOTP(c) PROVE OvershootBounded'
  BY <1>4, OvershootFrame DEF ReadOTP, Inside
<1>5. ASSUME NEW c \in Conns, ClearMatchedOTP(c) PROVE OvershootBounded'
  BY <1>5, OvershootFrame DEF ClearMatchedOTP, Inside
<1>6. ASSUME NEW c \in Conns, AdmitOrRefuse(c) PROVE OvershootBounded'
  <2>1. \A v \in Users : Inside(v)' \subseteq Inside(v)
    BY <1>6 DEF AdmitOrRefuse, Inside
  <2> QED
    BY <1>6, <2>1, OvershootFrame DEF AdmitOrRefuse
<1>7. ASSUME NEW c \in Conns, LimitTryLogin(c) PROVE OvershootBounded'
  <2>0. PICK u \in Users : u = conn[c].user
    BY <1>7 DEF LimitTryLogin
  <2>1. tryLoginCount' = [tryLoginCount EXCEPT ![u] = @ + 1]
        /\ conn'[c].pc \in {"idle", "startReset"}
        /\ \A d \in Conns : d # c => conn'[d] = conn[d]
    BY <1>7, <2>0 DEF LimitTryLogin
  <2>2. c \in Inside(u)
    BY <1>7, <2>0 DEF LimitTryLogin, Inside
  <2>3. \A v \in Users : Inside(v)' \subseteq Inside(v) \ {c}
    BY <2>1 DEF Inside
  <2> SUFFICES ASSUME NEW v \in Users
               PROVE  tryLoginCount'[v] + Cardinality(Inside(v)')
                        <= MaxTryLogin - 1 + Cardinality(Conns)
    BY DEF OvershootBounded
  <2>4. Inside(v) \in SUBSET Conns /\ Inside(v)' \in SUBSET Conns
        /\ Inside(v) \ {c} \in SUBSET Conns
    BY DEF Inside
  <2>5. /\ Cardinality(Inside(v)') <= Cardinality(Inside(v) \ {c})
        /\ Cardinality(Inside(v) \ {c}) <= Cardinality(Inside(v))
        /\ Cardinality(Inside(v)') \in Nat /\ Cardinality(Inside(v)) \in Nat
        /\ Cardinality(Inside(v) \ {c}) \in Nat
    BY <2>3, <2>4, ConnSets
  <2>6. CASE v = u
    <3>1. Cardinality(Inside(v) \ {c}) = Cardinality(Inside(v)) - 1
      BY <2>2, <2>4, <2>6, ConnSets
    <3> QED
      BY <2>1, <2>5, <2>6, <3>1, ConnSets DEF OvershootBounded
  <2>7. CASE v # u
    BY <2>1, <2>5, <2>7, ConnSets DEF OvershootBounded
  <2> QED
    BY <2>6, <2>7
<1>8. ASSUME NEW c \in Conns, StartReset(c) PROVE OvershootBounded'
  BY <1>8, OvershootFrame DEF StartReset, Inside
<1>9. ASSUME NEW u \in Users, ResetFires(u) PROVE OvershootBounded'
  <2>1. /\ \A v \in Users : Inside(v)' = Inside(v) /\ Inside(v) \in SUBSET Conns
        /\ tryLoginCount' = [tryLoginCount EXCEPT ![u] = 0]
    BY <1>9 DEF ResetFires, Inside
  <2>2. \A v \in Users : /\ Cardinality(Inside(v)) \in Nat
                         /\ Cardinality(Inside(v)) <= Cardinality(Conns)
    BY <2>1, ConnSets
  <2> QED
    BY <2>1, <2>2, ConnSets DEF OvershootBounded
<1>10. ASSUME NEW u \in Users, ClearFires(u) PROVE OvershootBounded'
  BY <1>10, OvershootFrame DEF ClearFires, Inside
<1>11. ASSUME NEW a \in Admins, NEW u \in OtpUsers, NEW p \in Passwords,
              GenOTPassword(a, u, p)
       PROVE  OvershootBounded'
  BY <1>11, OvershootFrame DEF GenOTPassword, Inside
<1>12. ASSUME NEW a \in Admins, StartClear(a) PROVE OvershootBounded'
  BY <1>12, OvershootFrame DEF StartClear, Inside
<1>13. CASE UNCHANGED vars
  BY <1>13, OvershootFrame DEF vars, Inside
<1> QED
  BY <1>1, <1>2, <1>3, <1>4, <1>5, <1>6, <1>7, <1>8, <1>9, <1>10, <1>11,
     <1>12, <1>13 DEF Next, Proceed

(* The check-then-count window of Authenticate and LimitTryLogin lets at   *)
(* most one attempt per connection slip past MaxTryLogin - 1 failures.     *)
THEOREM OvershootCorrect == Spec => []OvershootBounded
<1>1. Init => OvershootBounded
  <2> SUFFICES ASSUME Init, NEW u \in Users
               PROVE  tryLoginCount[u] + Cardinality(Inside(u))
                        <= MaxTryLogin - 1 + Cardinality(Conns)
    BY DEF OvershootBounded
  <2>1. Inside(u) = {} /\ tryLoginCount[u] = 0
    BY DEF Init, Inside
  <2> QED
    BY <2>1, FS_EmptySet, ConnSets, ConstAssumption
<1> QED
  BY <1>1, TypeCorrect, OvershootNext, PTL DEF Spec

-----------------------------------------------------------------------------
(* Sizes of sets of administrators.                                        *)
LEMMA AdminSets ==
  /\ \A S \in SUBSET Admins : IsFiniteSet(S) /\ Cardinality(S) \in Nat
  /\ \A S \in SUBSET Admins : \A a \in S : Cardinality(S \ {a}) = Cardinality(S) - 1
                                           /\ Cardinality(S) > 0
  /\ \A S \in SUBSET Admins : \A a \in Admins \ S :
       Cardinality(S \cup {a}) = Cardinality(S) + 1
<1>1. ASSUME NEW S \in SUBSET Admins
      PROVE  IsFiniteSet(S) /\ Cardinality(S) \in Nat
  BY ConstAssumption, FS_Subset, FS_CardinalityType
<1>2. ASSUME NEW S \in SUBSET Admins, NEW a \in S
      PROVE  Cardinality(S \ {a}) = Cardinality(S) - 1 /\ Cardinality(S) > 0
  <2>1. Cardinality(S \ {a}) = Cardinality(S) - 1
    BY <1>1, FS_RemoveElement
  <2>2. Cardinality(S \ {a}) \in Nat /\ Cardinality(S) \in Nat
    BY <1>1
  <2> QED
    BY <2>1, <2>2
<1>3. ASSUME NEW S \in SUBSET Admins, NEW a \in Admins \ S
      PROVE  Cardinality(S \cup {a}) = Cardinality(S) + 1
  BY <1>1, FS_AddElement
<1> QED
  BY <1>1, <1>2, <1>3

LEMMA OtpFrame ==
  ASSUME OtpTimers, UNCHANGED <<otpassword, clears, admin, used>>
  PROVE  OtpTimers'
BY DEF OtpTimers, ToStart

LEMMA OtpTimersNext == TypeInv /\ OtpTimers /\ [Next]_vars => OtpTimers'
<1> SUFFICES ASSUME TypeInv, OtpTimers, [Next]_vars PROVE OtpTimers'
  OBVIOUS
<1> USE ConstAssumption DEF TypeInv, TypeOK, ConnOK
<1>0. \A v \in Users : /\ ToStart(v) \in SUBSET Admins /\ ToStart(v)' \in SUBSET Admins
                       /\ Cardinality(ToStart(v)) \in Nat
                       /\ clears[v] \in Nat /\ used[v] \in Nat
  BY AdminSets DEF ToStart
<1>1. ASSUME NEW c \in Conns, ClearMatchedOTP(c) PROVE OtpTimers'
  <2>0. PICK u \in Users : u = conn[c].user
    BY <1>1 DEF ClearMatchedOTP
  <2>1. /\ otpassword' = [otpassword EXCEPT ![u] = NoPass]
        /\ used' = [used EXCEPT ![u] = @ + 1]
        /\ clears' = clears
        /\ \A v \in Users : ToStart(v)' = ToStart(v)
    BY <1>1, <2>0 DEF ClearMatchedOTP, ToStart
  <2> QED
    BY <1>0, <2>1 DEF OtpTimers
<1>2. ASSUME NEW u \in Users, ClearFires(u) PROVE OtpTimers'
  <2>1. /\ otpassword' = [otpassword EXCEPT ![u] = NoPass]
        /\ clears' = [clears EXCEPT ![u] = @ - 1] /\ clears[u] > 0
        /\ used' = used
        /\ \A v \in Users : ToStart(v)' = ToStart(v)
    BY <1>2 DEF ClearFires, ToStart
  <2> QED
    BY <1>0, <2>1 DEF OtpTimers
<1>3. ASSUME NEW a \in Admins, NEW u \in OtpUsers, NEW p \in Passwords,
             GenOTPassword(a, u, p)
      PROVE  OtpTimers'
  <2>1. /\ otpassword' = [otpassword EXCEPT ![u] = p] /\ otpassword[u] = NoPass
        /\ UNCHANGED <<clears, used>> /\ u \in Users /\ p # NoPass
    BY <1>3 DEF GenOTPassword
  <2>2. /\ a \notin ToStart(u) /\ ToStart(u)' = ToStart(u) \cup {a}
        /\ \A v \in Users : v # u => ToStart(v)' = ToStart(v)
    BY <1>3, <2>1 DEF GenOTPassword, ToStart
  <2>3. Cardinality(ToStart(u)') = Cardinality(ToStart(u)) + 1
    BY <1>0, <2>1, <2>2, AdminSets
  <2>4. ASSUME NEW v \in Users, v # u
        PROVE  /\ ToStart(v)' = ToStart(v) /\ clears'[v] = clears[v]
               /\ otpassword'[v] = otpassword[v] /\ used'[v] = used[v]
    BY <2>1, <2>2, <2>4
  <2>5. /\ otpassword'[u] # NoPass => clears'[u] + Cardinality(ToStart(u)') > 0
        /\ clears'[u] + Cardinality(ToStart(u)')
             <= used'[u] + (IF otpassword'[u] = NoPass THEN 0 ELSE 1)
    BY <1>0, <2>1, <2>3 DEF OtpTimers
  <2> QED
    BY <2>4, <2>5 DEF OtpTimers
<1>4. ASSUME NEW a \in Admins, StartClear(a) PROVE OtpTimers'
  <2>0. PICK u \in Users : u = admin[a]
    BY <1>4 DEF StartClear
  <2>1. /\ clears' = [clears EXCEPT ![u] = @ + 1]
        /\ UNCHANGED <<otpassword, used>>
    BY <1>4, <2>0 DEF StartClear
  <2>2. /\ a \in ToStart(u) /\ ToStart(u)' = ToStart(u) \ {a}
        /\ \A v \in Users : v # u => ToStart(v)' = ToStart(v)
    BY <1>4, <2>0 DEF StartClear, ToStart
  <2>3. Cardinality(ToStart(u)') = Cardinality(ToStart(u)) - 1
    BY <1>0, <2>2, AdminSets
  <2>4. ASSUME NEW v \in Users, v # u
        PROVE  /\ ToStart(v)' = ToStart(v) /\ clears'[v] = clears[v]
               /\ otpassword'[v] = otpassword[v] /\ used'[v] = used[v]
    BY <2>1, <2>2, <2>4
  <2>5. /\ otpassword'[u] # NoPass => clears'[u] + Cardinality(ToStart(u)') > 0
        /\ clears'[u] + Cardinality(ToStart(u)')
             <= used'[u] + (IF otpassword'[u] = NoPass THEN 0 ELSE 1)
    BY <1>0, <2>1, <2>3 DEF OtpTimers
  <2> QED
    BY <2>4, <2>5 DEF OtpTimers
<1>5. CASE UNCHANGED <<otpassword, clears, admin, used>>
  BY <1>5, OtpFrame
<1> QED
  BY <1>1, <1>2, <1>3, <1>4, <1>5 DEF Next, Proceed, Authenticate, UserUnusable,
     CheckSecret, ReadOTP, AdmitOrRefuse, LimitTryLogin, StartReset, ResetFires, vars

(* A stored one-time password always has a clearOTPassword on its way, and *)
(* timers left over come only from passwords that were used.               *)
THEOREM OtpTimersCorrect == Spec => []OtpTimers
<1>1. Init => OtpTimers
  <2> SUFFICES ASSUME Init, NEW u \in Users
               PROVE  /\ otpassword[u] = NoPass /\ clears[u] = 0 /\ used[u] = 0
                      /\ Cardinality(ToStart(u)) = 0
    BY DEF OtpTimers
  <2>1. ToStart(u) = {}
    BY ConstAssumption DEF Init, ToStart
  <2> QED
    BY <2>1, FS_EmptySet DEF Init
<1> QED
  BY <1>1, TypeCorrect, OtpTimersNext, PTL DEF Spec

-----------------------------------------------------------------------------
(* A password belongs to the one user it was drawn for: nobody else has it *)
(* in the table, and a connection that matched it matched it for that user.*)
OwnerInv ==
  /\ \A u \in Users : otpassword[u] # NoPass => otpassword[u] \in issued
  /\ \A u, v \in Users : otpassword[u] = otpassword[v] /\ u # v => otpassword[u] = NoPass
  /\ \A c \in Conns : conn[c].pc = "clear" =>
       /\ conn[c].pass \in issued
       /\ \A v \in Users : otpassword[v] = conn[c].pass => v = conn[c].user
  /\ \A p \in Passwords : accepted[p] # 0 => p \in issued

LEMMA OwnerNext == TypeInv /\ OwnerInv /\ [Next]_vars => OwnerInv'
<1> SUFFICES ASSUME TypeInv, OwnerInv, [Next]_vars PROVE OwnerInv'
  OBVIOUS
<1> USE ConstAssumption DEF TypeInv, TypeOK, ConnOK, OwnerInv
<1>1. ASSUME NEW c \in Conns, NEW u \in Users, NEW p \in Inputs(u),
             Authenticate(c, u, p)
      PROVE  OwnerInv'
  BY <1>1 DEF Authenticate
<1>2. ASSUME NEW c \in Conns, UserUnusable(c) PROVE OwnerInv'
  BY <1>2 DEF UserUnusable
<1>3. ASSUME NEW c \in Conns, CheckSecret(c) PROVE OwnerInv'
  BY <1>3 DEF CheckSecret
<1>4. ASSUME NEW c \in Conns, ReadOTP(c) PROVE OwnerInv'
  <2>0. PICK u \in Users : u = conn[c].user
    BY <1>4 DEF ReadOTP
  <2>1. /\ UNCHANGED <<otpassword, issued, accepted>>
        /\ \A d \in Conns : d # c => conn'[d] = conn[d]
        /\ conn'[c].pass = conn[c].pass /\ conn'[c].user = u
        /\ conn'[c].pc = "clear" => conn[c].pass # NoPass /\ otpassword[u] = conn[c].pass
    BY <1>4, <2>0 DEF ReadOTP
  <2> QED
    BY <2>1
<1>5. ASSUME NEW c \in Conns, ClearMatchedOTP(c) PROVE OwnerInv'
  <2>0. PICK u \in Users : u = conn[c].user
    BY <1>5 DEF ClearMatchedOTP
  <2>1. /\ otpassword' = [otpassword EXCEPT ![u] = NoPass] /\ issued' = issued
        /\ accepted' = [accepted EXCEPT ![conn[c].pass] = @ + 1]
        /\ conn[c].pass \in issued
        /\ \A d \in Conns : d # c => conn'[d] = conn[d]
        /\ conn'[c].pc = "checked"
    BY <1>5, <2>0 DEF ClearMatchedOTP
  <2> QED
    BY <2>1
<1>6. ASSUME NEW c \in Conns, AdmitOrRefuse(c) PROVE OwnerInv'
  <2>1. /\ UNCHANGED <<otpassword, issued, accepted>>
        /\ \A d \in Conns : d # c => conn'[d] = conn[d]
        /\ conn'[c].pc # "clear"
    BY <1>6 DEF AdmitOrRefuse
  <2> QED
    BY <2>1
<1>7. ASSUME NEW c \in Conns, LimitTryLogin(c) PROVE OwnerInv'
  BY <1>7 DEF LimitTryLogin
<1>8. ASSUME NEW c \in Conns, StartReset(c) PROVE OwnerInv'
  BY <1>8 DEF StartReset
<1>9. ASSUME NEW u \in Users, ResetFires(u) PROVE OwnerInv'
  BY <1>9 DEF ResetFires
<1>10. ASSUME NEW u \in Users, ClearFires(u) PROVE OwnerInv'
  BY <1>10 DEF ClearFires
<1>11. ASSUME NEW a \in Admins, NEW u \in OtpUsers, NEW p \in Passwords,
              GenOTPassword(a, u, p)
       PROVE  OwnerInv'
  BY <1>11 DEF GenOTPassword
<1>12. ASSUME NEW a \in Admins, StartClear(a) PROVE OwnerInv'
  BY <1>12 DEF StartClear
<1>13. CASE UNCHANGED vars
  BY <1>13 DEF vars
<1> QED
  BY <1>1, <1>2, <1>3, <1>4, <1>5, <1>6, <1>7, <1>8, <1>9, <1>10, <1>11,
     <1>12, <1>13 DEF Next, Proceed

LEMMA MatchedSets ==
  \A p : /\ Matched(p) \in SUBSET Conns /\ Matched(p)' \in SUBSET Conns
         /\ Cardinality(Matched(p)) \in Nat /\ Cardinality(Matched(p)') \in Nat
         /\ Cardinality(Matched(p)') <= Cardinality(Conns)
         /\ Matched(p)' \subseteq Matched(p) =>
              Cardinality(Matched(p)') <= Cardinality(Matched(p))
<1>1. \A p : Matched(p) \in SUBSET Conns /\ Matched(p)' \in SUBSET Conns
  BY DEF Matched
<1> QED
  BY <1>1, ConnSets

LEMMA EarlyFrame ==
  ASSUME TypeInv, AcceptedOnlyByEarlyReaders, UNCHANGED accepted,
         \A p \in Passwords : Matched(p)' \subseteq Matched(p),
         \A u \in Users : otpassword'[u] \in {otpassword[u], NoPass}
  PROVE  AcceptedOnlyByEarlyReaders'
<1>1. \A p \in Passwords : accepted[p] \in Nat
  BY DEF TypeInv, TypeOK
<1>2. \A p \in Passwords :
        accepted'[p] + Cardinality(Matched(p)') <= Cardinality(Conns)
  BY <1>1, MatchedSets, ConnSets DEF AcceptedOnlyByEarlyReaders
<1> QED
  BY <1>2, ConstAssumption DEF AcceptedOnlyByEarlyReaders

LEMMA EarlyNext ==
  TypeInv /\ OwnerInv /\ AcceptedOnlyByEarlyReaders /\ [Next]_vars
    => AcceptedOnlyByEarlyReaders'
<1> SUFFICES ASSUME TypeInv, OwnerInv, AcceptedOnlyByEarlyReaders, [Next]_vars
             PROVE  AcceptedOnlyByEarlyReaders'
  OBVIOUS
<1> USE ConstAssumption DEF TypeInv, TypeOK, ConnOK
<1>1. ASSUME NEW c \in Conns, NEW u \in Users, NEW p \in Inputs(u),
             Authenticate(c, u, p)
      PROVE  AcceptedOnlyByEarlyReaders'
  BY <1>1, EarlyFrame DEF Authenticate, Matched
<1>2. ASSUME NEW c \in Conns, UserUnusable(c) PROVE AcceptedOnlyByEarlyReaders'
  BY <1>2, EarlyFrame DEF UserUnusable, Matched
<1>3. ASSUME NEW c \in Conns, CheckSecret(c) PROVE AcceptedOnlyByEarlyReaders'
  BY <1>3, EarlyFrame DEF CheckSecret, Matched
<1>4. ASSUME NEW c \in Conns, ReadOTP(c) PROVE AcceptedOnlyByEarlyReaders'
  <2>0. PICK u \in Users : u = conn[c].user
    BY <1>4 DEF ReadOTP
  <2>1. CASE conn[c].pass # NoPass /\ otpassword[u] = conn[c].pass
    <3>0. PICK p \in Passwords : p = conn[c].pass
      BY <2>1
    <3>1. accepted[p] = 0 /\ UNCHANGED <<accepted, otpassword>>
      BY <1>4, <2>1, <3>0 DEF ReadOTP, AcceptedOnlyByEarlyReaders
    <3>2. \A q \in Passwords : q # p => Matched(q)' \subseteq Matched(q)
      BY <1>4, <3>0 DEF ReadOTP, Matched
    <3>3. \A q \in Passwords :
            accepted'[q] + Cardinality(Matched(q)') <= Cardinality(Conns)
      BY <3>1, <3>2, MatchedSets, ConnSets DEF AcceptedOnlyByEarlyReaders
    <3> QED
      BY <3>1, <3>3 DEF AcceptedOnlyByEarlyReaders
  <2>2. CASE ~(conn[c].pass # NoPass /\ otpassword[u] = conn[c].pass)
    <3>1. \A q \in Passwords : Matched(q)' \subseteq Matched(q)
      BY <1>4, <2>0, <2>2 DEF ReadOTP, Matched
    <3> QED
      BY <1>4, <3>1, EarlyFrame DEF ReadOTP
  <2> QED
    BY <2>1, <2>2
<1>5. ASSUME NEW c \in Conns, ClearMatchedOTP(c) PROVE AcceptedOnlyByEarlyReaders'
  <2>0. PICK u \in Users, p \in Passwords : u = conn[c].user /\ p = conn[c].pass
    BY <1>5 DEF ClearMatchedOTP
  <2>1. /\ otpassword' = [otpassword EXCEPT ![u] = NoPass]
        /\ accepted' = [accepted EXCEPT ![p] = @ + 1]
    BY <1>5, <2>0 DEF ClearMatchedOTP
  <2>2. \A v \in Users : otpassword[v] = p => v = u
    BY <1>5, <2>0 DEF ClearMatchedOTP, OwnerInv
  <2>3. \A v \in Users : \A q \in Passwords : otpassword'[v] = q => accepted'[q] = 0
    BY <2>1, <2>2 DEF AcceptedOnlyByEarlyReaders
  <2>4. c \in Matched(p) /\ Matched(p)' = Matched(p) \ {c}
    BY <1>5, <2>0 DEF ClearMatchedOTP, Matched
  <2>5. \A q \in Passwords : q # p => Matched(q)' \subseteq Matched(q)
    BY <1>5, <2>0 DEF ClearMatchedOTP, Matched
  <2>6. Cardinality(Matched(p)') = Cardinality(Matched(p)) - 1
    BY <2>4, MatchedSets, ConnSets
  <2>7. accepted'[p] + Cardinality(Matched(p)') <= Cardinality(Conns)
    BY <2>1, <2>6, MatchedSets, ConnSets DEF AcceptedOnlyByEarlyReaders
  <2>8. ASSUME NEW q \in Passwords, q # p
        PROVE  accepted'[q] + Cardinality(Matched(q)') <= Cardinality(Conns)
    BY <2>1, <2>5, <2>8, MatchedSets, ConnSets DEF AcceptedOnlyByEarlyReaders
  <2> QED
    BY <2>3, <2>7, <2>8 DEF AcceptedOnlyByEarlyReaders
<1>6. ASSUME NEW c \in Conns, AdmitOrRefuse(c) PROVE AcceptedOnlyByEarlyReaders'
  <2>1. conn'[c].pc # "clear" /\ \A d \in Conns : d # c => conn'[d] = conn[d]
    BY <1>6 DEF AdmitOrRefuse
  <2>2. \A p \in Passwords : Matched(p)' \subseteq Matched(p)
    BY <2>1 DEF Matched
  <2> QED
    BY <1>6, <2>2, EarlyFrame DEF AdmitOrRefuse
<1>7. ASSUME NEW c \in Conns, LimitTryLogin(c) PROVE AcceptedOnlyByEarlyReaders'
  <2>1. conn'[c].pc # "clear" /\ \A d \in Conns : d # c => conn'[d] = conn[d]
    BY <1>7 DEF LimitTryLogin
  <2>2. \A p \in Passwords : Matched(p)' \subseteq Matched(p)
    BY <2>1 DEF Matched
  <2> QED
    BY <1>7, <2>2, EarlyFrame DEF LimitTryLogin
<1>8. ASSUME NEW c \in Conns, StartReset(c) PROVE AcceptedOnlyByEarlyReaders'
  BY <1>8, EarlyFrame DEF StartReset, Matched
<1>9. ASSUME NEW u \in Users, ResetFires(u) PROVE AcceptedOnlyByEarlyReaders'
  BY <1>9, EarlyFrame DEF ResetFires, Matched
<1>10. ASSUME NEW u \in Users, ClearFires(u) PROVE AcceptedOnlyByEarlyReaders'
  BY <1>10, EarlyFrame DEF ClearFires, Matched
<1>11. ASSUME NEW a \in Admins, NEW u \in OtpUsers, NEW p \in Passwords,
              GenOTPassword(a, u, p)
       PROVE  AcceptedOnlyByEarlyReaders'
  <2>1. /\ otpassword' = [otpassword EXCEPT ![u] = p] /\ accepted' = accepted
        /\ accepted[p] = 0 /\ u \in Users
    BY <1>11 DEF GenOTPassword, OwnerInv
  <2>2. \A q \in Passwords : Matched(q)' = Matched(q)
    BY <1>11 DEF GenOTPassword, Matched
  <2> QED
    BY <2>1, <2>2 DEF AcceptedOnlyByEarlyReaders
<1>12. ASSUME NEW a \in Admins, StartClear(a) PROVE AcceptedOnlyByEarlyReaders'
  BY <1>12, EarlyFrame DEF StartClear, Matched
<1>13. CASE UNCHANGED vars
  BY <1>13, EarlyFrame DEF vars, Matched
<1> QED
  BY <1>1, <1>2, <1>3, <1>4, <1>5, <1>6, <1>7, <1>8, <1>9, <1>10, <1>11,
     <1>12, <1>13 DEF Next, Proceed

(* Only a connection that read a one-time password while it was in the     *)
(* table can pass with it, so it passes at most once per connection.       *)
THEOREM EarlyReadersCorrect == Spec => []AcceptedOnlyByEarlyReaders
<1>1. Init => OwnerInv
  BY DEF Init, OwnerInv
<1>2. Init => AcceptedOnlyByEarlyReaders
  <2> SUFFICES ASSUME Init, NEW p \in Passwords
               PROVE  accepted[p] = 0 /\ Cardinality(Matched(p)) <= Cardinality(Conns)
    BY MatchedSets, ConnSets DEF AcceptedOnlyByEarlyReaders
  <2>1. Matched(p) \in SUBSET Conns
    BY DEF Matched
  <2> QED
    BY <2>1, ConnSets DEF Init
<1> QED
  BY <1>1, <1>2, TypeCorrect, OwnerNext, EarlyNext, PTL DEF Spec
=============================================================================
