----------------------------- MODULE SignInProofs -----------------------------
(***************************************************************************)
(* Proofs about what stands behind a sign-in, side by side as the model    *)
(* checker runs it, for every value of the constants.  The ladder and the  *)
(* second factor (its strengthening is in SecondFactorInvariant) are       *)
(* proved about here; the administrators and the sessions each in a module *)
(* of their own, whose invariants are carried over: a step of one part is  *)
(* a step of its component, and leaves the invariant of every other part   *)
(* as it is.                                                               *)
(*                                                                         *)
(* The ladder, for every number of attempts in flight, every threshold,    *)
(* limit and ladder of durations: FailureLedger needs the count to stay    *)
(* under the threshold (TypeOK): only then is every lockout worth exactly  *)
(* MaxAttempts failures.  The locked-until column keeps its type because   *)
(* the ladder is read inside its bounds.                                   *)
(***************************************************************************)
EXTENDS MCSignIn, FiniteSetTheorems, TLAPS

AP == INSTANCE AdministratorsProofs WITH
    role <- s1, active <- s2, pc <- s3, actor <- s4, target <- s5, seenRole <- s6,
    want <- s7, setup <- s8, founders <- s9, overlapped <- s10, together <- s11

FP == INSTANCE SecondFactorInvariant WITH
    secret <- s1, confirmed <- s2, codes <- s3, enrolments <- s4, sets <- s5, pc <- s6,
    seen <- s7, old <- s8, own <- s9, code <- s10, proven <- s11, shown <- s12,
    spent <- s13, together <- s14, crossed <- s15, lost <- s16

SP == INSTANCE SessionsProofs WITH
    Requests <- Updates,
    secondFactor <- s1, active <- s2, era <- s3, created <- s4, rows <- s5, lock <- s6,
    pc <- s7, sid <- s8, eraSeen <- s9, todo <- s10, late <- s11, factored <- s12,
    loggedOut <- s13, settled <- s14

-----------------------------------------------------------------------------
(* The ladder. *)

IInv == TypeOK /\ FailureLedger /\ BlockedAtLimit

\* Settings.lockoutDuration answers a duration whatever count it is given:
\* past the end of the ladder the last rung repeats.
LEMMA DurationFacts ==
    ASSUME NEW previous \in Nat
    PROVE  LockoutDuration(previous) \in Nat \ {0}
<1>1. Ladder \in Seq(Nat \ {0}) /\ DefaultLock \in Nat \ {0}
    BY LockoutAssumption
<1>2. CASE Ladder = <<>>
    BY <1>1, <1>2 DEF LockoutDuration
<1>3. CASE Ladder # <<>>
    <2>1. Len(Ladder) \in Nat \ {0}
        BY <1>1, <1>3
    <2> DEFINE rung == IF previous >= Len(Ladder) THEN Len(Ladder) ELSE previous + 1
    <2>2. rung \in 1 .. Len(Ladder)
        BY <2>1
    <2>3. Ladder[rung] \in Nat \ {0}
        BY <1>1, <2>2
    <2> QED BY <1>3, <2>3 DEF LockoutDuration
<1> QED BY <1>2, <1>3

\* A lockout is worth the failures of one threshold.
LEMMA OneMoreLockout ==
    ASSUME NEW n \in Nat, NEW k \in Nat
    PROVE  (n + 1) * k = n * k + k
OBVIOUS

\* A cleared counter is under every threshold.
LEMMA ZeroFacts == 0 \in 0 .. MaxAttempts - 1 /\ 0 \in Nat /\ 1 \in Nat
<1>1. MaxAttempts \in Nat /\ MaxAttempts # 0
    BY LockoutAssumption
<1> QED BY <1>1

\* The ladder begins empty.
LEMMA InitIInv == Init => IInv
<1> SUFFICES ASSUME Init PROVE IInv
    OBVIOUS
<1>1. MaxAttempts \in Nat \ {0} /\ MaxLockouts \in Nat \ {0}
    BY LockoutAssumption
<1>2. TypeOK
    BY ZeroFacts DEF Init, TypeOK
<1>3. FailureLedger
    BY <1>1 DEF Init, FailureLedger
<1>4. BlockedAtLimit
    BY <1>1 DEF Init, BlockedAtLimit
<1> QED BY <1>2, <1>3, <1>4 DEF IInv

\* A failure is recorded by one statement over the row as it is, so it does
\* not matter how old the count is that the attempt read.
LEMMA WrongPasswordIInv ==
    ASSUME IInv, NEW a \in Attempts, WrongPassword(a)
    PROVE  IInv'
<1>1. MaxAttempts \in Nat \ {0} /\ MaxLockouts \in Nat \ {0}
    BY LockoutAssumption
<1>2. TypeOK /\ FailureLedger /\ BlockedAtLimit
    BY DEF IInv
<1>3. seen[a] \in Nat
    BY <1>2 DEF TypeOK
<1> DEFINE lockFor == LockoutDuration(seen[a])
<1>4. lockFor \in Nat
    BY <1>3, DurationFacts
<1> HIDE DEF lockFor
<1>5. RecordFailedLogin(lockFor) /\ UNCHANGED <<admin, now>>
      /\ pc' = [pc EXCEPT ![a] = "idle"] /\ seen' = [seen EXCEPT ![a] = 0]
    BY DEF WrongPassword, lockFor
<1>6. CASE failed + 1 >= MaxAttempts
    <2>1. /\ failed' = 0 /\ lockouts' = lockouts + 1 /\ lockedUntil' = now + lockFor
          /\ failures' = failures + 1
          /\ blocked' = (blocked \/ (lockouts + 1 >= MaxLockouts /\ ~admin))
          /\ spared' = (spared \/ (lockouts + 1 >= MaxLockouts /\ admin))
        BY <1>5, <1>6 DEF RecordFailedLogin
    <2>2. TypeOK'
        BY <1>1, <1>2, <1>4, <1>5, <2>1 DEF TypeOK
    <2>3. failed = MaxAttempts - 1
        BY <1>1, <1>2, <1>6 DEF TypeOK
    <2>4. (lockouts + 1) * MaxAttempts = lockouts * MaxAttempts + MaxAttempts
        BY <1>1, <1>2, OneMoreLockout DEF TypeOK
    <2>5. lockouts * MaxAttempts \in Nat
        BY <1>1, <1>2 DEF TypeOK
    <2>6. FailureLedger'
        BY <1>1, <1>2, <2>1, <2>3, <2>4, <2>5 DEF FailureLedger
    <2>7. BlockedAtLimit'
        BY <2>1, <1>2 DEF BlockedAtLimit, TypeOK
    <2> QED BY <2>2, <2>6, <2>7 DEF IInv
<1>7. CASE ~(failed + 1 >= MaxAttempts)
    <2>1. /\ failed' = failed + 1 /\ lockouts' = lockouts /\ lockedUntil' = lockedUntil
          /\ failures' = failures + 1 /\ blocked' = blocked /\ spared' = spared
        BY <1>2, <1>5, <1>7 DEF RecordFailedLogin, TypeOK
    <2>2. TypeOK'
        BY <1>1, <1>2, <1>5, <1>7, <2>1 DEF TypeOK
    <2>3. lockouts * MaxAttempts \in Nat
        BY <1>1, <1>2 DEF TypeOK
    <2>4. FailureLedger'
        BY <1>1, <1>2, <2>1, <2>3 DEF FailureLedger, TypeOK
    <2>5. BlockedAtLimit'
        BY <1>2, <2>1 DEF BlockedAtLimit
    <2> QED BY <2>2, <2>4, <2>5 DEF IInv
<1> QED BY <1>6, <1>7

\* What starts the ladder afresh: a complete sign-in, or the administrator.
LEMMA ClearingIInv ==
    ASSUME IInv, failed' = 0, lockouts' = 0, lockedUntil' = 0, ClearHistory,
           TypeOK'
    PROVE  IInv'
<1>1. MaxAttempts \in Nat \ {0} /\ MaxLockouts \in Nat \ {0}
    BY LockoutAssumption
<1>2. FailureLedger'
    BY <1>1 DEF FailureLedger, ClearHistory
<1>3. BlockedAtLimit'
    BY <1>1 DEF BlockedAtLimit
<1> QED BY <1>2, <1>3 DEF IInv

\* Every step keeps the invariant.
LEMMA NextIInv == IInv /\ [Next]_vars => IInv'
<1> SUFFICES ASSUME IInv, [Next]_vars PROVE IInv'
    OBVIOUS
<1>1. TypeOK /\ FailureLedger /\ BlockedAtLimit
    BY DEF IInv
<1>2. ASSUME UNCHANGED <<row, history>>, TypeOK' PROVE IInv'
    BY <1>1, <1>2 DEF IInv, FailureLedger, BlockedAtLimit, row, history
<1>3. ASSUME NEW a \in Attempts, Begin(a) PROVE IInv'
    <2>1. TypeOK'
        BY <1>1, <1>3 DEF Begin, TypeOK, row, history
    <2> QED BY <2>1, <1>2, <1>3 DEF Begin
<1>4. ASSUME NEW a \in Attempts, WrongPassword(a) PROVE IInv'
    BY <1>4, WrongPasswordIInv
<1>5. ASSUME NEW a \in Attempts, RightPassword(a) PROVE IInv'
    <2>1. TypeOK'
        BY <1>1, <1>5 DEF RightPassword, TypeOK, row, history
    <2> QED BY <2>1, <1>2, <1>5 DEF RightPassword
<1>6. ASSUME NEW a \in Attempts, RecordSuccessfulLogin(a) PROVE IInv'
    <2>1. TypeOK'
        BY <1>1, <1>6, ZeroFacts DEF RecordSuccessfulLogin, TypeOK, ClearHistory
    <2> QED BY <2>1, <1>6, ClearingIInv DEF RecordSuccessfulLogin
<1>7. ASSUME NEW a \in Attempts, Abandon(a) PROVE IInv'
    <2>1. TypeOK'
        BY <1>1, <1>7 DEF Abandon, TypeOK, row, history
    <2> QED BY <2>1, <1>2, <1>7 DEF Abandon
<1>8. ASSUME Unblock PROVE IInv'
    <2>1. TypeOK'
        BY <1>1, <1>8, ZeroFacts DEF Unblock, TypeOK, ClearHistory
    <2> QED BY <2>1, <1>8, ClearingIInv DEF Unblock
<1>9. ASSUME UpdateRole PROVE IInv'
    <2>1. TypeOK'
        BY <1>1, <1>9 DEF UpdateRole, TypeOK, row, history
    <2> QED BY <2>1, <1>2, <1>9 DEF UpdateRole
<1>10. ASSUME Tick PROVE IInv'
    <2>1. TypeOK'
        BY <1>1, <1>10 DEF Tick, TypeOK, row, history
    <2> QED BY <2>1, <1>2, <1>10 DEF Tick
<1>11. ASSUME UNCHANGED vars PROVE IInv'
    <2>1. TypeOK'
        BY <1>1, <1>11 DEF TypeOK, vars, row, history
    <2> QED BY <2>1, <1>2, <1>11 DEF vars
<1> QED
    BY <1>3, <1>4, <1>5, <1>6, <1>7, <1>8, <1>9, <1>10, <1>11 DEF Next, Attempt

-----------------------------------------------------------------------------
\* The invariant of the ladder, for all values of the settings.
THEOREM LockoutInvariant == Spec => []IInv
<1> QED BY InitIInv, NextIInv, PTL DEF Spec

\* Every column keeps its type; in particular the failure count stays under
\* the threshold (UserRepo.RecordFailedLogin).
THEOREM LockoutTypeOK == Spec => []TypeOK
<1>1. IInv => TypeOK
    BY DEF IInv
<1> QED BY <1>1, LockoutInvariant, PTL

\* However many attempts overlap, each failure is on the counter or part of
\* a lockout (UserRepo.RecordFailedLogin is one statement).
THEOREM LockoutFailureLedger == Spec => []FailureLedger
<1>1. IInv => FailureLedger
    BY DEF IInv
<1> QED BY <1>1, LockoutInvariant, PTL

\* An account whose ladder is used up is blocked, unless it was that of an
\* administrator at that moment.
THEOREM LockoutBlockedAtLimit == Spec => []BlockedAtLimit
<1>1. IInv => BlockedAtLimit
    BY DEF IInv
<1> QED BY <1>1, LockoutInvariant, PTL

\* Only the administrator lifts a block, and with it the whole ladder: no
\* sign-in that was under way does (UserRepo.RecordSuccessfulLogin, Unblock).
THEOREM LockoutBlockOutlivesSignIn == Spec => BlockOutlivesSignIn
<1> DEFINE Lifted == blocked /\ ~blocked' => lockouts' = 0 /\ failures' = 0 /\ pc' = pc
<1>1. TypeOK /\ [Next]_vars => [Lifted]_vars
    <2> SUFFICES ASSUME TypeOK, Next, blocked, ~blocked'
                 PROVE  lockouts' = 0 /\ failures' = 0 /\ pc' = pc
        OBVIOUS
    <2>1. ASSUME UNCHANGED row PROVE FALSE
        BY <2>1 DEF row
    <2>2. ASSUME NEW a \in Attempts, Attempt(a) PROVE FALSE
        <3>1. ~Begin(a) /\ ~RightPassword(a) /\ ~Abandon(a)
            BY <2>1 DEF Begin, RightPassword, Abandon
        <3>2. ~RecordSuccessfulLogin(a)
            BY DEF RecordSuccessfulLogin
        <3>3. ~WrongPassword(a)
            BY DEF WrongPassword, RecordFailedLogin
        <3> QED BY <2>2, <3>1, <3>2, <3>3 DEF Attempt
    <2>3. ~UpdateRole /\ ~Tick
        BY <2>1 DEF UpdateRole, Tick
    <2>4. Unblock
        BY <2>2, <2>3 DEF Next
    <2> QED BY <2>4 DEF Unblock, ClearHistory
<1> QED BY <1>1, LockoutTypeOK, PTL DEF Spec, BlockOutlivesSignIn

-----------------------------------------------------------------------------
(* The parts side by side. *)

SignInNext == LockoutNext \/ AdministratorsNext \/ FactorNext \/ SessionsNext
signInVars == <<part, vars, Slots>>

\* Each part is in a state its component can be in.
SignInInv ==
    /\ IInv
    /\ part = "administrators" => AP!IInv /\ AP!Founding
    /\ part = "factor" => FP!IInv
    /\ part = "sessions" => SP!IInv

-----------------------------------------------------------------------------
(* The administrators. *)

\* The list of users begins in a state of its component.
LEMMA AdministratorsInit ==
    ASSUME MCInit, part = "administrators"
    PROVE  AP!IInv /\ AP!Founding
<1>1. AP!NobodyAssumption
    BY MCNobody DEF Administrator!NobodyAssumption, AP!NobodyAssumption
<1>2. Administrator!Init
    BY DEF MCInit
<1>3. AP!Init
    BY <1>2 DEF Administrator!Init, AP!Init, Administrator!NoChange, AP!NoChange
<1> QED BY <1>1, <1>3, AP!InitIInv, AP!InitFounding

\* A step of the list of users is one of its component.
LEMMA AdministratorsStep ==
    ASSUME AP!IInv /\ AP!Founding, SignInNext, part' = "administrators"
    PROVE  (AP!IInv /\ AP!Founding)'
<1>1. AP!NobodyAssumption
    BY MCNobody DEF Administrator!NobodyAssumption, AP!NobodyAssumption
<1>2. AdministratorsNext
    BY DEF SignInNext, LockoutNext, AdministratorsNext, FactorNext, SessionsNext,
           OfLockout, OfAdministrators, OfFactor, OfSessions
<1>3. ASSUME NEW s \in Setups, Administrator!SetupStart(s) PROVE AP!SetupStart(s)
    BY <1>3 DEF Administrator!SetupStart, AP!SetupStart, Administrator!Exists, AP!Exists,
        Administrator!users, AP!users, Administrator!locals, AP!locals,
        Administrator!CountTogether, AP!CountTogether, Administrator!Running,
        AP!Running, Administrator!Cardinality, AP!Cardinality
<1>4. ASSUME NEW s \in Setups, Administrator!SetupInsert(s) PROVE AP!SetupInsert(s)
    BY <1>4 DEF Administrator!SetupInsert, AP!SetupInsert, Administrator!Insert,
        AP!Insert,
        Administrator!Exists, AP!Exists, Administrator!locals, AP!locals
<1>5. ASSUME NEW s \in Setups, Administrator!SetupRefuse(s) PROVE AP!SetupRefuse(s)
    BY <1>5 DEF Administrator!SetupRefuse, AP!SetupRefuse, Administrator!users, AP!users,
        Administrator!locals, AP!locals
<1>6. ASSUME NEW u \in Users, NEW r \in Administrator!Roles, Administrator!Create(u, r)
      PROVE  AP!Create(u, r)
    BY <1>6 DEF Administrator!Create, AP!Create, Administrator!Insert, AP!Insert,
        Administrator!Exists, AP!Exists, Administrator!ActiveAdmins,
        AP!ActiveAdmins, Administrator!locals, AP!locals, Administrator!wizard,
        AP!wizard
<1>7. ASSUME NEW q \in Updates, Administrator!Admit(q) PROVE AP!Admit(q)
    BY <1>7 DEF Administrator!Admit, AP!Admit, Administrator!ActiveAdmins,
        AP!ActiveAdmins,
        Administrator!Changes, AP!Changes, Administrator!Roles, AP!Roles,
        Administrator!Goto, AP!Goto, Administrator!users, AP!users,
        Administrator!wizard, AP!wizard
<1>8. ASSUME NEW q \in Updates, Administrator!Load(q) PROVE AP!Load(q)
    BY <1>8 DEF Administrator!Load, AP!Load, Administrator!Exists, AP!Exists,
        Administrator!Goto, AP!Goto, Administrator!InWindow, AP!InWindow,
        Administrator!users, AP!users, Administrator!wizard, AP!wizard
<1>9. ASSUME NEW q \in Updates, Administrator!CheckRole(q) PROVE AP!CheckRole(q)
    BY <1>9 DEF Administrator!CheckRole, AP!CheckRole, Administrator!LastAdmin,
        AP!LastAdmin, Administrator!ActiveAdmins, AP!ActiveAdmins,
        Administrator!Goto, AP!Goto, Administrator!users, AP!users,
        Administrator!wizard, AP!wizard
<1>10. ASSUME NEW q \in Updates, Administrator!WriteRole(q) PROVE AP!WriteRole(q)
    BY <1>10 DEF Administrator!WriteRole, AP!WriteRole, Administrator!Return, AP!Return,
        Administrator!Goto, AP!Goto, Administrator!NoChange, AP!NoChange,
        Administrator!wizard, AP!wizard
<1>11. ASSUME NEW q \in Updates, Administrator!CheckActive(q) PROVE AP!CheckActive(q)
    BY <1>11 DEF Administrator!CheckActive, AP!CheckActive, Administrator!LastAdmin,
        AP!LastAdmin, Administrator!ActiveAdmins, AP!ActiveAdmins,
        Administrator!Goto, AP!Goto, Administrator!users, AP!users,
        Administrator!wizard, AP!wizard
<1>12. ASSUME NEW q \in Updates, Administrator!WriteActive(q) PROVE AP!WriteActive(q)
    BY <1>12 DEF Administrator!WriteActive, AP!WriteActive, Administrator!Return,
        AP!Return,
        Administrator!Goto, AP!Goto, Administrator!NoChange, AP!NoChange,
        Administrator!wizard, AP!wizard
<1>13. ASSUME NEW q \in Updates, Administrator!Refuse(q) PROVE AP!Refuse(q)
    BY <1>13 DEF Administrator!Refuse, AP!Refuse, Administrator!Return, AP!Return,
        Administrator!Goto, AP!Goto, Administrator!NoChange, AP!NoChange,
        Administrator!users, AP!users, Administrator!wizard, AP!wizard
<1>14. AP!Next
    BY <1>2, <1>3, <1>4, <1>5, <1>6, <1>7, <1>8, <1>9, <1>10, <1>11, <1>12, <1>13
    DEF AdministratorsNext, AP!Next, AP!Update, Administrator!Roles, AP!Roles
<1> QED BY <1>1, <1>14, AP!AllStep

-----------------------------------------------------------------------------
(* The second factor. *)

\* FP's finite sets are those of the library.
LEMMA FactorFinite ==
    /\ \A S : FP!IsFiniteSet(S) <=> IsFiniteSet(S)
    /\ \A S : FP!Cardinality(S) = Cardinality(S)
BY DEF FP!IsFiniteSet, IsFiniteSet, FP!Cardinality, Cardinality

\* Nothing is counted as nothing.
LEMMA NoneAtAll == FP!IsFiniteSet({}) /\ FP!Cardinality({}) + FP!Cardinality({}) <= 0
BY FactorFinite, FS_EmptySet

\* The sets that some transactions miss are among those that can be generated,
\* and so finitely many.
LEMMA KeptFinite ==
    ASSUME FP!SecondFactorAssumption, s3 \subseteq FP!Code, NEW X
    PROVE  IsFiniteSet(FP!Kept(X)) /\ Cardinality(FP!Kept(X)) \in Nat
<1>1. FP!Kept(X) \subseteq 1 .. MaxSets
    BY DEF FP!Kept, FP!Code
<1>2. IsFiniteSet(1 .. MaxSets)
    BY FS_Interval DEF FP!SecondFactorAssumption
<1> QED BY <1>1, <1>2, FS_Subset, FS_CardinalityType

\* A smaller set is counted as no more.
LEMMA Fewer ==
    ASSUME NEW S, NEW T, IsFiniteSet(S), T \subseteq S
    PROVE  /\ IsFiniteSet(T) /\ Cardinality(T) \in Nat /\ Cardinality(S) \in Nat
           /\ Cardinality(T) <= Cardinality(S)
BY FS_Subset, FS_CardinalityType

\* A step that opens no transaction and adds no code.
LEMMA FactorCrowdNarrower ==
    ASSUME FP!SecondFactorAssumption, FP!TypeOK, FP!Crowd,
           FP!Replacing' \subseteq FP!Replacing, s3' \subseteq s3, s14' = s14,
           \A r \in FP!Replacing' : s8'[r] = s8[r]
    PROVE  FP!Crowd'
<1>1. IsFiniteSet(FP!Replacing) /\ IsFiniteSet(FP!Replacing')
    BY FactorFinite, Fewer DEF FP!Crowd
<1>2. ASSUME NEW X \in SUBSET FP!Replacing'
      PROVE  Cardinality(FP!Kept(X)') + Cardinality(X) <= s14'
    <2>1. FP!Kept(X)' \subseteq FP!Kept(X)
        BY DEF FP!Kept
    <2>2. IsFiniteSet(FP!Kept(X)) /\ Cardinality(FP!Kept(X)) \in Nat
        BY KeptFinite DEF FP!TypeOK
    <2>3. Cardinality(FP!Kept(X)') \in Nat
          /\ Cardinality(FP!Kept(X)') <= Cardinality(FP!Kept(X))
        BY <2>1, <2>2, Fewer
    <2>4. Cardinality(X) \in Nat
        BY <1>1, Fewer
    <2>5. Cardinality(FP!Kept(X)) + Cardinality(X) <= s14
        BY FactorFinite DEF FP!Crowd
    <2>6. s14 \in Nat
        BY DEF FP!TypeOK
    <2> QED BY <2>2, <2>3, <2>4, <2>5, <2>6
<1> QED BY <1>1, <1>2, FactorFinite DEF FP!Crowd

\* A transaction that opens misses nothing, and joins those that are open.
LEMMA FactorCrowdOpens ==
    ASSUME FP!SecondFactorAssumption, FP!TypeOK, FP!Crowd,
           NEW r \in Requests, FP!DeleteOld(r)
    PROVE  FP!Crowd'
<1>1. /\ FP!Replacing' = FP!Replacing \cup {r} /\ r \notin FP!Replacing
      /\ s3' = s3 /\ s8'[r] = s3 /\ \A q \in Requests \ {r} : s8'[q] = s8[q]
    BY DEF FP!DeleteOld, FP!Replacing, FP!TypeOK
<1>2. IsFiniteSet(FP!Replacing) /\ Cardinality(FP!Replacing) \in Nat
    BY FactorFinite, FS_CardinalityType DEF FP!Crowd
<1>3. /\ IsFiniteSet(FP!Replacing \cup {r})
      /\ Cardinality(FP!Replacing \cup {r}) = Cardinality(FP!Replacing) + 1
    BY <1>1, <1>2, FS_AddElement
<1>4. FP!Cardinality(FP!Replacing) = Cardinality(FP!Replacing)
    BY FactorFinite
<1>5. s14 \in Nat /\ s14' \in Nat /\ s14 <= s14' /\ Cardinality(FP!Replacing) + 1 <= s14'
    BY <1>2, <1>4 DEF FP!DeleteOld, FP!TypeOK
<1>6. ASSUME NEW X \in SUBSET (FP!Replacing \cup {r})
      PROVE  Cardinality(FP!Kept(X)') + Cardinality(X) <= s14'
    <2>1. Cardinality(X) \in Nat /\ Cardinality(X) <= Cardinality(FP!Replacing) + 1
        BY <1>3, Fewer
    <2>2. CASE r \in X
        <3>1. FP!Kept(X)' = {}
            BY <1>1, <2>2 DEF FP!Kept
        <3>2. Cardinality(FP!Kept(X)') = 0
            BY <3>1, FS_EmptySet
        <3> QED BY <1>2, <1>5, <2>1, <3>2
    <2>3. CASE r \notin X
        <3>1. X \in SUBSET FP!Replacing /\ \A q \in X : s8'[q] = s8[q]
            BY <1>1, <2>3 DEF FP!Replacing
        <3>2. FP!Kept(X)' = FP!Kept(X)
            BY <1>1, <3>1 DEF FP!Kept
        <3>3. Cardinality(FP!Kept(X)) + Cardinality(X) <= s14
            BY <3>1, FactorFinite DEF FP!Crowd
        <3>4. Cardinality(FP!Kept(X)) \in Nat
            BY KeptFinite DEF FP!TypeOK
        <3> QED BY <1>5, <2>1, <3>2, <3>3, <3>4
    <2> QED BY <2>2, <2>3
<1> QED BY <1>1, <1>3, <1>6, FactorFinite DEF FP!Crowd

\* A transaction that commits leaves its place to its set: what the others miss
\* now is that set, and what they and the transaction missed before.
LEMMA FactorCrowdCommits ==
    ASSUME FP!SecondFactorAssumption, FP!TypeOK, FP!Crowd,
           NEW r \in Requests, FP!CommitCodes(r)
    PROVE  FP!Crowd'
<1>1. /\ FP!Replacing' = FP!Replacing \ {r} /\ r \in FP!Replacing /\ s14' = s14
      /\ s3' = (s3 \ s8[r]) \cup FP!CodesOf(s9[r])
      /\ \A q \in Requests \ {r} : s8'[q] = s8[q]
    BY DEF FP!CommitCodes, FP!Replacing, FP!Replaced, FP!TypeOK, FP!history
<1>2. IsFiniteSet(FP!Replacing) /\ IsFiniteSet(FP!Replacing \ {r}) /\ s14 \in Nat
    BY FactorFinite, Fewer DEF FP!Crowd, FP!TypeOK
<1>3. ASSUME NEW X \in SUBSET (FP!Replacing \ {r})
      PROVE  Cardinality(FP!Kept(X)') + Cardinality(X) <= s14'
    <2>1. r \notin X /\ X \cup {r} \in SUBSET FP!Replacing /\ X \subseteq Requests \ {r}
        BY <1>1 DEF FP!Replacing
    <2>2. FP!Kept(X)' \subseteq FP!Kept(X \cup {r}) \cup {s9[r]}
        <3>1. ASSUME NEW c \in s3', \A q \in X : c \notin s8'[q]
              PROVE  c[1] \in FP!Kept(X \cup {r}) \cup {s9[r]}
            <4>1. CASE c \in FP!CodesOf(s9[r])
                BY <4>1 DEF FP!CodesOf
            <4>2. CASE c \in s3 \ s8[r]
                <5>1. \A q \in X \cup {r} : c \notin s8[q]
                    BY <1>1, <2>1, <3>1, <4>2
                <5> QED BY <4>2, <5>1 DEF FP!Kept
            <4> QED BY <1>1, <4>1, <4>2
        <3> QED BY <3>1 DEF FP!Kept
    <2>3. IsFiniteSet(FP!Kept(X \cup {r})) /\ Cardinality(FP!Kept(X \cup {r})) \in Nat
        BY KeptFinite DEF FP!TypeOK
    <2>4. /\ IsFiniteSet(FP!Kept(X \cup {r}) \cup {s9[r]})
          /\ Cardinality(FP!Kept(X \cup {r}) \cup {s9[r]}) \in
                {Cardinality(FP!Kept(X \cup {r})), Cardinality(FP!Kept(X \cup {r})) + 1}
        BY <2>3, FS_AddElement
    <2>5. Cardinality(FP!Kept(X)') \in Nat
          /\ Cardinality(FP!Kept(X)') <= Cardinality(FP!Kept(X \cup {r}) \cup {s9[r]})
          /\ Cardinality(FP!Kept(X \cup {r}) \cup {s9[r]}) \in Nat
        BY <2>2, <2>4, Fewer
    <2>6. IsFiniteSet(X) /\ Cardinality(X) \in Nat
        BY <1>2, Fewer
    <2>7. Cardinality(X \cup {r}) = Cardinality(X) + 1
        BY <2>1, <2>6, FS_AddElement
    <2>8. Cardinality(FP!Kept(X \cup {r})) + Cardinality(X \cup {r}) <= s14
        BY <2>1, FactorFinite DEF FP!Crowd
    <2> QED BY <1>1, <1>2, <2>3, <2>4, <2>5, <2>6, <2>7, <2>8
<1> QED BY <1>1, <1>2, <1>3, FactorFinite DEF FP!Crowd

\* Only a DELETE that starts and a commit disturb the count.
LEMMA FactorCrowdStep ==
    ASSUME FP!SecondFactorAssumption, FP!TypeOK, FP!Crowd, FP!Next \/ UNCHANGED FP!vars
    PROVE  FP!Crowd'
<1> DEFINE Narrower == /\ FP!Replacing' \subseteq FP!Replacing /\ s3' \subseteq s3
                       /\ s14' = s14 /\ \A r \in FP!Replacing' : s8'[r] = s8[r]
<1> USE DEF FP!vars, FP!account, FP!locals, FP!history, FP!TypeOK, FP!Replacing
<1>1. CASE FP!Enrol
    <2>1. Narrower
        BY <1>1 DEF FP!Enrol
    <2> QED BY <2>1, FactorCrowdNarrower
<1>2. ASSUME NEW r \in Requests, FP!BeginConfirm(r) PROVE Narrower
    BY <1>2 DEF FP!BeginConfirm
<1>3. ASSUME NEW r \in Requests, FP!Activate(r) PROVE Narrower
    BY <1>3 DEF FP!Activate
<1>4. ASSUME NEW r \in Requests, FP!RespondConfirmed(r) PROVE Narrower
    BY <1>4 DEF FP!RespondConfirmed, FP!Reset
<1>5. ASSUME NEW r \in Requests, FP!ConsumeCode(r) PROVE Narrower
    BY <1>5 DEF FP!ConsumeCode, FP!Reset, FP!StillUnused
<1>6. ASSUME NEW r \in Requests, FP!Fail(r) PROVE Narrower
    BY <1>6 DEF FP!Fail, FP!Reset
<1>7. ASSUME NEW r \in Requests, NEW c \in FP!Code, FP!MatchCode(r, c) PROVE Narrower
    BY <1>7 DEF FP!MatchCode
<1>8. CASE UNCHANGED FP!vars
    <2>1. Narrower
        BY <1>8
    <2> QED BY <2>1, FactorCrowdNarrower
<1>9. Narrower => FP!Crowd'
    BY FactorCrowdNarrower
<1> QED BY <1>1, <1>2, <1>3, <1>4, <1>5, <1>6, <1>7, <1>8, <1>9, FactorCrowdOpens,
       FactorCrowdCommits DEF FP!Next, FP!Confirm

\* With no transaction singled out, the sets are those that can be used.
LEMMA NoMoreSets ==
    ASSUME FP!TypeOK, FP!Crowd
    PROVE  FP!SetsBounded
<1>1. FP!Kept({}) = FP!LiveSets
    BY DEF FP!Kept, FP!LiveSets
<1>2. FP!Cardinality({}) = 0
    BY FactorFinite, FS_EmptySet
<1>3. FP!Cardinality(FP!Kept({})) + FP!Cardinality({}) <= s14
    BY DEF FP!Crowd
<1>4. IsFiniteSet(FP!Kept({})) /\ Cardinality(FP!Kept({})) \in Nat
    BY MCFactor, KeptFinite DEF FP!TypeOK, Factor!SecondFactorAssumption,
       FP!SecondFactorAssumption
<1> QED BY <1>1, <1>2, <1>3, <1>4, FactorFinite DEF FP!SetsBounded

\* Every step keeps the types; a set of codes is shown after it is generated.
LEMMA FactorTypeOKStep ==
    ASSUME FP!SecondFactorAssumption, FP!TypeOK, FP!Fresh, FP!Crowd,
           FP!Next \/ UNCHANGED FP!vars
    PROVE  FP!TypeOK'
<1> USE DEF FP!SecondFactorAssumption, FP!vars, FP!account, FP!locals, FP!history,
        FP!TypeOK, FP!Fresh, FP!Generated, FP!Secret, FP!NoSecret, FP!Code, FP!NoCode
<1>1. CASE FP!Enrol
    <2>1. /\ s4' \in 0 .. MaxSecrets /\ s1' \in FP!Secret \cup {FP!NoSecret}
          /\ s2' \in BOOLEAN
        <3>1. s4 \in Nat /\ s4 < MaxSecrets /\ s4' = s4 + 1
              /\ s1' = s4' /\ s2' = FALSE
            BY <1>1 DEF FP!Enrol, FP!SetTOTPSecret
        <3>2. s4' \in 1 .. MaxSecrets
            BY <3>1
        <3>3. s4' \in 0 .. MaxSecrets /\ s1' \in FP!Secret
            BY <3>1, <3>2
        <3>4. s2' \in BOOLEAN
            BY <3>1
        <3> QED BY <3>3, <3>4
    <2>2. UNCHANGED <<s3, s5, s6, FP!locals, s11, s12, s13, s14, s16>>
        BY <1>1 DEF FP!Enrol
    <2>3. s3' \subseteq FP!Code /\ s5' \in 0 .. MaxSets /\ s11' \subseteq FP!Secret
          /\ s12' \subseteq 1 .. MaxSets /\ s13' \in [FP!Code -> 0 .. MaxSignIns]
        BY <2>2
    <2>4. s15' \subseteq FP!Secret
        <3>1. s4' = s4 + 1 /\ s4 < MaxSecrets /\ s4 \in Nat
            BY <1>1 DEF FP!Enrol
        <3>2. s4' \in FP!Secret
            BY <3>1
        <3> QED BY <1>1, <3>2 DEF FP!Enrol
    <2> QED BY <2>1, <2>2, <2>3, <2>4
<1>2. ASSUME NEW r \in Requests, FP!BeginConfirm(r) PROVE FP!TypeOK'
    BY <1>2 DEF FP!BeginConfirm
<1>3. ASSUME NEW r \in Requests, FP!DeleteOld(r) PROVE FP!TypeOK'
    <2>1. FP!Cardinality(FP!Replacing) \in Nat
        BY FS_CardinalityType DEF FP!Crowd, FP!Cardinality, FP!IsFiniteSet, Cardinality,
           IsFiniteSet
    <2>2. s14' \in Nat
        BY <1>3, <2>1 DEF FP!DeleteOld
    <2> QED BY <1>3, <2>2 DEF FP!DeleteOld
<1>4. ASSUME NEW r \in Requests, FP!CommitCodes(r) PROVE FP!TypeOK'
    BY <1>4 DEF FP!CommitCodes, FP!Replaced, FP!CodesOf
<1>5. ASSUME NEW r \in Requests, FP!Activate(r) PROVE FP!TypeOK'
    BY <1>5 DEF FP!Activate
<1>6. ASSUME NEW r \in Requests, FP!RespondConfirmed(r) PROVE FP!TypeOK'
    <2>1. s9[r] \in 1 .. MaxSets
        BY <1>6 DEF FP!RespondConfirmed
    <2>2. s12' \subseteq 1 .. MaxSets
        BY <1>6, <2>1 DEF FP!RespondConfirmed
    <2> QED BY <1>6, <2>2 DEF FP!RespondConfirmed, FP!Reset
<1>7. ASSUME NEW r \in Requests, FP!ConsumeCode(r) PROVE FP!TypeOK'
    BY <1>7 DEF FP!ConsumeCode, FP!Reset, FP!StillUnused
<1>8. ASSUME NEW r \in Requests, FP!Fail(r) PROVE FP!TypeOK'
    <2>1. FP!Stored(r) => s9[r] \in 1 .. MaxSets
        BY DEF FP!Stored
    <2>2. s16' \subseteq 1 .. MaxSets
        BY <1>8, <2>1 DEF FP!Fail
    <2> QED BY <1>8, <2>2 DEF FP!Fail, FP!Reset
<1>9. ASSUME NEW r \in Requests, NEW c \in FP!Code, FP!MatchCode(r, c) PROVE FP!TypeOK'
    BY <1>9 DEF FP!MatchCode
<1>10. CASE UNCHANGED FP!vars
    BY <1>10
<1> QED BY <1>1, <1>2, <1>3, <1>4, <1>5, <1>6, <1>7, <1>8, <1>9, <1>10 DEF FP!Next,
       FP!Confirm

\* A commit stores the request's own set, which nobody else holds.
LEMMA FactorFreshStep ==
    ASSUME FP!SecondFactorAssumption, FP!TypeOK, FP!Fresh, FP!Next \/ UNCHANGED FP!vars
    PROVE  FP!Fresh'
<1> USE DEF FP!SecondFactorAssumption, FP!vars, FP!account, FP!locals, FP!history,
        FP!TypeOK, FP!Fresh, FP!Generated, FP!Code
<1>1. CASE FP!Enrol
    BY <1>1 DEF FP!Enrol, FP!SetTOTPSecret
<1>2. ASSUME NEW r \in Requests, FP!BeginConfirm(r) PROVE FP!Fresh'
    BY <1>2 DEF FP!BeginConfirm
<1>3. ASSUME NEW r \in Requests, FP!DeleteOld(r) PROVE FP!Fresh'
    BY <1>3 DEF FP!DeleteOld
<1>4. ASSUME NEW r \in Requests, FP!CommitCodes(r) PROVE FP!Fresh'
    BY <1>4 DEF FP!CommitCodes, FP!Replaced, FP!CodesOf
<1>5. ASSUME NEW r \in Requests, FP!Activate(r) PROVE FP!Fresh'
    BY <1>5 DEF FP!Activate
<1>6. ASSUME NEW r \in Requests, FP!RespondConfirmed(r) PROVE FP!Fresh'
    BY <1>6 DEF FP!RespondConfirmed, FP!Reset
<1>7. ASSUME NEW r \in Requests, FP!ConsumeCode(r) PROVE FP!Fresh'
    BY <1>7 DEF FP!ConsumeCode, FP!Reset, FP!StillUnused
<1>8. ASSUME NEW r \in Requests, FP!Fail(r) PROVE FP!Fresh'
    BY <1>8 DEF FP!Fail, FP!Reset
<1>9. ASSUME NEW r \in Requests, NEW c \in FP!Code, FP!MatchCode(r, c) PROVE FP!Fresh'
    BY <1>9 DEF FP!MatchCode
<1>10. CASE UNCHANGED FP!vars
    BY <1>10
<1> QED BY <1>1, <1>2, <1>3, <1>4, <1>5, <1>6, <1>7, <1>8, <1>9, <1>10 DEF FP!Next,
       FP!Confirm

\* A code is spent in the step that takes it from the table.
LEMMA FactorSpentIsGoneStep ==
    ASSUME FP!SecondFactorAssumption, FP!TypeOK, FP!Fresh, FP!SpentIsGone,
           FP!Next \/ UNCHANGED FP!vars
    PROVE  FP!SpentIsGone'
<1> USE DEF FP!SecondFactorAssumption, FP!vars, FP!account, FP!locals, FP!history,
        FP!TypeOK, FP!Fresh, FP!Generated, FP!SpentIsGone, FP!Code
<1>1. CASE FP!Enrol
    BY <1>1 DEF FP!Enrol, FP!SetTOTPSecret
<1>2. ASSUME NEW r \in Requests, FP!BeginConfirm(r) PROVE FP!SpentIsGone'
    BY <1>2 DEF FP!BeginConfirm
<1>3. ASSUME NEW r \in Requests, FP!DeleteOld(r) PROVE FP!SpentIsGone'
    BY <1>3 DEF FP!DeleteOld
<1>4. ASSUME NEW r \in Requests, FP!CommitCodes(r) PROVE FP!SpentIsGone'
    BY <1>4 DEF FP!CommitCodes, FP!Replaced, FP!CodesOf
<1>5. ASSUME NEW r \in Requests, FP!Activate(r) PROVE FP!SpentIsGone'
    BY <1>5 DEF FP!Activate
<1>6. ASSUME NEW r \in Requests, FP!RespondConfirmed(r) PROVE FP!SpentIsGone'
    BY <1>6 DEF FP!RespondConfirmed, FP!Reset
<1>7. ASSUME NEW r \in Requests, FP!ConsumeCode(r) PROVE FP!SpentIsGone'
    BY <1>7 DEF FP!ConsumeCode, FP!Reset, FP!StillUnused
<1>8. ASSUME NEW r \in Requests, FP!Fail(r) PROVE FP!SpentIsGone'
    BY <1>8 DEF FP!Fail, FP!Reset
<1>9. ASSUME NEW r \in Requests, NEW c \in FP!Code, FP!MatchCode(r, c)
      PROVE  FP!SpentIsGone'
    BY <1>9 DEF FP!MatchCode
<1>10. CASE UNCHANGED FP!vars
    BY <1>10
<1> QED BY <1>1, <1>2, <1>3, <1>4, <1>5, <1>6, <1>7, <1>8, <1>9, <1>10 DEF FP!Next,
       FP!Confirm

\* A secret that is issued during a confirmation crosses it.
LEMMA FactorCrossingStep ==
    ASSUME FP!SecondFactorAssumption, FP!TypeOK, FP!Crossing, FP!Next \/ UNCHANGED FP!vars
    PROVE  FP!Crossing'
<1> USE DEF FP!SecondFactorAssumption, FP!vars, FP!account, FP!locals, FP!history,
        FP!TypeOK, FP!Crossing, FP!Confirming
<1>1. CASE FP!Enrol
    BY <1>1 DEF FP!Enrol, FP!SetTOTPSecret
<1>2. ASSUME NEW r \in Requests, FP!BeginConfirm(r) PROVE FP!Crossing'
    BY <1>2 DEF FP!BeginConfirm
<1>3. ASSUME NEW r \in Requests, FP!DeleteOld(r) PROVE FP!Crossing'
    BY <1>3 DEF FP!DeleteOld
<1>4. ASSUME NEW r \in Requests, FP!CommitCodes(r) PROVE FP!Crossing'
    BY <1>4 DEF FP!CommitCodes, FP!Replaced, FP!CodesOf
<1>5. ASSUME NEW r \in Requests, FP!Activate(r) PROVE FP!Crossing'
    BY <1>5 DEF FP!Activate
<1>6. ASSUME NEW r \in Requests, FP!RespondConfirmed(r) PROVE FP!Crossing'
    BY <1>6 DEF FP!RespondConfirmed, FP!Reset
<1>7. ASSUME NEW r \in Requests, FP!ConsumeCode(r) PROVE FP!Crossing'
    BY <1>7 DEF FP!ConsumeCode, FP!Reset, FP!StillUnused
<1>8. ASSUME NEW r \in Requests, FP!Fail(r) PROVE FP!Crossing'
    BY <1>8 DEF FP!Fail, FP!Reset
<1>9. ASSUME NEW r \in Requests, NEW c \in FP!Code, FP!MatchCode(r, c) PROVE FP!Crossing'
    BY <1>9 DEF FP!MatchCode
<1>10. CASE UNCHANGED FP!vars
    BY <1>10
<1> QED BY <1>1, <1>2, <1>3, <1>4, <1>5, <1>6, <1>7, <1>8, <1>9, <1>10 DEF FP!Next,
       FP!Confirm

\* Whoever spends a code found it in the table, so it was not spent.
LEMMA FactorCodeSingleUseStep ==
    ASSUME FP!SecondFactorAssumption, FP!TypeOK, FP!SpentIsGone, FP!CodeSingleUse,
           FP!Next \/ UNCHANGED FP!vars
    PROVE  FP!CodeSingleUse'
<1> USE DEF FP!SecondFactorAssumption, FP!vars, FP!account, FP!locals, FP!history,
        FP!TypeOK, FP!SpentIsGone, FP!CodeSingleUse
<1>1. CASE FP!Enrol
    BY <1>1 DEF FP!Enrol, FP!SetTOTPSecret
<1>2. ASSUME NEW r \in Requests, FP!BeginConfirm(r) PROVE FP!CodeSingleUse'
    BY <1>2 DEF FP!BeginConfirm
<1>3. ASSUME NEW r \in Requests, FP!DeleteOld(r) PROVE FP!CodeSingleUse'
    BY <1>3 DEF FP!DeleteOld
<1>4. ASSUME NEW r \in Requests, FP!CommitCodes(r) PROVE FP!CodeSingleUse'
    BY <1>4 DEF FP!CommitCodes, FP!Replaced, FP!CodesOf
<1>5. ASSUME NEW r \in Requests, FP!Activate(r) PROVE FP!CodeSingleUse'
    BY <1>5 DEF FP!Activate
<1>6. ASSUME NEW r \in Requests, FP!RespondConfirmed(r) PROVE FP!CodeSingleUse'
    BY <1>6 DEF FP!RespondConfirmed, FP!Reset
<1>7. ASSUME NEW r \in Requests, FP!ConsumeCode(r) PROVE FP!CodeSingleUse'
    BY <1>7 DEF FP!ConsumeCode, FP!Reset, FP!StillUnused
<1>8. ASSUME NEW r \in Requests, FP!Fail(r) PROVE FP!CodeSingleUse'
    BY <1>8 DEF FP!Fail, FP!Reset
<1>9. ASSUME NEW r \in Requests, NEW c \in FP!Code, FP!MatchCode(r, c)
      PROVE  FP!CodeSingleUse'
    BY <1>9 DEF FP!MatchCode
<1>10. CASE UNCHANGED FP!vars
    BY <1>10
<1> QED BY <1>1, <1>2, <1>3, <1>4, <1>5, <1>6, <1>7, <1>8, <1>9, <1>10 DEF FP!Next,
       FP!Confirm

\* A request takes its set to the user, or loses it.
LEMMA FactorShownOrLostStep ==
    ASSUME FP!SecondFactorAssumption, FP!TypeOK, FP!ShownOrLost,
           FP!Next \/ UNCHANGED FP!vars
    PROVE  FP!ShownOrLost'
<1> USE DEF FP!SecondFactorAssumption, FP!vars, FP!account, FP!locals, FP!history,
        FP!TypeOK, FP!ShownOrLost, FP!Stored, FP!LiveSets, FP!Code
<1>1. CASE FP!Enrol
    BY <1>1 DEF FP!Enrol, FP!SetTOTPSecret
<1>2. ASSUME NEW r \in Requests, FP!BeginConfirm(r) PROVE FP!ShownOrLost'
    BY <1>2 DEF FP!BeginConfirm
<1>3. ASSUME NEW r \in Requests, FP!DeleteOld(r) PROVE FP!ShownOrLost'
    BY <1>3 DEF FP!DeleteOld
<1>4. ASSUME NEW r \in Requests, FP!CommitCodes(r) PROVE FP!ShownOrLost'
    BY <1>4 DEF FP!CommitCodes, FP!Replaced, FP!CodesOf
<1>5. ASSUME NEW r \in Requests, FP!Activate(r) PROVE FP!ShownOrLost'
    BY <1>5 DEF FP!Activate
<1>6. ASSUME NEW r \in Requests, FP!RespondConfirmed(r) PROVE FP!ShownOrLost'
    BY <1>6 DEF FP!RespondConfirmed, FP!Reset
<1>7. ASSUME NEW r \in Requests, FP!ConsumeCode(r) PROVE FP!ShownOrLost'
    BY <1>7 DEF FP!ConsumeCode, FP!Reset, FP!StillUnused
<1>8. ASSUME NEW r \in Requests, FP!Fail(r) PROVE FP!ShownOrLost'
    BY <1>8 DEF FP!Fail, FP!Reset
<1>9. ASSUME NEW r \in Requests, NEW c \in FP!Code, FP!MatchCode(r, c)
      PROVE  FP!ShownOrLost'
    BY <1>9 DEF FP!MatchCode
<1>10. CASE UNCHANGED FP!vars
    BY <1>10
<1> QED BY <1>1, <1>2, <1>3, <1>4, <1>5, <1>6, <1>7, <1>8, <1>9, <1>10 DEF FP!Next,
       FP!Confirm

\* What is activated is the secret the right code was for, or one that crossed it.
LEMMA FactorProvenOrCrossedStep ==
    ASSUME FP!SecondFactorAssumption, FP!TypeOK, FP!Crossing, FP!ProvenOrCrossed,
           FP!Next \/ UNCHANGED FP!vars
    PROVE  FP!ProvenOrCrossed'
<1> USE DEF FP!SecondFactorAssumption, FP!vars, FP!account, FP!locals, FP!history,
        FP!TypeOK, FP!Crossing, FP!Confirming, FP!ProvenOrCrossed
<1>1. CASE FP!Enrol
    BY <1>1 DEF FP!Enrol, FP!SetTOTPSecret
<1>2. ASSUME NEW r \in Requests, FP!BeginConfirm(r) PROVE FP!ProvenOrCrossed'
    BY <1>2 DEF FP!BeginConfirm
<1>3. ASSUME NEW r \in Requests, FP!DeleteOld(r) PROVE FP!ProvenOrCrossed'
    BY <1>3 DEF FP!DeleteOld
<1>4. ASSUME NEW r \in Requests, FP!CommitCodes(r) PROVE FP!ProvenOrCrossed'
    BY <1>4 DEF FP!CommitCodes, FP!Replaced, FP!CodesOf
<1>5. ASSUME NEW r \in Requests, FP!Activate(r) PROVE FP!ProvenOrCrossed'
    BY <1>5 DEF FP!Activate
<1>6. ASSUME NEW r \in Requests, FP!RespondConfirmed(r) PROVE FP!ProvenOrCrossed'
    BY <1>6 DEF FP!RespondConfirmed, FP!Reset
<1>7. ASSUME NEW r \in Requests, FP!ConsumeCode(r) PROVE FP!ProvenOrCrossed'
    BY <1>7 DEF FP!ConsumeCode, FP!Reset, FP!StillUnused
<1>8. ASSUME NEW r \in Requests, FP!Fail(r) PROVE FP!ProvenOrCrossed'
    BY <1>8 DEF FP!Fail, FP!Reset
<1>9. ASSUME NEW r \in Requests, NEW c \in FP!Code, FP!MatchCode(r, c)
      PROVE  FP!ProvenOrCrossed'
    BY <1>9 DEF FP!MatchCode
<1>10. CASE UNCHANGED FP!vars
    BY <1>10
<1> QED BY <1>1, <1>2, <1>3, <1>4, <1>5, <1>6, <1>7, <1>8, <1>9, <1>10 DEF FP!Next,
       FP!Confirm

\* No second factor is enrolled at first, and no code exists.
LEMMA FactorInitIInv ==
    ASSUME FP!SecondFactorAssumption
    PROVE  FP!Init => FP!IInv
<1> SUFFICES ASSUME FP!Init PROVE FP!IInv
    OBVIOUS
<1>1. FP!TypeOK
    <2>1. s13 \in [FP!Code -> 0 .. MaxSignIns]
        BY DEF FP!Init, FP!SecondFactorAssumption
    <2>2. s4 \in 0 .. MaxSecrets /\ s5 \in 0 .. MaxSets
          /\ s9 \in [Requests -> 0 .. MaxSets]
        BY DEF FP!Init, FP!SecondFactorAssumption
    <2> QED BY <2>1, <2>2 DEF FP!Init, FP!TypeOK
<1>2. \A r \in Requests : ~FP!Generated(r) /\ ~FP!Confirming(r) /\ s6[r] # "replace"
    BY DEF FP!Init, FP!Generated, FP!Confirming
<1>3. FP!Fresh /\ FP!SpentIsGone /\ FP!Crossing
    BY <1>2 DEF FP!Init, FP!Fresh, FP!SpentIsGone, FP!Crossing
<1>4. FP!CodeSingleUse /\ FP!ShownOrLost /\ FP!ProvenOrCrossed
    BY DEF FP!Init, FP!CodeSingleUse, FP!ShownOrLost, FP!ProvenOrCrossed, FP!LiveSets
<1>5. FP!Crowd
    <2>1. FP!Replacing = {} /\ s3 = {} /\ s14 = 0
        BY <1>2 DEF FP!Init, FP!Replacing
    <2>2. \A X \in SUBSET FP!Replacing : X = {} /\ FP!Kept(X) = {}
        BY <2>1 DEF FP!Kept
    <2> QED BY <2>1, <2>2, NoneAtAll DEF FP!Crowd
<1> QED BY <1>1, <1>3, <1>4, <1>5 DEF FP!IInv

\* Every step of the second factor keeps its invariant.
LEMMA FactorStepIInv ==
    ASSUME FP!SecondFactorAssumption, FP!IInv, FP!Next \/ UNCHANGED FP!vars
    PROVE  FP!IInv'
BY FactorTypeOKStep, FactorFreshStep, FactorSpentIsGoneStep, FactorCrowdStep,
   FactorCrossingStep, FactorCodeSingleUseStep, FactorShownOrLostStep,
   FactorProvenOrCrossedStep DEF FP!IInv

\* The second factor begins in a state of its component.
LEMMA FactorInit ==
    ASSUME MCInit, part = "factor"
    PROVE  FP!IInv
<1>1. FP!SecondFactorAssumption
    BY MCFactor DEF Factor!SecondFactorAssumption, FP!SecondFactorAssumption
<1>2. Factor!Init
    BY DEF MCInit
<1>3. FP!Init
    BY <1>2 DEF Factor!Init, FP!Init, Factor!NoSecret, FP!NoSecret, Factor!NoCode,
        FP!NoCode, Factor!Code, FP!Code
<1> QED BY <1>1, <1>3, FactorInitIInv

\* A step of the second factor is one of its component.
LEMMA FactorStep ==
    ASSUME FP!IInv, SignInNext, part' = "factor"
    PROVE  (FP!IInv)'
<1>1. FP!SecondFactorAssumption
    BY MCFactor DEF Factor!SecondFactorAssumption, FP!SecondFactorAssumption
<1>2. FactorNext
    BY DEF SignInNext, LockoutNext, AdministratorsNext, FactorNext, SessionsNext,
           OfLockout, OfAdministrators, OfFactor, OfSessions
<1>3. ASSUME Factor!Enrol PROVE FP!Enrol
    BY <1>3 DEF Factor!Enrol, FP!Enrol, Factor!SetTOTPSecret, FP!SetTOTPSecret,
        Factor!Confirming, FP!Confirming, Factor!locals, FP!locals
<1>4. ASSUME NEW r \in Requests, Factor!BeginConfirm(r) PROVE FP!BeginConfirm(r)
    BY <1>4 DEF Factor!BeginConfirm, FP!BeginConfirm, Factor!NoSecret, FP!NoSecret,
        Factor!Confirming, FP!Confirming, Factor!account, FP!account
<1>5. ASSUME NEW r \in Requests, Factor!DeleteOld(r) PROVE FP!DeleteOld(r)
    BY <1>5 DEF Factor!DeleteOld, FP!DeleteOld, Factor!Replacing, FP!Replacing,
        Factor!Cardinality, FP!Cardinality
<1>6. ASSUME NEW r \in Requests, Factor!CommitCodes(r) PROVE FP!CommitCodes(r)
    BY <1>6 DEF Factor!CommitCodes, FP!CommitCodes, Factor!Replaced, FP!Replaced,
        Factor!CodesOf, FP!CodesOf, Factor!history, FP!history
<1>7. ASSUME NEW r \in Requests, Factor!Activate(r) PROVE FP!Activate(r)
    BY <1>7 DEF Factor!Activate, FP!Activate, Factor!NoSecret, FP!NoSecret, Factor!locals,
        FP!locals, Factor!history, FP!history
<1>8. ASSUME NEW r \in Requests, Factor!RespondConfirmed(r) PROVE FP!RespondConfirmed(r)
    BY <1>8 DEF Factor!RespondConfirmed, FP!RespondConfirmed, Factor!Reset, FP!Reset,
        Factor!NoSecret, FP!NoSecret, Factor!NoCode, FP!NoCode, Factor!account,
        FP!account
<1>9. ASSUME NEW r \in Requests, NEW c \in Factor!Code, Factor!MatchCode(r, c)
      PROVE  FP!MatchCode(r, c)
    BY <1>9 DEF Factor!MatchCode, FP!MatchCode, Factor!NoSecret, FP!NoSecret,
        Factor!account, FP!account, Factor!history, FP!history
<1>10. ASSUME NEW r \in Requests, Factor!ConsumeCode(r) PROVE FP!ConsumeCode(r)
    BY <1>10 DEF Factor!ConsumeCode, FP!ConsumeCode, Factor!StillUnused, FP!StillUnused,
        Factor!Reset, FP!Reset, Factor!NoSecret, FP!NoSecret, Factor!NoCode,
        FP!NoCode
<1>11. ASSUME NEW r \in Requests, Factor!Fail(r) PROVE FP!Fail(r)
    BY <1>11 DEF Factor!Fail, FP!Fail, Factor!Reset, FP!Reset, Factor!NoSecret,
        FP!NoSecret,
        Factor!NoCode, FP!NoCode, Factor!account, FP!account, Factor!Stored,
        FP!Stored
<1>12. FP!Next
    BY <1>2, <1>3, <1>4, <1>5, <1>6, <1>7, <1>8, <1>9, <1>10, <1>11
    DEF FactorNext, FP!Next, FP!Confirm, Factor!Code, FP!Code
<1> QED BY <1>1, <1>12, FactorStepIInv

-----------------------------------------------------------------------------
(* The sessions. *)

\* The sessions begin in a state of their component.
LEMMA SessionsInit ==
    ASSUME MCInit, part = "sessions"
    PROVE  SP!IInv
<1>1. SP!SessionsAssumption
    BY MCSessions DEF Session!SessionsAssumption, SP!SessionsAssumption
<1>2. Session!Init
    BY DEF MCInit
<1>3. SP!Init
    BY <1>2 DEF Session!Init, SP!Init, Session!Sids, SP!Sids, Session!Absent, SP!Absent
<1> QED BY <1>1, <1>3, SP!InitIInv

\* A step of the sessions is one of their component.
LEMMA SessionsStep ==
    ASSUME SP!IInv, SignInNext, part' = "sessions"
    PROVE  (SP!IInv)'
<1>1. SP!SessionsAssumption
    BY MCSessions DEF Session!SessionsAssumption, SP!SessionsAssumption
<1>2. SessionsNext
    BY DEF SignInNext, LockoutNext, AdministratorsNext, FactorNext, SessionsNext,
           OfLockout, OfAdministrators, OfFactor, OfSessions
<1>3. ASSUME NEW r \in Updates, Session!LoginRead(r) PROVE SP!LoginRead(r)
    BY <1>3 DEF Session!LoginRead, SP!LoginRead, Session!Go, SP!Go, Session!account,
        SP!account, Session!table, SP!table, Session!history, SP!history
<1>4. ASSUME NEW r \in Updates, Session!LoginCreate(r) PROVE SP!LoginCreate(r)
    BY <1>4 DEF Session!LoginCreate, SP!LoginCreate, Session!Done, SP!Done, Session!Go,
        SP!Go, Session!account, SP!account, Session!history, SP!history
<1>5. ASSUME NEW r \in Updates, Session!RotateUpdate(r) PROVE SP!RotateUpdate(r)
    BY <1>5 DEF Session!RotateUpdate, SP!RotateUpdate, Session!Go, SP!Go, Session!Sids,
        SP!Sids, Session!Live, SP!Live, Session!Unlocked, SP!Unlocked,
        Session!Revoking, SP!Revoking, Session!account, SP!account, Session!history,
        SP!history
<1>6. ASSUME NEW r \in Updates, Session!RotateCommit(r) PROVE SP!RotateCommit(r)
    BY <1>6 DEF Session!RotateCommit, SP!RotateCommit, Session!Done, SP!Done, Session!Go,
        SP!Go, Session!Dead, SP!Dead, Session!account, SP!account, Session!history,
        SP!history
<1>7. ASSUME NEW r \in Updates, Session!LogoutResolve(r) PROVE SP!LogoutResolve(r)
    BY <1>7 DEF Session!LogoutResolve, SP!LogoutResolve, Session!Go, SP!Go, Session!Sids,
        SP!Sids, Session!Resolves, SP!Resolves, Session!Live, SP!Live,
        Session!account, SP!account, Session!table, SP!table, Session!history,
        SP!history
<1>8. ASSUME NEW r \in Updates, Session!LogoutRevoke(r) PROVE SP!LogoutRevoke(r)
    BY <1>8 DEF Session!LogoutRevoke, SP!LogoutRevoke, Session!Done, SP!Done, Session!Go,
        SP!Go, Session!Unlocked, SP!Unlocked, Session!Live, SP!Live, Session!Dead,
        SP!Dead, Session!account, SP!account
<1>9. ASSUME NEW r \in Updates, Session!FactorVerify(r) PROVE SP!FactorVerify(r)
    BY <1>9 DEF Session!FactorVerify, SP!FactorVerify, Session!Go, SP!Go, Session!Sids,
        SP!Sids, Session!Live, SP!Live, Session!account, SP!account, Session!table,
        SP!table
<1>10. ASSUME NEW r \in Updates, Session!FactorMark(r) PROVE SP!FactorMark(r)
    BY <1>10 DEF Session!FactorMark, SP!FactorMark, Session!Done, SP!Done, Session!Go,
        SP!Go,
        Session!Unlocked, SP!Unlocked, Session!Live, SP!Live, Session!account,
        SP!account, Session!history, SP!history
<1>11. ASSUME NEW r \in Updates, Session!RevokeOthersResolve(r)
       PROVE  SP!RevokeOthersResolve(r)
    BY <1>11 DEF Session!RevokeOthersResolve, SP!RevokeOthersResolve, Session!Go, SP!Go,
        Session!Sids, SP!Sids, Session!Resolves, SP!Resolves, Session!Live, SP!Live,
        Session!account, SP!account, Session!table, SP!table, Session!history,
        SP!history
<1>12. ASSUME NEW r \in Updates, Session!ChangeResolve(r) PROVE SP!ChangeResolve(r)
    BY <1>12 DEF Session!ChangeResolve, SP!ChangeResolve, Session!Go, SP!Go, Session!Sids,
        SP!Sids, Session!Resolves, SP!Resolves, Session!Live, SP!Live,
        Session!account, SP!account, Session!table, SP!table, Session!history,
        SP!history
<1>13. ASSUME NEW r \in Updates, Session!ChangeWrite(r) PROVE SP!ChangeWrite(r)
    BY <1>13 DEF Session!ChangeWrite, SP!ChangeWrite, Session!Go, SP!Go, Session!table,
        SP!table, Session!history, SP!history
<1>14. ASSUME NEW r \in Updates, Session!Deactivate(r) PROVE SP!Deactivate(r)
    BY <1>14 DEF Session!Deactivate, SP!Deactivate, Session!Go, SP!Go, Session!table,
        SP!table, Session!history, SP!history
<1>15. ASSUME NEW r \in Updates, Session!RevokeSnapshot(r) PROVE SP!RevokeSnapshot(r)
    BY <1>15 DEF Session!RevokeSnapshot, SP!RevokeSnapshot, Session!Go, SP!Go,
        Session!Sids,
        SP!Sids, Session!Live, SP!Live, Session!account, SP!account, Session!table,
        SP!table, Session!history, SP!history
<1>16. ASSUME NEW r \in Updates, Session!RevokeCommit(r) PROVE SP!RevokeCommit(r)
    BY <1>16 DEF Session!RevokeCommit, SP!RevokeCommit, Session!Done, SP!Done, Session!Go,
        SP!Go, Session!Sids, SP!Sids, Session!Live, SP!Live, Session!Unlocked,
        SP!Unlocked, Session!Dead, SP!Dead, Session!Larger, SP!Larger,
        Session!account, SP!account
<1>17. ASSUME NEW r \in Updates, Session!Fail(r) PROVE SP!Fail(r)
    BY <1>17 DEF Session!Fail, SP!Fail, Session!Done, SP!Done, Session!Go, SP!Go,
        Session!Sids, SP!Sids, Session!account, SP!account, Session!history,
        SP!history
<1>18. ASSUME NEW s \in Session!Sids, Session!Expire(s) PROVE SP!Expire(s)
    BY <1>18 DEF Session!Expire, SP!Expire, Session!Live, SP!Live, Session!Unlocked,
        SP!Unlocked, Session!Dead, SP!Dead, Session!account, SP!account,
        Session!locals, SP!locals, Session!history, SP!history
<1>19. ASSUME Session!Reactivate PROVE SP!Reactivate
    BY <1>19 DEF Session!Reactivate, SP!Reactivate, Session!table, SP!table,
        Session!locals,
        SP!locals, Session!history, SP!history
<1>20. SP!Next
    BY <1>2, <1>3, <1>4, <1>5, <1>6, <1>7, <1>8, <1>9, <1>10, <1>11, <1>12, <1>13, <1>14,
       <1>15, <1>16, <1>17, <1>18, <1>19
    DEF SessionsNext, SP!Next, SP!Request, Session!Sids, SP!Sids
<1> QED BY <1>1, <1>20, SP!StepIInv

-----------------------------------------------------------------------------
(* Together. *)

\* The part that moves begins where its component does.
LEMMA SignInInit == MCInit => SignInInv
<1> SUFFICES ASSUME MCInit PROVE SignInInv
    OBVIOUS
<1>1. IInv
    BY InitIInv DEF MCInit
<1> QED BY <1>1, AdministratorsInit, FactorInit, SessionsInit DEF SignInInv

\* A step of another part leaves the ladder as it is.
LEMMA LadderStep ==
    ASSUME IInv, SignInNext
    PROVE  IInv'
<1>1. CASE LockoutNext
    BY <1>1, NextIInv DEF LockoutNext, Next, Attempt
<1>2. CASE AdministratorsNext \/ FactorNext \/ SessionsNext
    <2>1. UNCHANGED vars
        BY <1>2 DEF AdministratorsNext, FactorNext, SessionsNext, OfAdministrators,
           OfFactor, OfSessions
    <2> QED BY <2>1, NextIInv
<1> QED BY <1>1, <1>2 DEF SignInNext

\* Which part moves is fixed.
LEMMA PartFixed ==
    ASSUME SignInNext
    PROVE  part' = part
BY DEF SignInNext, LockoutNext, AdministratorsNext, FactorNext, SessionsNext,
       OfLockout, OfAdministrators, OfFactor, OfSessions

\* Nothing moves.
LEMMA SignInStutter ==
    ASSUME SignInInv, UNCHANGED signInVars
    PROVE  SignInInv'
<1>1. UNCHANGED vars /\ UNCHANGED part /\ UNCHANGED Slots
    BY DEF signInVars
<1>2. IInv'
    BY <1>1, NextIInv DEF SignInInv
<1>3. UNCHANGED (AP!vars) /\ UNCHANGED (FP!vars) /\ UNCHANGED (SP!vars)
    BY <1>1 DEF Slots, After11, After14, AP!vars, AP!users, AP!locals, AP!wizard,
       FP!vars, FP!account, FP!locals, FP!history,
       SP!vars, SP!account, SP!table, SP!locals, SP!history
<1>4. AP!NobodyAssumption /\ FP!SecondFactorAssumption /\ SP!SessionsAssumption
    BY MCNobody, MCFactor, MCSessions
    DEF Administrator!NobodyAssumption, AP!NobodyAssumption,
        Factor!SecondFactorAssumption, FP!SecondFactorAssumption,
        Session!SessionsAssumption, SP!SessionsAssumption
<1>5. part = "administrators" => AP!IInv' /\ AP!Founding'
    BY <1>3, <1>4, AP!AllStep DEF SignInInv
<1>6. part = "factor" => FP!IInv'
    BY <1>3, <1>4, FactorStepIInv DEF SignInInv
<1>7. part = "sessions" => SP!IInv'
    BY <1>3, <1>4, SP!StepIInv DEF SignInInv
<1> QED BY <1>1, <1>2, <1>5, <1>6, <1>7 DEF SignInInv

\* Every step keeps the invariant of every part.
LEMMA SignInStep == SignInInv /\ [SignInNext]_signInVars => SignInInv'
<1> SUFFICES ASSUME SignInInv, SignInNext PROVE SignInInv'
    BY SignInStutter
<1>1. part' = part
    BY PartFixed
<1>2. IInv'
    BY LadderStep DEF SignInInv
<1> QED BY <1>1, <1>2, AdministratorsStep, FactorStep, SessionsStep DEF SignInInv

\* The invariant of all that stands behind a sign-in, for all values of the
\* settings and all numbers of users, requests and rows.
THEOREM SignInInvariant == MCSpec => []SignInInv
<1> QED BY SignInInit, SignInStep, PTL DEF MCSpec, SignInNext, signInVars

\* Every variable of the part that moves keeps its type.
THEOREM SignInTypesOK == MCSpec => []TypesOK
<1>1. SignInInv => TypesOK
    BY DEF SignInInv, TypesOK, IInv, AP!IInv, FP!IInv, SP!IInv, Administrator!TypeOK,
        AP!TypeOK,
       Administrator!Roles, AP!Roles, Administrator!Changes, AP!Changes,
       Administrator!NoChange, AP!NoChange, Administrator!Exists, AP!Exists,
       Administrator!InWindow, AP!InWindow, Factor!TypeOK, FP!TypeOK, Factor!Secret,
       FP!Secret, Factor!NoSecret, FP!NoSecret, Factor!Code, FP!Code, Factor!NoCode,
       FP!NoCode, Session!TypeOK, SP!TypeOK, Session!Sids, SP!Sids
<1> QED BY <1>1, SignInInvariant, PTL

\* The checks of the update handler keep an active administrator as long as no
\* two updates overlap, and the wizard makes no more founders than first-run
\* statements ran at once (demotesLastAdmin, UserRepo.CreateFirstAdmin).
THEOREM SignInAdministratorsInOrder == MCSpec => []AdministratorsInOrder
<1>1. SignInInv => AdministratorsInOrder
    <2> SUFFICES ASSUME AP!IInv, AP!Founding
                 PROVE  /\ Administrator!AdministratorLeft
                        /\ Administrator!FoundersBounded
        BY DEF SignInInv, AdministratorsInOrder
    <2>1. AP!AdministratorLeft /\ AP!FoundersBounded
        BY AP!NoMoreFounders DEF AP!IInv
    <2> QED BY <2>1 DEF AP!AdministratorLeft, Administrator!AdministratorLeft,
               AP!FoundersBounded, Administrator!FoundersBounded, AP!Cardinality,
               Administrator!Cardinality, AP!Exists, Administrator!Exists,
               AP!ActiveAdmins, Administrator!ActiveAdmins
<1> QED BY <1>1, SignInInvariant, PTL

\* A recovery code satisfies one session, however many requests present it at
\* once and whatever confirmation replaces the codes (RecoveryCodeRepo.Consume).
THEOREM SignInCodeSingleUse == MCSpec => []CodeSingleUse
<1>1. SignInInv => CodeSingleUse
    BY DEF SignInInv, CodeSingleUse, FP!IInv, FP!CodeSingleUse, Factor!CodeSingleUse,
       FP!Code, Factor!Code
<1> QED BY <1>1, SignInInvariant, PTL

\* However confirmations overlap and fail, the usable recovery codes are of no
\* more sets than were replaced at once, those of a confirmation that did not
\* fail after its commit reach the user, and the second factor is active only
\* for a secret that was proven or issued during a confirmation
\* (Service.ConfirmTOTP, RecoveryCodeRepo.Replace).
THEOREM SignInSetsInOrder == MCSpec => []SetsInOrder
<1>1. SignInInv => SetsInOrder
    <2> SUFFICES ASSUME FP!IInv
                 PROVE  /\ Factor!SetsBounded /\ Factor!ShownOrLost
                        /\ Factor!ProvenOrCrossed
        BY DEF SignInInv, SetsInOrder
    <2>1. FP!SetsBounded /\ FP!ShownOrLost /\ FP!ProvenOrCrossed
        BY NoMoreSets DEF FP!IInv
    <2> QED BY <2>1 DEF FP!SetsBounded, Factor!SetsBounded, FP!ShownOrLost,
               Factor!ShownOrLost, FP!LiveSets, Factor!LiveSets, FP!Stored,
               Factor!Stored, FP!ProvenOrCrossed, Factor!ProvenOrCrossed,
               FP!Cardinality, Factor!Cardinality
<1> QED BY <1>1, SignInInvariant, PTL

\* A sign-in has at most one live session, however rotations, log-outs and
\* revocations interleave, and none passes for satisfied whose sign-in proved
\* no second factor (SessionRepo.Rotate, MarkMFASatisfied).
THEOREM SignInSessionsInOrder == MCSpec => []SessionsInOrder
<1>1. SignInInv => SessionsInOrder
    BY DEF SignInInv, SessionsInOrder, SP!IInv, SP!OneLivePerSignIn,
       Session!OneLivePerSignIn, SP!FactorBeforeAccess, Session!FactorBeforeAccess,
       SP!Live, Session!Live, SP!Sids, Session!Sids
<1> QED BY <1>1, SignInInvariant, PTL

\* A log-out that found its row ended the sign-in for good, and a completed
\* revocation leaves at most what was being created while it ran
\* (SessionRepo.Revoke, RevokeAllForUser).
THEOREM SignInRevocationHolds == MCSpec => []RevocationHolds
<1>1. SignInInv => RevocationHolds
    BY DEF SignInInv, RevocationHolds, SP!IInv, SP!LogoutEnds, Session!LogoutEnds,
       SP!OnlyLateOnesSurvive, Session!OnlyLateOnesSurvive, SP!Live, Session!Live,
       SP!Sids, Session!Sids
<1> QED BY <1>1, SignInInvariant, PTL
=============================================================================
