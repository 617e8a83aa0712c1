------------------------------- MODULE MCSignIn -------------------------------
(***************************************************************************)
(* What stands behind a sign-in: the lockout ladder of an account, the     *)
(* list of administrators, the second factor and the sessions, checked     *)
(* side by side. `part` says which of them moves; the others do not exist  *)
(* in that behaviour. Those that have no theorem of their own share the    *)
(* variables s1 .. s16, each using as many as it has; an unused one is 0.  *)
(***************************************************************************)
EXTENDS Lockout, TLC

CONSTANTS
    Users, Setups, Nobody,
    Updates,  \* and the Requests of Sessions
    Requests, CodesPerSet, MaxSecrets, MaxSets, MaxSignIns,
    MaxSessions, MaxEra

VARIABLES part, s1, s2, s3, s4, s5, s6, s7, s8, s9, s10, s11, s12, s13, s14,
          s15, s16

After14 == <<s15, s16>>
After11 == <<s12, s13, s14, After14>>
Slots == <<s1, s2, s3, s4, s5, s6, s7, s8, s9, s10, s11, After11>>

Administrator == INSTANCE Administrators WITH
    role <- s1, active <- s2, pc <- s3, actor <- s4, target <- s5, seenRole <- s6,
    want <- s7, setup <- s8, founders <- s9, overlapped <- s10, together <- s11

Factor == INSTANCE SecondFactor WITH
    secret <- s1, confirmed <- s2, codes <- s3, enrolments <- s4, sets <- s5, pc <- s6,
    seen <- s7, old <- s8, own <- s9, code <- s10, proven <- s11, shown <- s12,
    spent <- s13, together <- s14, crossed <- s15, lost <- s16

Session == INSTANCE Sessions WITH
    Requests <- Updates,
    secondFactor <- s1, active <- s2, era <- s3, created <- s4, rows <- s5, lock <- s6,
    pc <- s7, sid <- s8, eraSeen <- s9, todo <- s10, late <- s11, factored <- s12,
    loggedOut <- s13, settled <- s14

ASSUME MCNobody == Administrator!NobodyAssumption
ASSUME MCFactor == Factor!SecondFactorAssumption
ASSUME MCSessions == Session!SessionsAssumption

MCLadder == <<1, 2>>
Symmetry == Permutations(Users) \cup Permutations(Updates)

Idle14 == s15 = 0 /\ s16 = 0

MCInit ==
    /\ part \in {"lockout", "administrators", "factor", "sessions"}
    /\ Init /\ (part # "lockout" => admin)
    /\ \/ /\ part = "lockout"
          /\ s1 = 0 /\ s2 = 0 /\ s3 = 0 /\ s4 = 0 /\ s5 = 0 /\ s6 = 0 /\ s7 = 0
          /\ s8 = 0 /\ s9 = 0 /\ s10 = 0 /\ s11 = 0 /\ s12 = 0 /\ s13 = 0 /\ s14 = 0
          /\ Idle14
       \/ part = "administrators" /\ Administrator!Init /\ s12 = 0 /\ s13 = 0 /\ s14 = 0 /\ Idle14
       \/ part = "factor" /\ Factor!Init
       \/ part = "sessions" /\ Session!Init /\ Idle14

OfLockout == part = "lockout" /\ UNCHANGED <<part, Slots>>
OfAdministrators == part = "administrators" /\ UNCHANGED <<part, vars, After11>>
OfFactor == part = "factor" /\ UNCHANGED <<part, vars>>
OfSessions == part = "sessions" /\ UNCHANGED <<part, vars, After14>>

LockoutNext ==
    \/ \E a \in Attempts :
        \/ OfLockout /\ Begin(a)
        \/ OfLockout /\ WrongPassword(a)
        \/ OfLockout /\ RightPassword(a)
        \/ OfLockout /\ RecordSuccessfulLogin(a)
        \/ OfLockout /\ Abandon(a)
    \/ OfLockout /\ Unblock
    \/ OfLockout /\ UpdateRole
    \/ OfLockout /\ Tick

AdministratorsNext ==
    \/ \E s \in Setups :
        \/ OfAdministrators /\ Administrator!SetupStart(s)
        \/ OfAdministrators /\ Administrator!SetupInsert(s)
        \/ OfAdministrators /\ Administrator!SetupRefuse(s)
    \/ \E u \in Users, r \in Administrator!Roles : OfAdministrators /\ Administrator!Create(u, r)
    \/ \E q \in Updates :
        \/ OfAdministrators /\ Administrator!Admit(q)
        \/ OfAdministrators /\ Administrator!Load(q)
        \/ OfAdministrators /\ Administrator!CheckRole(q)
        \/ OfAdministrators /\ Administrator!WriteRole(q)
        \/ OfAdministrators /\ Administrator!CheckActive(q)
        \/ OfAdministrators /\ Administrator!WriteActive(q)
        \/ OfAdministrators /\ Administrator!Refuse(q)

FactorNext ==
    \/ OfFactor /\ Factor!Enrol
    \/ \E r \in Requests :
        \/ OfFactor /\ Factor!BeginConfirm(r)
        \/ OfFactor /\ Factor!DeleteOld(r)
        \/ OfFactor /\ Factor!CommitCodes(r)
        \/ OfFactor /\ Factor!Activate(r)
        \/ OfFactor /\ Factor!RespondConfirmed(r)
        \/ \E c \in Factor!Code : OfFactor /\ Factor!MatchCode(r, c)
        \/ OfFactor /\ Factor!ConsumeCode(r)
        \/ OfFactor /\ Factor!Fail(r)

SessionsNext ==
    \/ \E r \in Updates :
        \/ OfSessions /\ Session!LoginRead(r)
        \/ OfSessions /\ Session!LoginCreate(r)
        \/ OfSessions /\ Session!RotateUpdate(r)
        \/ OfSessions /\ Session!RotateCommit(r)
        \/ OfSessions /\ Session!LogoutResolve(r)
        \/ OfSessions /\ Session!LogoutRevoke(r)
        \/ OfSessions /\ Session!FactorVerify(r)
        \/ OfSessions /\ Session!FactorMark(r)
        \/ OfSessions /\ Session!RevokeOthersResolve(r)
        \/ OfSessions /\ Session!ChangeResolve(r)
        \/ OfSessions /\ Session!ChangeWrite(r)
        \/ OfSessions /\ Session!Deactivate(r)
        \/ OfSessions /\ Session!RevokeSnapshot(r)
        \/ OfSessions /\ Session!RevokeCommit(r)
        \/ OfSessions /\ Session!Fail(r)
    \/ \E s \in Session!Sids : OfSessions /\ Session!Expire(s)
    \/ OfSessions /\ Session!Reactivate

MCSpec ==
    MCInit /\ [][LockoutNext \/ AdministratorsNext \/ FactorNext \/ SessionsNext]_<<part, vars, Slots>>

-----------------------------------------------------------------------------
(* Properties. *)

\* The shape of the state of the part that moves.
TypesOK ==
    /\ TypeOK
    /\ part = "administrators" => Administrator!TypeOK
    /\ part = "factor" => Factor!TypeOK
    /\ part = "sessions" => Session!TypeOK

\* Updates that do not overlap leave an active administrator, and the wizard
\* makes no more founders than first-run statements ran at once
\* (httpapi/user_handlers.go, store/users.go).
AdministratorsInOrder ==
    part = "administrators" => Administrator!AdministratorLeft /\ Administrator!FoundersBounded

\* A recovery code satisfies one session, however many present it at a time
\* (store/recovery_codes.go).
CodeSingleUse == part = "factor" => Factor!CodeSingleUse

\* However confirmations overlap and fail, the usable codes are of no more sets
\* than were replaced at once, and were shown unless their confirmation failed
\* after the commit; and the secret that is active was proven or issued during
\* a confirmation (auth/service.go, store/recovery_codes.go).
SetsInOrder ==
    part = "factor" => Factor!SetsBounded /\ Factor!ShownOrLost /\ Factor!ProvenOrCrossed

\* A sign-in has at most one live session, and none passes for satisfied whose
\* sign-in proved no second factor (auth/service.go, store/sessions.go).
SessionsInOrder ==
    part = "sessions" => Session!OneLivePerSignIn /\ Session!FactorBeforeAccess

\* A log-out that found its row ended the sign-in for good, and a completed
\* revocation leaves at most what was being created meanwhile
\* (store/sessions.go).
RevocationHolds ==
    part = "sessions" => Session!LogoutEnds /\ Session!OnlyLateOnesSurvive
=============================================================================
