---------------------------- MODULE SecondFactor ----------------------------
(***************************************************************************)
(* One account's authenticator and recovery codes: enrolment, its          *)
(* confirmation, which replaces the recovery codes in a transaction of its *)
(* own, and sessions that spend a code, with several requests in flight    *)
(* that each work on the user row they were given when they arrived.       *)
(* (server/internal/auth/service.go, server/internal/store/users.go,       *)
(*  server/internal/store/recovery_codes.go)                               *)
(***************************************************************************)
EXTENDS Integers, FiniteSets

CONSTANTS
    Requests,       \* requests that may be in flight at once, each of a session
    CodesPerSet,    \* RecoveryCodeCount
    MaxSecrets,     \* bound on the enrolments
    MaxSets,        \* bound on the sets of recovery codes
    MaxSignIns      \* bound on the sessions that a code satisfies

SecondFactorAssumption ==
    /\ CodesPerSet \in Nat \ {0}
    /\ MaxSecrets \in Nat \ {0}
    /\ MaxSets \in Nat \ {0}
    /\ MaxSignIns \in Nat

Secret == 1 .. MaxSecrets
NoSecret == 0
Code == (1 .. MaxSets) \X (1 .. CodesPerSet)
\* Mutant: one code too many.
CodesOf_Inclusive(set) == {set} \X (0 .. CodesPerSet)

CodesOf(set) == {set} \X (1 .. CodesPerSet)
NoCode == <<0, 0>>

VARIABLES
    secret,         \* users.totp_secret_enc: which enrolment, or NoSecret
    confirmed,      \* users.totp_confirmed_at IS NOT NULL
    codes,          \* user_recovery_codes that are not used
    enrolments,     \* secrets issued so far
    sets,           \* sets of codes generated so far
    pc,             \* request -> where it is
    seen,           \* request -> the secret of the user row it was given
    old,            \* request -> the codes its transaction deletes
    own,            \* request -> the set it generated
    code,           \* request -> the code it matched
    proven,         \* history: secrets a right code was presented for
    shown,          \* history: sets that reached the user
    spent,          \* history: code -> sessions it satisfied
    together,       \* history: the most replacing transactions open at once
    crossed,        \* history: secrets issued while one was being confirmed
    lost            \* history: sets committed by a request that failed after

account == <<secret, confirmed, codes, enrolments, sets>>
locals == <<seen, old, own, code>>
history == <<proven, shown, spent, together, crossed, lost>>
vars == <<account, pc, locals, history>>

Init ==
    /\ secret = NoSecret
    /\ confirmed = FALSE
    /\ codes = {}
    /\ enrolments = 0
    /\ sets = 0
    /\ pc = [r \in Requests |-> "idle"]
    /\ seen = [r \in Requests |-> NoSecret]
    /\ old = [r \in Requests |-> {}]
    /\ own = [r \in Requests |-> 0]
    /\ code = [r \in Requests |-> NoCode]
    /\ proven = {}
    /\ shown = {}
    /\ spent = [c \in Code |-> 0]
    /\ together = 0
    /\ crossed = {}
    /\ lost = {}

Confirming(r) == pc[r] \in {"confirm", "replace", "activate", "respond"}

\* The replacing transactions that are open.
Replacing == {r \in Requests : pc[r] = "replace"}

-----------------------------------------------------------------------------
(* Enrolment and its confirmation. *)

\* Mutant: the previous confirmation stands.
SetTOTPSecret_KeepsConfirmation(s) == secret' = s /\ UNCHANGED confirmed

SetTOTPSecret(s) == secret' = s /\ confirmed' = FALSE

\* EnrollTOTP; the secret goes to the user's authenticator.
Enrol ==
    /\ enrolments < MaxSecrets
    /\ enrolments' = enrolments + 1
    /\ SetTOTPSecret(enrolments')
    /\ crossed' = IF \E q \in Requests : Confirming(q)
                  THEN crossed \cup {enrolments'} ELSE crossed
    /\ UNCHANGED <<codes, sets, pc, locals, proven, shown, spent, together, lost>>

\* ConfirmTOTP is called with a right code for the secret of the user row the
\* middleware loaded.  A wrong code changes nothing.
BeginConfirm(r) ==
    /\ pc[r] = "idle"
    /\ secret # NoSecret
    /\ seen' = [seen EXCEPT ![r] = secret]
    /\ pc' = [pc EXCEPT ![r] = "confirm"]
    /\ proven' = proven \cup {secret}
    /\ UNCHANGED <<account, old, own, code, shown, spent, together, crossed, lost>>

\* Replace, the DELETE: under READ COMMITTED it takes the codes committed by
\* the time it starts.
DeleteOld(r) ==
    /\ pc[r] = "confirm"
    /\ sets < MaxSets
    /\ sets' = sets + 1
    /\ own' = [own EXCEPT ![r] = sets']
    /\ old' = [old EXCEPT ![r] = codes]
    /\ pc' = [pc EXCEPT ![r] = "replace"]
    /\ LET n == Cardinality(Replacing) + 1
       IN  together' = IF n > together THEN n ELSE together
    /\ UNCHANGED <<secret, confirmed, codes, enrolments, seen, code, proven, shown,
                   spent, crossed, lost>>

\* Mutant: Replace inserts without having deleted.
Replaced_Adds(r) == codes \cup CodesOf(own[r])

Replaced(r) == (codes \ old[r]) \cup CodesOf(own[r])

\* Replace, the commit.
CommitCodes(r) ==
    /\ pc[r] = "replace"
    /\ codes' = Replaced(r)
    /\ old' = [old EXCEPT ![r] = {}]
    /\ pc' = [pc EXCEPT ![r] = "activate"]
    /\ UNCHANGED <<secret, confirmed, enrolments, sets, seen, own, code, history>>

\* UserRepo.ConfirmTOTP: whatever secret the row has by now.
Activate(r) ==
    /\ pc[r] = "activate"
    /\ secret # NoSecret
    /\ confirmed' = TRUE
    /\ pc' = [pc EXCEPT ![r] = "respond"]
    /\ UNCHANGED <<secret, codes, enrolments, sets, locals, history>>

Reset(r) ==
    /\ pc' = [pc EXCEPT ![r] = "idle"]
    /\ seen' = [seen EXCEPT ![r] = NoSecret]
    /\ own' = [own EXCEPT ![r] = 0]
    /\ old' = [old EXCEPT ![r] = {}]
    /\ code' = [code EXCEPT ![r] = NoCode]

\* The session is marked and the codes are shown, once.
RespondConfirmed(r) ==
    /\ pc[r] = "respond"
    /\ shown' = shown \cup {own[r]}
    /\ Reset(r)
    /\ UNCHANGED <<account, proven, spent, together, crossed, lost>>

-----------------------------------------------------------------------------
(* Signing in with a recovery code. *)

\* UnusedHashes and MatchRecoveryCode, for a session that owes a factor.
MatchCode(r, c) ==
    /\ pc[r] = "idle"
    /\ secret # NoSecret /\ confirmed
    /\ c \in codes /\ c[1] \in shown
    /\ code' = [code EXCEPT ![r] = c]
    /\ pc' = [pc EXCEPT ![r] = "consume"]
    /\ UNCHANGED <<account, seen, old, own, history>>

\* Mutant: the guard on used_at is dropped from the update.
StillUnused_Unasked(c) == TRUE

StillUnused(c) == c \in codes

\* Consume waits for a transaction that is deleting the code, and finds no
\* row when the code is gone or used; then MarkMFASatisfied.
ConsumeCode(r) ==
    /\ pc[r] = "consume"
    /\ \A q \in Requests : code[r] \notin old[q]
    /\ IF StillUnused(code[r])
       THEN /\ spent[code[r]] < MaxSignIns
            /\ codes' = codes \ {code[r]}
            /\ spent' = [spent EXCEPT ![code[r]] = @ + 1]
       ELSE UNCHANGED <<codes, spent>>
    /\ Reset(r)
    /\ UNCHANGED <<secret, confirmed, enrolments, sets, proven, shown, together,
                   crossed, lost>>

\* The set this request generated is in the table and not yet shown.
Stored(r) == pc[r] \in {"activate", "respond"}

\* The request's context ends or a statement fails: what was committed stays,
\* an open transaction rolls back, and the user sees an error.
Fail(r) ==
    /\ pc[r] # "idle"
    /\ lost' = IF Stored(r) THEN lost \cup {own[r]} ELSE lost
    /\ Reset(r)
    /\ UNCHANGED <<account, proven, shown, spent, together, crossed>>

Confirm(r) ==
    BeginConfirm(r) \/ DeleteOld(r) \/ CommitCodes(r) \/ Activate(r) \/ RespondConfirmed(r)

Next ==
    \/ Enrol
    \/ \E r \in Requests :
        \/ Confirm(r)
        \/ \E c \in Code : MatchCode(r, c)
        \/ ConsumeCode(r)
        \/ Fail(r)

Spec == Init /\ [][Next]_vars

-----------------------------------------------------------------------------
(* Properties. *)

\* Every variable has its type.
TypeOK ==
    /\ secret \in Secret \cup {NoSecret}
    /\ confirmed \in BOOLEAN
    /\ codes \subseteq Code
    /\ enrolments \in 0 .. MaxSecrets
    /\ sets \in 0 .. MaxSets
    /\ pc \in [Requests -> {"idle", "confirm", "replace", "activate", "respond", "consume"}]
    /\ seen \in [Requests -> Secret \cup {NoSecret}]
    /\ old \in [Requests -> SUBSET Code]
    /\ own \in [Requests -> 0 .. MaxSets]
    /\ code \in [Requests -> Code \cup {NoCode}]
    /\ proven \subseteq Secret
    /\ shown \subseteq 1 .. MaxSets
    /\ spent \in [Code -> 0 .. MaxSignIns]
    /\ together \in Nat
    /\ crossed \subseteq Secret
    /\ lost \subseteq 1 .. MaxSets

\* A recovery code satisfies one session, however many present it at once and
\* whatever confirmation replaces the codes meanwhile.
CodeSingleUse == \A c \in Code : spent[c] <= 1

\* The sets of which codes can be used.
LiveSets == {c[1] : c \in codes}

\* Codes that can be used are of no more sets than were being replaced at once,
\* however many replacements there have been and failed half way: of one set
\* if the transactions came one after the other, although a DELETE misses what
\* another transaction commits after it.
SetsBounded == Cardinality(LiveSets) <= together

\* The second factor counts as active only for a secret a right code was given
\* for, or for one that was issued while another was being confirmed: the
\* confirmation marks whatever secret the row has by then.
ProvenOrCrossed == confirmed => secret \in proven \cup crossed

\* Codes that can be used reached the user or are about to, unless their
\* confirmation failed after it had replaced the codes.
ShownOrLost ==
    \A n \in LiveSets :
        n \in shown \cup lost \/ \E r \in Requests : Stored(r) /\ own[r] = n
=============================================================================
