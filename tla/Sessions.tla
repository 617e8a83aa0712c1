------------------------------- MODULE Sessions -------------------------------
(***************************************************************************)
(* The sessions of one account.  A sign-in reads the account before it     *)
(* creates the row; a refresh revokes the row and inserts its successor in *)
(* one transaction, which holds the row's lock in between; log-out, the    *)
(* second factor, "sign out everywhere else", a password change and a      *)
(* deactivation resolve first and write later.                             *)
(* (server/internal/auth/service.go, server/internal/store/sessions.go,    *)
(*  the handlers in server/internal/httpapi)                               *)
(***************************************************************************)
EXTENDS Naturals, FiniteSets

CONSTANTS
    Requests,       \* requests in flight at once
    MaxSessions,    \* bound on the rows ever created
    MaxEra          \* bound on password changes and deactivations

SessionsAssumption ==
    MaxSessions \in Nat \ {0} /\ MaxEra \in Nat

VARIABLES
    secondFactor,   \* the account owes a second factor; fixed
    active,         \* users.is_active
    era,            \* password changes and deactivations written so far
    created,        \* rows created so far
    rows,           \* row -> its columns
    lock,           \* row -> the rotation holding its lock, or 0
    pc, sid,        \* request -> where it is, and the row it works on
    eraSeen,        \* request -> the era of the account row it read or wrote
    todo,           \* request -> the rows its revocation statement sees
    late,           \* request -> it overlaps a revocation that looked before
    factored,       \* history: lineages that proved a second factor
    loggedOut,      \* history: lineages whose log-out ended a row
    settled         \* history: the last era whose revocation completed

account == <<secondFactor, active, era>>
table == <<created, rows, lock>>
locals == <<pc, sid, eraSeen, todo, late>>
history == <<factored, loggedOut, settled>>
vars == <<account, table, locals, history>>

Sids == 1 .. MaxSessions
Absent == [status |-> "absent", mfa |-> FALSE, line |-> 0, era |-> 0,
           late |-> FALSE]

\* A row revoked or expired: nobody reads what else it holds.
Dead(row) == [row EXCEPT !.status = "dead", !.mfa = FALSE, !.era = 0,
                         !.late = FALSE]

Init ==
    /\ secondFactor \in BOOLEAN
    /\ active = TRUE
    /\ era = 0
    /\ created = 0
    /\ rows = [s \in Sids |-> Absent]
    /\ lock = [s \in Sids |-> {}]
    /\ pc = [r \in Requests |-> "idle"]
    /\ sid = [r \in Requests |-> 0]
    /\ eraSeen = [r \in Requests |-> 0]
    /\ todo = [r \in Requests |-> {}]
    /\ late = [r \in Requests |-> FALSE]
    /\ factored = {} /\ loggedOut = {}
    /\ settled = 0

\* Session.IsValid: neither revoked nor expired.
Live(s) == rows[s].status = "live"
Unlocked(s) == lock[s] = {}

\* Some revocation has taken its snapshot and not committed.
Revoking == \E q \in Requests : pc[q] = "revoking"

Larger(i, j) == IF i > j THEN i ELSE j

\* The request moves on with the row s and an account read in era e.
Go(r, label, s, e) ==
    /\ pc' = [pc EXCEPT ![r] = label]
    /\ sid' = [sid EXCEPT ![r] = s]
    /\ eraSeen' = [eraSeen EXCEPT ![r] = e]

\* The handler returns.
Done(r) ==
    /\ Go(r, "idle", 0, 0)
    /\ todo' = [todo EXCEPT ![r] = {}]
    /\ late' = [late EXCEPT ![r] = FALSE]

-----------------------------------------------------------------------------
(* Sign-in. *)

\* Authenticate reads an active account and verifies its password.
LoginRead(r) ==
    /\ pc[r] = "idle" /\ active
    /\ Go(r, "create", 0, era)
    /\ UNCHANGED <<account, table, todo, late, history>>

\* SessionRepo.Create: satisfied at once only where no second factor is owed.
LoginCreate(r) ==
    /\ pc[r] = "create" /\ created < MaxSessions
    /\ created' = created + 1
    /\ rows' = [rows EXCEPT ![created + 1] =
                  [status |-> "live", mfa |-> ~secondFactor,
                   line |-> created + 1, era |-> eraSeen[r], late |-> late[r]]]
    /\ Done(r)
    /\ UNCHANGED <<account, lock, history>>

-----------------------------------------------------------------------------
(* Refresh: SessionRepo.Rotate. *)

\* Mutant: a row that is revoked already is rotated once more.
RotateUpdate_Revoked(r) ==
    /\ pc[r] = "idle"
    /\ \E s \in 1 .. created :
          /\ Unlocked(s)
          /\ lock' = [lock EXCEPT ![s] = {r}]
          /\ Go(r, "rotate", s, 0)
    /\ late' = [late EXCEPT ![r] = Revoking]
    /\ UNCHANGED <<account, created, rows, todo, history>>

\* The conditional UPDATE finds the row neither revoked nor expired and takes
\* its lock; until the commit the others read it unrevoked.
RotateUpdate(r) ==
    /\ pc[r] = "idle"
    /\ \E s \in Sids :
          /\ Live(s) /\ Unlocked(s)
          /\ lock' = [lock EXCEPT ![s] = {r}]
          /\ Go(r, "rotate", s, 0)
    /\ late' = [late EXCEPT ![r] = Revoking]
    /\ UNCHANGED <<account, created, rows, todo, history>>

\* Mutant: the successor counts as satisfied.
RotateCommit_Satisfies(r) ==
    LET s == sid[r] IN
    /\ pc[r] = "rotate" /\ created < MaxSessions
    /\ created' = created + 1
    /\ rows' = [rows EXCEPT
                  ![s] = Dead(@),
                  ![created + 1] = [rows[s] EXCEPT !.status = "live", !.mfa = TRUE,
                                                   !.late = @ \/ late[r]]]
    /\ lock' = [lock EXCEPT ![s] = {}]
    /\ Done(r)
    /\ UNCHANGED <<account, history>>

\* The successor, with what the UPDATE returned of the row, and the commit.
RotateCommit(r) ==
    LET s == sid[r] IN
    /\ pc[r] = "rotate" /\ created < MaxSessions
    /\ created' = created + 1
    /\ rows' = [rows EXCEPT
                  ![s] = Dead(@),
                  ![created + 1] = [rows[s] EXCEPT !.status = "live",
                                                   !.late = @ \/ late[r]]]
    /\ lock' = [lock EXCEPT ![s] = {}]
    /\ Done(r)
    /\ UNCHANGED <<account, history>>

-----------------------------------------------------------------------------
(* What a resolved session may do. *)

\* Service.Resolve: a valid row of an active account; requireAuth also wants
\* the second factor.
Resolves(s) == Live(s) /\ active /\ rows[s].mfa

LogoutResolve(r) ==
    /\ pc[r] = "idle"
    /\ \E s \in Sids : Resolves(s) /\ Go(r, "logout", s, 0)
    /\ UNCHANGED <<account, table, todo, late, history>>

\* Mutant: the row is revoked without waiting for its lock.
LogoutRevoke_NoWait(r) ==
    LET s == sid[r] IN
    /\ pc[r] = "logout"
    /\ rows' = [rows EXCEPT ![s] = Dead(@)]
    /\ loggedOut' = IF Live(s)
                    THEN loggedOut \cup {rows[s].line} ELSE loggedOut
    /\ Done(r)
    /\ UNCHANGED <<account, created, lock, factored, settled>>

\* SessionRepo.Revoke waits for the row; a row that is already revoked is
\* not found, which the log-out takes for success.
LogoutRevoke(r) ==
    LET s == sid[r] IN
    /\ pc[r] = "logout" /\ Unlocked(s)
    /\ rows' = [rows EXCEPT ![s] = Dead(@)]
    /\ loggedOut' = IF Live(s)
                    THEN loggedOut \cup {rows[s].line} ELSE loggedOut
    /\ Done(r)
    /\ UNCHANGED <<account, created, lock, factored, settled>>

\* requirePendingMFA admits the session and the code it sends is right.
FactorVerify(r) ==
    /\ pc[r] = "idle" /\ active
    /\ \E s \in Sids :
          /\ Live(s) /\ ~rows[s].mfa
          /\ Go(r, "satisfy", s, 0)
          /\ factored' = factored \cup {rows[s].line}
    /\ UNCHANGED <<account, table, todo, late, loggedOut, settled>>

\* MarkMFASatisfied writes the row it resolved, which is lost on a dead one.
FactorMark(r) ==
    /\ pc[r] = "satisfy" /\ Unlocked(sid[r])
    /\ rows' = [rows EXCEPT ![sid[r]].mfa = Live(sid[r])]
    /\ Done(r)
    /\ UNCHANGED <<account, created, lock, history>>

\* revokeOtherSessions: nothing is written before the revocation.
RevokeOthersResolve(r) ==
    /\ pc[r] = "idle"
    /\ \E s \in Sids : Resolves(s) /\ Go(r, "revoke", s, 0)
    /\ UNCHANGED <<account, table, todo, late, history>>

\* ChangePassword verifies the password against the account as resolved.
ChangeResolve(r) ==
    /\ pc[r] = "idle"
    /\ \E s \in Sids : Resolves(s) /\ Go(r, "change", s, 0)
    /\ UNCHANGED <<account, table, todo, late, history>>

\* UpdatePassword.
ChangeWrite(r) ==
    /\ pc[r] = "change" /\ era < MaxEra
    /\ era' = era + 1
    /\ Go(r, "revoke", sid[r], era + 1)
    /\ UNCHANGED <<secondFactor, active, table, todo, late, history>>

\* The update handler's SetActive(false), which precedes its revocation.
Deactivate(r) ==
    /\ pc[r] = "idle" /\ era < MaxEra
    /\ active' = FALSE
    /\ era' = era + 1
    /\ Go(r, "revoke", 0, era + 1)
    /\ UNCHANGED <<secondFactor, table, todo, late, history>>

Reactivate ==
    /\ ~active /\ active' = TRUE
    /\ UNCHANGED <<secondFactor, era, table, locals, history>>

-----------------------------------------------------------------------------
(* RevokeAllForUser: one UPDATE over the rows its snapshot shows. *)

\* The statement's snapshot; the sign-ins and rotations in flight now are
\* the ones whose rows it cannot see.
RevokeSnapshot(r) ==
    /\ pc[r] = "revoke"
    /\ todo' = [todo EXCEPT ![r] = {s \in Sids : Live(s)} \ {sid[r]}]
    /\ late' = [q \in Requests |-> late[q] \/ pc[q] \in {"create", "rotate"}]
    /\ Go(r, "revoking", sid[r], eraSeen[r])
    /\ UNCHANGED <<account, table, history>>

\* Mutant: rows that owe a second factor are left out.
RevokeCommit_SatisfiedOnly(r) ==
    /\ pc[r] = "revoking" /\ \A s \in todo[r] : Unlocked(s)
    /\ rows' = [s \in Sids |->
                  IF s \in todo[r] /\ rows[s].mfa
                  THEN Dead(rows[s])
                  ELSE IF s = sid[r] /\ Live(s)
                       THEN [rows[s] EXCEPT !.era = Larger(@, eraSeen[r])]
                       ELSE rows[s]]
    /\ settled' = Larger(settled, eraSeen[r])
    /\ Done(r)
    /\ UNCHANGED <<account, created, lock, factored, loggedOut>>

\* It waits for the rotations that hold a lock and commits; the row it
\* spares has now proved the password it set.
RevokeCommit(r) ==
    /\ pc[r] = "revoking" /\ \A s \in todo[r] : Unlocked(s)
    /\ rows' = [s \in Sids |->
                  IF s \in todo[r]
                  THEN Dead(rows[s])
                  ELSE IF s = sid[r] /\ Live(s)
                       THEN [rows[s] EXCEPT !.era = Larger(@, eraSeen[r])]
                       ELSE rows[s]]
    /\ settled' = Larger(settled, eraSeen[r])
    /\ Done(r)
    /\ UNCHANGED <<account, created, lock, factored, loggedOut>>

-----------------------------------------------------------------------------
(* Failure and time. *)

\* A wrong credential, a database error or a lost client ends the request; a
\* rotation rolls back, what other statements committed stays.
Fail(r) ==
    /\ pc[r] # "idle"
    /\ lock' = [s \in Sids |-> lock[s] \ {r}]
    /\ Done(r)
    /\ UNCHANGED <<account, created, rows, history>>

\* expires_at passes.
Expire(s) ==
    /\ Live(s) /\ Unlocked(s)
    /\ rows' = [rows EXCEPT ![s] = Dead(@)]
    /\ UNCHANGED <<account, created, lock, locals, history>>

Request(r) ==
    \/ LoginRead(r) \/ LoginCreate(r) \/ RotateUpdate(r) \/ RotateCommit(r)
    \/ LogoutResolve(r) \/ LogoutRevoke(r) \/ FactorVerify(r) \/ FactorMark(r)
    \/ RevokeOthersResolve(r) \/ ChangeResolve(r) \/ ChangeWrite(r)
    \/ Deactivate(r) \/ RevokeSnapshot(r) \/ RevokeCommit(r) \/ Fail(r)

Next ==
    \/ \E r \in Requests : Request(r)
    \/ \E s \in Sids : Expire(s)
    \/ Reactivate

Spec == Init /\ [][Next]_vars

-----------------------------------------------------------------------------
(* Properties. *)

\* Shape of the state: a row exists exactly once it is created, and a lock is
\* held by the rotation that works on the row.
TypeOK ==
    /\ secondFactor \in BOOLEAN /\ active \in BOOLEAN
    /\ era \in 0 .. MaxEra /\ created \in 0 .. MaxSessions
    /\ rows \in [Sids -> [status : {"absent", "live", "dead"},
                          mfa : BOOLEAN, line : 0 .. MaxSessions,
                          era : 0 .. MaxEra, late : BOOLEAN]]
    /\ pc \in [Requests -> {"idle", "create", "rotate", "logout", "satisfy",
                            "change", "revoke", "revoking"}]
    /\ sid \in [Requests -> 0 .. MaxSessions]
    /\ eraSeen \in [Requests -> 0 .. MaxEra]
    /\ todo \in [Requests -> SUBSET Sids] /\ late \in [Requests -> BOOLEAN]
    /\ factored \subseteq Sids
    /\ loggedOut \subseteq Sids
    /\ settled \in 0 .. MaxEra
    /\ \A s \in Sids : rows[s].status = "absent" <=> s > created
    /\ \A s \in Sids :
          lock[s] = {r \in Requests : pc[r] = "rotate" /\ sid[r] = s}

\* However often a token is presented, a sign-in has at most one live
\* session: rotation never leaves two side by side.
OneLivePerSignIn ==
    \A s, t \in Sids : Live(s) /\ Live(t) /\ rows[s].line = rows[t].line => s = t

\* Where a second factor is owed, no session passes for satisfied, rotated or
\* not, unless its sign-in proved one.
FactorBeforeAccess ==
    secondFactor =>
        \A s \in Sids : Live(s) /\ rows[s].mfa => rows[s].line \in factored

\* A log-out that found its row ended the sign-in for good, a rotation that
\* was under way included.
LogoutEnds == \A s \in Sids : Live(s) => rows[s].line \notin loggedOut

\* Once the revocation of a password change or a deactivation is complete,
\* what is left of older sign-ins is at most what was being created while it
\* ran, also after a reactivation.
OnlyLateOnesSurvive ==
    \A s \in Sids : Live(s) /\ rows[s].era < settled => rows[s].late
=============================================================================
