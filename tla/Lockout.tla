------------------------------- MODULE Lockout -------------------------------
(***************************************************************************)
(* The lockout ladder of one local account: sign-in attempts that read the *)
(* row, check the password and only then write the outcome, so several are *)
(* in flight at once; lockouts that escalate, the block after the last of  *)
(* them, a successful sign-in and an administrator's unblock.              *)
(* (server/internal/auth/service.go Authenticate,                          *)
(*  server/internal/store/users.go RecordFailedLogin and its neighbours)   *)
(***************************************************************************)
EXTENDS Integers, Sequences

CONSTANTS
    Attempts,       \* sign-in requests that may be in flight at once
    MaxAttempts,    \* Settings.LoginMaxAttempts
    MaxLockouts,    \* Settings.MaxLockouts
    Ladder,         \* Settings.LockoutDurations, in clock ticks
    DefaultLock,    \* the duration when the ladder is empty
    MaxNow,         \* bound on the clock
    MaxFailures     \* bound on the failures recorded between two clearings

ASSUME LockoutAssumption ==
    /\ MaxAttempts \in Nat \ {0}
    /\ MaxLockouts \in Nat \ {0}
    /\ Ladder \in Seq(Nat \ {0})
    /\ DefaultLock \in Nat \ {0}
    /\ MaxNow \in Nat
    /\ MaxFailures \in Nat

VARIABLES
    failed,         \* users.failed_login_count
    lockouts,       \* users.lockout_count
    lockedUntil,    \* users.locked_until; 0 for NULL
    blocked,        \* users.blocked_at IS NOT NULL
    admin,          \* users.role = 'admin'
    now,            \* the clock
    pc,             \* attempt -> "idle", "verify", "signedIn"
    seen,           \* attempt -> the lockout_count it read
    failures,       \* history: failures recorded since the last clearing
    spared          \* history: a threshold at the limit was met as admin

row == <<failed, lockouts, lockedUntil, blocked>>
history == <<failures, spared>>
vars == <<row, admin, now, pc, seen, history>>

Init ==
    /\ failed = 0
    /\ lockouts = 0
    /\ lockedUntil = 0
    /\ blocked = FALSE
    /\ admin \in BOOLEAN
    /\ now = 1
    /\ pc = [a \in Attempts |-> "idle"]
    /\ seen = [a \in Attempts |-> 0]
    /\ failures = 0
    /\ spared = FALSE

\* User.IsLocked: LockedUntil.After(now).
Locked == lockedUntil > now

\* Settings.lockoutDuration.
LockoutDuration(previous) ==
    IF Ladder = <<>> THEN DefaultLock
    ELSE Ladder[IF previous >= Len(Ladder) THEN Len(Ladder) ELSE previous + 1]

-----------------------------------------------------------------------------
(* One attempt. *)

\* ByEmail and the checks on what it returned: a blocked or locked account
\* is refused here and nothing is written.
Begin(a) ==
    /\ pc[a] = "idle"
    /\ ~blocked /\ ~Locked
    /\ pc' = [pc EXCEPT ![a] = "verify"]
    /\ seen' = [seen EXCEPT ![a] = lockouts]
    /\ UNCHANGED <<row, admin, now, history>>

\* Mutant: the count is not reset when it reaches the threshold.
RecordFailedLogin_NoReset(lockFor) ==
    LET reached == failed + 1 >= MaxAttempts IN
    /\ failed' = failed + 1
    /\ lockouts' = IF reached THEN lockouts + 1 ELSE lockouts
    /\ lockedUntil' = IF reached THEN now + lockFor ELSE lockedUntil
    /\ blocked' = (blocked \/ (reached /\ lockouts + 1 >= MaxLockouts /\ ~admin))
    /\ failures' = failures + 1
    /\ spared' = (spared \/ (reached /\ lockouts + 1 >= MaxLockouts /\ admin))

\* Mutant: the block waits for one lockout more.
RecordFailedLogin_LateBlock(lockFor) ==
    LET reached == failed + 1 >= MaxAttempts IN
    /\ failed' = IF reached THEN 0 ELSE failed + 1
    /\ lockouts' = IF reached THEN lockouts + 1 ELSE lockouts
    /\ lockedUntil' = IF reached THEN now + lockFor ELSE lockedUntil
    /\ blocked' = (blocked \/ (reached /\ lockouts >= MaxLockouts /\ ~admin))
    /\ failures' = failures + 1
    /\ spared' = (spared \/ (reached /\ lockouts + 1 >= MaxLockouts /\ admin))

\* Mutant: an administrator's lockouts are not counted.
RecordFailedLogin_SparesAdmin(lockFor) ==
    LET reached == failed + 1 >= MaxAttempts IN
    /\ failed' = IF reached THEN 0 ELSE failed + 1
    /\ lockouts' = IF reached /\ ~admin THEN lockouts + 1 ELSE lockouts
    /\ lockedUntil' = IF reached THEN now + lockFor ELSE lockedUntil
    /\ blocked' = (blocked \/ (reached /\ lockouts + 1 >= MaxLockouts /\ ~admin))
    /\ failures' = failures + 1
    /\ UNCHANGED spared

\* UserRepo.RecordFailedLogin: one statement over the row as it is now.
RecordFailedLogin(lockFor) ==
    LET reached == failed + 1 >= MaxAttempts IN
    /\ failed' = IF reached THEN 0 ELSE failed + 1
    /\ lockouts' = IF reached THEN lockouts + 1 ELSE lockouts
    /\ lockedUntil' = IF reached THEN now + lockFor ELSE lockedUntil
    /\ blocked' = (blocked \/ (reached /\ lockouts + 1 >= MaxLockouts /\ ~admin))
    /\ failures' = failures + 1
    /\ spared' = (spared \/ (reached /\ lockouts + 1 >= MaxLockouts /\ admin))

\* The password is wrong: the length of the next lockout is computed from
\* the row as Begin read it.
WrongPassword(a) ==
    /\ pc[a] = "verify"
    /\ failures < MaxFailures
    /\ RecordFailedLogin(LockoutDuration(seen[a]))
    /\ pc' = [pc EXCEPT ![a] = "idle"]
    /\ seen' = [seen EXCEPT ![a] = 0]
    /\ UNCHANGED <<admin, now>>

\* The password is right: a session is created; what is left is to record
\* the success, at once or after the second factor.
RightPassword(a) ==
    /\ pc[a] = "verify"
    /\ pc' = [pc EXCEPT ![a] = "signedIn"]
    /\ seen' = [seen EXCEPT ![a] = 0]
    /\ UNCHANGED <<row, admin, now, history>>

\* What a clearing of the counters starts afresh.
ClearHistory ==
    /\ failures' = 0
    /\ spared' = FALSE

\* Mutant: a successful sign-in also lifts the block.
RecordSuccessfulLogin_Unblocks(a) ==
    /\ pc[a] = "signedIn"
    /\ failed' = 0 /\ lockouts' = 0 /\ lockedUntil' = 0 /\ blocked' = FALSE
    /\ ClearHistory
    /\ pc' = [pc EXCEPT ![a] = "idle"]
    /\ UNCHANGED <<admin, now, seen>>

\* UserRepo.RecordSuccessfulLogin: clears the ladder but not the block.
RecordSuccessfulLogin(a) ==
    /\ pc[a] = "signedIn"
    /\ failed' = 0 /\ lockouts' = 0 /\ lockedUntil' = 0
    /\ ClearHistory
    /\ pc' = [pc EXCEPT ![a] = "idle"]
    /\ UNCHANGED <<blocked, admin, now, seen>>

\* The second factor never comes, or a database error ends the request.
Abandon(a) ==
    /\ pc[a] \in {"verify", "signedIn"}
    /\ pc' = [pc EXCEPT ![a] = "idle"]
    /\ seen' = [seen EXCEPT ![a] = 0]
    /\ UNCHANGED <<row, admin, now, history>>

-----------------------------------------------------------------------------
(* The administrator's side, and the clock. *)

Unblock ==
    /\ failed' = 0 /\ lockouts' = 0 /\ lockedUntil' = 0 /\ blocked' = FALSE
    /\ ClearHistory
    /\ UNCHANGED <<admin, now, pc, seen>>

\* UserRepo.UpdateRole, which touches nothing but the role.
UpdateRole ==
    /\ admin' = ~admin
    /\ UNCHANGED <<row, now, pc, seen, history>>

Tick ==
    /\ now < MaxNow
    /\ now' = now + 1
    /\ UNCHANGED <<row, admin, pc, seen, history>>

Attempt(a) == \/ Begin(a) \/ WrongPassword(a) \/ RightPassword(a)
              \/ RecordSuccessfulLogin(a) \/ Abandon(a)

Next == (\E a \in Attempts : Attempt(a)) \/ Unblock \/ UpdateRole \/ Tick

Spec == Init /\ [][Next]_vars

-----------------------------------------------------------------------------
(* Properties. *)

\* Shape of the row; the count stays under the threshold.
TypeOK ==
    /\ failed \in 0 .. MaxAttempts - 1
    /\ lockouts \in Nat /\ lockedUntil \in Nat
    /\ blocked \in BOOLEAN /\ admin \in BOOLEAN
    /\ now \in Nat
    /\ pc \in [Attempts -> {"idle", "verify", "signedIn"}]
    /\ seen \in [Attempts -> Nat]
    /\ failures \in Nat /\ spared \in BOOLEAN

\* No failure is lost to concurrency: however the attempts interleave, every
\* MaxAttempts-th recorded failure is a lockout and the rest are on the
\* counter, so attempts cannot race past the limit.
FailureLedger == failures = lockouts * MaxAttempts + failed

\* An account that has served its last lockout is blocked, unless it was an
\* administrator at that moment; in particular a late success or a racing
\* failure cannot leave it open with the ladder used up.
BlockedAtLimit == lockouts >= MaxLockouts /\ ~spared => blocked

\* A block is lifted only together with the whole ladder, and only while no
\* sign-in is what lifts it: concurrent successes leave it standing.
BlockOutlivesSignIn ==
    [][blocked /\ ~blocked' => lockouts' = 0 /\ failures' = 0 /\ pc' = pc]_vars
=============================================================================
