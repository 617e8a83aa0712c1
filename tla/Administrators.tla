---------------------------- MODULE Administrators ----------------------------
(***************************************************************************)
(* Who administers the installation: the first-run wizard, the creation of *)
(* accounts and the update handler, which reads the target, checks that an *)
(* administrator would be left and then writes, each in a statement of its *)
(* own, so that two updates interleave.                                    *)
(* (server/internal/httpapi/user_handlers.go create and update,            *)
(*  server/internal/store/users.go CreateFirstAdmin and CountActiveAdmins) *)
(* The lifting of a lockout block, the third thing an update may do, is in *)
(* Lockout; the sessions a deactivation ends are in Sessions.              *)
(***************************************************************************)
EXTENDS Naturals, FiniteSets

CONSTANTS
    Users,      \* accounts that exist or may be created
    Updates,    \* update requests that may be in flight at once
    Setups,     \* first-run requests that may be in flight at once
    Nobody      \* no account

NobodyAssumption == Nobody \notin Users

VARIABLES
    role,       \* users.role; "none" while there is no such row
    active,     \* users.is_active
    pc,         \* update -> where its handler is
    actor,      \* update -> the administrator it acts for, until it is checked
    target,     \* update -> the account it changes
    seenRole,   \* update -> target.Role as the handler loaded it
    want,       \* update -> what is still to be changed
    setup,      \* setup -> "idle", or "empty": its statement saw no user
    founders,   \* history: how many accounts the wizard created
    overlapped, \* history: two updates were between load and last write
    together    \* history: the most first-run statements that ran at once

users == <<role, active>>
locals == <<pc, actor, target, seenRole, want>>
wizard == <<setup, founders, together>>
vars == <<users, locals, wizard, overlapped>>

\* The roles user and readonly differ in nothing that happens here.
Roles == {"admin", "member"}

\* What an update request may ask: a role, an activation state, or both.
Changes == {c \in [role : Roles \cup {"keep"}, active : {"keep", "yes", "no"}] :
                c.role # "keep" \/ c.active # "keep"}
NoChange == [role |-> "keep", active |-> "keep"]

Init ==
    /\ role = [u \in Users |-> "none"]
    /\ active = [u \in Users |-> FALSE]
    /\ pc = [q \in Updates |-> "idle"]
    /\ actor = [q \in Updates |-> Nobody]
    /\ target = [q \in Updates |-> Nobody]
    /\ seenRole = [q \in Updates |-> "none"]
    /\ want = [q \in Updates |-> NoChange]
    /\ setup = [s \in Setups |-> "idle"]
    /\ founders = 0
    /\ overlapped = FALSE
    /\ together = 0

Exists(u) == role[u] # "none"
ActiveAdmins == {u \in Users : role[u] = "admin" /\ active[u]}

-----------------------------------------------------------------------------
(* The first-run wizard and the creation of accounts. *)

\* INSERT INTO users: the unique address keeps a row from being made twice,
\* and is_active defaults to true.
Insert(u, r) ==
    /\ ~Exists(u)
    /\ role' = [role EXCEPT ![u] = r]
    /\ active' = [active EXCEPT ![u] = TRUE]

\* The first-run statements that saw no user and have not ended.
Running == {s \in Setups : setup[s] = "empty"}

\* One more of them runs.
CountTogether ==
    LET n == Cardinality(Running) + 1
    IN  together' = IF n > together THEN n ELSE together

\* Mutant: the INSERT has no WHERE NOT EXISTS.
SetupStart_Always(s) ==
    /\ setup[s] = "idle"
    /\ setup' = [setup EXCEPT ![s] = "empty"]
    /\ CountTogether
    /\ UNCHANGED <<users, locals, founders, overlapped>>

\* CreateFirstAdmin's statement starts and its snapshot shows no user; one
\* that shows a user inserts nothing, and nothing changes.
SetupStart(s) ==
    /\ setup[s] = "idle"
    /\ \A u \in Users : ~Exists(u)
    /\ setup' = [setup EXCEPT ![s] = "empty"]
    /\ CountTogether
    /\ UNCHANGED <<users, locals, founders, overlapped>>

\* The conditional INSERT of the statement commits.
SetupInsert(s) ==
    /\ setup[s] = "empty"
    /\ \E u \in Users : Insert(u, "admin")
    /\ founders' = founders + 1
    /\ setup' = [setup EXCEPT ![s] = "idle"]
    /\ UNCHANGED <<locals, together, overlapped>>

\* It fails: on the unique address, taken in the meantime, or otherwise.
SetupRefuse(s) ==
    /\ setup[s] = "empty"
    /\ setup' = [setup EXCEPT ![s] = "idle"]
    /\ UNCHANGED <<users, locals, founders, together, overlapped>>

\* The create handler, for an administrator it was authorised for.
Create(u, r) ==
    /\ ActiveAdmins # {}
    /\ Insert(u, r)
    /\ UNCHANGED <<locals, wizard, overlapped>>

-----------------------------------------------------------------------------
(* One update request. *)

\* From the load of the target to the last write that relies on it.
InWindow(q) == pc[q] \in {"role", "writeRole", "active", "writeActive"}

Goto(q, label) == pc' = [pc EXCEPT ![q] = label]

\* The handler returns, whatever it has done so far.
Return(q) ==
    /\ Goto(q, "idle")
    /\ actor' = [actor EXCEPT ![q] = Nobody]
    /\ target' = [target EXCEPT ![q] = Nobody]
    /\ seenRole' = [seenRole EXCEPT ![q] = "none"]
    /\ want' = [want EXCEPT ![q] = NoChange]

\* requireAuth and requirePermission read the actor's row.
Admit(q) ==
    /\ pc[q] = "idle"
    /\ \E a \in ActiveAdmins, c \in Changes :
          /\ actor' = [actor EXCEPT ![q] = a]
          /\ want' = [want EXCEPT ![q] = c]
    /\ Goto(q, "admitted")
    /\ UNCHANGED <<users, target, seenRole, wizard, overlapped>>

\* users.ByID(target); nobody may change their own role or activation.
Load(q) ==
    /\ pc[q] = "admitted"
    /\ \E t \in Users \ {actor[q]} :
          /\ Exists(t)
          /\ target' = [target EXCEPT ![q] = t]
          /\ seenRole' = [seenRole EXCEPT ![q] = role[t]]
    /\ actor' = [actor EXCEPT ![q] = Nobody]
    /\ Goto(q, IF want[q].role # "keep" THEN "role" ELSE "active")
    /\ overlapped' = (overlapped \/ \E o \in Updates \ {q} : InWindow(o))
    /\ UNCHANGED <<users, want, wizard>>

\* Mutant: every active administrator counts, the target included.
LastAdmin_CountsTarget(q) ==
    seenRole[q] = "admin" /\ ActiveAdmins = {}

\* isLastAdmin: the loaded role, and the others as they are counted now.
LastAdmin(q) ==
    seenRole[q] = "admin" /\ ActiveAdmins \ {target[q]} = {}

\* demotesLastAdmin lets the role change through.
CheckRole(q) ==
    /\ pc[q] = "role"
    /\ want[q].role = "admin" \/ ~LastAdmin(q)
    /\ Goto(q, "writeRole")
    /\ UNCHANGED <<users, actor, target, seenRole, want, wizard, overlapped>>

\* UpdateRole.
WriteRole(q) ==
    /\ pc[q] = "writeRole"
    /\ role' = [role EXCEPT ![target[q]] = want[q].role]
    /\ UNCHANGED <<active, wizard, overlapped>>
    /\ IF want[q].active = "keep"
       THEN Return(q)
       ELSE Goto(q, "active") /\ UNCHANGED <<actor, target, seenRole, want>>

\* A deactivation passes isLastAdmin, which still reads the role as loaded;
\* an activation is not checked.
CheckActive(q) ==
    /\ pc[q] = "active"
    /\ want[q].active = "yes" \/ ~LastAdmin(q)
    /\ Goto(q, "writeActive")
    /\ UNCHANGED <<users, actor, target, seenRole, want, wizard, overlapped>>

\* SetActive.
WriteActive(q) ==
    /\ pc[q] = "writeActive"
    /\ active' = [active EXCEPT ![target[q]] = (want[q].active = "yes")]
    /\ Return(q)
    /\ UNCHANGED <<role, wizard, overlapped>>

\* A guard refuses, or any statement of the handler fails (a count that
\* fails refuses): what was written before stays.
Refuse(q) ==
    /\ pc[q] # "idle"
    /\ Return(q)
    /\ UNCHANGED <<users, wizard, overlapped>>

Update(q) ==
    \/ Admit(q) \/ Load(q) \/ CheckRole(q) \/ WriteRole(q)
    \/ CheckActive(q) \/ WriteActive(q) \/ Refuse(q)

Next ==
    \/ \E s \in Setups : SetupStart(s) \/ SetupInsert(s) \/ SetupRefuse(s)
    \/ \E u \in Users, r \in Roles : Create(u, r)
    \/ \E q \in Updates : Update(q)

Spec == Init /\ [][Next]_vars

-----------------------------------------------------------------------------
(* Properties. *)

\* Shape of the state; a handler knows its target exactly while it works on
\* it, and an account that is active exists.
TypeOK ==
    /\ role \in [Users -> Roles \cup {"none"}]
    /\ active \in [Users -> BOOLEAN]
    /\ pc \in [Updates -> {"idle", "admitted", "role", "writeRole", "active",
                           "writeActive"}]
    /\ actor \in [Updates -> Users \cup {Nobody}]
    /\ target \in [Updates -> Users \cup {Nobody}]
    /\ seenRole \in [Updates -> Roles \cup {"none"}]
    /\ want \in [Updates -> Changes \cup {NoChange}]
    /\ setup \in [Setups -> {"idle", "empty"}]
    /\ founders \in Nat
    /\ overlapped \in BOOLEAN /\ together \in Nat
    /\ \A u \in Users : active[u] => Exists(u)
    /\ \A q \in Updates : (target[q] # Nobody) <=> InWindow(q)

\* As long as no two updates overlap between load and last write, an
\* installation that has been set up keeps an active administrator, even
\* though the actor may have been demoted after being authorised.
AdministratorLeft ==
    ~overlapped /\ (\E u \in Users : Exists(u)) => ActiveAdmins # {}

\* The wizard makes no more administrators than first-run statements ran at
\* once, whatever is refused and retried: one, unless they raced, and none more
\* by a request that comes when the first has been made.
FoundersBounded == founders <= together

\* What the update handler's comment says, overlapping updates or not: the
\* last active administrator cannot be removed.
LastAdminStays == (\E u \in Users : Exists(u)) => ActiveAdmins # {}
=============================================================================
