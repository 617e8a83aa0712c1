------------------------- MODULE AdministratorsProofs -------------------------
(***************************************************************************)
(* Proof that an administrator is left, for every number of accounts,      *)
(* update requests and first-run requests, as long as no two updates       *)
(* overlap between load and last write.  What carries it is what the one   *)
(* request in that window knows (Known): its copy of the role is that of   *)
(* the row until it writes it, and a check it passed still holds when it   *)
(* writes.  And proof that the wizard makes no more founders than          *)
(* first-run statements ran at once: a row stays once there is one, so a   *)
(* later statement sees it, and those that still run come on top of the    *)
(* founders there are (Founding).                                          *)
(***************************************************************************)
EXTENDS Administrators, FiniteSetTheorems, TLAPS

\* What a request in the window holds: an account, and a role to write.
Held(q) ==
    /\ role[target[q]] # "none"
    /\ pc[q] \in {"role", "writeRole"} => want[q].role # "keep"

Holding == \A q \in Updates : InWindow(q) => Held(q)

\* What a request that is alone in the window may rely on.
Known(q) ==
    /\ pc[q] \in {"role", "writeRole"} => seenRole[q] = role[target[q]]
    /\ pc[q] = "writeRole" =>
          want[q].role = "admin" \/ ActiveAdmins \ {target[q]} # {}
    /\ pc[q] = "active" =>
          seenRole[q] = "admin" \/ ActiveAdmins \ {target[q]} # {}
    /\ pc[q] = "writeActive" =>
          want[q].active = "yes" \/ ActiveAdmins \ {target[q]} # {}

\* It is alone in the window.
Alone ==
    ~overlapped =>
        \A q \in Updates : InWindow(q) =>
            Known(q) /\ \A o \in Updates : InWindow(o) => o = q

IInv == TypeOK /\ AdministratorLeft /\ Holding /\ Alone

\* Where there is a founder there is a row; founders, and the statements that
\* may still make one, were running at once before the first of them was made.
Founding ==
    /\ founders # 0 => \E u \in Users : Exists(u)
    /\ IsFiniteSet(Running)
    /\ founders + Cardinality(Running) <= together

-----------------------------------------------------------------------------
\* No account exists when the model begins.
LEMMA InitIInv ==
    ASSUME NobodyAssumption
    PROVE  Init => IInv
<1> SUFFICES ASSUME Init PROVE IInv
    OBVIOUS
<1>1. \A q \in Updates : ~InWindow(q)
    BY DEF Init, InWindow
<1>2. TypeOK
    BY <1>1 DEF Init, TypeOK, Roles, NoChange, Exists
<1>3. AdministratorLeft
    BY DEF Init, AdministratorLeft, Exists
<1>4. Holding /\ Alone
    BY <1>1 DEF Holding, Alone
<1> QED BY <1>2, <1>3, <1>4 DEF IInv

\* A new account takes nothing away, and no request works on it.
LEMMA InsertFacts ==
    ASSUME TypeOK, NEW u \in Users, NEW r \in Roles, Insert(u, r)
    PROVE  /\ role' \in [Users -> Roles \cup {"none"}]
           /\ active' \in [Users -> BOOLEAN]
           /\ \A v \in Users : active'[v] => role'[v] # "none"
           /\ ActiveAdmins \subseteq ActiveAdmins'
           /\ r = "admin" => u \in ActiveAdmins'
           /\ \A v \in Users : role[v] # "none" => role'[v] = role[v]
<1>1. r \in Roles \cup {"none"} /\ r # "none"
    BY DEF Roles
<1>2. role' = [role EXCEPT ![u] = r] /\ active' = [active EXCEPT ![u] = TRUE]
      /\ role[u] = "none"
    BY DEF Insert, Exists
<1>3. role \in [Users -> Roles \cup {"none"}] /\ active \in [Users -> BOOLEAN]
    BY DEF TypeOK
<1>4. \A v \in Users : active[v] => role[v] # "none"
    BY DEF TypeOK, Exists
<1>5. role' \in [Users -> Roles \cup {"none"}] /\ active' \in [Users -> BOOLEAN]
    BY <1>1, <1>2, <1>3
<1>6. \A v \in Users : v # u => role'[v] = role[v] /\ active'[v] = active[v]
    BY <1>2, <1>3
<1>7. role'[u] = r /\ active'[u]
    BY <1>2, <1>3
<1>8. \A v \in Users : active'[v] => role'[v] # "none"
    BY <1>1, <1>4, <1>6, <1>7
<1>9. ActiveAdmins \subseteq ActiveAdmins'
    BY <1>2, <1>6 DEF ActiveAdmins
<1>10. r = "admin" => u \in ActiveAdmins'
    BY <1>7 DEF ActiveAdmins
<1>11. \A v \in Users : role[v] # "none" => role'[v] = role[v]
    BY <1>2, <1>6
<1> QED BY <1>5, <1>8, <1>9, <1>10, <1>11

\* What a request holds and knows survives when administrators are added
\* and no row it works on changes.
LEMMA KnownSurvives ==
    ASSUME NEW q \in Updates, Held(q), TypeOK, NobodyAssumption, InWindow(q),
           ActiveAdmins \subseteq ActiveAdmins',
           \A v \in Users : role[v] # "none" => role'[v] = role[v],
           UNCHANGED locals
    PROVE  Held(q)' /\ (Known(q) => Known(q)')
<1>1. target[q] \in Users
    BY DEF TypeOK
<1>2. role'[target[q]] = role[target[q]] /\ role[target[q]] # "none"
    BY <1>1 DEF Held
<1>3. ActiveAdmins \ {target[q]} # {} => ActiveAdmins' \ {target[q]} # {}
    OBVIOUS
<1>4. Held(q)'
    BY <1>2 DEF Held, locals
<1>5. Known(q) => Known(q)'
    BY <1>2, <1>3 DEF Known, locals
<1> QED BY <1>4, <1>5

\* Steps that add an account.
LEMMA InsertIInv ==
    ASSUME IInv, NobodyAssumption, NEW u \in Users, NEW r \in Roles, Insert(u, r),
           UNCHANGED <<locals, overlapped>>,
           setup' \in [Setups -> {"idle", "empty"}],
           founders' \in Nat, together' \in Nat,
           r = "admin" \/ ActiveAdmins # {}
    PROVE  IInv'
<1>1. TypeOK /\ Holding /\ Alone
    BY DEF IInv
<1>2. TypeOK'
    <2>1. \A v \in Users : active'[v] => Exists(v)'
        BY <1>1, InsertFacts DEF Exists
    <2> QED BY <1>1, <2>1, InsertFacts DEF TypeOK, locals, InWindow
<1>3. ActiveAdmins' # {}
    BY <1>1, InsertFacts
<1>4. AdministratorLeft'
    BY <1>3 DEF AdministratorLeft
<1>5. \A q \in Updates : InWindow(q)' <=> InWindow(q)
    BY DEF InWindow, locals
<1>6. ASSUME NEW q \in Updates, InWindow(q) PROVE Held(q)' /\ (Known(q) => Known(q)')
    BY <1>1, <1>6, InsertFacts, KnownSurvives DEF Holding
<1>7. Holding' /\ Alone'
    BY <1>1, <1>5, <1>6 DEF Holding, Alone
<1> QED BY <1>2, <1>4, <1>7 DEF IInv

\* Steps that change neither the accounts nor what a request holds.
LEMMA QuietIInv ==
    ASSUME IInv, UNCHANGED <<users, locals, overlapped>>,
           setup' \in [Setups -> {"idle", "empty"}],
           founders' = founders, together' \in Nat
    PROVE  IInv'
<1>1. TypeOK /\ AdministratorLeft /\ Holding /\ Alone
    BY DEF IInv
<1>2. TypeOK'
    BY <1>1 DEF TypeOK, users, locals, Exists, InWindow
<1>3. AdministratorLeft'
    BY <1>1 DEF AdministratorLeft, users, Exists, ActiveAdmins
<1>4. Alone'
    BY <1>1 DEF Alone, Known, InWindow, ActiveAdmins, users, locals
<1>5. Holding'
    BY <1>1 DEF Holding, Held, InWindow, users, locals
<1> QED BY <1>2, <1>3, <1>4, <1>5 DEF IInv

-----------------------------------------------------------------------------
(* The steps of one update. *)

\* The labels of the window.
Window == {"role", "writeRole", "active", "writeActive"}

\* A step of q that is in the window afterwards: it is alone there, and what
\* it knows is right.
LEMMA InsideIInv ==
    ASSUME NEW q \in Updates, NEW label \in Window, TypeOK, Goto(q, label),
           TypeOK', AdministratorLeft', Holding',
           ~overlapped' => \A o \in Updates \ {q} : ~InWindow(o),
           ~overlapped' => Known(q)'
    PROVE  IInv'
<1>1. \A o \in Updates : o # q => pc'[o] = pc[o]
    BY DEF Goto, TypeOK
<1>2. Alone'
    BY <1>1 DEF Alone, InWindow
<1> QED BY <1>2 DEF IInv

\* A step of q that ends its request.
LEMMA ReturnIInv ==
    ASSUME NEW q \in Updates, IInv, NobodyAssumption, Return(q),
           UNCHANGED <<wizard, overlapped>>,
           role' \in [Users -> Roles \cup {"none"}],
           active' \in [Users -> BOOLEAN],
           \A u \in Users : active'[u] => role'[u] # "none",
           \A u \in Users : role[u] # "none" => role'[u] # "none",
           AdministratorLeft',
           InWindow(q) \/ UNCHANGED users
    PROVE  IInv'
<1>1. TypeOK /\ Holding /\ Alone
    BY DEF IInv
<1>2. /\ pc' = [pc EXCEPT ![q] = "idle"] /\ target' = [target EXCEPT ![q] = Nobody]
      /\ actor' = [actor EXCEPT ![q] = Nobody]
      /\ seenRole' = [seenRole EXCEPT ![q] = "none"]
      /\ want' = [want EXCEPT ![q] = NoChange]
    BY DEF Return, Goto
<1>3. \A o \in Updates : o # q => /\ pc'[o] = pc[o] /\ target'[o] = target[o]
                                  /\ seenRole'[o] = seenRole[o] /\ want'[o] = want[o]
    BY <1>1, <1>2 DEF TypeOK
<1>4. pc'[q] = "idle" /\ target'[q] = Nobody
    BY <1>1, <1>2 DEF TypeOK
<1>5. TypeOK'
    <2>1. \A o \in Updates : (target'[o] # Nobody) <=> InWindow(o)'
        BY <1>1, <1>3, <1>4 DEF TypeOK, InWindow
    <2>2. pc' \in [Updates -> {"idle", "admitted", "role", "writeRole", "active",
                               "writeActive"}]
        BY <1>1, <1>2 DEF TypeOK
    <2>3. actor' \in [Updates -> Users \cup {Nobody}]
          /\ target' \in [Updates -> Users \cup {Nobody}]
        BY <1>1, <1>2 DEF TypeOK
    <2>4. seenRole' \in [Updates -> Roles \cup {"none"}]
          /\ want' \in [Updates -> Changes \cup {NoChange}]
        BY <1>1, <1>2 DEF TypeOK
    <2>5. \A u \in Users : active'[u] => Exists(u)'
        BY DEF Exists
    <2> QED BY <1>1, <2>1, <2>2, <2>3, <2>4, <2>5 DEF TypeOK, wizard
<1>6. Alone'
    <2> SUFFICES ASSUME NEW o \in Updates, ~overlapped, InWindow(o)'
                 PROVE  Known(o)' /\ \A p \in Updates : InWindow(p)' => p = o
        BY DEF Alone
    <2>1. o # q /\ InWindow(o)
        BY <1>3, <1>4 DEF InWindow
    <2>2. ~InWindow(q)
        BY <1>1, <2>1 DEF Alone
    <2>3. UNCHANGED users
        BY <2>2
    <2>4. Known(o)'
        BY <1>1, <1>3, <2>1, <2>3 DEF Alone, Known, users, ActiveAdmins
    <2>5. \A p \in Updates : InWindow(p)' => p = o
        BY <1>1, <1>3, <1>4, <2>1 DEF Alone, InWindow
    <2> QED BY <2>4, <2>5
<1>7. Holding'
    <2> SUFFICES ASSUME NEW o \in Updates, InWindow(o)' PROVE Held(o)'
        BY DEF Holding
    <2>1. o # q /\ InWindow(o)
        BY <1>3, <1>4 DEF InWindow
    <2>2. target[o] \in Users
        BY <1>1, <2>1 DEF TypeOK
    <2> QED BY <1>1, <1>3, <2>1, <2>2 DEF Holding, Held
<1> QED BY <1>5, <1>6, <1>7 DEF IInv

\* A request is admitted for an administrator who is active then.
LEMMA AdmitIInv ==
    ASSUME NEW q \in Updates, IInv, NobodyAssumption, Admit(q)
    PROVE  IInv'
<1>1. TypeOK /\ AdministratorLeft /\ Holding /\ Alone
    BY DEF IInv
<1>2. PICK a \in ActiveAdmins, c \in Changes :
          actor' = [actor EXCEPT ![q] = a] /\ want' = [want EXCEPT ![q] = c]
    BY DEF Admit
<1>3. /\ pc[q] = "idle" /\ pc' = [pc EXCEPT ![q] = "admitted"]
      /\ UNCHANGED <<users, target, seenRole, wizard, overlapped>>
    BY DEF Admit, Goto
<1>4. \A o \in Updates : o # q => pc'[o] = pc[o] /\ want'[o] = want[o]
    BY <1>1, <1>2, <1>3 DEF TypeOK
<1>5. pc'[q] = "admitted"
    BY <1>1, <1>3 DEF TypeOK
<1>6. \A o \in Updates : InWindow(o)' <=> InWindow(o)
    BY <1>3, <1>4, <1>5 DEF InWindow
<1>7. TypeOK'
    <2>1. a \in Users
        BY DEF ActiveAdmins
    <2>2. actor' \in [Updates -> Users \cup {Nobody}]
          /\ want' \in [Updates -> Changes \cup {NoChange}]
        BY <1>1, <1>2, <2>1 DEF TypeOK
    <2>3. pc' \in [Updates -> {"idle", "admitted", "role", "writeRole", "active",
                               "writeActive"}]
        BY <1>1, <1>3 DEF TypeOK
    <2> QED BY <1>1, <1>3, <1>6, <2>2, <2>3 DEF TypeOK, users, wizard, Exists
<1>8. AdministratorLeft'
    BY <1>1, <1>3 DEF AdministratorLeft, users, Exists, ActiveAdmins
<1>9. ASSUME NEW o \in Updates, InWindow(o)
      PROVE  (Held(o) => Held(o)') /\ (Known(o) => Known(o)')
    <2>1. o # q
        BY <1>3, <1>9 DEF InWindow
    <2> QED BY <1>3, <1>4, <2>1 DEF Held, Known, users, ActiveAdmins
<1>10. Holding' /\ Alone'
    BY <1>1, <1>3, <1>6, <1>9 DEF Holding, Alone
<1> QED BY <1>7, <1>8, <1>10 DEF IInv

\* The target is loaded: the copy of its role is that of the row, and when
\* the target is no administrator there is another.
LEMMA LoadIInv ==
    ASSUME NEW q \in Updates, IInv, NobodyAssumption, Load(q)
    PROVE  IInv'
<1>1. TypeOK /\ AdministratorLeft /\ Holding /\ Alone
    BY DEF IInv
<1>2. PICK t \in Users : /\ role[t] # "none"
                         /\ target' = [target EXCEPT ![q] = t]
                         /\ seenRole' = [seenRole EXCEPT ![q] = role[t]]
    BY DEF Load, Exists
<1> DEFINE label == IF want[q].role # "keep" THEN "role" ELSE "active"
<1>3. /\ pc[q] = "admitted" /\ Goto(q, label)
      /\ actor' = [actor EXCEPT ![q] = Nobody]
      /\ overlapped' = (overlapped \/ \E o \in Updates \ {q} : InWindow(o))
      /\ UNCHANGED <<users, want, wizard>>
    BY DEF Load
<1>4. label \in Window /\ (label = "role" => want[q].role # "keep")
      /\ label \in {"role", "active"}
    BY DEF Window
<1> HIDE DEF label
<1>5. pc' = [pc EXCEPT ![q] = label]
    BY <1>3 DEF Goto
<1>6. /\ pc'[q] = label /\ target'[q] = t /\ seenRole'[q] = role[t]
      /\ \A o \in Updates : o # q => pc'[o] = pc[o] /\ target'[o] = target[o]
    BY <1>1, <1>2, <1>5 DEF TypeOK
<1>7. TypeOK'
    <2>1. \A o \in Updates : (target'[o] # Nobody) <=> InWindow(o)'
        BY <1>1, <1>4, <1>6 DEF TypeOK, InWindow, Window, NobodyAssumption
    <2>2. pc' \in [Updates -> {"idle", "admitted", "role", "writeRole", "active",
                               "writeActive"}]
        BY <1>1, <1>4, <1>5 DEF TypeOK
    <2>3. role[t] \in Roles \cup {"none"}
        BY <1>1 DEF TypeOK
    <2>4. /\ actor' \in [Updates -> Users \cup {Nobody}]
          /\ target' \in [Updates -> Users \cup {Nobody}]
          /\ seenRole' \in [Updates -> Roles \cup {"none"}]
        BY <1>1, <1>2, <1>3, <2>3 DEF TypeOK
    <2>5. overlapped' \in BOOLEAN
        BY <1>1, <1>3 DEF TypeOK
    <2> QED BY <1>1, <1>3, <2>1, <2>2, <2>4, <2>5 DEF TypeOK, users, wizard, Exists
<1>8. AdministratorLeft'
    BY <1>1, <1>3 DEF AdministratorLeft, users, Exists, ActiveAdmins
<1>9. ~overlapped' => \A o \in Updates \ {q} : ~InWindow(o)
    BY <1>3
<1>10. ASSUME ~overlapped' PROVE Known(q)'
    <2>1. ActiveAdmins # {}
        BY <1>1, <1>2, <1>3, <1>10 DEF AdministratorLeft, Exists
    <2>2. role[t] = "admin" \/ ActiveAdmins \ {t} # {}
        BY <2>1 DEF ActiveAdmins
    <2>3. UNCHANGED <<role, active, want>> /\ ActiveAdmins' = ActiveAdmins
        BY <1>3 DEF users, ActiveAdmins
    <2> QED BY <1>2, <1>4, <1>6, <2>2, <2>3 DEF Known
<1>11. Holding'
    <2>1. UNCHANGED <<role, want>>
        BY <1>3 DEF users
    <2>2. Held(q)'
        BY <1>2, <1>4, <1>6, <2>1 DEF Held
    <2>3. ASSUME NEW o \in Updates, o # q, InWindow(o)' PROVE Held(o)'
        BY <1>1, <1>6, <2>1, <2>3 DEF Holding, Held, InWindow
    <2> QED BY <2>2, <2>3 DEF Holding
<1> QED BY <1>1, <1>3, <1>4, <1>7, <1>8, <1>9, <1>10, <1>11, InsideIInv

\* The steps inside the window that only move on.
LEMMA MoveOnIInv ==
    ASSUME NEW q \in Updates, NEW label \in {"writeRole", "writeActive"}, IInv, InWindow(q), Goto(q, label),
           UNCHANGED <<users, actor, target, seenRole, want, wizard, overlapped>>,
           label = "writeRole" => pc[q] = "role",
           ~overlapped => Known(q)'
    PROVE  IInv'
<1>1. TypeOK /\ AdministratorLeft /\ Holding /\ Alone
    BY DEF IInv
<1>2. pc' = [pc EXCEPT ![q] = label]
    BY DEF Goto
<1>3. \A o \in Updates : InWindow(o)' <=> InWindow(o)
    BY <1>1, <1>2 DEF TypeOK, InWindow, Window
<1>4. TypeOK'
    <2>1. pc' \in [Updates -> {"idle", "admitted", "role", "writeRole", "active",
                               "writeActive"}]
        BY <1>1, <1>2 DEF TypeOK, Window
    <2> QED BY <1>1, <1>3, <2>1 DEF TypeOK, users, wizard, Exists
<1>5. AdministratorLeft'
    BY <1>1 DEF AdministratorLeft, users, Exists, ActiveAdmins
<1>6. ~overlapped' => \A o \in Updates \ {q} : ~InWindow(o)
    BY <1>1 DEF Alone
<1>7. Holding'
    <2>1. \A o \in Updates : pc'[o] = IF o = q THEN label ELSE pc[o]
        BY <1>1, <1>2 DEF TypeOK
    <2> QED BY <1>1, <1>3, <2>1 DEF Holding, Held, users
<1>8. label \in Window
    BY DEF Window
<1> QED BY <1>1, <1>4, <1>5, <1>6, <1>7, <1>8, InsideIInv

\* The check of the role: if it is not a promotion, another administrator is
\* counted.
LEMMA CheckRoleIInv ==
    ASSUME NEW q \in Updates, IInv, NobodyAssumption, CheckRole(q)
    PROVE  IInv'
<1>1. TypeOK /\ AdministratorLeft /\ Holding /\ Alone
    BY DEF IInv
<1>2. /\ pc[q] = "role" /\ Goto(q, "writeRole")
      /\ UNCHANGED <<users, actor, target, seenRole, want, wizard, overlapped>>
      /\ want[q].role = "admin" \/ ~LastAdmin(q)
    BY DEF CheckRole
<1>3. InWindow(q)
    BY <1>2 DEF InWindow
<1>4. pc'[q] = "writeRole"
    BY <1>1, <1>2 DEF Goto, TypeOK
<1>5. ASSUME ~overlapped PROVE Known(q)'
    <2>1. Known(q)
        BY <1>1, <1>3, <1>5 DEF Alone
    <2>2. target[q] \in Users
        BY <1>1, <1>3 DEF TypeOK
    <2>3. ActiveAdmins # {}
        BY <1>1, <1>3, <1>5, <2>2 DEF AdministratorLeft, Exists, Holding, Held
    <2>4. want[q].role = "admin" \/ ActiveAdmins \ {target[q]} # {}
        <3>1. CASE seenRole[q] = "admin"
            BY <1>2, <3>1 DEF LastAdmin
        <3>2. CASE seenRole[q] # "admin"
            <4>1. target[q] \notin ActiveAdmins
                BY <1>2, <2>1, <3>2 DEF Known, ActiveAdmins
            <4> QED BY <2>3, <4>1
        <3> QED BY <3>1, <3>2
    <2>5. UNCHANGED <<role, target, seenRole, want>> /\ ActiveAdmins' = ActiveAdmins
        BY <1>2 DEF users, ActiveAdmins
    <2> QED BY <1>2, <1>4, <2>1, <2>4, <2>5 DEF Known
<1> QED BY <1>2, <1>3, <1>5, MoveOnIInv

\* The check of the activation reads the role as it was loaded; a target
\* that was no administrator then was promoted by this request at most.
LEMMA CheckActiveIInv ==
    ASSUME NEW q \in Updates, IInv, CheckActive(q)
    PROVE  IInv'
<1>1. TypeOK /\ AdministratorLeft /\ Holding /\ Alone
    BY DEF IInv
<1>2. /\ pc[q] = "active" /\ Goto(q, "writeActive")
      /\ UNCHANGED <<users, actor, target, seenRole, want, wizard, overlapped>>
      /\ want[q].active = "yes" \/ ~LastAdmin(q)
    BY DEF CheckActive
<1>3. InWindow(q)
    BY <1>2 DEF InWindow
<1>4. pc'[q] = "writeActive"
    BY <1>1, <1>2 DEF Goto, TypeOK
<1>5. ASSUME ~overlapped PROVE Known(q)'
    <2>1. Known(q)
        BY <1>1, <1>3, <1>5 DEF Alone
    <2>2. want[q].active = "yes" \/ ActiveAdmins \ {target[q]} # {}
        BY <1>2, <2>1 DEF LastAdmin, Known
    <2>3. UNCHANGED <<role, target, seenRole, want>> /\ ActiveAdmins' = ActiveAdmins
        BY <1>2 DEF users, ActiveAdmins
    <2> QED BY <1>4, <2>1, <2>2, <2>3 DEF Known
<1> QED BY <1>2, <1>3, <1>5, MoveOnIInv

\* The role is written as it was checked. A target that was no administrator
\* when it was loaded leaves another one to the rest of the request.
LEMMA WriteRoleIInv ==
    ASSUME NEW q \in Updates, IInv, NobodyAssumption, WriteRole(q)
    PROVE  IInv'
<1>1. TypeOK /\ AdministratorLeft /\ Holding /\ Alone
    BY DEF IInv
<1> DEFINE t == target[q]
           r == want[q].role
<1>2. pc[q] = "writeRole" /\ role' = [role EXCEPT ![t] = r]
      /\ UNCHANGED <<active, wizard, overlapped>>
    BY DEF WriteRole
<1>3. InWindow(q) /\ t \in Users
    BY <1>1, <1>2 DEF InWindow, TypeOK
<1>4. r \in Roles
    <2>1. r # "keep"
        BY <1>1, <1>2, <1>3 DEF Holding, Held
    <2>2. r \in Roles \cup {"keep"}
        BY <1>1 DEF TypeOK, Changes, NoChange
    <2> QED BY <2>1, <2>2
<1>5. \A u \in Users : role'[u] = IF u = t THEN r ELSE role[u]
    BY <1>1, <1>2, <1>3 DEF TypeOK
<1>6. r # "none" /\ r \in Roles \cup {"none"}
    BY <1>4 DEF Roles
<1>7. role' \in [Users -> Roles \cup {"none"}]
    BY <1>1, <1>2, <1>6 DEF TypeOK
<1>8. \A u \in Users : role[u] # "none" => role'[u] # "none"
    BY <1>5, <1>6
<1>9. \A u \in Users : active[u] => role'[u] # "none"
    BY <1>1, <1>5, <1>6 DEF TypeOK, Exists
<1>10. ASSUME ~overlapped
       PROVE  ActiveAdmins' # {} /\ ActiveAdmins' \ {t} = ActiveAdmins \ {t}
    <2>1. Known(q)
        BY <1>1, <1>3, <1>10 DEF Alone
    <2>2. ActiveAdmins' \ {t} = ActiveAdmins \ {t}
        BY <1>2, <1>5 DEF ActiveAdmins
    <2>3. CASE ActiveAdmins \ {t} # {}
        BY <2>2, <2>3
    <2>4. CASE ActiveAdmins \ {t} = {}
        <3>1. r = "admin"
            BY <1>2, <2>1, <2>4 DEF Known
        <3>2. \E u \in Users : Exists(u)
            BY <1>1, <1>3 DEF Holding, Held, Exists
        <3>3. ActiveAdmins # {}
            BY <1>1, <1>10, <3>2 DEF AdministratorLeft
        <3>4. t \in ActiveAdmins
            BY <2>4, <3>3
        <3>5. t \in ActiveAdmins'
            BY <1>2, <1>3, <1>5, <3>1, <3>4 DEF ActiveAdmins
        <3> QED BY <2>2, <3>5
    <2> QED BY <2>2, <2>3, <2>4
<1>11. AdministratorLeft'
    BY <1>2, <1>10 DEF AdministratorLeft
<1>12. CASE want[q].active = "keep"
    <2>1. Return(q)
        BY <1>12 DEF WriteRole
    <2>2. active' \in [Users -> BOOLEAN] /\ \A u \in Users : active'[u] => role'[u] # "none"
        BY <1>1, <1>2, <1>9 DEF TypeOK
    <2> QED BY <1>2, <1>3, <1>7, <1>8, <1>11, <2>1, <2>2, ReturnIInv
<1>13. CASE want[q].active # "keep"
    <2>1. Goto(q, "active") /\ UNCHANGED <<actor, target, seenRole, want>>
        BY <1>13 DEF WriteRole
    <2>2. "active" \in Window
        BY DEF Window
    <2>3. \A o \in Updates : pc'[o] = IF o = q THEN "active" ELSE pc[o]
        BY <1>1, <2>1 DEF Goto, TypeOK
    <2>4. \A o \in Updates : InWindow(o)' <=> InWindow(o)
        BY <1>3, <2>3 DEF InWindow
    <2>5. TypeOK'
        <3>1. pc' \in [Updates -> {"idle", "admitted", "role", "writeRole", "active",
                                   "writeActive"}]
            BY <1>1, <2>1 DEF TypeOK, Goto
        <3> QED BY <1>1, <1>2, <1>7, <1>9, <2>1, <2>4, <3>1 DEF TypeOK, wizard, Exists
    <2>6. Holding'
        <3>1. \A o \in Updates : InWindow(o) => target[o] \in Users
            BY <1>1 DEF TypeOK
        <3> QED BY <1>1, <1>8, <2>1, <2>3, <2>4, <3>1 DEF Holding, Held
    <2>7. ASSUME ~overlapped' PROVE Known(q)'
        <3>1. ~overlapped
            BY <1>2, <2>7
        <3>2. Known(q)
            BY <1>1, <1>3, <3>1 DEF Alone
        <3>3. seenRole[q] = "admin" \/ ActiveAdmins \ {t} # {}
            <4>1. CASE seenRole[q] # "admin"
                <5>1. t \notin ActiveAdmins
                    BY <1>2, <3>2, <4>1 DEF Known, ActiveAdmins
                <5>2. \E u \in Users : Exists(u)
                    BY <1>1, <1>3 DEF Holding, Held, Exists
                <5>3. ActiveAdmins # {}
                    BY <1>1, <3>1, <5>2 DEF AdministratorLeft
                <5> QED BY <5>1, <5>3
            <4> QED BY <4>1
        <3>4. pc'[q] = "active" /\ seenRole'[q] = seenRole[q] /\ target'[q] = t
            BY <2>1, <2>3
        <3> QED BY <1>10, <3>1, <3>3, <3>4 DEF Known
    <2>8. ~overlapped' => \A o \in Updates \ {q} : ~InWindow(o)
        BY <1>1, <1>2, <1>3 DEF Alone
    <2> QED BY <1>1, <1>11, <2>1, <2>2, <2>5, <2>6, <2>7, <2>8, InsideIInv
<1> QED BY <1>12, <1>13

\* The activation is written as it was checked.
LEMMA WriteActiveIInv ==
    ASSUME NEW q \in Updates, IInv, NobodyAssumption, WriteActive(q)
    PROVE  IInv'
<1>1. TypeOK /\ AdministratorLeft /\ Holding /\ Alone
    BY DEF IInv
<1> DEFINE t == target[q]
           yes == (want[q].active = "yes")
<1>2. pc[q] = "writeActive" /\ active' = [active EXCEPT ![t] = yes] /\ Return(q)
      /\ UNCHANGED <<role, wizard, overlapped>>
    BY DEF WriteActive
<1>3. InWindow(q) /\ t \in Users
    BY <1>1, <1>2 DEF InWindow, TypeOK
<1>4. active' \in [Users -> BOOLEAN]
      /\ \A u \in Users : active'[u] = IF u = t THEN yes ELSE active[u]
    BY <1>1, <1>2, <1>3 DEF TypeOK
<1>5. role[t] # "none"
    BY <1>1, <1>3 DEF Holding, Held
<1>6. \A u \in Users : active'[u] => role'[u] # "none"
    BY <1>1, <1>2, <1>4, <1>5 DEF TypeOK, Exists
<1>7. ASSUME ~overlapped PROVE ActiveAdmins' # {}
    <2>1. Known(q)
        BY <1>1, <1>3, <1>7 DEF Alone
    <2>2. ActiveAdmins' \ {t} = ActiveAdmins \ {t}
        BY <1>2, <1>4 DEF ActiveAdmins
    <2>3. CASE ActiveAdmins \ {t} # {}
        BY <2>2, <2>3
    <2>4. CASE ActiveAdmins \ {t} = {}
        <3>1. yes
            BY <1>2, <2>1, <2>4 DEF Known
        <3>2. \E u \in Users : Exists(u)
            BY <1>3, <1>5 DEF Exists
        <3>3. ActiveAdmins # {}
            BY <1>1, <1>7, <3>2 DEF AdministratorLeft
        <3>4. t \in ActiveAdmins
            BY <2>4, <3>3
        <3>5. t \in ActiveAdmins'
            BY <1>2, <1>3, <1>4, <3>1, <3>4 DEF ActiveAdmins
        <3> QED BY <3>5
    <2> QED BY <2>3, <2>4
<1>8. AdministratorLeft'
    BY <1>2, <1>7 DEF AdministratorLeft
<1>9. role' \in [Users -> Roles \cup {"none"}]
      /\ \A u \in Users : role[u] # "none" => role'[u] # "none"
    BY <1>1, <1>2 DEF TypeOK
<1> QED BY <1>2, <1>3, <1>4, <1>6, <1>8, <1>9, ReturnIInv

\* A refusal writes nothing.
LEMMA RefuseIInv ==
    ASSUME NEW q \in Updates, IInv, NobodyAssumption, Refuse(q)
    PROVE  IInv'
<1>1. TypeOK /\ AdministratorLeft
    BY DEF IInv
<1>2. Return(q) /\ UNCHANGED <<users, wizard, overlapped>>
    BY DEF Refuse
<1>3. UNCHANGED <<role, active>>
    BY <1>2 DEF users
<1>4. AdministratorLeft'
    BY <1>1, <1>2, <1>3 DEF AdministratorLeft, Exists, ActiveAdmins
<1>5. /\ role' \in [Users -> Roles \cup {"none"}]
      /\ active' \in [Users -> BOOLEAN]
      /\ \A u \in Users : active'[u] => role'[u] # "none"
      /\ \A u \in Users : role[u] # "none" => role'[u] # "none"
    BY <1>1, <1>3 DEF TypeOK, Exists
<1> QED BY <1>2, <1>4, <1>5, ReturnIInv

-----------------------------------------------------------------------------
(* The first-run requests, and the theorems. *)

\* Every step keeps the invariant.
LEMMA NextIInv ==
    ASSUME NobodyAssumption
    PROVE  IInv /\ IsFiniteSet(Running) /\ [Next]_vars => IInv'
<1> SUFFICES ASSUME IInv, IsFiniteSet(Running), [Next]_vars PROVE IInv'
    OBVIOUS
<1>1. /\ setup \in [Setups -> {"idle", "empty"}]
      /\ founders \in Nat /\ together \in Nat
    BY DEF IInv, TypeOK
<1>2. ASSUME IsFiniteSet(Running), NEW s \in Setups, SetupStart(s) PROVE IInv'
    <2>1. together' \in Nat
        BY <1>1, <1>2, FS_CardinalityType DEF SetupStart, CountTogether
    <2> QED BY <1>1, <1>2, <2>1, QuietIInv DEF SetupStart
<1>3. ASSUME NEW s \in Setups, SetupRefuse(s) PROVE IInv'
    BY <1>1, <1>3, QuietIInv DEF SetupRefuse
<1>4. ASSUME NEW s \in Setups, SetupInsert(s) PROVE IInv'
    <2>1. PICK u \in Users : Insert(u, "admin")
        BY <1>4 DEF SetupInsert
    <2>3. founders' \in Nat
        BY <1>1, <1>4 DEF SetupInsert
    <2>2. "admin" \in Roles
        BY DEF Roles
    <2> QED BY <1>1, <1>4, <2>1, <2>2, <2>3, InsertIInv DEF SetupInsert
<1>5. ASSUME NEW u \in Users, NEW r \in Roles, Create(u, r) PROVE IInv'
    BY <1>1, <1>5, InsertIInv DEF Create, wizard
<1>6. ASSUME NEW q \in Updates, Update(q) PROVE IInv'
    BY <1>6, AdmitIInv, LoadIInv, CheckRoleIInv, WriteRoleIInv, CheckActiveIInv,
       WriteActiveIInv, RefuseIInv DEF Update
<1>7. ASSUME UNCHANGED vars PROVE IInv'
    BY <1>1, <1>7, QuietIInv DEF vars, wizard
<1> QED BY <1>2, <1>3, <1>4, <1>5, <1>6, <1>7 DEF Next

\* No step removes an account: what an update writes is a role.
LEMMA RowsStay ==
    ASSUME NobodyAssumption, IInv, [Next]_vars, NEW u \in Users, Exists(u)
    PROVE  Exists(u)'
<1>1. TypeOK /\ Holding
    BY DEF IInv
<1>2. ASSUME NEW q \in Updates, WriteRole(q) PROVE Exists(u)'
    <2>1. InWindow(q)
        BY <1>2 DEF WriteRole, InWindow
    <2>2. want[q].role # "keep"
        BY <1>1, <1>2, <2>1 DEF Holding, Held, WriteRole
    <2>3. want[q].role \in Roles \cup {"keep"}
        BY <1>1 DEF TypeOK, Changes, NoChange
    <2>4. want[q].role # "none"
        BY <2>2, <2>3 DEF Roles
    <2>5. role' = [role EXCEPT ![target[q]] = want[q].role]
        BY <1>2 DEF WriteRole
    <2> QED BY <1>1, <2>4, <2>5 DEF Exists, TypeOK
<1>3. ASSUME NEW v \in Users, NEW r \in Roles, Insert(v, r) PROVE Exists(u)'
    BY <1>1, <1>3, InsertFacts DEF Exists
<1>4. "admin" \in Roles
    BY DEF Roles
<1>5. ASSUME NEW s \in Setups, SetupStart(s) \/ SetupInsert(s) \/ SetupRefuse(s)
      PROVE  Exists(u)'
    BY <1>3, <1>4, <1>5 DEF SetupStart, SetupInsert, SetupRefuse, Exists, users
<1>6. ASSUME NEW v \in Users, NEW r \in Roles, Create(v, r) PROVE Exists(u)'
    BY <1>3, <1>6 DEF Create
<1>7. ASSUME NEW q \in Updates, Update(q) PROVE Exists(u)'
    BY <1>2, <1>7 DEF Update, Admit, Load, CheckRole, CheckActive, WriteActive, Refuse,
       Exists, users
<1> QED BY <1>5, <1>6, <1>7 DEF Next, vars, users, Exists

\* Steps of no first-run request leave the wizard alone.
LEMMA WizardUntouched ==
    ASSUME [Next]_vars, \A s \in Setups : ~SetupStart(s) /\ ~SetupInsert(s) /\ ~SetupRefuse(s)
    PROVE  UNCHANGED wizard
BY DEF Next, Create, Update, Admit, Load, CheckRole, WriteRole, CheckActive, WriteActive,
   Refuse, vars

\* A statement that saw no user has no founder before it; one that ends leaves
\* the crowd, and leaves at most one founder.
LEMMA FoundingStep ==
    ASSUME NobodyAssumption, IInv, Founding, [Next]_vars
    PROVE  Founding'
<1>1. TypeOK
    BY DEF IInv
<1>2. (\E u \in Users : Exists(u)) => \E u \in Users : Exists(u)'
    BY RowsStay
<1>3. founders \in Nat /\ Cardinality(Running) \in Nat /\ together \in Nat /\ IsFiniteSet(Running)
    BY <1>1, FS_CardinalityType DEF Founding, TypeOK
<1>4. ASSUME NEW s \in Setups, SetupStart(s) PROVE Founding'
    <2>1. founders = 0 /\ founders' = founders
        BY <1>4 DEF SetupStart, Founding
    <2>2. Running' = Running \cup {s} /\ s \notin Running
        BY <1>1, <1>4 DEF SetupStart, Running, TypeOK
    <2>3. IsFiniteSet(Running') /\ Cardinality(Running') = Cardinality(Running) + 1
        BY <1>3, <2>2, FS_AddElement
    <2>4. Cardinality(Running) + 1 <= together'
        BY <1>3, <1>4 DEF SetupStart, CountTogether
    <2> QED BY <1>3, <2>1, <2>3, <2>4 DEF Founding
<1>5. ASSUME NEW s \in Setups, SetupInsert(s) \/ SetupRefuse(s)
      PROVE  /\ IsFiniteSet(Running') /\ Cardinality(Running') = Cardinality(Running) - 1
             /\ together' = together
    <2>1. Running' = Running \ {s} /\ s \in Running
        BY <1>1, <1>5 DEF SetupInsert, SetupRefuse, Running, TypeOK
    <2>2. IsFiniteSet(Running') /\ Cardinality(Running') = Cardinality(Running) - 1
        BY <1>3, <2>1, FS_RemoveElement
    <2> QED BY <1>5, <2>2 DEF SetupInsert, SetupRefuse
<1>6. ASSUME NEW s \in Setups, SetupInsert(s) PROVE Founding'
    <2>1. PICK u \in Users : Insert(u, "admin")
        BY <1>6 DEF SetupInsert
    <2>2. Exists(u)'
        BY <1>1, <2>1 DEF Insert, Exists, TypeOK
    <2>3. founders' + Cardinality(Running') <= together'
        <3>1. founders' = founders + 1
            BY <1>6 DEF SetupInsert
        <3>2. Cardinality(Running') = Cardinality(Running) - 1 /\ together' = together
            BY <1>5, <1>6
        <3> QED BY <1>3, <3>1, <3>2 DEF Founding
    <2> QED BY <1>5, <1>6, <2>2, <2>3 DEF Founding
<1>7. ASSUME NEW s \in Setups, SetupRefuse(s) PROVE Founding'
    <2>1. founders' = founders
        BY <1>7 DEF SetupRefuse
    <2>2. founders + Cardinality(Running') <= together'
        BY <1>3, <1>5, <1>7 DEF Founding
    <2> QED BY <1>2, <1>5, <1>7, <2>1, <2>2 DEF Founding
<1>8. CASE \A s \in Setups : ~SetupStart(s) /\ ~SetupInsert(s) /\ ~SetupRefuse(s)
    BY <1>2, <1>8, WizardUntouched DEF Founding, wizard, Running
<1> QED BY <1>4, <1>6, <1>7, <1>8

\* The founders alone are no more than all of these.
LEMMA NoMoreFounders ==
    ASSUME TypeOK, Founding
    PROVE  FoundersBounded
BY FS_CardinalityType DEF Founding, FoundersBounded, TypeOK

\* Both invariants are kept together.
LEMMA AllStep ==
    ASSUME NobodyAssumption, IInv, Founding, [Next]_vars
    PROVE  (IInv /\ Founding)'
BY NextIInv, FoundingStep DEF Founding

\* Nobody is a founder when the model begins.
LEMMA InitFounding == Init => Founding
<1> SUFFICES ASSUME Init PROVE Founding
    OBVIOUS
<1>1. founders = 0 /\ Running = {}
    BY DEF Init, Running
<1> QED BY <1>1, FS_EmptySet DEF Init, Founding

\* The invariant of the list of users, for all sets of accounts and requests.
THEOREM AdministratorsInvariant ==
    ASSUME NobodyAssumption
    PROVE  Spec => [](IInv /\ Founding)
<1>1. Init => IInv /\ Founding
    BY InitIInv, InitFounding
<1>2. (IInv /\ Founding) /\ [Next]_vars => (IInv /\ Founding)'
    BY AllStep
<1> QED BY <1>1, <1>2, PTL DEF Spec

\* Every variable of the list keeps its type.
THEOREM AdministratorsTypeOK ==
    ASSUME NobodyAssumption
    PROVE  Spec => []TypeOK
<1>1. IInv => TypeOK
    BY DEF IInv
<1> QED BY <1>1, AdministratorsInvariant, PTL

\* The checks of the update handler (demotesLastAdmin, isLastAdmin) keep an
\* active administrator as long as no two updates overlap, whatever is
\* created, refused or cut off, and whoever was authorised.
THEOREM AdministratorsLeft ==
    ASSUME NobodyAssumption
    PROVE  Spec => []AdministratorLeft
<1>1. IInv => AdministratorLeft
    BY DEF IInv
<1> QED BY <1>1, AdministratorsInvariant, PTL

\* The wizard makes no more administrators than first-run statements ran at
\* once, and none when one has been made (UserRepo.CreateFirstAdmin inserts
\* where its snapshot shows no user).
THEOREM AdministratorsFoundersBounded ==
    ASSUME NobodyAssumption
    PROVE  Spec => []FoundersBounded
<1>1. IInv /\ Founding => FoundersBounded
    BY NoMoreFounders DEF IInv
<1> QED BY <1>1, AdministratorsInvariant, PTL
=============================================================================
