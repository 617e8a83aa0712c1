---------------------------- MODULE SessionsProofs ----------------------------
(***************************************************************************)
(* Proof that the sessions of an account keep what they promise, for every *)
(* number of requests, rows and password changes: one live session for a   *)
(* sign-in, none satisfied without its second factor, a log-out that is    *)
(* final, and a revocation that leaves at most what was being created      *)
(* while it ran.  What carries it: a rotation holds the lock of a row that *)
(* stays live until it commits (Locks), a row keeps the sign-in it came    *)
(* from (Lines, Working), and a request that overlaps a revocation either  *)
(* is marked as late or has read the account after the change (Overlaps).  *)
(***************************************************************************)
EXTENDS Sessions, TLAPS

\* A rotation is alone with its row, and the row stays live until it commits.
Locks ==
    /\ lock \in [Sids -> SUBSET Requests]
    /\ \A r \in Requests : pc[r] = "rotate" => sid[r] \in Sids /\ Live(sid[r])
    /\ \A q, r \in Requests :
          pc[q] = "rotate" /\ pc[r] = "rotate" /\ sid[q] = sid[r] => q = r

\* A row belongs to a sign-in that happened, and so does what is remembered.
Lines ==
    /\ \A s \in 1 .. created : rows[s].line \in 1 .. created
    /\ factored \subseteq 1 .. created
    /\ loggedOut \subseteq 1 .. created

\* A handler between its two halves works on a row that exists; the one that
\* is about to satisfy it has seen the right code.
Working ==
    \A r \in Requests :
        /\ pc[r] \in {"logout", "satisfy"} => sid[r] \in 1 .. created
        /\ pc[r] = "satisfy" => rows[sid[r]].line \in factored
        /\ todo[r] \subseteq 1 .. created

\* A request that creates a row while a revocation runs is marked as late, or
\* has read the account since the change that the revocation is for.
Overlaps ==
    /\ settled <= era
    /\ \A r \in Requests : eraSeen[r] <= era
    /\ \A q \in Requests : pc[q] = "create" => late[q] \/ settled <= eraSeen[q]
    /\ \A q, r \in Requests :
          /\ pc[r] = "revoking" /\ pc[q] = "create" => late[q] \/ eraSeen[r] <= eraSeen[q]
          /\ pc[r] = "revoking" /\ pc[q] = "rotate" => late[q]
    /\ \A r \in Requests, s \in Sids :
          pc[r] = "revoking" /\ Live(s) /\ s \notin todo[r] /\ s # sid[r] =>
              rows[s].late \/ eraSeen[r] <= rows[s].era

IInv ==
    /\ TypeOK /\ Locks /\ Lines /\ Working /\ Overlaps
    /\ OneLivePerSignIn /\ FactorBeforeAccess /\ LogoutEnds /\ OnlyLateOnesSurvive

\* The parts of the type invariant.
Row == [status : {"absent", "live", "dead"}, mfa : BOOLEAN, line : 0 .. MaxSessions,
        era : 0 .. MaxEra, late : BOOLEAN]

Numbers ==
    /\ secondFactor \in BOOLEAN /\ active \in BOOLEAN
    /\ era \in 0 .. MaxEra /\ created \in 0 .. MaxSessions /\ settled \in 0 .. MaxEra
    /\ factored \subseteq Sids /\ loggedOut \subseteq Sids

LocalTypes ==
    /\ pc \in [Requests -> {"idle", "create", "rotate", "logout", "satisfy",
                            "change", "revoke", "revoking"}]
    /\ sid \in [Requests -> 0 .. MaxSessions]
    /\ eraSeen \in [Requests -> 0 .. MaxEra]
    /\ todo \in [Requests -> SUBSET Sids]
    /\ late \in [Requests -> BOOLEAN]

RowsCreated == \A s \in Sids : rows[s].status = "absent" <=> s > created

LocksHeld ==
    \A s \in Sids : lock[s] = {r \in Requests : pc[r] = "rotate" /\ sid[r] = s}

RowTypes == rows \in [Sids -> Row]

\* TypeOK is these five.
LEMMA TypeParts ==
    TypeOK <=> Numbers /\ RowTypes /\ LocalTypes /\ RowsCreated /\ LocksHeld
BY DEF TypeOK, Numbers, RowTypes, Row, LocalTypes, RowsCreated, LocksHeld

-----------------------------------------------------------------------------
(* What the steps that write a row leave in the table. *)

\* A row that is revoked is a dead row of the same sign-in.
LEMMA DeadRow ==
    ASSUME SessionsAssumption, NEW row \in Row
    PROVE  Dead(row) \in Row /\ Dead(row).status = "dead" /\ Dead(row).line = row.line
<1> DEFINE revoked == [row EXCEPT !.status = "dead", !.mfa = FALSE]
           plain == [revoked EXCEPT !.era = 0]
<1>1. revoked \in Row /\ revoked.status = "dead" /\ revoked.line = row.line
    BY DEF Row
<1>2. plain \in Row /\ plain.status = "dead" /\ plain.line = row.line
    <2> HIDE DEF revoked
    <2>1. 0 \in 0 .. MaxEra
        BY DEF SessionsAssumption
    <2> QED BY <1>1, <2>1 DEF Row
<1>3. Dead(row) = [plain EXCEPT !.late = FALSE]
    BY DEF Dead
<1> HIDE DEF plain
<1> QED BY <1>2, <1>3 DEF Row

\* A row that ends keeps its sign-in; the others are as they were.
LEMMA RowEnds ==
    ASSUME SessionsAssumption, RowTypes, NEW s \in Sids,
           rows' = [rows EXCEPT ![s] = Dead(@)]
    PROVE  /\ RowTypes'
           /\ rows'[s].status = "dead" /\ rows'[s].line = rows[s].line
           /\ \A t \in Sids : t # s => rows'[t] = rows[t]
<1>1. rows[s] \in Row
    BY DEF RowTypes
<1>2. Dead(rows[s]) \in Row /\ Dead(rows[s]).status = "dead"
      /\ Dead(rows[s]).line = rows[s].line
    BY <1>1, DeadRow
<1> QED BY <1>2 DEF RowTypes

\* The row of a sign-in: of its own line, of the era its account was read in.
LEMMA RowOfLogin ==
    ASSUME SessionsAssumption, TypeOK, NEW r \in Requests, LoginCreate(r)
    PROVE  /\ created + 1 \in Sids /\ created' = created + 1
           /\ RowTypes'
           /\ rows'[created + 1].status = "live" /\ rows'[created + 1].line = created + 1
           /\ secondFactor => ~rows'[created + 1].mfa
           /\ rows'[created + 1].era = eraSeen[r] /\ rows'[created + 1].late = late[r]
           /\ \A t \in Sids : t # created + 1 => rows'[t] = rows[t]
<1> DEFINE new == [status |-> "live", mfa |-> ~secondFactor, line |-> created + 1,
                   era |-> eraSeen[r], late |-> late[r]]
<1>1. created + 1 \in Sids /\ created' = created + 1
      /\ rows' = [rows EXCEPT ![created + 1] = new]
    BY TypeParts DEF SessionsAssumption, LoginCreate, Numbers, Sids
<1>2. eraSeen[r] \in 0 .. MaxEra /\ late[r] \in BOOLEAN /\ secondFactor \in BOOLEAN
    BY TypeParts DEF Numbers, LocalTypes
<1>3. new \in Row
    BY <1>1, <1>2 DEF Row, Sids
<1>4. rows \in [Sids -> Row]
    BY TypeParts DEF RowTypes
<1>5. rows' \in [Sids -> Row] /\ rows'[created + 1] = new
      /\ \A t \in Sids : t # created + 1 => rows'[t] = rows[t]
    BY <1>1, <1>3, <1>4
<1> QED BY <1>1, <1>5 DEF RowTypes

\* A rotation ends its row and hands what the row held to the new one, which
\* is late if the row or the rotation was.
LEMMA RowOfRotation ==
    ASSUME SessionsAssumption, TypeOK, Locks, NEW r \in Requests, RotateCommit(r)
    PROVE  LET s == sid[r] IN
           /\ s \in 1 .. created /\ Live(s)
           /\ created + 1 \in Sids /\ created' = created + 1
           /\ RowTypes'
           /\ rows'[created + 1].status = "live" /\ rows'[created + 1].line = rows[s].line
           /\ rows'[created + 1].mfa = rows[s].mfa /\ rows'[created + 1].era = rows[s].era
           /\ rows'[created + 1].late = (rows[s].late \/ late[r])
           /\ rows'[s].status = "dead" /\ rows'[s].line = rows[s].line
           /\ \A t \in Sids : t # s /\ t # created + 1 => rows'[t] = rows[t]
<1> DEFINE s == sid[r]
           new == [rows[s] EXCEPT !.status = "live", !.late = @ \/ late[r]]
<1>1. s \in Sids /\ Live(s)
    BY DEF Locks, RotateCommit
<1>2. s \in 1 .. created
    BY <1>1, TypeParts DEF RowsCreated, Numbers, Live, Sids, SessionsAssumption
<1>3. created + 1 \in Sids /\ created' = created + 1
      /\ rows' = [rows EXCEPT ![s] = Dead(@), ![created + 1] = new]
    BY TypeParts DEF SessionsAssumption, RotateCommit, Numbers, Sids
<1>4. rows \in [Sids -> Row] /\ rows[s] \in Row
    BY <1>1, TypeParts DEF RowTypes
<1>5. Dead(rows[s]) \in Row /\ Dead(rows[s]).status = "dead"
      /\ Dead(rows[s]).line = rows[s].line
    BY <1>4, DeadRow
<1>6. late[r] \in BOOLEAN
    BY TypeParts DEF LocalTypes
<1>7. new \in Row /\ new.status = "live" /\ new.line = rows[s].line
      /\ new.mfa = rows[s].mfa /\ new.era = rows[s].era
      /\ new.late = (rows[s].late \/ late[r])
    BY <1>4, <1>6 DEF Row
<1>8. s # created + 1
    BY <1>2, TypeParts DEF Numbers
<1>9. rows' \in [Sids -> Row] /\ rows'[created + 1] = new /\ rows'[s] = Dead(rows[s])
      /\ \A t \in Sids : t # s /\ t # created + 1 => rows'[t] = rows[t]
    BY <1>1, <1>3, <1>4, <1>5, <1>7, <1>8
<1> QED BY <1>1, <1>2, <1>3, <1>5, <1>7, <1>9 DEF RowTypes

\* The second factor marks a row that is still live, and nothing else.
LEMMA RowOfFactor ==
    ASSUME SessionsAssumption, TypeOK, Working, NEW r \in Requests, FactorMark(r)
    PROVE  /\ sid[r] \in Sids /\ rows[sid[r]].line \in factored
           /\ RowTypes'
           /\ \A t \in Sids : /\ rows'[t].status = rows[t].status
                              /\ rows'[t].line = rows[t].line
                              /\ rows'[t].era = rows[t].era
                              /\ rows'[t].late = rows[t].late
                              /\ t # sid[r] => rows'[t] = rows[t]
<1> DEFINE s == sid[r]
           new == [rows[s] EXCEPT !.mfa = Live(s)]
<1>1. s \in 1 .. created /\ rows[s].line \in factored
    BY DEF FactorMark, Working
<1>2. rows' = [rows EXCEPT ![s] = new]
    BY DEF FactorMark
<1>3. rows \in [Sids -> Row] /\ s \in Sids /\ rows[s] \in Row
    <2>1. s \in Sids
        BY <1>1, TypeParts DEF Numbers, Sids, SessionsAssumption
    <2> QED BY <2>1, TypeParts DEF RowTypes
<1>4. Live(s) \in BOOLEAN
    BY DEF Live
<1>5. new \in Row /\ new.status = rows[s].status /\ new.line = rows[s].line
      /\ new.era = rows[s].era /\ new.late = rows[s].late
    BY <1>3, <1>4 DEF Row
<1>6. rows' \in [Sids -> Row] /\ rows'[s] = new
      /\ \A t \in Sids : t # s => rows'[t] = rows[t]
    BY <1>1, <1>2, <1>3, <1>5
<1> QED BY <1>1, <1>3, <1>5, <1>6 DEF RowTypes

\* A revocation ends the rows it saw; the row it spares takes on its era.
LEMMA RowsOfRevocation ==
    ASSUME SessionsAssumption, TypeOK, NEW r \in Requests, RevokeCommit(r)
    PROVE  /\ RowTypes' /\ eraSeen[r] \in 0 .. MaxEra
           /\ \A t \in Sids :
                 /\ rows'[t].line = rows[t].line /\ rows[t].era \in 0 .. MaxEra
                 /\ t \in todo[r] => rows'[t].status = "dead"
                 /\ t \notin todo[r] =>
                       /\ rows'[t].status = rows[t].status
                       /\ rows'[t].mfa = rows[t].mfa /\ rows'[t].late = rows[t].late
                       /\ rows[t].era <= rows'[t].era
                       /\ t = sid[r] /\ Live(t) => eraSeen[r] <= rows'[t].era
<1>1. rows \in [Sids -> Row] /\ eraSeen[r] \in 0 .. MaxEra
    BY TypeParts DEF RowTypes, LocalTypes
<1> DEFINE spared(t) == [rows[t] EXCEPT !.era = Larger(@, eraSeen[r])]
<1>2. rows' = [t \in Sids |-> IF t \in todo[r] THEN Dead(rows[t])
                              ELSE IF t = sid[r] /\ Live(t) THEN spared(t) ELSE rows[t]]
    BY DEF RevokeCommit
<1>3. ASSUME NEW t \in Sids
      PROVE  /\ rows[t] \in Row /\ rows[t].era \in 0 .. MaxEra
             /\ Dead(rows[t]) \in Row /\ Dead(rows[t]).status = "dead"
             /\ Dead(rows[t]).line = rows[t].line
    <2>1. rows[t] \in Row
        BY <1>1
    <2>2. rows[t].era \in 0 .. MaxEra
        BY <2>1 DEF Row
    <2> QED BY <2>1, <2>2, DeadRow
<1>4. ASSUME NEW t \in Sids
      PROVE  /\ Larger(rows[t].era, eraSeen[r]) \in 0 .. MaxEra
             /\ rows[t].era <= Larger(rows[t].era, eraSeen[r])
             /\ eraSeen[r] <= Larger(rows[t].era, eraSeen[r])
    BY <1>1, <1>3 DEF Larger, SessionsAssumption
<1>5. ASSUME NEW t \in Sids
      PROVE  /\ spared(t) \in Row /\ spared(t).status = rows[t].status
             /\ spared(t).line = rows[t].line /\ spared(t).mfa = rows[t].mfa
             /\ spared(t).late = rows[t].late
             /\ spared(t).era = Larger(rows[t].era, eraSeen[r])
    BY <1>3, <1>4 DEF Row
<1> HIDE DEF spared
<1>6. RowTypes'
    BY <1>2, <1>3, <1>5 DEF RowTypes
<1>7. ASSUME NEW t \in Sids, t \in todo[r]
      PROVE  rows'[t].status = "dead" /\ rows'[t].line = rows[t].line
    BY <1>2, <1>3, <1>7
<1>8. ASSUME NEW t \in Sids, t \notin todo[r], ~(t = sid[r] /\ Live(t))
      PROVE  rows'[t] = rows[t]
    BY <1>2, <1>8
<1>9. ASSUME NEW t \in Sids, t \notin todo[r], t = sid[r] /\ Live(t)
      PROVE  rows'[t] = spared(t)
    BY <1>2, <1>9
<1>10. \A t \in Sids : rows[t].era <= rows[t].era
    BY <1>3 DEF SessionsAssumption
<1> QED BY <1>1, <1>3, <1>4, <1>5, <1>6, <1>7, <1>8, <1>9, <1>10

\* The steps that write the table; all others leave it, and what the history
\* says of revocations and log-outs, alone.
WritesTable ==
    \/ \E r \in Requests : \/ LoginCreate(r) \/ RotateCommit(r) \/ LogoutRevoke(r)
                           \/ FactorMark(r) \/ RevokeCommit(r)
    \/ \E s \in Sids : Expire(s)

\* Every other step leaves the table and what it records as they are.
LEMMA TableWritten ==
    ASSUME [Next]_vars, ~WritesTable
    PROVE  /\ UNCHANGED <<created, rows, loggedOut, settled>>
           /\ factored' = factored \/ \E r \in Requests : FactorVerify(r)
<1> USE DEF vars, account, table, history
<1>1. CASE UNCHANGED vars
    BY <1>1
<1>2. CASE Reactivate
    BY <1>2 DEF Reactivate
<1>3. ASSUME NEW r \in Requests, LoginRead(r) \/ LogoutResolve(r) \/ RevokeOthersResolve(r)
                                 \/ ChangeResolve(r)
      PROVE  UNCHANGED <<table, history>>
    BY <1>3 DEF LoginRead, LogoutResolve, RevokeOthersResolve, ChangeResolve
<1>4. ASSUME NEW r \in Requests, RotateUpdate(r) \/ ChangeWrite(r) \/ Deactivate(r)
                                 \/ RevokeSnapshot(r) \/ Fail(r)
      PROVE  UNCHANGED <<created, rows, history>>
    BY <1>4 DEF RotateUpdate, ChangeWrite, Deactivate, RevokeSnapshot, Fail
<1>5. ASSUME NEW r \in Requests, FactorVerify(r)
      PROVE  UNCHANGED <<table, loggedOut, settled>>
    BY <1>5 DEF FactorVerify
<1> QED BY <1>1, <1>2, <1>3, <1>4, <1>5 DEF Next, Request, WritesTable

\* Nobody changes whether the account owes a second factor, nobody forgets
\* that one was proved.
LEMMA FactorKept ==
    ASSUME [Next]_vars
    PROVE  secondFactor' = secondFactor /\ factored \subseteq factored'
BY DEF Next, Request, vars, account, history, LoginRead, LoginCreate, RotateUpdate,
       RotateCommit, LogoutResolve, LogoutRevoke, FactorVerify, FactorMark,
       RevokeOthersResolve, ChangeResolve, ChangeWrite, Deactivate, RevokeSnapshot,
       RevokeCommit, Fail, Expire, Reactivate

-----------------------------------------------------------------------------
(* The type invariant, and which sign-in a row belongs to. *)

\* A row that is read for something exists.
LEMMA LiveIsCreated ==
    ASSUME SessionsAssumption, TypeOK, NEW s \in Sids, Live(s)
    PROVE  s \in 1 .. created
BY TypeParts DEF RowsCreated, Numbers, Live, Sids, SessionsAssumption

\* Every step keeps the types of the rows.
LEMMA RowTypesStep ==
    ASSUME SessionsAssumption, TypeOK, Locks, Working, [Next]_vars
    PROVE  RowTypes'
<1>1. RowTypes
    BY TypeParts
<1>2. ASSUME NEW r \in Requests, LoginCreate(r) PROVE RowTypes'
    BY <1>2, RowOfLogin
<1>3. ASSUME NEW r \in Requests, RotateCommit(r) PROVE RowTypes'
    BY <1>3, RowOfRotation
<1>4. ASSUME NEW r \in Requests, LogoutRevoke(r) PROVE RowTypes'
    <2>1. sid[r] \in Sids
        BY <1>4, TypeParts DEF LogoutRevoke, Working, Numbers, Sids, SessionsAssumption
    <2> QED BY <1>1, <1>4, <2>1, RowEnds DEF LogoutRevoke
<1>5. ASSUME NEW r \in Requests, FactorMark(r) PROVE RowTypes'
    BY <1>5, RowOfFactor
<1>6. ASSUME NEW r \in Requests, RevokeCommit(r) PROVE RowTypes'
    BY <1>6, RowsOfRevocation
<1>7. ASSUME NEW s \in Sids, Expire(s) PROVE RowTypes'
    BY <1>1, <1>7, RowEnds DEF Expire
<1>8. CASE ~WritesTable
    BY <1>1, <1>8, TableWritten DEF RowTypes
<1> QED BY <1>2, <1>3, <1>4, <1>5, <1>6, <1>7, <1>8 DEF WritesTable

\* Every step keeps the rows of a sign-in in one line, and creates no row past the bound.
LEMMA LinesStep ==
    ASSUME SessionsAssumption, TypeOK, Locks, Lines, Working, [Next]_vars
    PROVE  Lines' /\ created' \in 0 .. MaxSessions
<1> USE DEF SessionsAssumption, Sids
<1>1. created \in 0 .. MaxSessions /\ \A s \in 1 .. created : s \in Sids
    BY TypeParts DEF Numbers
<1>2. ASSUME NEW r \in Requests, LoginCreate(r)
      PROVE  Lines' /\ created' \in 0 .. MaxSessions
    <2>1. UNCHANGED history
        BY <1>2 DEF LoginCreate
    <2>2. \A s \in 1 .. created : rows'[s] = rows[s]
        BY <1>1, <1>2, RowOfLogin
    <2>3. created' = created + 1 /\ created + 1 \in Sids /\ rows'[created + 1].line = created + 1
        BY <1>2, RowOfLogin
    <2> QED BY <1>1, <2>1, <2>2, <2>3 DEF Lines, history
<1>3. ASSUME NEW r \in Requests, RotateCommit(r)
      PROVE  Lines' /\ created' \in 0 .. MaxSessions
    <2>1. UNCHANGED history
        BY <1>3 DEF RotateCommit
    <2>2. \A s \in 1 .. created : rows'[s].line = rows[s].line
        BY <1>1, <1>3, RowOfRotation
    <2>3. created' = created + 1 /\ created + 1 \in Sids /\ sid[r] \in 1 .. created
          /\ rows'[created + 1].line = rows[sid[r]].line
        BY <1>3, RowOfRotation
    <2> QED BY <1>1, <2>1, <2>2, <2>3 DEF Lines, history
<1>4. ASSUME NEW r \in Requests, LogoutRevoke(r)
      PROVE  Lines' /\ created' \in 0 .. MaxSessions
    <2>1. sid[r] \in 1 .. created /\ sid[r] \in Sids /\ UNCHANGED <<created, factored>>
          /\ loggedOut' \subseteq loggedOut \cup {rows[sid[r]].line}
        BY <1>1, <1>4 DEF LogoutRevoke, Working
    <2>2. \A s \in Sids : rows'[s].line = rows[s].line
        BY <1>4, <2>1, RowEnds, TypeParts DEF LogoutRevoke
    <2> QED BY <1>1, <2>1, <2>2 DEF Lines
<1>5. ASSUME NEW r \in Requests, FactorMark(r)
      PROVE  Lines' /\ created' \in 0 .. MaxSessions
    <2>1. UNCHANGED history /\ created' = created
        BY <1>5 DEF FactorMark
    <2> QED BY <1>1, <1>5, <2>1, RowOfFactor DEF Lines, history
<1>6. ASSUME NEW r \in Requests, RevokeCommit(r)
      PROVE  Lines' /\ created' \in 0 .. MaxSessions
    <2>1. UNCHANGED <<created, factored, loggedOut>>
        BY <1>6 DEF RevokeCommit
    <2> QED BY <1>1, <1>6, <2>1, RowsOfRevocation DEF Lines
<1>7. ASSUME NEW s \in Sids, Expire(s)
      PROVE  Lines' /\ created' \in 0 .. MaxSessions
    <2>1. UNCHANGED history /\ created' = created
        BY <1>7 DEF Expire
    <2>2. \A t \in Sids : rows'[t].line = rows[t].line
        BY <1>7, RowEnds, TypeParts DEF Expire
    <2> QED BY <1>1, <2>1, <2>2 DEF Lines, history
<1>8. ASSUME NEW r \in Requests, FactorVerify(r)
      PROVE  Lines' /\ created' \in 0 .. MaxSessions
    <2>1. UNCHANGED <<created, rows, loggedOut>>
        BY <1>8 DEF FactorVerify, table
    <2>2. PICK s \in Sids : Live(s) /\ factored' = factored \cup {rows[s].line}
        BY <1>8 DEF FactorVerify
    <2>3. s \in 1 .. created
        BY <2>2, LiveIsCreated
    <2> QED BY <1>1, <2>1, <2>2, <2>3 DEF Lines
<1>9. CASE ~WritesTable /\ ~\E r \in Requests : FactorVerify(r)
    BY <1>1, <1>9, TableWritten DEF Lines
<1> QED BY <1>2, <1>3, <1>4, <1>5, <1>6, <1>7, <1>8, <1>9 DEF WritesTable

\* Every step keeps the eras and the sets of row numbers in their bounds.
LEMMA NumbersStep ==
    ASSUME SessionsAssumption, TypeOK, Locks, Lines, Working, [Next]_vars
    PROVE  Numbers'
<1> USE DEF vars, account
<1>1. Numbers /\ eraSeen \in [Requests -> 0 .. MaxEra]
    BY TypeParts DEF LocalTypes
<1>2. created' \in 0 .. MaxSessions /\ factored' \subseteq Sids /\ loggedOut' \subseteq Sids
    BY LinesStep DEF Lines, Sids, SessionsAssumption
<1>3. secondFactor' \in BOOLEAN
    BY <1>1, FactorKept DEF Numbers
<1>4. active' \in BOOLEAN
    BY <1>1 DEF Numbers, Next, Request, LoginRead, LoginCreate, RotateUpdate,
       RotateCommit, LogoutResolve, LogoutRevoke, FactorVerify, FactorMark,
       RevokeOthersResolve, ChangeResolve, ChangeWrite, Deactivate, RevokeSnapshot,
       RevokeCommit, Fail, Expire, Reactivate
<1>5. era' \in 0 .. MaxEra
    <2>1. era \in 0 .. MaxEra /\ MaxEra \in Nat
        BY <1>1 DEF Numbers, SessionsAssumption
    <2>2. era' = era \/ (era < MaxEra /\ era' = era + 1)
        BY DEF Next, Request, LoginRead, LoginCreate, RotateUpdate,
           RotateCommit, LogoutResolve, LogoutRevoke, FactorVerify, FactorMark,
           RevokeOthersResolve, ChangeResolve, ChangeWrite, Deactivate, RevokeSnapshot,
           RevokeCommit, Fail, Expire, Reactivate
    <2> QED BY <2>1, <2>2
<1>6. settled' \in 0 .. MaxEra
    <2>1. settled' = settled \/ \E r \in Requests : settled' = Larger(settled, eraSeen[r])
        BY DEF Next, Request, LoginRead, LoginCreate, RotateUpdate,
           RotateCommit, LogoutResolve, LogoutRevoke, FactorVerify, FactorMark,
           RevokeOthersResolve, ChangeResolve, ChangeWrite, Deactivate, RevokeSnapshot,
           RevokeCommit, Fail, Expire, Reactivate, history
    <2> QED BY <1>1, <2>1 DEF Numbers, Larger
<1> QED BY <1>2, <1>3, <1>4, <1>5, <1>6 DEF Numbers

\* Every step leaves a row absent until it is created.
LEMMA RowsCreatedStep ==
    ASSUME SessionsAssumption, TypeOK, Locks, Working, [Next]_vars
    PROVE  RowsCreated'
<1> USE DEF SessionsAssumption, RowsCreated
<1>1. RowsCreated /\ RowTypes /\ created \in 0 .. MaxSessions
    BY TypeParts DEF Numbers
<1>2. ASSUME NEW r \in Requests, LoginCreate(r) PROVE RowsCreated'
    BY <1>1, <1>2, RowOfLogin DEF Sids
<1>3. ASSUME NEW r \in Requests, RotateCommit(r) PROVE RowsCreated'
    BY <1>1, <1>3, RowOfRotation DEF Sids
<1>4. ASSUME NEW r \in Requests, LogoutRevoke(r) PROVE RowsCreated'
    <2>1. sid[r] \in Sids /\ sid[r] \in 1 .. created /\ created' = created
        BY <1>1, <1>4 DEF LogoutRevoke, Working, Sids
    <2>2. rows'[sid[r]].status = "dead" /\ \A t \in Sids : t # sid[r] => rows'[t] = rows[t]
        BY <1>1, <1>4, <2>1, RowEnds DEF LogoutRevoke
    <2> QED BY <1>1, <2>1, <2>2
<1>5. ASSUME NEW r \in Requests, FactorMark(r) PROVE RowsCreated'
    BY <1>1, <1>5, RowOfFactor DEF FactorMark
<1>6. ASSUME NEW r \in Requests, RevokeCommit(r) PROVE RowsCreated'
    <2>1. created' = created /\ \A s \in todo[r] : s \in 1 .. created
        BY <1>6 DEF RevokeCommit, Working
    <2>2. ASSUME NEW t \in Sids
          PROVE  /\ t \in todo[r] => rows'[t].status = "dead"
                 /\ t \notin todo[r] => rows'[t].status = rows[t].status
        BY <1>6, RowsOfRevocation
    <2> QED BY <1>1, <2>1, <2>2
<1>7. ASSUME NEW s \in Sids, Expire(s) PROVE RowsCreated'
    <2>1. s \in 1 .. created /\ created' = created
        BY <1>7, LiveIsCreated DEF Expire
    <2>2. rows'[s].status = "dead" /\ \A t \in Sids : t # s => rows'[t] = rows[t]
        BY <1>1, <1>7, RowEnds DEF Expire
    <2>3. ASSUME NEW t \in Sids PROVE rows'[t].status = "absent" <=> t > created'
        <3>1. CASE t = s
            BY <1>1, <2>1, <2>2, <3>1
        <3>2. CASE t # s
            BY <1>1, <2>1, <2>2, <3>2
        <3> QED BY <3>1, <3>2
    <2> QED BY <2>3
<1>8. CASE ~WritesTable
    BY <1>1, <1>8, TableWritten
<1> QED BY <1>2, <1>3, <1>4, <1>5, <1>6, <1>7, <1>8 DEF WritesTable

-----------------------------------------------------------------------------
(* What a request holds, and the locks. *)

\* Every step of a request goes somewhere, with a row and an era of their type.
LEMMA LocalTypesStep ==
    ASSUME SessionsAssumption, TypeOK, [Next]_vars
    PROVE  LocalTypes'
<1> USE DEF SessionsAssumption, vars, locals, account, table, LocalTypes
<1>1. LocalTypes /\ era \in 0 .. MaxEra
    BY TypeParts DEF Numbers
<1>2. ASSUME NEW r \in Requests, LoginRead(r) PROVE LocalTypes'
    BY <1>1, <1>2 DEF LoginRead, Go
<1>3. ASSUME NEW r \in Requests, Done(r) PROVE LocalTypes'
    BY <1>1, <1>3 DEF Done, Go
<1>4. ASSUME NEW r \in Requests,
             LoginCreate(r) \/ RotateCommit(r) \/ LogoutRevoke(r) \/ FactorMark(r)
                 \/ RevokeCommit(r) \/ Fail(r)
      PROVE  LocalTypes'
    BY <1>3, <1>4 DEF LoginCreate, RotateCommit, LogoutRevoke, FactorMark,
        RevokeCommit, Fail
<1>5. ASSUME NEW r \in Requests, RotateUpdate(r) PROVE LocalTypes'
    BY <1>1, <1>5 DEF RotateUpdate, Go, Revoking, Sids
<1>6. ASSUME NEW r \in Requests,
             LogoutResolve(r) \/ RevokeOthersResolve(r) \/ ChangeResolve(r)
      PROVE  LocalTypes'
    <2>1. PICK s \in Sids, label \in {"logout", "revoke", "change"} :
              Go(r, label, s, 0) /\ UNCHANGED <<todo, late>>
        BY <1>6 DEF LogoutResolve, RevokeOthersResolve, ChangeResolve
    <2> QED BY <1>1, <2>1 DEF Go, Sids
<1>7. ASSUME NEW r \in Requests, FactorVerify(r) PROVE LocalTypes'
    BY <1>1, <1>7 DEF FactorVerify, Go, Sids
<1>8. ASSUME NEW r \in Requests, ChangeWrite(r) PROVE LocalTypes'
    BY <1>1, <1>8 DEF ChangeWrite, Go
<1>9. ASSUME NEW r \in Requests, Deactivate(r) PROVE LocalTypes'
    BY <1>1, <1>9 DEF Deactivate, Go
<1>10. ASSUME NEW r \in Requests, RevokeSnapshot(r) PROVE LocalTypes'
    BY <1>1, <1>10 DEF RevokeSnapshot, Go
<1>11. CASE Reactivate \/ UNCHANGED vars \/ \E s \in Sids : Expire(s)
    BY <1>1, <1>11 DEF Reactivate, Expire
<1> QED BY <1>2, <1>4, <1>5, <1>6, <1>7, <1>8, <1>9, <1>10, <1>11 DEF Next, Request

\* A row's lock is held by the rotation that works on the row.
LEMMA LocksHeldStep ==
    ASSUME SessionsAssumption, TypeOK, Locks, [Next]_vars
    PROVE  LocksHeld'
<1> USE DEF LocalTypes, LocksHeld, Locks, vars, locals, account, table
<1>0. LocalTypes /\ LocksHeld
    BY TypeParts
<1>1. ASSUME NEW r \in Requests, LoginRead(r) PROVE LocksHeld'
    BY <1>0, <1>1 DEF LoginRead, Go
<1>2. ASSUME NEW r \in Requests, LoginCreate(r) PROVE LocksHeld'
    BY <1>0, <1>2 DEF LoginCreate, Done, Go
<1>3. ASSUME NEW r \in Requests, RotateUpdate(r) PROVE LocksHeld'
    BY <1>0, <1>3 DEF RotateUpdate, Go, Unlocked
<1>4. ASSUME NEW r \in Requests, RotateCommit(r) PROVE LocksHeld'
    BY <1>0, <1>4 DEF RotateCommit, Done, Go
<1>5. ASSUME NEW r \in Requests, LogoutResolve(r) PROVE LocksHeld'
    BY <1>0, <1>5 DEF LogoutResolve, Go
<1>6. ASSUME NEW r \in Requests, LogoutRevoke(r) PROVE LocksHeld'
    BY <1>0, <1>6 DEF LogoutRevoke, Done, Go
<1>7. ASSUME NEW r \in Requests, FactorVerify(r) PROVE LocksHeld'
    BY <1>0, <1>7 DEF FactorVerify, Go
<1>8. ASSUME NEW r \in Requests, FactorMark(r) PROVE LocksHeld'
    BY <1>0, <1>8 DEF FactorMark, Done, Go
<1>9. ASSUME NEW r \in Requests, RevokeOthersResolve(r) PROVE LocksHeld'
    BY <1>0, <1>9 DEF RevokeOthersResolve, Go
<1>10. ASSUME NEW r \in Requests, ChangeResolve(r) PROVE LocksHeld'
    BY <1>0, <1>10 DEF ChangeResolve, Go
<1>11. ASSUME NEW r \in Requests, ChangeWrite(r) PROVE LocksHeld'
    BY <1>0, <1>11 DEF ChangeWrite, Go
<1>12. ASSUME NEW r \in Requests, Deactivate(r) PROVE LocksHeld'
    BY <1>0, <1>12 DEF Deactivate, Go
<1>13. ASSUME NEW r \in Requests, RevokeSnapshot(r) PROVE LocksHeld'
    BY <1>0, <1>13 DEF RevokeSnapshot, Go
<1>14. ASSUME NEW r \in Requests, RevokeCommit(r) PROVE LocksHeld'
    BY <1>0, <1>14 DEF RevokeCommit, Done, Go
<1>15. ASSUME NEW r \in Requests, Fail(r) PROVE LocksHeld'
    BY <1>0, <1>15 DEF Fail, Done, Go
<1>16. CASE Reactivate \/ UNCHANGED vars \/ \E s \in Sids : Expire(s)
    BY <1>0, <1>16 DEF Reactivate, Expire
<1> QED BY <1>1, <1>2, <1>3, <1>4, <1>5, <1>6, <1>7, <1>8, <1>9, <1>10, <1>11, <1>12,
        <1>13, <1>14, <1>15, <1>16 DEF Next, Request

\* Whoever wants to end a row waits for the rotation that holds it.
LEMMA LocksStep ==
    ASSUME SessionsAssumption, TypeOK, Locks, Working, [Next]_vars
    PROVE  Locks'
<1> USE DEF LocalTypes, LocksHeld, Locks, Live, SessionsAssumption, vars, locals,
        account, table, history
<1>0. LocalTypes /\ LocksHeld /\ RowTypes /\ created \in 0 .. MaxSessions
    BY TypeParts DEF Numbers
<1>1. ASSUME NEW r \in Requests, LoginRead(r) PROVE Locks'
    BY <1>0, <1>1 DEF LoginRead, Go
<1>2. ASSUME NEW r \in Requests, LoginCreate(r) PROVE Locks'
    BY <1>0, <1>2, RowOfLogin DEF LoginCreate, Done, Go
<1>3. ASSUME NEW r \in Requests, RotateUpdate(r) PROVE Locks'
    BY <1>0, <1>3 DEF RotateUpdate, Go, Unlocked
<1>4. ASSUME NEW r \in Requests, RotateCommit(r) PROVE Locks'
    <2>1. \A q \in Requests : pc'[q] = "rotate" =>
              q # r /\ pc[q] = "rotate" /\ sid'[q] = sid[q] /\ sid[q] # sid[r]
        BY <1>0, <1>4 DEF RotateCommit, Done, Go
    <2>2. \A q \in Requests : pc[q] = "rotate" => sid[q] \in 1 .. created
        BY LiveIsCreated
    <2>3. \A t \in 1 .. created : t # sid[r] => rows'[t] = rows[t]
        BY <1>0, <1>4, RowOfRotation DEF Sids
    <2>4. lock' \in [Sids -> SUBSET Requests]
        BY <1>4 DEF RotateCommit
    <2> QED BY <1>0, <2>1, <2>2, <2>3, <2>4
<1>5. ASSUME NEW r \in Requests, LogoutResolve(r) PROVE Locks'
    BY <1>0, <1>5 DEF LogoutResolve, Go
<1>6. ASSUME NEW r \in Requests, LogoutRevoke(r) PROVE Locks'
    BY <1>0, <1>6, RowEnds DEF LogoutRevoke, Done, Go, Unlocked
<1>7. ASSUME NEW r \in Requests, FactorVerify(r) PROVE Locks'
    BY <1>0, <1>7 DEF FactorVerify, Go
<1>8. ASSUME NEW r \in Requests, FactorMark(r) PROVE Locks'
    BY <1>0, <1>8, RowOfFactor DEF FactorMark, Done, Go
<1>9. ASSUME NEW r \in Requests, RevokeOthersResolve(r) PROVE Locks'
    BY <1>0, <1>9 DEF RevokeOthersResolve, Go
<1>10. ASSUME NEW r \in Requests, ChangeResolve(r) PROVE Locks'
    BY <1>0, <1>10 DEF ChangeResolve, Go
<1>11. ASSUME NEW r \in Requests, ChangeWrite(r) PROVE Locks'
    BY <1>0, <1>11 DEF ChangeWrite, Go
<1>12. ASSUME NEW r \in Requests, Deactivate(r) PROVE Locks'
    BY <1>0, <1>12 DEF Deactivate, Go
<1>13. ASSUME NEW r \in Requests, RevokeSnapshot(r) PROVE Locks'
    BY <1>0, <1>13 DEF RevokeSnapshot, Go
<1>14. ASSUME NEW r \in Requests, RevokeCommit(r) PROVE Locks'
    BY <1>0, <1>14, RowsOfRevocation DEF RevokeCommit, Done, Go, Unlocked
<1>15. ASSUME NEW r \in Requests, Fail(r) PROVE Locks'
    BY <1>0, <1>15 DEF Fail, Done, Go
<1>16. ASSUME NEW s \in Sids, Expire(s) PROVE Locks'
    BY <1>0, <1>16, RowEnds DEF Expire, Unlocked
<1>17. CASE Reactivate \/ UNCHANGED vars
    BY <1>0, <1>17 DEF Reactivate
<1> QED BY <1>1, <1>2, <1>3, <1>4, <1>5, <1>6, <1>7, <1>8, <1>9, <1>10, <1>11, <1>12,
        <1>13, <1>14, <1>15, <1>16, <1>17 DEF Next, Request

\* What a handler resolved stays in the table.
LEMMA WorkingStep ==
    ASSUME SessionsAssumption, TypeOK, Locks, Lines, Working, [Next]_vars
    PROVE  Working'
<1> USE DEF LocalTypes, Working, Lines, SessionsAssumption, vars, locals, account,
        table, history
<1>0. LocalTypes /\ RowTypes /\ created \in 0 .. MaxSessions
      /\ \A s \in Sids : Live(s) => s \in 1 .. created
    BY TypeParts, LiveIsCreated DEF Numbers
<1>1. ASSUME NEW r \in Requests, LoginRead(r) PROVE Working'
    BY <1>0, <1>1 DEF LoginRead, Go
<1>2. ASSUME NEW r \in Requests, LoginCreate(r) PROVE Working'
    BY <1>0, <1>2, RowOfLogin DEF LoginCreate, Done, Go
<1>3. ASSUME NEW r \in Requests, RotateUpdate(r) PROVE Working'
    BY <1>0, <1>3 DEF RotateUpdate, Go, Unlocked
<1>4. ASSUME NEW r \in Requests, RotateCommit(r) PROVE Working'
    <2>1. /\ created' \in 0 .. MaxSessions /\ created <= created' /\ factored' = factored
          /\ \A t \in 1 .. created : rows'[t].line = rows[t].line
        <3>1. created' \in 0 .. MaxSessions /\ created <= created' /\ factored' = factored
            BY <1>0, <1>4 DEF RotateCommit
        <3>2. \A t \in Sids : rows'[t].line = rows[t].line \/ t = created + 1
            BY <1>0, <1>4, RowOfRotation DEF RotateCommit
        <3>3. \A t \in 1 .. created : t \in Sids /\ t # created + 1
            BY <1>0 DEF Sids
        <3> QED BY <3>1, <3>2, <3>3
    <2>2. \A q \in Requests : /\ pc'[q] \in {"logout", "satisfy"} => pc'[q] = pc[q] /\ sid'[q] = sid[q]
                              /\ todo'[q] \subseteq todo[q]
        BY <1>0, <1>4 DEF RotateCommit, Done, Go
    <2> QED BY <1>0, <2>1, <2>2
<1>5. ASSUME NEW r \in Requests, LogoutResolve(r) PROVE Working'
    <2>1. PICK s \in Sids : Live(s) /\ Go(r, "logout", s, 0)
        BY <1>5 DEF LogoutResolve, Resolves
    <2> QED BY <1>0, <1>5, <2>1 DEF LogoutResolve, Go
<1>6. ASSUME NEW r \in Requests, LogoutRevoke(r) PROVE Working'
    <2>0. sid[r] \in Sids
        BY <1>0, <1>6 DEF LogoutRevoke, Sids
    <2>1. /\ created' \in 0 .. MaxSessions /\ created <= created' /\ factored' = factored
          /\ \A t \in 1 .. created : rows'[t].line = rows[t].line
        <3>1. created' \in 0 .. MaxSessions /\ created <= created' /\ factored' = factored
            BY <1>0, <1>6 DEF LogoutRevoke
        <3>2. \A t \in Sids : rows'[t].line = rows[t].line \/ t = created + 1
            BY <1>0, <1>6, <2>0, RowEnds DEF LogoutRevoke
        <3>3. \A t \in 1 .. created : t \in Sids /\ t # created + 1
            BY <1>0 DEF Sids
        <3> QED BY <3>1, <3>2, <3>3
    <2>2. \A q \in Requests : /\ pc'[q] \in {"logout", "satisfy"} => pc'[q] = pc[q] /\ sid'[q] = sid[q]
                              /\ todo'[q] \subseteq todo[q]
        BY <1>0, <1>6 DEF LogoutRevoke, Done, Go
    <2> QED BY <1>0, <2>1, <2>2
<1>7. ASSUME NEW r \in Requests, FactorVerify(r) PROVE Working'
    BY <1>0, <1>7 DEF FactorVerify, Go
<1>8. ASSUME NEW r \in Requests, FactorMark(r) PROVE Working'
    BY <1>0, <1>8, RowOfFactor DEF FactorMark, Done, Go
<1>9. ASSUME NEW r \in Requests, RevokeOthersResolve(r) PROVE Working'
    BY <1>0, <1>9 DEF RevokeOthersResolve, Go
<1>10. ASSUME NEW r \in Requests, ChangeResolve(r) PROVE Working'
    BY <1>0, <1>10 DEF ChangeResolve, Go
<1>11. ASSUME NEW r \in Requests, ChangeWrite(r) PROVE Working'
    BY <1>0, <1>11 DEF ChangeWrite, Go
<1>12. ASSUME NEW r \in Requests, Deactivate(r) PROVE Working'
    BY <1>0, <1>12 DEF Deactivate, Go
<1>13. ASSUME NEW r \in Requests, RevokeSnapshot(r) PROVE Working'
    BY <1>0, <1>13 DEF RevokeSnapshot, Go
<1>14. ASSUME NEW r \in Requests, RevokeCommit(r) PROVE Working'
    <2>1. /\ created' \in 0 .. MaxSessions /\ created <= created' /\ factored' = factored
          /\ \A t \in 1 .. created : rows'[t].line = rows[t].line
        <3>1. created' \in 0 .. MaxSessions /\ created <= created' /\ factored' = factored
            BY <1>0, <1>14 DEF RevokeCommit
        <3>2. \A t \in Sids : rows'[t].line = rows[t].line \/ t = created + 1
            BY <1>0, <1>14, RowsOfRevocation DEF RevokeCommit
        <3>3. \A t \in 1 .. created : t \in Sids /\ t # created + 1
            BY <1>0 DEF Sids
        <3> QED BY <3>1, <3>2, <3>3
    <2>2. \A q \in Requests : /\ pc'[q] \in {"logout", "satisfy"} => pc'[q] = pc[q] /\ sid'[q] = sid[q]
                              /\ todo'[q] \subseteq todo[q]
        BY <1>0, <1>14 DEF RevokeCommit, Done, Go
    <2> QED BY <1>0, <2>1, <2>2
<1>15. ASSUME NEW r \in Requests, Fail(r) PROVE Working'
    BY <1>0, <1>15 DEF Fail, Done, Go
<1>16. ASSUME NEW s \in Sids, Expire(s) PROVE Working'
    <2>1. /\ created' \in 0 .. MaxSessions /\ created <= created' /\ factored' = factored
          /\ \A t \in 1 .. created : rows'[t].line = rows[t].line
        <3>1. created' \in 0 .. MaxSessions /\ created <= created' /\ factored' = factored
            BY <1>0, <1>16 DEF Expire
        <3>2. \A t \in Sids : rows'[t].line = rows[t].line \/ t = created + 1
            BY <1>0, <1>16, RowEnds DEF Expire
        <3>3. \A t \in 1 .. created : t \in Sids /\ t # created + 1
            BY <1>0 DEF Sids
        <3> QED BY <3>1, <3>2, <3>3
    <2>2. \A q \in Requests : /\ pc'[q] \in {"logout", "satisfy"} => pc'[q] = pc[q] /\ sid'[q] = sid[q]
                              /\ todo'[q] \subseteq todo[q]
        BY <1>0, <1>16 DEF Expire
    <2> QED BY <1>0, <2>1, <2>2
<1>17. CASE Reactivate \/ UNCHANGED vars
    BY <1>0, <1>17 DEF Reactivate
<1> QED BY <1>1, <1>2, <1>3, <1>4, <1>5, <1>6, <1>7, <1>8, <1>9, <1>10, <1>11, <1>12,
        <1>13, <1>14, <1>15, <1>16, <1>17 DEF Next, Request

-----------------------------------------------------------------------------
(* The four properties. *)

\* Only a sign-in and a rotation make a row live; what every other step leaves
\* live was so before, of the same sign-in and as late.
LEMMA NoNewRow ==
    ASSUME SessionsAssumption, TypeOK, Locks, Working, [Next]_vars,
           \A r \in Requests : ~LoginCreate(r) /\ ~RotateCommit(r)
    PROVE  \A t \in Sids : rows'[t].status = "live" =>
              /\ rows[t].status = "live" /\ rows'[t].line = rows[t].line
              /\ rows'[t].late = rows[t].late /\ rows[t].era <= rows'[t].era
<1> DEFINE Kept == \A t \in Sids : rows'[t].status = "live" =>
              /\ rows[t].status = "live" /\ rows'[t].line = rows[t].line
              /\ rows'[t].late = rows[t].late /\ rows[t].era <= rows'[t].era
<1>1. RowTypes /\ \A t \in Sids : rows[t].era <= rows[t].era
    <2>1. \A t \in Sids : rows[t] \in Row
        BY TypeParts DEF RowTypes
    <2> QED BY <2>1, TypeParts DEF Row, SessionsAssumption
<1>2. ASSUME NEW s \in Sids, rows' = [rows EXCEPT ![s] = Dead(@)] PROVE Kept
    <2>1. /\ rows'[s].status = "dead"
          /\ \A t \in Sids : t # s => rows'[t] = rows[t]
        BY <1>1, <1>2, RowEnds
    <2> QED BY <1>1, <2>1
<1>3. ASSUME NEW r \in Requests, LogoutRevoke(r) PROVE Kept
    <2>1. sid[r] \in Sids
        BY <1>3, TypeParts DEF LogoutRevoke, Working, Numbers, Sids, SessionsAssumption
    <2> QED BY <1>2, <1>3, <2>1 DEF LogoutRevoke
<1>4. ASSUME NEW r \in Requests, FactorMark(r) PROVE Kept
    BY <1>1, <1>4, RowOfFactor
<1>5. ASSUME NEW r \in Requests, RevokeCommit(r) PROVE Kept
    BY <1>1, <1>5, RowsOfRevocation
<1>6. ASSUME NEW s \in Sids, Expire(s) PROVE Kept
    BY <1>2, <1>6 DEF Expire
<1>7. CASE ~WritesTable
    BY <1>1, <1>7, TableWritten
<1> QED BY <1>3, <1>4, <1>5, <1>6, <1>7 DEF WritesTable

\* The rows a step reads by their lines.
LEMMA LinesOfLive ==
    ASSUME SessionsAssumption, TypeOK, Lines, NEW t \in Sids, Live(t)
    PROVE  t # created + 1 /\ rows[t].line \in 1 .. created
           /\ rows[t].line # created + 1 /\ created \in Nat
<1>1. t \in 1 .. created /\ created \in 0 .. MaxSessions
    BY LiveIsCreated, TypeParts DEF Numbers
<1>2. rows[t].line \in 1 .. created
    BY <1>1 DEF Lines
<1> QED BY <1>1, <1>2 DEF SessionsAssumption

\* A rotation hands the line from the row it ends to the row it makes.
LEMMA OneLivePerSignInStep ==
    ASSUME SessionsAssumption, TypeOK, Locks, Lines, Working, OneLivePerSignIn, [Next]_vars
    PROVE  OneLivePerSignIn'
<1> SUFFICES ASSUME NEW s \in Sids, NEW t \in Sids, s # t,
                    rows'[s].status = "live", rows'[t].status = "live"
             PROVE  rows'[s].line # rows'[t].line
    BY DEF OneLivePerSignIn, Live
<1>1. \A u, v \in Sids : rows[u].status = "live" /\ rows[v].status = "live" /\ u # v =>
          rows[u].line # rows[v].line
    BY DEF OneLivePerSignIn, Live
<1>2. ASSUME NEW r \in Requests, LoginCreate(r) PROVE rows'[s].line # rows'[t].line
    <2>1. \A u \in Sids : u # created + 1 => rows'[u] = rows[u]
        BY <1>2, RowOfLogin
    <2>2. rows'[created + 1].line = created + 1
        BY <1>2, RowOfLogin
    <2>3. \A u \in Sids : rows[u].status = "live" => rows[u].line # created + 1
        BY LinesOfLive DEF Live
    <2> QED BY <1>1, <2>1, <2>2, <2>3
<1>3. ASSUME NEW r \in Requests, RotateCommit(r) PROVE rows'[s].line # rows'[t].line
    <2>1. /\ sid[r] \in Sids /\ rows[sid[r]].status = "live"
          /\ rows'[sid[r]].status = "dead"
          /\ rows'[created + 1].line = rows[sid[r]].line
          /\ \A u \in Sids : u # sid[r] /\ u # created + 1 => rows'[u] = rows[u]
        BY <1>3, RowOfRotation DEF Locks, Live, RotateCommit
    <2> QED BY <1>1, <2>1
<1>4. CASE \A r \in Requests : ~LoginCreate(r) /\ ~RotateCommit(r)
    BY <1>1, <1>4, NoNewRow
<1> QED BY <1>2, <1>3, <1>4

\* A new row is satisfied if none is owed, or if the row it succeeds was.
LEMMA FactorBeforeAccessStep ==
    ASSUME SessionsAssumption, TypeOK, Locks, Lines, Working, FactorBeforeAccess, [Next]_vars
    PROVE  FactorBeforeAccess'
<1> SUFFICES ASSUME secondFactor, NEW t \in Sids, rows'[t].status = "live", rows'[t].mfa
             PROVE  rows'[t].line \in factored'
    BY FactorKept DEF FactorBeforeAccess, Live
<1>1. \A u \in Sids : rows[u].status = "live" /\ rows[u].mfa => rows[u].line \in factored
    BY DEF FactorBeforeAccess, Live
<1>2. factored \subseteq factored'
    BY FactorKept
<1>3. ASSUME NEW r \in Requests, LoginCreate(r) PROVE rows'[t].line \in factored'
    <2>1. ~rows'[created + 1].mfa /\ \A u \in Sids : u # created + 1 => rows'[u] = rows[u]
        BY <1>3, RowOfLogin
    <2>2. rows'[t] = rows[t]
        BY <2>1
    <2> QED BY <1>1, <1>2, <2>2
<1>4. ASSUME NEW r \in Requests, RotateCommit(r) PROVE rows'[t].line \in factored'
    <2>1. /\ sid[r] \in Sids /\ rows[sid[r]].status = "live"
          /\ rows'[sid[r]].status = "dead"
          /\ rows'[created + 1].line = rows[sid[r]].line
          /\ rows'[created + 1].mfa = rows[sid[r]].mfa
          /\ \A u \in Sids : u # sid[r] /\ u # created + 1 => rows'[u] = rows[u]
        BY <1>4, RowOfRotation DEF Locks, Live, RotateCommit
    <2>2. CASE t = created + 1
        BY <1>1, <1>2, <2>1, <2>2
    <2>3. CASE t # created + 1
        BY <1>1, <1>2, <2>1, <2>3
    <2> QED BY <2>2, <2>3
<1>5. ASSUME NEW r \in Requests, FactorMark(r) PROVE rows'[t].line \in factored'
    <2>1. /\ rows[sid[r]].line \in factored
          /\ rows'[t].line = rows[t].line
          /\ t # sid[r] => rows'[t] = rows[t]
        BY <1>5, RowOfFactor
    <2> QED BY <1>1, <1>2, <2>1
<1>6. ASSUME NEW r \in Requests, RevokeCommit(r) PROVE rows'[t].line \in factored'
    <2>1. /\ rows'[t].line = rows[t].line /\ rows'[t].status = rows[t].status
          /\ rows'[t].mfa = rows[t].mfa
        BY <1>6, RowsOfRevocation
    <2> QED BY <1>1, <1>2, <2>1
<1>7. ASSUME NEW s \in Sids, rows' = [rows EXCEPT ![s] = Dead(@)]
      PROVE  rows'[t].line \in factored'
    <2>1. rows'[s].status = "dead" /\ \A u \in Sids : u # s => rows'[u] = rows[u]
        BY <1>7, RowEnds, TypeParts
    <2>2. rows'[t] = rows[t]
        BY <2>1
    <2> QED BY <1>1, <1>2, <2>2
<1>8. ASSUME NEW r \in Requests, LogoutRevoke(r) PROVE rows'[t].line \in factored'
    <2>1. sid[r] \in Sids
        BY <1>8, TypeParts DEF LogoutRevoke, Working, Numbers, Sids, SessionsAssumption
    <2> QED BY <1>7, <1>8, <2>1 DEF LogoutRevoke
<1>9. ASSUME NEW s \in Sids, Expire(s) PROVE rows'[t].line \in factored'
    BY <1>7, <1>9 DEF Expire
<1>10. CASE ~WritesTable
    BY <1>1, <1>2, <1>10, TableWritten
<1> QED BY <1>3, <1>4, <1>5, <1>6, <1>8, <1>9, <1>10 DEF WritesTable

\* The row a log-out ends was the only live one of its sign-in.
LEMMA LogoutEndsStep ==
    ASSUME SessionsAssumption, TypeOK, Locks, Lines, Working, OneLivePerSignIn, LogoutEnds,
           [Next]_vars
    PROVE  LogoutEnds'
<1> SUFFICES ASSUME NEW t \in Sids, rows'[t].status = "live"
             PROVE  rows'[t].line \notin loggedOut'
    BY DEF LogoutEnds, Live
<1>1. \A u \in Sids : rows[u].status = "live" => rows[u].line \notin loggedOut
    BY DEF LogoutEnds, Live
<1>2. ASSUME NEW r \in Requests, LoginCreate(r) PROVE rows'[t].line \notin loggedOut'
    <2>1. /\ rows'[created + 1].line = created + 1
          /\ \A u \in Sids : u # created + 1 => rows'[u] = rows[u]
          /\ loggedOut' = loggedOut
        BY <1>2, RowOfLogin DEF LoginCreate, history
    <2>2. created + 1 \notin loggedOut
        BY TypeParts DEF Lines, Numbers, SessionsAssumption
    <2> QED BY <1>1, <2>1, <2>2
<1>3. ASSUME NEW r \in Requests, RotateCommit(r) PROVE rows'[t].line \notin loggedOut'
    <2>1. /\ sid[r] \in Sids /\ rows[sid[r]].status = "live"
          /\ rows'[sid[r]].status = "dead"
          /\ rows'[created + 1].line = rows[sid[r]].line
          /\ \A u \in Sids : u # sid[r] /\ u # created + 1 => rows'[u] = rows[u]
          /\ loggedOut' = loggedOut
        BY <1>3, RowOfRotation DEF Locks, Live, RotateCommit, history
    <2> QED BY <1>1, <2>1
<1>4. ASSUME NEW r \in Requests, LogoutRevoke(r) PROVE rows'[t].line \notin loggedOut'
    <2>1. sid[r] \in Sids
        BY <1>4, TypeParts DEF LogoutRevoke, Working, Numbers, Sids, SessionsAssumption
    <2>2. rows'[sid[r]].status = "dead" /\ \A u \in Sids : u # sid[r] => rows'[u] = rows[u]
        BY <1>4, <2>1, RowEnds, TypeParts DEF LogoutRevoke
    <2>3. t # sid[r] /\ rows'[t] = rows[t]
        BY <2>2
    <2>4. rows[sid[r]].status = "live" => rows[t].line # rows[sid[r]].line
        BY <2>1, <2>3 DEF OneLivePerSignIn, Live
    <2>5. loggedOut' = IF rows[sid[r]].status = "live"
                       THEN loggedOut \cup {rows[sid[r]].line} ELSE loggedOut
        BY <1>4 DEF LogoutRevoke, Live
    <2> QED BY <1>1, <2>3, <2>4, <2>5
<1>5. CASE \A r \in Requests : ~LoginCreate(r) /\ ~RotateCommit(r) /\ ~LogoutRevoke(r)
    <2>1. loggedOut' = loggedOut
        <3>1. CASE ~WritesTable
            BY <3>1, TableWritten
        <3>2. CASE WritesTable
            BY <1>5, <3>2 DEF WritesTable, FactorMark, RevokeCommit, Expire, history
        <3> QED BY <3>1, <3>2
    <2> QED BY <1>1, <1>5, <2>1, NoNewRow
<1> QED BY <1>2, <1>3, <1>4, <1>5

\* What is created beside a revocation is late, or read after its change.
LEMMA OverlapsStep ==
    ASSUME SessionsAssumption, TypeOK, Locks, Working, Overlaps, [Next]_vars
    PROVE  Overlaps'
<1> USE DEF LocalTypes, Overlaps, Live, SessionsAssumption, vars, locals, account,
        table, history
<1>0. LocalTypes /\ RowTypes /\ created \in 0 .. MaxSessions
      /\ era \in 0 .. MaxEra /\ settled \in 0 .. MaxEra
    BY TypeParts DEF Numbers
<1>1. ASSUME NEW r \in Requests, LoginRead(r) PROVE Overlaps'
    BY <1>0, <1>1 DEF LoginRead, Go
<1>2. ASSUME NEW r \in Requests, LoginCreate(r) PROVE Overlaps'
    BY <1>0, <1>2, RowOfLogin DEF LoginCreate, Done, Go
<1>3. ASSUME NEW r \in Requests, RotateUpdate(r) PROVE Overlaps'
    BY <1>0, <1>3 DEF RotateUpdate, Go, Unlocked, Revoking
<1>4. ASSUME NEW r \in Requests, RotateCommit(r) PROVE Overlaps'
    <2>1. /\ pc'[r] = "idle" /\ eraSeen'[r] = 0
          /\ \A q \in Requests : q # r => /\ pc'[q] = pc[q] /\ late'[q] = late[q]
                                          /\ eraSeen'[q] = eraSeen[q] /\ sid'[q] = sid[q]
                                          /\ todo'[q] = todo[q]
        BY <1>0, <1>4 DEF RotateCommit, Done, Go
    <2>2. /\ rows'[created + 1].late = (rows[sid[r]].late \/ late[r])
          /\ rows'[sid[r]].status = "dead"
          /\ \A t \in Sids : t # sid[r] /\ t # created + 1 => rows'[t] = rows[t]
        BY <1>4, RowOfRotation
    <2>3. \A q \in Requests : pc[q] = "revoking" => late[r]
        BY <1>4 DEF RotateCommit
    <2>4. UNCHANGED <<settled, era>>
        BY <1>4 DEF RotateCommit
    <2>5. ASSUME NEW q \in Requests, NEW t \in Sids, pc'[q] = "revoking",
                 rows'[t].status = "live", t \notin todo'[q], t # sid'[q]
          PROVE  rows'[t].late \/ eraSeen'[q] <= rows'[t].era
        <3>1. q # r /\ pc[q] = "revoking" /\ t \notin todo[q] /\ t # sid[q]
              /\ eraSeen'[q] = eraSeen[q] /\ late[r]
            BY <2>1, <2>3, <2>5
        <3>2. CASE t = created + 1
            BY <2>2, <3>1, <3>2
        <3>3. CASE t # created + 1
            BY <2>2, <2>5, <3>1, <3>3
        <3> QED BY <3>2, <3>3
    <2>6. \A q \in Requests : eraSeen'[q] <= era'
        BY <1>0, <2>1, <2>4
    <2> QED BY <2>1, <2>4, <2>5, <2>6
<1>5. ASSUME NEW r \in Requests, LogoutResolve(r) PROVE Overlaps'
    BY <1>0, <1>5 DEF LogoutResolve, Go
<1>6. ASSUME NEW r \in Requests, LogoutRevoke(r) PROVE Overlaps'
    <2>1. /\ pc'[r] = "idle" /\ eraSeen'[r] = 0
          /\ \A q \in Requests : q # r => /\ pc'[q] = pc[q] /\ late'[q] = late[q]
                                          /\ eraSeen'[q] = eraSeen[q] /\ sid'[q] = sid[q]
                                          /\ todo'[q] = todo[q]
        BY <1>0, <1>6 DEF LogoutRevoke, Done, Go
    <2>2. UNCHANGED <<settled, era>>
        BY <1>6 DEF LogoutRevoke
    <2>4. \A t \in Sids : rows'[t].status = "live" =>
              rows[t].status = "live" /\ rows'[t].late = rows[t].late
              /\ rows'[t].era = rows[t].era
        <3>1. sid[r] \in Sids
            BY <1>0, <1>6 DEF LogoutRevoke, Working, Sids
        <3>2. rows'[sid[r]].status = "dead" /\ \A t \in Sids : t # sid[r] => rows'[t] = rows[t]
            BY <1>0, <1>6, <3>1, RowEnds DEF LogoutRevoke
        <3> QED BY <3>2
    <2>5. \A q \in Requests : eraSeen'[q] <= era'
        BY <1>0, <2>1, <2>2
    <2> QED BY <2>1, <2>2, <2>4, <2>5
<1>7. ASSUME NEW r \in Requests, FactorVerify(r) PROVE Overlaps'
    BY <1>0, <1>7 DEF FactorVerify, Go
<1>8. ASSUME NEW r \in Requests, FactorMark(r) PROVE Overlaps'
    BY <1>0, <1>8, RowOfFactor DEF FactorMark, Done, Go
<1>9. ASSUME NEW r \in Requests, RevokeOthersResolve(r) PROVE Overlaps'
    BY <1>0, <1>9 DEF RevokeOthersResolve, Go
<1>10. ASSUME NEW r \in Requests, ChangeResolve(r) PROVE Overlaps'
    BY <1>0, <1>10 DEF ChangeResolve, Go
<1>11. ASSUME NEW r \in Requests, ChangeWrite(r) PROVE Overlaps'
    BY <1>0, <1>11 DEF ChangeWrite, Go
<1>12. ASSUME NEW r \in Requests, Deactivate(r) PROVE Overlaps'
    BY <1>0, <1>12 DEF Deactivate, Go
<1>13. ASSUME NEW r \in Requests, RevokeSnapshot(r) PROVE Overlaps'
    BY <1>0, <1>13 DEF RevokeSnapshot, Go
<1>14. ASSUME NEW r \in Requests, RevokeCommit(r) PROVE Overlaps'
    <2>1. /\ pc'[r] = "idle" /\ eraSeen'[r] = 0
          /\ \A q \in Requests : q # r => /\ pc'[q] = pc[q] /\ late'[q] = late[q]
                                          /\ eraSeen'[q] = eraSeen[q] /\ sid'[q] = sid[q]
                                          /\ todo'[q] = todo[q]
        BY <1>0, <1>14 DEF RevokeCommit, Done, Go
    <2>2. era' = era /\ settled' = Larger(settled, eraSeen[r]) /\ pc[r] = "revoking"
        BY <1>14 DEF RevokeCommit
    <2>3. /\ settled' <= era'
          /\ \A q \in Requests : pc'[q] = "create" => late'[q] \/ settled' <= eraSeen'[q]
          /\ \A q \in Requests : eraSeen'[q] <= era'
        BY <1>0, <2>1, <2>2 DEF Larger
    <2>4. \A t \in Sids : rows'[t].status = "live" =>
              rows[t].status = "live" /\ rows'[t].late = rows[t].late
              /\ rows[t].era <= rows'[t].era
        BY <1>14, RowsOfRevocation
    <2>5. \A t \in Sids : rows[t].era \in 0 .. MaxEra /\ rows'[t].era \in 0 .. MaxEra
        BY <1>0, <1>14, RowsOfRevocation DEF RowTypes, Row
    <2>6. \A q \in Requests, t \in Sids :
              eraSeen[q] <= rows[t].era /\ rows[t].era <= rows'[t].era =>
                  eraSeen[q] <= rows'[t].era
        BY <1>0, <2>5
    <2> QED BY <2>1, <2>3, <2>4, <2>6
<1>15. ASSUME NEW r \in Requests, Fail(r) PROVE Overlaps'
    BY <1>0, <1>15 DEF Fail, Done, Go
<1>16. ASSUME NEW s \in Sids, Expire(s) PROVE Overlaps'
    <2>1. UNCHANGED <<locals, settled, era>>
        BY <1>16 DEF Expire
    <2>2. rows'[s].status = "dead" /\ \A t \in Sids : t # s => rows'[t] = rows[t]
        BY <1>0, <1>16, RowEnds DEF Expire
    <2>3. \A t \in Sids : rows'[t].status = "live" => rows'[t] = rows[t]
        BY <2>2
    <2> QED BY <2>1, <2>3
<1>17. CASE Reactivate \/ UNCHANGED vars
    BY <1>0, <1>17 DEF Reactivate
<1> QED BY <1>1, <1>2, <1>3, <1>4, <1>5, <1>6, <1>7, <1>8, <1>9, <1>10, <1>11, <1>12,
        <1>13, <1>14, <1>15, <1>16, <1>17 DEF Next, Request

\* What survives a revocation has the era it is for, or is late.
LEMMA OnlyLateOnesSurviveStep ==
    ASSUME SessionsAssumption, TypeOK, Locks, Working, Overlaps, OnlyLateOnesSurvive, [Next]_vars
    PROVE  OnlyLateOnesSurvive'
<1> SUFFICES ASSUME NEW t \in Sids, rows'[t].status = "live", rows'[t].era < settled'
             PROVE  rows'[t].late
    BY DEF OnlyLateOnesSurvive, Live
<1>1. \A u \in Sids : rows[u].status = "live" /\ rows[u].era < settled => rows[u].late
    BY DEF OnlyLateOnesSurvive, Live
<1>2. /\ settled \in Nat /\ \A q \in Requests : eraSeen[q] \in Nat
      /\ \A u \in Sids : rows[u].era \in Nat /\ rows'[u].era \in Nat
    <2>1. RowTypes /\ RowTypes' /\ LocalTypes /\ settled \in 0 .. MaxEra
        BY RowTypesStep, TypeParts DEF Numbers
    <2>2. \A u \in Sids : rows[u] \in Row /\ rows'[u] \in Row
        BY <2>1 DEF RowTypes
    <2> QED BY <2>1, <2>2 DEF Row, LocalTypes, SessionsAssumption
<1>3. ASSUME NEW r \in Requests, LoginCreate(r) PROVE rows'[t].late
    <2>1. /\ rows'[created + 1].era = eraSeen[r] /\ rows'[created + 1].late = late[r]
          /\ \A u \in Sids : u # created + 1 => rows'[u] = rows[u]
          /\ settled' = settled /\ pc[r] = "create"
        BY <1>3, RowOfLogin DEF LoginCreate, history
    <2>2. late[r] \/ settled <= eraSeen[r]
        BY <2>1 DEF Overlaps
    <2>3. CASE t = created + 1
        BY <1>2, <2>1, <2>2, <2>3
    <2>4. CASE t # created + 1
        BY <1>1, <2>1, <2>4
    <2> QED BY <2>3, <2>4
<1>4. ASSUME NEW r \in Requests, RotateCommit(r) PROVE rows'[t].late
    <2>1. /\ sid[r] \in Sids /\ rows[sid[r]].status = "live"
          /\ rows'[sid[r]].status = "dead"
          /\ rows'[created + 1].era = rows[sid[r]].era
          /\ rows'[created + 1].late = (rows[sid[r]].late \/ late[r])
          /\ \A u \in Sids : u # sid[r] /\ u # created + 1 => rows'[u] = rows[u]
          /\ settled' = settled
        BY <1>4, RowOfRotation DEF Locks, Live, RotateCommit, history
    <2>2. CASE t = created + 1
        BY <1>1, <2>1, <2>2
    <2>3. CASE t # created + 1
        BY <1>1, <2>1, <2>3
    <2> QED BY <2>2, <2>3
<1>5. ASSUME NEW r \in Requests, RevokeCommit(r) PROVE rows'[t].late
    <2>1. /\ t \notin todo[r] /\ rows[t].status = "live" /\ rows'[t].late = rows[t].late
          /\ rows[t].era <= rows'[t].era
          /\ t = sid[r] => eraSeen[r] <= rows'[t].era
        BY <1>5, RowsOfRevocation DEF Live
    <2>2. settled' = Larger(settled, eraSeen[r]) /\ pc[r] = "revoking"
        BY <1>5 DEF RevokeCommit
    <2>3. t # sid[r] => rows[t].late \/ eraSeen[r] <= rows[t].era
        BY <2>1, <2>2 DEF Overlaps, Live
    <2>4. CASE settled' = settled
        BY <1>1, <1>2, <2>1, <2>4
    <2>5. CASE settled' = eraSeen[r]
        BY <1>2, <2>1, <2>3, <2>5
    <2> QED BY <2>2, <2>4, <2>5 DEF Larger
<1>6. CASE \A r \in Requests : ~LoginCreate(r) /\ ~RotateCommit(r) /\ ~RevokeCommit(r)
    <2>1. settled' = settled
        <3>1. CASE ~WritesTable
            BY <3>1, TableWritten
        <3>2. CASE WritesTable
            BY <1>6, <3>2 DEF WritesTable, FactorMark, LogoutRevoke, Expire, history
        <3> QED BY <3>1, <3>2
    <2>2. /\ rows[t].status = "live" /\ rows'[t].late = rows[t].late
          /\ rows[t].era <= rows'[t].era
        BY <1>6, NoNewRow
    <2> QED BY <1>1, <1>2, <2>1, <2>2
<1> QED BY <1>3, <1>4, <1>5, <1>6

-----------------------------------------------------------------------------
(* The invariant, and what follows from it. *)

\* Nothing is in the table when the model begins, ...
LEMMA InitIInv ==
    ASSUME SessionsAssumption
    PROVE  Init => IInv
<1> SUFFICES ASSUME Init PROVE IInv
    OBVIOUS
<1>1. \A s \in Sids : rows[s] = Absent
    BY DEF Init
<1>2. TypeOK
    <2>1. RowTypes
        BY DEF Init, RowTypes, Row, Absent, SessionsAssumption
    <2>2. RowsCreated
        BY <1>1 DEF Init, RowsCreated, Absent, Sids
    <2>3. Numbers /\ LocalTypes /\ LocksHeld
        BY DEF Init, Numbers, LocalTypes, LocksHeld, SessionsAssumption
    <2> QED BY <2>1, <2>2, <2>3, TypeParts
<1>3. \A s \in Sids : ~Live(s)
    BY <1>1 DEF Live, Absent
<1>4. Locks /\ Lines /\ Working
    BY DEF Init, Locks, Lines, Working
<1>5. Overlaps
    BY <1>3 DEF Init, Overlaps
<1> QED BY <1>2, <1>3, <1>4, <1>5 DEF IInv, OneLivePerSignIn, FactorBeforeAccess,
       LogoutEnds, OnlyLateOnesSurvive

\* ... and every step keeps the invariant.
LEMMA StepIInv ==
    ASSUME SessionsAssumption, IInv, [Next]_vars
    PROVE  IInv'
<1>1. TypeOK /\ Locks /\ Lines /\ Working /\ Overlaps
      /\ OneLivePerSignIn /\ FactorBeforeAccess /\ LogoutEnds /\ OnlyLateOnesSurvive
    BY DEF IInv
<1>2. Numbers' /\ RowTypes' /\ LocalTypes' /\ RowsCreated' /\ LocksHeld'
    BY <1>1, NumbersStep, RowTypesStep, LocalTypesStep, RowsCreatedStep, LocksHeldStep
<1>3. TypeOK'
    BY <1>2 DEF TypeOK, Numbers, RowTypes, Row, LocalTypes, RowsCreated, LocksHeld
<1>4. Locks' /\ Lines' /\ Working' /\ Overlaps'
    BY <1>1, LocksStep, LinesStep, WorkingStep, OverlapsStep
<1>5. OneLivePerSignIn' /\ FactorBeforeAccess' /\ LogoutEnds' /\ OnlyLateOnesSurvive'
    BY <1>1, OneLivePerSignInStep, FactorBeforeAccessStep, LogoutEndsStep,
       OnlyLateOnesSurviveStep
<1> QED BY <1>3, <1>4, <1>5 DEF IInv

\* The invariant of the sessions table, for all sets of requests, of rows and of
\* changes of password.
THEOREM SessionsInvariant ==
    ASSUME SessionsAssumption
    PROVE  Spec => []IInv
BY InitIInv, StepIInv, PTL DEF Spec

\* A sign-in has one live session at most, however often its token is
\* presented (SessionRepo.Rotate).
THEOREM SessionsOneLive ==
    ASSUME SessionsAssumption
    PROVE  Spec => []OneLivePerSignIn
<1>1. IInv => OneLivePerSignIn
    BY DEF IInv
<1> QED BY <1>1, SessionsInvariant, PTL

\* No session passes for satisfied whose sign-in proved no second factor
\* (SessionRepo.Create, Rotate and MarkMFASatisfied).
THEOREM SessionsFactor ==
    ASSUME SessionsAssumption
    PROVE  Spec => []FactorBeforeAccess
<1>1. IInv => FactorBeforeAccess
    BY DEF IInv
<1> QED BY <1>1, SessionsInvariant, PTL

\* A log-out that found its row is final (SessionRepo.Revoke).
THEOREM SessionsLogout ==
    ASSUME SessionsAssumption
    PROVE  Spec => []LogoutEnds
<1>1. IInv => LogoutEnds
    BY DEF IInv
<1> QED BY <1>1, SessionsInvariant, PTL

\* A completed revocation leaves at most what was being created while it ran
\* (SessionRepo.RevokeAllForUser).
THEOREM SessionsRevoked ==
    ASSUME SessionsAssumption
    PROVE  Spec => []OnlyLateOnesSurvive
<1>1. IInv => OnlyLateOnesSurvive
    BY DEF IInv
<1> QED BY <1>1, SessionsInvariant, PTL
=============================================================================
