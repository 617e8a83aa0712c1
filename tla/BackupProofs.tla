---------------------------- MODULE BackupProofs ----------------------------
(***************************************************************************)
(* Proofs about backup and restore, for all sets of accounts and clusters, *)
(* every archive and every number of exports, restores and changes made by *)
(* administrators between their statements.  An archive is closed because  *)
(* accounts are never removed and the grants of a cluster are listed only  *)
(* when the cluster is in the draft (Exporting); a restore is complete     *)
(* because what has left its draft is in the rows (Back), and it spares    *)
(* what was there because the cluster in its hands is one it created       *)
(* (InHand).                                                               *)
(***************************************************************************)
EXTENDS Backup, TLAPS

\* A record with the shape of an archive.
Shape ==
    [users: [Users -> Emails \cup {None}],
     clusters: [Clusters -> Entry \cup {NoEntry}],
     grants: [Users \X Clusters -> Level \cup {None}],
     setting: BOOLEAN]

Types == TypeOK /\ dryRun \in BOOLEAN /\ draft \in Shape

\* The foreign keys of the grants.
ForeignKeys ==
    \A u \in Users, c \in Clusters :
        grants[<<u, c>>] # None => users[u] # None /\ clusters[c] # NoRow

\* An id that is in a row or in an archive is minted, so an account of the
\* archive's id has the archive's address.
Ids ==
    /\ \A u \in Users : users[u] # None \/ draft.users[u] # None => u \in minted
    /\ \A c \in Clusters : clusters[c] # NoRow \/ draft.clusters[c] # NoEntry => c \in minted
    /\ file # Torn =>
          /\ \A u \in Users : file.users[u] # None => u \in minted
          /\ \A c \in Clusters : file.clusters[c] # NoEntry => c \in minted
          /\ \A u \in Users :
                users[u] # None /\ file.users[u] # None => users[u] = file.users[u]

\* What an export has drafted so far makes sense.
Exporting ==
    /\ pc \in {"credential", "grants", "write"} =>
          /\ UniqueNames(draft.clusters)
          /\ \A u \in Users, c \in Clusters :
                draft.grants[<<u, c>>] # None =>
                    users[u] # None /\ draft.clusters[c] # NoEntry
          /\ \A c \in todo : draft.clusters[c] # NoEntry
    /\ pc = "grants" => current \in Clusters /\ draft.clusters[current] # NoEntry
    /\ pc = "write" =>
          draft \in Archive /\ \A u \in Users : draft.users[u] # None => users[u] = draft.users[u]

\* A cluster that was there when the command began goes only with a delete.
Began ==
    /\ before \subseteq Clusters
    /\ \A c \in before : clusters[c] = NoRow => c \in changed
    /\ pc # "idle" => outcome = "none"

Restoring == pc \in {"users", "restoreGrants"}

\* What is left of a restore's draft is of the archive.
Taken ==
    Restoring =>
        /\ file # Torn
        /\ \A u \in Users : draft.users[u] # None => draft.users[u] = file.users[u]
        /\ \A c \in Clusters :
              draft.clusters[c] # NoEntry => draft.clusters[c] = file.clusters[c]
        /\ \A g \in Users \X Clusters :
              draft.grants[g] # None => draft.grants[g] = file.grants[g]
        /\ pc = "restoreGrants" =>
              /\ \A u \in Users : draft.users[u] = None
              /\ \A c \in Clusters : draft.clusters[c] = NoEntry

\* The cluster a restore has in hand is the one it made, or was changed since:
\* it was not there when the restore began and left alone.
InHand ==
    Restoring /\ current # None =>
        /\ pc = "users" /\ ~dryRun
        /\ current \in Clusters /\ draft.clusters[current] # NoEntry
        /\ current \notin before \ changed
        /\ clusters[current] # NoRow \/ current \in changed

\* What the archive asks for is there, but for what administrators changed.
UserBack(u) == file.users[u] # None => \E v \in Users : users[v] = file.users[u]
ClusterBack(c) ==
    file.clusters[c] # NoEntry /\ c \notin changed =>
        /\ clusters[c] # NoRow
        /\ c \notin before => clusters[c].readOnly = file.clusters[c].readOnly
GrantBack(g) == file.grants[g] # None /\ g \notin changed => grants[g] = file.grants[g]

\* What has left the draft is back, and a cluster that has not is there only
\* if it was before, or if an administrator made it, or if it is in hand.
Back ==
    Restoring /\ ~dryRun =>
        /\ \A u \in Users : draft.users[u] # None \/ UserBack(u)
        /\ \A c \in Clusters : draft.clusters[c] # NoEntry \/ ClusterBack(c)
        /\ \A g \in Users \X Clusters : draft.grants[g] # None \/ GrantBack(g)
        /\ \A c \in Clusters :
              clusters[c] # NoRow /\ draft.clusters[c] # NoEntry =>
                  c \in before \/ c \in changed \/ c = current

\* A restore that succeeded has brought all of it back.
Full ==
    outcome = "restored" /\ ~dryRun =>
        /\ file # Torn
        /\ \A u \in Users : UserBack(u)
        /\ \A c \in Clusters : ClusterBack(c)
        /\ \A g \in Users \X Clusters : GrantBack(g)

IInv ==
    /\ Types /\ ArchiveIsClosed /\ ForeignKeys /\ Ids /\ Exporting /\ Began
    /\ Taken /\ InHand /\ Back /\ Full

-----------------------------------------------------------------------------
(* Facts about the data. *)

\* What stands for no row is none.
LEMMA NoRowFacts ==
    ASSUME BackupAssumption
    PROVE  /\ NoRow \notin Row /\ NoEntry \notin Entry
           /\ NoRow.name = None /\ NoEntry.name = None
           /\ \A e \in Entry \cup {NoEntry} : e.name = None => e = NoEntry
           /\ \A r \in Row \cup {NoRow} : r.name = None => r = NoRow
BY DEF BackupAssumption, NoRow, NoEntry, Row, Entry

\* The empty archive asks for nothing.
LEMMA EmptyFacts ==
    /\ Empty \in Shape
    /\ \A u \in Users : Empty.users[u] = None
    /\ \A c \in Clusters : Empty.clusters[c] = NoEntry
    /\ \A g \in Users \X Clusters : Empty.grants[g] = None
BY DEF Empty, Shape

\* An archive has the shape of one, and a grant in it names what is in it.
LEMMA ArchiveFacts ==
    ASSUME NEW a
    PROVE  a \in Archive <=>
             /\ a \in Shape /\ Injective(a.users, None) /\ UniqueNames(a.clusters)
             /\ \A u \in Users, c \in Clusters :
                   a.grants[<<u, c>>] # None => a.users[u] # None /\ a.clusters[c] # NoEntry
<1>1. a \in Shape => Existing(a.grants, None) = {g \in Users \X Clusters : a.grants[g] # None}
    BY DEF Shape, Existing
<1>2. a \in Shape =>
        (Closed(a) <=> \A u \in Users, c \in Clusters :
            a.grants[<<u, c>>] # None => a.users[u] # None /\ a.clusters[c] # NoEntry)
    BY <1>1 DEF Closed
<1> QED BY <1>2 DEF Archive, Shape

\* A restore is done with one entry of its draft.
LEMMA TakeUser ==
    ASSUME draft \in Shape, NEW u \in Users, draft' = [draft EXCEPT !.users[u] = None]
    PROVE  /\ draft' \in Shape
           /\ \A v \in Users : draft'.users[v] = IF v = u THEN None ELSE draft.users[v]
           /\ draft'.clusters = draft.clusters /\ draft'.grants = draft.grants
           /\ draft'.setting = draft.setting
<1>1. draft.users \in [Users -> Emails \cup {None}]
    BY DEF Shape
<1>2. draft' = [draft EXCEPT !.users = [draft.users EXCEPT ![u] = None]]
    BY DEF Shape
<1>3. [draft.users EXCEPT ![u] = None] \in [Users -> Emails \cup {None}]
    BY <1>1
<1> QED BY <1>1, <1>2, <1>3 DEF Shape

\* The same of a cluster.
LEMMA TakeCluster ==
    ASSUME draft \in Shape, NEW c \in Clusters,
           draft' = [draft EXCEPT !.clusters[c] = NoEntry]
    PROVE  /\ draft' \in Shape
           /\ \A d \in Clusters :
                 draft'.clusters[d] = IF d = c THEN NoEntry ELSE draft.clusters[d]
           /\ draft'.users = draft.users /\ draft'.grants = draft.grants
           /\ draft'.setting = draft.setting
<1>1. draft.clusters \in [Clusters -> Entry \cup {NoEntry}]
    BY DEF Shape
<1>2. draft' = [draft EXCEPT !.clusters = [draft.clusters EXCEPT ![c] = NoEntry]]
    BY DEF Shape
<1>3. [draft.clusters EXCEPT ![c] = NoEntry] \in [Clusters -> Entry \cup {NoEntry}]
    BY <1>1
<1> QED BY <1>1, <1>2, <1>3 DEF Shape

\* The same of a grant.
LEMMA TakeGrant ==
    ASSUME draft \in Shape, NEW g \in Users \X Clusters,
           draft' = [draft EXCEPT !.grants[g] = None]
    PROVE  /\ draft' \in Shape
           /\ \A h \in Users \X Clusters :
                 draft'.grants[h] = IF h = g THEN None ELSE draft.grants[h]
           /\ draft'.users = draft.users /\ draft'.clusters = draft.clusters
           /\ draft'.setting = draft.setting
<1>1. draft.grants \in [Users \X Clusters -> Level \cup {None}]
    BY DEF Shape
<1>2. draft' = [draft EXCEPT !.grants = [draft.grants EXCEPT ![g] = None]]
    BY DEF Shape
<1>3. [draft.grants EXCEPT ![g] = None] \in [Users \X Clusters -> Level \cup {None}]
    BY <1>1
<1> QED BY <1>1, <1>2, <1>3 DEF Shape

\* What a guard says of the rest of the draft.
LEMMA NoneLeft ==
    ASSUME draft \in Shape
    PROVE  /\ Existing(draft.users, None) = {} <=> \A u \in Users : draft.users[u] = None
           /\ Existing(draft.clusters, NoEntry) = {} <=>
                 \A c \in Clusters : draft.clusters[c] = NoEntry
           /\ Existing(draft.grants, None) = {} <=>
                 \A g \in Users \X Clusters : draft.grants[g] = None
<1>1. /\ Existing(draft.users, None) = {u \in Users : draft.users[u] # None}
      /\ Existing(draft.clusters, NoEntry) = {c \in Clusters : draft.clusters[c] # NoEntry}
      /\ Existing(draft.grants, None) = {g \in Users \X Clusters : draft.grants[g] # None}
    BY DEF Shape, Existing
<1> QED BY <1>1

\* A row that is written keeps its name.
LEMMA EditRow ==
    ASSUME TypeOK, NEW c \in Clusters, NEW r \in Row \cup {NoRow},
           r.name = clusters[c].name, clusters' = [clusters EXCEPT ![c] = r]
    PROVE  /\ clusters' \in [Clusters -> Row \cup {NoRow}] /\ UniqueNames(clusters')
           /\ clusters'[c] = r /\ \A d \in Clusters : d # c => clusters'[d] = clusters[d]
BY DEF TypeOK, UniqueNames

\* A row that is made has a name of its own.
LEMMA MakeRow ==
    ASSUME TypeOK, NEW c \in Clusters, NEW r \in Row,
           \A d \in Clusters : clusters[d].name # r.name,
           clusters' = [clusters EXCEPT ![c] = r]
    PROVE  /\ clusters' \in [Clusters -> Row \cup {NoRow}] /\ UniqueNames(clusters')
           /\ clusters'[c] = r /\ \A d \in Clusters : d # c => clusters'[d] = clusters[d]
BY DEF TypeOK, UniqueNames

\* An account that is made has an address of its own.
LEMMA MakeUser ==
    ASSUME BackupAssumption, TypeOK, NEW u \in Users, NEW e \in Emails,
           \A v \in Users : users[v] # e, users' = [users EXCEPT ![u] = e]
    PROVE  /\ users' \in [Users -> Emails \cup {None}] /\ Injective(users', None)
           /\ users'[u] = e /\ \A v \in Users : v # u => users'[v] = users[v]
<1>1. users' \in [Users -> Emails \cup {None}] /\ users'[u] = e
      /\ \A v \in Users : v # u => users'[v] = users[v]
    BY DEF TypeOK
<1>2. \A x, y \in Users : users'[x] # None /\ users'[y] # None /\ users'[x] = users'[y] => x = y
    BY <1>1 DEF TypeOK, Injective, Existing
<1> QED BY <1>1, <1>2 DEF Injective, Existing

-----------------------------------------------------------------------------
(* What each statement does, entry by entry. *)

\* What administrators may do between two statements.
Administered ==
    /\ changes' # changes
    /\ UNCHANGED <<file, draft, dryRun, todo, current, pc, outcome, ops, before>>
    /\ Types'
    /\ minted \subseteq minted' /\ changed \subseteq changed'
    /\ \A u \in Users :
          /\ users[u] # None => users'[u] = users[u]
          /\ users[u] = None /\ users'[u] # None => u \notin minted /\ u \in minted'
    /\ \A c \in Clusters :
          /\ clusters[c] # NoRow /\ clusters'[c] = NoRow => c \in changed'
          /\ clusters[c] = NoRow /\ clusters'[c] # NoRow =>
                c \notin minted /\ c \in minted' /\ c \in changed'
          /\ c \notin changed' => clusters'[c].readOnly = clusters[c].readOnly
    /\ \A g \in Users \X Clusters : g \notin changed' => grants'[g] = grants[g]
    /\ \A u \in Users, c \in Clusters :
          grants'[<<u, c>>] # None => users'[u] # None /\ clusters'[c] # NoRow

\* An administrator's change is what Administered says of it.
LEMMA AdministrateFacts ==
    ASSUME BackupAssumption, Types, Ids, ForeignKeys, Administrate
    PROVE  Administered
<1> USE DEF Administered, Types, BackupAssumption
<1>1. Change /\ changes' = changes + 1 /\ changes \in Nat /\ changes' \in 0 .. MaxChanges
      /\ changes' # changes
      /\ UNCHANGED <<file, draft, dryRun, todo, current, pc, outcome, ops, before>>
    BY DEF Administrate, Change, command, progress, TypeOK
<1>2. ASSUME NEW u \in Users, NEW e \in Emails, AddUser(u, e) PROVE Administered
    <2>1. /\ u \notin minted /\ users[u] = None /\ minted' = minted \cup {u}
          /\ UNCHANGED <<clusters, grants, setting, changed>>
        BY <1>2 DEF AddUser, Ids
    <2>2. /\ users' \in [Users -> Emails \cup {None}] /\ Injective(users', None)
          /\ users'[u] = e /\ \A v \in Users : v # u => users'[v] = users[v]
        BY <1>2, MakeUser DEF AddUser
    <2>3. TypeOK'
        BY <1>1, <2>1, <2>2 DEF TypeOK
    <2> QED BY <1>1, <2>1, <2>2, <2>3 DEF ForeignKeys
<1>3. ASSUME NEW c \in Clusters, NEW n \in Names, Register(c, n) PROVE Administered
    <2> DEFINE r == [name |-> n, readOnly |-> FALSE, bound |-> "id"]
    <2>1. /\ c \notin minted /\ clusters[c] = NoRow /\ minted' = minted \cup {c}
          /\ changed' = changed \cup {c} /\ UNCHANGED <<users, grants, setting>>
        BY <1>3 DEF Register, Ids
    <2>2. r \in Row /\ r.name = n /\ r # NoRow
        BY NoRowFacts DEF Row, Binding
    <2>3. /\ \A d \in Clusters : clusters[d].name # n
          /\ clusters' = [clusters EXCEPT ![c] = r]
        BY <1>3 DEF Register
    <2> HIDE DEF r
    <2>4. /\ clusters' \in [Clusters -> Row \cup {NoRow}] /\ UniqueNames(clusters')
          /\ clusters'[c] = r /\ \A d \in Clusters : d # c => clusters'[d] = clusters[d]
        BY <2>2, <2>3, MakeRow
    <2>5. TypeOK'
        BY <1>1, <2>1, <2>4 DEF TypeOK
    <2> QED BY <1>1, <2>1, <2>2, <2>4, <2>5 DEF ForeignKeys
<1>4. ASSUME NEW c \in Clusters, ReplaceCredential(c) \/ SetReadOnly(c) PROVE Administered
    <2>1. PICK r \in Row : /\ r.name = clusters[c].name
                           /\ SetReadOnly(c) \/ r.readOnly = clusters[c].readOnly
                           /\ clusters' = [clusters EXCEPT ![c] = r]
        <3>1. clusters[c] \in Row
            BY <1>4 DEF ReplaceCredential, SetReadOnly, TypeOK
        <3>2. CASE ReplaceCredential(c)
            BY <3>1, <3>2 DEF ReplaceCredential, Row, Binding
        <3>3. CASE SetReadOnly(c)
            BY <3>1, <3>3 DEF SetReadOnly, Row
        <3> QED BY <1>4, <3>2, <3>3
    <2>2. r # NoRow /\ clusters[c] # NoRow
        BY <1>4, NoRowFacts DEF ReplaceCredential, SetReadOnly
    <2>3. /\ clusters' \in [Clusters -> Row \cup {NoRow}] /\ UniqueNames(clusters')
          /\ clusters'[c] = r /\ \A d \in Clusters : d # c => clusters'[d] = clusters[d]
        BY <2>1, EditRow
    <2>4. /\ changed \subseteq changed' /\ (SetReadOnly(c) => c \in changed')
          /\ UNCHANGED <<users, grants, setting, minted>>
        BY <1>4 DEF ReplaceCredential, SetReadOnly
    <2>5. TypeOK'
        BY <1>1, <2>3, <2>4 DEF TypeOK
    <2> QED BY <1>1, <2>1, <2>2, <2>3, <2>4, <2>5 DEF ForeignKeys
<1>5. ASSUME NEW c \in Clusters, DeleteCluster(c) PROVE Administered
    <2>1. /\ changed' = changed \cup {c} \cup (Users \X {c})
          /\ UNCHANGED <<users, setting, minted>>
          /\ clusters' = [clusters EXCEPT ![c] = NoRow]
          /\ grants' = [g \in Users \X Clusters |-> IF g[2] = c THEN None ELSE grants[g]]
        BY <1>5 DEF DeleteCluster, TypeOK
    <2>2. /\ clusters' \in [Clusters -> Row \cup {NoRow}] /\ UniqueNames(clusters')
          /\ clusters'[c] = NoRow /\ \A d \in Clusters : d # c => clusters'[d] = clusters[d]
        <3>1. /\ clusters' \in [Clusters -> Row \cup {NoRow}] /\ clusters'[c] = NoRow
              /\ \A d \in Clusters : d # c => clusters'[d] = clusters[d]
            BY <2>1 DEF TypeOK
        <3> QED BY <3>1, NoRowFacts DEF TypeOK, UniqueNames
    <2>3. /\ grants' \in [Users \X Clusters -> Level \cup {None}]
          /\ \A g \in Users \X Clusters :
                grants'[g] = IF g[2] = c THEN None ELSE grants[g]
        BY <2>1 DEF TypeOK
    <2>4. \A g \in Users \X Clusters : g[2] = c => g \in Users \X {c}
        OBVIOUS
    <2>5. TypeOK'
        BY <1>1, <2>1, <2>2, <2>3 DEF TypeOK
    <2> QED BY <1>1, <2>1, <2>2, <2>3, <2>4, <2>5 DEF ForeignKeys
<1>6. ASSUME NEW u \in Users, NEW c \in Clusters, NEW l \in Level \cup {None},
             SetGrant(u, c, l)
      PROVE  Administered
    <2>1. /\ changed' = changed \cup {<<u, c>>} /\ UNCHANGED <<users, clusters, setting, minted>>
          /\ users[u] # None /\ clusters[c] # NoRow
          /\ grants' = [grants EXCEPT ![<<u, c>>] = l]
        BY <1>6 DEF SetGrant
    <2>2. /\ grants' \in [Users \X Clusters -> Level \cup {None}]
          /\ grants'[<<u, c>>] = l
          /\ \A g \in Users \X Clusters : g # <<u, c>> => grants'[g] = grants[g]
        BY <2>1 DEF TypeOK
    <2>3. \A v \in Users, d \in Clusters : <<v, d>> = <<u, c>> => v = u /\ d = c
        OBVIOUS
    <2>4. TypeOK'
        BY <1>1, <2>1, <2>2 DEF TypeOK
    <2> QED BY <1>1, <2>1, <2>2, <2>3, <2>4 DEF ForeignKeys
<1>7. CASE SaveSetting
    <2>1. TypeOK'
        BY <1>1, <1>7 DEF SaveSetting, TypeOK
    <2> QED BY <1>1, <1>7, <2>1 DEF SaveSetting, ForeignKeys
<1> QED BY <1>2, <1>3, <1>4, <1>5, <1>6, <1>7 DEF Administrate

\* An export lists the clusters first.
LEMMA ExportBeginFacts ==
    ASSUME BackupAssumption, Types, ExportBegin
    PROVE  /\ Types' /\ UNCHANGED <<users, clusters, grants, setting, file, minted, changes, dryRun>>
           /\ pc' = "credential" /\ outcome' = "none" /\ current' = None /\ changed' = {}
           /\ \A c \in Clusters : c \in before' <=> clusters[c] # NoRow
           /\ before' \subseteq Clusters
           /\ UniqueNames(draft'.clusters)
           /\ \A c \in Clusters : /\ c \in todo' => draft'.clusters[c] # NoEntry
                                  /\ draft'.clusters[c] # NoEntry => clusters[c] # NoRow
           /\ \A u \in Users : draft'.users[u] = None
           /\ \A g \in Users \X Clusters : draft'.grants[g] = None
<1> DEFINE listed == [c \in Clusters |-> [name |-> clusters[c].name,
                                          readOnly |-> clusters[c].readOnly]]
<1>1. /\ UNCHANGED <<users, clusters, grants, setting, file, minted, changes, dryRun>>
      /\ pc' = "credential" /\ outcome' = "none" /\ current' = None /\ changed' = {}
      /\ ops < MaxOps /\ ops' = ops + 1
      /\ before' = Existing(clusters, NoRow) /\ todo' = Existing(clusters, NoRow)
      /\ draft' = [Empty EXCEPT !.clusters = listed]
    BY DEF ExportBegin, Begin, rows, admins
<1>2. Existing(clusters, NoRow) = {c \in Clusters : clusters[c] # NoRow}
    BY DEF Existing, Types, TypeOK
<1>3. /\ listed \in [Clusters -> Entry \cup {NoEntry}]
      /\ \A c \in Clusters : /\ listed[c] # NoEntry <=> clusters[c] # NoRow
                             /\ listed[c].name = clusters[c].name
  <2>1. ASSUME NEW c \in Clusters
        PROVE  /\ listed[c] \in Entry \cup {NoEntry}
               /\ listed[c] # NoEntry <=> clusters[c] # NoRow
               /\ listed[c].name = clusters[c].name
    <3>1. CASE clusters[c] = NoRow
        <4>1. clusters[c].name = None /\ clusters[c].readOnly = FALSE
            BY <3>1 DEF NoRow
        <4>2. listed[c] = NoEntry
            BY <4>1 DEF NoEntry
        <4> QED BY <3>1, <4>1, <4>2
    <3>2. CASE clusters[c] \in Row
        <4>1. clusters[c].name \in Names /\ clusters[c].readOnly \in BOOLEAN
            BY <3>2 DEF Row
        <4>2. listed[c] \in Entry
            BY <4>1 DEF Entry
        <4> QED BY <3>2, <4>2, NoRowFacts
    <3> QED BY <3>1, <3>2 DEF Types, TypeOK
  <2> QED BY <2>1
<1> HIDE DEF listed
<1>4. draft'.clusters = listed /\ draft'.users = Empty.users /\ draft'.grants = Empty.grants
      /\ draft' \in Shape
    BY <1>1, <1>3, EmptyFacts DEF Shape
<1>5. UniqueNames(listed)
    BY <1>3 DEF UniqueNames, Types, TypeOK
<1>6. TypeOK'
    BY <1>1, <1>2 DEF Types, TypeOK, Places, BackupAssumption
<1> QED BY <1>1, <1>2, <1>3, <1>4, <1>5, <1>6, EmptyFacts DEF Types

\* The command ends, in whatever way.
LEMMA EndFacts ==
    ASSUME BackupAssumption, Types, NEW how, End(how), UNCHANGED <<rows, dryRun, ops, admins>>
    PROVE  /\ Types' /\ pc' = "idle" /\ outcome' = how
           /\ UNCHANGED <<users, clusters, grants, setting, dryRun, ops, minted, changes>>
           /\ todo' = {} /\ current' = None
           /\ \A u \in Users : draft'.users[u] = None
           /\ \A c \in Clusters : draft'.clusters[c] = NoEntry
           /\ \A g \in Users \X Clusters : draft'.grants[g] = None
<1>1. TypeOK'
    BY DEF End, Types, TypeOK, Places, rows, admins
<1> QED BY <1>1, EmptyFacts DEF End, Types, rows, admins

\* One more credential is read.
LEMMA ExportCredentialFacts ==
    ASSUME BackupAssumption, Types, NEW c \in Clusters, ExportCredential(c), pc' # "idle"
    PROVE  /\ Types' /\ pc = "credential" /\ c \in todo /\ pc' = "grants" /\ current' = c
           /\ todo' = todo \ {c} /\ clusters[c] # NoRow
           /\ UNCHANGED <<users, clusters, grants, setting, file, draft, dryRun, outcome, ops,
                          minted, changes, before, changed>>
<1>1. /\ pc = "credential" /\ c \in todo /\ pc' = "grants" /\ current' = c
      /\ todo' = todo \ {c} /\ clusters[c] # NoRow
      /\ UNCHANGED <<users, clusters, grants, setting, file, draft, dryRun, outcome, ops,
                     minted, changes, before, changed>>
    BY DEF ExportCredential, End, Goto, rows, admins, history
<1>2. TypeOK'
    BY <1>1 DEF Types, TypeOK, Places
<1> QED BY <1>1, <1>2 DEF Types

\* The grants of the cluster in hand are listed.
LEMMA ExportGrantsFacts ==
    ASSUME BackupAssumption, Types, ExportGrants
    PROVE  /\ Types' /\ pc = "grants" /\ pc' = "credential" /\ current' = None
           /\ draft'.users = draft.users /\ draft'.clusters = draft.clusters
           /\ \A g \in Users \X Clusters :
                 draft'.grants[g] = IF g[2] = current THEN grants[g] ELSE draft.grants[g]
           /\ UNCHANGED <<users, clusters, grants, setting, file, dryRun, todo, outcome, ops,
                          minted, changes, before, changed>>
<1> DEFINE listed == ListGrants(current)
<1>1. /\ pc = "grants" /\ pc' = "credential" /\ current' = None
      /\ UNCHANGED <<users, clusters, grants, setting, file, dryRun, todo, outcome, ops,
                     minted, changes, before, changed>>
      /\ draft' = [draft EXCEPT !.grants = listed]
    BY DEF ExportGrants, Goto, rows, admins, history
<1>2. /\ listed \in [Users \X Clusters -> Level \cup {None}]
      /\ \A g \in Users \X Clusters :
            listed[g] = IF g[2] = current THEN grants[g] ELSE draft.grants[g]
    BY DEF ListGrants, Types, TypeOK, Shape
<1> HIDE DEF listed
<1>3. /\ draft' \in Shape /\ draft'.grants = listed
      /\ draft'.users = draft.users /\ draft'.clusters = draft.clusters
    BY <1>1, <1>2 DEF Types, Shape
<1>4. TypeOK'
    BY <1>1 DEF Types, TypeOK, Places
<1> QED BY <1>1, <1>2, <1>3, <1>4 DEF Types

\* The accounts come last, with the setting.
LEMMA ExportUsersFacts ==
    ASSUME BackupAssumption, Types, ExportUsers
    PROVE  /\ Types' /\ pc = "credential" /\ pc' = "write"
           /\ draft'.clusters = draft.clusters /\ draft'.grants = draft.grants
           /\ draft'.users = users
           /\ UNCHANGED <<users, clusters, grants, setting, file, dryRun, todo, current, outcome,
                          ops, minted, changes, before, changed>>
<1>1. /\ pc = "credential" /\ pc' = "write"
      /\ UNCHANGED <<users, clusters, grants, setting, file, dryRun, todo, current, outcome,
                     ops, minted, changes, before, changed>>
      /\ draft' = [draft EXCEPT !.users = users, !.setting = setting]
    BY DEF ExportUsers, Goto, rows, admins, history
<1>2. /\ draft' \in Shape /\ draft'.users = users
      /\ draft'.clusters = draft.clusters /\ draft'.grants = draft.grants
    BY <1>1 DEF Types, TypeOK, Shape
<1>3. TypeOK'
    BY <1>1 DEF Types, TypeOK, Places
<1> QED BY <1>1, <1>2, <1>3 DEF Types

\* A restore begins with all of the archive in its draft.
LEMMA RestoreBeginFacts ==
    ASSUME BackupAssumption, Types, ArchiveIsClosed, RestoreBegin
    PROVE  /\ Types' /\ file # Torn /\ pc' = "users" /\ outcome' = "none" /\ current' = None
           /\ draft' = file /\ changed' = {}
           /\ \A c \in Clusters : c \in before' <=> clusters[c] # NoRow
           /\ before' \subseteq Clusters
           /\ UNCHANGED <<users, clusters, grants, setting, file, todo, minted, changes>>
<1>1. /\ file # Torn /\ pc' = "users" /\ outcome' = "none" /\ current' = None
      /\ draft' = file /\ changed' = {} /\ dryRun' \in BOOLEAN
      /\ ops < MaxOps /\ ops' = ops + 1
      /\ before' = Existing(clusters, NoRow)
      /\ UNCHANGED <<users, clusters, grants, setting, file, todo, minted, changes>>
    BY DEF RestoreBegin, Begin, rows, admins
<1>2. Existing(clusters, NoRow) = {c \in Clusters : clusters[c] # NoRow}
    BY DEF Existing, Types, TypeOK
<1>3. file \in Shape
    BY <1>1, ArchiveFacts DEF ArchiveIsClosed
<1>4. TypeOK'
    BY <1>1 DEF Types, TypeOK, Places, BackupAssumption
<1> QED BY <1>1, <1>2, <1>3, <1>4 DEF Types

\* An account is brought back, or one with its id or address is there.
LEMMA RestoreUserFacts ==
    ASSUME BackupAssumption, Types, NEW u \in Users, RestoreUser(u)
    PROVE  /\ Types' /\ pc = "users" /\ draft.users[u] # None
           /\ \A v \in Users : draft'.users[v] = IF v = u THEN None ELSE draft.users[v]
           /\ draft'.clusters = draft.clusters /\ draft'.grants = draft.grants
           /\ \A v \in Users : v # u \/ users[v] # None => users'[v] = users[v]
           /\ users'[u] \in {users[u], draft.users[u]}
           /\ ~dryRun => users'[u] # None \/ \E v \in Users : users[v] = draft.users[u]
           /\ UNCHANGED <<clusters, grants, setting, file, pc, dryRun, todo, current, outcome,
                          ops, minted, changes, before, changed>>
<1>1. /\ pc = "users" /\ draft.users[u] # None
      /\ draft' = [draft EXCEPT !.users[u] = None]
      /\ UNCHANGED <<clusters, grants, setting, file, pc, dryRun, todo, current, outcome,
                     ops, minted, changes, before, changed>>
    BY DEF RestoreUser, progress, admins, history
<1>2. /\ draft' \in Shape
      /\ \A v \in Users : draft'.users[v] = IF v = u THEN None ELSE draft.users[v]
      /\ draft'.clusters = draft.clusters /\ draft'.grants = draft.grants
    BY <1>1, TakeUser DEF Types
<1>3. draft.users[u] \in Emails
    BY <1>1 DEF Types, Shape
<1>4. CASE dryRun \/ Conflicts(u, draft.users[u])
    <2>1. users' = users
        BY <1>4 DEF RestoreUser
    <2>2. TypeOK'
        BY <1>1, <2>1 DEF Types, TypeOK
    <2> QED BY <1>1, <1>2, <1>4, <2>1, <2>2 DEF Types, Conflicts
<1>5. CASE ~(dryRun \/ Conflicts(u, draft.users[u]))
    <2>1. /\ users' = [users EXCEPT ![u] = draft.users[u]] /\ users[u] = None
          /\ \A v \in Users : users[v] # draft.users[u]
        BY <1>5 DEF RestoreUser, Conflicts
    <2>2. /\ users' \in [Users -> Emails \cup {None}] /\ Injective(users', None)
          /\ users'[u] = draft.users[u] /\ \A v \in Users : v # u => users'[v] = users[v]
        BY <1>3, <2>1, MakeUser DEF Types
    <2>3. TypeOK'
        BY <1>1, <2>2 DEF Types, TypeOK
    <2> QED BY <1>1, <1>2, <2>1, <2>2, <2>3 DEF Types
<1> QED BY <1>4, <1>5

\* A cluster is passed over, or made without its write lock and kept in hand.
LEMMA RestoreClusterFacts ==
    ASSUME BackupAssumption, Types, NEW c \in Clusters, RestoreCluster(c), pc' # "idle"
    PROVE  /\ Types' /\ pc = "users" /\ current = None /\ draft.clusters[c] # NoEntry
           /\ \/ /\ clusters[c] # NoRow \/ dryRun
                 /\ \A d \in Clusters :
                       draft'.clusters[d] = IF d = c THEN NoEntry ELSE draft.clusters[d]
                 /\ draft'.users = draft.users /\ draft'.grants = draft.grants
                 /\ UNCHANGED <<clusters, current>>
              \/ /\ clusters[c] = NoRow /\ ~dryRun
                 /\ clusters'[c] # NoRow
                 /\ \A d \in Clusters : d # c => clusters'[d] = clusters[d]
                 /\ current' = c /\ draft' = draft
           /\ UNCHANGED <<users, grants, setting, file, pc, dryRun, todo, outcome,
                          ops, minted, changes, before, changed>>
<1>1. /\ pc = "users" /\ current = None /\ draft.clusters[c] # NoEntry
      /\ UNCHANGED <<users, grants, setting, file, pc, dryRun, todo, outcome,
                     ops, minted, changes, before, changed>>
    BY DEF RestoreCluster, End, progress, admins, history
<1>2. CASE clusters[c] # NoRow \/ dryRun
    <2>1. draft' = [draft EXCEPT !.clusters[c] = NoEntry] /\ UNCHANGED <<clusters, current>>
        BY <1>2 DEF RestoreCluster
    <2>2. /\ draft' \in Shape
          /\ \A d \in Clusters :
                draft'.clusters[d] = IF d = c THEN NoEntry ELSE draft.clusters[d]
          /\ draft'.users = draft.users /\ draft'.grants = draft.grants
        BY <2>1, TakeCluster DEF Types
    <2>3. TypeOK'
        BY <1>1, <2>1 DEF Types, TypeOK
    <2> QED BY <1>1, <1>2, <2>1, <2>2, <2>3 DEF Types
<1>3. CASE ~(clusters[c] # NoRow \/ dryRun)
    <2> DEFINE r == [name |-> draft.clusters[c].name, readOnly |-> FALSE,
                     bound |-> "prefixedId"]
    <2>1. draft.clusters[c] \in Entry
        BY <1>1 DEF Types, Shape
    <2>2. r \in Row /\ r # NoRow /\ r.name = draft.clusters[c].name
        BY <2>1, NoRowFacts DEF Row, Entry, Binding
    <2>3. /\ \A d \in Clusters : clusters[d].name # r.name
          /\ clusters' = [clusters EXCEPT ![c] = r]
          /\ current' = c /\ draft' = draft
        BY <1>3 DEF RestoreCluster, End
    <2> HIDE DEF r
    <2>4. /\ clusters' \in [Clusters -> Row \cup {NoRow}] /\ UniqueNames(clusters')
          /\ clusters'[c] = r /\ \A d \in Clusters : d # c => clusters'[d] = clusters[d]
        BY <2>2, <2>3, MakeRow DEF Types
    <2>5. TypeOK'
        BY <1>1, <2>3, <2>4 DEF Types, TypeOK
    <2> QED BY <1>1, <1>3, <2>2, <2>3, <2>4, <2>5 DEF Types
<1> QED BY <1>2, <1>3

\* The cluster in hand is given the write lock of the archive, if it is still
\* there.
LEMMA SettleClusterFacts ==
    ASSUME BackupAssumption, Types, SettleCluster
    PROVE  /\ Types' /\ pc = "users" /\ current \in Clusters /\ current' = None
           /\ \A d \in Clusters :
                 draft'.clusters[d] = IF d = current THEN NoEntry ELSE draft.clusters[d]
           /\ draft'.users = draft.users /\ draft'.grants = draft.grants
           /\ \A d \in Clusters : d # current => clusters'[d] = clusters[d]
           /\ clusters'[current] # NoRow <=> clusters[current] # NoRow
           /\ clusters[current] # NoRow =>
                 clusters'[current].readOnly = draft.clusters[current].readOnly
           /\ UNCHANGED <<users, grants, setting, file, pc, dryRun, todo, outcome,
                          ops, minted, changes, before, changed>>
<1> DEFINE c == current
<1> DEFINE r == IF clusters[c] = NoRow THEN NoRow
                ELSE [clusters[c] EXCEPT !.readOnly = draft.clusters[c].readOnly]
<1>1. /\ pc = "users" /\ c \in Clusters /\ current' = None
      /\ clusters' = [clusters EXCEPT ![c] = r]
      /\ draft' = [draft EXCEPT !.clusters[c] = NoEntry]
      /\ UNCHANGED <<users, grants, setting, file, pc, dryRun, todo, outcome,
                     ops, minted, changes, before, changed>>
    BY DEF SettleCluster, Types, TypeOK, progress, admins, history
<1>2. /\ r \in Row \cup {NoRow} /\ r.name = clusters[c].name
      /\ r # NoRow <=> clusters[c] # NoRow
      /\ clusters[c] # NoRow => r.readOnly = draft.clusters[c].readOnly
    <2>1. CASE clusters[c] = NoRow
        BY <2>1
    <2>2. CASE clusters[c] \in Row
        <3>1. draft.clusters[c].readOnly \in BOOLEAN
            <4>1. draft.clusters[c] \in Entry \cup {NoEntry}
                BY <1>1 DEF Types, Shape
            <4>2. NoEntry.readOnly \in BOOLEAN
                BY DEF NoEntry
            <4>3. \A e \in Entry : e.readOnly \in BOOLEAN
                BY DEF Entry
            <4> QED BY <4>1, <4>2, <4>3
        <3>2. clusters[c] # NoRow
            BY <2>2, NoRowFacts
        <3>3. r \in Row /\ r.name = clusters[c].name /\ r.readOnly = draft.clusters[c].readOnly
            BY <2>2, <3>1, <3>2 DEF Row
        <3> QED BY <3>2, <3>3, NoRowFacts
    <2> QED BY <1>1, <2>1, <2>2 DEF Types, TypeOK
<1> HIDE DEF r
<1>3. /\ clusters' \in [Clusters -> Row \cup {NoRow}] /\ UniqueNames(clusters')
      /\ clusters'[c] = r /\ \A d \in Clusters : d # c => clusters'[d] = clusters[d]
    BY <1>1, <1>2, EditRow DEF Types
<1>4. /\ draft' \in Shape
      /\ \A d \in Clusters :
            draft'.clusters[d] = IF d = c THEN NoEntry ELSE draft.clusters[d]
      /\ draft'.users = draft.users /\ draft'.grants = draft.grants
    BY <1>1, TakeCluster DEF Types
<1>5. TypeOK'
    BY <1>1, <1>3 DEF Types, TypeOK
<1> QED BY <1>1, <1>2, <1>3, <1>4, <1>5 DEF Types

\* A grant is brought back.
LEMMA RestoreGrantFacts ==
    ASSUME BackupAssumption, Types, NEW g \in Users \X Clusters, RestoreGrant(g), pc' # "idle"
    PROVE  /\ Types' /\ pc = "restoreGrants" /\ draft.grants[g] # None
           /\ ~dryRun => users[g[1]] # None /\ clusters[g[2]] # NoRow
           /\ \A h \in Users \X Clusters :
                 draft'.grants[h] = IF h = g THEN None ELSE draft.grants[h]
           /\ draft'.users = draft.users /\ draft'.clusters = draft.clusters
           /\ \A h \in Users \X Clusters : h # g \/ dryRun => grants'[h] = grants[h]
           /\ ~dryRun => grants'[g] = draft.grants[g]
           /\ UNCHANGED <<users, clusters, setting, file, pc, dryRun, todo, current, outcome,
                          ops, minted, changes, before, changed>>
<1>1. /\ pc = "restoreGrants" /\ draft.grants[g] # None
      /\ ~dryRun => users[g[1]] # None /\ clusters[g[2]] # NoRow
      /\ grants' = IF dryRun THEN grants ELSE [grants EXCEPT ![g] = draft.grants[g]]
      /\ draft' = [draft EXCEPT !.grants[g] = None]
      /\ UNCHANGED <<users, clusters, setting, file, pc, dryRun, todo, current, outcome,
                     ops, minted, changes, before, changed>>
    BY DEF RestoreGrant, End, progress, admins, history
<1>2. /\ draft' \in Shape
      /\ \A h \in Users \X Clusters :
            draft'.grants[h] = IF h = g THEN None ELSE draft.grants[h]
      /\ draft'.users = draft.users /\ draft'.clusters = draft.clusters
    BY <1>1, TakeGrant DEF Types
<1>3. draft.grants[g] \in Level \cup {None}
    BY DEF Types, Shape
<1>4. /\ grants' \in [Users \X Clusters -> Level \cup {None}]
      /\ \A h \in Users \X Clusters : h # g \/ dryRun => grants'[h] = grants[h]
      /\ ~dryRun => grants'[g] = draft.grants[g]
    BY <1>1, <1>3 DEF Types, TypeOK
<1>5. TypeOK'
    BY <1>1, <1>4 DEF Types, TypeOK
<1> QED BY <1>1, <1>2, <1>4, <1>5 DEF Types

\* What ends an export or a restore.
Ended ==
    /\ Types' /\ pc # "idle" /\ pc' = "idle"
    /\ UNCHANGED <<users, clusters, grants, setting, dryRun, ops, minted, changes, before, changed>>
    /\ todo' = {} /\ current' = None
    /\ \A u \in Users : draft'.users[u] = None
    /\ \A c \in Clusters : draft'.clusters[c] = NoEntry
    /\ \A g \in Users \X Clusters : draft'.grants[g] = None
    /\ file' = file \/ (pc = "write" /\ file' \in {draft, Torn})
    /\ outcome' = "restored" =>
          pc = "restoreGrants" /\ \A g \in Users \X Clusters : draft.grants[g] = None

\* A command that ends is Ended.
LEMMA EndedFacts ==
    ASSUME BackupAssumption, Types, Export \/ Restore \/ Cut, pc' = "idle", pc # "idle"
    PROVE  Ended
<1>1. ASSUME NEW c \in Clusters, ExportCredential(c) PROVE Ended
    <2>1. PICK how \in {"deleted", "cannotOpen"} : End(how)
        BY <1>1 DEF ExportCredential, Goto
    <2>2. UNCHANGED <<rows, dryRun, ops, admins>> /\ UNCHANGED <<file, before, changed>>
        BY <1>1 DEF ExportCredential, history
    <2>3. Types' /\ outcome' # "restored"
        BY <2>1, <2>2, EndFacts
    <2> QED BY <2>1, <2>2, <2>3, EndFacts DEF Ended
<1>2. CASE ExportWrite
    <2>1. End("exported") /\ UNCHANGED <<rows, dryRun, ops, admins>>
          /\ UNCHANGED <<before, changed>> /\ pc = "write" /\ file' = draft
        BY <1>2 DEF ExportWrite, history
    <2>2. Types' /\ outcome' # "restored"
        BY <2>1, EndFacts
    <2> QED BY <2>1, <2>2, EndFacts DEF Ended
<1>3. ASSUME NEW c \in Clusters, RestoreCluster(c) PROVE Ended
    <2>1. End("nameTaken") /\ UNCHANGED clusters
        BY <1>3 DEF RestoreCluster, progress
    <2>2. UNCHANGED <<rows, dryRun, ops, admins>> /\ UNCHANGED <<file, before, changed>>
        BY <1>3, <2>1 DEF RestoreCluster, history, rows
    <2>3. Types' /\ outcome' # "restored"
        BY <2>1, <2>2, EndFacts
    <2> QED BY <2>1, <2>2, <2>3, EndFacts DEF Ended
<1>4. ASSUME NEW g \in Users \X Clusters, RestoreGrant(g) PROVE Ended
    <2>1. End("grantRefused") /\ UNCHANGED grants
        BY <1>4 DEF RestoreGrant, progress
    <2>2. UNCHANGED <<rows, dryRun, ops, admins>> /\ UNCHANGED <<file, before, changed>>
        BY <1>4, <2>1 DEF RestoreGrant, history, rows
    <2>3. Types' /\ outcome' # "restored"
        BY <2>1, <2>2, EndFacts
    <2> QED BY <2>1, <2>2, <2>3, EndFacts DEF Ended
<1>5. CASE RestoreSetting
    <2>1. PICK how \in {"settingRefused", "restored"} : End(how)
        BY <1>5 DEF RestoreSetting
    <2>2. UNCHANGED <<rows, dryRun, ops, admins>> /\ UNCHANGED <<file, before, changed>>
          /\ pc = "restoreGrants" /\ Existing(draft.grants, None) = {}
        BY <1>5 DEF RestoreSetting, history
    <2> QED BY <2>1, <2>2, EndFacts, NoneLeft DEF Types, Ended
<1>6. CASE Cut
    <2>1. End("cut") /\ UNCHANGED <<rows, dryRun, ops, admins>>
          /\ UNCHANGED <<before, changed>>
          /\ file' = IF pc = "write" THEN Torn ELSE file
        BY <1>6 DEF Cut, history
    <2>2. Types' /\ outcome' # "restored"
        BY <2>1, EndFacts
    <2> QED BY <2>1, <2>2, EndFacts DEF Ended
<1>7. ASSUME NEW u \in Users, RestoreUser(u) PROVE FALSE
    BY <1>7 DEF RestoreUser, progress
<1>8. CASE ExportBegin \/ ExportGrants \/ ExportUsers \/ RestoreBegin \/ SettleCluster
           \/ ClustersDone
    BY <1>8 DEF ExportBegin, ExportGrants, ExportUsers, RestoreBegin, SettleCluster,
       ClustersDone, Begin, Goto, progress
<1> QED BY <1>1, <1>2, <1>3, <1>4, <1>5, <1>6, <1>7, <1>8 DEF Export, Restore

\* The archive's accounts and clusters are done.
LEMMA ClustersDoneFacts ==
    ASSUME BackupAssumption, Types, ClustersDone
    PROVE  /\ Types' /\ pc = "users" /\ pc' = "restoreGrants" /\ current = None
           /\ \A u \in Users : draft.users[u] = None
           /\ \A c \in Clusters : draft.clusters[c] = NoEntry
           /\ UNCHANGED <<users, clusters, grants, setting, file, draft, dryRun, todo, current,
                          outcome, ops, minted, changes, before, changed>>
<1>1. /\ pc = "users" /\ pc' = "restoreGrants" /\ current = None
      /\ Existing(draft.users, None) = {} /\ Existing(draft.clusters, NoEntry) = {}
      /\ UNCHANGED <<users, clusters, grants, setting, file, draft, dryRun, todo, current,
                     outcome, ops, minted, changes, before, changed>>
    BY DEF ClustersDone, Goto, rows, command, admins, history
<1>2. TypeOK'
    BY <1>1 DEF Types, TypeOK, Places
<1> QED BY <1>1, <1>2, NoneLeft DEF Types

\* The kinds of steps there are.
LEMMA Steps ==
    ASSUME BackupAssumption, Types, Ids, ForeignKeys, Next
    PROVE  \/ Administered \/ Ended
           \/ ExportBegin \/ ExportGrants \/ ExportUsers
           \/ RestoreBegin \/ SettleCluster \/ ClustersDone
           \/ \E c \in Clusters : /\ ExportCredential(c) \/ RestoreCluster(c)
                                  /\ pc' # "idle"
           \/ \E u \in Users : RestoreUser(u)
           \/ \E g \in Users \X Clusters : RestoreGrant(g) /\ pc' # "idle"
<1>1. CASE Administrate
    BY <1>1, AdministrateFacts
<1>2. CASE (Export \/ Restore \/ Cut) /\ pc' = "idle" /\ pc # "idle"
    BY <1>2, EndedFacts
<1>3. CASE (Export \/ Restore \/ Cut) /\ pc = "idle"
    BY <1>3 DEF Export, Restore, ExportCredential, ExportGrants, ExportUsers, ExportWrite,
       RestoreUser, RestoreCluster, SettleCluster, ClustersDone, RestoreGrant,
       RestoreSetting, Cut
<1>4. CASE (Export \/ Restore \/ Cut) /\ pc' # "idle"
    BY <1>4 DEF Export, Restore, Cut, End, ExportWrite, RestoreSetting
<1> QED BY <1>1, <1>2, <1>3, <1>4 DEF Next


-----------------------------------------------------------------------------
(* Every step keeps the invariants. *)

\* The types and the unique indexes.
LEMMA TypesStep ==
    ASSUME BackupAssumption, Types, ArchiveIsClosed, ForeignKeys, Ids,
            [Next]_vars
    PROVE  Types'
<1> USE DEF Types
<1>1. CASE Administered
    BY <1>1 DEF Administered
<1>2. CASE Ended
    BY <1>2 DEF Ended
<1>3. CASE ExportBegin
    BY <1>3, ExportBeginFacts
<1>4. CASE ExportGrants
    BY <1>4, ExportGrantsFacts
<1>5. CASE ExportUsers
    BY <1>5, ExportUsersFacts
<1>6. CASE RestoreBegin
    BY <1>6, RestoreBeginFacts
<1>7. CASE SettleCluster
    BY <1>7, SettleClusterFacts
<1>8. CASE ClustersDone
    BY <1>8, ClustersDoneFacts
<1>9. ASSUME NEW c \in Clusters, ExportCredential(c), pc' # "idle" PROVE Types'
    BY <1>9, ExportCredentialFacts
<1>10. ASSUME NEW c \in Clusters, RestoreCluster(c), pc' # "idle" PROVE Types'
    BY <1>10, RestoreClusterFacts
<1>11. ASSUME NEW u \in Users, RestoreUser(u) PROVE Types'
    BY <1>11, RestoreUserFacts
<1>12. ASSUME NEW g \in Users \X Clusters, RestoreGrant(g), pc' # "idle" PROVE Types'
    BY <1>12, RestoreGrantFacts
<1>13. CASE UNCHANGED vars
    BY <1>13 DEF vars, rows, command, progress, admins, history, Types, TypeOK
<1> QED
    BY <1>1, <1>2, <1>3, <1>4, <1>5, <1>6, <1>7, <1>8, <1>9, <1>10, <1>11, <1>12,
       <1>13, Steps

\* What is written is an archive.
LEMMA ArchiveIsClosedStep ==
    ASSUME BackupAssumption, Types, ArchiveIsClosed, ForeignKeys, Ids,
            Exporting, [Next]_vars
    PROVE  ArchiveIsClosed'
<1> USE DEF ArchiveIsClosed, Exporting
<1>1. CASE Administered
    BY <1>1 DEF Administered
<1>2. CASE Ended
    BY <1>2 DEF Ended
<1>3. CASE ExportBegin
    BY <1>3, ExportBeginFacts
<1>4. CASE ExportGrants
    BY <1>4, ExportGrantsFacts
<1>5. CASE ExportUsers
    BY <1>5, ExportUsersFacts
<1>6. CASE RestoreBegin
    BY <1>6, RestoreBeginFacts DEF ArchiveIsClosed
<1>7. CASE SettleCluster
    BY <1>7, SettleClusterFacts
<1>8. CASE ClustersDone
    BY <1>8, ClustersDoneFacts
<1>9. ASSUME NEW c \in Clusters, ExportCredential(c), pc' # "idle" PROVE ArchiveIsClosed'
    BY <1>9, ExportCredentialFacts
<1>10. ASSUME NEW c \in Clusters, RestoreCluster(c), pc' # "idle" PROVE ArchiveIsClosed'
    BY <1>10, RestoreClusterFacts
<1>11. ASSUME NEW u \in Users, RestoreUser(u) PROVE ArchiveIsClosed'
    BY <1>11, RestoreUserFacts
<1>12. ASSUME NEW g \in Users \X Clusters, RestoreGrant(g), pc' # "idle"
       PROVE  ArchiveIsClosed'
    BY <1>12, RestoreGrantFacts
<1>13. CASE UNCHANGED vars
    BY <1>13 DEF vars, rows, command, progress, admins, history, Types, TypeOK
<1> QED
    BY <1>1, <1>2, <1>3, <1>4, <1>5, <1>6, <1>7, <1>8, <1>9, <1>10, <1>11, <1>12,
       <1>13, Steps

\* A grant has its account and its cluster.
LEMMA ForeignKeysStep ==
    ASSUME BackupAssumption, Types, ArchiveIsClosed, ForeignKeys, Ids,
            [Next]_vars
    PROVE  ForeignKeys'
<1> USE DEF ForeignKeys
<1>1. CASE Administered
    BY <1>1 DEF Administered
<1>2. CASE Ended
    BY <1>2 DEF Ended
<1>3. CASE ExportBegin
    BY <1>3, ExportBeginFacts
<1>4. CASE ExportGrants
    BY <1>4, ExportGrantsFacts
<1>5. CASE ExportUsers
    BY <1>5, ExportUsersFacts
<1>6. CASE RestoreBegin
    BY <1>6, RestoreBeginFacts
<1>7. CASE SettleCluster
    BY <1>7, SettleClusterFacts
<1>8. CASE ClustersDone
    BY <1>8, ClustersDoneFacts
<1>9. ASSUME NEW c \in Clusters, ExportCredential(c), pc' # "idle" PROVE ForeignKeys'
    BY <1>9, ExportCredentialFacts
<1>10. ASSUME NEW c \in Clusters, RestoreCluster(c), pc' # "idle" PROVE ForeignKeys'
    BY <1>10, RestoreClusterFacts
<1>11. ASSUME NEW u \in Users, RestoreUser(u) PROVE ForeignKeys'
    BY <1>11, RestoreUserFacts
<1>12. ASSUME NEW g \in Users \X Clusters, RestoreGrant(g), pc' # "idle"
       PROVE  ForeignKeys'
    BY <1>12, RestoreGrantFacts
<1>13. CASE UNCHANGED vars
    BY <1>13 DEF vars, rows, command, progress, admins, history, Types, TypeOK
<1> QED
    BY <1>1, <1>2, <1>3, <1>4, <1>5, <1>6, <1>7, <1>8, <1>9, <1>10, <1>11, <1>12,
       <1>13, Steps

\* Every id in use is minted.
LEMMA IdsStep ==
    ASSUME BackupAssumption, Types, ArchiveIsClosed, ForeignKeys, Ids,
            Exporting, Taken, [Next]_vars
    PROVE  Ids'
<1> USE DEF Ids, Exporting, Taken, Restoring
<1>1. CASE Administered
    BY <1>1 DEF Administered
<1>2. CASE Ended
    BY <1>2 DEF Ended
<1>3. CASE ExportBegin
    BY <1>3, ExportBeginFacts
<1>4. CASE ExportGrants
    BY <1>4, ExportGrantsFacts
<1>5. CASE ExportUsers
    BY <1>5, ExportUsersFacts
<1>6. CASE RestoreBegin
    BY <1>6, RestoreBeginFacts
<1>7. CASE SettleCluster
    BY <1>7, SettleClusterFacts
<1>8. CASE ClustersDone
    BY <1>8, ClustersDoneFacts
<1>9. ASSUME NEW c \in Clusters, ExportCredential(c), pc' # "idle" PROVE Ids'
    BY <1>9, ExportCredentialFacts
<1>10. ASSUME NEW c \in Clusters, RestoreCluster(c), pc' # "idle" PROVE Ids'
    BY <1>10, RestoreClusterFacts
<1>11. ASSUME NEW u \in Users, RestoreUser(u) PROVE Ids'
    BY <1>11, RestoreUserFacts
<1>12. ASSUME NEW g \in Users \X Clusters, RestoreGrant(g), pc' # "idle" PROVE Ids'
    BY <1>12, RestoreGrantFacts
<1>13. CASE UNCHANGED vars
    BY <1>13 DEF vars, rows, command, progress, admins, history, Types, TypeOK
<1> QED
    BY <1>1, <1>2, <1>3, <1>4, <1>5, <1>6, <1>7, <1>8, <1>9, <1>10, <1>11, <1>12,
       <1>13, Steps

\* A draft stays closed while it is filled, whatever is deleted meanwhile.
LEMMA ExportingStep ==
    ASSUME BackupAssumption, Types, ArchiveIsClosed, ForeignKeys, Ids,
            Exporting, [Next]_vars
    PROVE  Exporting'
<1> USE DEF Exporting, ForeignKeys
<1>1. CASE Administered
    BY <1>1 DEF Administered
<1>2. CASE Ended
    BY <1>2 DEF Ended
<1>3. CASE ExportBegin
    BY <1>3, ExportBeginFacts DEF Types, TypeOK
<1>4. CASE ExportGrants
    BY <1>4, ExportGrantsFacts
<1>5. CASE ExportUsers
    <2>1. draft'.clusters = draft.clusters /\ UNCHANGED todo
        BY <1>5, ExportUsersFacts
    <2>2. Injective(draft'.users, None) /\ draft'.users = users /\ draft' \in Shape
        BY <1>5, ExportUsersFacts DEF Types, TypeOK
    <2>3. draft' \in Archive
        BY <1>5, <2>1, <2>2, ExportUsersFacts, ArchiveFacts
    <2> QED BY <1>5, <2>1, <2>2, <2>3, ExportUsersFacts
<1>6. CASE RestoreBegin
    BY <1>6, RestoreBeginFacts
<1>7. CASE SettleCluster
    BY <1>7, SettleClusterFacts
<1>8. CASE ClustersDone
    BY <1>8, ClustersDoneFacts
<1>9. ASSUME NEW c \in Clusters, ExportCredential(c), pc' # "idle" PROVE Exporting'
    BY <1>9, ExportCredentialFacts
<1>10. ASSUME NEW c \in Clusters, RestoreCluster(c), pc' # "idle" PROVE Exporting'
    BY <1>10, RestoreClusterFacts
<1>11. ASSUME NEW u \in Users, RestoreUser(u) PROVE Exporting'
    BY <1>11, RestoreUserFacts
<1>12. ASSUME NEW g \in Users \X Clusters, RestoreGrant(g), pc' # "idle" PROVE Exporting'
    BY <1>12, RestoreGrantFacts
<1>13. CASE UNCHANGED vars
    BY <1>13 DEF vars, rows, command, progress, admins, history, Types, TypeOK
<1> QED
    BY <1>1, <1>2, <1>3, <1>4, <1>5, <1>6, <1>7, <1>8, <1>9, <1>10, <1>11, <1>12,
       <1>13, Steps

\* Only a delete takes a cluster away.
LEMMA BeganStep ==
    ASSUME BackupAssumption, Types, ArchiveIsClosed, ForeignKeys, Ids,
            Began, [Next]_vars
    PROVE  Began'
<1> USE DEF Began
<1>1. CASE Administered
    BY <1>1 DEF Administered
<1>2. CASE Ended
    BY <1>2 DEF Ended
<1>3. CASE ExportBegin
    BY <1>3, ExportBeginFacts
<1>4. CASE ExportGrants
    BY <1>4, ExportGrantsFacts
<1>5. CASE ExportUsers
    BY <1>5, ExportUsersFacts
<1>6. CASE RestoreBegin
    BY <1>6, RestoreBeginFacts
<1>7. CASE SettleCluster
    BY <1>7, SettleClusterFacts
<1>8. CASE ClustersDone
    BY <1>8, ClustersDoneFacts
<1>9. ASSUME NEW c \in Clusters, ExportCredential(c), pc' # "idle" PROVE Began'
    BY <1>9, ExportCredentialFacts
<1>10. ASSUME NEW c \in Clusters, RestoreCluster(c), pc' # "idle" PROVE Began'
    BY <1>10, RestoreClusterFacts
<1>11. ASSUME NEW u \in Users, RestoreUser(u) PROVE Began'
    BY <1>11, RestoreUserFacts
<1>12. ASSUME NEW g \in Users \X Clusters, RestoreGrant(g), pc' # "idle" PROVE Began'
    BY <1>12, RestoreGrantFacts
<1>13. CASE UNCHANGED vars
    BY <1>13 DEF vars, rows, command, progress, admins, history, Types, TypeOK
<1> QED
    BY <1>1, <1>2, <1>3, <1>4, <1>5, <1>6, <1>7, <1>8, <1>9, <1>10, <1>11, <1>12,
       <1>13, Steps

\* A restore only takes from its draft.
LEMMA TakenStep ==
    ASSUME BackupAssumption, Types, ArchiveIsClosed, ForeignKeys, Ids,
            Taken, [Next]_vars
    PROVE  Taken'
<1> USE DEF Taken, Restoring
<1>1. CASE Administered
    BY <1>1 DEF Administered
<1>2. CASE Ended
    BY <1>2 DEF Ended
<1>3. CASE ExportBegin
    BY <1>3, ExportBeginFacts
<1>4. CASE ExportGrants
    BY <1>4, ExportGrantsFacts
<1>5. CASE ExportUsers
    BY <1>5, ExportUsersFacts
<1>6. CASE RestoreBegin
    BY <1>6, RestoreBeginFacts
<1>7. CASE SettleCluster
    BY <1>7, SettleClusterFacts
<1>8. CASE ClustersDone
    BY <1>8, ClustersDoneFacts
<1>9. ASSUME NEW c \in Clusters, ExportCredential(c), pc' # "idle" PROVE Taken'
    BY <1>9, ExportCredentialFacts
<1>10. ASSUME NEW c \in Clusters, RestoreCluster(c), pc' # "idle" PROVE Taken'
    BY <1>10, RestoreClusterFacts
<1>11. ASSUME NEW u \in Users, RestoreUser(u) PROVE Taken'
    BY <1>11, RestoreUserFacts
<1>12. ASSUME NEW g \in Users \X Clusters, RestoreGrant(g), pc' # "idle" PROVE Taken'
    BY <1>12, RestoreGrantFacts
<1>13. CASE UNCHANGED vars
    BY <1>13 DEF vars, rows, command, progress, admins, history, Types, TypeOK
<1> QED
    BY <1>1, <1>2, <1>3, <1>4, <1>5, <1>6, <1>7, <1>8, <1>9, <1>10, <1>11, <1>12,
       <1>13, Steps

\* A restore takes in hand what it makes.
LEMMA InHandStep ==
    ASSUME BackupAssumption, Types, ArchiveIsClosed, ForeignKeys, Ids,
            Began, Taken, InHand, [Next]_vars
    PROVE  InHand'
<1> USE DEF InHand, Began, Taken, Restoring, BackupAssumption
<1>1. CASE Administered
    BY <1>1 DEF Administered
<1>2. CASE Ended
    BY <1>2 DEF Ended
<1>3. CASE ExportBegin
    BY <1>3, ExportBeginFacts
<1>4. CASE ExportGrants
    BY <1>4, ExportGrantsFacts
<1>5. CASE ExportUsers
    BY <1>5, ExportUsersFacts
<1>6. CASE RestoreBegin
    BY <1>6, RestoreBeginFacts
<1>7. CASE SettleCluster
    BY <1>7, SettleClusterFacts
<1>8. CASE ClustersDone
    BY <1>8, ClustersDoneFacts
<1>9. ASSUME NEW c \in Clusters, ExportCredential(c), pc' # "idle" PROVE InHand'
    BY <1>9, ExportCredentialFacts
<1>10. ASSUME NEW c \in Clusters, RestoreCluster(c), pc' # "idle" PROVE InHand'
    BY <1>10, RestoreClusterFacts
<1>11. ASSUME NEW u \in Users, RestoreUser(u) PROVE InHand'
    BY <1>11, RestoreUserFacts
<1>12. ASSUME NEW g \in Users \X Clusters, RestoreGrant(g), pc' # "idle" PROVE InHand'
    BY <1>12, RestoreGrantFacts
<1>13. CASE UNCHANGED vars
    BY <1>13 DEF vars, rows, command, progress, admins, history, Types, TypeOK
<1> QED
    BY <1>1, <1>2, <1>3, <1>4, <1>5, <1>6, <1>7, <1>8, <1>9, <1>10, <1>11, <1>12,
       <1>13, Steps

\* What leaves the draft is back.
LEMMA BackStep ==
    ASSUME BackupAssumption, Types, ArchiveIsClosed, ForeignKeys, Ids,
            Taken, InHand, Back, [Next]_vars
    PROVE  Back'
<1> USE DEF Back, InHand, Taken, Ids, Restoring, UserBack, ClusterBack, GrantBack,
        BackupAssumption
<1>1. CASE Administered
    BY <1>1 DEF Administered
<1>2. CASE Ended
    BY <1>2 DEF Ended
<1>3. CASE ExportBegin
    BY <1>3, ExportBeginFacts
<1>4. CASE ExportGrants
    BY <1>4, ExportGrantsFacts
<1>5. CASE ExportUsers
    BY <1>5, ExportUsersFacts
<1>6. CASE RestoreBegin
    BY <1>6, RestoreBeginFacts
<1>7. CASE SettleCluster
    BY <1>7, SettleClusterFacts
<1>8. CASE ClustersDone
    BY <1>8, ClustersDoneFacts
<1>9. ASSUME NEW c \in Clusters, ExportCredential(c), pc' # "idle" PROVE Back'
    BY <1>9, ExportCredentialFacts
<1>10. ASSUME NEW c \in Clusters, RestoreCluster(c), pc' # "idle" PROVE Back'
    BY <1>10, RestoreClusterFacts
<1>11. ASSUME NEW u \in Users, RestoreUser(u) PROVE Back'
    BY <1>11, RestoreUserFacts
<1>12. ASSUME NEW g \in Users \X Clusters, RestoreGrant(g), pc' # "idle" PROVE Back'
    BY <1>12, RestoreGrantFacts
<1>13. CASE UNCHANGED vars
    BY <1>13 DEF vars, rows, command, progress, admins, history, Types, TypeOK
<1> QED
    BY <1>1, <1>2, <1>3, <1>4, <1>5, <1>6, <1>7, <1>8, <1>9, <1>10, <1>11, <1>12,
       <1>13, Steps

\* A restore ends in success with nothing left in its draft.
LEMMA FullStep ==
    ASSUME BackupAssumption, Types, ArchiveIsClosed, ForeignKeys, Ids,
            Began, Taken, Back, Full, [Next]_vars
    PROVE  Full'
<1> USE DEF Full, Began, Taken, Back, Restoring, UserBack, ClusterBack, GrantBack
<1>1. CASE Administered
    BY <1>1 DEF Administered
<1>2. CASE Ended
    BY <1>2 DEF Ended
<1>3. CASE ExportBegin
    BY <1>3, ExportBeginFacts
<1>4. CASE ExportGrants
    BY <1>4, ExportGrantsFacts
<1>5. CASE ExportUsers
    BY <1>5, ExportUsersFacts
<1>6. CASE RestoreBegin
    BY <1>6, RestoreBeginFacts
<1>7. CASE SettleCluster
    BY <1>7, SettleClusterFacts
<1>8. CASE ClustersDone
    BY <1>8, ClustersDoneFacts
<1>9. ASSUME NEW c \in Clusters, ExportCredential(c), pc' # "idle" PROVE Full'
    BY <1>9, ExportCredentialFacts
<1>10. ASSUME NEW c \in Clusters, RestoreCluster(c), pc' # "idle" PROVE Full'
    BY <1>10, RestoreClusterFacts
<1>11. ASSUME NEW u \in Users, RestoreUser(u) PROVE Full'
    BY <1>11, RestoreUserFacts
<1>12. ASSUME NEW g \in Users \X Clusters, RestoreGrant(g), pc' # "idle" PROVE Full'
    BY <1>12, RestoreGrantFacts
<1>13. CASE UNCHANGED vars
    BY <1>13 DEF vars, rows, command, progress, admins, history, Types, TypeOK
<1> QED
    BY <1>1, <1>2, <1>3, <1>4, <1>5, <1>6, <1>7, <1>8, <1>9, <1>10, <1>11, <1>12,
       <1>13, Steps

-----------------------------------------------------------------------------
(* The theorems. *)

\* A new installation has nothing, and an archive on its disk.
LEMMA InitIInv ==
    ASSUME BackupAssumption
    PROVE  Init => IInv
<1> SUFFICES ASSUME Init PROVE IInv
    OBVIOUS
<1>1. /\ \A u \in Users : users[u] = None /\ draft.users[u] = None
      /\ \A c \in Clusters : clusters[c] = NoRow /\ draft.clusters[c] = NoEntry
      /\ \A g \in Users \X Clusters : grants[g] = None
      /\ draft \in Shape /\ pc = "idle" /\ outcome = "none" /\ current = None
      /\ file \in Archive
    BY EmptyFacts DEF Init, Empty
<1>2. Types
  <2>1. users \in [Users -> Emails \cup {None}] /\ Injective(users, None)
      BY <1>1 DEF Init, Empty, Injective, Existing
  <2>2. clusters \in [Clusters -> Row \cup {NoRow}] /\ UniqueNames(clusters)
      BY <1>1, NoRowFacts DEF Init, UniqueNames
  <2>3. grants \in [Users \X Clusters -> Level \cup {None}] /\ setting \in BOOLEAN
      BY DEF Init, Empty
  <2>4. minted \subseteq Users \cup Clusters
    <3>1. file.users \in [Users -> Emails \cup {None}]
          /\ file.clusters \in [Clusters -> Entry \cup {NoEntry}]
        BY <1>1 DEF Archive
    <3> QED BY <3>1 DEF Init, Existing
  <2>5. 0 \in 0 .. MaxChanges /\ 0 \in 0 .. MaxOps
      BY DEF BackupAssumption
  <2> QED BY <1>1, <2>1, <2>2, <2>3, <2>4, <2>5 DEF Init, Types, TypeOK, Places
<1>3. Ids
  <2>1. file \in Shape
      BY <1>1, ArchiveFacts
  <2>2. /\ \A u \in Users : file.users[u] # None => u \in minted
        /\ \A c \in Clusters : file.clusters[c] # NoEntry => c \in minted
      BY <2>1 DEF Init, Existing, Shape
  <2> QED BY <1>1, <2>2 DEF Ids
<1>4. ArchiveIsClosed /\ ForeignKeys
    BY <1>1 DEF ArchiveIsClosed, ForeignKeys
<1>5. Exporting /\ Began /\ Taken /\ InHand /\ Back /\ Full
    BY <1>1 DEF Init, Exporting, Began, Taken, InHand, Back, Full, Restoring
<1> QED BY <1>2, <1>3, <1>4, <1>5 DEF IInv

\* Every step keeps the invariant.
LEMMA StepIInv ==
    ASSUME BackupAssumption, IInv, [Next]_vars
    PROVE  IInv'
BY TypesStep, ArchiveIsClosedStep, ForeignKeysStep, IdsStep, ExportingStep, BeganStep,
   TakenStep, InHandStep, BackStep, FullStep DEF IInv

\* What is back is what RestoredInFull asks for.
LEMMA FullRestores == IInv => RestoredInFull
<1> SUFFICES ASSUME IInv, outcome = "restored", ~dryRun
             PROVE  RestoredInFull
    BY DEF RestoredInFull
<1>1. /\ \A u \in Users : UserBack(u)
      /\ \A c \in Clusters : ClusterBack(c)
      /\ \A g \in Users \X Clusters : GrantBack(g)
      /\ file \in Shape
    BY ArchiveFacts DEF IInv, Full, ArchiveIsClosed
<1>2. /\ Existing(file.users, None) = {u \in Users : file.users[u] # None}
      /\ Existing(file.clusters, NoEntry) = {c \in Clusters : file.clusters[c] # NoEntry}
      /\ Existing(file.grants, None) = {g \in Users \X Clusters : file.grants[g] # None}
    BY <1>1 DEF Shape, Existing
<1> QED BY <1>1, <1>2 DEF RestoredInFull, UserBack, ClusterBack, GrantBack

\* The rows a restore writes to are its own.
LEMMA Spares ==
    ASSUME BackupAssumption, IInv, [Next]_vars
    PROVE  SparesStep
<1> SUFFICES ASSUME Restoring, changes' = changes PROVE SparesStep
    BY DEF SparesStep, Restoring
<1> USE DEF IInv
<1>1. CASE Administered
    BY <1>1 DEF Administered
<1>2. CASE Ended
    BY <1>2 DEF Ended, SparesStep
<1>3. CASE ExportBegin \/ ExportGrants \/ ExportUsers \/ RestoreBegin
    BY <1>3 DEF ExportBegin, ExportGrants, ExportUsers, RestoreBegin, Begin, Restoring
<1>4. CASE SettleCluster
    BY <1>4, SettleClusterFacts DEF SparesStep, InHand, Restoring, BackupAssumption
<1>5. CASE ClustersDone
    BY <1>5, ClustersDoneFacts DEF SparesStep
<1>6. ASSUME NEW c \in Clusters, ExportCredential(c), pc' # "idle" PROVE SparesStep
    BY <1>6, ExportCredentialFacts DEF SparesStep
<1>7. ASSUME NEW c \in Clusters, RestoreCluster(c), pc' # "idle" PROVE SparesStep
    BY <1>7, RestoreClusterFacts DEF SparesStep
<1>8. ASSUME NEW u \in Users, RestoreUser(u) PROVE SparesStep
    BY <1>8, RestoreUserFacts DEF SparesStep
<1>9. ASSUME NEW g \in Users \X Clusters, RestoreGrant(g), pc' # "idle" PROVE SparesStep
    BY <1>9, RestoreGrantFacts DEF SparesStep
<1>10. CASE UNCHANGED vars
    BY <1>10 DEF vars, rows, SparesStep
<1> QED
    BY <1>1, <1>2, <1>3, <1>4, <1>5, <1>6, <1>7, <1>8, <1>9, <1>10, Steps

\* The invariant of backup and restore, for all sets of accounts, clusters and
\* names and any number of changes, exports and restores.
THEOREM BackupInvariant ==
    ASSUME BackupAssumption
    PROVE  Spec => []IInv
BY InitIInv, StepIInv, PTL DEF Spec

\* Every grant in an archive on disk is to an account and a cluster that are in
\* it, whatever administrators did between the queries of the export
\* (Service.Export).
THEOREM BackupArchiveIsClosed ==
    ASSUME BackupAssumption
    PROVE  Spec => []ArchiveIsClosed
<1>1. IInv => ArchiveIsClosed
    BY DEF IInv
<1> QED BY <1>1, BackupInvariant, PTL

\* A restore that reports success has brought back every account, every missing
\* cluster with its write lock and every grant, but for what administrators
\* changed meanwhile (Service.Restore).
THEOREM BackupRestoredInFull ==
    ASSUME BackupAssumption
    PROVE  Spec => []RestoredInFull
<1> QED BY FullRestores, BackupInvariant, PTL

\* No step of a restore touches an account or a cluster it did not create
\* (Service.Restore).
THEOREM BackupSparesStep ==
    ASSUME BackupAssumption
    PROVE  Spec => [][SparesStep]_vars
<1> QED BY Spares, BackupInvariant, PTL DEF Spec
=============================================================================
