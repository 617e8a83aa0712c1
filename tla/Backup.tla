------------------------------- MODULE Backup -------------------------------
(***************************************************************************)
(* One installation's users, clusters, grants and settings, and the        *)
(* command that exports them into an archive or restores an archive into   *)
(* them, one statement at a time, beside a server that goes on serving its *)
(* administrators.  The archive restored is any well-formed one: this      *)
(* installation's last export or another's.                                *)
(* (server/internal/backup, server/cmd/kubby-backup/main.go)               *)
(***************************************************************************)
EXTENDS Integers, FiniteSets

CONSTANTS
    Users, Emails, Clusters, Names,
    None,           \* no row
    MaxChanges,     \* bound on what administrators change
    MaxOps          \* bound on the exports and restores

BackupAssumption ==
    /\ None \notin Emails \cup Names \cup Clusters
    /\ MaxChanges \in Nat
    /\ MaxOps \in Nat

\* What a sealed kubeconfig is bound to: the bare id, as the server seals and
\* opens it, or the id after "cluster:", as this command does.
Binding == {"id", "prefixedId"}
Level == {"read", "write"}
Row == [name: Names, readOnly: BOOLEAN, bound: Binding]
Entry == [name: Names, readOnly: BOOLEAN]
NoRow == [name |-> None, readOnly |-> FALSE, bound |-> None]
NoEntry == [name |-> None, readOnly |-> FALSE]

VARIABLES
    users,          \* user id -> email, or None
    clusters,       \* cluster id -> its row, or NoRow
    grants,         \* <<user, cluster>> -> access level, or None
    setting,        \* a settings group is stored
    file,           \* the archive on disk
    pc,             \* what the command is doing
    draft,          \* export: the archive so far; restore: what is left of it
    dryRun,
    todo,           \* export: the clusters whose credential is still to be read
    current,        \* the cluster the command is in the middle of, or None
    outcome,        \* how the last export or restore ended
    minted,         \* ids in use anywhere; uuid.New returns none of them
    changes, ops,   \* what the bounds count
    before,         \* history: the clusters there when it began
    changed         \* history: clusters and grants administrators changed since

rows == <<users, clusters, grants, setting>>
command == <<draft, dryRun, todo, current>>
progress == <<pc, outcome>>
admins == <<minted, changes>>
history == <<before, changed>>
vars == <<rows, file, command, progress, ops, admins, history>>

Existing(f, none) == {x \in DOMAIN f : f[x] # none}

\* An archive: what Export writes.
Empty ==
    [users |-> [u \in Users |-> None],
     clusters |-> [c \in Clusters |-> NoEntry],
     grants |-> [g \in Users \X Clusters |-> None],
     setting |-> FALSE]

Injective(f, none) ==
    \A x, y \in Existing(f, none) : f[x] = f[y] => x = y
UniqueNames(f) ==
    \A c, d \in Clusters : f[c].name = f[d].name => c = d \/ f[c].name = None
Closed(a) ==
    \A g \in Existing(a.grants, None) :
        a.users[g[1]] # None /\ a.clusters[g[2]] # NoEntry

Archive ==
    {a \in [users: [Users -> Emails \cup {None}],
            clusters: [Clusters -> Entry \cup {NoEntry}],
            grants: [Users \X Clusters -> Level \cup {None}],
            setting: BOOLEAN] :
        Injective(a.users, None) /\ UniqueNames(a.clusters) /\ Closed(a)}

\* os.WriteFile was cut short: authentication refuses what is there.
Torn == None

Init ==
    /\ users = Empty.users
    /\ clusters = [c \in Clusters |-> NoRow]
    /\ grants = Empty.grants
    /\ setting = FALSE
    /\ file \in Archive
    /\ pc = "idle"
    /\ draft = Empty
    /\ dryRun = FALSE
    /\ todo = {} /\ current = None
    /\ outcome = "none"
    /\ minted = Existing(file.users, None) \cup Existing(file.clusters, NoEntry)
    /\ changes = 0 /\ ops = 0
    /\ before = {} /\ changed = {}

-----------------------------------------------------------------------------
(* The server's administrators. *)

Change ==
    /\ changes < MaxChanges
    /\ changes' = changes + 1
    /\ UNCHANGED <<file, command, progress, ops, before>>

AddUser(u, e) ==
    /\ u \notin minted /\ \A v \in Users : users[v] # e
    /\ users' = [users EXCEPT ![u] = e]
    /\ minted' = minted \cup {u}
    /\ UNCHANGED <<clusters, grants, setting, changed>>

\* Service.Create: the kubeconfig is sealed bound to the cluster's id.
Register(c, n) ==
    /\ c \notin minted /\ \A d \in Clusters : clusters[d].name # n
    /\ clusters' = [clusters EXCEPT ![c] =
                      [name |-> n, readOnly |-> FALSE, bound |-> "id"]]
    /\ minted' = minted \cup {c}
    /\ changed' = changed \cup {c}
    /\ UNCHANGED <<users, grants, setting>>

ReplaceCredential(c) ==
    /\ clusters[c] # NoRow
    /\ clusters' = [clusters EXCEPT ![c].bound = "id"]
    /\ UNCHANGED <<users, grants, setting, minted, changed>>

SetReadOnly(c) ==
    /\ clusters[c] # NoRow
    /\ clusters' = [clusters EXCEPT ![c].readOnly = ~@]
    /\ changed' = changed \cup {c}
    /\ UNCHANGED <<users, grants, setting, minted>>

\* The grants go with the cluster (ON DELETE CASCADE).
DeleteCluster(c) ==
    /\ clusters[c] # NoRow
    /\ clusters' = [clusters EXCEPT ![c] = NoRow]
    /\ grants' = [g \in DOMAIN grants |-> IF g[2] = c THEN None ELSE grants[g]]
    /\ changed' = changed \cup {c} \cup (Users \X {c})
    /\ UNCHANGED <<users, setting, minted>>

SetGrant(u, c, level) ==
    /\ users[u] # None /\ clusters[c] # NoRow
    /\ grants' = [grants EXCEPT ![<<u, c>>] = level]
    /\ changed' = changed \cup {<<u, c>>}
    /\ UNCHANGED <<users, clusters, setting, minted>>

SaveSetting ==
    /\ setting' = TRUE
    /\ UNCHANGED <<users, clusters, grants, minted, changed>>

Administrate ==
    Change /\ \/ \E u \in Users, e \in Emails : AddUser(u, e)
              \/ \E c \in Clusters, n \in Names : Register(c, n)
              \/ \E c \in Clusters : ReplaceCredential(c) \/ SetReadOnly(c) \/ DeleteCluster(c)
              \/ \E u \in Users, c \in Clusters, l \in Level \cup {None} : SetGrant(u, c, l)
              \/ SaveSetting

-----------------------------------------------------------------------------
(* Export. *)

Goto(place) == pc' = place /\ UNCHANGED outcome

\* The process ends, and what it held goes with it.
End(how) ==
    /\ pc' = "idle" /\ outcome' = how
    /\ draft' = Empty /\ todo' = {} /\ current' = None

Begin(place) ==
    /\ pc = "idle" /\ ops < MaxOps
    /\ pc' = place /\ outcome' = "none"
    /\ ops' = ops + 1
    /\ current' = None
    /\ before' = Existing(clusters, NoRow)
    /\ changed' = {}
    /\ UNCHANGED <<rows, file, admins>>

\* Clusters().List: the rows, without their credentials.
ExportBegin ==
    /\ Begin("credential")
    /\ todo' = Existing(clusters, NoRow)
    /\ draft' = [Empty EXCEPT !.clusters =
                   [c \in Clusters |-> [name |-> clusters[c].name,
                                        readOnly |-> clusters[c].readOnly]]]
    /\ UNCHANGED dryRun

\* Credential and Open: a cluster deleted since it was listed, or a
\* credential bound to something else, ends the export.
ExportCredential(c) ==
    /\ pc = "credential" /\ c \in todo
    /\ IF clusters[c] = NoRow THEN End("deleted")
       ELSE IF clusters[c].bound # "prefixedId" THEN End("cannotOpen")
       ELSE /\ Goto("grants")
            /\ current' = c
            /\ todo' = todo \ {c}
            /\ UNCHANGED draft
    /\ UNCHANGED <<rows, file, dryRun, ops, admins, history>>

\* Mutant: ListGrants loses its WHERE.
ListGrants_All(c) == [g \in DOMAIN grants |-> IF grants[g] # None THEN grants[g] ELSE draft.grants[g]]

\* The archive's grants with those of one more cluster.
ListGrants(c) == [g \in DOMAIN grants |-> IF g[2] = c THEN grants[g] ELSE draft.grants[g]]

ExportGrants ==
    /\ pc = "grants"
    /\ draft' = [draft EXCEPT !.grants = ListGrants(current)]
    /\ current' = None
    /\ Goto("credential")
    /\ UNCHANGED <<rows, file, dryRun, todo, ops, admins, history>>

ExportUsers ==
    /\ pc = "credential" /\ todo = {}
    /\ draft' = [draft EXCEPT !.users = users, !.setting = setting]
    /\ Goto("write")
    /\ UNCHANGED <<rows, file, dryRun, todo, current, ops, admins, history>>

ExportWrite ==
    /\ pc = "write"
    /\ file' = draft
    /\ End("exported")
    /\ UNCHANGED <<rows, dryRun, ops, admins, history>>

-----------------------------------------------------------------------------
(* Restore. *)

\* The archive is read, authenticated and parsed before anything is written.
RestoreBegin ==
    /\ file # Torn
    /\ Begin("users")
    /\ dryRun' \in BOOLEAN
    /\ draft' = file
    /\ UNCHANGED todo

\* ByEmail finds one, or the insert meets a conflict and does nothing.
Conflicts(u, e) == users[u] # None \/ \E v \in Users : users[v] = e

RestoreUser(u) ==
    /\ pc = "users" /\ draft.users[u] # None
    /\ IF dryRun \/ Conflicts(u, draft.users[u]) THEN UNCHANGED users
       ELSE users' = [users EXCEPT ![u] = draft.users[u]]
    /\ draft' = [draft EXCEPT !.users[u] = None]
    /\ UNCHANGED <<clusters, grants, setting, file, progress, dryRun, todo, current,
                   ops, admins, history>>

\* Mutant: the cluster found by its id is settled like a new one.
RestoreCluster_Settles(c) ==
    /\ pc = "users" /\ Existing(draft.users, None) = {} /\ current = None
    /\ draft.clusters[c] # NoEntry /\ ~dryRun
    /\ \A d \in Clusters \ {c} : clusters[d].name # draft.clusters[c].name
    /\ clusters' = IF clusters[c] # NoRow THEN clusters ELSE
                    [clusters EXCEPT ![c] =
                       [name |-> draft.clusters[c].name, readOnly |-> FALSE,
                        bound |-> "prefixedId"]]
    /\ current' = c
    /\ UNCHANGED <<users, grants, setting, file, progress, draft, dryRun, todo,
                   ops, admins, history>>

\* ByID: a cluster that is there is left alone.  CreateWithID: another one
\* may have its name.
RestoreCluster(c) ==
    /\ pc = "users" /\ Existing(draft.users, None) = {} /\ current = None
    /\ draft.clusters[c] # NoEntry
    /\ IF clusters[c] # NoRow \/ dryRun
       THEN /\ draft' = [draft EXCEPT !.clusters[c] = NoEntry]
            /\ UNCHANGED <<clusters, current, todo, progress>>
       ELSE IF \E d \in Clusters : clusters[d].name = draft.clusters[c].name
       THEN End("nameTaken") /\ UNCHANGED clusters
       ELSE /\ clusters' = [clusters EXCEPT ![c] =
                              [name |-> draft.clusters[c].name, readOnly |-> FALSE,
                               bound |-> "prefixedId"]]
            /\ current' = c
            /\ UNCHANGED <<draft, todo, progress>>
    /\ UNCHANGED <<users, grants, setting, file, dryRun, ops, admins, history>>

\* UpdateSettings, for the cluster that was just created; no row, no update.
SettleCluster ==
    /\ pc = "users" /\ current # None
    /\ clusters' = [clusters EXCEPT ![current] =
                      IF @ = NoRow THEN NoRow
                      ELSE [@ EXCEPT !.readOnly = draft.clusters[current].readOnly]]
    /\ draft' = [draft EXCEPT !.clusters[current] = NoEntry]
    /\ current' = None
    /\ UNCHANGED <<users, grants, setting, file, progress, dryRun, todo, ops, admins, history>>

ClustersDone ==
    /\ pc = "users" /\ current = None
    /\ Existing(draft.users, None) = {} /\ Existing(draft.clusters, NoEntry) = {}
    /\ Goto("restoreGrants")
    /\ UNCHANGED <<rows, file, command, ops, admins, history>>

\* Mutant: a grant that is refused is passed over.
RestoreGrant_PassesOver(g) ==
    /\ pc = "restoreGrants" /\ draft.grants[g] # None
    /\ grants' = IF dryRun \/ users[g[1]] = None \/ clusters[g[2]] = NoRow THEN grants
                 ELSE [grants EXCEPT ![g] = draft.grants[g]]
    /\ draft' = [draft EXCEPT !.grants[g] = None]
    /\ UNCHANGED <<users, clusters, setting, file, progress, dryRun, todo, current,
                   ops, admins, history>>

\* SetGrant inserts or overwrites; the foreign keys refuse a grant whose user
\* or cluster is not there under that id.
RestoreGrant(g) ==
    /\ pc = "restoreGrants" /\ draft.grants[g] # None
    /\ IF ~dryRun /\ (users[g[1]] = None \/ clusters[g[2]] = NoRow)
       THEN End("grantRefused") /\ UNCHANGED grants
       ELSE /\ grants' = IF dryRun THEN grants ELSE [grants EXCEPT ![g] = draft.grants[g]]
            /\ draft' = [draft EXCEPT !.grants[g] = None]
            /\ UNCHANGED <<progress, todo, current>>
    /\ UNCHANGED <<users, clusters, setting, file, dryRun, ops, admins, history>>

\* Put records the zero uuid as who changed the setting, and the foreign key
\* on updated_by refuses the row.
RestoreSetting ==
    /\ pc = "restoreGrants" /\ Existing(draft.grants, None) = {}
    /\ End(IF draft.setting /\ ~dryRun THEN "settingRefused" ELSE "restored")
    /\ UNCHANGED <<rows, file, dryRun, ops, admins, history>>

\* The command is killed or loses the database.
Cut ==
    /\ pc # "idle"
    /\ file' = IF pc = "write" THEN Torn ELSE file
    /\ End("cut")
    /\ UNCHANGED <<rows, dryRun, ops, admins, history>>

Export ==
    \/ ExportBegin
    \/ \E c \in Clusters : ExportCredential(c)
    \/ ExportGrants \/ ExportUsers \/ ExportWrite

Restore ==
    \/ RestoreBegin
    \/ \E u \in Users : RestoreUser(u)
    \/ \E c \in Clusters : RestoreCluster(c)
    \/ SettleCluster
    \/ ClustersDone
    \/ \E g \in Users \X Clusters : RestoreGrant(g)
    \/ RestoreSetting

Next == Administrate \/ Export \/ Restore \/ Cut

Spec == Init /\ [][Next]_vars

-----------------------------------------------------------------------------
(* Properties. *)

Places == {"idle", "credential", "grants", "write", "users", "restoreGrants"}

\* Every variable has its type, and the unique indexes hold.
TypeOK ==
    /\ users \in [Users -> Emails \cup {None}] /\ Injective(users, None)
    /\ clusters \in [Clusters -> Row \cup {NoRow}] /\ UniqueNames(clusters)
    /\ grants \in [Users \X Clusters -> Level \cup {None}]
    /\ setting \in BOOLEAN
    /\ pc \in Places
    /\ todo \subseteq Clusters /\ current \in Clusters \cup {None}
    /\ minted \subseteq Users \cup Clusters
    /\ changes \in 0 .. MaxChanges /\ ops \in 0 .. MaxOps

\* What an export leaves on disk, however the administrators interleaved with
\* its queries, is an archive a restore can make sense of: every grant in it
\* is to a user and a cluster that are in it.
ArchiveIsClosed == file # Torn => file \in Archive

\* Restore is additive for accounts and clusters: no step of it touches a
\* user, a kubeconfig or the settings of a cluster it did not itself create.
SparesStep ==
    (pc \in {"users", "restoreGrants"} /\ changes' = changes) =>
        /\ \A u \in Users : users[u] # None => users'[u] = users[u]
        /\ \A c \in Clusters :
              clusters[c] # NoRow /\ (c # current \/ c \in before \ changed) =>
                  clusters'[c] = clusters[c]

\* A restore that reports success has brought back every account, every
\* cluster that was missing with its write lock, and every grant, but for
\* what administrators changed meanwhile.
RestoredInFull ==
    outcome = "restored" /\ ~dryRun =>
        /\ \A u \in Existing(file.users, None) : \E v \in Users : users[v] = file.users[u]
        /\ \A c \in Existing(file.clusters, NoEntry) \ changed :
              /\ clusters[c] # NoRow
              /\ c \notin before => clusters[c].readOnly = file.clusters[c].readOnly
        /\ \A g \in Existing(file.grants, None) \ changed : grants[g] = file.grants[g]

\* "the way the real registration path does it": the export opens the
\* credentials of the clusters that were registered.
ExportOpensCredentials == outcome # "cannotOpen"
=============================================================================
