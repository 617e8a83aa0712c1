---------------------------- MODULE KeyRotation ----------------------------
(***************************************************************************)
(* The secrets at rest and the command that rewraps them under a new key,  *)
(* beside a server that goes on sealing under the key it started with.  A  *)
(* run lists the cluster credentials, rewraps them one at a time, then     *)
(* does the same for the TOTP secrets; it can be cut short anywhere and    *)
(* run again.                                                              *)
(* (server/cmd/kubby-rotate-key/main.go, server/internal/crypto/envelope.go)*)
(***************************************************************************)
EXTENDS Integers, FiniteSets

CONSTANTS
    Credentials,    \* rows of cluster_credentials, by kubeconfig_enc
    Factors,        \* rows of users, by totp_secret_enc
    Others,         \* the secrets the command has no query for: metrics and
                    \* log passwords, setting_secrets
    None,           \* no row, or a NULL column
    MaxContent,     \* bound on the values each secret takes
    MaxRuns         \* bound on the runs of the command

ASSUME KeyRotationAssumption ==
    /\ Credentials \cap Factors = {}
    /\ (Credentials \cup Factors) \cap Others = {}
    /\ MaxContent \in Nat \ {0}
    /\ MaxRuns \in Nat

Secrets == Credentials \cup Factors \cup Others

\* The data key is fresh for every Seal; what tells blobs apart is the key
\* version written in the header, the key that really wrapped it, and the
\* plaintext.
Versions == 0 .. 2
Keys == {"old", "new", "stray"}
Content == 0 .. MaxContent
Blob == [version: Versions, key: Keys, content: Content]

ASSUME NoneAssumption == None \notin Blob

\* A keyring: the key behind each version it holds, and the active version.
Keyring == [active: Versions, keys: [Versions -> Keys \cup {"absent"}]]
SingleKey(v, k) ==
    [active |-> v, keys |-> [w \in Versions |-> IF w = v THEN k ELSE "absent"]]
AddRetiredKey(ring, v, k) == [ring EXCEPT !.keys[v] = k]

\* Mutant: the header names the version after the active one.
Seal_Next(ring, c) ==
    [version |-> ring.active + 1, key |-> ring.keys[ring.active], content |-> c]

Seal(ring, c) ==
    [version |-> ring.active, key |-> ring.keys[ring.active], content |-> c]
Opens(ring, blob) == ring.keys[blob.version] = blob.key
NeedsRewrap(ring, blob) == blob.version # ring.active

\* The environments the command is run with.  The version is raised or is
\* left at its default; the previous key is the one in use or a wrong one.
Environment == [version: {1, 2}, previous: {"old", "stray"}, dryRun: BOOLEAN]
CommandRing(e) ==
    AddRetiredKey(SingleKey(e.version, "new"), e.version - 1, e.previous)

VARIABLES
    db,             \* secret -> its blob, or None
    ring,           \* the keyring of the running server
    env,            \* environment of the run, or of the last one
    pc,             \* "idle", "list", "next", "store"
    table,          \* which table is being rewrapped
    pending,        \* the records still to do, as they were listed
    held,           \* the record that was resealed and is about to be stored
    outcome,        \* of the last run: "none", "ok", "undecryptable", "cut"
    runs,           \* runs started
    gone,           \* clusters deleted; their ids do not return
    saved,          \* history: secret -> the value last saved, or None
    raced,          \* history: secrets saved while the command held a copy
    resaved,        \* history: secrets saved since the run began
    rewraps         \* history: secret -> times rewrapped since it was saved

command == <<env, pc, table, pending, held, outcome, runs>>
history == <<saved, raced, resaved, rewraps>>
vars == <<db, ring, gone, command, history>>

OldRing == SingleKey(1, "old")
NoRecord == [id |-> None, blob |-> None]
Record == [id: Credentials \cup Factors, blob: Blob]

Init ==
    /\ ring = OldRing
    /\ db \in [Secrets -> {None, Seal(OldRing, 0)}]
    /\ env = [version |-> 2, previous |-> "old", dryRun |-> FALSE]
    /\ pc = "idle"
    /\ table = "cluster"
    /\ pending = {}
    /\ held = NoRecord
    /\ outcome = "none"
    /\ runs = 0
    /\ gone = {}
    /\ saved = [s \in Secrets |-> IF db[s] = None THEN None ELSE 0]
    /\ raced = {}
    /\ resaved = {}
    /\ rewraps = [s \in Secrets |-> 0]

-----------------------------------------------------------------------------
(* The server. *)

Copied == {r.id : r \in pending} \cup {held.id}

\* Create, ReplaceCredential, EnrollTOTP, storeSecret: a value is sealed
\* under the server's active key and written.
Save(s) ==
    /\ saved[s] # MaxContent
    /\ s \notin gone
    /\ saved' = [saved EXCEPT ![s] = IF @ = None THEN 0 ELSE @ + 1]
    /\ db' = [db EXCEPT ![s] = Seal(ring, saved'[s])]
    /\ raced' = IF s \in Copied THEN raced \cup {s} ELSE raced \ {s}
    /\ resaved' = resaved \cup {s}
    /\ rewraps' = [rewraps EXCEPT ![s] = 0]
    /\ UNCHANGED <<ring, gone, command>>

\* A cluster is deleted, and its credential with it.
Delete(s) ==
    /\ s \in Credentials
    /\ db[s] # None
    /\ db' = [db EXCEPT ![s] = None]
    /\ gone' = gone \cup {s}
    /\ saved' = [saved EXCEPT ![s] = None]
    /\ raced' = raced \ {s}
    /\ UNCHANGED <<ring, command, resaved, rewraps>>

\* The server is restarted with the key that is being rotated to.
Restart ==
    /\ runs > 0
    /\ ring' = SingleKey(env.version, "new")
    /\ ring' # ring
    /\ UNCHANGED <<db, gone, command, history>>

-----------------------------------------------------------------------------
(* The command. *)

Start(e) ==
    /\ pc = "idle"
    /\ runs < MaxRuns
    /\ env' = e
    /\ pc' = "list"
    /\ table' = "cluster"
    /\ outcome' = "none"
    /\ runs' = runs + 1
    /\ raced' = {s \in raced : db[s] # None /\ db[s].content # saved[s]}
    /\ resaved' = {}
    /\ UNCHANGED <<db, ring, gone, pending, held, saved, rewraps>>

TableOf(t) == IF t = "cluster" THEN Credentials ELSE Factors

\* Mutant: NeedsRewrap is not asked.
List_All ==
    /\ pc = "list"
    /\ pending' = {[id |-> s, blob |-> db[s]] :
                     s \in {x \in TableOf(table) : db[x] # None}}
    /\ pc' = "next"
    /\ UNCHANGED <<db, ring, gone, env, table, held, outcome, runs, history>>

\* The SELECT, and the records that are not under the active key.
List ==
    /\ pc = "list"
    /\ pending' = {[id |-> s, blob |-> db[s]] :
                     s \in {x \in TableOf(table) :
                              /\ db[x] # None
                              /\ NeedsRewrap(CommandRing(env), db[x])}}
    /\ pc' = "next"
    /\ UNCHANGED <<db, ring, gone, env, table, held, outcome, runs, history>>

End(how) ==
    /\ pc' = "idle"
    /\ pending' = {}
    /\ held' = NoRecord
    /\ outcome' = how

\* Mutant: a record that does not open is skipped.
Undecryptable_Skips(r) ==
    /\ pending' = pending \ {r}
    /\ UNCHANGED <<pc, held, outcome>>

\* undecryptable: the run aborts at the first record that does not open.
Undecryptable(r) == End("undecryptable")

\* One record is opened with the retired key and sealed again.
Reseal(r) ==
    /\ pc = "next"
    /\ IF Opens(CommandRing(env), r.blob)
       THEN /\ held' = [r EXCEPT !.blob = Seal(CommandRing(env), r.blob.content)]
            /\ pending' = pending \ {r}
            /\ pc' = "store"
            /\ UNCHANGED outcome
       ELSE Undecryptable(r)
    /\ UNCHANGED <<db, ring, gone, env, table, runs, history>>

\* Mutant: the row is inserted again when it is gone.
Store_Upserts ==
    /\ pc = "store"
    /\ IF env.dryRun
       THEN UNCHANGED <<db, rewraps>>
       ELSE /\ db' = [db EXCEPT ![held.id] = held.blob]
            /\ rewraps' = [rewraps EXCEPT ![held.id] = @ + 1]
    /\ held' = NoRecord
    /\ pc' = "next"
    /\ UNCHANGED <<ring, gone, env, table, pending, outcome, runs, saved, raced, resaved>>

\* UPDATE ... WHERE id: unconditional, and nothing when the row is gone.
Store ==
    /\ pc = "store"
    /\ IF env.dryRun \/ db[held.id] = None
       THEN UNCHANGED <<db, rewraps>>
       ELSE /\ db' = [db EXCEPT ![held.id] = held.blob]
            /\ rewraps' = [rewraps EXCEPT ![held.id] = @ + 1]
    /\ held' = NoRecord
    /\ pc' = "next"
    /\ UNCHANGED <<ring, gone, env, table, pending, outcome, runs, saved, raced, resaved>>

\* The list is done: on to the TOTP secrets, or to the end.
TableDone ==
    /\ pc = "next"
    /\ pending = {}
    /\ IF table = "cluster"
       THEN /\ table' = "totp" /\ pc' = "list"
            /\ UNCHANGED <<pending, held, outcome>>
       ELSE End("ok") /\ UNCHANGED table
    /\ UNCHANGED <<db, ring, gone, env, runs, history>>

\* The process is killed, runs out of its 30 minutes or loses the database.
Cut ==
    /\ pc # "idle"
    /\ End("cut")
    /\ UNCHANGED <<db, ring, gone, env, table, runs, history>>

Command ==
    \/ List
    \/ \E r \in pending : Reseal(r)
    \/ Store
    \/ TableDone

Next ==
    \/ \E s \in Secrets : Save(s) \/ Delete(s)
    \/ Restart
    \/ \E e \in Environment : Start(e)
    \/ Command
    \/ Cut

Spec == Init /\ [][Next]_vars

-----------------------------------------------------------------------------
(* Properties. *)

Rewrapped == Credentials \cup Factors

\* Every variable has its type.
TypeOK ==
    /\ db \in [Secrets -> Blob \cup {None}]
    /\ ring \in Keyring
    /\ env \in Environment
    /\ pc \in {"idle", "list", "next", "store"}
    /\ table \in {"cluster", "totp"}
    /\ pending \subseteq Record
    /\ held \in Record \cup {NoRecord}
    /\ outcome \in {"none", "ok", "undecryptable", "cut"}
    /\ runs \in 0 .. MaxRuns
    /\ gone \subseteq Credentials
    /\ saved \in [Secrets -> Content \cup {None}]
    /\ raced \subseteq Secrets
    /\ resaved \subseteq Secrets
    /\ rewraps \in [Secrets -> Nat]

\* Rewrapping changes keys, never values: whatever run was cut short where,
\* and whichever wrong keys it was given, each secret holds the value last
\* saved, unless that save raced with a run holding an older copy.
ValuesKept ==
    \A s \in Secrets \ raced :
        IF db[s] = None THEN saved[s] = None ELSE db[s].content = saved[s]

\* Rotation touches each record once: a record rewrapped by a run that was
\* cut short, or by an earlier run, is not rewrapped again by the next.
TouchedOnce == \A s \in Secrets : rewraps[s] <= 1

\* A run that reports success after the version was raised leaves every
\* kubeconfig and TOTP secret under the new key, but for those the server
\* saved meanwhile.
DoneMeansRewrapped ==
    outcome = "ok" /\ ~env.dryRun /\ env.version = 2 =>
        \A s \in Rewrapped \ resaved :
            db[s] # None => db[s].version = 2

\* "runs incrementally and without downtime": a value saved while a run is
\* under way is not lost to it.
SavesSurvive ==
    \A s \in Secrets : db[s] # None /\ saved[s] # None => db[s].content = saved[s]
=============================================================================
