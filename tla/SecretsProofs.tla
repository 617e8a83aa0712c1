---------------------------- MODULE SecretsProofs ----------------------------
(***************************************************************************)
(* Proofs about the commands that work on the sealed rows and about the    *)
(* audit trail, side by side as the model checker runs them, for every     *)
(* value of the constants.  Key rotation and the trail are proved about    *)
(* here; the backup in a module of its own, whose invariant is carried     *)
(* over: a step of one part is a step of its component and leaves the      *)
(* others as they are.                                                     *)
(*                                                                         *)
(* Key rotation, for every set of secrets, every number of runs and every  *)
(* value saved.  ValuesKept, TouchedOnce and DoneMeansRewrapped are not    *)
(* inductive: what makes them so is that the copies a run works on agree   *)
(* with the rows they were read from unless a save raced (Copies), that    *)
(* only a run with a raised version ever stores anything (Once), and that  *)
(* what such a run has not raised yet is still in its hands (Raises).      *)
(***************************************************************************)
EXTENDS MCSecrets, TLAPS

BP == INSTANCE BackupProofs WITH
    users <- t1, clusters <- t2, grants <- t3, setting <- t4, file <- t5, pc <- t6,
    draft <- t7, dryRun <- t8, todo <- t9, current <- t10, outcome <- t11,
    minted <- t12, changes <- t13, ops <- t14, before <- t15, changed <- t16

SecretsNext == RotationNext \/ BackupNext \/ TrailNext
secretsVars == <<part, vars, others>>

-----------------------------------------------------------------------------
(* Key rotation. *)


\* The server and the rows never use version 0, and a missing row has no
\* saved value.
Rows ==
    /\ ring.active \in {1, 2} /\ ring.keys[ring.active] \in Keys
    /\ \A s \in Secrets : db[s] # None => db[s].version \in {1, 2}
    /\ \A s \in Secrets : db[s] = None => saved[s] = None

\* Where the command is, and what it then holds.
Place ==
    /\ pc \in {"idle", "list"} => pending = {}
    /\ pc # "store" => held = NoRecord
    /\ pc = "store" => held \in Record /\ env.version = 2 /\ held.blob.version = 2

\* The copies a run holds carry the values of the rows, but for raced ones.
Copies ==
    /\ \A r \in pending :
          r.id \notin raced /\ db[r.id] # None => db[r.id].content = r.blob.content
    /\ pc = "store" /\ held.id \notin raced /\ db[held.id] # None =>
          db[held.id].content = held.blob.content

\* Each record is listed once, under a version other than the run's, and is
\* not one that was rewrapped already.
Once ==
    /\ \A r, q \in pending : r.id = q.id => r = q
    /\ pc = "store" => \A r \in pending : r.id # held.id
    /\ \A r \in pending : r.blob.version \in {1, 2} \ {env.version}
    /\ \A r \in pending : env.version = 2 => rewraps[r.id] = 0 \/ db[r.id] = None
    /\ pc = "store" => rewraps[held.id] = 0 \/ db[held.id] = None
    /\ \A s \in Secrets : rewraps[s] = 1 /\ db[s] # None => db[s].version = 2

IInv == TypeOK /\ Rows /\ Place /\ Copies /\ Once /\ ValuesKept /\ TouchedOnce

\* A row that the running run has still to raise, unless it is saved anew.
Unraised(s) == db[s] # None /\ db[s].version # 2 /\ s \notin resaved

\* A run that raises the version leaves no such row behind it: what it has
\* listed and not stored it holds.
Raises ==
    env.version = 2 /\ ~env.dryRun =>
        /\ pc # "idle" /\ table = "totp" => \A s \in Credentials : ~Unraised(s)
        /\ pc \in {"next", "store"} =>
              \A s \in TableOf(table) : Unraised(s) =>
                  (\E r \in pending : r.id = s) \/ (pc = "store" /\ held.id = s)
        /\ outcome = "ok" => \A s \in Rewrapped : ~Unraised(s)


\* What the two kinds of key ring hold.
LEMMA RingFacts ==
    ASSUME NEW v \in {1, 2}, NEW k \in Keys
    PROVE  /\ SingleKey(v, k) \in Keyring
           /\ SingleKey(v, k).active = v
           /\ SingleKey(v, k).keys[v] = k
BY DEF SingleKey, Keyring, Versions, Keys

\* The command's ring has the new key active and opens nothing under the
\* version after it.
LEMMA CommandRingFacts ==
    ASSUME NEW e \in Environment
    PROVE  /\ CommandRing(e) \in Keyring
           /\ CommandRing(e).active = e.version
           /\ CommandRing(e).keys[e.version] = "new"
           /\ e.version = 1 => CommandRing(e).keys[2] = "absent"
<1> DEFINE one == SingleKey(e.version, "new")
<1>1. e.version \in {1, 2} /\ e.previous \in Keys
    BY DEF Environment, Keys
<1>2. one \in Keyring /\ one.active = e.version /\ one.keys[e.version] = "new"
    BY <1>1, RingFacts DEF Keys
<1>3. e.version = 1 => one.keys[2] = "absent"
    BY DEF SingleKey, Versions
<1>4. e.version - 1 \in Versions /\ e.version - 1 # e.version /\ e.version - 1 # 2
    BY <1>1 DEF Versions
<1> HIDE DEF one
<1>5. CommandRing(e) = [one EXCEPT !.keys[e.version - 1] = e.previous]
    BY DEF CommandRing, AddRetiredKey, one
<1>6. /\ one.keys \in [Versions -> Keys \cup {"absent"}]
      /\ one.active \in Versions
    BY <1>2 DEF Keyring
<1>7. /\ CommandRing(e).active = one.active
      /\ CommandRing(e).keys = [one.keys EXCEPT ![e.version - 1] = e.previous]
      /\ CommandRing(e) \in Keyring
    BY <1>1, <1>2, <1>4, <1>5, <1>6 DEF Keyring
<1> QED
    BY <1>1, <1>2, <1>3, <1>4, <1>6, <1>7 DEF Versions

\* A ring that holds its active key seals a well-formed blob.
LEMMA SealFacts ==
    ASSUME NEW k \in Keyring, k.keys[k.active] \in Keys, NEW c \in Content
    PROVE  /\ Seal(k, c) \in Blob
           /\ Seal(k, c) # None
           /\ Seal(k, c).version = k.active
           /\ Seal(k, c).content = c
BY NoneAssumption DEF Seal, Keyring, Blob

\* NoRecord is not a record: its blob is none.
LEMMA NoRecordFacts == NoRecord \notin Record
BY NoneAssumption DEF NoRecord, Record


\* The initial states satisfy the invariant.
LEMMA InitIInv == Init => IInv
<1> SUFFICES ASSUME Init PROVE IInv
    OBVIOUS
<1> USE KeyRotationAssumption, NoneAssumption DEF Init
<1>1. 0 \in Content
    BY DEF Content
<1>2. /\ OldRing \in Keyring /\ OldRing.active = 1 /\ OldRing.keys[1] = "old"
    BY RingFacts DEF OldRing, Keys
<1>3. Seal(OldRing, 0) \in Blob /\ Seal(OldRing, 0).version = 1 /\ Seal(OldRing, 0).content = 0
    BY <1>1, <1>2, SealFacts DEF Keys
<1>4. TypeOK
    BY <1>1, <1>2, <1>3 DEF TypeOK, Environment
<1>5. Rows
    BY <1>2, <1>3 DEF Rows, Keys
<1>6. Place /\ Copies /\ Once
    BY DEF Place, Copies, Once
<1>7. ValuesKept /\ TouchedOnce
    BY <1>3 DEF ValuesKept, TouchedOnce
<1> QED BY <1>4, <1>5, <1>6, <1>7 DEF IInv

\* Saving a value: the row agrees with it, and copies of the row are raced.
LEMMA SaveIInv ==
    ASSUME IInv, NEW s \in Secrets, Save(s)
    PROVE  IInv'
<1> DEFINE c == saved'[s]
<1> USE DEF IInv
<1>1. c \in Content
  <2>1. saved[s] \in Content \cup {None} /\ saved[s] # MaxContent
      BY DEF Save, TypeOK
  <2>2. c = IF saved[s] = None THEN 0 ELSE saved[s] + 1
      BY DEF Save, TypeOK
  <2> QED BY <2>1, <2>2, KeyRotationAssumption DEF Content
<1>2. /\ Seal(ring, c) \in Blob /\ Seal(ring, c) # None
      /\ Seal(ring, c).version = ring.active /\ Seal(ring, c).content = c
    BY <1>1, SealFacts DEF TypeOK, Rows
<1>3. /\ db' = [db EXCEPT ![s] = Seal(ring, c)]
      /\ saved' = [saved EXCEPT ![s] = c]
      /\ rewraps' = [rewraps EXCEPT ![s] = 0]
      /\ raced' = IF s \in Copied THEN raced \cup {s} ELSE raced \ {s}
      /\ resaved' = resaved \cup {s}
      /\ UNCHANGED <<ring, gone, env, pc, table, pending, held, outcome, runs>>
    BY DEF Save, command, TypeOK
<1>4. TypeOK'
    BY <1>1, <1>2, <1>3 DEF TypeOK
<1>5. Rows'
    BY <1>2, <1>3 DEF Rows, TypeOK
<1>6. Place'
    BY <1>3 DEF Place
<1>7. Copies'
    BY <1>2, <1>3, NoRecordFacts DEF Copies, Copied, TypeOK, Record, Secrets
<1>8. Once'
    BY <1>2, <1>3 DEF Once, Rows, TypeOK
<1>9. ValuesKept'
    BY <1>2, <1>3 DEF ValuesKept, TypeOK
<1>10. TouchedOnce'
    BY <1>3 DEF TouchedOnce, TypeOK
<1> QED BY <1>4, <1>5, <1>6, <1>7, <1>8, <1>9, <1>10

\* Deleting a cluster takes its credential and the value with it.
LEMMA DeleteIInv ==
    ASSUME IInv, NEW s \in Secrets, Delete(s)
    PROVE  IInv'
<1> USE DEF IInv
<1>1. /\ db' = [db EXCEPT ![s] = None]
      /\ saved' = [saved EXCEPT ![s] = None]
      /\ raced' = raced \ {s}
      /\ gone' = gone \cup {s} /\ s \in Credentials
      /\ UNCHANGED <<ring, env, pc, table, pending, held, outcome, runs, resaved, rewraps>>
    BY DEF Delete, command
<1>2. TypeOK'
    BY <1>1 DEF TypeOK
<1>3. Rows' /\ Place'
    BY <1>1 DEF Rows, Place, TypeOK
<1>4. Copies'
    BY <1>1 DEF Copies, TypeOK
<1>5. Once'
    BY <1>1 DEF Once, TypeOK
<1>6. ValuesKept' /\ TouchedOnce'
    BY <1>1 DEF ValuesKept, TouchedOnce, TypeOK
<1> QED BY <1>2, <1>3, <1>4, <1>5, <1>6

\* A restarted server seals under version 1 or 2 with a key it has.
LEMMA RestartIInv ==
    ASSUME IInv, Restart
    PROVE  IInv'
<1> USE DEF IInv
<1>1. /\ ring' = SingleKey(env.version, "new")
      /\ UNCHANGED <<db, gone, env, pc, table, pending, held, outcome, runs,
                     saved, raced, resaved, rewraps>>
    BY DEF Restart, command, history
<1>2. ring' \in Keyring /\ ring'.active \in {1, 2} /\ ring'.keys[ring'.active] \in Keys
    BY <1>1, RingFacts DEF TypeOK, Environment, Keys
<1>3. TypeOK'
    BY <1>1, <1>2 DEF TypeOK
<1>4. Rows'
    BY <1>1, <1>2 DEF Rows
<1>5. Place' /\ Copies' /\ Once' /\ ValuesKept' /\ TouchedOnce'
    BY <1>1 DEF Place, Copies, Once, ValuesKept, TouchedOnce
<1> QED BY <1>3, <1>4, <1>5

\* A run starts with nothing in hand.
LEMMA StartIInv ==
    ASSUME IInv, NEW e \in Environment, Start(e)
    PROVE  IInv'
<1> USE DEF IInv
<1>1. /\ env' = e /\ pc' = "list" /\ table' = "cluster" /\ outcome' = "none"
      /\ runs' = runs + 1 /\ runs < MaxRuns /\ pc = "idle"
      /\ raced' = {s \in raced : db[s] # None /\ db[s].content # saved[s]}
      /\ resaved' = {}
      /\ UNCHANGED <<db, ring, gone, pending, held, saved, rewraps>>
    BY DEF Start
<1>2. TypeOK'
    BY <1>1, KeyRotationAssumption DEF TypeOK
<1>3. Rows'
    BY <1>1 DEF Rows
<1>4. Place' /\ Copies' /\ Once'
    BY <1>1 DEF Place, Copies, Once
<1>5. ValuesKept'
    BY <1>1 DEF ValuesKept, Rows
<1>6. TouchedOnce'
    BY <1>1 DEF TouchedOnce
<1> QED BY <1>2, <1>3, <1>4, <1>5, <1>6

\* The list agrees with the rows it is read from, and leaves out what was
\* rewrapped before.
LEMMA ListIInv ==
    ASSUME IInv, List
    PROVE  IInv'
<1> DEFINE listed == {x \in TableOf(table) :
                        db[x] # None /\ NeedsRewrap(CommandRing(env), db[x])}
<1> USE DEF IInv
<1>1. /\ pc = "list" /\ pc' = "next" /\ pending = {} /\ held = NoRecord
      /\ pending' = {[id |-> x, blob |-> db[x]] : x \in listed}
      /\ UNCHANGED <<db, ring, gone, env, table, held, outcome, runs,
                     saved, raced, resaved, rewraps>>
    BY DEF List, history, Place
<1>2. \A x \in listed : x \in Credentials \cup Factors /\ x \in Secrets /\ db[x] # None
                          /\ db[x] \in Blob /\ db[x].version # env.version
    BY CommandRingFacts DEF TableOf, NeedsRewrap, TypeOK, Secrets
<1>3. \A r \in pending' : r.id \in listed /\ r.blob = db[r.id] /\ r = [id |-> r.id, blob |-> db[r.id]]
    BY <1>1
<1> HIDE DEF listed
<1>4. pending' \subseteq Record
    BY <1>2, <1>3 DEF Record
<1>5. TypeOK'
    BY <1>1, <1>4 DEF TypeOK
<1>6. Rows' /\ Place' /\ ValuesKept' /\ TouchedOnce'
    BY <1>1 DEF Rows, Place, ValuesKept, TouchedOnce
<1>7. Copies'
    BY <1>1, <1>3 DEF Copies
<1>8. Once'
  <2>1. \A r, q \in pending' : r.id = q.id => r = q
      BY <1>3
  <2>2. \A r \in pending' : r.blob.version \in {1, 2} \ {env.version}
      BY <1>2, <1>3 DEF Rows
  <2>3. \A r \in pending' : env.version = 2 => rewraps[r.id] = 0
      BY <1>2, <1>3 DEF Once, TouchedOnce, TypeOK
  <2> QED BY <1>1, <2>1, <2>2, <2>3 DEF Once
<1> QED BY <1>5, <1>6, <1>7, <1>8

\* A run that ends, however it does, drops what it holds.
LEMMA EndIInv ==
    ASSUME IInv, NEW how \in {"ok", "undecryptable", "cut"}, End(how),
           UNCHANGED <<db, ring, gone, env, table, runs, history>>
    PROVE  IInv'
<1> USE DEF IInv
<1>1. /\ pc' = "idle" /\ pending' = {} /\ held' = NoRecord /\ outcome' = how
      /\ UNCHANGED <<db, ring, gone, env, table, runs, saved, raced, resaved, rewraps>>
    BY DEF End, history
<1>2. TypeOK'
    BY <1>1 DEF TypeOK
<1>3. Rows' /\ Place' /\ Copies' /\ Once'
    BY <1>1 DEF Rows, Place, Copies, Once
<1>4. ValuesKept' /\ TouchedOnce'
    BY <1>1 DEF ValuesKept, TouchedOnce
<1> QED BY <1>2, <1>3, <1>4

\* Resealing keeps the value.  Only a run with a raised version gets here:
\* to one without, what it lists is under a version it has no key for.
LEMMA ResealIInv ==
    ASSUME IInv, NEW r \in pending, Reseal(r)
    PROVE  IInv'
<1> USE DEF IInv
<1>1. CASE ~Opens(CommandRing(env), r.blob)
    BY <1>1, EndIInv DEF Reseal, Undecryptable
<1>2. CASE Opens(CommandRing(env), r.blob)
  <2> DEFINE sealed == Seal(CommandRing(env), r.blob.content)
  <2>1. /\ held' = [r EXCEPT !.blob = sealed] /\ pending' = pending \ {r}
        /\ pc = "next" /\ pc' = "store"
        /\ UNCHANGED <<db, ring, gone, env, table, runs, outcome, saved, raced, resaved, rewraps>>
      BY <1>2 DEF Reseal, history
  <2>2. r \in Record /\ r.blob \in Blob /\ r.blob.key \in Keys /\ r.blob.content \in Content
      BY DEF TypeOK, Record, Blob
  <2>3. env \in Environment /\ env.version \in {1, 2}
      BY DEF TypeOK, Environment
  <2>4. env.version = 2
    <3> SUFFICES ASSUME env.version = 1 PROVE FALSE
        BY <2>3
    <3>1. r.blob.version = 2
        BY DEF Once
    <3>2. r.blob.key = "absent"
        BY <1>2, <2>3, <3>1, CommandRingFacts DEF Opens
    <3> QED BY <2>2, <3>2 DEF Keys
  <2>5. sealed \in Blob /\ sealed.version = 2 /\ sealed.content = r.blob.content
      BY <2>2, <2>3, <2>4, CommandRingFacts, SealFacts DEF Keys
  <2> HIDE DEF sealed
  <2>6. held' \in Record /\ held'.id = r.id /\ held'.blob = sealed
      BY <2>1, <2>2, <2>5 DEF Record
  <2>7. TypeOK'
      BY <2>1, <2>6 DEF TypeOK
  <2>8. Rows' /\ ValuesKept' /\ TouchedOnce'
      BY <2>1 DEF Rows, ValuesKept, TouchedOnce
  <2>9. Place'
      BY <2>1, <2>4, <2>5, <2>6 DEF Place
  <2>10. Copies'
      BY <2>1, <2>5, <2>6 DEF Copies
  <2>11. Once'
      BY <2>1, <2>4, <2>6 DEF Once
  <2> QED BY <2>7, <2>8, <2>9, <2>10, <2>11
<1> QED BY <1>1, <1>2

\* Storing a rewrapped record changes the version of a row, and its value
\* only where a save raced.
LEMMA StoreIInv ==
    ASSUME IInv, Store
    PROVE  IInv'
<1> USE DEF IInv
<1>1. /\ pc = "store" /\ pc' = "next" /\ held' = NoRecord
      /\ UNCHANGED <<ring, gone, env, table, pending, outcome, runs, saved, raced, resaved>>
    BY DEF Store
<1>2. /\ held \in Record /\ held.id \in Secrets /\ held.blob \in Blob
      /\ env.version = 2 /\ held.blob.version = 2
    BY <1>1 DEF Place, Record, Secrets
<1>3. CASE env.dryRun \/ db[held.id] = None
  <2>1. UNCHANGED <<db, rewraps>>
      BY <1>3 DEF Store
  <2>2. TypeOK' /\ Rows'
      BY <1>1, <2>1 DEF TypeOK, Rows
  <2>3. Place' /\ Copies' /\ Once'
      BY <1>1, <2>1 DEF Place, Copies, Once
  <2>4. ValuesKept' /\ TouchedOnce'
      BY <1>1, <2>1 DEF ValuesKept, TouchedOnce
  <2> QED BY <2>2, <2>3, <2>4
<1>4. CASE ~(env.dryRun \/ db[held.id] = None)
  <2>1. /\ db[held.id] # None /\ rewraps[held.id] = 0
        /\ db' = [db EXCEPT ![held.id] = held.blob]
        /\ rewraps' = [rewraps EXCEPT ![held.id] = rewraps[held.id] + 1]
      BY <1>1, <1>4 DEF Store, Once
  <2>2. held.blob # None
      BY <1>2, NoneAssumption
  <2>3. TypeOK'
      BY <1>1, <1>2, <2>1 DEF TypeOK
  <2>4. Rows' /\ Place'
      BY <1>1, <1>2, <2>1, <2>2 DEF Rows, Place, TypeOK
  <2>5. Copies'
      BY <1>1, <1>2, <2>1 DEF Copies, Once, TypeOK
  <2>6. Once'
      BY <1>1, <1>2, <2>1 DEF Once, TypeOK
  <2>7. ValuesKept'
      BY <1>1, <1>2, <2>1, <2>2 DEF ValuesKept, Copies, TypeOK
  <2>8. TouchedOnce'
      BY <1>2, <2>1 DEF TouchedOnce, TypeOK
  <2> QED BY <2>3, <2>4, <2>5, <2>6, <2>7, <2>8
<1> QED BY <1>3, <1>4

\* The next table is begun with nothing in hand, or the run ends.
LEMMA TableDoneIInv ==
    ASSUME IInv, TableDone
    PROVE  IInv'
<1> USE DEF IInv
<1>1. CASE table = "cluster"
  <2>1. /\ pc = "next" /\ pending = {} /\ table' = "totp" /\ pc' = "list"
        /\ UNCHANGED <<db, ring, gone, env, runs, pending, held, outcome,
                       saved, raced, resaved, rewraps>>
      BY <1>1 DEF TableDone, history
  <2>2. TypeOK' /\ Rows'
      BY <2>1 DEF TypeOK, Rows
  <2>3. Place' /\ Copies' /\ Once'
      BY <2>1 DEF Place, Copies, Once
  <2>4. ValuesKept' /\ TouchedOnce'
      BY <2>1 DEF ValuesKept, TouchedOnce
  <2> QED BY <2>2, <2>3, <2>4
<1>2. CASE table # "cluster"
    BY <1>2, EndIInv DEF TableDone
<1> QED BY <1>1, <1>2

\* Every step keeps the invariant.
LEMMA NextIInv == IInv /\ [Next]_vars => IInv'
<1> SUFFICES ASSUME IInv, [Next]_vars PROVE IInv'
    OBVIOUS
<1>1. ASSUME NEW s \in Secrets, Save(s) PROVE IInv'
    BY <1>1, SaveIInv
<1>2. ASSUME NEW s \in Secrets, Delete(s) PROVE IInv'
    BY <1>2, DeleteIInv
<1>3. CASE Restart
    BY <1>3, RestartIInv
<1>4. ASSUME NEW e \in Environment, Start(e) PROVE IInv'
    BY <1>4, StartIInv
<1>5. CASE List
    BY <1>5, ListIInv
<1>6. ASSUME NEW r \in pending, Reseal(r) PROVE IInv'
    BY <1>6, ResealIInv
<1>7. CASE Store
    BY <1>7, StoreIInv
<1>8. CASE TableDone
    BY <1>8, TableDoneIInv
<1>9. CASE Cut
    BY <1>9, EndIInv DEF Cut
<1>10. CASE UNCHANGED vars
    BY <1>10 DEF vars, command, history, IInv, TypeOK, Rows, Place, Copies, Once,
                 ValuesKept, TouchedOnce
<1> QED
    BY <1>1, <1>2, <1>3, <1>4, <1>5, <1>6, <1>7, <1>8, <1>9, <1>10 DEF Next, Command

\* What a step of the server does to a row keeps the run from missing it.
LEMMA RaisesServer ==
    ASSUME IInv, Raises, NEW s \in Secrets, Save(s) \/ Delete(s)
    PROVE  Raises'
<1>1. \A t \in Secrets : Unraised(t)' => Unraised(t)
    BY DEF Save, Delete, Unraised, IInv, TypeOK
<1>2. UNCHANGED command
    BY DEF Save, Delete
<1>3. Credentials \subseteq Secrets /\ Rewrapped \subseteq Secrets
      /\ TableOf(table) \subseteq Secrets
    BY DEF Secrets, Rewrapped, TableOf
<1> QED BY <1>1, <1>2, <1>3 DEF Raises, command, TableOf

\* The list holds every row of the table that is not under the new key, and
\* a row leaves what the run holds when it is stored.
LEMMA RaisesCommand ==
    ASSUME IInv, Raises, Command
    PROVE  Raises'
<1>1. TypeOK /\ Place
    BY DEF IInv
<1>2. CASE List
    <2>1. env \in Environment
        BY <1>1 DEF TypeOK
    <2>2. \A s : Unraised(s)' <=> Unraised(s)
        BY <1>2 DEF List, Unraised, history
    <2>3. ASSUME env.version = 2, NEW s \in TableOf(table), Unraised(s)
          PROVE  \E r \in pending' : r.id = s
        <3>1. NeedsRewrap(CommandRing(env), db[s])
            BY <2>1, <2>3, CommandRingFacts DEF NeedsRewrap, Unraised
        <3>2. [id |-> s, blob |-> db[s]] \in pending'
            BY <1>2, <2>3, <3>1 DEF List, Unraised
        <3> QED BY <3>2
    <2> QED BY <1>2, <2>2, <2>3 DEF Raises, List, TableOf
<1>3. ASSUME NEW r \in pending, Reseal(r) PROVE Raises'
    <2>1. \A s : Unraised(s)' <=> Unraised(s)
        BY <1>3 DEF Reseal, Unraised, history
    <2>2. CASE ~Opens(CommandRing(env), r.blob)
        BY <1>3, <2>1, <2>2 DEF Raises, Reseal, Undecryptable, End
    <2>3. CASE Opens(CommandRing(env), r.blob)
        <3>1. r \in Record
            BY <1>1 DEF TypeOK
        <3>2. held'.id = r.id /\ pending' = pending \ {r} /\ pc = "next" /\ pc' = "store"
              /\ UNCHANGED <<env, table, outcome>>
            BY <1>3, <2>3, <3>1 DEF Reseal, Record
        <3> QED BY <2>1, <3>2 DEF Raises, TableOf
    <2> QED BY <2>2, <2>3
<1>4. CASE Store
    <2>1. pc = "store" /\ pc' = "next" /\ UNCHANGED <<env, table, pending, outcome, resaved>>
          /\ held.blob.version = 2 /\ held.id \in Secrets
        BY <1>1, <1>4 DEF Store, Place, Record, Secrets
    <2>2. \A s \in Secrets : Unraised(s)' => Unraised(s)
        BY <1>1, <1>4, <2>1 DEF Store, Unraised, TypeOK
    <2>3. ASSUME ~env.dryRun PROVE \A s \in Secrets : s = held.id => ~Unraised(s)'
        <3>1. CASE db[held.id] = None
            BY <1>4, <3>1 DEF Store, Unraised
        <3>2. CASE db[held.id] # None
            <4>1. db' = [db EXCEPT ![held.id] = held.blob]
                BY <1>4, <2>3, <3>2 DEF Store
            <4>2. db'[held.id] = held.blob
                BY <1>1, <2>1, <4>1 DEF TypeOK
            <4> QED BY <2>1, <4>2 DEF Unraised
        <3> QED BY <3>1, <3>2
    <2>4. Credentials \subseteq Secrets /\ Rewrapped \subseteq Secrets
          /\ TableOf(table) \subseteq Secrets
        BY DEF Secrets, Rewrapped, TableOf
    <2> SUFFICES ASSUME env.version = 2, ~env.dryRun PROVE Raises'
        BY <2>1 DEF Raises
    <2>5. \A s \in TableOf(table) : Unraised(s)' => \E r \in pending : r.id = s
        BY <2>1, <2>2, <2>3, <2>4 DEF Raises
    <2>6. \A s \in Credentials : pc # "idle" /\ table = "totp" => ~Unraised(s)'
        BY <2>2, <2>4 DEF Raises
    <2>7. \A s \in Rewrapped : outcome = "ok" => ~Unraised(s)'
        BY <2>2, <2>4 DEF Raises
    <2> QED BY <2>1, <2>5, <2>6, <2>7 DEF Raises, TableOf
<1>5. CASE TableDone
    <2>1. pc = "next" /\ pending = {} /\ env' = env
          /\ \A s : Unraised(s)' <=> Unraised(s)
        BY <1>5 DEF TableDone, Unraised, history
    <2>2. env.version = 2 /\ ~env.dryRun => \A s \in TableOf(table) : ~Unraised(s)
        BY <2>1 DEF Raises
    <2>3. CASE table = "cluster"
        BY <1>5, <2>1, <2>2, <2>3 DEF TableDone, Raises, TableOf
    <2>4. CASE table # "cluster"
        <3>1. table = "totp"
            BY <1>1, <2>4 DEF TypeOK
        <3> QED BY <1>5, <2>1, <2>2, <3>1 DEF TableDone, Raises, TableOf, Rewrapped, End
    <2> QED BY <2>3, <2>4
<1> QED BY <1>2, <1>3, <1>4, <1>5 DEF Command

\* Every step keeps what a run still has to raise in its hands.
LEMMA RaisesStep ==
    ASSUME IInv, Raises, [Next]_vars
    PROVE  Raises'
<1>1. CASE Restart \/ UNCHANGED vars
    BY <1>1 DEF Restart, Raises, Unraised, TableOf, command, history, vars
<1>2. ASSUME NEW e \in Environment, Start(e) PROVE Raises'
    BY <1>2 DEF Start, Raises
<1>3. CASE Cut
    BY <1>3 DEF Cut, End, Raises, Unraised, history
<1> QED BY <1>1, <1>2, <1>3, RaisesServer, RaisesCommand DEF Next

-----------------------------------------------------------------------------
(* Backup and restore. *)

\* The backup begins in a state of its component.
LEMMA BackupInit ==
    ASSUME MCInit, part = "backup"
    PROVE  BP!IInv
<1>1. BP!BackupAssumption
    BY MCBackup DEF B!BackupAssumption, BP!BackupAssumption
<1>2. B!Init
    BY DEF MCInit
<1>3. BP!Init
    BY <1>2 DEF B!Init, BP!Init, B!Empty, BP!Empty, B!NoRow, BP!NoRow, B!Archive,
        BP!Archive, B!Existing, BP!Existing, B!NoEntry, BP!NoEntry, B!Entry, BP!Entry,
        B!Level, BP!Level, B!Injective, BP!Injective, B!UniqueNames, BP!UniqueNames,
        B!Closed, BP!Closed
<1> QED BY <1>1, <1>3, BP!InitIInv

\* A step of the backup is one of its component.
LEMMA BackupAct ==
    ASSUME SecretsNext, part' = "backup"
    PROVE  BP!Next
<1>1. BackupNext
    BY DEF SecretsNext, RotationNext, TrailNext, OfRotation, OfTrail
<1>2. ASSUME NEW u \in Users, NEW e \in Emails, B!AddUser(u, e) PROVE BP!AddUser(u, e)
    BY <1>2 DEF B!AddUser, BP!AddUser
<1>3. ASSUME NEW c \in Clusters, NEW n \in Names, B!Register(c, n) PROVE BP!Register(c, n)
    BY <1>3 DEF B!Register, BP!Register
<1>4. ASSUME NEW c \in Clusters, B!ReplaceCredential(c) PROVE BP!ReplaceCredential(c)
    BY <1>4 DEF B!ReplaceCredential, BP!ReplaceCredential, B!NoRow, BP!NoRow
<1>5. ASSUME NEW c \in Clusters, B!SetReadOnly(c) PROVE BP!SetReadOnly(c)
    BY <1>5 DEF B!SetReadOnly, BP!SetReadOnly, B!NoRow, BP!NoRow
<1>6. ASSUME NEW c \in Clusters, B!DeleteCluster(c) PROVE BP!DeleteCluster(c)
    BY <1>6 DEF B!DeleteCluster, BP!DeleteCluster, B!NoRow, BP!NoRow
<1>7. ASSUME NEW u \in Users, NEW c \in Clusters, NEW l, B!SetGrant(u, c, l)
      PROVE  BP!SetGrant(u, c, l)
    BY <1>7 DEF B!SetGrant, BP!SetGrant, B!NoRow, BP!NoRow
<1>8. ASSUME B!Change PROVE BP!Change
    BY <1>8 DEF B!Change, BP!Change, B!command, BP!command, B!progress, BP!progress
<1>9. ASSUME B!SaveSetting PROVE BP!SaveSetting
    BY <1>9 DEF B!SaveSetting, BP!SaveSetting
<1>10. ASSUME B!ExportBegin PROVE BP!ExportBegin
    BY <1>10 DEF B!ExportBegin, BP!ExportBegin, B!Begin, BP!Begin, B!Existing,
        BP!Existing, B!NoRow, BP!NoRow, B!Empty, BP!Empty, B!rows, BP!rows, B!admins,
        BP!admins, B!NoEntry, BP!NoEntry
<1>11. ASSUME NEW c \in Clusters, B!ExportCredential(c) PROVE BP!ExportCredential(c)
    BY <1>11 DEF B!ExportCredential, BP!ExportCredential, B!NoRow, BP!NoRow, B!End,
        BP!End, B!Goto, BP!Goto, B!rows, BP!rows, B!admins, BP!admins, B!history,
        BP!history, B!Empty, BP!Empty, B!NoEntry, BP!NoEntry
<1>12. ASSUME B!ExportGrants PROVE BP!ExportGrants
    BY <1>12 DEF B!ExportGrants, BP!ExportGrants, B!ListGrants, BP!ListGrants, B!Goto,
        BP!Goto, B!rows, BP!rows, B!admins, BP!admins, B!history, BP!history
<1>13. ASSUME B!ExportUsers PROVE BP!ExportUsers
    BY <1>13 DEF B!ExportUsers, BP!ExportUsers, B!Goto, BP!Goto, B!rows, BP!rows,
        B!admins, BP!admins, B!history, BP!history
<1>14. ASSUME B!ExportWrite PROVE BP!ExportWrite
    BY <1>14 DEF B!ExportWrite, BP!ExportWrite, B!End, BP!End, B!rows, BP!rows,
        B!admins, BP!admins, B!history, BP!history, B!Empty, BP!Empty, B!NoEntry,
        BP!NoEntry
<1>15. ASSUME B!RestoreBegin PROVE BP!RestoreBegin
    BY <1>15 DEF B!RestoreBegin, BP!RestoreBegin, B!Torn, BP!Torn, B!Begin, BP!Begin,
        B!Existing, BP!Existing, B!NoRow, BP!NoRow, B!rows, BP!rows, B!admins, BP!admins
<1>16. ASSUME NEW u \in Users, B!RestoreUser(u) PROVE BP!RestoreUser(u)
    BY <1>16 DEF B!RestoreUser, BP!RestoreUser, B!Conflicts, BP!Conflicts, B!progress,
        BP!progress, B!admins, BP!admins, B!history, BP!history
<1>17. ASSUME NEW c \in Clusters, B!RestoreCluster(c) PROVE BP!RestoreCluster(c)
    BY <1>17 DEF B!RestoreCluster, BP!RestoreCluster, B!Existing, BP!Existing,
        B!NoEntry, BP!NoEntry, B!NoRow, BP!NoRow, B!progress, BP!progress, B!End,
        BP!End, B!admins, BP!admins, B!history, BP!history, B!Empty, BP!Empty
<1>18. ASSUME B!SettleCluster PROVE BP!SettleCluster
    BY <1>18 DEF B!SettleCluster, BP!SettleCluster, B!NoRow, BP!NoRow, B!NoEntry,
        BP!NoEntry, B!progress, BP!progress, B!admins, BP!admins, B!history, BP!history
<1>19. ASSUME B!ClustersDone PROVE BP!ClustersDone
    BY <1>19 DEF B!ClustersDone, BP!ClustersDone, B!Existing, BP!Existing, B!NoEntry,
        BP!NoEntry, B!Goto, BP!Goto, B!rows, BP!rows, B!command, BP!command, B!admins,
        BP!admins, B!history, BP!history
<1>20. ASSUME NEW g \in Users \X Clusters, B!RestoreGrant(g) PROVE BP!RestoreGrant(g)
    BY <1>20 DEF B!RestoreGrant, BP!RestoreGrant, B!NoRow, BP!NoRow, B!End, BP!End,
        B!progress, BP!progress, B!admins, BP!admins, B!history, BP!history, B!Empty,
        BP!Empty, B!NoEntry, BP!NoEntry
<1>21. ASSUME B!RestoreSetting PROVE BP!RestoreSetting
    BY <1>21 DEF B!RestoreSetting, BP!RestoreSetting, B!Existing, BP!Existing, B!End,
        BP!End, B!rows, BP!rows, B!admins, BP!admins, B!history, BP!history, B!Empty,
        BP!Empty, B!NoEntry, BP!NoEntry
<1>22. ASSUME B!Cut PROVE BP!Cut
    BY <1>22 DEF B!Cut, BP!Cut, B!Torn, BP!Torn, B!End, BP!End, B!rows, BP!rows,
        B!admins, BP!admins, B!history, BP!history, B!Empty, BP!Empty, B!NoEntry,
        BP!NoEntry
<1> QED BY <1>1, <1>2, <1>3, <1>4, <1>5, <1>6, <1>7, <1>8, <1>9, <1>10, <1>11, <1>12,
        <1>13, <1>14, <1>15, <1>16, <1>17, <1>18, <1>19, <1>20, <1>21, <1>22
    DEF BackupNext, BP!Next, BP!Administrate, BP!Export, BP!Restore, B!Level, BP!Level

\* It keeps the component's invariant, and spares what it did not make.
LEMMA BackupStep ==
    ASSUME BP!IInv, SecretsNext, part' = "backup"
    PROVE  (BP!IInv)' /\ BP!SparesStep
<1>1. BP!BackupAssumption
    BY MCBackup DEF B!BackupAssumption, BP!BackupAssumption
<1> QED BY <1>1, BackupAct, BP!StepIInv, BP!Spares

-----------------------------------------------------------------------------
(* The audit trail. Its setting, token, current, config, enabled, life,    *)
(* built, pc, held, want, overlapped, applied and late are t1 .. t13.       *)

\* Every step keeps the types.
LEMMA TrailTypes ==
    ASSUME Trail!AuditTrailAssumption, Trail!TypeOK, Trail!Kinds, Trail!Serving,
           [Trail!Next]_(Trail!vars)
    PROVE  Trail!TypeOK'
<1> USE DEF Trail!AuditTrailAssumption, Trail!Appliers, Trail!Processes, Trail!vars,
        Trail!manager, Trail!history, Trail!TypeOK,
        Trail!Kinds, Trail!Serving, Trail!Labels, Trail!Setting, Trail!Config,
            Trail!NoConfig, Trail!Nothing
<1>1. ASSUME NEW p \in Trail!Processes, Trail!ShipRead(p) PROVE Trail!TypeOK'
    BY <1>1 DEF Trail!ShipRead, Trail!Goto
<1>2. ASSUME NEW p \in Trail!Processes, Trail!ShipEnqueue(p) PROVE Trail!TypeOK'
    BY <1>2 DEF Trail!ShipEnqueue, Trail!Goto
<1>3. ASSUME NEW p \in Trail!Processes, Trail!AppendEvent(p) PROVE Trail!TypeOK'
    BY <1>3 DEF Trail!AppendEvent, Trail!Goto, Trail!AfterRecord
<1>4. ASSUME NEW p \in Trail!Processes, Trail!StoreSetting(p) PROVE Trail!TypeOK'
    BY <1>4 DEF Trail!StoreSetting, Trail!Goto
<1>5. ASSUME NEW p \in Trail!Processes, Trail!StoreToken(p) PROVE Trail!TypeOK'
    BY <1>5 DEF Trail!StoreToken, Trail!Goto
<1>6. ASSUME NEW p \in Trail!Processes, Trail!StoreTokenFails(p) PROVE Trail!TypeOK'
    BY <1>6 DEF Trail!StoreTokenFails, Trail!Finish, Trail!Goto
<1>7. ASSUME NEW p \in Trail!Processes, Trail!ReadSetting(p) PROVE Trail!TypeOK'
    BY <1>7 DEF Trail!ReadSetting, Trail!Goto
<1>8. ASSUME NEW p \in Trail!Processes, Trail!ReadToken(p) PROVE Trail!TypeOK'
    BY <1>8 DEF Trail!ReadToken, Trail!Goto
<1>9. ASSUME NEW p \in Trail!Processes, Trail!ApplyCheck(p) PROVE Trail!TypeOK'
    <2>1. p \in Trail!Appliers
        BY <1>9 DEF Trail!ApplyCheck
    <2>2. CASE t5 = t10[p].enabled /\ Trail!SameConfig(t4, t10[p].cfg)
        <3>1. t8' = [t8 EXCEPT ![p] = "done"] /\ t12' = TRUE
              /\ t10' = [q \in Trail!Appliers |-> IF q = p THEN Trail!Nothing ELSE t10[q]]
            BY <1>9, <2>2 DEF Trail!ApplyCheck, Trail!Finish, Trail!Goto
        <3>2. UNCHANGED <<t1, t2, t3, t4, t5, t6, t7, t9,
                          t11, t13>>
            BY <1>9 DEF Trail!ApplyCheck
        <3>3. Trail!Nothing \in [enabled : BOOLEAN, cfg : Trail!Config]
            OBVIOUS
        <3> QED BY <3>1, <3>2, <3>3
    <2>3. CASE ~(t5 = t10[p].enabled /\ Trail!SameConfig(t4, t10[p].cfg))
        <3>1. \/ t8' = [t8 EXCEPT ![p] = "build"]
              \/ t8' = [t8 EXCEPT ![p] = "swap"]
            BY <1>9, <2>3 DEF Trail!ApplyCheck, Trail!Goto
        <3>2. UNCHANGED <<t1, t2, t3, t4, t5, t6, t7, t9, t10,
                          t11, t12, t13>>
            BY <1>9, <2>3 DEF Trail!ApplyCheck
        <3> QED BY <3>1, <3>2
    <2> QED BY <2>2, <2>3
<1>10. ASSUME NEW p \in Trail!Processes, Trail!ApplyBuild(p) PROVE Trail!TypeOK'
    BY <1>10 DEF Trail!ApplyBuild, Trail!Goto
<1>11. ASSUME NEW p \in Trail!Processes, Trail!ApplyFails(p) PROVE Trail!TypeOK'
    BY <1>11 DEF Trail!ApplyFails, Trail!Finish, Trail!Goto
<1>12. ASSUME NEW p \in Trail!Processes, Trail!ApplySwap(p) PROVE Trail!TypeOK'
    <2>1. p \in Trail!Appliers
        BY <1>12 DEF Trail!ApplySwap
    <2>2. t10[p].cfg \in Trail!Config /\ t10[p].enabled \in BOOLEAN
        BY <2>1
    <2>3. t9' = [t9 EXCEPT ![p] = t3] /\ t3' \in Trail!Appliers \cup {None}
          /\ t4' \in Trail!Config /\ t5' \in BOOLEAN
          /\ UNCHANGED <<t1, t2, t6, t7, t11, t13>>
        BY <1>12, <2>1, <2>2 DEF Trail!ApplySwap
    <2>4. CASE t3 = None
        <3>1. t8' = [t8 EXCEPT ![p] = "done"] /\ t12' = TRUE
              /\ t10' = [q \in Trail!Appliers |-> IF q = p THEN Trail!Nothing ELSE t10[q]]
            BY <1>12, <2>4 DEF Trail!ApplySwap, Trail!Finish, Trail!Goto
        <3> QED BY <1>12, <2>3, <3>1 DEF Trail!ApplySwap
    <2>5. CASE t3 # None
        <3>1. t8' = [t8 EXCEPT ![p] = "close"] /\ UNCHANGED <<t10, t12>>
            BY <1>12, <2>5 DEF Trail!ApplySwap, Trail!Goto
        <3> QED BY <1>12, <2>3, <2>5, <3>1 DEF Trail!ApplySwap
    <2> QED BY <2>4, <2>5
<1>13. ASSUME NEW p \in Trail!Processes, Trail!CloseQueue(p) PROVE Trail!TypeOK'
    BY <1>13 DEF Trail!CloseQueue, Trail!Goto
<1>14. ASSUME NEW p \in Trail!Processes, Trail!Drained(p) PROVE Trail!TypeOK'
    BY <1>14 DEF Trail!Drained, Trail!Finish, Trail!Goto
<1>15. ASSUME NEW p \in Trail!Processes, Trail!ShutdownSwap(p) PROVE Trail!TypeOK'
    BY <1>15 DEF Trail!ShutdownSwap, Trail!Goto
<1>16. CASE UNCHANGED Trail!vars
    BY <1>16
<1> QED BY <1>1, <1>2, <1>3, <1>4, <1>5, <1>6, <1>7, <1>8, <1>9, <1>10, <1>11,
       <1>12, <1>13, <1>14, <1>15, <1>16
    DEF Trail!Next, Trail!Record, Trail!Save, Trail!Apply

\* A step of a process leads where its kind may be.
LEMMA TrailKinds ==
    ASSUME Trail!AuditTrailAssumption, Trail!TypeOK, Trail!Kinds, [Trail!Next]_(Trail!vars)
    PROVE  Trail!Kinds'
<1> USE DEF Trail!AuditTrailAssumption, Trail!Appliers, Trail!Processes, Trail!vars,
        Trail!manager, Trail!history, Trail!TypeOK,
        Trail!Kinds
<1>1. ASSUME NEW p \in Trail!Processes, Trail!ShipRead(p) PROVE Trail!Kinds'
    BY <1>1 DEF Trail!ShipRead, Trail!Goto
<1>2. ASSUME NEW p \in Trail!Processes, Trail!ShipEnqueue(p) PROVE Trail!Kinds'
    BY <1>2 DEF Trail!ShipEnqueue, Trail!Goto
<1>3. ASSUME NEW p \in Trail!Processes, Trail!AppendEvent(p) PROVE Trail!Kinds'
    BY <1>3 DEF Trail!AppendEvent, Trail!Goto, Trail!AfterRecord
<1>4. ASSUME NEW p \in Trail!Processes, Trail!StoreSetting(p) PROVE Trail!Kinds'
    BY <1>4 DEF Trail!StoreSetting, Trail!Goto
<1>5. ASSUME NEW p \in Trail!Processes, Trail!StoreToken(p) PROVE Trail!Kinds'
    BY <1>5 DEF Trail!StoreToken, Trail!Goto
<1>6. ASSUME NEW p \in Trail!Processes, Trail!StoreTokenFails(p) PROVE Trail!Kinds'
    BY <1>6 DEF Trail!StoreTokenFails, Trail!Finish, Trail!Goto
<1>7. ASSUME NEW p \in Trail!Processes, Trail!ReadSetting(p) PROVE Trail!Kinds'
    BY <1>7 DEF Trail!ReadSetting, Trail!Goto
<1>8. ASSUME NEW p \in Trail!Processes, Trail!ReadToken(p) PROVE Trail!Kinds'
    BY <1>8 DEF Trail!ReadToken, Trail!Goto
<1>9. ASSUME NEW p \in Trail!Processes, Trail!ApplyCheck(p) PROVE Trail!Kinds'
    BY <1>9 DEF Trail!ApplyCheck, Trail!Finish, Trail!Goto
<1>10. ASSUME NEW p \in Trail!Processes, Trail!ApplyBuild(p) PROVE Trail!Kinds'
    BY <1>10 DEF Trail!ApplyBuild, Trail!Goto
<1>11. ASSUME NEW p \in Trail!Processes, Trail!ApplyFails(p) PROVE Trail!Kinds'
    BY <1>11 DEF Trail!ApplyFails, Trail!Finish, Trail!Goto
<1>12. ASSUME NEW p \in Trail!Processes, Trail!ApplySwap(p) PROVE Trail!Kinds'
    BY <1>12 DEF Trail!ApplySwap, Trail!Finish, Trail!Goto
<1>13. ASSUME NEW p \in Trail!Processes, Trail!CloseQueue(p) PROVE Trail!Kinds'
    BY <1>13 DEF Trail!CloseQueue, Trail!Goto
<1>14. ASSUME NEW p \in Trail!Processes, Trail!Drained(p) PROVE Trail!Kinds'
    BY <1>14 DEF Trail!Drained, Trail!Finish, Trail!Goto
<1>15. ASSUME NEW p \in Trail!Processes, Trail!ShutdownSwap(p) PROVE Trail!Kinds'
    BY <1>15 DEF Trail!ShutdownSwap, Trail!Goto
<1>16. CASE UNCHANGED Trail!vars
    BY <1>16
<1> QED BY <1>1, <1>2, <1>3, <1>4, <1>5, <1>6, <1>7, <1>8, <1>9, <1>10, <1>11,
       <1>12, <1>13, <1>14, <1>15, <1>16
    DEF Trail!Next, Trail!Record, Trail!Save, Trail!Apply

\* A shipper is built once, by its own process.
LEMMA TrailBuilding ==
    ASSUME Trail!AuditTrailAssumption, Trail!TypeOK, Trail!Kinds, Trail!Building,
           Trail!Serving, [Trail!Next]_(Trail!vars)
    PROVE  Trail!Building'
<1> USE DEF Trail!AuditTrailAssumption, Trail!Appliers, Trail!Processes, Trail!vars,
        Trail!manager, Trail!history, Trail!TypeOK,
        Trail!Kinds, Trail!Building, Trail!Serving, Trail!MustClose
<1>1. ASSUME NEW p \in Trail!Processes, Trail!ShipRead(p) PROVE Trail!Building'
    BY <1>1 DEF Trail!ShipRead, Trail!Goto
<1>2. ASSUME NEW p \in Trail!Processes, Trail!ShipEnqueue(p) PROVE Trail!Building'
    BY <1>2 DEF Trail!ShipEnqueue, Trail!Goto
<1>3. ASSUME NEW p \in Trail!Processes, Trail!AppendEvent(p) PROVE Trail!Building'
    BY <1>3 DEF Trail!AppendEvent, Trail!Goto, Trail!AfterRecord
<1>4. ASSUME NEW p \in Trail!Processes, Trail!StoreSetting(p) PROVE Trail!Building'
    BY <1>4 DEF Trail!StoreSetting, Trail!Goto
<1>5. ASSUME NEW p \in Trail!Processes, Trail!StoreToken(p) PROVE Trail!Building'
    BY <1>5 DEF Trail!StoreToken, Trail!Goto
<1>6. ASSUME NEW p \in Trail!Processes, Trail!StoreTokenFails(p) PROVE Trail!Building'
    BY <1>6 DEF Trail!StoreTokenFails, Trail!Finish, Trail!Goto
<1>7. ASSUME NEW p \in Trail!Processes, Trail!ReadSetting(p) PROVE Trail!Building'
    BY <1>7 DEF Trail!ReadSetting, Trail!Goto
<1>8. ASSUME NEW p \in Trail!Processes, Trail!ReadToken(p) PROVE Trail!Building'
    BY <1>8 DEF Trail!ReadToken, Trail!Goto
<1>9. ASSUME NEW p \in Trail!Processes, Trail!ApplyCheck(p) PROVE Trail!Building'
    BY <1>9 DEF Trail!ApplyCheck, Trail!Finish, Trail!Goto
<1>10. ASSUME NEW p \in Trail!Processes, Trail!ApplyBuild(p) PROVE Trail!Building'
    <2>1. p \in Trail!Appliers /\ t8[p] = "build" /\ t8' = [t8 EXCEPT ![p] = "swap"]
          /\ t6' = [t6 EXCEPT ![p] = "open"] /\ t7' = [t7 EXCEPT ![p] = t10[p].cfg]
          /\ t10' = t10
        BY <1>10 DEF Trail!ApplyBuild, Trail!Goto
    <2>2. t10[p].enabled
        BY <2>1
    <2> QED BY <2>1, <2>2
<1>11. ASSUME NEW p \in Trail!Processes, Trail!ApplyFails(p) PROVE Trail!Building'
    BY <1>11 DEF Trail!ApplyFails, Trail!Finish, Trail!Goto
<1>12. ASSUME NEW p \in Trail!Processes, Trail!ApplySwap(p) PROVE Trail!Building'
    BY <1>12 DEF Trail!ApplySwap, Trail!Finish, Trail!Goto
<1>13. ASSUME NEW p \in Trail!Processes, Trail!CloseQueue(p) PROVE Trail!Building'
    BY <1>13 DEF Trail!CloseQueue, Trail!Goto
<1>14. ASSUME NEW p \in Trail!Processes, Trail!Drained(p) PROVE Trail!Building'
    BY <1>14 DEF Trail!Drained, Trail!Finish, Trail!Goto
<1>15. ASSUME NEW p \in Trail!Processes, Trail!ShutdownSwap(p) PROVE Trail!Building'
    BY <1>15 DEF Trail!ShutdownSwap, Trail!Goto
<1>16. CASE UNCHANGED Trail!vars
    BY <1>16
<1> QED BY <1>1, <1>2, <1>3, <1>4, <1>5, <1>6, <1>7, <1>8, <1>9, <1>10, <1>11,
       <1>12, <1>13, <1>14, <1>15, <1>16
    DEF Trail!Next, Trail!Record, Trail!Save, Trail!Apply

\* A shipper leaves service in the step that makes one process close it.
LEMMA TrailServing ==
    ASSUME Trail!AuditTrailAssumption, Trail!TypeOK, Trail!Kinds, Trail!Building,
           Trail!Serving, Trail!ClosedOnce, [Trail!Next]_(Trail!vars)
    PROVE  Trail!Serving'
<1> USE DEF Trail!AuditTrailAssumption, Trail!Appliers, Trail!Processes, Trail!vars,
        Trail!manager, Trail!history, Trail!TypeOK,
        Trail!Kinds, Trail!Building, Trail!Serving, Trail!ClosedOnce, Trail!MustClose
<1>1. ASSUME NEW p \in Trail!Processes, Trail!ShipRead(p) PROVE Trail!Serving'
    BY <1>1 DEF Trail!ShipRead, Trail!Goto
<1>2. ASSUME NEW p \in Trail!Processes, Trail!ShipEnqueue(p) PROVE Trail!Serving'
    BY <1>2 DEF Trail!ShipEnqueue, Trail!Goto
<1>3. ASSUME NEW p \in Trail!Processes, Trail!AppendEvent(p) PROVE Trail!Serving'
    BY <1>3 DEF Trail!AppendEvent, Trail!Goto, Trail!AfterRecord
<1>4. ASSUME NEW p \in Trail!Processes, Trail!StoreSetting(p) PROVE Trail!Serving'
    BY <1>4 DEF Trail!StoreSetting, Trail!Goto
<1>5. ASSUME NEW p \in Trail!Processes, Trail!StoreToken(p) PROVE Trail!Serving'
    BY <1>5 DEF Trail!StoreToken, Trail!Goto
<1>6. ASSUME NEW p \in Trail!Processes, Trail!StoreTokenFails(p) PROVE Trail!Serving'
    BY <1>6 DEF Trail!StoreTokenFails, Trail!Finish, Trail!Goto
<1>7. ASSUME NEW p \in Trail!Processes, Trail!ReadSetting(p) PROVE Trail!Serving'
    BY <1>7 DEF Trail!ReadSetting, Trail!Goto
<1>8. ASSUME NEW p \in Trail!Processes, Trail!ReadToken(p) PROVE Trail!Serving'
    BY <1>8 DEF Trail!ReadToken, Trail!Goto
<1>9. ASSUME NEW p \in Trail!Processes, Trail!ApplyCheck(p) PROVE Trail!Serving'
    BY <1>9 DEF Trail!ApplyCheck, Trail!Finish, Trail!Goto
<1>10. ASSUME NEW p \in Trail!Processes, Trail!ApplyBuild(p) PROVE Trail!Serving'
    BY <1>10 DEF Trail!ApplyBuild, Trail!Goto
<1>11. ASSUME NEW p \in Trail!Processes, Trail!ApplyFails(p) PROVE Trail!Serving'
    BY <1>11 DEF Trail!ApplyFails, Trail!Finish, Trail!Goto
<1>12. ASSUME NEW p \in Trail!Processes, Trail!ApplySwap(p) PROVE Trail!Serving'
    BY <1>12 DEF Trail!ApplySwap, Trail!Finish, Trail!Goto
<1>13. ASSUME NEW p \in Trail!Processes, Trail!CloseQueue(p) PROVE Trail!Serving'
    BY <1>13 DEF Trail!CloseQueue, Trail!Goto
<1>14. ASSUME NEW p \in Trail!Processes, Trail!Drained(p) PROVE Trail!Serving'
    BY <1>14 DEF Trail!Drained, Trail!Finish, Trail!Goto
<1>15. ASSUME NEW p \in Trail!Processes, Trail!ShutdownSwap(p) PROVE Trail!Serving'
    BY <1>15 DEF Trail!ShutdownSwap, Trail!Goto
<1>16. CASE UNCHANGED Trail!vars
    BY <1>16
<1> QED BY <1>1, <1>2, <1>3, <1>4, <1>5, <1>6, <1>7, <1>8, <1>9, <1>10, <1>11,
       <1>12, <1>13, <1>14, <1>15, <1>16
    DEF Trail!Next, Trail!Record, Trail!Save, Trail!Apply

\* Nothing goes back before its swap once the shutdown has been.
LEMMA TrailLate ==
    ASSUME Trail!AuditTrailAssumption, Trail!TypeOK, Trail!Kinds, Trail!Late, [Trail!Next]_(Trail!vars)
    PROVE  Trail!Late'
<1> USE DEF Trail!AuditTrailAssumption, Trail!Appliers, Trail!Processes, Trail!vars,
        Trail!manager, Trail!history, Trail!TypeOK,
        Trail!Kinds, Trail!Late, Trail!Unswapped
<1>1. ASSUME NEW p \in Trail!Processes, Trail!ShipRead(p) PROVE Trail!Late'
    BY <1>1 DEF Trail!ShipRead, Trail!Goto
<1>2. ASSUME NEW p \in Trail!Processes, Trail!ShipEnqueue(p) PROVE Trail!Late'
    BY <1>2 DEF Trail!ShipEnqueue, Trail!Goto
<1>3. ASSUME NEW p \in Trail!Processes, Trail!AppendEvent(p) PROVE Trail!Late'
    BY <1>3 DEF Trail!AppendEvent, Trail!Goto, Trail!AfterRecord
<1>4. ASSUME NEW p \in Trail!Processes, Trail!StoreSetting(p) PROVE Trail!Late'
    BY <1>4 DEF Trail!StoreSetting, Trail!Goto
<1>5. ASSUME NEW p \in Trail!Processes, Trail!StoreToken(p) PROVE Trail!Late'
    BY <1>5 DEF Trail!StoreToken, Trail!Goto
<1>6. ASSUME NEW p \in Trail!Processes, Trail!StoreTokenFails(p) PROVE Trail!Late'
    BY <1>6 DEF Trail!StoreTokenFails, Trail!Finish, Trail!Goto
<1>7. ASSUME NEW p \in Trail!Processes, Trail!ReadSetting(p) PROVE Trail!Late'
    BY <1>7 DEF Trail!ReadSetting, Trail!Goto
<1>8. ASSUME NEW p \in Trail!Processes, Trail!ReadToken(p) PROVE Trail!Late'
    BY <1>8 DEF Trail!ReadToken, Trail!Goto
<1>9. ASSUME NEW p \in Trail!Processes, Trail!ApplyCheck(p) PROVE Trail!Late'
    BY <1>9 DEF Trail!ApplyCheck, Trail!Finish, Trail!Goto
<1>10. ASSUME NEW p \in Trail!Processes, Trail!ApplyBuild(p) PROVE Trail!Late'
    BY <1>10 DEF Trail!ApplyBuild, Trail!Goto
<1>11. ASSUME NEW p \in Trail!Processes, Trail!ApplyFails(p) PROVE Trail!Late'
    BY <1>11 DEF Trail!ApplyFails, Trail!Finish, Trail!Goto
<1>12. ASSUME NEW p \in Trail!Processes, Trail!ApplySwap(p) PROVE Trail!Late'
    BY <1>12 DEF Trail!ApplySwap, Trail!Finish, Trail!Goto
<1>13. ASSUME NEW p \in Trail!Processes, Trail!CloseQueue(p) PROVE Trail!Late'
    BY <1>13 DEF Trail!CloseQueue, Trail!Goto
<1>14. ASSUME NEW p \in Trail!Processes, Trail!Drained(p) PROVE Trail!Late'
    BY <1>14 DEF Trail!Drained, Trail!Finish, Trail!Goto
<1>15. ASSUME NEW p \in Trail!Processes, Trail!ShutdownSwap(p) PROVE Trail!Late'
    BY <1>15 DEF Trail!ShutdownSwap, Trail!Goto
<1>16. CASE UNCHANGED Trail!vars
    BY <1>16
<1> QED BY <1>1, <1>2, <1>3, <1>4, <1>5, <1>6, <1>7, <1>8, <1>9, <1>10, <1>11,
       <1>12, <1>13, <1>14, <1>15, <1>16
    DEF Trail!Next, Trail!Record, Trail!Save, Trail!Apply

\* A shipper that leaves service has a process to close it, and one that enters
\* service after the shutdown is late.
LEMMA TrailNoOrphan ==
    ASSUME Trail!AuditTrailAssumption, Trail!TypeOK, Trail!Kinds, Trail!Building,
           Trail!Late, Trail!NoOrphan, [Trail!Next]_(Trail!vars)
    PROVE  Trail!NoOrphan'
<1> USE DEF Trail!AuditTrailAssumption, Trail!Appliers, Trail!Processes, Trail!vars,
        Trail!manager, Trail!history, Trail!TypeOK,
        Trail!Kinds, Trail!Building, Trail!Late, Trail!NoOrphan, Trail!MustClose,
        Trail!InService, Trail!Unswapped
<1>1. ASSUME NEW p \in Trail!Processes, Trail!ShipRead(p) PROVE Trail!NoOrphan'
    BY <1>1 DEF Trail!ShipRead, Trail!Goto
<1>2. ASSUME NEW p \in Trail!Processes, Trail!ShipEnqueue(p) PROVE Trail!NoOrphan'
    BY <1>2 DEF Trail!ShipEnqueue, Trail!Goto
<1>3. ASSUME NEW p \in Trail!Processes, Trail!AppendEvent(p) PROVE Trail!NoOrphan'
    BY <1>3 DEF Trail!AppendEvent, Trail!Goto, Trail!AfterRecord
<1>4. ASSUME NEW p \in Trail!Processes, Trail!StoreSetting(p) PROVE Trail!NoOrphan'
    BY <1>4 DEF Trail!StoreSetting, Trail!Goto
<1>5. ASSUME NEW p \in Trail!Processes, Trail!StoreToken(p) PROVE Trail!NoOrphan'
    BY <1>5 DEF Trail!StoreToken, Trail!Goto
<1>6. ASSUME NEW p \in Trail!Processes, Trail!StoreTokenFails(p) PROVE Trail!NoOrphan'
    BY <1>6 DEF Trail!StoreTokenFails, Trail!Finish, Trail!Goto
<1>7. ASSUME NEW p \in Trail!Processes, Trail!ReadSetting(p) PROVE Trail!NoOrphan'
    BY <1>7 DEF Trail!ReadSetting, Trail!Goto
<1>8. ASSUME NEW p \in Trail!Processes, Trail!ReadToken(p) PROVE Trail!NoOrphan'
    BY <1>8 DEF Trail!ReadToken, Trail!Goto
<1>9. ASSUME NEW p \in Trail!Processes, Trail!ApplyCheck(p) PROVE Trail!NoOrphan'
    BY <1>9 DEF Trail!ApplyCheck, Trail!Finish, Trail!Goto
<1>10. ASSUME NEW p \in Trail!Processes, Trail!ApplyBuild(p) PROVE Trail!NoOrphan'
    BY <1>10 DEF Trail!ApplyBuild, Trail!Goto
<1>11. ASSUME NEW p \in Trail!Processes, Trail!ApplyFails(p) PROVE Trail!NoOrphan'
    BY <1>11 DEF Trail!ApplyFails, Trail!Finish, Trail!Goto
<1>12. ASSUME NEW p \in Trail!Processes, Trail!ApplySwap(p) PROVE Trail!NoOrphan'
    BY <1>12 DEF Trail!ApplySwap, Trail!Finish, Trail!Goto
<1>13. ASSUME NEW p \in Trail!Processes, Trail!CloseQueue(p) PROVE Trail!NoOrphan'
    BY <1>13 DEF Trail!CloseQueue, Trail!Goto
<1>14. ASSUME NEW p \in Trail!Processes, Trail!Drained(p) PROVE Trail!NoOrphan'
    BY <1>14 DEF Trail!Drained, Trail!Finish, Trail!Goto
<1>15. ASSUME NEW p \in Trail!Processes, Trail!ShutdownSwap(p) PROVE Trail!NoOrphan'
    BY <1>15 DEF Trail!ShutdownSwap, Trail!Goto
<1>16. CASE UNCHANGED Trail!vars
    BY <1>16
<1> QED BY <1>1, <1>2, <1>3, <1>4, <1>5, <1>6, <1>7, <1>8, <1>9, <1>10, <1>11,
       <1>12, <1>13, <1>14, <1>15, <1>16
    DEF Trail!Next, Trail!Record, Trail!Save, Trail!Apply

\* Nobody is about to close the shipper in service.
LEMMA TrailClosedOnce ==
    ASSUME Trail!AuditTrailAssumption, Trail!TypeOK, Trail!Kinds, Trail!Serving,
           Trail!ClosedOnce, [Trail!Next]_(Trail!vars)
    PROVE  Trail!ClosedOnce'
<1> USE DEF Trail!AuditTrailAssumption, Trail!Appliers, Trail!Processes, Trail!vars,
        Trail!manager, Trail!history, Trail!TypeOK,
        Trail!Kinds, Trail!Serving, Trail!ClosedOnce, Trail!MustClose
<1>1. ASSUME NEW p \in Trail!Processes, Trail!ShipRead(p) PROVE Trail!ClosedOnce'
    BY <1>1 DEF Trail!ShipRead, Trail!Goto
<1>2. ASSUME NEW p \in Trail!Processes, Trail!ShipEnqueue(p) PROVE Trail!ClosedOnce'
    BY <1>2 DEF Trail!ShipEnqueue, Trail!Goto
<1>3. ASSUME NEW p \in Trail!Processes, Trail!AppendEvent(p) PROVE Trail!ClosedOnce'
    BY <1>3 DEF Trail!AppendEvent, Trail!Goto, Trail!AfterRecord
<1>4. ASSUME NEW p \in Trail!Processes, Trail!StoreSetting(p) PROVE Trail!ClosedOnce'
    BY <1>4 DEF Trail!StoreSetting, Trail!Goto
<1>5. ASSUME NEW p \in Trail!Processes, Trail!StoreToken(p) PROVE Trail!ClosedOnce'
    BY <1>5 DEF Trail!StoreToken, Trail!Goto
<1>6. ASSUME NEW p \in Trail!Processes, Trail!StoreTokenFails(p) PROVE Trail!ClosedOnce'
    BY <1>6 DEF Trail!StoreTokenFails, Trail!Finish, Trail!Goto
<1>7. ASSUME NEW p \in Trail!Processes, Trail!ReadSetting(p) PROVE Trail!ClosedOnce'
    BY <1>7 DEF Trail!ReadSetting, Trail!Goto
<1>8. ASSUME NEW p \in Trail!Processes, Trail!ReadToken(p) PROVE Trail!ClosedOnce'
    BY <1>8 DEF Trail!ReadToken, Trail!Goto
<1>9. ASSUME NEW p \in Trail!Processes, Trail!ApplyCheck(p) PROVE Trail!ClosedOnce'
    BY <1>9 DEF Trail!ApplyCheck, Trail!Finish, Trail!Goto
<1>10. ASSUME NEW p \in Trail!Processes, Trail!ApplyBuild(p) PROVE Trail!ClosedOnce'
    BY <1>10 DEF Trail!ApplyBuild, Trail!Goto
<1>11. ASSUME NEW p \in Trail!Processes, Trail!ApplyFails(p) PROVE Trail!ClosedOnce'
    BY <1>11 DEF Trail!ApplyFails, Trail!Finish, Trail!Goto
<1>12. ASSUME NEW p \in Trail!Processes, Trail!ApplySwap(p) PROVE Trail!ClosedOnce'
    BY <1>12 DEF Trail!ApplySwap, Trail!Finish, Trail!Goto
<1>13. ASSUME NEW p \in Trail!Processes, Trail!CloseQueue(p) PROVE Trail!ClosedOnce'
    BY <1>13 DEF Trail!CloseQueue, Trail!Goto
<1>14. ASSUME NEW p \in Trail!Processes, Trail!Drained(p) PROVE Trail!ClosedOnce'
    BY <1>14 DEF Trail!Drained, Trail!Finish, Trail!Goto
<1>15. ASSUME NEW p \in Trail!Processes, Trail!ShutdownSwap(p) PROVE Trail!ClosedOnce'
    BY <1>15 DEF Trail!ShutdownSwap, Trail!Goto
<1>16. CASE UNCHANGED Trail!vars
    BY <1>16
<1> QED BY <1>1, <1>2, <1>3, <1>4, <1>5, <1>6, <1>7, <1>8, <1>9, <1>10, <1>11,
       <1>12, <1>13, <1>14, <1>15, <1>16
    DEF Trail!Next, Trail!Record, Trail!Save, Trail!Apply

\* The configuration is remembered in the step that installs the shipper.
LEMMA TrailRemembered ==
    ASSUME Trail!AuditTrailAssumption, Trail!TypeOK, Trail!Kinds, Trail!Building,
           Trail!Serving, Trail!Remembered, [Trail!Next]_(Trail!vars)
    PROVE  Trail!Remembered'
<1> USE DEF Trail!AuditTrailAssumption, Trail!Appliers, Trail!Processes, Trail!vars,
        Trail!manager, Trail!history, Trail!TypeOK,
        Trail!Kinds, Trail!Building, Trail!Serving, Trail!MustClose, Trail!Remembered
<1>1. ASSUME NEW p \in Trail!Processes, Trail!ShipRead(p) PROVE Trail!Remembered'
    BY <1>1 DEF Trail!ShipRead, Trail!Goto
<1>2. ASSUME NEW p \in Trail!Processes, Trail!ShipEnqueue(p) PROVE Trail!Remembered'
    BY <1>2 DEF Trail!ShipEnqueue, Trail!Goto
<1>3. ASSUME NEW p \in Trail!Processes, Trail!AppendEvent(p) PROVE Trail!Remembered'
    BY <1>3 DEF Trail!AppendEvent, Trail!Goto, Trail!AfterRecord
<1>4. ASSUME NEW p \in Trail!Processes, Trail!StoreSetting(p) PROVE Trail!Remembered'
    BY <1>4 DEF Trail!StoreSetting, Trail!Goto
<1>5. ASSUME NEW p \in Trail!Processes, Trail!StoreToken(p) PROVE Trail!Remembered'
    BY <1>5 DEF Trail!StoreToken, Trail!Goto
<1>6. ASSUME NEW p \in Trail!Processes, Trail!StoreTokenFails(p) PROVE Trail!Remembered'
    BY <1>6 DEF Trail!StoreTokenFails, Trail!Finish, Trail!Goto
<1>7. ASSUME NEW p \in Trail!Processes, Trail!ReadSetting(p) PROVE Trail!Remembered'
    BY <1>7 DEF Trail!ReadSetting, Trail!Goto
<1>8. ASSUME NEW p \in Trail!Processes, Trail!ReadToken(p) PROVE Trail!Remembered'
    BY <1>8 DEF Trail!ReadToken, Trail!Goto
<1>9. ASSUME NEW p \in Trail!Processes, Trail!ApplyCheck(p) PROVE Trail!Remembered'
    <2>1. UNCHANGED <<t3, t4, t5, t7>> /\ t8'[Shutdown] = t8[Shutdown]
        BY <1>9 DEF Trail!ApplyCheck, Trail!Finish, Trail!Goto
    <2> QED BY <2>1
<1>10. ASSUME NEW p \in Trail!Processes, Trail!ApplyBuild(p) PROVE Trail!Remembered'
    BY <1>10 DEF Trail!ApplyBuild, Trail!Goto
<1>11. ASSUME NEW p \in Trail!Processes, Trail!ApplyFails(p) PROVE Trail!Remembered'
    BY <1>11 DEF Trail!ApplyFails, Trail!Finish, Trail!Goto
<1>12. ASSUME NEW p \in Trail!Processes, Trail!ApplySwap(p) PROVE Trail!Remembered'
    BY <1>12 DEF Trail!ApplySwap, Trail!Finish, Trail!Goto
<1>13. ASSUME NEW p \in Trail!Processes, Trail!CloseQueue(p) PROVE Trail!Remembered'
    BY <1>13 DEF Trail!CloseQueue, Trail!Goto
<1>14. ASSUME NEW p \in Trail!Processes, Trail!Drained(p) PROVE Trail!Remembered'
    BY <1>14 DEF Trail!Drained, Trail!Finish, Trail!Goto
<1>15. ASSUME NEW p \in Trail!Processes, Trail!ShutdownSwap(p) PROVE Trail!Remembered'
    BY <1>15 DEF Trail!ShutdownSwap, Trail!Goto
<1>16. CASE UNCHANGED Trail!vars
    BY <1>16
<1> QED BY <1>1, <1>2, <1>3, <1>4, <1>5, <1>6, <1>7, <1>8, <1>9, <1>10, <1>11,
       <1>12, <1>13, <1>14, <1>15, <1>16
    DEF Trail!Next, Trail!Record, Trail!Save, Trail!Apply

\* Only an overlapping save changes the rows under an application.
LEMMA TrailReadAlone ==
    ASSUME Trail!AuditTrailAssumption, Trail!TypeOK, Trail!Kinds, Trail!ReadAlone,
           [Trail!Next]_(Trail!vars)
    PROVE  Trail!ReadAlone'
<1> USE DEF Trail!AuditTrailAssumption, Trail!Appliers, Trail!Processes, Trail!vars,
        Trail!manager, Trail!history, Trail!TypeOK,
        Trail!Kinds, Trail!ReadAlone, Trail!Busy, Trail!Idle
<1>1. ASSUME NEW p \in Trail!Processes, Trail!ShipRead(p) PROVE Trail!ReadAlone'
    BY <1>1 DEF Trail!ShipRead, Trail!Goto
<1>2. ASSUME NEW p \in Trail!Processes, Trail!ShipEnqueue(p) PROVE Trail!ReadAlone'
    BY <1>2 DEF Trail!ShipEnqueue, Trail!Goto
<1>3. ASSUME NEW p \in Trail!Processes, Trail!AppendEvent(p) PROVE Trail!ReadAlone'
    BY <1>3 DEF Trail!AppendEvent, Trail!Goto, Trail!AfterRecord
<1>4. ASSUME NEW p \in Trail!Processes, Trail!StoreSetting(p) PROVE Trail!ReadAlone'
    BY <1>4 DEF Trail!StoreSetting, Trail!Goto
<1>5. ASSUME NEW p \in Trail!Processes, Trail!StoreToken(p) PROVE Trail!ReadAlone'
    BY <1>5 DEF Trail!StoreToken, Trail!Goto
<1>6. ASSUME NEW p \in Trail!Processes, Trail!StoreTokenFails(p) PROVE Trail!ReadAlone'
    BY <1>6 DEF Trail!StoreTokenFails, Trail!Finish, Trail!Goto
<1>7. ASSUME NEW p \in Trail!Processes, Trail!ReadSetting(p) PROVE Trail!ReadAlone'
    BY <1>7 DEF Trail!ReadSetting, Trail!Goto
<1>8. ASSUME NEW p \in Trail!Processes, Trail!ReadToken(p) PROVE Trail!ReadAlone'
    BY <1>8 DEF Trail!ReadToken, Trail!Goto
<1>9. ASSUME NEW p \in Trail!Processes, Trail!ApplyCheck(p) PROVE Trail!ReadAlone'
    BY <1>9 DEF Trail!ApplyCheck, Trail!Finish, Trail!Goto
<1>10. ASSUME NEW p \in Trail!Processes, Trail!ApplyBuild(p) PROVE Trail!ReadAlone'
    BY <1>10 DEF Trail!ApplyBuild, Trail!Goto
<1>11. ASSUME NEW p \in Trail!Processes, Trail!ApplyFails(p) PROVE Trail!ReadAlone'
    BY <1>11 DEF Trail!ApplyFails, Trail!Finish, Trail!Goto
<1>12. ASSUME NEW p \in Trail!Processes, Trail!ApplySwap(p) PROVE Trail!ReadAlone'
    BY <1>12 DEF Trail!ApplySwap, Trail!Finish, Trail!Goto
<1>13. ASSUME NEW p \in Trail!Processes, Trail!CloseQueue(p) PROVE Trail!ReadAlone'
    BY <1>13 DEF Trail!CloseQueue, Trail!Goto
<1>14. ASSUME NEW p \in Trail!Processes, Trail!Drained(p) PROVE Trail!ReadAlone'
    BY <1>14 DEF Trail!Drained, Trail!Finish, Trail!Goto
<1>15. ASSUME NEW p \in Trail!Processes, Trail!ShutdownSwap(p) PROVE Trail!ReadAlone'
    BY <1>15 DEF Trail!ShutdownSwap, Trail!Goto
<1>16. CASE UNCHANGED Trail!vars
    BY <1>16
<1> QED BY <1>1, <1>2, <1>3, <1>4, <1>5, <1>6, <1>7, <1>8, <1>9, <1>10, <1>11,
       <1>12, <1>13, <1>14, <1>15, <1>16
    DEF Trail!Next, Trail!Record, Trail!Save, Trail!Apply

\* An application that is alone installs what the rows say.
LEMMA TrailInstalled ==
    ASSUME Trail!AuditTrailAssumption, Trail!TypeOK, Trail!Kinds, Trail!Serving,
           Trail!ReadAlone, Trail!Installed, [Trail!Next]_(Trail!vars)
    PROVE  Trail!Installed'
<1> USE DEF Trail!AuditTrailAssumption, Trail!Appliers, Trail!Processes, Trail!vars,
        Trail!manager, Trail!history, Trail!TypeOK,
        Trail!Kinds, Trail!Serving, Trail!ReadAlone, Trail!Installed, Trail!Busy,
            Trail!Idle, Trail!SameConfig
<1>1. ASSUME NEW p \in Trail!Processes, Trail!ShipRead(p) PROVE Trail!Installed'
    BY <1>1 DEF Trail!ShipRead, Trail!Goto
<1>2. ASSUME NEW p \in Trail!Processes, Trail!ShipEnqueue(p) PROVE Trail!Installed'
    BY <1>2 DEF Trail!ShipEnqueue, Trail!Goto
<1>3. ASSUME NEW p \in Trail!Processes, Trail!AppendEvent(p) PROVE Trail!Installed'
    BY <1>3 DEF Trail!AppendEvent, Trail!Goto, Trail!AfterRecord
<1>4. ASSUME NEW p \in Trail!Processes, Trail!StoreSetting(p) PROVE Trail!Installed'
    BY <1>4 DEF Trail!StoreSetting, Trail!Goto
<1>5. ASSUME NEW p \in Trail!Processes, Trail!StoreToken(p) PROVE Trail!Installed'
    BY <1>5 DEF Trail!StoreToken, Trail!Goto
<1>6. ASSUME NEW p \in Trail!Processes, Trail!StoreTokenFails(p) PROVE Trail!Installed'
    BY <1>6 DEF Trail!StoreTokenFails, Trail!Finish, Trail!Goto
<1>7. ASSUME NEW p \in Trail!Processes, Trail!ReadSetting(p) PROVE Trail!Installed'
    BY <1>7 DEF Trail!ReadSetting, Trail!Goto
<1>8. ASSUME NEW p \in Trail!Processes, Trail!ReadToken(p) PROVE Trail!Installed'
    BY <1>8 DEF Trail!ReadToken, Trail!Goto
<1>9. ASSUME NEW p \in Trail!Processes, Trail!ApplyCheck(p) PROVE Trail!Installed'
    BY <1>9 DEF Trail!ApplyCheck, Trail!Finish, Trail!Goto
<1>10. ASSUME NEW p \in Trail!Processes, Trail!ApplyBuild(p) PROVE Trail!Installed'
    BY <1>10 DEF Trail!ApplyBuild, Trail!Goto
<1>11. ASSUME NEW p \in Trail!Processes, Trail!ApplyFails(p) PROVE Trail!Installed'
    BY <1>11 DEF Trail!ApplyFails, Trail!Finish, Trail!Goto
<1>12. ASSUME NEW p \in Trail!Processes, Trail!ApplySwap(p) PROVE Trail!Installed'
    BY <1>12 DEF Trail!ApplySwap, Trail!Finish, Trail!Goto
<1>13. ASSUME NEW p \in Trail!Processes, Trail!CloseQueue(p) PROVE Trail!Installed'
    BY <1>13 DEF Trail!CloseQueue, Trail!Goto
<1>14. ASSUME NEW p \in Trail!Processes, Trail!Drained(p) PROVE Trail!Installed'
    BY <1>14 DEF Trail!Drained, Trail!Finish, Trail!Goto
<1>15. ASSUME NEW p \in Trail!Processes, Trail!ShutdownSwap(p) PROVE Trail!Installed'
    BY <1>15 DEF Trail!ShutdownSwap, Trail!Goto
<1>16. CASE UNCHANGED Trail!vars
    BY <1>16
<1> QED BY <1>1, <1>2, <1>3, <1>4, <1>5, <1>6, <1>7, <1>8, <1>9, <1>10, <1>11,
       <1>12, <1>13, <1>14, <1>15, <1>16
    DEF Trail!Next, Trail!Record, Trail!Save, Trail!Apply

\* Nothing is in service, and only the startup goroutine is about to apply.
LEMMA TrailBegins ==
    ASSUME Trail!AuditTrailAssumption
    PROVE  Trail!Init => Trail!IInv
<1> SUFFICES ASSUME Trail!Init PROVE Trail!IInv
    OBVIOUS
<1> USE DEF Trail!AuditTrailAssumption, Trail!Appliers, Trail!Processes
<1>1. Trail!TypeOK
    <2>1. t1 \in Trail!Setting /\ t2 \in Dests \cup {None}
        BY DEF Trail!Init, Trail!Setting
    <2>2. Trail!NoConfig \in Trail!Config /\ Trail!Nothing \in [enabled : BOOLEAN, cfg : Trail!Config]
        BY DEF Trail!NoConfig, Trail!Config, Trail!Nothing
    <2>3. t8 \in [Trail!Processes -> Trail!Labels]
        BY DEF Trail!Init, Trail!Labels
    <2> QED BY <2>1, <2>2, <2>3 DEF Trail!Init, Trail!TypeOK
<1>2. Trail!Kinds
    BY DEF Trail!Init, Trail!Kinds
<1>3. /\ Trail!Building /\ Trail!Serving /\ Trail!Late
      /\ Trail!NoOrphan /\ Trail!ClosedOnce
    BY DEF Trail!Init, Trail!Building, Trail!Serving, Trail!Late, Trail!NoOrphan,
        Trail!ClosedOnce, Trail!MustClose
<1>4. Trail!Remembered /\ Trail!ReadAlone
    BY DEF Trail!Init, Trail!Remembered, Trail!ReadAlone, Trail!Busy, Trail!Idle
<1>5. Trail!Busy(Startup) /\ \A p \in Trail!Appliers : t8[p] \notin {"close", "drain"}
    BY DEF Trail!Init, Trail!Busy, Trail!Idle
<1>6. Trail!Installed
    BY <1>5 DEF Trail!Installed
<1> QED BY <1>1, <1>2, <1>3, <1>4, <1>6 DEF Trail!IInv

\* Every step keeps the invariant.
LEMMA TrailKeeps ==
    ASSUME Trail!AuditTrailAssumption, Trail!IInv, [Trail!Next]_(Trail!vars)
    PROVE  Trail!IInv'
BY TrailTypes, TrailKinds, TrailBuilding, TrailServing, TrailLate, TrailNoOrphan, TrailClosedOnce,
   TrailRemembered, TrailReadAlone, TrailInstalled DEF Trail!IInv

\* What is installed is what runs.
LEMMA InstalledRuns == Trail!IInv => Trail!RunningMatchesStored
<1> SUFFICES ASSUME Trail!IInv, Trail!Quiet
             PROVE  /\ t5 = t1.enabled
                    /\ t5 => t7[t3].dest = t1.dest /\ t7[t3].token = t2
    BY DEF Trail!RunningMatchesStored
<1>1. t5 = t1.enabled /\ t4.dest = t1.dest /\ t4.token = t2
    BY DEF Trail!Quiet, Trail!IInv, Trail!Installed
<1>2. t5 => t7[t3] = t4
    BY DEF Trail!Quiet, Trail!IInv, Trail!Remembered
<1> QED BY <1>1, <1>2

\* The trail begins with its invariant.
LEMMA TrailInit ==
    ASSUME MCInit, part = "trail"
    PROVE  Trail!IInv
BY MCTrail, TrailBegins DEF MCInit

\* A step beside the other commands is one of the trail.
LEMMA TrailStep ==
    ASSUME Trail!IInv, SecretsNext, part' = "trail"
    PROVE  Trail!IInv'
<1>1. TrailNext
    BY DEF SecretsNext, RotationNext, BackupNext, OfRotation, OfBackup
<1>2. Trail!Next
    BY <1>1 DEF TrailNext, Trail!Next, Trail!Record, Trail!Save, Trail!Apply,
        Trail!Processes, Trail!Appliers
<1> QED BY <1>2, MCTrail, TrailKeeps

-----------------------------------------------------------------------------
(* Together. *)

\* What holds of every part: the part that does not move rests where it begins.
SecretsInv ==
    /\ IInv /\ Raises
    /\ part = "backup" => BP!IInv
    /\ part = "trail" => Trail!IInv

\* The part that moves begins where its component does.
LEMMA SecretsInit == MCInit => SecretsInv
<1> SUFFICES ASSUME MCInit PROVE SecretsInv
    OBVIOUS
<1>1. IInv /\ Raises
    BY InitIInv DEF MCInit, Init, Raises
<1> QED BY <1>1, BackupInit, TrailInit DEF SecretsInv

\* A step of another part leaves the secrets as they are.
LEMMA RotationStep ==
    ASSUME IInv, Raises, SecretsNext
    PROVE  (IInv /\ Raises)'
<1>1. CASE RotationNext
    BY <1>1, NextIInv, RaisesStep DEF RotationNext, Next, Command
<1>2. CASE BackupNext \/ TrailNext
    <2>1. UNCHANGED vars
        BY <1>2 DEF BackupNext, TrailNext, OfBackup, OfTrail
    <2> QED BY <2>1, NextIInv, RaisesStep
<1> QED BY <1>1, <1>2 DEF SecretsNext

\* Which part moves is fixed.
LEMMA PartFixed ==
    ASSUME SecretsNext
    PROVE  part' = part
BY DEF SecretsNext, RotationNext, BackupNext, TrailNext, OfRotation, OfBackup, OfTrail

\* Nothing moves.
LEMMA SecretsStutter ==
    ASSUME SecretsInv, UNCHANGED secretsVars
    PROVE  SecretsInv'
<1>1. UNCHANGED vars /\ UNCHANGED part /\ UNCHANGED others
    BY DEF secretsVars
<1>2. IInv' /\ Raises'
    BY <1>1, NextIInv, RaisesStep DEF SecretsInv
<1>3. UNCHANGED (Trail!vars) /\ UNCHANGED (BP!vars)
    BY <1>1 DEF others, AfterTrail, Trail!vars, Trail!manager, Trail!history,
       BP!vars, BP!rows, BP!command, BP!progress, BP!admins, BP!history
<1>4. BP!BackupAssumption
    BY MCBackup DEF B!BackupAssumption, BP!BackupAssumption
<1>5. part = "trail" => Trail!IInv'
    BY <1>3, MCTrail, TrailKeeps DEF SecretsInv
<1>6. part = "backup" => BP!IInv'
    BY <1>3, <1>4, BP!StepIInv DEF SecretsInv
<1> QED BY <1>1, <1>2, <1>5, <1>6 DEF SecretsInv

\* Every step keeps the invariant of every part.
LEMMA SecretsStep == SecretsInv /\ [SecretsNext]_secretsVars => SecretsInv'
<1> SUFFICES ASSUME SecretsInv, SecretsNext PROVE SecretsInv'
    BY SecretsStutter
<1>1. part' = part
    BY PartFixed
<1>2. IInv' /\ Raises'
    BY RotationStep DEF SecretsInv
<1> QED BY <1>1, <1>2, BackupStep, TrailStep DEF SecretsInv

-----------------------------------------------------------------------------
(* The theorems. *)

\* The invariant of all of it, for all sets of secrets, saves and requests.
THEOREM SecretsInvariant == MCSpec => []SecretsInv
<1> QED BY SecretsInit, SecretsStep, PTL DEF MCSpec, SecretsNext, secretsVars

\* Every variable of the part that moves keeps its type, and the unique indexes
\* of the accounts and the clusters hold.
THEOREM SecretsTypesOK == MCSpec => []TypesOK
<1>1. IInv => TypeOK
    BY DEF IInv
<1>2. BP!IInv => B!TypeOK
    BY DEF BP!IInv, BP!Types, B!TypeOK, BP!TypeOK, B!Injective, BP!Injective, B!Row,
        BP!Row, B!NoRow, BP!NoRow, B!UniqueNames, BP!UniqueNames, B!Level, BP!Level,
        B!Places, BP!Places, B!Existing, BP!Existing, B!Binding, BP!Binding
<1>3. Trail!IInv => Trail!TypeOK
    BY DEF Trail!IInv
<1>4. SecretsInv => TypesOK
    BY <1>1, <1>2, <1>3 DEF SecretsInv, TypesOK
<1> QED BY <1>4, SecretsInvariant, PTL

\* Runs of the command, cut short, repeated or given wrong keys (main.go
\* rotate), never change the value of a secret no save raced on.
THEOREM KeyRotationValuesKept == MCSpec => []ValuesKept
<1>1. SecretsInv => ValuesKept
    BY DEF SecretsInv, IInv
<1> QED BY <1>1, SecretsInvariant, PTL

\* However many runs it takes, a record is rewrapped at most once between
\* two saves (NeedsRewrap, and the ring that opens nothing under a version
\* above its own).
THEOREM KeyRotationTouchedOnce == MCSpec => []TouchedOnce
<1>1. SecretsInv => TouchedOnce
    BY DEF SecretsInv, IInv
<1> QED BY <1>1, SecretsInvariant, PTL

\* A run that reports success after the version was raised has left every
\* kubeconfig and TOTP secret under the new key that the server did not save
\* meanwhile, however many runs were cut short before it (main.go run).
THEOREM KeyRotationDoneMeansRewrapped == MCSpec => []DoneMeansRewrapped
<1>1. SecretsInv => DoneMeansRewrapped
    BY DEF SecretsInv, Raises, DoneMeansRewrapped, Unraised
<1> QED BY <1>1, SecretsInvariant, PTL

\* The trail by itself, for all sets of processes: what one process builds, what
\* it takes out of service and what it remembers stay as they are told.
THEOREM AuditTrailInvariant == Trail!Spec => []Trail!IInv
BY MCTrail, TrailBegins, TrailKeeps, PTL DEF Trail!Spec

\* Concurrent saves and failures leave no shipper running that nobody will
\* close, and none that two will; after the shutdown one at most stays, installed
\* by an application that had not swapped when it came (ShipperManager.Apply,
\* Close).
THEOREM AuditTrailShippersAccounted == MCSpec => []ShippersAccounted
<1>1. SecretsInv => ShippersAccounted
    BY DEF SecretsInv, ShippersAccounted, Trail!IInv, Trail!ShippersAccounted
<1> QED BY <1>1, SecretsInvariant, PTL

\* A save that was applied with no other under way leaves the shipper running
\* that the stored setting and token ask for (ShipperManager.Apply,
\* settingsHandlers.saveAuditSink).
THEOREM AuditTrailRunningMatchesStored == MCSpec => []RunningMatchesStored
<1>1. SecretsInv => RunningMatchesStored
    BY InstalledRuns DEF SecretsInv, RunningMatchesStored
<1> QED BY <1>1, SecretsInvariant, PTL

\* Every grant in an archive is to a user and a cluster that are in it, a restore
\* that reports success has brought back what was missing, and none of its steps
\* touches an account or a cluster it did not create (Service.Export, Restore).
THEOREM BackupKeeps == MCSpec => BackupKept
<1> DEFINE Kept == part = "backup" => B!ArchiveIsClosed /\ B!RestoredInFull
<1>1. SecretsInv => Kept
    <2> SUFFICES ASSUME BP!IInv PROVE B!ArchiveIsClosed /\ B!RestoredInFull
        BY DEF SecretsInv
    <2>1. BP!ArchiveIsClosed /\ BP!RestoredInFull
        BY BP!FullRestores DEF BP!IInv
    <2>2. B!ArchiveIsClosed
        BY <2>1 DEF B!ArchiveIsClosed, BP!ArchiveIsClosed, B!Torn, BP!Torn, B!Archive,
            BP!Archive, B!Entry, BP!Entry, B!NoEntry, BP!NoEntry, B!Level, BP!Level,
            B!Injective, BP!Injective, B!UniqueNames, BP!UniqueNames, B!Closed,
            BP!Closed, B!Existing, BP!Existing
    <2>3. B!RestoredInFull
        BY <2>1 DEF B!RestoredInFull, BP!RestoredInFull, B!Existing, BP!Existing,
            B!NoEntry, BP!NoEntry, B!NoRow, BP!NoRow
    <2> QED BY <2>2, <2>3
<1>2. ASSUME SecretsInv, [SecretsNext]_secretsVars, Kept'
      PROVE  [part = "backup" =>
                 B!ArchiveIsClosed' /\ B!RestoredInFull' /\ B!SparesStep]_secretsVars
    <2> SUFFICES ASSUME SecretsNext, part = "backup" PROVE Kept' /\ part' = part /\ B!SparesStep
        BY <1>2
    <2>1. part' = part /\ BP!IInv
        BY <1>2, PartFixed DEF SecretsInv
    <2>2. BP!SparesStep
        BY <2>1, BackupStep
    <2>3. B!SparesStep
        BY <2>2 DEF B!SparesStep, BP!SparesStep, B!NoRow, BP!NoRow
    <2> QED BY <1>2, <2>1, <2>3
<1> HIDE DEF Kept
<1>3. MCSpec => [](SecretsInv /\ Kept)
    BY <1>1, SecretsInvariant, PTL
<1> QED BY <1>2, <1>3, PTL DEF MCSpec, BackupKept, SecretsNext, secretsVars
=============================================================================
