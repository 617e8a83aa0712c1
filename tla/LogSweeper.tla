----------------------------- MODULE LogSweeper -----------------------------
(***************************************************************************)
(* What a cluster's log store is known to say: the sweep that asks every   *)
(* cluster in turn (src/server/internal/cluster/logs_sweeper.go), the      *)
(* address and the secret it asks with (logs_source.go) and the edit of a  *)
(* cluster that moves either of them and drops the remembered answer       *)
(* (src/server/internal/httpapi/cluster_handlers.go).                      *)
(*                                                                         *)
(* A sweep walks over the rows it read at its start, but decrypts each     *)
(* secret when it gets there.  A store answers the secret that is its own, *)
(* so a secret is named by the store it opens.  What the findings say is   *)
(* LogFindings; here an answer is the source, the secret and the rules it  *)
(* was asked with.                                                         *)
(***************************************************************************)
EXTENDS Naturals

CONSTANTS Clusters,     \* the registered clusters
          Sources,      \* the log stores a cluster may be pointed at
          None,         \* no address, or no secret
          MaxChanges,   \* bound: edits, outages and rule changes of a behaviour
          MaxFaults     \* bound: database calls that fail

SweepAssumption == None \notin Sources /\ MaxChanges \in Nat /\ MaxFaults \in Nat

VARIABLES source,     \* logs_url and logs_index of each row
          secret,     \* the sealed log secret of each row
          up,         \* the stores that answer
          rules,      \* the analysis settings: 0 as shipped, 1 edited
          sweep,      \* the sweep under way
          results,    \* LogSweeper.results
          edit,       \* the update request under way
          changes, faults

vars == <<source, secret, up, rules, sweep, results, edit, changes, faults>>

MaybeSource == Sources \cup {None}
Secrets == [Clusters -> MaybeSource]

Absent == [state |-> "absent"]
Off == [state |-> "off"]
Unknown == [state |-> "unknown"]
Answer(s, k, r) == [state |-> "ok", source |-> s, secret |-> k, rules |-> r]

Answers == {Absent, Off, Unknown}
           \cup [state : {"ok"}, source : Sources, secret : MaybeSource, rules : {0, 1}]

Idle == [step |-> "idle"]

TypeOK ==
  /\ source \in [Clusters -> MaybeSource]
  /\ secret \in Secrets
  /\ up \in SUBSET Sources
  /\ rules \in {0, 1}
  /\ \/ sweep = Idle
     \/ sweep \in [step : {"walk"}, left : SUBSET Clusters,
                   rows : [Clusters -> MaybeSource], rules : {0, 1}]
     \/ sweep \in [step : {"ask"}, left : SUBSET Clusters,
                   rows : [Clusters -> MaybeSource], rules : {0, 1},
                   at : Clusters, secret : MaybeSource]
  /\ results \in [Clusters -> Answers]
  /\ \/ edit = Idle
     \/ edit \in [step : {"forget"}, at : Clusters, secret : MaybeSource \cup {"keep"}]
     \/ edit \in [step : {"secret"}, at : Clusters, secret : MaybeSource]
  /\ changes \in 0..MaxChanges
  /\ faults \in 0..MaxFaults

Init ==
  /\ source \in [Clusters -> MaybeSource]
  /\ secret = [c \in Clusters |-> source[c]]
  /\ up = Sources
  /\ rules = 0
  /\ sweep = Idle
  /\ results = [c \in Clusters |-> Absent]
  /\ edit = Idle
  /\ changes = 0
  /\ faults = 0

Changes == changes < MaxChanges /\ changes' = changes + 1
Faults == faults < MaxFaults /\ faults' = faults + 1

-----------------------------------------------------------------------------
(* The sweep. *)

\* sweep: the rows and the analysis are read once, for the whole fleet.  A
\* settings read that fails is answered with the rules as shipped.
Tick ==
  /\ sweep = Idle
  /\ \/ /\ sweep' = [step |-> "walk", left |-> Clusters, rows |-> source, rules |-> rules]
        /\ UNCHANGED faults
     \/ /\ Faults
        /\ sweep' = [step |-> "walk", left |-> Clusters, rows |-> source, rules |-> 0]
  /\ UNCHANGED <<source, secret, up, rules, results, edit, changes>>

\* The clusters could not be listed: nothing is swept until the next tick.
TickFails ==
  /\ sweep = Idle
  /\ Faults
  /\ UNCHANGED <<source, secret, up, rules, sweep, results, edit, changes>>

Rest(left) == IF left = {} THEN Idle
              ELSE [step |-> "walk", left |-> left, rows |-> sweep.rows, rules |-> sweep.rules]

\* Mutant: a store that cannot be asked leaves the last answer standing.
Store_KeepsLast(c, answer) ==
  /\ results' = IF answer = Unknown /\ results[c] # Absent THEN results
                ELSE [results EXCEPT ![c] = answer]
  /\ sweep' = Rest(sweep.left \ {c})

\* What sweepOne stores when it is done with cluster c.
Store(c, answer) ==
  /\ results' = [results EXCEPT ![c] = answer]
  /\ sweep' = Rest(sweep.left \ {c})

\* sweepOne for a row without an address.
SkipOff(c) ==
  /\ sweep.step = "walk"
  /\ c \in sweep.left
  /\ sweep.rows[c] = None
  /\ Store(c, Off)
  /\ UNCHANGED <<source, secret, up, rules, edit, changes, faults>>

\* LogsClient: the secret is read and opened now, the address is the snapshot's.
Open(c) ==
  /\ sweep.step = "walk"
  /\ c \in sweep.left
  /\ sweep.rows[c] # None
  /\ sweep' = [step |-> "ask", left |-> sweep.left, rows |-> sweep.rows,
               rules |-> sweep.rules, at |-> c, secret |-> secret[c]]
  /\ UNCHANGED <<source, secret, up, rules, results, edit, changes, faults>>

OpenFails(c) ==
  /\ sweep.step = "walk"
  /\ c \in sweep.left
  /\ sweep.rows[c] # None
  /\ Faults
  /\ Store(c, Unknown)
  /\ UNCHANGED <<source, secret, up, rules, edit, changes>>

\* The store answers its own secret, and nothing may be concluded otherwise.
Asked ==
  /\ sweep.step = "ask"
  /\ LET asked == sweep.rows[sweep.at]
     IN  Store(sweep.at,
               IF asked \in up /\ sweep.secret = asked
               THEN Answer(asked, sweep.secret, sweep.rules)
               ELSE Unknown)
  /\ UNCHANGED <<source, secret, up, rules, edit, changes, faults>>

-----------------------------------------------------------------------------
(* Edits, outages, rule changes. *)

\* update: the row is written first ...
SaveRow(c, s, k) ==
  /\ edit = Idle
  /\ Changes
  /\ source' = [source EXCEPT ![c] = s]
  /\ edit' = [step |-> "forget", at |-> c, secret |-> k]
  /\ UNCHANGED <<secret, up, rules, sweep, results, faults>>

\* ... then the remembered answer is dropped ...
Forget ==
  /\ edit.step = "forget"
  /\ results' = [results EXCEPT ![edit.at] = Absent]
  /\ edit' = IF edit.secret = "keep" THEN Idle ELSE [edit EXCEPT !.step = "secret"]
  /\ UNCHANGED <<source, secret, up, rules, sweep, changes, faults>>

\* ... and a typed or a cleared secret is stored last.
SaveSecret ==
  /\ edit.step = "secret"
  /\ secret' = [secret EXCEPT ![edit.at] = edit.secret]
  /\ edit' = Idle
  /\ UNCHANGED <<source, up, rules, sweep, results, changes, faults>>

\* The secret could not be sealed or stored: the new address keeps the old one.
SaveSecretFails ==
  /\ edit.step = "secret"
  /\ Faults
  /\ edit' = Idle
  /\ UNCHANGED <<source, secret, up, rules, sweep, results, changes>>

\* A log store goes away, or comes back.
Outage(s) ==
  /\ Changes
  /\ up' = IF s \in up THEN up \ {s} ELSE up \cup {s}
  /\ UNCHANGED <<source, secret, rules, sweep, results, edit, faults>>

\* An administrator edits the rules, or resets them.
EditRules ==
  /\ Changes
  /\ rules' = 1 - rules
  /\ UNCHANGED <<source, secret, up, sweep, results, edit, faults>>

-----------------------------------------------------------------------------
Sweeping == \/ Tick
            \/ \E c \in Clusters : SkipOff(c) \/ Open(c)
            \/ Asked

Editing == Forget \/ SaveSecret

Next ==
  \/ Sweeping
  \/ TickFails
  \/ Editing
  \/ SaveSecretFails
  \/ EditRules
  \/ \E s \in Sources : Outage(s)
  \/ \E c \in Clusters :
       \/ OpenFails(c)
       \/ \E s \in MaybeSource, k \in MaybeSource \cup {"keep"} : SaveRow(c, s, k)

\* The ticker runs while the server does, each request is bounded by its
\* thirty seconds, and the steps of an edit are consecutive statements.
Spec == Init /\ [][Next]_vars /\ WF_vars(Sweeping) /\ WF_vars(Editing)

-----------------------------------------------------------------------------
(* Properties. *)

\* What the list rows should be told of cluster c.
Due(c) == IF source[c] = None THEN Off
          ELSE IF source[c] \in up /\ secret[c] = source[c]
          THEN Answer(source[c], secret[c], rules)
          ELSE Unknown

\* Once nobody edits and no store goes away or comes back, every cluster is
\* reported from the source it has now, with the rules of now, and a store
\* that does not answer is reported unknown: never as the quiet it last was,
\* and never as off (logs_sweeper.go:13-22, 61-63).
AllTold == \A c \in Clusters : results[c] = Due(c)

Settles == <>[]AllTold

\* No edit is under way, the sweep asks with what holds now, and what it is done
\* with is reported as it should be; between two sweeps that is every cluster.
ToldSoFar ==
  /\ edit = Idle
  /\ sweep # Idle => sweep.rows = source /\ sweep.rules = rules
  /\ sweep.step = "ask" => source[sweep.at] # None /\ sweep.secret = secret[sweep.at]
  /\ \A c \in Clusters : (sweep # Idle /\ c \in sweep.left) \/ results[c] = Due(c)

\* A sweep that begins while nobody edits, and runs while nothing changes or
\* fails, tells every cluster what it should be told; and the next ones too.
TellsOn ==
  (ToldSoFar \/ (Tick /\ edit = Idle)) /\ UNCHANGED <<edit, changes, faults>> => ToldSoFar'
=============================================================================
