---------------------------- MODULE MetricsSource ----------------------------
(***************************************************************************)
(* Where the history of one cluster is read from: the address somebody     *)
(* typed, the Prometheus a search finds in the cluster, or the             *)
(* deployment's own.  A search is remembered, what it found for longer     *)
(* than that it found nothing; changing the address forgets it.            *)
(* (src/server/internal/cluster: metrics_source.go, metrics_discover.go;   *)
(*  src/server/internal/httpapi: metrics_handlers.go, cluster_handlers.go) *)
(***************************************************************************)
EXTENDS Naturals, FiniteSets

CONSTANTS Readers,    \* dashboards that are open
          Servers,    \* API servers the row may point at
          Services,   \* services labelled as a Prometheus
          NoService,  \* nothing was found
          TTLFound, TTLNotFound,  \* discoveryTTLFound and discoveryTTLNotFound, in ticks
          MaxChanges  \* bound: changes of the row, the settings and the clusters

MetricsAssumption ==
  /\ NoService \notin Services
  /\ TTLFound \in Nat /\ TTLNotFound \in Nat /\ MaxChanges \in Nat

VARIABLES row,        \* [typed, server]: MetricsURL is set, and what the credential points at
          default,    \* the deployment's endpoint is enabled
          up,         \* the API servers that can be reached
          labelled,   \* server -> the services that carry the label
          answers,    \* server -> those of them that answer PromQL
          memory,     \* metricsDiscovery: <<>> or <<[server, service, age]>>
          read,       \* reader -> [step, typed, at, candidates]: what it holds
          shown,      \* reader -> the source its panel shows
          forget,     \* the update handler owes a Forget
          changes

vars == <<row, default, up, labelled, answers, memory, read, shown, forget, changes>>
world == <<row, default, up, labelled, answers, forget, changes>>

Rows == [typed : BOOLEAN, server : Servers]
Found == Services \cup {NoService}
Entry == [server : Servers, service : Found, age : 0..(TTLFound + 1)]

Manual == [kind |-> "manual"]
Default == [kind |-> "default"]
NotConfigured == [kind |-> "none"]
Auto(server, service) == [kind |-> "auto", server |-> server, service |-> service]
Sources == {Manual, Default, NotConfigured} \cup {Auto(s, v) : s \in Servers, v \in Services}

Idle == [step |-> "idle"]

TypeOK ==
  /\ row \in Rows /\ default \in BOOLEAN /\ up \in SUBSET Servers
  /\ labelled \in [Servers -> SUBSET Services] /\ answers \in [Servers -> SUBSET Services]
  /\ memory = <<>> \/ memory[1] \in Entry
  /\ read \in [Readers -> [step : {"idle", "list", "fallback"}]
                           \cup [step : {"source"}, typed : BOOLEAN]
                           \cup [step : {"ask"}, at : Servers, candidates : SUBSET Services]]
  /\ shown \in [Readers -> Sources]
  /\ forget \in BOOLEAN /\ changes \in 0..MaxChanges

Init ==
  /\ row \in Rows /\ default \in BOOLEAN
  /\ up = Servers
  /\ labelled \in [Servers -> SUBSET Services]
  /\ answers = labelled
  /\ memory = <<>>
  /\ read = [r \in Readers |-> Idle]
  /\ shown = [r \in Readers |-> NotConfigured]
  /\ forget = FALSE
  /\ changes = 0

Goes(r, next) == read' = [read EXCEPT ![r] = next]
Shows(r, source) == shown' = [shown EXCEPT ![r] = source] /\ Goes(r, Idle)

-----------------------------------------------------------------------------
(* A panel is read. *)

\* resolveCluster reads the row: whether an address is typed on it stays what
\* it was for the whole request.
Ask(r) ==
  /\ read[r] = Idle
  /\ Goes(r, [step |-> "source", typed |-> row.typed])
  /\ UNCHANGED <<world, memory, shown>>

\* Mutant: what was found is never looked for again.
Fresh_Always(entry) == entry.service # NoService \/ entry.age <= TTLNotFound

\* get: an entry of a search that found something lives longer.
Fresh(entry) == entry.age <= IF entry.service # NoService THEN TTLFound ELSE TTLNotFound

Remembered == memory # <<>> /\ Fresh(memory[1])

\* metricsConfigFor: the typed address, else what is remembered.
Choose(r) ==
  /\ read[r].step = "source"
  /\ \/ read[r].typed /\ Shows(r, Manual)
     \/ /\ ~read[r].typed /\ Remembered /\ memory[1].service # NoService
        /\ Shows(r, Auto(memory[1].server, memory[1].service))
     \/ /\ ~read[r].typed
        /\ Goes(r, [step |-> IF Remembered THEN "fallback" ELSE "list"])
        /\ Remembered => memory[1].service = NoService
        /\ UNCHANGED shown
  /\ UNCHANGED <<world, memory>>

\* discoverMetrics reads the credential that is stored now, and
\* discoverPrometheus lists the services it leads to; a list that fails is
\* passed over.
List(r) ==
  /\ read[r].step = "list"
  /\ LET at == row.server
     IN  Goes(r, [step |-> "ask", at |-> at,
                  candidates |-> IF at \in up THEN labelled[at] ELSE {}])
  /\ UNCHANGED <<world, memory, shown>>

AnswersPromQL(at, v) == at \in up /\ v \in answers[at]

Put(at, service) == memory' = <<[server |-> at, service |-> service, age |-> 0]>>

\* ... and asks each of them: one that answers is taken, and remembered, as
\* is that there was none.
Search(r) ==
  /\ read[r].step = "ask"
  /\ LET at == read[r].at
         good == {v \in read[r].candidates : AnswersPromQL(at, v)}
     IN  \E service \in IF good = {} THEN {NoService} ELSE good :
           /\ Put(at, service)
           /\ IF service = NoService
                THEN Goes(r, [step |-> "fallback"]) /\ UNCHANGED shown
                ELSE Shows(r, Auto(at, service))
  /\ UNCHANGED world

\* No client could be built for the cluster: that is not remembered.
SearchFails(r) ==
  /\ read[r].step = "list"
  /\ Goes(r, [step |-> "fallback"])
  /\ changes < MaxChanges /\ changes' = changes + 1
  /\ UNCHANGED <<row, default, up, labelled, answers, forget, memory, shown>>

\* The deployment's endpoint, as the settings of now have it.
Fallback(r) ==
  /\ read[r].step = "fallback"
  /\ Shows(r, IF default THEN Default ELSE NotConfigured)
  /\ UNCHANGED <<world, memory>>

-----------------------------------------------------------------------------
(* Everything else. *)

Changes == changes < MaxChanges /\ changes' = changes + 1

\* The update handler types an address or clears it ...
SaveAddress ==
  /\ Changes /\ ~forget
  /\ row' = [row EXCEPT !.typed = ~@]
  /\ forget' = TRUE
  /\ UNCHANGED <<default, up, labelled, answers, memory, read, shown>>

\* ... and forgets what was found; a search under way puts it back.
Forget ==
  /\ forget
  /\ memory' = <<>> /\ forget' = FALSE
  /\ UNCHANGED <<row, default, up, labelled, answers, read, shown, changes>>

\* A new credential may point at another server; nothing is forgotten.
ReplaceCredential(s) ==
  /\ Changes
  /\ s # row.server
  /\ row' = [row EXCEPT !.server = s]
  /\ UNCHANGED <<default, up, labelled, answers, forget, memory, read, shown>>

SaveMetrics ==
  /\ Changes
  /\ default' = ~default
  /\ UNCHANGED <<row, up, labelled, answers, forget, memory, read, shown>>

\* A service is put up or taken away, or stops answering; a server is lost or
\* found.
Turns(s, v) ==
  /\ Changes
  /\ \/ /\ labelled' = [labelled EXCEPT ![s] = IF v \in @ THEN @ \ {v} ELSE @ \cup {v}]
        /\ answers' = [answers EXCEPT ![s] = IF v \in labelled[s] THEN @ \ {v} ELSE @ \cup {v}]
        /\ UNCHANGED up
     \/ v \in answers[s] /\ answers' = [answers EXCEPT ![s] = @ \ {v}] /\ UNCHANGED <<labelled, up>>
     \/ /\ up' = (up \ {s}) \cup ({s} \ up)
        /\ UNCHANGED <<labelled, answers>>
  /\ UNCHANGED <<row, default, forget, memory, read, shown>>

\* Time passes; past its life an entry is as good as none.
Tick ==
  /\ memory # <<>> /\ memory[1].age <= TTLFound
  /\ memory' = <<[memory[1] EXCEPT !.age = @ + 1]>>
  /\ UNCHANGED <<world, read, shown>>

Reads(r) == Ask(r) \/ Choose(r) \/ List(r) \/ Search(r) \/ Fallback(r)

Next ==
  \/ \E r \in Readers : Reads(r) \/ SearchFails(r)
  \/ SaveAddress \/ Forget \/ SaveMetrics \/ Tick
  \/ \E s \in Servers : ReplaceCredential(s) \/ \E v \in Services : Turns(s, v)

\* The panels refresh, the handlers run, time passes.
Spec == /\ Init /\ [][Next]_vars
        /\ WF_vars(Forget) /\ WF_vars(Tick) /\ \A r \in Readers : WF_vars(Reads(r))

-----------------------------------------------------------------------------
(* Properties. *)

\* What can be found in the cluster the row points at.
There == IF row.server \in up THEN answers[row.server] ELSE {}

\* What a panel should be showing: the typed address, else a Prometheus of the
\* cluster the row points at, else the deployment's.
Right(source) ==
  CASE row.typed -> source = Manual
    [] ~row.typed /\ There # {} -> source \in {Auto(row.server, v) : v \in There}
    [] OTHER -> source = IF default THEN Default ELSE NotConfigured

AllRight == \A r \in Readers : Right(shown[r])

\* Whatever was remembered, forgotten or put back by a search that was under
\* way, once nothing changes every panel comes to show the right source, and
\* stays with it.
SourceSettles == <>[]AllRight

\* What is remembered, and what a panel that is being read knows, is so.
Sound ==
  /\ ~forget
  /\ Remembered =>
       /\ memory[1].server = row.server
       /\ IF memory[1].service = NoService THEN There = {} ELSE memory[1].service \in There
  /\ \A r \in Readers :
       /\ read[r].step = "source" => read[r].typed = row.typed
       /\ read[r].step \in {"list", "ask", "fallback"} => ~row.typed
       /\ read[r].step = "ask" => read[r].at = row.server /\ There \subseteq read[r].candidates
       /\ read[r].step = "fallback" => There = {}

\* While nothing changes, panels read together leave what they know sound, and
\* show the right source: a search never puts back what is not so.
ReadsRight ==
  Sound /\ UNCHANGED changes =>
    Sound' /\ \A r \in Readers : shown'[r] = shown[r] \/ Right(shown[r])'

-----------------------------------------------------------------------------
(* What is kept. *)

\* A Prometheus that answers carries the label.
AnswersLabelled == \A s \in Servers : answers[s] \subseteq labelled[s]

IInv == TypeOK /\ AnswersLabelled
=============================================================================
