------------------------------- MODULE Overview -------------------------------
(***************************************************************************)
(* The cluster overview read from Prometheus: many queries at once, each   *)
(* of which may fail alone.  One list holds every object that is wrong,    *)
(* built in the order the answers come; a table describes the same pods    *)
(* in the order of its sources; a tile counts them by phase; the summary   *)
(* turns readings that may be missing into one word.                       *)
(* (src/server/internal/promql: clusterhealth.go, panels.go, summary.go,   *)
(*  nodes.go)                                                              *)
(***************************************************************************)
EXTENDS Naturals, FiniteSets, SequencesExt

CONSTANTS Clusters,    \* what Prometheus holds of a cluster: [pods, seeds, collected, level]
          Containers,  \* names of the containers of a pod
          Pod,         \* the container of a finding about the pod itself
          Failures     \* the sets of queries that get no answer in a reading

VARIABLES cluster,     \* the metrics of the cluster, the same for the whole reading
          failed,      \* <<panel, query>> that get no answer
          waiting,     \* queries of the list that are not answered yet
          found        \* the findings of the list, in the order of the answers

vars == <<cluster, failed, waiting, found>>

(* The sources of a problem, the most specific first: their place is the rank
   of a finding and the order in which the table reads them. *)
Sources == <<"waiting", "exit", "Failed", "Pending", "NotReady">>
Rank(source) == CHOOSE i \in 1..5 : Sources[i] = source

\* A string that nobody set.
Unset == ""

Starting == {Unset, "ContainerCreating", "PodInitializing"}
Stuck(reason) == reason \notin Starting

Signals == {"nodesReady", "podsReady", "nodesNotReady", "unavailable"}
Seeds == {"info", "arch"}
Queries ==
  ({"list", "table"} \X {"waiting", "exit", "Failed", "Pending", "NotReady"})
    \cup {<<"tile", "phases">>, <<"tile", "stuck">>}
    \cup ({"cards"} \X (Seeds \cup {"pods"})) \cup ({"presence", "value"} \X Signals)

Phases == {"Running", "Failed", "Succeeded", "Pending", "Unknown"}

\* Pods and containers can be counted, a pod is placed on a machine that some
\* query knows, or on none, and a reading is of one of three levels.
OverviewAssumption ==
  /\ \A f \in Failures : f \subseteq Queries
  /\ IsFiniteSet(Containers) /\ Pod \notin Containers
  /\ \A c \in Clusters :
       /\ IsFiniteSet(DOMAIN c.pods)
       /\ \A p \in DOMAIN c.pods :
            /\ c.pods[p].phase \in Phases
            /\ c.pods[p].node \in {"unknown"} \cup UNION {c.seeds[s] : s \in Seeds}
       /\ \A s \in Seeds : "unknown" \notin c.seeds[s]
       /\ c.collected \subseteq Signals
       /\ \A s \in Signals : c.level[s] \in {"fine", "degraded", "critical"}

Init ==
  /\ cluster \in Clusters
  /\ failed \in Failures
  /\ waiting = {Sources[i] : i \in 1..5}
  /\ found = <<>>

Ids == DOMAIN cluster.pods

-----------------------------------------------------------------------------
(* What a query says of the pods: <<pod, container, reason>>. *)

OfContainers(reasons(_), skipped) ==
  {<<x[1], x[2], reasons(x[1])[x[2]]>> :
     x \in {y \in Ids \X Containers : reasons(y[1])[y[2]] \notin skipped}}

OfPods(source, holds(_)) == {<<p, Pod, source>> : p \in {x \in Ids : holds(x)}}

Samples(source) ==
  LET W(p) == cluster.pods[p].waiting
      X(p) == cluster.pods[p].exit
      InPhase(p) == cluster.pods[p].phase = source
      NotReady(p) == ~cluster.pods[p].ready
  IN  CASE source = "waiting" -> OfContainers(W, Starting)
        [] source = "exit" -> OfContainers(X, {Unset, "Completed"})
        [] source = "NotReady" -> OfPods(source, NotReady)
        [] OTHER -> OfPods(source, InPhase)

Answers(panel, source) == IF <<panel, source>> \in failed THEN <<>> ELSE SetToSeq(Samples(source))

-----------------------------------------------------------------------------
(* readProblems: the list. *)

Finding(sample, source) ==
  [pod |-> sample[1], container |-> sample[2], reason |-> sample[3], exit |-> Unset,
   rank |-> Rank(source)]

Findings == UNION {{Finding(s, Sources[i]) : s \in Samples(Sources[i])} : i \in 1..5}

TypeOK ==
  /\ cluster \in Clusters
  /\ failed \in Failures
  /\ waiting \subseteq {Sources[i] : i \in 1..5}
  /\ found \in Seq(Findings)

\* The answers are appended as they come.
Collect(source) ==
  LET samples == Answers("list", source)
  IN  /\ source \in waiting
      /\ waiting' = waiting \ {source}
      /\ found' = found \o [i \in DOMAIN samples |-> Finding(samples[i], source)]
      /\ UNCHANGED <<cluster, failed>>

\* Mutant: the one that comes first stays.
Better_First(best, f) ==
  IF \E b \in best : b.pod = f.pod /\ b.container = f.container THEN best ELSE best \cup {f}

\* One finding for a container and one for the pod itself: the most specific,
\* with the reason of the last exit under the one for not starting.
Better(best, f) ==
  LET same == {b \in best : b.pod = f.pod /\ b.container = f.container}
      rest == best \ same
  IN  IF same = {} THEN best \cup {f}
      ELSE LET b == CHOOSE x \in same : TRUE
           IN  IF f.rank < b.rank
               THEN rest \cup {[f EXCEPT !.exit = IF b.rank = Rank("exit") THEN b.reason ELSE f.exit]}
               ELSE IF b.rank = Rank("waiting") /\ f.rank = Rank("exit")
               THEN rest \cup {[b EXCEPT !.exit = f.reason]}
               ELSE best

\* Mutant: the pod's own finding stays beside those of its containers.
Collapse_Both(findings) == FoldLeft(Better, {}, findings)

\* What follows from a container that fails is dropped.
Collapse(findings) ==
  LET best == FoldLeft(Better, {}, findings)
  IN  {f \in best : f.container = Pod => ~\E g \in best : g.pod = f.pod /\ g.container # Pod}

Problems == Collapse(found)

-----------------------------------------------------------------------------
(* readPodProblems: the table. *)

NoRow == [status |-> Unset, container |-> Pod, exit |-> Unset]

\* Mutant: the reason of the last exit goes to whatever row the pod has.
Writes_Any(row, sample, source) ==
  IF row.status = Unset THEN [status |-> sample[3], container |-> sample[2], exit |-> Unset]
  ELSE IF source = "exit" /\ row.exit = Unset THEN [row EXCEPT !.exit = sample[3]]
  ELSE row

\* The first source that names the pod wins; the last exit explains the row of
\* the same container.
Writes(row, sample, source) ==
  IF row.status = Unset THEN [status |-> sample[3], container |-> sample[2], exit |-> Unset]
  ELSE IF source = "exit" /\ row.container = sample[2] /\ row.exit = Unset
  THEN [row EXCEPT !.exit = sample[3]]
  ELSE row

Reads(p, row, source) ==
  FoldLeft(LAMBDA r, s : IF s[1] = p THEN Writes(r, s, source) ELSE r, row, Answers("table", source))

Row(p) == FoldLeft(LAMBDA row, source : Reads(p, row, source), NoRow, Sources)

Table == {p \in Ids : Row(p).status # Unset}

-----------------------------------------------------------------------------
(* The pods of ReadClusterHealth: the tile. *)

InPhase(phase) == {p \in Ids : cluster.pods[p].phase = phase}
HasStuck(p) == \E c \in Containers : Stuck(cluster.pods[p].waiting[c])

\* Mutant: every pod with a container that will not start, placed or not.
NotStarting_All == {p \in Ids : HasStuck(p)}

\* The pods in phase Pending whose containers will not start.
NotStarting == {p \in InPhase("Pending") : HasStuck(p)}

\* Nothing without the first answer; without the second its pods are counted as
\* pending.
Tile ==
  LET stuck == IF <<"tile", "stuck">> \in failed THEN 0 ELSE Cardinality(NotStarting)
      pending == Cardinality(InPhase("Pending"))
  IN  IF <<"tile", "phases">> \in failed THEN [name \in {} |-> 0]
      ELSE [name \in Phases \cup {"NotStarting"} |->
              CASE name = "NotStarting" -> stuck
                [] name = "Pending" -> IF pending < stuck THEN 0 ELSE pending - stuck
                [] OTHER -> Cardinality(InPhase(name))]

Total == FoldSet(LAMBDA name, sum : Tile[name] + sum, 0, DOMAIN Tile)

-----------------------------------------------------------------------------
(* readNodes and capacityOf: a card for each machine. *)

\* Only what is about nodes makes a card: the objects, the machines, or both.
Cards == UNION {IF <<"cards", s>> \in failed THEN {} ELSE cluster.seeds[s] : s \in Seeds}

\* Mutant: a query that counts pods by node makes one too.
Capacity_Pods == {p \in Ids : TRUE}

\* What is added up is what the cards hold: nothing, when the pods of the
\* machines were not told, as the error of that query goes nowhere.
Capacity ==
  IF <<"cards", "pods">> \in failed THEN {} ELSE {p \in Ids : cluster.pods[p].node \in Cards}

-----------------------------------------------------------------------------
(* readSummary and deriveStatus. *)

\* Mutant: the value is asked for without asking whether it is collected, and
\* the `or vector(0)` of the query answers zero.
Reading_Zero(s) ==
  IF <<"value", s>> \in failed THEN "unknown"
  ELSE IF s \in cluster.collected THEN cluster.level[s] ELSE "fine"

\* A reading exists when its metric does and both questions were answered.
Reading(s) ==
  IF s \in cluster.collected /\ <<"presence", s>> \notin failed /\ <<"value", s>> \notin failed
  THEN cluster.level[s] ELSE "unknown"

\* Mutant: what is not read is taken for what it should be.
Status_Falls ==
  IF \E s \in Signals : Reading(s) = "critical" THEN "Critical"
  ELSE IF \E s \in Signals : Reading(s) = "degraded" THEN "Degraded"
  ELSE "Healthy"

Status ==
  IF \E s \in Signals : Reading(s) = "critical" THEN "Critical"
  ELSE IF \E s \in Signals : Reading(s) = "degraded" THEN "Degraded"
  ELSE IF Reading("nodesReady") = "unknown" /\ Reading("podsReady") = "unknown" THEN "Unknown"
  ELSE "Healthy"

-----------------------------------------------------------------------------
(* ReadClusterHealth: what the reader is told. *)

\* Only a panel that returns its error leaves a warning: of these, the tile.
Warnings == {w \in failed : w[1] = "tile" /\ w[2] = "phases"}

\* A reading that could not be made says so by itself.
Unread == {s \in Signals : Reading(s) = "unknown"}

Next == \E i \in 1..5 : Collect(Sources[i])

Spec == Init /\ [][Next]_vars

-----------------------------------------------------------------------------
(* Properties. *)

Read == waiting = {}
Whole == Read /\ failed = {}

\* What was answered is in the list, and nothing else is.
Listed ==
  ToSet(found) =
    UNION {{Finding(s, q) : s \in Samples(q)} :
             q \in {x \in {Sources[i] : i \in 1..5} \ waiting : <<"list", x>> \notin failed}}

\* The inductive invariant.
IInv == TypeOK /\ Listed

Wrong(p, c) == {s \in {"waiting", "exit"} : \E x \in Samples(s) : x[1] = p /\ x[2] = c}

\* In whatever order the answers came, each failing container of a pod is one
\* finding, under the reason for which it does not start when it has one, with
\* its last exit beside it; a pod without one is one finding at most
\* (panels.go:39-104).
OneFindingEach ==
  Whole =>
    \A p \in Ids :
      LET mine == {f \in Problems : f.pod = p}
          bad == {c \in Containers : Wrong(p, c) # {}}
          Told(c) == [pod |-> p, container |-> c,
                      reason |-> IF "waiting" \in Wrong(p, c) THEN cluster.pods[p].waiting[c]
                                                              ELSE cluster.pods[p].exit[c],
                      exit |-> IF Wrong(p, c) = {"waiting", "exit"} THEN cluster.pods[p].exit[c] ELSE Unset,
                      rank |-> IF "waiting" \in Wrong(p, c) THEN 1 ELSE 2]
      IN  IF bad # {} THEN mine = {Told(c) : c \in bad} ELSE Cardinality(mine) <= 1

\* The list and the table name the same pods, the row of a pod is one of its
\* findings, and both explain it by the same exit (panels.go:226-370,
\* 1149-1240).
TableIsTheList ==
  Whole =>
    /\ Table = {f.pod : f \in Problems}
    /\ \A p \in Table : \E f \in Problems :
          /\ f.pod = p /\ f.container = Row(p).container
          /\ f.reason = Row(p).status /\ f.exit = Row(p).exit

\* The tile counts every pod once, whether or not the second query of the panel
\* was answered (clusterhealth.go:289-318).
TileCountsEachOnce ==
  Read /\ <<"tile", "phases">> \notin failed => Total = Cardinality(Ids)

\* No machine is invented and none is lost while one of the two queries that
\* know them all answers: the row above the cards counts no pod that was not
\* placed, and every pod that was when the pods of the machines were told, too
\* (nodes.go:111-160, 167, 254-262).  When that one query fails the row counts no
\* pod and the reader hears nothing of it: PartialIsTold.
CardsAddUp ==
  LET placed == {p \in Ids : cluster.pods[p].node # "unknown"}
      machines == UNION {cluster.seeds[s] : s \in Seeds}
  IN  /\ Capacity \subseteq placed
      /\ (\E s \in Seeds : cluster.seeds[s] = machines /\ <<"cards", s>> \notin failed)
           /\ <<"cards", "pods">> \notin failed
         => Capacity = placed

\* Healthy is said by a reading: that of a metric nobody collects is never one,
\* and what was read to be wrong is always in the verdict (summary.go:105-279).
VerdictIsEarned ==
  /\ Status = "Healthy" =>
        \E s \in {"nodesReady", "podsReady"} : s \in cluster.collected
  /\ \A s \in cluster.collected :
        cluster.level[s] # "fine" /\ {<<"presence", s>>, <<"value", s>>} \cap failed = {}
          => Status \in {"Degraded", "Critical"}

PanelsAgree ==
  OneFindingEach /\ TableIsTheList /\ TileCountsEachOnce /\ CardsAddUp /\ VerdictIsEarned

\* A panel that is partly read says so: its failed query is among the warnings,
\* or its reading among the unread (clusterhealth.go:100).
PartialIsTold ==
  Read => \A x \in failed : x \in Warnings \/ (x[1] \in {"presence", "value"} /\ x[2] \in Unread)
=============================================================================
