----------------------------- MODULE PodVerdicts -----------------------------
(***************************************************************************)
(* What is said of one pod in four places: the word in the list's status   *)
(* column, the mark on its row, the finding on the health panel and the    *)
(* line on the cluster's overview.  All are read off the same object.      *)
(* (src/server/internal/k8s: trouble.go, containers.go;                    *)
(*  src/server/internal/health/workload.go;                                *)
(*  src/server/internal/cluster: projection.go, overview.go)               *)
(***************************************************************************)
EXTENDS Naturals, Sequences, SequencesExt

CONSTANTS Pods      \* the pods to judge

VARIABLES pod,      \* the pod
          verdict   \* <<>> or <<[status, mark, finding, problem]>>

\* What a container is doing: it runs, and may have been killed for memory
\* before; it waits; it has ended.
Waiting == {"CrashLoopBackOff", "ContainerCreating", "PodInitializing"}
Ended == {"Completed", "Error", "OOMKilled", "zero", "nonzero"}  \* the last two have no reason
State == Waiting \cup Ended \cup {"running"}
Container == [state : State, last : Ended \cup {"none"}, sidecar : BOOLEAN]

Pod == [phase : {"Pending", "Running", "Succeeded", "Failed"}, evicted : BOOLEAN,
        scheduled : BOOLEAN, ready : BOOLEAN, deleting : BOOLEAN,
        inits : Seq(Container), containers : Seq(Container)]
PodsAssumption == Pods \subseteq Pod

None == [reason |-> "", severity |-> "", transient |-> FALSE, sidecar |-> FALSE]
Trouble(reason, severity) ==
  [reason |-> reason, severity |-> severity, transient |-> FALSE, sidecar |-> FALSE]

-----------------------------------------------------------------------------
(* PodTrouble. *)

WaitingIsNormal == {"ContainerCreating", "PodInitializing"}

\* terminationTrouble: an exit that is a failure; of those before the present
\* run only a memory kill counts.
Terminated(end, past) ==
  /\ end \in Ended \ {"Completed", "zero"}
  /\ past => end = "OOMKilled"

\* The word a container's trouble goes by, "" where it has none.
ReasonOf(c) ==
  IF c.state \in Waiting THEN IF c.state \in WaitingIsNormal THEN "" ELSE c.state
  ELSE IF Terminated(c.state, FALSE) THEN IF c.state = "nonzero" THEN "Exit" ELSE c.state
  ELSE IF Terminated(c.last, TRUE) THEN c.last ELSE ""

\* containerTrouble: the first container that has any.
Troubled(list) == SelectInSeq(list, LAMBDA c : ReasonOf(c) # "")
ContainerTrouble(list) ==
  LET i == Troubled(list)
  IN  IF i = 0 THEN None
      ELSE [reason |-> ReasonOf(list[i]), severity |-> "error", transient |-> FALSE,
            sidecar |-> list[i].sidecar]

When(so, trouble) == IF so THEN trouble ELSE None
FirstOf(said) == LET i == SelectInSeq(said, LAMBDA t : t # None)
                 IN  IF i = 0 THEN None ELSE said[i]

\* The switch on the phase that ends PodTrouble.
PhaseTrouble(p) ==
  CASE p.phase = "Failed" -> Trouble("Failed", "error")
    [] p.phase = "Pending" -> [Trouble("Pending", "warning") EXCEPT !.transient = TRUE]
    [] p.phase = "Running" -> When(~p.ready, Trouble("NotReady", "warning"))
    [] p.phase = "Succeeded" -> None

\* Mutant: the init containers are not read.
PodTrouble_NoInits(p) ==
  FirstOf(<<When(p.evicted, Trouble("Evicted", "warning")),
            When(p.phase = "Pending" /\ ~p.scheduled, Trouble("Unschedulable", "error")),
            ContainerTrouble(p.containers), PhaseTrouble(p)>>)

\* The first of these that there is.
PodTrouble(p) ==
  FirstOf(<<When(p.evicted, Trouble("Evicted", "warning")),
            When(p.phase = "Pending" /\ ~p.scheduled, Trouble("Unschedulable", "error")),
            ContainerTrouble(p.containers), ContainerTrouble(p.inits), PhaseTrouble(p)>>)

-----------------------------------------------------------------------------
(* The four places. *)

\* stateReason: the word of a container's present state.
StateReason(c) ==
  IF c.state \in (Waiting \ WaitingIsNormal) \cup {"Error", "OOMKilled"} THEN c.state ELSE ""

\* PodStatus: the init containers' word, then the others', then the pod's own.
PodStatus(p) ==
  LET all == p.inits \o p.containers
      i == SelectInSeq(all, LAMBDA c : StateReason(c) # "")
  IN  IF p.deleting THEN "Terminating"
      ELSE IF i # 0 THEN StateReason(all[i])
      ELSE IF p.evicted THEN "Evicted" ELSE p.phase

\* projectPod: the row carries the severity of the trouble, passing or not.
Mark(p) == PodTrouble(p).severity

\* inspect: what passes by itself is no finding, and a sidecar's is a warning.
NoFinding == [severity |-> "none", reason |-> ""]
Inspect(p) ==
  LET t == PodTrouble(p)
  IN  IF t = None \/ t.transient THEN NoFinding
      ELSE [reason |-> t.reason,
            severity |-> IF t.sidecar \/ t.severity = "warning" THEN "warning" ELSE "critical"]

\* podProblem: the overview's shorter reading.
PodProblem(p) ==
  LET word(c) == IF c.state \in (Waiting \ {"ContainerCreating"}) \cup {"OOMKilled"}
                   THEN c.state ELSE ""
      i == SelectInSeq(p.containers, LAMBDA c : word(c) # "")
  IN  CASE p.phase = "Failed" -> "Failed"
        [] p.phase = "Pending" -> "Pending"
        [] p.phase \notin {"Failed", "Pending"} /\ i # 0 -> word(p.containers[i])
        [] OTHER -> ""

Init == pod \in Pods /\ verdict = <<>>

Judge ==
  /\ verdict = <<>>
  /\ verdict' = <<[status |-> PodStatus(pod), mark |-> Mark(pod), finding |-> Inspect(pod),
                   problem |-> PodProblem(pod)]>>
  /\ UNCHANGED pod

Next == Judge
Spec == Init /\ [][Next]_<<pod, verdict>>

-----------------------------------------------------------------------------
(* Properties. *)

\* The words of the status column that say a pod is doing what it should, or
\* is on its way.
FineWords == {"Pending", "Running", "Succeeded", "Terminating"}

\* A pod works when it is placed or waiting its turn, no container of it is
\* stopped by a failure or was last killed for memory, and it takes traffic or
\* has ended well.
Fails(c) == \/ c.state \in {"CrashLoopBackOff", "Error", "OOMKilled", "nonzero"}
            \/ c.state \notin Waiting /\ c.last = "OOMKilled"
Works(p) ==
  /\ ~p.evicted /\ p.phase # "Failed"
  /\ p.phase = "Pending" => p.scheduled
  /\ p.phase = "Running" => p.ready
  /\ \A i \in DOMAIN p.containers : ~Fails(p.containers[i])
  /\ \A i \in DOMAIN p.inits : ~Fails(p.inits[i])

\* The places agree: a pod that works is no finding and its row is marked only
\* while it starts, one that does not work is marked and found, whichever of
\* its containers is at fault; a failing word in the status column or a line on
\* the overview never stands beside a row without a mark. One line may: the
\* PodInitializing of a pod that runs and is ready.
VerdictsAgree ==
  verdict # <<>> =>
    LET v == verdict[1]
    IN  /\ Works(pod) <=> v.finding = NoFinding
        /\ Works(pod) => v.mark \in {"", "warning"} /\ (v.mark # "" => pod.phase = "Pending")
        /\ v.finding # NoFinding => v.mark # ""
        /\ v.status \notin FineWords => v.mark # ""
        /\ v.problem \notin {"", "PodInitializing"} => v.mark # ""

-----------------------------------------------------------------------------
(* What is kept. *)

IInv == pod \in Pods /\ VerdictsAgree
=============================================================================
