------------------------------- MODULE Drain -------------------------------
(***************************************************************************)
(* Draining a node: it is cordoned, then its pods are listed, then each    *)
(* pod that would move is asked to leave, in calls of their own, while the *)
(* scheduler, the controllers and other administrators go on.              *)
(* (src/server/internal/cluster: drain.go, operations.go;                  *)
(*  src/server/internal/httpapi/operation_handlers.go)                     *)
(***************************************************************************)
EXTENDS Naturals, FiniteSets

CONSTANTS Movable,     \* pods a controller recreates, or nothing does
          Daemons,     \* pods of DaemonSets, and static pods
          MaxFaults,   \* bound: calls that fail
          MaxChanges   \* bound: drains, uncordons and arrivals

BoundsAssumption ==
  Movable \cap Daemons = {} /\ MaxFaults \in Nat /\ MaxChanges \in Nat

Pods == Movable \cup Daemons

VARIABLES cordoned,    \* spec.unschedulable
          pod,         \* pod -> "away", "here", "leaving" or "finished", on this node
          drain,       \* "idle", "cordon", "list" or "evict"
          left,        \* the pods of the plan that were not asked yet
          refused,     \* EvictResult: the pods whose answer was an error
          complete,    \* history: the last drain ran to its end
          undone,      \* history: the node was uncordoned since it started
          faults, changes

vars == <<cordoned, pod, drain, left, refused, complete, undone, faults, changes>>

TypeOK ==
  /\ {cordoned, complete, undone} \subseteq BOOLEAN
  /\ pod \in [Pods -> {"away", "here", "leaving", "finished"}]
  /\ drain \in {"idle", "cordon", "list", "evict"}
  /\ left \in SUBSET Movable /\ refused \in SUBSET Movable
  /\ faults \in 0..MaxFaults /\ changes \in 0..MaxChanges

Init ==
  /\ cordoned = FALSE /\ complete = FALSE /\ undone = FALSE
  /\ pod \in [Pods -> {"away", "here", "finished"}]
  /\ drain = "idle"
  /\ left = {} /\ refused = {}
  /\ faults = 0 /\ changes = 0

Faults == faults < MaxFaults /\ faults' = faults + 1
Changes == changes < MaxChanges /\ changes' = changes + 1

-----------------------------------------------------------------------------
\* drainNode, authorised.
Start ==
  /\ drain = "idle"
  /\ Changes
  /\ drain' = "cordon"
  /\ refused' = {} /\ complete' = FALSE /\ undone' = FALSE
  /\ UNCHANGED <<cordoned, pod, left, faults>>

\* SetUnschedulable.
Cordon ==
  /\ drain = "cordon"
  /\ cordoned' = TRUE
  /\ drain' = "list"
  /\ UNCHANGED <<pod, left, refused, complete, undone, faults, changes>>

\* whyItStays: a DaemonSet's pod, a static one, one that finished.
Stays(p) == p \in Daemons \/ pod[p] = "finished"

Planned == {p \in Pods : pod[p] \in {"here", "leaving", "finished"} /\ ~Stays(p)}

\* PlanDrain: the pods the API server says are on the node.
Plan ==
  /\ drain = "list"
  /\ left' = Planned
  /\ drain' = "evict"
  /\ UNCHANGED <<cordoned, pod, refused, complete, undone, faults, changes>>

\* Neither step is taken back: a failure leaves the node as it is.
Fails ==
  /\ drain \in {"cordon", "list"}
  /\ Faults
  /\ drain' = "idle"
  /\ UNCHANGED <<cordoned, pod, left, refused, complete, undone, changes>>

\* Evict: the pod is told to leave, and leaves in its own time.
Evict(p) ==
  /\ drain = "evict"
  /\ p \in left
  /\ pod[p] # "away"
  /\ left' = left \ {p}
  /\ pod' = IF pod[p] = "here" THEN [pod EXCEPT ![p] = "leaving"] ELSE pod
  /\ UNCHANGED <<cordoned, drain, refused, complete, undone, faults, changes>>

\* Mutant: the first refusal ends the drain.
Refuse_Stops(p) ==
  /\ drain = "evict"
  /\ p \in left
  /\ left' = {}
  /\ refused' = refused \cup {p}
  /\ UNCHANGED <<cordoned, pod, drain, complete, undone, faults, changes>>

\* A budget holds the pod, it left by itself, or the call fails: the result
\* says so and the drain carries on.
Refuse(p) ==
  /\ drain = "evict"
  /\ p \in left
  /\ left' = left \ {p}
  /\ refused' = refused \cup {p}
  /\ UNCHANGED <<cordoned, pod, drain, complete, undone, faults, changes>>

Finish ==
  /\ drain = "evict"
  /\ left = {}
  /\ drain' = "idle"
  /\ complete' = TRUE
  /\ UNCHANGED <<cordoned, pod, left, refused, undone, faults, changes>>

-----------------------------------------------------------------------------
(* The cluster. *)

\* cordonNode, by somebody else: the drain's promise ends here.
Uncordon ==
  /\ cordoned
  /\ Changes
  /\ cordoned' = FALSE
  /\ undone' = TRUE
  /\ UNCHANGED <<pod, drain, left, refused, complete, faults>>

\* The scheduler binds a pod to a node it may use; a DaemonSet does not ask.
Arrive(p) ==
  /\ pod[p] = "away"
  /\ p \in Movable => ~cordoned
  /\ Changes
  /\ pod' = [pod EXCEPT ![p] = "here"]
  /\ UNCHANGED <<cordoned, drain, left, refused, complete, undone, faults>>

Leave(p) ==
  /\ pod[p] = "leaving"
  /\ pod' = [pod EXCEPT ![p] = "away"]
  /\ UNCHANGED <<cordoned, drain, left, refused, complete, undone, faults, changes>>

\* The pod's work is done.
Complete(p) ==
  /\ p \in Movable
  /\ pod[p] = "here"
  /\ pod' = [pod EXCEPT ![p] = "finished"]
  /\ UNCHANGED <<cordoned, drain, left, refused, complete, undone, faults, changes>>

Next ==
  \/ Start \/ Cordon \/ Plan \/ Fails \/ Finish \/ Uncordon
  \/ \E p \in Pods : Evict(p) \/ Refuse(p) \/ Arrive(p) \/ Leave(p) \/ Complete(p)

Spec == Init /\ [][Next]_vars

-----------------------------------------------------------------------------
(* Properties. *)

\* When a drain has ended and nobody uncordoned the node since, every pod that
\* would move has left, is leaving, or is one whose refusal was reported
\* (drain.go:101-131): "cordon first, always", and "carries on".
DrainAccounts ==
  complete /\ ~undone => \A p \in Movable : pod[p] = "here" => p \in refused

-----------------------------------------------------------------------------
(* What makes the property inductive. *)

\* A drain that has cordoned the node finds it so unless somebody uncordoned it
\* since, and what then is still here is still to be asked or was refused.
Underway ==
  /\ complete => drain = "idle"
  /\ drain \in {"list", "evict"} \/ complete => cordoned \/ undone
  /\ drain = "evict" /\ ~undone =>
        \A p \in Movable : pod[p] = "here" => p \in left \cup refused

IInv == TypeOK /\ Underway /\ DrainAccounts
=============================================================================
