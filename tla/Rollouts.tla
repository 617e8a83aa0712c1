------------------------------ MODULE Rollouts ------------------------------
(***************************************************************************)
(* A Deployment's pod template and the revisions it leaves behind: an      *)
(* apply replaces the template, a restart stamps it with a merge patch,    *)
(* and a rollback sends the template of an earlier revision's ReplicaSet   *)
(* as a merge patch (src/server/internal/cluster/operations.go).  Listing  *)
(* the ReplicaSets and sending the patch are two calls.                    *)
(*                                                                         *)
(* A template is a function from the fields it sets to their values.  The  *)
(* Deployment controller is external: it makes a ReplicaSet for a template *)
(* it has not seen, reuses one it has, and stamps it with a new revision   *)
(* number and a label with the template's hash.                            *)
(***************************************************************************)
EXTENDS Naturals, Functions

CONSTANTS Fields,      \* fields of a template a person may set
          Values,      \* what a field may be set to
          Stamp,       \* the restartedAt annotation
          Hash,        \* the pod-template-hash label
          None,        \* no rollback is under way
          MaxRevision  \* bound: revisions made

LabelAssumption == Hash \notin Fields \cup {Stamp} /\ MaxRevision \in Nat \ {0}

VARIABLES template,    \* the Deployment's spec.template
          sets,        \* its ReplicaSets: template -> revision number
          revision,    \* the Deployment's revision annotation
          rollback,    \* the template a rollback found, or None
          wanted       \* history: the template of the revision last rolled back to

vars == <<template, sets, revision, rollback, wanted>>

Templates == UNION {[on -> Values] : on \in SUBSET (Fields \cup {Stamp})}

TypeOK ==
  /\ template \in UNION {[on -> Values \cup {Hash}] : on \in SUBSET (Fields \cup {Stamp, Hash})}
  /\ \A t \in DOMAIN sets : sets[t] \in 1..MaxRevision
  /\ revision \in 1..MaxRevision

NoneAssumption == None \notin Templates

Init ==
  /\ template \in {t \in Templates : Stamp \notin DOMAIN t}
  /\ sets = [t \in {template} |-> 1]
  /\ revision = 1
  /\ rollback = None
  /\ wanted = None

\* The ReplicaSet's copy of a template carries the label of its hash.
Labelled(t) == [f \in DOMAIN t \cup {Hash} |-> IF f = Hash THEN Hash ELSE t[f]]

\* A JSON merge patch: what the patch names is set, the rest stays.
Merge(patch, t) == [f \in DOMAIN t \cup DOMAIN patch |-> IF f \in DOMAIN patch THEN patch[f] ELSE t[f]]

\* The API server takes a new template, and the controller follows it.
Becomes(t) ==
  IF t = template THEN UNCHANGED <<template, sets, revision>>
  ELSE /\ revision < MaxRevision
       /\ template' = t
       /\ revision' = revision + 1
       /\ sets' = [s \in DOMAIN sets \cup {t} |-> IF s = t THEN revision + 1 ELSE sets[s]]

-----------------------------------------------------------------------------
\* An apply, from here or from elsewhere.
Apply(t) ==
  /\ Becomes(t)
  /\ UNCHANGED <<rollback, wanted>>

\* Restart.
Restart(now) ==
  /\ Becomes(Merge([f \in {Stamp} |-> now], template))
  /\ UNCHANGED <<rollback, wanted>>

\* Mutant: the template is sent as the ReplicaSet has it.
Unlabelled_Not(t) == t

\* RestrictTo without the hash label: RemoveNestedField.
Unlabelled(t) == Restrict(t, DOMAIN t \ {Hash})

\* Rollback: the ReplicaSet stamped with the revision asked for, if any is.
Find(number) ==
  /\ rollback = None
  /\ \E t \in DOMAIN sets :
       /\ sets[t] = number
       /\ rollback' = Unlabelled(Labelled(t))
       /\ wanted' = t
  /\ UNCHANGED <<template, sets, revision>>

\* ... and the patch.
Patch ==
  /\ rollback # None
  /\ Becomes(Merge(rollback, template))
  /\ rollback' = None
  /\ UNCHANGED wanted

\* The patch is refused, or the Deployment is gone.
PatchFails ==
  /\ rollback # None
  /\ rollback' = None
  /\ wanted' = None
  /\ UNCHANGED <<template, sets, revision>>

\* The controller's history limit drops an old ReplicaSet.
Prune(t) ==
  /\ t \in DOMAIN sets
  /\ t # template
  /\ sets' = Restrict(sets, DOMAIN sets \ {t})
  /\ UNCHANGED <<template, revision, rollback, wanted>>

Next ==
  \/ Patch \/ PatchFails
  \/ \E t \in Templates : Prune(t) \/ (Stamp \notin DOMAIN t /\ Apply(t))
  \/ \E now \in Values : Restart(now)
  \/ \E number \in 1..MaxRevision : Find(number)

Spec == Init /\ [][Next]_vars

-----------------------------------------------------------------------------
(* Properties. *)

Landed == rollback # None /\ rollback' = None /\ wanted' = wanted

\* A rollback sets every field the revision set to the value it had, and never
\* brings back the identity of the revision's ReplicaSet (operations.go:
\* 337-342), whatever was applied between finding it and sending it.
LandsWell ==
  Landed => /\ \A f \in DOMAIN wanted : template'[f] = wanted[f]
            /\ Hash \notin DOMAIN template'

RollbackLands == [][LandsWell]_vars

-----------------------------------------------------------------------------
(* What makes the property hold. *)

\* Templates carry no hash, and a rollback under way holds those fields of the
\* revision it is to bring back.
Held ==
  /\ template \in Templates
  /\ DOMAIN sets \subseteq Templates
  /\ rollback # None =>
        /\ wanted \in Templates
        /\ DOMAIN rollback = DOMAIN wanted
        /\ \A f \in DOMAIN wanted : rollback[f] = wanted[f]

IInv == TypeOK /\ Held
=============================================================================
