---------------------------- MODULE DebugContainers ----------------------------
(***************************************************************************)
(* A debug container is attached to a running pod: the list of the pod's   *)
(* ephemeral containers is read, one more is added to it, and the kubelet  *)
(* is waited for before a shell is opened in it.  It stays as long as the  *)
(* pod does.                                                               *)
(* (server/internal/cluster/debugcontainer.go,                             *)
(*  server/internal/httpapi/exec_handlers.go)                              *)
(***************************************************************************)
EXTENDS Naturals

CONSTANTS
    Sessions,     \* attempts, all on the same pod
    MaxNow,       \* bound on the clock, in seconds
    MaxChanges,   \* bound on what others do to the pod
    MaxFaults     \* bound on lost answers

ClockAssumption == MaxNow \in Nat \ {0} /\ MaxChanges \in Nat /\ MaxFaults \in Nat

VARIABLES
    now,         \* the second of the server's clock
    containers,  \* the ephemeral containers of the pod: name -> [by, state]
    version,     \* the pod's resource version
    attempt,     \* session -> [step, name, began, list, version]: where it is,
                 \* the name it chose and the second it began, the list it
                 \* read and the pod's version then
    record,      \* session -> what the audit trail says: "none", "success", "error"
    torn,        \* history: sessions whose pod was replaced under them or
                 \* whose answer was lost
    changes, faults

pod == <<containers, version>>
bounds == <<changes, faults>>
vars == <<now, pod, attempt, record, torn, bounds>>

Names == 1 .. MaxNow
States == {"starting", "running", "stuck", "exited"}
Steps == {"none", "named", "read", "wait", "shell", "refused", "taken", "over"}

Init ==
    /\ now = 1
    /\ containers = [n \in {} |-> 0] /\ version = 0
    /\ attempt = [s \in Sessions |-> [step |-> "none", name |-> 0, began |-> 0, list |-> {}, version |-> 0]]
    /\ record = [s \in Sessions |-> "none"]
    /\ torn = {} /\ changes = 0 /\ faults = 0

At(s, step) == attempt[s].step = step
Goes(s, step) == attempt' = [attempt EXCEPT ![s].step = step]
Tells(s, word) == record' = [record EXCEPT ![s] = word]
Fails(s) == Goes(s, "over") /\ Tells(s, "error")

-----------------------------------------------------------------------------
(* An attempt. *)

\* Mutant: every container has one name.
Name_Fixed == 1

\* kubby-debug- and the second.
Name == now

Start(s) ==
    /\ At(s, "none")
    /\ attempt' = [attempt EXCEPT ![s] = [@ EXCEPT
          !.step = "named", !.name = Name, !.began = now]]
    /\ UNCHANGED <<now, pod, record, torn, bounds>>

\* Get with the subresource: the list, and the version of the pod it is in.
Get(s) ==
    /\ At(s, "named")
    /\ attempt' = [attempt EXCEPT ![s] = [@ EXCEPT
          !.step = "read", !.list = DOMAIN containers, !.version = version]]
    /\ UNCHANGED <<now, pod, record, torn, bounds>>

\* Mutant: the update carries no version.
Accepted_AnyVersion(s) ==
    attempt[s].list \subseteq DOMAIN containers /\ attempt[s].name \notin attempt[s].list

\* The API server takes an update of the version it has, in which no two
\* containers have one name.
Accepted(s) == attempt[s].version = version /\ attempt[s].name \notin DOMAIN containers

\* The list that was read, and one more.
Attach(s) ==
    /\ containers' = [n \in attempt[s].list \cup {attempt[s].name} |->
          IF n = attempt[s].name THEN [by |-> s, state |-> "starting"] ELSE containers[n]]
    /\ version' = version + 1

Update(s) ==
    /\ At(s, "read") /\ Accepted(s)
    /\ Attach(s) /\ Goes(s, "wait")
    /\ UNCHANGED <<now, record, torn, bounds>>

\* It was taken, and its answer lost.
UpdateLost(s) ==
    /\ At(s, "read") /\ Accepted(s) /\ faults < MaxFaults
    /\ faults' = faults + 1 /\ torn' = torn \cup {s}
    /\ Attach(s) /\ Fails(s)
    /\ UNCHANGED <<now, changes>>

\* The pod is not there, the call is denied, or the pod to update has changed
\* since it was read.
Denied(s) ==
    /\ At(s, "named") \/ At(s, "read")
    /\ Goes(s, "refused") /\ Tells(s, "error")
    /\ UNCHANGED <<now, pod, torn, bounds>>

\* The pod carries the name already.
NameTaken(s) ==
    /\ At(s, "read") /\ attempt[s].version = version /\ ~Accepted(s)
    /\ Goes(s, "taken") /\ Tells(s, "error")
    /\ UNCHANGED <<now, pod, torn, bounds>>

Mine(s) == attempt[s].name \in DOMAIN containers

\* A poll finds the container running, and the session opens.
Ready(s) ==
    /\ At(s, "wait") /\ Mine(s) /\ containers[attempt[s].name].state = "running"
    /\ Goes(s, "shell") /\ Tells(s, "success")
    /\ UNCHANGED <<now, pod, torn, bounds>>

\* A poll finds an image that cannot be pulled.
NotPulled(s) ==
    /\ At(s, "wait") /\ Mine(s) /\ containers[attempt[s].name].state = "stuck"
    /\ Fails(s)
    /\ UNCHANGED <<now, pod, torn, bounds>>

\* Thirty seconds pass, the pod is not found, or the reader is gone.
GivesUp(s) ==
    /\ At(s, "wait")
    /\ Fails(s)
    /\ UNCHANGED <<now, pod, torn, bounds>>

\* The shell ends; the container stays on the pod.
ShellEnds(s) ==
    /\ At(s, "shell")
    /\ Goes(s, "over")
    /\ UNCHANGED <<now, pod, record, torn, bounds>>

-----------------------------------------------------------------------------
(* The kubelet and the world. *)

\* A container starts, is not pulled, or ends. Its status is part of the pod.
Turns(n, state) ==
    /\ n \in DOMAIN containers
    /\ <<containers[n].state, state>> \in
          {<<"starting", "running">>, <<"starting", "stuck">>, <<"stuck", "running">>,
           <<"running", "exited">>}
    /\ containers' = [containers EXCEPT ![n].state = state]
    /\ version' = version + 1
    /\ UNCHANGED <<now, attempt, record, torn, bounds>>

\* Somebody else writes to the pod.
Other ==
    /\ changes < MaxChanges /\ changes' = changes + 1
    /\ version' = version + 1
    /\ UNCHANGED <<now, containers, attempt, record, torn, faults>>

\* The pod is replaced by one of its name.
Replaced ==
    /\ changes < MaxChanges /\ changes' = changes + 1
    /\ containers' = [n \in {} |-> 0] /\ version' = version + 1
    /\ torn' = torn \cup {s \in Sessions : attempt[s].step \in {"wait", "shell"} \/
                                            record[s] = "success"}
    /\ UNCHANGED <<now, attempt, record, faults>>

Tick ==
    /\ now < MaxNow /\ now' = now + 1
    /\ UNCHANGED <<pod, attempt, record, torn, bounds>>

Next ==
    \/ \E s \in Sessions :
        \/ Start(s) \/ Get(s) \/ Update(s) \/ UpdateLost(s) \/ Denied(s) \/ NameTaken(s)
        \/ Ready(s) \/ NotPulled(s) \/ GivesUp(s) \/ ShellEnds(s)
    \/ \E n \in Names, state \in States : Turns(n, state)
    \/ Other \/ Replaced \/ Tick

Spec == Init /\ [][Next]_vars

-----------------------------------------------------------------------------
(* Properties. *)

\* The shape of the pod and of what the attempts hold.
Kinds ==
    /\ now \in Names
    /\ DOMAIN containers \subseteq Names
    /\ containers \in [DOMAIN containers -> [by : Sessions, state : States]]
    /\ version \in Nat
    /\ attempt \in [Sessions -> [step : Steps, name : {0} \cup Names, began : {0} \cup Names,
                                 list : SUBSET Names, version : Nat]]
    /\ record \in [Sessions -> {"none", "success", "error"}]
    /\ torn \subseteq Sessions

\* The shape of the state.
TypeOK == Kinds /\ changes \in 0 .. MaxChanges /\ faults \in 0 .. MaxFaults

Left(s) == \E n \in DOMAIN containers : containers[n].by = s

\* A shell is in the container its own session attached, none is lost to the
\* list another session wrote back, an attempt whose update was refused leaves
\* nothing on the pod, and a name is refused only to one of two attempts that
\* began in the same second.
ContainersAccounted ==
    /\ \A s \in Sessions \ torn :
          record[s] = "success" => Mine(s) /\ containers[attempt[s].name].by = s
    /\ \A s \in Sessions :
        /\ attempt[s].step \in {"refused", "taken"} => ~Left(s)
        /\ At(s, "taken") =>
              \E t \in Sessions \ {s} : attempt[t].began = attempt[s].began

-----------------------------------------------------------------------------
(* What makes the property inductive. *)

\* A name is the second in which its attempt began, and says whose container
\* it is.
Named ==
    /\ \A s \in Sessions : attempt[s].name = attempt[s].began
    /\ \A s \in Sessions : At(s, "none") <=> attempt[s].began = 0
    /\ \A n \in DOMAIN containers : attempt[containers[n].by].name = n

\* The list that was read is that of the pod unless its version says otherwise.
Read ==
    \A s \in Sessions : At(s, "read") =>
        /\ attempt[s].version <= version
        /\ attempt[s].version = version => attempt[s].list = DOMAIN containers

\* A container is there from its update on, until the pod goes.
Attached ==
    /\ \A s \in Sessions : Left(s) => attempt[s].step \in {"wait", "shell", "over"}
    /\ \A s \in Sessions : record[s] = "success" => attempt[s].step \in {"shell", "over"}
    /\ \A s \in Sessions \ torn :
          attempt[s].step \in {"wait", "shell"} \/ record[s] = "success" =>
             Mine(s) /\ containers[attempt[s].name].by = s

IInv == TypeOK /\ Named /\ Read /\ Attached /\ ContainersAccounted
=============================================================================
