------------------------------ MODULE NodeShells ------------------------------
(***************************************************************************)
(* Node shells: a session creates a privileged pod in the namespace the    *)
(* settings name, waits for it, runs a shell in it and deletes it.  What a *)
(* crash, a lost answer or a refused delete leaves behind is the sweeper's *)
(* to delete once it is old.                                               *)
(* (server/internal/cluster/nodeshell.go, sweeper.go,                      *)
(*  server/internal/httpapi/exec_handlers.go)                              *)
(***************************************************************************)
EXTENDS Naturals, FiniteSets

CONSTANTS
    Shells,      \* sessions ever asked for; each names its pod by a new id
    Places,      \* namespaces an admin may choose for the pods
    Nowhere,     \* stands for no namespace read
    MaxFaults,   \* bound on crashes, lost answers and failed calls
    MaxMoves     \* bound on changes of the settings

NowhereAssumption ==
    Nowhere \notin Places /\ MaxFaults \in Nat /\ MaxMoves \in Nat

VARIABLES
    enabled, place,  \* the settings: node shells allowed, and their namespace
    phase,       \* session -> "none", "create", "wait", "undo", "open",
                 \* "stop" or "over"
    where,       \* session -> the namespace it read
    pod,         \* session -> its pod: "none", "young" or "old"
    sweep,       \* the sweeper: "idle", "list" or "delete"
    swept,       \* the namespace the sweep read
    doomed,      \* the sessions whose pods are left to delete in this sweep
    slipped,     \* history: sessions hit by a fault
    faults, moves

settings == <<enabled, place, moves>>
sessions == <<phase, where, pod>>
sweeper == <<sweep, swept, doomed>>
vars == <<settings, sessions, sweeper, slipped, faults>>

Init ==
    /\ enabled = TRUE /\ place \in Places /\ moves = 0
    /\ phase = [s \in Shells |-> "none"]
    /\ where = [s \in Shells |-> Nowhere]
    /\ pod = [s \in Shells |-> "none"]
    /\ sweep = "idle" /\ swept = Nowhere /\ doomed = {}
    /\ slipped = {} /\ faults = 0

Moves(s, from, to) == phase[s] = from /\ phase' = [phase EXCEPT ![s] = to]

\* A call of session s fails, or its answer is lost.
Fault(s) ==
    /\ faults < MaxFaults
    /\ faults' = faults + 1
    /\ slipped' = slipped \cup {s}

NoFault == UNCHANGED <<slipped, faults>>

-----------------------------------------------------------------------------
(* A session. *)

\* nodeShell is authorised and reads the settings.
Ask(s) ==
    /\ enabled
    /\ Moves(s, "none", "create")
    /\ where' = [where EXCEPT ![s] = place]
    /\ UNCHANGED <<settings, pod, sweeper>> /\ NoFault

Create(s) ==
    /\ Moves(s, "create", "wait")
    /\ pod' = [pod EXCEPT ![s] = "young"]
    /\ UNCHANGED <<settings, where, sweeper>> /\ NoFault

\* The cluster refuses the pod.
CreateRefused(s) ==
    /\ Moves(s, "create", "over")
    /\ UNCHANGED <<settings, where, pod, sweeper>> /\ NoFault

\* The cluster made the pod, the answer is lost: the session ends in error.
CreateLost(s) ==
    /\ Moves(s, "create", "over") /\ Fault(s)
    /\ pod' = [pod EXCEPT ![s] = "young"]
    /\ UNCHANGED <<settings, where, sweeper>>

\* waitForShell sees the container running.
Started(s) ==
    /\ Moves(s, "wait", "open") /\ pod[s] # "none"
    /\ UNCHANGED <<settings, where, pod, sweeper>> /\ NoFault

\* Mutant: a pod that never started is left behind.
NeverStarts_Left(s) ==
    /\ Moves(s, "wait", "over")
    /\ UNCHANGED <<settings, where, pod, sweeper>> /\ NoFault

\* waitForShell gives up: it never will run, the wait is over, the reader is
\* gone, or the pod is.
NeverStarts(s) ==
    /\ Moves(s, "wait", "undo")
    /\ UNCHANGED <<settings, where, pod, sweeper>> /\ NoFault

\* runShell returns: the shell exits, the reader leaves or the pod is gone.
Ends(s) ==
    /\ Moves(s, "open", "stop")
    /\ UNCHANGED <<settings, where, pod, sweeper>> /\ NoFault

\* The pod is deleted, by the failed start or by the deferred
\* StopNodeShell; neither is cut short by the request's end.
Delete(s) ==
    /\ Moves(s, "undo", "over") \/ Moves(s, "stop", "over")
    /\ pod' = [pod EXCEPT ![s] = "none"]
    /\ UNCHANGED <<settings, where, sweeper>> /\ NoFault

DeleteFails(s) ==
    /\ Moves(s, "undo", "over") \/ Moves(s, "stop", "over")
    /\ Fault(s)
    /\ UNCHANGED <<settings, where, pod, sweeper>>

-----------------------------------------------------------------------------
(* The sweeper. *)

\* A tick: the namespace of the moment is read, whether or not node shells
\* are still allowed.
SweepTick ==
    /\ sweep = "idle"
    /\ sweep' = "list" /\ swept' = place
    /\ UNCHANGED <<settings, sessions, doomed>> /\ NoFault

\* Mutant: the age of a pod is not looked at.
Abandoned_AnyAge(s) == pod[s] # "none"

\* Created before the cutoff.
Abandoned(s) == pod[s] = "old"

\* The pods with the label in that namespace.
SweepList ==
    /\ sweep = "list"
    /\ sweep' = "delete"
    /\ doomed' = {s \in Shells : where[s] = swept /\ Abandoned(s)}
    /\ UNCHANGED <<settings, sessions, swept>> /\ NoFault

SweepDelete(s) ==
    /\ sweep = "delete" /\ s \in doomed
    /\ doomed' = doomed \ {s}
    /\ pod' = [pod EXCEPT ![s] = "none"]
    /\ UNCHANGED <<settings, phase, where, sweep, swept>> /\ NoFault

\* The delete fails and the next pod is taken up.
SweepDeleteFails(s) ==
    /\ sweep = "delete" /\ s \in doomed
    /\ faults < MaxFaults /\ faults' = faults + 1
    /\ doomed' = doomed \ {s}
    /\ UNCHANGED <<settings, sessions, sweep, swept, slipped>>

SweepEnds ==
    /\ sweep = "delete" /\ doomed = {}
    /\ sweep' = "idle" /\ swept' = Nowhere
    /\ UNCHANGED <<settings, sessions, doomed>> /\ NoFault

-----------------------------------------------------------------------------
(* The world. *)

\* The pod's age passes maxAge.
Age(s) ==
    /\ pod[s] = "young"
    /\ pod' = [pod EXCEPT ![s] = "old"]
    /\ UNCHANGED <<settings, phase, where, sweeper>> /\ NoFault

\* SaveNodeShell: there is always a namespace.
Save ==
    /\ moves < MaxMoves /\ moves' = moves + 1
    /\ enabled' \in BOOLEAN /\ place' \in Places
    /\ UNCHANGED <<sessions, sweeper>> /\ NoFault

\* The process dies and is started again: sessions and sweep are gone.
Busy == {s \in Shells : phase[s] \notin {"none", "over"}}
Crash ==
    /\ faults < MaxFaults /\ faults' = faults + 1
    /\ slipped' = slipped \cup Busy
    /\ phase' = [s \in Shells |-> IF s \in Busy THEN "over" ELSE phase[s]]
    /\ sweep' = "idle" /\ swept' = Nowhere /\ doomed' = {}
    /\ UNCHANGED <<settings, where, pod>>

Next ==
    \/ \E s \in Shells :
        \/ Ask(s) \/ Create(s) \/ CreateRefused(s) \/ CreateLost(s)
        \/ Started(s) \/ NeverStarts(s) \/ Ends(s)
        \/ Delete(s) \/ DeleteFails(s)
        \/ SweepDelete(s) \/ SweepDeleteFails(s) \/ Age(s)
    \/ SweepTick \/ SweepList \/ SweepEnds
    \/ Save \/ Crash

\* Time passes, the ticker fires and the goroutines run; readers, admins
\* and faults owe nothing.
Fairness ==
    /\ WF_vars(SweepTick) /\ WF_vars(SweepList) /\ WF_vars(SweepEnds)
    /\ \A s \in Shells :
        /\ WF_vars(Age(s))
        /\ WF_vars(SweepDelete(s) \/ SweepDeleteFails(s))
        /\ WF_vars(Create(s) \/ CreateRefused(s)) /\ WF_vars(NeverStarts(s) \/ Started(s))
        /\ WF_vars(Delete(s) \/ DeleteFails(s))

Spec == Init /\ [][Next]_vars /\ Fairness

-----------------------------------------------------------------------------
(* Properties. *)

\* The shape of the state.
TypeOK ==
    /\ enabled \in BOOLEAN /\ place \in Places
    /\ phase \in [Shells -> {"none", "create", "wait", "undo", "open", "stop", "over"}]
    /\ where \in [Shells -> Places \cup {Nowhere}]
    /\ pod \in [Shells -> {"none", "young", "old"}]
    /\ sweep \in {"idle", "list", "delete"} /\ swept \in Places \cup {Nowhere}
    /\ doomed \subseteq Shells /\ slipped \subseteq Shells
    /\ faults \in 0 .. MaxFaults /\ moves \in 0 .. MaxMoves

\* A privileged pod outlives its session only where a call of that session
\* failed or the process died under it; and the sweeper takes none that is
\* not old.
PodsAccounted ==
    /\ \A s \in Shells : phase[s] = "over" /\ pod[s] # "none" => s \in slipped
    /\ \A s \in doomed : pod[s] # "young"

\* ... and then the sweeper deletes it for good, unless the namespace of the
\* settings has moved away from it.
NoneLeft == \A s \in Shells : phase[s] = "over" /\ pod[s] # "none" => place # where[s]

AbandonedShellsGo == <>[]NoneLeft

-----------------------------------------------------------------------------
(* What makes the property inductive. *)

\* A session that has created no pod has none, and the sweep has none to delete.
Uncreated ==
    \A s \in Shells : phase[s] \in {"none", "create"} => pod[s] = "none" /\ s \notin doomed

IInv == TypeOK /\ Uncreated /\ PodsAccounted
=============================================================================
