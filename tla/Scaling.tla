------------------------------ MODULE Scaling ------------------------------
(***************************************************************************)
(* Scaling a workload and bringing it back: what it ran is written onto    *)
(* the object beside the new count, so a drill that takes workloads to     *)
(* zero can be undone (src/server/internal/cluster/operations.go,          *)
(* src/server/internal/httpapi/operation_handlers.go).  Reading the count  *)
(* and sending the patch are two calls, and others scale it in between.    *)
(***************************************************************************)
EXTENDS Integers

CONSTANTS Callers,    \* the requests of this behaviour that may run at a time
          Counts,     \* the replica counts asked for
          NoRecord,   \* no scaled-from annotation, or no count read
          MaxCalls,   \* bound: requests and changes by others
          MaxFaults   \* bound: calls that fail

CountsAssumption ==
  /\ Counts \subseteq Nat /\ 0 \in Counts /\ NoRecord \notin Counts
  /\ MaxCalls \in Nat /\ MaxFaults \in Nat

VARIABLES replicas,   \* spec.replicas
          from,       \* the kubby.io/scaled-from annotation
          call,       \* caller -> [step, to, read]
          ran,        \* history: the count it last ran that was not zero
          muddled,    \* history: a record was made of a count read too early, or not read
          calls, faults

vars == <<replicas, from, call, ran, muddled, calls, faults>>

Idle == [step |-> "idle", to |-> 0, read |-> NoRecord]

TypeOK ==
  /\ replicas \in Counts /\ ran \in Counts
  /\ from \in Counts \cup {NoRecord}
  /\ call \in [Callers -> [step : {"idle", "read", "patch", "find", "restore"},
                           to : Counts, read : Counts \cup {NoRecord}]]
  /\ muddled \in BOOLEAN
  /\ calls \in 0..MaxCalls /\ faults \in 0..MaxFaults

Init ==
  /\ replicas \in Counts \ {0}
  /\ from = NoRecord
  /\ call = [c \in Callers |-> Idle]
  /\ ran = replicas
  /\ muddled = FALSE
  /\ calls = 0 /\ faults = 0

Calls == calls < MaxCalls /\ calls' = calls + 1
Faults == faults < MaxFaults /\ faults' = faults + 1
Turns(c, next) == call' = [call EXCEPT ![c] = next]

\* The workload runs n from now on.
Runs(n) == replicas' = n /\ ran' = IF n = 0 THEN ran ELSE n

-----------------------------------------------------------------------------
\* scale, asked for a count ...
AskScale(c, n) ==
  /\ call[c] = Idle
  /\ Calls
  /\ Turns(c, [Idle EXCEPT !.step = "read", !.to = n])
  /\ UNCHANGED <<replicas, from, ran, muddled, faults>>

\* ... or to put it back.
AskRestore(c) ==
  /\ call[c] = Idle
  /\ Calls
  /\ Turns(c, [Idle EXCEPT !.step = "find"])
  /\ UNCHANGED <<replicas, from, ran, muddled, faults>>

\* currentReplicas.
Read(c) ==
  /\ call[c].step = "read"
  /\ Turns(c, [call[c] EXCEPT !.step = "patch", !.read = replicas])
  /\ UNCHANGED <<replicas, from, ran, muddled, calls, faults>>

\* A count that cannot be read stands for zero: the scale goes on.
ReadFails(c) ==
  /\ call[c].step = "read"
  /\ Faults
  /\ Turns(c, [call[c] EXCEPT !.step = "patch", !.read = 0])
  /\ UNCHANGED <<replicas, from, ran, muddled, calls>>

\* Mutant: every scale records where it came from.
Record_Always(previous) == previous

\* scalePatch: a previous count of zero records nothing.
Record(previous) == IF previous > 0 THEN previous ELSE from

Patch(c) ==
  /\ call[c].step = "patch"
  /\ from' = Record(call[c].read)
  /\ Runs(call[c].to)
  /\ muddled' = (muddled \/ call[c].read # replicas)
  /\ Turns(c, Idle)
  /\ UNCHANGED <<calls, faults>>

\* RestoreScale and recordedCount: the object is read for its record.
Find(c) ==
  /\ call[c].step = "find"
  /\ Turns(c, IF from = NoRecord THEN Idle ELSE [call[c] EXCEPT !.step = "restore", !.to = from])
  /\ UNCHANGED <<replicas, from, ran, muddled, calls, faults>>

Restore(c) ==
  /\ call[c].step = "restore"
  /\ Runs(call[c].to)
  /\ Turns(c, Idle)
  /\ UNCHANGED <<from, muddled, calls, faults>>

\* The object cannot be read or the patch is refused: nothing changes.
Fails(c) ==
  /\ call[c].step \in {"patch", "find", "restore"}
  /\ Faults
  /\ Turns(c, Idle)
  /\ UNCHANGED <<replicas, from, ran, muddled, calls>>

\* An autoscaler or another person scales it.
Other(n) ==
  /\ n # replicas
  /\ Calls
  /\ Runs(n)
  /\ muddled' = (muddled \/ n = 0)
  /\ UNCHANGED <<from, call, faults>>

Next ==
  \/ \E c \in Callers : \/ AskRestore(c) \/ Read(c) \/ ReadFails(c) \/ Patch(c)
                        \/ Find(c) \/ Restore(c) \/ Fails(c)
                        \/ \E n \in Counts : AskScale(c, n)
  \/ \E n \in Counts : Other(n)

Spec == Init /\ [][Next]_vars

-----------------------------------------------------------------------------
(* Properties. *)

\* A workload that was taken to zero from here, in one scale or in several, is
\* put back to what it ran, unless a count was read too early or not at all,
\* or somebody else took it to zero (operations.go:56-77).  A count that could
\* not be read does not only cost the record: an older one is left in place.
ComesBack == replicas = 0 /\ ~muddled => from = ran

-----------------------------------------------------------------------------
(* What makes the property inductive. *)

\* A workload that runs runs what it last ran, and a record is never of zero.
Recorded ==
  /\ replicas # 0 => ran = replicas
  /\ from # 0
  /\ \A c \in Callers : call[c].step = "restore" => call[c].to # 0
  /\ \A c \in Callers : call[c].step = "patch" => call[c].read \in Counts

IInv == TypeOK /\ Recorded /\ ComesBack
=============================================================================
