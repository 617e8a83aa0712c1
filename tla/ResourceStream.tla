---------------------------- MODULE ResourceStream ----------------------------
(***************************************************************************)
(* A table of the browser kept current: a list is asked for and polled,    *)
(* beside it a server-sent stream carries what the cluster's watch reports *)
(* and the browser patches its rows with it.  After a gap in the watch the *)
(* server sends a reset, and the browser lists again.                      *)
(* One object stands for each namespace; its version tells its contents.   *)
(* (server/internal/cluster/watch.go, resources.go,                        *)
(*  server/internal/httpapi/stream_handlers.go, resource_handlers.go,      *)
(*  web/src/lib/resource-stream.ts, use-resource-stream.ts)                *)
(***************************************************************************)
EXTENDS Naturals, Sequences, FiniteSets, Functions

CONSTANTS
    Namespaces,
    Selections,  \* the choices of namespaces a reader makes, {} for all
    Buffer,      \* watchBuffer, the capacity of the channel of changes
    MaxChanges,  \* bound on the changes of the cluster
    MaxFaults    \* bound on failed lists, lost watches and dropped connections

StreamAssumption ==
    /\ IsFiniteSet(Namespaces) /\ Selections \subseteq SUBSET Namespaces
    /\ Buffer \in Nat /\ MaxChanges \in Nat \ {0} /\ MaxFaults \in Nat

VARIABLES
    selection,   \* the namespaces the reader chose, {} for all
    objects,     \* namespace -> version of its object in the cluster, 0 if absent
    changes,     \* changes of the cluster so far
    hot,         \* the kind is served by the informers
    warm,        \* ... which have synced
    cache,       \* what the informers hold
    watch,       \* the goroutine of Watch: "off", "starting", "open",
                 \* "interrupted", "lost" (it owes a reset) or "sleeping"
    events,      \* watch events on their way from the cluster
    out,         \* the channel of changes, up to the browser
    list,        \* the browser's list request: "idle", "sent" or "answered"
    answer,      \* the answer on its way
    rows,        \* the rows of the query cache, 0 where there is none
    loaded,      \* the query cache holds a list
    faults       \* faults so far

cluster == <<objects, changes, hot>>
informers == <<warm, cache>>
stream == <<watch, events, out>>
request == <<list, answer>>
table == <<rows, loaded>>
vars == <<selection, cluster, informers, stream, request, table, faults>>

None == [n \in Namespaces |-> 0]

\* What the reader asked to see.
Shown == IF selection = {} THEN Namespaces ELSE selection
Wanted == [n \in Namespaces |-> IF n \in Shown THEN objects[n] ELSE 0]

\* What the cluster is asked to watch: one namespace, or all of them.
Scope == IF Cardinality(selection) = 1 THEN selection ELSE Namespaces

Change(type, n, version) == [type |-> type, ns |-> n, version |-> version]
Reset == [type |-> "reset"]

Init ==
    /\ selection \in Selections
    /\ objects \in [Namespaces -> {0, 1}]
    /\ changes = 1
    /\ hot \in BOOLEAN
    /\ warm = FALSE /\ cache = None
    /\ watch = "off" /\ events = <<>> /\ out = <<>>
    /\ list = "sent" /\ answer = None
    /\ rows = None /\ loaded = FALSE
    /\ faults = 0

Fault == faults < MaxFaults /\ faults' = faults + 1

-----------------------------------------------------------------------------
(* The cluster. *)

\* An open watch over n hears of a change.
Report(n, type) ==
    events' = IF watch = "open" /\ n \in Scope
                  THEN Append(events, Change(type, n, objects'[n])) ELSE events

Alter(n, version, type) ==
    /\ changes < MaxChanges
    /\ changes' = changes + 1
    /\ objects' = [objects EXCEPT ![n] = version]
    /\ Report(n, type)
    /\ UNCHANGED <<selection, hot, informers, watch, out>>
    /\ UNCHANGED <<request, table, faults>>

Write(n) ==
    Alter(n, changes + 1, IF objects[n] = 0 THEN "added" ELSE "modified")

Delete(n) == objects[n] # 0 /\ Alter(n, 0, "deleted")

\* The informers follow at their own pace.
CacheFollows ==
    /\ hot /\ (~warm \/ cache # objects)
    /\ warm' = TRUE /\ cache' = objects
    /\ UNCHANGED <<selection, cluster, stream, request, table, faults>>

-----------------------------------------------------------------------------
(* The list. *)

\* Mutant: the rows of other namespaces are left in.
Finish_All(from) == from

\* finishList keeps the rows of the namespaces that were asked for.
Finish(from) == [n \in Namespaces |-> IF n \in Shown THEN from[n] ELSE 0]

\* List: from the informers once they are warm, from the API server otherwise.
ListRead ==
    /\ list = "sent"
    /\ list' = "answered"
    /\ answer' = Finish(IF hot /\ warm THEN cache ELSE objects)
    /\ UNCHANGED <<selection, cluster, informers, stream, table, faults>>

ListFails ==
    /\ list = "sent" /\ Fault
    /\ list' = "idle"
    /\ UNCHANGED <<selection, cluster, informers, stream, answer, table>>

\* The answer replaces the rows, whatever the stream has done to them.
ListArrives ==
    /\ list = "answered"
    /\ rows' = answer /\ loaded' = TRUE
    /\ list' = "idle" /\ answer' = None
    /\ UNCHANGED <<selection, cluster, informers, stream, faults>>

\* Mutant: the poll is left to tables without a stream.
Poll_OnlyWithoutStream ==
    /\ list = "idle" /\ watch = "off"
    /\ list' = "sent"
    /\ UNCHANGED <<selection, cluster, informers, stream, answer, table, faults>>

\* refetchInterval.
Poll ==
    /\ list = "idle"
    /\ list' = "sent"
    /\ UNCHANGED <<selection, cluster, informers, stream, answer, table, faults>>

\* invalidateQueries drops the request in flight and asks again.
Relist == list' = "sent" /\ answer' = None

-----------------------------------------------------------------------------
(* The stream. *)

\* EventSource connects, or reconnects: streamResources starts a Watch.
Connect ==
    /\ watch = "off"
    /\ watch' = "starting"
    /\ UNCHANGED <<selection, cluster, informers, events, out>>
    /\ UNCHANGED <<request, table, faults>>

\* The connection drops: the request's context ends the goroutine, and the
\* browser's onerror lists again.
Drop ==
    /\ watch # "off" /\ Fault
    /\ watch' = "off" /\ events' = <<>> /\ out' = <<>>
    /\ Relist
    /\ UNCHANGED <<selection, cluster, informers, table>>

\* A watch that names no version is answered with every object there is, in any
\* order.
WatchStarts ==
    /\ watch = "starting"
    /\ watch' = "open"
    /\ LET all == {Change("added", n, objects[n]) : n \in {m \in Scope : objects[m] # 0}}
       IN  events' \in Bijection(1..Cardinality(all), all)
    /\ UNCHANGED <<selection, cluster, informers, out, request, table, faults>>

WatchRefused ==
    /\ watch = "starting" /\ Fault
    /\ watch' = "lost"
    /\ UNCHANGED <<selection, cluster, informers, events, out, request, table>>

\* The watch ends, in silence or with a Status that drain passes on as a
\* reset of its own.
WatchEnds ==
    /\ watch = "open" /\ Fault
    /\ watch' \in {"lost", "interrupted"}
    /\ events' = <<>>
    /\ UNCHANGED <<selection, cluster, informers, out, request, table>>

\* Mutant: a slow reader is sent changes all the same.
Send_Unbounded(change) == out' = Append(out, change)

Send(change) == Len(out) < Buffer /\ out' = Append(out, change)

\* drain sends the change it received.
Forward ==
    /\ watch = "open" /\ events # <<>>
    /\ Send(Head(events)) /\ events' = Tail(events)
    /\ UNCHANGED <<selection, cluster, informers, watch, request, table, faults>>

TellReset ==
    /\ watch \in {"interrupted", "lost"}
    /\ Send(Reset)
    /\ watch' = IF watch = "interrupted" THEN "lost" ELSE "sleeping"
    /\ UNCHANGED <<selection, cluster, informers, events, request, table, faults>>

\* watchRetryDelay has passed.
Retry ==
    /\ watch = "sleeping"
    /\ watch' = "starting"
    /\ UNCHANGED <<selection, cluster, informers, events, out>>
    /\ UNCHANGED <<request, table, faults>>

\* matchesNamespaces
Matches(change) == Cardinality(selection) <= 1 \/ change.ns \in selection

\* applyChange, on a list that is there.
Apply(change) ==
    rows' = IF loaded THEN [rows EXCEPT ![change.ns] = change.version] ELSE rows

\* streamResources writes the next change and the browser acts on it.
Deliver ==
    /\ out # <<>>
    /\ out' = Tail(out)
    /\ \/ Head(out) = Reset /\ Relist /\ UNCHANGED rows
       \/ /\ Head(out) # Reset /\ Matches(Head(out))
          /\ Apply(Head(out)) /\ UNCHANGED <<request>>
       \/ /\ Head(out) # Reset /\ ~Matches(Head(out))
          /\ UNCHANGED <<rows, request>>
    /\ UNCHANGED <<selection, cluster, informers, watch, events, loaded, faults>>

Next ==
    \/ \E n \in Namespaces : Write(n) \/ Delete(n)
    \/ CacheFollows
    \/ ListRead \/ ListFails \/ ListArrives \/ Poll
    \/ Connect \/ Drop \/ WatchStarts \/ WatchRefused \/ WatchEnds
    \/ Forward \/ TellReset \/ Retry \/ Deliver

\* The server's goroutines run, the browser's timers fire, the network
\* carries what is sent; the cluster and the faults owe nothing.
Fairness ==
    /\ WF_vars(CacheFollows)
    /\ WF_vars(ListRead) /\ WF_vars(ListArrives) /\ WF_vars(Poll)
    /\ WF_vars(Connect) /\ WF_vars(WatchStarts)
    /\ WF_vars(Forward) /\ WF_vars(TellReset) /\ WF_vars(Retry) /\ WF_vars(Deliver)

Spec == Init /\ [][Next]_vars /\ Fairness

-----------------------------------------------------------------------------
(* Properties. *)

Versions == [Namespaces -> 0 .. MaxChanges]
Changes == [type : {"added", "modified", "deleted"}, ns : Namespaces,
            version : 0 .. MaxChanges] \cup {Reset}

\* The shape of the state; the channel never exceeds its capacity.
TypeOK ==
    /\ selection \in Selections
    /\ objects \in Versions /\ changes \in 1 .. MaxChanges
    /\ hot \in BOOLEAN /\ warm \in BOOLEAN /\ cache \in Versions
    /\ watch \in {"off", "starting", "open", "interrupted", "lost", "sleeping"}
    /\ events \in Seq(Changes \ {Reset})
    /\ out \in Seq(Changes) /\ Len(out) <= Buffer
    /\ list \in {"idle", "sent", "answered"} /\ answer \in Versions
    /\ rows \in Versions /\ loaded \in BOOLEAN
    /\ faults \in 0 .. MaxFaults

\* Whatever was lost, reordered or patched across a gap, once the cluster
\* rests the table shows what the cluster holds in the namespaces the reader
\* chose, and goes on showing it: the poll is the floor under the stream.
Current == loaded /\ rows = Wanted

Converges == <>[]Current

\* The table is current, and whatever is on its way to it says the same.
Settled ==
    /\ Current
    /\ list = "answered" => answer = Wanted
    /\ hot /\ warm => cache = objects
    /\ \A i \in DOMAIN events : events[i].version = objects[events[i].ns]
    /\ \A i \in DOMAIN out : out[i] # Reset => out[i].version = objects[out[i].ns]

\* Only a change of the cluster makes a settled table wrong: no poll, patch,
\* reset or reconnect, and no list, watch or connection that fails.
StaysSettled == Settled /\ UNCHANGED objects => Settled'

-----------------------------------------------------------------------------
(* What is kept. *)

\* A change that reaches the browser is one of the scope that was asked for.
InScope ==
    /\ \A i \in DOMAIN events : events[i].ns \in Scope
    /\ \A i \in DOMAIN out : out[i] # Reset => out[i].ns \in Scope

IInv == TypeOK /\ InScope
=============================================================================
