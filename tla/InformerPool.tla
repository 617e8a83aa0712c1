----------------------------- MODULE InformerPool -----------------------------
(***************************************************************************)
(* The informer caches of the connected clusters.  A list request reads    *)
(* the cluster's credential, warms the cache (the entry is published at    *)
(* once, filled and synced afterwards, without the lock) and reads it;     *)
(* replacing the credential or removing the cluster releases the entry; a  *)
(* reaper releases the idle ones in two steps, collect and release.        *)
(* (server/internal/cluster/informers.go, resources.go List and            *)
(*  ReleaseCache, server/internal/httpapi/cluster_handlers.go)             *)
(***************************************************************************)
EXTENDS Naturals, FiniteSets

CONSTANTS
    Clusters,       \* connected clusters
    Viewers,        \* list requests in flight at once
    Admins,         \* credential replacements or removals in flight at once
    MaxEntries,     \* bound on the cache entries ever made
    MaxVersion      \* bound on the credentials a cluster ever had

\* A process is what it is at one place, so the names are all different.
InformerPoolAssumption ==
    /\ MaxEntries \in Nat /\ MaxVersion \in Nat \ {0}
    /\ Viewers \cap Admins = {} /\ "reaper" \notin Viewers \cup Admins
    /\ Clusters \cap {"none", "idle", "warm", "start", "sync", "cached", "stop"} = {}

VARIABLES
    stored,     \* cluster -> version of its credential; 0 once it is removed
    caches,     \* InformerPool.caches: cluster -> entry, or 0
    made,       \* entries made so far
    entries,    \* entry -> clusterCache
    pc,         \* process -> where it is
    cluster,    \* viewer -> the cluster it lists
    version,    \* viewer -> the credential its client uses
    holding,    \* process -> the entry it warms, or is about to stop
    doomed      \* the reaper's expired ids

pool == <<caches, made, entries>>
viewers == <<cluster, version>>
vars == <<stored, pool, pc, viewers, holding, doomed>>

Ids == 1 .. MaxEntries
Reaper == "reaper"
Processes == Viewers \cup Admins \cup {Reaper}
NoCluster == "none"

\* stops counts close(entry.stop); late: its client was made before the
\* credential it uses was replaced and it was published after.
Unused == [of |-> NoCluster, version |-> 0, warming |-> FALSE, started |-> FALSE,
           synced |-> FALSE, stops |-> 0, idle |-> FALSE, late |-> FALSE]

Init ==
    /\ stored = [c \in Clusters |-> 1]
    /\ caches = [c \in Clusters |-> 0]
    /\ made = 0
    /\ entries = [e \in Ids |-> Unused]
    /\ pc = [p \in Processes |-> "idle"]
    /\ cluster = [v \in Viewers |-> NoCluster]
    /\ version = [v \in Viewers |-> 0]
    /\ holding = [p \in Processes |-> 0]
    /\ doomed = {}

Goto(p, label) == pc' = [pc EXCEPT ![p] = label]

Touch(e) == entries' = [entries EXCEPT ![e].idle = FALSE]

-----------------------------------------------------------------------------
(* A list request for a hot kind. *)

\* Mutant: a cluster that was removed is listed too.
Load_Removed(v) ==
    /\ pc[v] = "idle"
    /\ \E c \in Clusters :
          /\ cluster' = [cluster EXCEPT ![v] = c]
          /\ version' = [version EXCEPT ![v] = stored[c]]
    /\ Goto(v, "warm")
    /\ UNCHANGED <<stored, pool, holding, doomed>>

\* RESTConfigFor: the client is made with the credential stored now.
Load(v) ==
    /\ pc[v] = "idle"
    /\ \E c \in Clusters :
          /\ stored[c] # 0
          /\ cluster' = [cluster EXCEPT ![v] = c]
          /\ version' = [version EXCEPT ![v] = stored[c]]
    /\ Goto(v, "warm")
    /\ UNCHANGED <<stored, pool, holding, doomed>>

\* Warm finds an entry, warm or still warming.
WarmHit(v) ==
    LET e == caches[cluster[v]] IN
    /\ pc[v] = "warm" /\ e # 0
    /\ Touch(e)
    /\ Goto(v, "cached")
    /\ UNCHANGED <<stored, caches, made, viewers, holding, doomed>>

\* Mutant: the entry is published unlocked, over one another viewer made.
WarmMiss_Unlocked(v) ==
    LET c == cluster[v] e == made + 1 IN
    /\ pc[v] = "warm" /\ made < MaxEntries
    /\ made' = e
    /\ entries' = [entries EXCEPT ![e] =
                     [Unused EXCEPT !.of = c, !.version = version[v],
                                    !.warming = TRUE,
                                    !.late = version[v] # stored[c]]]
    /\ caches' = [caches EXCEPT ![c] = e]
    /\ holding' = [holding EXCEPT ![v] = e]
    /\ Goto(v, "start")
    /\ UNCHANGED <<stored, viewers, doomed>>

\* Warm publishes a new entry and lets go of the lock.
WarmMiss(v) ==
    LET c == cluster[v] e == made + 1 IN
    /\ pc[v] = "warm" /\ caches[c] = 0 /\ made < MaxEntries
    /\ made' = e
    /\ entries' = [entries EXCEPT ![e] =
                     [Unused EXCEPT !.of = c, !.version = version[v],
                                    !.warming = TRUE,
                                    !.late = version[v] # stored[c]]]
    /\ caches' = [caches EXCEPT ![c] = e]
    /\ holding' = [holding EXCEPT ![v] = e]
    /\ Goto(v, "start")
    /\ UNCHANGED <<stored, viewers, doomed>>

\* factory.Start(entry.stop): on an entry released meanwhile the informers
\* stop as soon as they start.
WarmStart(v) ==
    /\ pc[v] = "start"
    /\ entries' = [entries EXCEPT ![holding[v]].started = TRUE]
    /\ Goto(v, "sync")
    /\ UNCHANGED <<stored, caches, made, viewers, holding, doomed>>

\* WaitForCacheSync returns, synced or after its timeout or the client's
\* departure.
WarmEnd(v) ==
    /\ pc[v] = "sync"
    /\ entries' = [entries EXCEPT ![holding[v]].warming = FALSE]
    /\ holding' = [holding EXCEPT ![v] = 0]
    /\ Goto(v, "cached")
    /\ UNCHANGED <<stored, caches, made, viewers, doomed>>

\* Cached, and the direct list where it has nothing: the request ends.
Cached(v) ==
    LET e == caches[cluster[v]] IN
    /\ pc[v] = "cached"
    /\ IF e # 0 THEN Touch(e) ELSE UNCHANGED entries
    /\ Goto(v, "idle")
    /\ cluster' = [cluster EXCEPT ![v] = NoCluster]
    /\ version' = [version EXCEPT ![v] = 0]
    /\ UNCHANGED <<stored, caches, made, holding, doomed>>

\* The informers of an entry finish their first list, while they may run.
Running(e) == entries[e].started /\ entries[e].stops = 0

InformersSync(e) ==
    /\ Running(e) /\ ~entries[e].synced
    /\ entries' = [entries EXCEPT ![e].synced = TRUE]
    /\ UNCHANGED <<stored, caches, made, pc, viewers, holding, doomed>>

-----------------------------------------------------------------------------
(* Release, by an administrator or by the reaper. *)

\* Mutant: an entry that is still warming is left alone.
Unpublish_SkipsWarming(p, c) ==
    IF caches[c] # 0 /\ entries[caches[c]].warming
    THEN holding' = [holding EXCEPT ![p] = 0] /\ UNCHANGED caches
    ELSE /\ holding' = [holding EXCEPT ![p] = caches[c]]
         /\ caches' = [caches EXCEPT ![c] = 0]

\* Under the lock: the entry, if any, leaves the map and is p's to stop.
Unpublish(p, c) ==
    /\ holding' = [holding EXCEPT ![p] = caches[c]]
    /\ caches' = [caches EXCEPT ![c] = 0]

\* ReplaceCredential or Delete commits.
Replace(a) ==
    /\ pc[a] = "idle"
    /\ \E c \in Clusters :
          /\ stored[c] # 0
          /\ \E new \in {0, stored[c] + 1} :
                new <= MaxVersion /\ stored' = [stored EXCEPT ![c] = new]
          /\ Goto(a, c)
    /\ UNCHANGED <<pool, viewers, holding, doomed>>

\* The handler goes on to ReleaseCache: Release takes the entry.
Release(a) ==
    /\ pc[a] \in Clusters
    /\ Unpublish(a, pc[a])
    /\ Goto(a, "stop")
    /\ UNCHANGED <<stored, made, entries, viewers, doomed>>

\* close(entry.stop), without the lock.
StopEntry(p) ==
    /\ pc[p] = "stop"
    /\ entries' = IF holding[p] = 0 THEN entries
                  ELSE [entries EXCEPT ![holding[p]].stops = @ + 1]
    /\ holding' = [holding EXCEPT ![p] = 0]
    /\ Goto(p, "idle")
    /\ UNCHANGED <<stored, caches, made, viewers, doomed>>

\* Mutant: only entries whose informers have synced expire.
ReapTick_OnlySynced ==
    /\ pc[Reaper] = "idle" /\ doomed = {}
    /\ doomed' = {c \in Clusters : /\ caches[c] # 0
                                   /\ entries[caches[c]].idle
                                   /\ entries[caches[c]].synced}
    /\ doomed' # {}
    /\ UNCHANGED <<stored, pool, pc, viewers, holding>>

\* The reaper collects under the lock what nobody used since the cutoff.
ReapTick ==
    /\ pc[Reaper] = "idle" /\ doomed = {}
    /\ doomed' = {c \in Clusters : caches[c] # 0 /\ entries[caches[c]].idle}
    /\ doomed' # {}
    /\ UNCHANGED <<stored, pool, pc, viewers, holding>>

\* It releases them by id, whatever became of them since.
ReapRelease ==
    /\ pc[Reaper] = "idle"
    /\ \E c \in doomed :
          /\ doomed' = doomed \ {c}
          /\ Unpublish(Reaper, c)
    /\ Goto(Reaper, "stop")
    /\ UNCHANGED <<stored, made, entries, viewers>>

\* idleTTL passes for an entry that is published.
Age(c) ==
    /\ caches[c] # 0 /\ ~entries[caches[c]].idle
    /\ entries' = [entries EXCEPT ![caches[c]].idle = TRUE]
    /\ UNCHANGED <<stored, caches, made, pc, viewers, holding, doomed>>

Viewer(v) == \/ Load(v) \/ WarmHit(v) \/ WarmMiss(v) \/ WarmStart(v)
             \/ WarmEnd(v) \/ Cached(v)

Next ==
    \/ \E v \in Viewers : Viewer(v)
    \/ \E a \in Admins : Replace(a) \/ Release(a)
    \/ \E p \in Admins \cup {Reaper} : StopEntry(p)
    \/ \E e \in Ids : InformersSync(e)
    \/ \E c \in Clusters : Age(c)
    \/ ReapTick \/ ReapRelease

\* A handler that has begun runs on, whether or not its client stays, and the
\* reaper's ticker keeps ticking.
Fairness ==
    /\ \A v \in Viewers : WF_vars(WarmStart(v)) /\ WF_vars(WarmEnd(v))
    /\ \A a \in Admins : WF_vars(Release(a))
    /\ \A p \in Admins \cup {Reaper} : WF_vars(StopEntry(p))
    /\ WF_vars(ReapTick) /\ WF_vars(ReapRelease)

Spec == Init /\ [][Next]_vars /\ Fairness

-----------------------------------------------------------------------------
(* Properties. *)

Entry == [of : Clusters \cup {NoCluster}, version : 0 .. MaxVersion, warming : BOOLEAN,
          started : BOOLEAN, synced : BOOLEAN, stops : {0, 1}, idle : BOOLEAN,
          late : BOOLEAN]

\* Shape of the state; an entry on the map belongs to its cluster, and a
\* request works with a credential that was stored.
TypeOK ==
    /\ stored \in [Clusters -> 0 .. MaxVersion]
    /\ caches \in [Clusters -> 0 .. made]
    /\ made \in 0 .. MaxEntries
    /\ entries \in [Ids -> Entry]
    /\ pc \in [Processes -> {"idle", "warm", "start", "sync", "cached", "stop"}
                                \cup Clusters]
    /\ cluster \in [Viewers -> Clusters \cup {NoCluster}]
    /\ version \in [Viewers -> 0 .. MaxVersion]
    /\ holding \in [Processes -> 0 .. made]
    /\ doomed \subseteq Clusters
    /\ \A c \in Clusters : caches[c] # 0 => entries[caches[c]].of = c
    /\ \A v \in Viewers : version[v] = 0 <=> pc[v] = "idle"

\* Process p is the one that will stop entry e.
WillStop(p, e) == pc[p] = "stop" /\ holding[p] = e

\* No entry watches on unseen, and none is stopped twice (closing its channel
\* again would panic): an entry that was made is on the map, or on its way to
\* its one stop, or stopped, and only one of the three.
EveryEntryAccounted ==
    \A e \in 1 .. made :
        LET mapped == caches[entries[e].of] = e
            stoppers == {p \in Processes : WillStop(p, e)}
        IN  entries[e].stops + Cardinality(stoppers) + (IF mapped THEN 1 ELSE 0) = 1

\* A replacement or removal of cluster c has committed and not released yet.
ReleasePending(c) == \E a \in Admins : pc[a] = c

\* An entry that watches with a replaced credential goes with the release
\* that follows, unless its client was made before the replacement and it was
\* published after.
OldCredentialGoes ==
    \A c \in Clusters :
        caches[c] # 0 /\ entries[caches[c]].version # stored[c] =>
            ReleasePending(c) \/ entries[caches[c]].late

\* An idle entry is used again or released, and what is released is stopped:
\* no entry stays idle and running.
LetGo(e) == entries[e].stops = 1 \/ ~entries[e].idle

IdleIsReleased == \A e \in Ids : []<>LetGo(e)

\* What Release's comment says: no client keeps watching with a credential
\* that is gone.
NoneWatchesWithOldCredential ==
    \A c \in Clusters :
        caches[c] # 0 /\ entries[caches[c]].version # stored[c] => ReleasePending(c)

-----------------------------------------------------------------------------
(* What makes the invariants inductive. *)

\* Every process is where its handler can be: a viewer past its first statement
\* lists a connected cluster and, between publishing and the end of the sync,
\* warms an entry; only an administrator and the reaper stop entries.
Stations ==
    /\ \A v \in Viewers : /\ pc[v] \in {"idle", "warm", "start", "sync", "cached"}
                          /\ pc[v] # "idle" => cluster[v] \in Clusters
                          /\ pc[v] \in {"start", "sync"} => holding[v] # 0
    /\ \A a \in Admins : pc[a] \in {"idle", "stop"} \cup Clusters
    /\ pc[Reaper] \in {"idle", "stop"}

\* An entry that was not made yet is nobody's; the three places of one that was
\* exclude each other, and its stopper is alone.
Mapped(e) == caches[entries[e].of] = e

Places ==
    /\ \A e \in Ids : e > made => entries[e] = Unused
    /\ \A e \in 1 .. made :
          /\ entries[e].of \in Clusters
          /\ \A p \in Processes : WillStop(p, e) =>
                /\ entries[e].stops = 0 /\ ~Mapped(e)
                /\ \A q \in Processes : WillStop(q, e) => q = p
          /\ Mapped(e) => entries[e].stops = 0
          /\ entries[e].stops = 0 /\ ~Mapped(e) => \E p \in Processes : WillStop(p, e)

IInv == TypeOK /\ Stations /\ Places /\ OldCredentialGoes
=============================================================================
