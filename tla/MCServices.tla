------------------------------ MODULE MCServices ------------------------------
(***************************************************************************)
(* The services behind the requests, checked side by side. `part` says     *)
(* which of them moves; the others do not exist in that behaviour, and     *)
(* fairness is owed by the part that moves. Since only one of them has a   *)
(* state at a time they share the variables s1 .. s14, each part using as  *)
(* many as it has; an unused one is 0. The rate limit, which has theorems  *)
(* about its own variables, keeps them.                                    *)
(***************************************************************************)
EXTENDS RateLimit, TLC

CONSTANTS
    Nothing,                                     \* no row, record, version or place
    Shells, Places, ShellFaults, ShellMoves,     \* node shells
    Attempts, MaxNow, PodChanges, LostAnswers,   \* debug containers
    Commands, MaxFrames, MaxBytes,               \* a terminal
    MaxTyped, TranscriptLimit,                   \* an exec session
    Pastes, Servers, Blocked, Unresolved, NoName, RowChanges, RowFaults,  \* a cluster's row
    Requests, Objects, MaxWrites, GateChanges,   \* applies
    Callers, Counts, MaxCalls, ScaleFaults,      \* scales
    Movable, Daemons, DrainFaults, DrainChanges, \* drains
    Fields, Values, Stamp, Hash, MaxRevision,    \* rollouts
    Searched, AskedKinds, HotKinds, Lists, PerKind, MaxHits,   \* searches
    Judged,                                      \* the pods that are judged
    Spaces, Picks, TableBuffer, TableChanges, TableFaults,     \* a table
    Logged, LogStores, LogChanges, LogFaults,    \* the logs of the clusters
    Panels, PromServers, PromServices, FoundTTL, EmptyTTL, PanelChanges,  \* metrics
    Carded, Pages, FleetDetectors, CardTTL, CardChanges, \* the fleet
    LogPods, PodLogs, StoredRules, PodParents,   \* what the logs say
    Overviewed, PodContainers, PodItself, LostQueries    \* overviews

VARIABLES part, s1, s2, s3, s4, s5, s6, s7, s8, s9, s10, s11, s12, s13, s14

After13 == s14
After12 == <<s13, After13>>
After11 == <<s12, After12>>
After10 == <<s11, After11>>
After9 == <<s10, After10>>
After8 == <<s9, After9>>
After7 == <<s8, After8>>
After5 == <<s6, s7, After7>>
After4 == <<s5, After5>>
After2 == <<s3, s4, After4>>
Slots == <<s1, s2, After2>>

all == <<part, vars, Slots>>

-----------------------------------------------------------------------------
(* The clients of the rate limit: what they forge and how they come. *)

ASSUME MCLimit == LimitAssumption

Claims(first, rest, real) == [first |-> first, rest |-> rest, real |-> real]
MCForged ==
    {Claims(<<>>, <<>>, "g"), Claims(<<>>, <<>>, "b"), Claims(<<"b", "g">>, <<>>, "g"),
     Claims(<<"g">>, <<"b">>, "b")}
MCRoutes == {<<>>, <<"p">>, <<"p", "p">>}

(* A resource table of a reader, over two namespaces. *)

MCPicks == {{}, {"n1"}}

Stream == INSTANCE ResourceStream WITH
    Namespaces <- Spaces, Selections <- Picks,
    Buffer <- TableBuffer, MaxChanges <- TableChanges, MaxFaults <- TableFaults,
    selection <- s1, objects <- s2, changes <- s3, hot <- s4, warm <- s5,
    cache <- s6, watch <- s7, events <- s8, out <- s9, list <- s10,
    answer <- s11, rows <- s12, loaded <- s13, faults <- s14

ASSUME MCStream == Stream!StreamAssumption

(* Two shells on nodes, in a namespace that an admin may move once. *)

NodeShell == INSTANCE NodeShells WITH
    Nowhere <- Nothing, MaxFaults <- ShellFaults, MaxMoves <- ShellMoves,
    enabled <- s1, place <- s2, phase <- s3, where <- s4, pod <- s5, sweep <- s6,
    swept <- s7, doomed <- s8, slipped <- s9, faults <- s10, moves <- s11

ASSUME MCNodeShells == NodeShell!NowhereAssumption

(* Two debug containers on one pod, attached within two seconds. *)

Debug == INSTANCE DebugContainers WITH
    Sessions <- Attempts, MaxChanges <- PodChanges, MaxFaults <- LostAnswers,
    now <- s1, containers <- s2, version <- s3, attempt <- s4, record <- s5,
    torn <- s6, changes <- s7, faults <- s8

ASSUME MCClock == Debug!ClockAssumption

(* A terminal: a command that reads, one that writes with the verb behind a
   word that could be one, and the builtin. *)

MCCommands ==
    {[tool |-> "kubectl", words |-> <<"get">>],
     [tool |-> "kubectl", words |-> <<"payments", "delete">>],
     [tool |-> "help", words |-> <<>>]}

Term == INSTANCE Terminal WITH
    Empty <- Nothing,
    conn <- s1, frames <- s2, sent <- s3, loop <- s4, mayWrite <- s5, line <- s6,
    history <- s7, browsing <- s8, proc <- s9, cancelled <- s10, uploaded <- s11,
    credential <- s12, trail <- s13

ASSUME MCTerminal == Term!TerminalAssumption

Exec == INSTANCE PodShell WITH
    MaxSent <- MaxTyped, Limit <- TranscriptLimit,
    socket <- s1, frames <- s2, lastId <- s3, reader <- s4, held <- s5, copier <- s6,
    handler <- s7, cancelled <- s8, typed <- s9, truncated <- s10, received <- s11,
    transcript <- s12

ASSUME MCExec == Exec!ShellAssumption

(* One cluster whose logs are in one store or the other. *)

LogSweep == INSTANCE LogSweeper WITH
    Clusters <- Logged, Sources <- LogStores, None <- Nothing,
    MaxChanges <- LogChanges, MaxFaults <- LogFaults,
    source <- s1, secret <- s2, up <- s3, rules <- s4, sweep <- s5, results <- s6,
    edit <- s7, changes <- s8, faults <- s9

ASSUME MCSweep == LogSweep!SweepAssumption

(* Three names of pods, of one namespace or of two, which share a parent or do
   not.  Under one name two pods may have written. *)

Line(slice, kind, ns) == [slice |-> slice, kind |-> kind, ns |-> ns]
Rule(name, matches, disabled) == [name |-> name, matches |-> matches, disabled |-> disabled]
Both == {"named", "other"}

MCLogs ==
    {<<>>, <<Line(1, "named", "n2"), Line(2, "named", "n2")>>,
     <<Line(1, "other", "n1"), Line(1, "other", "n1"), Line(1, "named", "n2")>>,
     <<Line(0, "named", "n1"), Line(1, "other", "n1"), Line(2, "other", "n1"), Line(3, "other", "n1")>>}
MCStored ==
    {<<>>, <<Rule("net", Both, FALSE), Rule("named", {"named"}, FALSE)>>,
     <<Rule("named", {"named"}, FALSE), Rule("net", {"other"}, TRUE)>>,
     <<Rule("named", {"named"}, TRUE)>>}
MCParents ==
    {[x \in Spaces \X LogPods |-> "rs"],
     [x \in Spaces \X LogPods |-> CASE x[2] = 1 -> "job" [] x = <<"n1", 2>> -> "none" [] OTHER -> "rs"]}

Findings == INSTANCE LogFindings WITH
    Pods <- LogPods, Spaces <- Spaces, Logs <- PodLogs, Stored <- StoredRules, Parents <- PodParents,
    input <- s1, answer <- s2

ASSUME MCFindings == Findings!FindingsAssumption

(* A cluster's row: a kubeconfig with one context, one with two whose first is
   at a refused address, and one that runs a program. *)

MCPastes ==
    {[exec |-> FALSE, current |-> "a", contexts |-> "a" :> "s1" @@ "b" :> "s2"],
     [exec |-> FALSE, current |-> "a", contexts |-> "a" :> "blocked" @@ "b" :> "unresolved"],
     [exec |-> TRUE, current |-> "a", contexts |-> "a" :> "s1"]}

Register == INSTANCE Registration WITH
    NoRow <- Nothing, MaxChanges <- RowChanges, MaxFaults <- RowFaults,
    row <- s1, access <- s2, probe <- s3, previous <- s4, alarmed <- s5, twice <- s6,
    changes <- s7, faults <- s8

ASSUME MCPastesNamed == Register!PastesAssumption

(* Writes to a cluster. *)

Applies == INSTANCE ApplyWrites WITH
    NoVersion <- Nothing, Nobody <- Nothing, MaxVersion <- MaxWrites, MaxChanges <- GateChanges,
    lock <- s1, level <- s2, review <- s3, version <- s4, request <- s5, late <- s6,
    clobbered <- s7, changes <- s8

ASSUME MCWrites == Applies!WritesAssumption

Scales == INSTANCE Scaling WITH
    NoRecord <- Nothing, MaxFaults <- ScaleFaults,
    replicas <- s1, from <- s2, call <- s3, ran <- s4, muddled <- s5, calls <- s6,
    faults <- s7

ASSUME MCCounts == Scales!CountsAssumption

Drains == INSTANCE Drain WITH
    MaxFaults <- DrainFaults, MaxChanges <- DrainChanges,
    cordoned <- s1, pod <- s2, drain <- s3, left <- s4, refused <- s5, complete <- s6,
    undone <- s7, faults <- s8, changes <- s9

ASSUME MCDrains == Drains!BoundsAssumption

Rolls == INSTANCE Rollouts WITH
    None <- Nothing,
    template <- s1, sets <- s2, revision <- s3, rollback <- s4, wanted <- s5

ASSUME MCRollouts == Rolls!LabelAssumption /\ Rolls!NoneAssumption

(* Where the metrics are, what the fleet page says, what a search finds, and
   what is said of a pod. *)

Metrics == INSTANCE MetricsSource WITH
    Readers <- Panels, Servers <- PromServers, Services <- PromServices, NoService <- Nothing,
    TTLFound <- FoundTTL, TTLNotFound <- EmptyTTL, MaxChanges <- PanelChanges,
    row <- s1, default <- s2, up <- s3, labelled <- s4, answers <- s5, memory <- s6,
    read <- s7, shown <- s8, forget <- s9, changes <- s10

ASSUME MCMetrics == Metrics!MetricsAssumption

Cards == INSTANCE Fleet WITH
    Clusters <- Carded, Readers <- Pages, Detectors <- FleetDetectors, TTL <- CardTTL,
    MaxChanges <- CardChanges,
    status <- s1, up <- s2, ill <- s3, cached <- s4, sweeps <- s5, shown <- s6,
    changes <- s7

ASSUME MCFleet == Cards!FleetAssumption

Hit(match, extra, severity) == [match |-> match, extra |-> extra, severity |-> severity]
MCLists ==
    {<<>>, <<Hit("none", 0, ""), Hit("inside", 3, ""), Hit("exact", 0, "")>>,
     <<Hit("prefix", 25, "error"), Hit("field", -2, "warn")>>, <<Hit("none", 0, ""), Hit("none", 0, "")>>}

Finds == INSTANCE Search WITH
    Clusters <- Searched, Kinds <- AskedKinds, Limit <- MaxHits,
    input <- s1, answer <- s2

ASSUME MCSearch == Finds!SearchAssumption

C(state, last) == [state |-> state, last |-> last, sidecar |-> FALSE]
Apps == {C("running", "none"), C("running", "OOMKilled"), C("running", "Error"),
         C("CrashLoopBackOff", "Error"), C("PodInitializing", "none"),
         C("nonzero", "none"), C("Completed", "none")}
Sidecars == {[C("CrashLoopBackOff", "OOMKilled") EXCEPT !.sidecar = TRUE],
             [C("running", "none") EXCEPT !.sidecar = TRUE]}
MCPods ==
    {p \in [phase : {"Pending", "Running", "Succeeded", "Failed"}, evicted : BOOLEAN,
            scheduled : BOOLEAN, ready : BOOLEAN, deleting : BOOLEAN,
            inits : {<<>>, <<C("Completed", "none")>>, <<C("CrashLoopBackOff", "Error")>>,
                     <<C("Error", "none")>>},
            containers : {<<>>} \cup (Apps \X (Apps \cup Sidecars))] :
        /\ p.evicted => p.phase = "Failed"
        /\ ~p.scheduled => p.phase = "Pending" /\ p.containers = <<>>}

Verdicts == INSTANCE PodVerdicts WITH Pods <- Judged, pod <- s1, verdict <- s2

ASSUME MCPodsAssumption == Verdicts!PodsAssumption

(* An overview of two pods: one that is placed and one that may not be, each of
   two containers, and what is collected of the cluster. *)

P(phase, ready, node, waiting, exit) ==
    [phase |-> phase, ready |-> ready, node |-> node,
     waiting |-> [a |-> waiting[1], b |-> waiting[2]], exit |-> [a |-> exit[1], b |-> exit[2]]]
Quiet == P("Running", TRUE, "n1", <<"", "">>, <<"", "Completed">>)
MCSeen ==
    {Quiet, P("Running", FALSE, "n1", <<"CrashLoopBackOff", "">>, <<"OOMKilled", "Error">>),
     P("Running", TRUE, "n2", <<"", "">>, <<"Error", "">>),
     P("Pending", FALSE, "n1", <<"ImagePullBackOff", "ContainerCreating">>, <<"", "">>),
     P("Pending", FALSE, "n2", <<"", "CreateContainerConfigError">>, <<"Error", "">>),
     P("Pending", FALSE, "unknown", <<"", "">>, <<"", "">>),
     P("Failed", FALSE, "n1", <<"", "">>, <<"", "">>),
     P("Unknown", FALSE, "n2", <<"", "">>, <<"", "">>)}
Known == [nodesReady |-> "fine", podsReady |-> "fine", nodesNotReady |-> "critical",
          unavailable |-> "degraded"]
Shown(pods, seeds, collected) ==
    [pods |-> pods, seeds |-> seeds, collected |-> collected, level |-> Known]
MCOverviews ==
    {Shown(pods, [info |-> {"n1", "n2"}, arch |-> {"n1", "n2"}], {}) : pods \in MCSeen \X MCSeen}
      \cup {Shown(<<Quiet>>, [info |-> {"n1"}, arch |-> {}], some) :
              some \in SUBSET {"nodesReady", "podsReady", "nodesNotReady", "unavailable"}}

MCFailures ==
    {{}, {"tile"} \X {"phases", "stuck"}}
      \cup {{<<panel, q>>} : panel \in {"list", "table"}, q \in {"waiting", "Pending"}}
      \cup {{<<"tile", q>>} : q \in {"phases", "stuck"}}
      \cup {{<<"cards", q>>} : q \in {"info", "arch", "pods"}}
      \cup {{<<q, s>>} : q \in {"presence", "value"},
                        s \in {"nodesReady", "podsReady", "nodesNotReady", "unavailable"}}

Overviews == INSTANCE Overview WITH
    Clusters <- Overviewed, Containers <- PodContainers, Pod <- PodItself, Failures <- LostQueries,
    cluster <- s1, failed <- s2, waiting <- s3, found <- s4

ASSUME MCSeenPods == Overviews!OverviewAssumption

-----------------------------------------------------------------------------
(* One part moves; the rate limit rests where it begins. *)

OfLimit == part = "limit" /\ UNCHANGED <<part, Slots>>
Moves(name) == part = name /\ UNCHANGED <<part, vars>>
OfStream == Moves("stream")
OfNodeShell == Moves("node shells") /\ UNCHANGED After11
OfDebug == Moves("debug") /\ UNCHANGED After8
OfTerm == Moves("terminal") /\ UNCHANGED After13
OfExec == Moves("exec") /\ UNCHANGED After12
OfLogs == Moves("logs") /\ UNCHANGED After9
OfFindings == Moves("findings") /\ UNCHANGED After2
OfRegister == Moves("registration") /\ UNCHANGED After8
OfApplies == Moves("apply") /\ UNCHANGED After8
OfScales == Moves("scale") /\ UNCHANGED After7
OfDrains == Moves("drain") /\ UNCHANGED After9
OfRolls == Moves("rollouts") /\ UNCHANGED After5
OfMetrics == Moves("metrics") /\ UNCHANGED After10
OfCards == Moves("fleet") /\ UNCHANGED After7
OfFinds == Moves("search") /\ UNCHANGED After2
OfVerdicts == Moves("pods") /\ UNCHANGED After2
OfOverviews == Moves("overview") /\ UNCHANGED After4

No7 == s8 = 0 /\ s9 = 0 /\ s10 = 0 /\ s11 = 0 /\ s12 = 0 /\ s13 = 0 /\ s14 = 0
No8 == s9 = 0 /\ s10 = 0 /\ s11 = 0 /\ s12 = 0 /\ s13 = 0 /\ s14 = 0
No9 == s10 = 0 /\ s11 = 0 /\ s12 = 0 /\ s13 = 0 /\ s14 = 0
No2 == s3 = 0 /\ s4 = 0 /\ s5 = 0 /\ s6 = 0 /\ s7 = 0 /\ No7

MCInit ==
    /\ Init
    /\ \/ part = "limit" /\ s1 = 0 /\ s2 = 0 /\ No2
       \/ part = "stream" /\ Stream!Init
       \/ part = "node shells" /\ NodeShell!Init /\ s12 = 0 /\ s13 = 0 /\ s14 = 0
       \/ part = "terminal" /\ Term!Init /\ s14 = 0
       \/ part = "exec" /\ Exec!Init /\ s13 = 0 /\ s14 = 0
       \/ part = "logs" /\ LogSweep!Init /\ No9
       \/ part = "findings" /\ Findings!Init /\ No2
       \/ part = "debug" /\ Debug!Init /\ No8
       \/ part = "registration" /\ Register!Init /\ No8
       \/ part = "apply" /\ Applies!Init /\ No8
       \/ part = "scale" /\ Scales!Init /\ No7
       \/ part = "drain" /\ Drains!Init /\ No9
       \/ part = "rollouts" /\ Rolls!Init /\ s6 = 0 /\ s7 = 0 /\ No7
       \/ part = "metrics" /\ Metrics!Init /\ s11 = 0 /\ s12 = 0 /\ s13 = 0 /\ s14 = 0
       \/ part = "fleet" /\ Cards!Init /\ No7
       \/ part = "search" /\ Finds!Init /\ No2
       \/ part = "pods" /\ Verdicts!Init /\ No2
       \/ part = "overview" /\ Overviews!Init /\ s5 = 0 /\ s6 = 0 /\ s7 = 0 /\ No7

LimitNext ==
    \/ OfLimit /\ Tick
    \/ OfLimit /\ Sweep
    \/ \E k \in Address : OfLimit /\ Reset(k)
    \/ \E k \in Keys, forged \in Forged, route \in Routes, manner \in Manners :
        OfLimit /\ Request(k, forged, route, manner)

StreamNext ==
    \/ \E n \in Spaces :
        \/ OfStream /\ Stream!Write(n)
        \/ OfStream /\ Stream!Delete(n)
    \/ OfStream /\ Stream!CacheFollows
    \/ OfStream /\ Stream!ListRead
    \/ OfStream /\ Stream!ListFails
    \/ OfStream /\ Stream!ListArrives
    \/ OfStream /\ Stream!Poll
    \/ OfStream /\ Stream!Connect
    \/ OfStream /\ Stream!Drop
    \/ OfStream /\ Stream!WatchStarts
    \/ OfStream /\ Stream!WatchRefused
    \/ OfStream /\ Stream!WatchEnds
    \/ OfStream /\ Stream!Forward
    \/ OfStream /\ Stream!TellReset
    \/ OfStream /\ Stream!Retry
    \/ OfStream /\ Stream!Deliver

NodeShellNext ==
    \/ \E s \in Shells :
        \/ OfNodeShell /\ NodeShell!Ask(s)
        \/ OfNodeShell /\ NodeShell!Create(s)
        \/ OfNodeShell /\ NodeShell!CreateRefused(s)
        \/ OfNodeShell /\ NodeShell!CreateLost(s)
        \/ OfNodeShell /\ NodeShell!Started(s)
        \/ OfNodeShell /\ NodeShell!NeverStarts(s)
        \/ OfNodeShell /\ NodeShell!Ends(s)
        \/ OfNodeShell /\ NodeShell!Delete(s)
        \/ OfNodeShell /\ NodeShell!DeleteFails(s)
        \/ OfNodeShell /\ NodeShell!SweepDelete(s)
        \/ OfNodeShell /\ NodeShell!SweepDeleteFails(s)
        \/ OfNodeShell /\ NodeShell!Age(s)
    \/ OfNodeShell /\ NodeShell!SweepTick
    \/ OfNodeShell /\ NodeShell!SweepList
    \/ OfNodeShell /\ NodeShell!SweepEnds
    \/ OfNodeShell /\ NodeShell!Save
    \/ OfNodeShell /\ NodeShell!Crash

DebugNext ==
    \/ \E s \in Attempts :
        \/ OfDebug /\ Debug!Start(s)
        \/ OfDebug /\ Debug!Get(s)
        \/ OfDebug /\ Debug!Update(s)
        \/ OfDebug /\ Debug!UpdateLost(s)
        \/ OfDebug /\ Debug!Denied(s)
        \/ OfDebug /\ Debug!NameTaken(s)
        \/ OfDebug /\ Debug!Ready(s)
        \/ OfDebug /\ Debug!NotPulled(s)
        \/ OfDebug /\ Debug!GivesUp(s)
        \/ OfDebug /\ Debug!ShellEnds(s)
    \/ \E n \in Debug!Names, state \in Debug!States : OfDebug /\ Debug!Turns(n, state)
    \/ OfDebug /\ Debug!Other
    \/ OfDebug /\ Debug!Replaced
    \/ OfDebug /\ Debug!Tick

TermNext ==
    \/ \E f \in Term!Frames : OfTerm /\ Term!Press(f)
    \/ OfTerm /\ Term!Leave
    \/ OfTerm /\ Term!Gate
    \/ OfTerm /\ Term!Open
    \/ OfTerm /\ Term!Enter
    \/ OfTerm /\ Term!Interrupt
    \/ OfTerm /\ Term!Recall("up", 1)
    \/ OfTerm /\ Term!Recall("down", -1)
    \/ OfTerm /\ Term!Type
    \/ OfTerm /\ Term!Upload
    \/ OfTerm /\ Term!ReadFails
    \/ OfTerm /\ Term!CommandEnds
    \/ OfTerm /\ Term!LimitPasses
    \/ OfTerm /\ Term!Prompt

ExecNext ==
    \/ \E size \in Exec!Sizes : OfExec /\ Exec!Press(size)
    \/ OfExec /\ Exec!Leave
    \/ OfExec /\ Exec!ReadFrame
    \/ OfExec /\ Exec!ReadFails
    \/ OfExec /\ Exec!Take
    \/ OfExec /\ Exec!ExecEnds
    \/ OfExec /\ Exec!Close
    \/ OfExec /\ Exec!Return

LogsNext ==
    \/ OfLogs /\ LogSweep!Tick
    \/ OfLogs /\ LogSweep!TickFails
    \/ OfLogs /\ LogSweep!Asked
    \/ OfLogs /\ LogSweep!Forget
    \/ OfLogs /\ LogSweep!SaveSecret
    \/ OfLogs /\ LogSweep!SaveSecretFails
    \/ OfLogs /\ LogSweep!EditRules
    \/ \E s \in LogStores : OfLogs /\ LogSweep!Outage(s)
    \/ \E c \in Logged :
        \/ OfLogs /\ LogSweep!SkipOff(c)
        \/ OfLogs /\ LogSweep!Open(c)
        \/ OfLogs /\ LogSweep!OpenFails(c)
        \/ \E s \in LogSweep!MaybeSource, k \in LogSweep!MaybeSource \cup {"keep"} :
            OfLogs /\ LogSweep!SaveRow(c, s, k)

RegisterNext ==
    \/ \E who \in Register!Probers :
        \/ OfRegister /\ Register!ReadCredential(who)
        \/ OfRegister /\ Register!Ask(who)
        \/ OfRegister /\ Register!Record(who)
    \/ OfRegister /\ Register!Reload
    \/ OfRegister /\ Register!ReloadFails
    \/ OfRegister /\ Register!Sweep
    \/ OfRegister /\ Register!Remove
    \/ OfRegister /\ Register!Check
    \/ OfRegister /\ Register!Stop
    \/ \E p \in Pastes, name \in Register!Names \cup {NoName} :
        \/ OfRegister /\ Register!Create(p, name)
        \/ OfRegister /\ Register!Replace(p, name)
        \/ OfRegister /\ Register!Refused(p, name)
    \/ \E s \in Servers, how \in {"full", "narrow", "forbidden", "rejected", "down"} :
        OfRegister /\ Register!Turns(s, how)

AppliesNext ==
    \/ OfApplies /\ Applies!Lock
    \/ OfApplies /\ Applies!Roles
    \/ \E l \in {"none", "read", "write"} : OfApplies /\ Applies!Grant(l)
    \/ \E o \in Objects : OfApplies /\ Applies!Other(o)
    \/ \E r \in Requests :
        \/ OfApplies /\ Applies!Gates(r)
        \/ OfApplies /\ Applies!Get(r)
        \/ OfApplies /\ Applies!Fails(r)
        \/ OfApplies /\ Applies!Send(r)
        \/ \E o \in Objects : OfApplies /\ Applies!Authorise(r, o)
        \/ \E some \in SUBSET Objects :
            \/ OfApplies /\ Applies!Open(r, some)
            \/ \E dry \in BOOLEAN : OfApplies /\ Applies!Submit(r, some, dry)

ScalesNext ==
    \/ \E c \in Callers :
        \/ \E n \in Counts : OfScales /\ Scales!AskScale(c, n)
        \/ OfScales /\ Scales!AskRestore(c)
        \/ OfScales /\ Scales!Read(c)
        \/ OfScales /\ Scales!ReadFails(c)
        \/ OfScales /\ Scales!Patch(c)
        \/ OfScales /\ Scales!Find(c)
        \/ OfScales /\ Scales!Restore(c)
        \/ OfScales /\ Scales!Fails(c)
    \/ \E n \in Counts : OfScales /\ Scales!Other(n)

DrainsNext ==
    \/ OfDrains /\ Drains!Start
    \/ OfDrains /\ Drains!Cordon
    \/ OfDrains /\ Drains!Plan
    \/ OfDrains /\ Drains!Fails
    \/ OfDrains /\ Drains!Finish
    \/ OfDrains /\ Drains!Uncordon
    \/ \E p \in Drains!Pods :
        \/ OfDrains /\ Drains!Evict(p)
        \/ OfDrains /\ Drains!Refuse(p)
        \/ OfDrains /\ Drains!Arrive(p)
        \/ OfDrains /\ Drains!Leave(p)
        \/ OfDrains /\ Drains!Complete(p)

RollsNext ==
    \/ OfRolls /\ Rolls!Patch
    \/ OfRolls /\ Rolls!PatchFails
    \/ \E t \in Rolls!Templates :
        \/ OfRolls /\ Rolls!Prune(t)
        \/ OfRolls /\ Stamp \notin DOMAIN t /\ Rolls!Apply(t)
    \/ \E now \in Values : OfRolls /\ Rolls!Restart(now)
    \/ \E number \in 1..MaxRevision : OfRolls /\ Rolls!Find(number)

MetricsNext ==
    \/ \E r \in Panels :
        \/ OfMetrics /\ Metrics!Ask(r)
        \/ OfMetrics /\ Metrics!Choose(r)
        \/ OfMetrics /\ Metrics!List(r)
        \/ OfMetrics /\ Metrics!Search(r)
        \/ OfMetrics /\ Metrics!Fallback(r)
        \/ OfMetrics /\ Metrics!SearchFails(r)
    \/ OfMetrics /\ Metrics!SaveAddress
    \/ OfMetrics /\ Metrics!Forget
    \/ OfMetrics /\ Metrics!SaveMetrics
    \/ OfMetrics /\ Metrics!Tick
    \/ \E s \in PromServers :
        \/ OfMetrics /\ Metrics!ReplaceCredential(s)
        \/ \E v \in PromServices : OfMetrics /\ Metrics!Turns(s, v)

CardsNext ==
    \/ \E r \in Pages :
        \/ OfCards /\ Cards!Ask(r)
        \/ OfCards /\ Cards!Answer(r)
        \/ \E c \in Carded :
            \/ OfCards /\ Cards!Refuse(r, c)
            \/ OfCards /\ Cards!Done(r, c)
            \/ \E d \in Cards!Reads : OfCards /\ Cards!Read(r, c, d)
        \/ OfCards /\ Cards!CutShort(r)
    \/ \E c \in Carded :
        \/ OfCards /\ Cards!Probe(c)
        \/ OfCards /\ Cards!Turns(c)
    \/ OfCards /\ Cards!Tick

FindsNext == OfFinds /\ Finds!SearchAll
FindingsNext == OfFindings /\ Findings!Judge
VerdictsNext == OfVerdicts /\ Verdicts!Judge
OverviewsNext ==
    \E q \in {"waiting", "exit", "Failed", "Pending", "NotReady"} : OfOverviews /\ Overviews!Collect(q)

MCNext ==
    \/ LimitNext \/ StreamNext \/ NodeShellNext \/ DebugNext \/ TermNext \/ ExecNext
    \/ LogsNext \/ FindingsNext \/ RegisterNext
    \/ AppliesNext \/ ScalesNext \/ DrainsNext \/ RollsNext
    \/ MetricsNext \/ CardsNext \/ FindsNext \/ VerdictsNext
    \/ OverviewsNext

-----------------------------------------------------------------------------
(* The fairness of the specifications, each owed while its part moves. *)

StreamFairness ==
    /\ WF_all(OfStream /\ Stream!CacheFollows)
    /\ WF_all(OfStream /\ Stream!ListRead)
    /\ WF_all(OfStream /\ Stream!ListArrives)
    /\ WF_all(OfStream /\ Stream!Poll)
    /\ WF_all(OfStream /\ Stream!Connect)
    /\ WF_all(OfStream /\ Stream!WatchStarts)
    /\ WF_all(OfStream /\ Stream!Forward)
    /\ WF_all(OfStream /\ Stream!TellReset)
    /\ WF_all(OfStream /\ Stream!Retry)
    /\ WF_all(OfStream /\ Stream!Deliver)

NodeShellFairness ==
    /\ WF_all(OfNodeShell /\ NodeShell!SweepTick)
    /\ WF_all(OfNodeShell /\ NodeShell!SweepList)
    /\ WF_all(OfNodeShell /\ NodeShell!SweepEnds)
    /\ \A s \in Shells :
        /\ WF_all(OfNodeShell /\ NodeShell!Age(s))
        /\ WF_all(OfNodeShell /\ (NodeShell!SweepDelete(s) \/ NodeShell!SweepDeleteFails(s)))
        /\ WF_all(OfNodeShell /\ (NodeShell!Create(s) \/ NodeShell!CreateRefused(s)))
        /\ WF_all(OfNodeShell /\ (NodeShell!NeverStarts(s) \/ NodeShell!Started(s)))
        /\ WF_all(OfNodeShell /\ (NodeShell!Delete(s) \/ NodeShell!DeleteFails(s)))

TermFairness ==
    /\ WF_all(OfTerm /\ Term!Gate)
    /\ WF_all(OfTerm /\ Term!Open)
    /\ WF_all(OfTerm /\ Term!Handle)
    /\ WF_all(OfTerm /\ Term!ReadFails)
    /\ WF_all(OfTerm /\ Term!CommandEnds /\ s10)
    /\ WF_all(OfTerm /\ Term!Prompt)
    /\ WF_all(OfTerm /\ Term!LimitPasses)

ExecFairness ==
    /\ WF_all(OfExec /\ Exec!ReadFrame)
    /\ WF_all(OfExec /\ Exec!ReadFails)
    /\ WF_all(OfExec /\ Exec!Take)
    /\ WF_all(OfExec /\ Exec!ExecEnds /\ s8)
    /\ WF_all(OfExec /\ Exec!Close)
    /\ WF_all(OfExec /\ Exec!Return)

LogsFairness ==
    /\ WF_all(OfLogs /\ LogSweep!Sweeping)
    /\ WF_all(OfLogs /\ LogSweep!Editing)

RegisterFairness ==
    /\ WF_all(OfRegister /\ Register!Sweep)
    /\ WF_all(OfRegister /\ Register!Reload)
    /\ \A who \in Register!Probers :
        WF_all(OfRegister /\ (Register!ReadCredential(who) \/ Register!Ask(who) \/ Register!Record(who)))

MetricsFairness ==
    /\ WF_all(OfMetrics /\ Metrics!Forget)
    /\ WF_all(OfMetrics /\ Metrics!Tick)
    /\ \A r \in Panels : WF_all(OfMetrics /\ Metrics!Reads(r))

CardsFairness ==
    /\ WF_all(OfCards /\ Cards!Tick)
    /\ \A r \in Pages : WF_all(OfCards /\ Cards!Sweeps(r))

MCFairness ==
    /\ StreamFairness /\ NodeShellFairness /\ TermFairness /\ ExecFairness
    /\ LogsFairness /\ RegisterFairness /\ MetricsFairness /\ CardsFairness

MCSpec == MCInit /\ [][MCNext]_all /\ MCFairness

\* The search alone.
SearchSpec == MCInit /\ part = "search" /\ [][MCNext]_all

\* The overview alone.
OverviewSpec == MCInit /\ part = "overview" /\ [][MCNext]_all

-----------------------------------------------------------------------------
(* Properties. *)

\* The shape of the state of the part that moves.
TypesOK ==
    /\ TypeOK
    /\ part = "stream" => Stream!TypeOK
    /\ part = "node shells" => NodeShell!TypeOK
    /\ part = "debug" => Debug!TypeOK
    /\ part = "terminal" => Term!TypeOK
    /\ part = "exec" => Exec!TypeOK
    /\ part = "logs" => LogSweep!TypeOK
    /\ part = "registration" => Register!TypeOK
    /\ part = "apply" => Applies!TypeOK
    /\ part = "scale" => Scales!TypeOK
    /\ part = "drain" => Drains!TypeOK
    /\ part = "rollouts" => Rolls!TypeOK
    /\ part = "metrics" => Metrics!TypeOK
    /\ part = "fleet" => Cards!TypeOK
    /\ part = "search" => Finds!TypeOK
    /\ part = "overview" => Overviews!TypeOK

\* What a page shows comes to be what is so, and stays: a table what the cluster
\* holds, whatever its stream lost (cluster/watch.go,
\* httpapi/stream_handlers.go, the poll of the table), the log counts of the
\* list (cluster/logs_sweeper.go), the source of the metrics
\* (cluster/metrics_source.go), the cards of the fleet (health/fleet.go).
ViewsSettle ==
    <>[](/\ part = "stream" => Stream!Current
         /\ part = "logs" => LogSweep!AllTold
         /\ part = "metrics" => Metrics!AllRight
         /\ part = "fleet" => Cards!AllTrue)

\* What a page shows rightly it goes on showing while nothing changes, whatever
\* was lost, remembered or under way: nothing that is on its way undoes it (the
\* code named above).
ViewsKept ==
    [][/\ part = "stream" => Stream!StaysSettled
       /\ part = "logs" => LogSweep!TellsOn
       /\ part = "metrics" => Metrics!ReadsRight
       /\ part = "fleet" => Cards!SweepsRight]_all

\* The status of a cluster comes to be what its credential is worth at the
\* server it points at, and a credential that stopped working is told of once
\* (cluster/service.go:240-262, cluster/monitor.go:85-92).
StatusSettles ==
    /\ [](part = "registration" => Register!AlarmedOnce)
    /\ <>[](part = "registration" => Register!Told)

\* A privileged pod outlives its shell only by a fault, and the sweeper takes
\* none that is young (cluster/nodeshell.go, cluster/sweeper.go); a shell is in
\* the debug container that its session attached, and a refused one leaves
\* none (cluster/debugcontainer.go).
PodsAccounted ==
    /\ part = "node shells" => NodeShell!PodsAccounted
    /\ part = "debug" => Debug!ContainersAccounted

\* What a shell leaves behind goes: the pod of an abandoned one is swept, a
\* terminal's credential and command end with its reader, and an exec session
\* ends and leaves its transcript (cluster/nodeshell.go, kubectlsh/session.go,
\* httpapi/exec_handlers.go).
ShellsEnd ==
    <>[](/\ part = "node shells" => NodeShell!NoneLeft
         /\ part = "terminal" => Term!LeftClean
         /\ part = "exec" => Exec!Recorded)

\* What is recorded of a session is what happened in it: each command of a
\* terminal with its verdict, each keystroke of an exec session that reached
\* the container (kubectlsh/session.go, httpapi/session_recorder.go).
SessionsTell ==
    /\ part = "terminal" => Term!CommandsAnswered
    /\ part = "exec" => Exec!TranscriptTells

\* The findings in the logs are the lines the rules want, each once
\* (logsearch/sweep.go, cluster/logs_sweeper.go).
FindingsTell == part = "findings" => Findings!FindingsTell

\* No cluster drops silently out of a search (cluster/search.go).
SearchAccounts == part = "search" => Finds!SearchAccounts

\* A search finds what the clusters hold, or says that it was cut
\* (cluster/search.go:38).
ListedIsFound == part = "search" => Finds!ListedIsFound

\* The status column, the mark of the row, the finding and the overview agree
\* on a pod (k8s/trouble.go, cluster/projection.go, health/workload.go).
VerdictsAgree == part = "pods" => Verdicts!VerdictsAgree

\* The panels of the overview agree with each other on every pod, in whatever
\* order their queries were answered, and its verdict was earned by a reading
\* (promql/clusterhealth.go, panels.go, nodes.go, summary.go).
PanelsAgree == part = "overview" => Overviews!PanelsAgree

\* A panel that is partly read says so (promql/clusterhealth.go:100).
PartialIsTold == part = "overview" => Overviews!PartialIsTold

\* A request stops at a lock set while it runs, and no write passes over a
\* change its author did not see (cluster/write_guard.go, cluster/write.go).
WritesGuarded ==
    part = "apply" => Applies!LockStopsAtOne /\ Applies!NothingClobbered

\* What is undone comes back: a workload to the replicas it ran, a Deployment
\* to what the revision set (cluster/operations.go).
UndoLands ==
    [][/\ part = "scale" => Scales!ComesBack'
       /\ part = "rollouts" => Rolls!LandsWell]_all

\* A drain that ended has moved every pod or told which it has not
\* (cluster/drain.go).
DrainAccounts == part = "drain" => Drains!DrainAccounts
=============================================================================
