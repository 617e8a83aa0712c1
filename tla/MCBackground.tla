----------------------------- MODULE MCBackground -----------------------------
(***************************************************************************)
(* What the server runs behind the requests: the audit shipper, the        *)
(* informer pool, the port-forwards and one tunnel, checked side by side.  *)
(* `part` says which of them moves; the others do not exist in that        *)
(* behaviour, and fairness is owed by the part that moves. All but the     *)
(* shipper share the variables s1 .. s11, each using as many as it has; an *)
(* unused one is 0.                                                        *)
(***************************************************************************)
EXTENDS Shipper

CONSTANTS
    Clusters, Viewers, Admins, MaxEntries, MaxVersion,  \* of the informer pool
    Forwards, From, To,                                 \* of the port-forwards
    MaxSent                                             \* of the tunnel

VARIABLES part, s1, s2, s3, s4, s5, s6, s7, s8, s9, s10, s11

After9 == <<s10, s11>>
After7 == <<s8, s9, After9>>
Slots == <<s1, s2, s3, s4, s5, s6, s7, After7>>
all == <<part, vars, Slots>>

Pool == INSTANCE InformerPool WITH
    stored <- s1, caches <- s2, made <- s3, entries <- s4, pc <- s5, cluster <- s6,
    version <- s7, holding <- s8, doomed <- s9

Forward == INSTANCE PortForwards WITH
    phase <- s1, candidate <- s2, last <- s3, port <- s4, listener <- s5, conn <- s6,
    idle <- s7

Tunnels == INSTANCE Tunnel WITH
    kind <- s1, client <- s2, pod <- s3, errors <- s4, asked <- s5, answer <- s6,
    up <- s7, down <- s8, watcher <- s9, handler <- s10, upstream <- s11

ASSUME MCPool == Pool!InformerPoolAssumption
ASSUME MCPortRange == Forward!PortRangeAssumption
ASSUME MCTunnel == Tunnels!TunnelAssumption

MCInit ==
    /\ Init
    /\ \/ /\ part = "shipper"
          /\ s1 = 0 /\ s2 = 0 /\ s3 = 0 /\ s4 = 0 /\ s5 = 0 /\ s6 = 0 /\ s7 = 0
          /\ s8 = 0 /\ s9 = 0 /\ s10 = 0 /\ s11 = 0
       \/ part = "pool" /\ Pool!Init /\ s10 = 0 /\ s11 = 0
       \/ part = "forwards" /\ Forward!Init /\ s8 = 0 /\ s9 = 0 /\ s10 = 0 /\ s11 = 0
       \/ part = "tunnel" /\ Tunnels!Init

OfShipper == part = "shipper" /\ UNCHANGED <<part, Slots>>
OfPool == part = "pool" /\ UNCHANGED <<part, vars, After9>>
OfForwards == part = "forwards" /\ UNCHANGED <<part, vars, After7>>
OfTunnel == part = "tunnel" /\ UNCHANGED <<part, vars>>

ShipperNext ==
    \/ OfShipper /\ EnqueueAccept
    \/ OfShipper /\ EnqueueDrop
    \/ OfShipper /\ EnqueueOnClosed
    \/ OfShipper /\ Receive
    \/ OfShipper /\ ReceiveClosed
    \/ OfShipper /\ BatchTimer
    \/ OfShipper /\ ContextDone
    \/ OfShipper /\ SendOk
    \/ OfShipper /\ SendError
    \/ OfShipper /\ SleepOver
    \/ OfShipper /\ SleepCancelled
    \/ OfShipper /\ CloseStart
    \/ OfShipper /\ CloseDeadline
    \/ OfShipper /\ CloseReturn

PoolNext ==
    \/ \E v \in Viewers :
        \/ OfPool /\ Pool!Load(v)
        \/ OfPool /\ Pool!WarmHit(v)
        \/ OfPool /\ Pool!WarmMiss(v)
        \/ OfPool /\ Pool!WarmStart(v)
        \/ OfPool /\ Pool!WarmEnd(v)
        \/ OfPool /\ Pool!Cached(v)
    \/ \E a \in Admins :
        \/ OfPool /\ Pool!Replace(a)
        \/ OfPool /\ Pool!Release(a)
    \/ \E p \in Admins \cup {Pool!Reaper} : OfPool /\ Pool!StopEntry(p)
    \/ \E e \in Pool!Ids : OfPool /\ Pool!InformersSync(e)
    \/ \E c \in Clusters : OfPool /\ Pool!Age(c)
    \/ OfPool /\ Pool!ReapTick
    \/ OfPool /\ Pool!ReapRelease

ForwardsNext ==
    \/ \E f \in Forwards :
        \/ OfForwards /\ Forward!Start(f)
        \/ OfForwards /\ Forward!Listen(f)
        \/ OfForwards /\ Forward!ListenBusy(f)
        \/ OfForwards /\ Forward!HuntFails(f)
        \/ OfForwards /\ Forward!Add(f)
        \/ OfForwards /\ Forward!Get(f)
        \/ OfForwards /\ Forward!Remove(f)
        \/ OfForwards /\ Forward!Age(f)
        \/ OfForwards /\ Forward!Accept(f)
        \/ OfForwards /\ Forward!DialOk(f)
        \/ OfForwards /\ Forward!Hangup(f)
    \/ OfForwards /\ Forward!List

TunnelNext ==
    \/ OfTunnel /\ Tunnels!ClientSends
    \/ OfTunnel /\ Tunnels!HalfCloses
    \/ OfTunnel /\ Tunnels!Leaves
    \/ OfTunnel /\ Tunnels!PodSends
    \/ OfTunnel /\ Tunnels!Refuses
    \/ OfTunnel /\ Tunnels!PodCloses
    \/ OfTunnel /\ Tunnels!DialOk
    \/ OfTunnel /\ Tunnels!DialFails
    \/ OfTunnel /\ Tunnels!UpReads
    \/ OfTunnel /\ Tunnels!UpEnds
    \/ OfTunnel /\ Tunnels!UpWrites
    \/ OfTunnel /\ Tunnels!UpFails
    \/ OfTunnel /\ Tunnels!DownReads
    \/ OfTunnel /\ Tunnels!DownEnds
    \/ OfTunnel /\ Tunnels!DownWrites
    \/ OfTunnel /\ Tunnels!DownFails
    \/ OfTunnel /\ Tunnels!WatchRefusal
    \/ OfTunnel /\ Tunnels!WatchEnds
    \/ OfTunnel /\ Tunnels!PipeEnds
    \/ OfTunnel /\ Tunnels!SelectRefused
    \/ OfTunnel /\ Tunnels!SelectAllowed
    \/ OfTunnel /\ Tunnels!SelectDone

\* The fairness of the four specifications, each owed while its part moves.
MCFairness ==
    /\ WF_all(OfShipper /\ Worker) /\ WF_all(OfShipper /\ CloseReturn)
    /\ \A v \in Viewers : /\ WF_all(OfPool /\ Pool!WarmStart(v))
                          /\ WF_all(OfPool /\ Pool!WarmEnd(v))
    /\ \A a \in Admins : WF_all(OfPool /\ Pool!Release(a))
    /\ \A p \in Admins \cup {Pool!Reaper} : WF_all(OfPool /\ Pool!StopEntry(p))
    /\ WF_all(OfPool /\ Pool!ReapTick) /\ WF_all(OfPool /\ Pool!ReapRelease)
    /\ \A f \in Forwards :
        /\ WF_all(/\ OfForwards
                  /\ Forward!Listen(f) \/ Forward!ListenBusy(f) \/ Forward!HuntFails(f))
        /\ WF_all(OfForwards /\ Forward!Add(f))
    /\ WF_all(OfTunnel /\ Tunnels!CopyUp) /\ WF_all(OfTunnel /\ Tunnels!CopyDown)
    /\ WF_all(OfTunnel /\ Tunnels!Watch) /\ WF_all(OfTunnel /\ Tunnels!Serve)

MCNext == ShipperNext \/ PoolNext \/ ForwardsNext \/ TunnelNext

MCSpec == MCInit /\ [][MCNext]_all /\ MCFairness

-----------------------------------------------------------------------------
(* Properties. *)

\* The shape of the state of the part that moves.
TypesOK ==
    /\ TypeOK
    /\ part = "pool" => Pool!TypeOK
    /\ part = "forwards" => Forward!TypeOK
    /\ part = "tunnel" => Tunnels!TypeOK

\* An entry that watches with a replaced credential goes with the release that
\* follows, unless its client was made before the replacement and it was
\* published after (cluster/informers.go, httpapi/cluster_handlers.go).
OldCredentialGoes == part = "pool" => Pool!OldCredentialGoes

\* Every watch of the pool is stopped once, by the one who took it out of the
\* map, every port is held by the session that announced it and no longer, and
\* a tunnel is held until its client has the whole answer
\* (cluster/informers.go, cluster/forward_listen.go, cluster/portforward.go).
HoldingsAccounted ==
    /\ part = "pool" => Pool!EveryEntryAccounted
    /\ part = "forwards" => Forward!PortsAccounted
    /\ part = "tunnel" => Tunnels!AnswerWhole

\* Close returns, an idle entry is used again or released, every forward that
\* is started ends up registered or closed, and nothing is left of a tunnel
\* that neither end wants (audit/shipper.go, cluster/informers.go,
\* cluster/forward_listen.go, cluster/portforward.go).
BackgroundSettles ==
    /\ <>[](/\ closer \in {"open", "closed"}
            /\ part = "forwards" => Forward!Answered
            /\ part = "tunnel" => Tunnels!Released)
    /\ \A e \in Pool!Ids : []<>(part = "pool" => Pool!LetGo(e))
=============================================================================
