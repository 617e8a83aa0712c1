----------------------------- MODULE PortForwards -----------------------------
(***************************************************************************)
(* Port-forwards: a session hunts for a local port, listens on it before   *)
(* it is registered, accepts connections it dials through to the pod, and  *)
(* ends when its owner removes it or when a later call of the registry     *)
(* finds it idle.  A session that gets no port is proxied instead.         *)
(* (server/internal/httpapi/forward_handlers.go,                           *)
(*  server/internal/cluster/forward_listen.go)                             *)
(***************************************************************************)
EXTENDS Naturals, FiniteSets

CONSTANTS
    Forwards,   \* forward sessions ever started
    From, To    \* the configured range of local ports

PortRangeAssumption ==
    From \in Nat \ {0} /\ To \in Nat /\ From <= To

VARIABLES
    phase,      \* session -> "none", "hunt", "ready" (made, not registered),
                \* "open" (registered) or "closed"
    candidate,  \* session -> the next port it tries
    last,       \* session -> the last port it may try
    port,       \* session -> its LocalForward's port, 0 in proxy mode
    listener,   \* port -> the sessions listening on it
    conn,       \* session -> its connection: "none", "dialing", "piping"
    idle        \* session -> touched lies before the cutoff

sockets == <<listener, conn>>
hunt == <<candidate, last, port>>
vars == <<phase, hunt, sockets, idle>>

Ports == From .. To
Open == {f \in Forwards : phase[f] = "open"}

Init ==
    /\ phase = [f \in Forwards |-> "none"]
    /\ candidate = [f \in Forwards |-> 0]
    /\ last = [f \in Forwards |-> 0]
    /\ port = [f \in Forwards |-> 0]
    /\ listener = [p \in Ports |-> {}]
    /\ conn = [f \in Forwards |-> "none"]
    /\ idle = [f \in Forwards |-> FALSE]

-----------------------------------------------------------------------------
(* Opening. *)

\* startForward is authorised: a port of its own, any of the range or the
\* one the reader wants, or the proxy because the reader asks for it.
Start(f) ==
    /\ phase[f] = "none"
    /\ \/ /\ phase' = [phase EXCEPT ![f] = "hunt"]
          /\ \/ /\ candidate' = [candidate EXCEPT ![f] = From]
                /\ last' = [last EXCEPT ![f] = To]
             \/ \E p \in Ports : /\ candidate' = [candidate EXCEPT ![f] = p]
                                 /\ last' = [last EXCEPT ![f] = p]
       \/ /\ phase' = [phase EXCEPT ![f] = "ready"]
          /\ UNCHANGED <<candidate, last>>
    /\ UNCHANGED <<port, sockets, idle>>

\* The loop over the candidates returns.
EndHunt(f) ==
    /\ phase' = [phase EXCEPT ![f] = "ready"]
    /\ candidate' = [candidate EXCEPT ![f] = 0]
    /\ last' = [last EXCEPT ![f] = 0]

\* net.Listen succeeds on a free port; serve accepts on it from now on.
Listen(f) ==
    LET p == candidate[f] IN
    /\ phase[f] = "hunt" /\ p <= last[f] /\ listener[p] = {}
    /\ listener' = [listener EXCEPT ![p] = {f}]
    /\ port' = [port EXCEPT ![f] = p]
    /\ EndHunt(f)
    /\ UNCHANGED <<conn, idle>>

\* Mutant: the hunt goes round the range.
ListenBusy_Wraps(f) ==
    LET p == candidate[f] IN
    /\ phase[f] = "hunt" /\ p <= last[f] /\ listener[p] # {}
    /\ candidate' = [candidate EXCEPT ![f] = IF p = To THEN From ELSE p + 1]
    /\ UNCHANGED <<phase, last, port, sockets, idle>>

\* The port is taken: the next one.
ListenBusy(f) ==
    LET p == candidate[f] IN
    /\ phase[f] = "hunt" /\ p <= last[f] /\ listener[p] # {}
    /\ candidate' = [candidate EXCEPT ![f] = p + 1]
    /\ UNCHANGED <<phase, last, port, sockets, idle>>

\* No port is left to try: the session is proxied.
HuntFails(f) ==
    /\ phase[f] = "hunt" /\ candidate[f] > last[f]
    /\ EndHunt(f)
    /\ UNCHANGED <<port, sockets, idle>>

-----------------------------------------------------------------------------
(* Ending, and the registry's calls. *)

\* Mutant: only the proxy's context is cancelled.
CloseAll_StopOnly(S) ==
    /\ phase' = [f \in Forwards |-> IF f \in S THEN "closed" ELSE phase[f]]
    /\ UNCHANGED listener

\* forwardSession.close for every session of S: the listener goes, what it
\* has accepted is not touched.
CloseAll(S) ==
    /\ phase' = [f \in Forwards |-> IF f \in S THEN "closed" ELSE phase[f]]
    /\ listener' = [p \in Ports |-> listener[p] \ S]

\* expireLocked, with which add, get and list begin.
Expired == {f \in Open : idle[f]}

\* forwards.add, after which the session is registered.
Add(f) ==
    /\ phase[f] = "ready"
    /\ phase' = [g \in Forwards |-> IF g \in Expired THEN "closed"
                                   ELSE IF g = f THEN "open" ELSE phase[g]]
    /\ listener' = [p \in Ports |-> listener[p] \ Expired]
    /\ UNCHANGED <<hunt, conn, idle>>

\* forwards.get for the proxied route of f.
Get(f) ==
    /\ CloseAll(Expired)
    /\ idle' = IF f \in Open \ Expired THEN [idle EXCEPT ![f] = FALSE] ELSE idle
    /\ UNCHANGED <<hunt, conn>>

\* forwards.list.
List ==
    /\ Expired # {}
    /\ CloseAll(Expired)
    /\ UNCHANGED <<hunt, conn, idle>>

\* stopForward by the owner.
Remove(f) ==
    /\ f \in Open
    /\ CloseAll({f})
    /\ UNCHANGED <<hunt, conn, idle>>

\* Thirty minutes pass without a touch; no dial takes as long.
Age(f) ==
    /\ f \in Open /\ ~idle[f] /\ conn[f] # "dialing"
    /\ idle' = [idle EXCEPT ![f] = TRUE]
    /\ UNCHANGED <<phase, hunt, sockets>>

-----------------------------------------------------------------------------
(* Traffic. *)

\* The accept loop takes a connection and touches the session, which is to
\* no effect before it is registered.
Accept(f) ==
    /\ \E p \in Ports : f \in listener[p]
    /\ conn[f] = "none"
    /\ conn' = [conn EXCEPT ![f] = "dialing"]
    /\ idle' = IF f \in Open THEN [idle EXCEPT ![f] = FALSE] ELSE idle
    /\ UNCHANGED <<phase, hunt, listener>>

\* The tunnel to the pod is opened and the two ends are piped.
DialOk(f) ==
    /\ conn[f] = "dialing"
    /\ conn' = [conn EXCEPT ![f] = "piping"]
    /\ UNCHANGED <<phase, hunt, listener, idle>>

\* It cannot be opened, or one of the two ends stops.
Hangup(f) ==
    /\ conn[f] # "none"
    /\ conn' = [conn EXCEPT ![f] = "none"]
    /\ UNCHANGED <<phase, hunt, listener, idle>>

Forward(f) ==
    \/ Start(f) \/ Listen(f) \/ ListenBusy(f) \/ HuntFails(f) \/ Add(f)
    \/ Get(f) \/ Remove(f) \/ Age(f) \/ Accept(f) \/ DialOk(f) \/ Hangup(f)

Next == (\E f \in Forwards : Forward(f)) \/ List

\* The handler that opens a forward runs to its end; nobody has to call the
\* registry.
Fairness ==
    \A f \in Forwards :
        WF_vars(Listen(f) \/ ListenBusy(f) \/ HuntFails(f)) /\ WF_vars(Add(f))

Spec == Init /\ [][Next]_vars /\ Fairness

-----------------------------------------------------------------------------
(* Properties. *)

\* Shape of the state; the port a session is told is the one of its hunt.
TypeOK ==
    /\ phase \in [Forwards -> {"none", "hunt", "ready", "open", "closed"}]
    /\ candidate \in [Forwards -> 0 .. To + 1]
    /\ last \in [Forwards -> 0 .. To]
    /\ port \in [Forwards -> Ports \cup {0}]
    /\ listener \in [Ports -> SUBSET Forwards]
    /\ conn \in [Forwards -> {"none", "dialing", "piping"}]
    /\ idle \in [Forwards -> BOOLEAN]
    /\ \A f \in Forwards : candidate[f] <= last[f] + 1

\* No port leaks and none is announced in vain: on every port listens at most
\* one session, and a session listens exactly from its hunt's success until
\* it ends, so that what a closed one held can be bound again.
PortsAccounted ==
    /\ \A p \in Ports : Cardinality(listener[p]) <= 1
    /\ \A f \in Forwards, p \in Ports :
          f \in listener[p] <=> port[f] = p /\ phase[f] \in {"ready", "open"}

\* Every forward that is started ends up registered, with a port or without:
\* the hunt ends though other sessions take and free ports meanwhile.
Answered == \A f \in Forwards : phase[f] \notin {"hunt", "ready"}

StartIsAnswered == <>[]Answered

-----------------------------------------------------------------------------
(* What makes the invariants inductive. *)

\* A session that hunts, or has not begun, was told no port, and hunts inside
\* the range.
Hunting ==
    \A f \in Forwards :
        /\ phase[f] \in {"none", "hunt"} => port[f] = 0
        /\ phase[f] = "hunt" => candidate[f] >= From

\* The listeners of a port as sets, of which PortsAccounted counts the members.
Alone == \A p \in Ports : \A f, g \in listener[p] : f = g

Held ==
    \A f \in Forwards, p \in Ports :
        f \in listener[p] <=> port[f] = p /\ phase[f] \in {"ready", "open"}

IInv == TypeOK /\ Hunting /\ Alone /\ Held
=============================================================================
