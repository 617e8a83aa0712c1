------------------------------- MODULE Tunnel -------------------------------
(***************************************************************************)
(* One connection of a port-forward: a tunnel to a port of a pod is dialed *)
(* and bytes are copied both ways, by two goroutines, while a third waits  *)
(* for the refusal that the cluster sends on a stream of its own.  On a    *)
(* local port both copies are waited for; on a socket of the browser the   *)
(* first thing that ends ends the connection.                              *)
(* (server/internal/cluster/forward_listen.go, forward_dial.go,            *)
(*  portforward.go, server/internal/httpapi/exec_handlers.go)              *)
(***************************************************************************)
EXTENDS Naturals

CONSTANT MaxSent    \* bound on what either end sends

TunnelAssumption == MaxSent \in Nat

VARIABLES
    kind,      \* "port" (a local port) or "socket" (a browser's websocket)
    client,    \* "open", "half" (sends no more, still reads) or "left"
    pod,       \* the pod's end: "open" or "closed"
    errors,    \* the error stream: "open", "refusal" or "ended"
    asked,     \* what the client has sent, how much was read and written on:
               \* [sent, read, passed]
    answer,    \* the same from the pod to the client
    up, down,  \* the two copies: "read", "write", "over" or, before, "none"
    watcher,   \* the reader of the error stream: "none", "read", "refused", "over"
    handler,   \* "dial", "select", "last" (waits for a copy), "over"
    upstream   \* the tunnel as this side holds it: "none", "open", "closed"

ends == <<client, pod, errors>>
copies == <<asked, answer, up, down>>
vars == <<kind, ends, copies, watcher, handler, upstream>>

Flow == [sent : 0 .. MaxSent, read : 0 .. MaxSent, passed : 0 .. MaxSent]
Still == [sent |-> 0, read |-> 0, passed |-> 0]

Init ==
    /\ kind \in {"port", "socket"}
    /\ client = "open" /\ pod = "open" /\ errors = "open"
    /\ asked = Still /\ answer = Still
    /\ up = "none" /\ down = "none" /\ watcher = "none"
    /\ handler = "dial" /\ upstream = "none"

-----------------------------------------------------------------------------
(* The two ends. *)

ClientSends ==
    /\ client = "open" /\ asked.sent < MaxSent
    /\ asked' = [asked EXCEPT !.sent = @ + 1]
    /\ UNCHANGED <<kind, ends, answer, up, down, watcher, handler, upstream>>

\* The client has sent its request and waits, which a websocket cannot say.
HalfCloses ==
    /\ kind = "port" /\ client = "open" /\ client' = "half"
    /\ UNCHANGED <<kind, pod, errors, copies, watcher, handler, upstream>>

Leaves ==
    /\ client # "left" /\ client' = "left"
    /\ UNCHANGED <<kind, pod, errors, copies, watcher, handler, upstream>>

PodSends ==
    /\ upstream # "none" /\ pod = "open" /\ errors = "open" /\ answer.sent < MaxSent
    /\ answer' = [answer EXCEPT !.sent = @ + 1]
    /\ UNCHANGED <<kind, ends, asked, up, down, watcher, handler, upstream>>

\* Nothing listens on the port, or it broke: the cluster says so on the error
\* stream, before it ends the data.
Refuses ==
    /\ upstream # "none" /\ pod = "open" /\ errors = "open"
    /\ errors' = "refusal"
    /\ UNCHANGED <<kind, client, pod, copies, watcher, handler, upstream>>

\* The pod's end is done: the streams end, the one of errors first.
PodCloses ==
    /\ upstream # "none" /\ pod = "open"
    /\ pod' = "closed" /\ errors' = IF errors = "open" THEN "ended" ELSE errors
    /\ UNCHANGED <<kind, client, copies, watcher, handler, upstream>>

-----------------------------------------------------------------------------
(* Opening. *)

DialOk ==
    /\ handler = "dial" /\ handler' = "select" /\ upstream' = "open"
    /\ up' = "read" /\ down' = "read" /\ watcher' = "read"
    /\ UNCHANGED <<kind, ends, asked, answer>>

\* The connection to the client is closed.
DialFails ==
    /\ handler = "dial" /\ handler' = "over"
    /\ UNCHANGED <<kind, ends, copies, watcher, upstream>>

-----------------------------------------------------------------------------
(* Copying. The connection to the client is closed once the handler is over. *)

UpReads ==
    /\ up = "read" /\ asked.read < asked.sent /\ handler # "over"
    /\ up' = "write" /\ asked' = [asked EXCEPT !.read = @ + 1]
    /\ UNCHANGED <<kind, ends, answer, down, watcher, handler, upstream>>

\* The client's end of the stream. A forwardConn has no CloseWrite, so the pod
\* is not told of it.
UpEnds ==
    /\ up = "read"
    /\ client = "left" \/ handler = "over" \/ (client = "half" /\ asked.read = asked.sent)
    /\ up' = "over"
    /\ UNCHANGED <<kind, ends, asked, answer, down, watcher, handler, upstream>>

\* A write to an end that the pod has closed may still be taken.
UpWrites ==
    /\ up = "write" /\ upstream = "open"
    /\ up' = "read" /\ asked' = [asked EXCEPT !.passed = @ + 1]
    /\ UNCHANGED <<kind, ends, answer, down, watcher, handler, upstream>>

UpFails ==
    /\ up = "write" /\ (upstream = "closed" \/ pod = "closed")
    /\ up' = "over"
    /\ UNCHANGED <<kind, ends, asked, answer, down, watcher, handler, upstream>>

DownReads ==
    /\ down = "read" /\ answer.read < answer.sent /\ upstream = "open"
    /\ down' = "write" /\ answer' = [answer EXCEPT !.read = @ + 1]
    /\ UNCHANGED <<kind, ends, asked, up, watcher, handler, upstream>>

\* The pod's end of the stream, of which the client of a local port is told.
DownEnds ==
    /\ down = "read"
    /\ upstream = "closed" \/ (pod = "closed" /\ answer.read = answer.sent)
    /\ down' = "over"
    /\ UNCHANGED <<kind, ends, asked, answer, up, watcher, handler, upstream>>

DownWrites ==
    /\ down = "write" /\ client # "left" /\ handler # "over"
    /\ down' = "read" /\ answer' = [answer EXCEPT !.passed = @ + 1]
    /\ UNCHANGED <<kind, ends, asked, up, watcher, handler, upstream>>

DownFails ==
    /\ down = "write" /\ (client = "left" \/ handler = "over")
    /\ down' = "over"
    /\ UNCHANGED <<kind, ends, asked, answer, up, watcher, handler, upstream>>

-----------------------------------------------------------------------------
(* The error stream. *)

\* A refusal closes the tunnel of a local port; for a socket it is put where
\* the handler waits.
WatchRefusal ==
    /\ watcher = "read" /\ errors = "refusal"
    /\ watcher' = "refused"
    /\ upstream' = IF kind = "port" THEN "closed" ELSE upstream
    /\ UNCHANGED <<kind, ends, copies, handler>>

\* The stream ends without a word, or with the tunnel.
WatchEnds ==
    /\ watcher = "read" /\ (errors = "ended" \/ upstream = "closed")
    /\ watcher' = "over"
    /\ UNCHANGED <<kind, ends, copies, handler, upstream>>

-----------------------------------------------------------------------------
(* Ending. *)

\* Mutant: the tunnel is not closed.
Finish_Open ==
    /\ handler' = "over"
    /\ UNCHANGED <<kind, ends, copies, watcher, upstream>>

\* The deferred closes.
Finish ==
    /\ handler' = "over" /\ upstream' = "closed"
    /\ UNCHANGED <<kind, ends, copies, watcher>>

\* Mutant: pipe waits for the first copy that ends.
PipeEnds_First ==
    /\ kind = "port" /\ handler = "select" /\ (up = "over" \/ down = "over")
    /\ Finish

\* pipe has both copies.
PipeEnds ==
    /\ kind = "port" /\ handler = "select" /\ up = "over" /\ down = "over"
    /\ Finish

\* The select of Forward, whose cases may be ready together (the context of a
\* request whose connection was taken over ends with its handler): a refusal, ...
SelectRefused ==
    /\ kind = "socket" /\ handler = "select" /\ watcher = "refused"
    /\ Finish

\* ... no refusal, after which only a copy is waited for, ...
SelectAllowed ==
    /\ kind = "socket" /\ handler = "select" /\ watcher = "over"
    /\ handler' = "last"
    /\ UNCHANGED <<kind, ends, copies, watcher, upstream>>

\* ... or one of the copies, before or in place of a refusal.
SelectDone ==
    /\ kind = "socket" /\ handler \in {"select", "last"}
    /\ up = "over" \/ down = "over"
    /\ Finish

Next ==
    \/ ClientSends \/ HalfCloses \/ Leaves \/ PodSends \/ Refuses \/ PodCloses
    \/ DialOk \/ DialFails
    \/ UpReads \/ UpEnds \/ UpWrites \/ UpFails
    \/ DownReads \/ DownEnds \/ DownWrites \/ DownFails
    \/ WatchRefusal \/ WatchEnds
    \/ PipeEnds \/ SelectRefused \/ SelectAllowed \/ SelectDone

CopyUp == UpReads \/ UpEnds \/ UpWrites \/ UpFails
CopyDown == DownReads \/ DownEnds \/ DownWrites \/ DownFails
Watch == WatchRefusal \/ WatchEnds
Serve == DialOk \/ DialFails \/ PipeEnds \/ SelectRefused \/ SelectAllowed \/ SelectDone

\* The goroutines run; clients, pods and clusters owe nothing.
Fairness == WF_vars(CopyUp) /\ WF_vars(CopyDown) /\ WF_vars(Watch) /\ WF_vars(Serve)

Spec == Init /\ [][Next]_vars /\ Fairness

-----------------------------------------------------------------------------
(* Properties. *)

\* The shape of the state; nothing is passed on that was not sent.
TypeOK ==
    /\ kind \in {"port", "socket"} /\ client \in {"open", "half", "left"}
    /\ pod \in {"open", "closed"} /\ errors \in {"open", "refusal", "ended"}
    /\ asked \in Flow /\ answer \in Flow
    /\ \A f \in {asked, answer} : f.passed <= f.read /\ f.read <= f.sent
    /\ {up, down} \subseteq {"none", "read", "write", "over"}
    /\ watcher \in {"none", "read", "refused", "over"}
    /\ handler \in {"dial", "select", "last", "over"}
    /\ upstream \in {"none", "open", "closed"}

\* A client that stays gets the whole answer of the pod, though the two halves
\* of the connection end at different times and the tunnel is closed under
\* both: unless the cluster refused, or, on a socket, something the client
\* sent could not be passed on.
AnswerWhole ==
    /\ upstream = "closed" /\ client # "left" /\ errors # "refusal"
    /\ kind = "socket" => asked.passed = asked.sent
    => answer.passed = answer.sent

\* Nothing is left of a connection that neither end wants: on a socket it is
\* enough that one of them went, on a local port the pod has to be done too,
\* and the client that stays has to be done sending.
Over == handler = "over" /\ {up, down} \subseteq {"none", "over"} /\ watcher # "read"
Unwanted ==
    \/ kind = "socket" /\ (client = "left" \/ pod = "closed")
    \/ kind = "port" /\ client # "open" /\ pod = "closed"
Released == Unwanted => Over

TunnelReleased == <>[]Released

-----------------------------------------------------------------------------
(* What makes AnswerWhole inductive. *)

\* How far the parts are with one another: nothing runs before the dial, the
\* tunnel goes when the handler ends, and before that only by a refusal.
Stages ==
    /\ upstream = "none" => /\ handler \in {"dial", "over"}
                           /\ up = "none" /\ down = "none" /\ watcher = "none"
    /\ upstream # "none" => handler # "dial"
    /\ upstream = "open" => handler # "over"
    /\ upstream = "closed" /\ handler # "over" => errors = "refusal"
    /\ watcher = "refused" => errors = "refusal"
    /\ client = "half" => kind = "port"

\* A copy has passed on what it read but for what it holds; one that ended on
\* an open tunnel did so with the end it read from, or because a write failed.
Copying ==
    /\ up = "write" => asked.passed < asked.read
    /\ down = "write" => answer.passed + 1 = answer.read
    /\ down \in {"none", "read"} => answer.passed = answer.read
    /\ up = "over" => \/ client = "left" \/ upstream = "closed" \/ kind = "port"
                      \/ asked.passed < asked.sent
    /\ down = "over" => \/ client = "left" \/ upstream = "closed"
                        \/ pod = "closed" /\ answer.passed = answer.sent

\* Where AnswerWhole promises the answer, the pod is also done.
Settled ==
    /\ upstream = "closed" /\ client # "left" /\ errors # "refusal"
    /\ kind = "socket" => asked.passed = asked.sent
    => pod = "closed" /\ answer.passed = answer.sent

IInv == TypeOK /\ Stages /\ Copying /\ Settled
=============================================================================
