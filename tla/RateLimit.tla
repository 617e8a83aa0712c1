----------------------------- MODULE RateLimit -----------------------------
(***************************************************************************)
(* The rate limiter: a token bucket for every client address, kept in a    *)
(* map from which a background sweep drops the buckets nobody used for a   *)
(* while.  The address is the peer's, or what trusted proxies say of it.   *)
(* (src/server/internal/httpapi: ratelimit.go, realip.go, router.go)       *)
(***************************************************************************)
EXTENDS Integers, Sequences
LOCAL INSTANCE SequencesExt
LOCAL INSTANCE FiniteSetsExt

CONSTANTS Keys,      \* the addresses of clients
          Proxies,   \* the trusted proxies
          Garbage,   \* what is no address: a hop that does not parse, a header not there
          Forged,    \* the headers a client may send
          Routes,    \* the ways through the proxies: sequences of them
          Cost,      \* a minute over LoginRatePerMinute, in ticks
          Full,      \* LoginRateBurst of them
          IdleTTL,   \* idleTTL, in ticks
          Every      \* ticks between two sweeps

Address == Keys \cup Proxies
Hop == Address \cup {Garbage}

\* The headers of a request: the hops of its first X-Forwarded-For line, which
\* is all that Header.Get reads, those of the lines behind it, and X-Real-Ip.
Headers == [first : Seq(Hop), rest : Seq(Hop), real : Hop]

\* A bucket that idles long enough to be dropped has refilled: with the rates
\* and bursts as shipped that takes half a minute, of the fifteen of idleTTL.
\* Config.Load refuses no burst that takes longer.
LimitAssumption ==
  /\ Cost \in Nat \ {0} /\ Full \in Nat
  /\ IdleTTL \in Nat /\ Full <= IdleTTL
  /\ Every \in Nat \ {0}
  /\ Keys \cap Proxies = {} /\ Garbage \notin Address
  /\ Forged \subseteq Headers
  /\ Routes \subseteq Seq(Proxies)

ASSUME LimitAssumption

VARIABLES buckets,  \* address -> [tokens, since, idle], or Gone
          clock,    \* ticks since the last sweep
          reply,    \* the last request: <<address, went through>>, or <<>>
          origin    \* history: <<the client that sent it, vouched for>>, or <<>>

vars == <<buckets, clock, reply, origin>>

Gone == [tokens |-> Full, since |-> 0, idle |-> -1]

Init ==
  /\ buckets = [k \in Address |-> Gone]
  /\ clock = 0
  /\ reply = <<>>
  /\ origin = <<>>

-----------------------------------------------------------------------------
(* The address of a request. *)

\* From the right, the first hop that is no trusted proxy.
Candidates(hops) == {i \in DOMAIN hops : hops[i] \in Address \ Proxies}

\* Mutant: the hop the client is said to be, from the left.
FromHeaders_Left(h) ==
  IF h.first = <<>> THEN h.real
  ELSE IF Candidates(h.first) = {} THEN Garbage ELSE h.first[Min(Candidates(h.first))]

\* clientFromHeaders: X-Real-Ip, whoever it names, is read in place of a first
\* line that says nothing.
FromHeaders(h) ==
  IF h.first = <<>> THEN h.real
  ELSE IF Candidates(h.first) = {} THEN Garbage ELSE h.first[Max(Candidates(h.first))]

\* realIP: the headers count when the peer is a trusted proxy and they name
\* somebody.
ClientKey(peer, h) ==
  IF peer \in Proxies /\ FromHeaders(h) # Garbage THEN FromHeaders(h) ELSE peer

(* The proxies are external, and differ in how they tell where a call came
   from: some append it to the one X-Forwarded-For line, some add a line of
   their own, some say it in X-Real-Ip and pass the rest on as it came.  A route
   is of proxies of one manner. *)
Manners == {"append", "line", "real"}

Silent == [first |-> <<>>, rest |-> <<>>, real |-> Garbage]

\* The headers that client k forged, as the server gets them.
Arrive(k, forged, route, manner) ==
  LET callers == <<k>> \o Front(route)
  IN  CASE route = <<>> -> forged
        [] route # <<>> /\ manner = "append" ->
             [first |-> (forged.first \o forged.rest) \o callers, rest |-> <<>>, real |-> forged.real]
        [] route # <<>> /\ manner = "line" ->
             IF forged.first \o forged.rest = <<>>
             THEN [first |-> <<k>>, rest |-> Front(route), real |-> forged.real]
             ELSE [first |-> forged.first, rest |-> forged.rest \o callers, real |-> forged.real]
        [] OTHER -> [first |-> forged.first, rest |-> forged.rest, real |-> Last(callers)]

Peer(k, route) == IF route = <<>> THEN k ELSE Last(route)

\* What can be known of the client that sent a request: whatever it forged, when
\* it came by itself or by proxies that append; when it forged nothing, by any
\* but a second proxy that overwrites what the first said.
Vouched(forged, route, manner) ==
  \/ route = <<>> \/ manner = "append"
  \/ forged = Silent /\ (manner = "line" \/ Len(route) = 1)

-----------------------------------------------------------------------------
(* The limiter. *)

AtMost(n) == IF n > Full THEN Full ELSE n

\* What rate.Limiter counts: the tokens of the last call and the time since.
Level(b) == AtMost(b.tokens + b.since)

Tick ==
  /\ clock < Every
  /\ clock' = clock + 1
  /\ buckets' = [k \in Address |->
                   IF buckets[k] = Gone THEN Gone
                   ELSE [tokens |-> buckets[k].tokens, since |-> buckets[k].since + 1,
                         idle |-> buckets[k].idle + 1]]
  /\ UNCHANGED <<reply, origin>>

\* Mutant: a request leaves the time it was last seen alone.
Taken_Unseen(b) ==
  [tokens |-> IF Level(b) >= Cost THEN Level(b) - Cost ELSE Level(b),
   since |-> 0, idle |-> IF b = Gone THEN 0 ELSE b.idle]

\* allow: the bucket, a new one if need be, after one call.
Taken(b) ==
  [tokens |-> IF Level(b) >= Cost THEN Level(b) - Cost ELSE Level(b),
   since |-> 0, idle |-> 0]

Allow(k) ==
  /\ reply' = <<k, Level(buckets[k]) >= Cost>>
  /\ buckets' = [buckets EXCEPT ![k] = Taken(@)]
  /\ UNCHANGED clock

\* A request of client k by way of some proxies.
Request(k, forged, route, manner) ==
  /\ origin' = <<k, Vouched(forged, route, manner)>>
  /\ Allow(ClientKey(Peer(k, route), Arrive(k, forged, route, manner)))

\* reset, after a sign-in that succeeded.
Reset(k) ==
  /\ buckets' = [buckets EXCEPT ![k] = Gone]
  /\ UNCHANGED <<clock, reply, origin>>

Sweep ==
  /\ clock = Every
  /\ clock' = 0
  /\ buckets' = [k \in Address |-> IF buckets[k].idle > IdleTTL THEN Gone ELSE buckets[k]]
  /\ UNCHANGED <<reply, origin>>

Next ==
  \/ Tick \/ Sweep
  \/ \E k \in Address : Reset(k)
  \/ \E k \in Keys, forged \in Forged, route \in Routes, manner \in Manners :
        Request(k, forged, route, manner)

Spec == Init /\ [][Next]_vars

-----------------------------------------------------------------------------
(* Properties. *)

\* The shape of the state; a bucket nobody uses is gone at the second sweep
\* after its time at the latest, so the map keeps to the clients of late.
TypeOK ==
  /\ clock \in 0..Every
  /\ buckets \in [Address -> {Gone} \cup [tokens : 0..Full, since : 0..(IdleTTL + Every),
                                       idle : 0..(IdleTTL + Every)]]

\* A request counts against the client that sent it: whatever it forged, when it
\* came by itself or by trusted proxies that append to X-Forwarded-For; and, when
\* it forged nothing, by proxies that add a line or by one that sets X-Real-Ip
\* (realip.go:22-30, 34-59).  By proxies that do not append a client that forges
\* chooses the address it counts against.
KeyIsTheClient == origin # <<>> /\ origin[2] => reply[1] = origin[1]

\* What the limiter promises is a bucket for every address that is never swept:
\* dropping one, and making it anew, is not to be told from keeping it.
Buckets == INSTANCE TokenBuckets WITH
    Keys <- Address, level <- [k \in Address |-> Level(buckets[k])]

ImplementsTokenBuckets == Buckets!Spec
=============================================================================
