--------------------------- MODULE ServicesProofs ---------------------------
(***************************************************************************)
(* The services behind the requests, whatever the clients, objects, pods,  *)
(* clusters and bounds: for each part of MCServices that has a section     *)
(* here, its inductive invariant holds at first and after every step, and  *)
(* what the runs check follows.                                            *)
(***************************************************************************)
EXTENDS ViewsProofs
LOCAL INSTANCE SequencesExt
LOCAL INSTANCE FiniteSetsExt

-----------------------------------------------------------------------------
(* The rate limit (httpapi/ratelimit.go): a request counts against the     *)
(* client that sent it, and a limiter that drops idle buckets is one that  *)
(* keeps them all.                                                         *)

\* The rightmost hop that could be a client's is one of the hops.
LEMMA Rightmost ==
  ASSUME NEW hops \in Seq(Hop), Candidates(hops) # {}
  PROVE  Max(Candidates(hops)) \in Candidates(hops)
<1> DEFINE places == Candidates(hops)
           I == {Len(hops) - i : i \in places}
<1>1. \A i \in places : i \in Nat /\ i <= Len(hops) /\ Len(hops) \in Nat
  BY DEF Candidates
<1> HIDE DEF places
<1>2. I \in SUBSET Nat /\ I # {}
  BY <1>1 DEF places
<1>3. PICK x \in I : \A y \in I : x <= y
  BY <1>2, Smallest
<1>4. PICK i \in places : x = Len(hops) - i
  BY <1>3
<1>5. \A j \in places : i >= j
  <2> TAKE j \in places
  <2>1. Len(hops) - i <= Len(hops) - j
    BY <1>3, <1>4
  <2> QED BY <1>1, <2>1
<1>6. Max(places) \in places
  BY <1>5, Zenon DEF Max
<1> QED BY <1>6 DEF places

\* Where a call came from at each proxy of a route: the client, then proxies.
LEMMA CallersAre ==
  ASSUME LimitAssumption, NEW k \in Keys, NEW route \in Routes, route # <<>>,
         NEW callers, callers = <<k>> \o Front(route)
  PROVE  /\ k \in Address \ Proxies /\ k # Garbage
         /\ Len(route) \in Nat \ {0} /\ Peer(k, route) \in Proxies
         /\ callers \in Seq(Hop) /\ Len(callers) = Len(route) /\ callers[1] = k
         /\ \A i \in 2..Len(callers) : callers[i] \in Proxies
         /\ Last(callers) \in Address /\ (Len(route) = 1 => Last(callers) = k)
<1>1. route \in Seq(Proxies) /\ k \in Address \ Proxies /\ k # Garbage
  BY DEF LimitAssumption, Address
<1>2. Len(route) \in Nat \ {0} /\ Peer(k, route) \in Proxies
  BY <1>1 DEF Peer, Last
<1>3. Front(route) \in Seq(Proxies) /\ Len(Front(route)) = Len(route) - 1
  BY <1>1, <1>2 DEF Front
<1>4. callers \in Seq(Hop) /\ Len(callers) = Len(route) /\ callers[1] = k
  <2>1. Front(route) \in Seq(Hop) /\ k \in Hop
    BY <1>1, <1>3 DEF Hop, Address
  <2> QED BY <1>2, <1>3, <2>1
<1>5. ASSUME NEW i \in 2..Len(callers) PROVE callers[i] \in Proxies
  <2>1. callers[i] = Front(route)[i - 1]
    BY <1>3, <1>4
  <2>2. i - 1 \in 1..Len(Front(route))
    BY <1>2, <1>3, <1>4
  <2> QED BY <1>3, <2>1, <2>2
<1>6. Last(callers) = callers[Len(route)]
  BY <1>4 DEF Last
<1>7. Last(callers) \in Address
  <2>1. CASE Len(route) = 1
    BY <1>1, <1>4, <1>6, <2>1
  <2>2. CASE Len(route) # 1
    <3>1. Len(route) \in 2..Len(callers)
      BY <1>2, <1>4, <2>2
    <3> QED BY <1>5, <1>6, <3>1 DEF Address
  <2> QED BY <2>1, <2>2
<1> QED BY <1>1, <1>2, <1>4, <1>5, <1>6, <1>7

\* Whatever is said of it, a request counts against an address: headers that
\* name nobody are not believed.
LEMMA KeyIsAddress ==
  ASSUME LimitAssumption, NEW k \in Keys, NEW forged \in Forged, NEW route \in Routes,
         NEW manner \in Manners
  PROVE  ClientKey(Peer(k, route), Arrive(k, forged, route, manner)) \in Address
<1> DEFINE h == Arrive(k, forged, route, manner)
           callers == <<k>> \o Front(route)
<1>1. k \in Address /\ k \notin Proxies
  BY DEF LimitAssumption, Address
<1>2. CASE route = <<>>
  <2>1. Peer(k, route) = k
    BY <1>2 DEF Peer
  <2> QED BY <1>1, <2>1 DEF ClientKey
<1>3. CASE route # <<>>
  <2>1. Peer(k, route) \in Address
    BY <1>3, CallersAre DEF Address
  <2>2. forged.first \in Seq(Hop) /\ forged.rest \in Seq(Hop) /\ forged.real \in Hop
    BY DEF LimitAssumption, Headers
  <2>3. callers \in Seq(Hop) /\ Last(callers) \in Hop /\ <<k>> \in Seq(Hop)
    <3>1. callers \in Seq(Hop) /\ Last(callers) \in Address
      BY <1>3, CallersAre
    <3> QED BY <1>1, <3>1 DEF Hop
  <2> HIDE DEF callers
  <2>4. h.first \in Seq(Hop) /\ h.real \in Hop
    <3>1. CASE manner = "append"
      <4>1. h = [first |-> (forged.first \o forged.rest) \o callers, rest |-> <<>>, real |-> forged.real]
        BY <1>3, <3>1 DEF Arrive, callers
      <4> QED BY <2>2, <2>3, <4>1
    <3>2. CASE manner = "line"
      <4>1. h.real = forged.real /\ (h.first = <<k>> \/ h.first = forged.first)
        BY <1>3, <3>2 DEF Arrive
      <4> QED BY <2>2, <2>3, <4>1
    <3>3. CASE manner = "real"
      <4>1. h.first = forged.first /\ h.real = Last(callers)
        BY <1>3, <3>3 DEF Arrive, callers
      <4> QED BY <2>2, <2>3, <4>1
    <3> QED BY <3>1, <3>2, <3>3 DEF Manners
  <2> HIDE DEF h
  <2>5. FromHeaders(h) \in Hop
    <3>1. CASE h.first = <<>>
      BY <2>4, <3>1 DEF FromHeaders
    <3>2. CASE h.first # <<>> /\ Candidates(h.first) # {}
      <4>1. Max(Candidates(h.first)) \in DOMAIN h.first
        BY <2>4, <3>2, Rightmost DEF Candidates
      <4>2. h.first[Max(Candidates(h.first))] \in Hop
        BY <2>4, <4>1
      <4> QED BY <3>2, <4>2 DEF FromHeaders
    <3>3. CASE h.first # <<>> /\ Candidates(h.first) = {}
      BY <3>3 DEF FromHeaders, Hop
    <3> QED BY <3>1, <3>2, <3>3
  <2>6. ClientKey(Peer(k, route), h) \in Address
    BY <2>1, <2>5 DEF ClientKey, Hop
  <2> QED BY <2>6 DEF h
<1> QED BY <1>2, <1>3

\* The client, and the proxies a call went through after it.
CallersOf(k, callers) ==
  /\ callers \in Seq(Hop) /\ Len(callers) >= 1
  /\ callers[1] = k /\ \A i \in 2..Len(callers) : callers[i] \in Proxies

\* A line that realIP reads a client from.
LineOf(k, hops) == hops # <<>> /\ Candidates(hops) # {} /\ hops[Max(Candidates(hops))] = k

\* When the first line ends with the client and proxies, it names the client.
LEMMA LineNames ==
  ASSUME LimitAssumption, NEW k \in Keys, NEW said \in Seq(Hop), NEW callers, CallersOf(k, callers)
  PROVE  LineOf(k, said \o callers)
<1> DEFINE at == Len(said) + 1
           hops == said \o callers
<1>0. /\ callers \in Seq(Hop) /\ Len(callers) >= 1
      /\ callers[1] = k /\ \A i \in 2..Len(callers) : callers[i] \in Proxies
  BY DEF CallersOf
<1>1. k \in Address \ Proxies /\ k # Garbage
  BY DEF LimitAssumption, Address
<1>2. /\ hops \in Seq(Hop)
      /\ Len(hops) = Len(said) + Len(callers)
      /\ \A i \in 1..Len(hops) : hops[i] = IF i <= Len(said) THEN said[i] ELSE callers[i - Len(said)]
  BY <1>0, ConcatProperties
<1> HIDE DEF hops
<1>3. Len(said) \in Nat /\ Len(callers) \in Nat /\ Len(hops) \in Nat
  BY <1>0, <1>2
<1>4. at \in 1..Len(hops)
  BY <1>0, <1>2, <1>3
<1>5. hops[at] = k
  BY <1>0, <1>2, <1>3, <1>4
<1>6. ASSUME NEW j \in 1..Len(hops), j > at  PROVE hops[j] \in Proxies
  <2>1. j - Len(said) \in 2..Len(callers) /\ ~(j <= Len(said))
    BY <1>2, <1>3, <1>6
  <2> QED BY <1>0, <1>2, <2>1
<1>7. DOMAIN hops = 1..Len(hops)
  BY <1>2
<1>8. at \in Candidates(hops)
  BY <1>1, <1>4, <1>5, <1>7 DEF Candidates
<1>9. \A j \in Candidates(hops) : j \in Nat /\ j <= at
  <2> TAKE j \in Candidates(hops)
  <2>1. j \in 1..Len(hops) /\ hops[j] \notin Proxies
    BY <1>7 DEF Candidates
  <2>2. ~(j > at)
    BY <1>6, <2>1
  <2> QED BY <1>3, <2>1, <2>2
<1>10. Max(Candidates(hops)) = at
  <2>1. \A x \in Candidates(hops) : (\A y \in Candidates(hops) : x >= y) => x = at
    BY <1>3, <1>8, <1>9
  <2>2. \A y \in Candidates(hops) : at >= y
    BY <1>3, <1>9
  <2> QED BY <1>8, <2>1, <2>2, Zenon DEF Max
<1>11. hops # <<>>
  BY <1>4
<1> QED BY <1>5, <1>8, <1>10, <1>11 DEF LineOf, hops

\* The client that is vouched for is the one that counts.
LEMMA ClientCounts ==
  ASSUME LimitAssumption, NEW k \in Keys, NEW forged \in Forged, NEW route \in Routes,
         NEW manner \in Manners, Vouched(forged, route, manner)
  PROVE  ClientKey(Peer(k, route), Arrive(k, forged, route, manner)) = k
<1> DEFINE h == Arrive(k, forged, route, manner)
           callers == <<k>> \o Front(route)
<1>1. CASE route = <<>>
  <2>1. Peer(k, route) = k /\ k \notin Proxies
    BY <1>1 DEF Peer, LimitAssumption
  <2> QED BY <2>1 DEF ClientKey
<1>2. CASE route # <<>>
  <2>1. /\ k \in Address \ Proxies /\ k # Garbage /\ Len(route) \in Nat \ {0}
        /\ Peer(k, route) \in Proxies
        /\ callers \in Seq(Hop) /\ Len(callers) = Len(route) /\ callers[1] = k
        /\ \A i \in 2..Len(callers) : callers[i] \in Proxies
        /\ Len(route) = 1 => Last(callers) = k
    BY <1>2, CallersAre
  <2>2. forged.first \in Seq(Hop) /\ forged.rest \in Seq(Hop)
    BY DEF LimitAssumption, Headers
  <2> HIDE DEF callers
  <2>3. CASE manner = "append"
    <3> DEFINE said == forged.first \o forged.rest
               hops == said \o callers
    <3>1. h.first = hops
      BY <1>2, <2>3 DEF Arrive, callers
    <3>2. said \in Seq(Hop)
      BY <2>2
    <3>3. Len(callers) >= 1
      BY <2>1
    <3> HIDE DEF said
    <3>4. CallersOf(k, callers)
      BY <2>1, <3>3 DEF CallersOf
    <3>5. LineOf(k, said \o callers)
      BY <3>2, <3>4, LineNames
    <3> HIDE DEF h
    <3>6. ClientKey(Peer(k, route), h) = k
      BY <2>1, <3>1, <3>5 DEF ClientKey, FromHeaders, LineOf
    <3> QED BY <3>6 DEF h
  <2>4. CASE manner = "line" /\ forged = Silent
    <3>1. forged.first \o forged.rest = <<>>
      BY <2>4 DEF Silent
    <3>2. h.first = <<k>>
      BY <1>2, <2>4, <3>1 DEF Arrive
    <3> DEFINE hops == <<k>>
    <3>3. hops = <<>> \o hops /\ <<>> \in Seq(Hop) /\ CallersOf(k, hops)
      BY <2>1 DEF Hop, CallersOf
    <3>4. h.first = hops
      BY <3>2
    <3>7. LineOf(k, <<>> \o hops)
      <4> HIDE DEF hops
      <4> QED BY <3>3, LineNames
    <3>5. LineOf(k, hops)
      BY <3>3, <3>7
    <3> HIDE DEF hops, h
    <3>6. ClientKey(Peer(k, route), h) = k
      BY <2>1, <3>4, <3>5 DEF ClientKey, FromHeaders, LineOf
    <3> QED BY <3>6 DEF h
  <2>5. CASE manner = "real" /\ forged = Silent /\ Len(route) = 1
    <3>1. h.first = <<>> /\ h.real = k
      BY <1>2, <2>1, <2>5 DEF Arrive, Silent, callers
    <3>2. FromHeaders(h) = k
      BY <3>1 DEF FromHeaders
    <3> QED BY <2>1, <3>2 DEF ClientKey
  <2> QED BY <1>2, <2>3, <2>4, <2>5 DEF Vouched, Manners
<1> QED BY <1>1, <1>2

\* A request counts against the client that sent it, when it can be vouched for.
THEOREM ClientKeyed == ASSUME LimitAssumption PROVE Spec => []KeyIsTheClient
<1>1. Init => KeyIsTheClient
  BY DEF Init, KeyIsTheClient
<1>2. KeyIsTheClient /\ [Next]_vars => KeyIsTheClient'
  <2> SUFFICES ASSUME KeyIsTheClient, [Next]_vars  PROVE KeyIsTheClient'
    OBVIOUS
  <2>1. ASSUME NEW k \in Keys, NEW forged \in Forged, NEW route \in Routes, NEW manner \in Manners,
               Request(k, forged, route, manner)
        PROVE  KeyIsTheClient'
    <3> DEFINE key == ClientKey(Peer(k, route), Arrive(k, forged, route, manner))
    <3>1. origin' = <<k, Vouched(forged, route, manner)>> /\ reply'[1] = key
      BY <2>1 DEF Request, Allow
    <3>2. Vouched(forged, route, manner) => key = k
      BY ClientCounts
    <3> HIDE DEF key
    <3> QED BY <3>1, <3>2 DEF KeyIsTheClient
  <2>2. CASE Tick
    BY <2>2 DEF Tick, KeyIsTheClient
  <2>3. CASE Sweep
    BY <2>3 DEF Sweep, KeyIsTheClient
  <2>4. ASSUME NEW k \in Address, Reset(k)  PROVE KeyIsTheClient'
    BY <2>4 DEF Reset, KeyIsTheClient
  <2>5. CASE UNCHANGED vars
    BY <2>5 DEF vars, KeyIsTheClient
  <2> QED BY <2>1, <2>2, <2>3, <2>4, <2>5 DEF Next
<1> QED BY <1>1, <1>2, PTL DEF Spec

-----------------------------------------------------------------------------
(* The state. *)

\* What a bucket of the map is.
Held == [tokens : 0..Full, since : Nat, idle : Nat]

\* The inductive invariant: a bucket idles as long as its tokens have been
\* growing, and no longer than the sweeps let it.
Steady ==
  /\ clock \in 0..Every
  /\ buckets \in [Address -> Held \cup {Gone}]
  /\ \A k \in Address : buckets[k] # Gone =>
        buckets[k].since = buckets[k].idle /\ buckets[k].idle <= IdleTTL + clock

\* The times are numbers.
LEMMA Numbers ==
  ASSUME LimitAssumption
  PROVE  Cost \in Nat /\ Full \in Nat /\ IdleTTL \in Nat /\ Every \in Nat
BY DEF LimitAssumption

\* A tick adds to both times of a bucket, and to nothing else.
LEMMA TickAdds ==
  ASSUME Tick, NEW k \in Address, buckets[k] \in Held, buckets[k] # Gone
  PROVE  /\ buckets'[k] \in Held
         /\ buckets'[k].tokens = buckets[k].tokens
         /\ buckets'[k].since = buckets[k].since + 1
         /\ buckets'[k].idle = buckets[k].idle + 1
<1>1. buckets'[k] = [tokens |-> buckets[k].tokens, since |-> buckets[k].since + 1,
                     idle |-> buckets[k].idle + 1]
  BY DEF Tick
<1>2. buckets[k].tokens \in 0..Full /\ buckets[k].since \in Nat /\ buckets[k].idle \in Nat
  BY DEF Held
<1> QED BY <1>1, <1>2 DEF Held

\* Taking from a bucket leaves one that was just seen.
LEMMA TakenHeld ==
  ASSUME LimitAssumption, NEW b \in Held \cup {Gone}
  PROVE  /\ Taken(b) \in Held
         /\ Taken(b).since = 0 /\ Taken(b).idle = 0
<1>1. b.tokens \in 0..Full /\ b.since \in Nat
  BY DEF Held, Gone, LimitAssumption
<1>2. Level(b) \in 0..Full
  BY <1>1 DEF Level, AtMost, LimitAssumption
<1>3. (IF Level(b) >= Cost THEN Level(b) - Cost ELSE Level(b)) \in 0..Full
  BY <1>2 DEF LimitAssumption
<1> QED BY <1>3 DEF Taken, Held

\* Every step keeps the invariant.
THEOREM SteadyAlways == ASSUME LimitAssumption PROVE Spec => []Steady
<1>1. Init => Steady
  BY DEF Init, Steady, LimitAssumption
<1>2. Steady /\ [Next]_vars => Steady'
  <2> SUFFICES ASSUME Steady, [Next]_vars  PROVE Steady'
    OBVIOUS
  <2>1. ASSUME NEW k \in Keys, NEW forged \in Forged, NEW route \in Routes, NEW manner \in Manners,
               Request(k, forged, route, manner)
        PROVE  Steady'
    <3> DEFINE key == ClientKey(Peer(k, route), Arrive(k, forged, route, manner))
    <3>1. Allow(key) /\ key \in Address
      BY <2>1, KeyIsAddress DEF Request
    <3> HIDE DEF key
    <3>2. buckets[key] \in Held \cup {Gone}
      BY <3>1 DEF Steady
    <3>3. /\ buckets' = [buckets EXCEPT ![key] = Taken(buckets[key])]
          /\ clock' = clock
      BY <3>1 DEF Allow
    <3>4. /\ Taken(buckets[key]) \in Held
          /\ Taken(buckets[key]).since = 0 /\ Taken(buckets[key]).idle = 0
      BY <3>2, TakenHeld
    <3>5. clock \in Nat /\ IdleTTL \in Nat
      BY Numbers DEF Steady
    <3> QED BY <3>1, <3>3, <3>4, <3>5 DEF Steady
  <2>2. CASE Tick
    <3>1. ASSUME NEW k \in Address
          PROVE  /\ buckets'[k] \in Held \cup {Gone}
                 /\ buckets'[k] # Gone =>
                       buckets'[k].since = buckets'[k].idle /\ buckets'[k].idle <= IdleTTL + clock'
      <4>1. CASE buckets[k] = Gone
        BY <2>2, <4>1 DEF Tick
      <4>2. CASE buckets[k] # Gone
        <5>2. /\ buckets[k] \in Held
              /\ buckets[k].since = buckets[k].idle /\ buckets[k].idle <= IdleTTL + clock
          BY <4>2 DEF Steady
        <5>3. /\ buckets'[k] \in Held
              /\ buckets'[k].since = buckets[k].since + 1 /\ buckets'[k].idle = buckets[k].idle + 1
          BY <2>2, <4>2, <5>2, TickAdds
        <5>4. clock' = clock + 1 /\ clock \in Nat /\ IdleTTL \in Nat /\ buckets[k].idle \in Nat
          <6>1. clock' = clock + 1
            BY <2>2 DEF Tick
          <6>2. buckets[k].idle \in Nat
            BY <5>2 DEF Held
          <6>3. clock \in Nat
            BY Numbers DEF Steady
          <6> QED BY <6>1, <6>2, <6>3, Numbers
        <5> QED BY <5>2, <5>3, <5>4
      <4> QED BY <4>1, <4>2
    <3>2. clock' \in 0..Every
      <4>1. clock' = clock + 1 /\ clock < Every
        BY <2>2 DEF Tick
      <4>2. clock \in 0..Every
        BY DEF Steady
      <4> QED BY <4>1, <4>2, Numbers
    <3>3. buckets' = [k \in Address |-> buckets'[k]]
      BY <2>2 DEF Tick
    <3> QED BY <3>1, <3>2, <3>3 DEF Steady
  <2>3. CASE Sweep
    BY <2>3 DEF Sweep, Steady, LimitAssumption, Held
  <2>4. ASSUME NEW k \in Address, Reset(k)  PROVE Steady'
    BY <2>4 DEF Reset, Steady
  <2>5. CASE UNCHANGED vars
    BY <2>5 DEF vars, Steady
  <2> QED BY <2>1, <2>2, <2>3, <2>4, <2>5 DEF Next
<1> QED BY <1>1, <1>2, PTL DEF Spec

-----------------------------------------------------------------------------
(* The refinement. *)

\* A bucket that idled past its time is full, so it is not missed.
LEMMA SweptIsFull ==
  ASSUME LimitAssumption, NEW b \in Held, b.since = b.idle, b.idle > IdleTTL
  PROVE  Level(b) = Level(Gone)
BY DEF Level, AtMost, Gone, Held, LimitAssumption

\* Every behaviour of the limiter is one of buckets that never go away.
THEOREM Implements == ASSUME LimitAssumption PROVE Spec => ImplementsTokenBuckets
<1> DEFINE level == [k \in Address |-> Level(buckets[k])]
<1>1. Init => Buckets!Init
  BY DEF Init, Buckets!Init, Level, AtMost, Gone, LimitAssumption
<1>2. Steady /\ [Next]_vars => [Buckets!Next]_<<level, reply>>
  <2> SUFFICES ASSUME Steady, [Next]_vars  PROVE [Buckets!Next]_<<level, reply>>
    OBVIOUS
  <2>1. ASSUME NEW k \in Keys, NEW forged \in Forged, NEW route \in Routes, NEW manner \in Manners,
               Request(k, forged, route, manner)
        PROVE  Buckets!Next
    <3> DEFINE key == ClientKey(Peer(k, route), Arrive(k, forged, route, manner))
    <3>1. Allow(key) /\ key \in Address
      BY <2>1, KeyIsAddress DEF Request
    <3> HIDE DEF key
    <3>2. Level(Taken(buckets[key])) = IF Level(buckets[key]) >= Cost THEN Level(buckets[key]) - Cost
                                     ELSE Level(buckets[key])
      <4>1. buckets[key].tokens \in 0..Full /\ buckets[key].since \in Nat
        BY <3>1 DEF Steady, Held, Gone, LimitAssumption
      <4> QED BY <4>1 DEF Taken, Level, AtMost, LimitAssumption
    <3>3. buckets' = [buckets EXCEPT ![key] = Taken(buckets[key])]
      BY <3>1 DEF Allow
    <3>4. level' = [j \in Address |-> IF j = key THEN Level(Taken(buckets[key])) ELSE Level(buckets[j])]
      BY <3>3 DEF Steady
    <3>5. Buckets!Request(key)
      BY <3>1, <3>2, <3>4 DEF Buckets!Request, Allow
    <3> QED BY <3>1, <3>5 DEF Buckets!Next
  <2>2. CASE Tick
    <3>1. ASSUME NEW k \in Address 
          PROVE  Level(buckets'[k]) = Buckets!AtMost(Level(buckets[k]) + 1)
      <4>1. CASE buckets[k] = Gone
        BY <2>2, <4>1 DEF Tick, Gone, Level, AtMost, Buckets!AtMost, LimitAssumption
      <4>2. CASE buckets[k] # Gone
        <5>2. buckets[k] \in Held
          BY <4>2 DEF Steady
        <5>3. /\ buckets'[k].since = buckets[k].since + 1
              /\ buckets'[k].tokens = buckets[k].tokens
          BY <2>2, <4>2, <5>2, TickAdds
        <5>4. buckets[k].tokens \in Nat /\ buckets[k].since \in Nat
          BY <5>2, Numbers DEF Held
        <5> QED BY <5>3, <5>4, Numbers DEF Level, AtMost, Buckets!AtMost
      <4> QED BY <4>1, <4>2
    <3>2. Buckets!Tick
      BY <2>2, <3>1 DEF Buckets!Tick, Tick
    <3> QED BY <3>2 DEF Buckets!Next
  <2>3. CASE Sweep
    <3>1. ASSUME NEW k \in Address  PROVE Level(buckets'[k]) = Level(buckets[k])
      <4>1. CASE buckets[k].idle > IdleTTL
        <5>1. buckets[k] # Gone
          BY <4>1 DEF Gone, LimitAssumption
        <5>2. buckets'[k] = Gone
          BY <2>3, <4>1 DEF Sweep
        <5>3. buckets[k] \in Held /\ buckets[k].since = buckets[k].idle
          BY <5>1 DEF Steady
        <5> QED BY <4>1, <5>2, <5>3, SweptIsFull
      <4>2. CASE ~(buckets[k].idle > IdleTTL)
        BY <2>3, <4>2 DEF Sweep
      <4> QED BY <4>1, <4>2
    <3> QED BY <2>3, <3>1 DEF Sweep
  <2>4. ASSUME NEW k \in Address, Reset(k)  PROVE Buckets!Next
    <3>1. Level(Gone) = Full
      BY DEF Level, AtMost, Gone, LimitAssumption
    <3>2. buckets' = [buckets EXCEPT ![k] = Gone]
      BY <2>4 DEF Reset
    <3>3. level' = [j \in Address |-> IF j = k THEN Level(Gone) ELSE Level(buckets[j])]
      BY <3>2 DEF Steady
    <3>4. Buckets!Reset(k)
      BY <2>4, <3>1, <3>3 DEF Reset, Buckets!Reset
    <3> QED BY <3>4 DEF Buckets!Next
  <2>5. CASE UNCHANGED vars
    BY <2>5 DEF vars
  <2> QED BY <2>1, <2>2, <2>3, <2>4, <2>5 DEF Next
<1> QED BY <1>1, <1>2, SteadyAlways, PTL DEF Spec, ImplementsTokenBuckets, Buckets!Spec

-----------------------------------------------------------------------------
(* The drains (cluster/drain.go). *)

\* The invariant of a drain holds at first.
LEMMA DrainsInit == Drains!Init => Drains!IInv
<1> SUFFICES ASSUME Drains!Init PROVE Drains!IInv
    OBVIOUS
<1>1. /\ DrainFaults \in Nat /\ DrainChanges \in Nat
      /\ s1 = FALSE /\ s6 = FALSE /\ s7 = FALSE /\ s3 = "idle" /\ s4 = {} /\ s5 = {} /\ s8 = 0 /\ s9 = 0
      /\ s2 \in [Movable \cup Daemons -> {"away", "here", "finished"}]
    BY MCDrains DEF Drains!BoundsAssumption, Drains!Init, Drains!Pods
<1>2. Drains!TypeOK
  <2>1. s2 \in [Movable \cup Daemons -> {"away", "here", "leaving", "finished"}]
      BY <1>1
  <2>2. 0 \in 0..DrainFaults /\ 0 \in 0..DrainChanges
      BY <1>1
  <2>3. {s1, s6, s7} \subseteq BOOLEAN
      BY <1>1
  <2> QED BY <1>1, <2>1, <2>2, <2>3 DEF Drains!TypeOK, Drains!Pods
<1> QED BY <1>1, <1>2 DEF Drains!IInv, Drains!Underway, Drains!DrainAccounts

\* Every step of a drain keeps the invariant.
LEMMA DrainsStep == Drains!IInv /\ [Drains!Next]_(Drains!vars) => Drains!IInv'
<1> SUFFICES ASSUME Drains!IInv, [Drains!Next]_(Drains!vars) PROVE Drains!IInv'
    OBVIOUS
<1> DEFINE Where == {"away", "here", "leaving", "finished"}
           All == Movable \cup Daemons
           Kept == /\ s1 \in BOOLEAN /\ s6 \in BOOLEAN /\ s7 \in BOOLEAN
                   /\ s2 \in [All -> Where] /\ s3 \in {"idle", "cordon", "list", "evict"}
                   /\ s4 \subseteq Movable /\ s5 \subseteq Movable
                   /\ s8 \in Nat /\ s8 <= DrainFaults /\ s9 \in Nat /\ s9 <= DrainChanges
                   /\ Drains!Underway /\ Drains!DrainAccounts
<1>0. /\ Movable \cap Daemons = {} /\ DrainFaults \in Nat /\ DrainChanges \in Nat
      /\ Kept
    BY MCDrains DEF Drains!BoundsAssumption, Drains!IInv, Drains!TypeOK, Drains!Pods
<1>k. Kept' => Drains!IInv'
  <2> HAVE Kept'
  <2>1. {s1, s6, s7}' \subseteq BOOLEAN
      OBVIOUS
  <2>2. s8' \in 0..DrainFaults /\ s9' \in 0..DrainChanges
      BY <1>0
  <2> QED BY <2>1, <2>2 DEF Drains!IInv, Drains!TypeOK, Drains!Pods
<1> USE <1>0 DEF Drains!Underway, Drains!DrainAccounts, Drains!Pods, Drains!Faults,
        Drains!Changes
<1>1. CASE Drains!Start
  <2>1. s3' = "cordon" /\ s5' = {} /\ s9 < DrainChanges /\ s9' = s9 + 1
      BY <1>1 DEF Drains!Start
  <2>2. s6' = FALSE /\ s7' = FALSE /\ s1' = s1 /\ s2' = s2 /\ s4' = s4 /\ s8' = s8
      BY <1>1 DEF Drains!Start
  <2>3. s1' \in BOOLEAN /\ s6' \in BOOLEAN /\ s7' \in BOOLEAN
      BY <2>2
  <2>4. Drains!Underway' /\ Drains!DrainAccounts'
      BY <2>1, <2>2
  <2>5. /\ s2' \in [All -> Where] /\ s4' \subseteq Movable /\ s5' \subseteq Movable
        /\ s8' \in Nat /\ s8' <= DrainFaults /\ s9' \in Nat /\ s9' <= DrainChanges
      BY <2>1, <2>2
  <2> QED BY <2>1, <2>3, <2>4, <2>5, <1>k
<1>2. CASE Drains!Cordon
    BY <1>2, <1>k DEF Drains!Cordon
<1>3. CASE Drains!Plan
  <2>1. s3 = "list" /\ s3' = "evict" /\ s4' = Drains!Planned
      BY <1>3 DEF Drains!Plan
  <2>2. s1' = s1 /\ s2' = s2 /\ s5' = s5 /\ s6' = s6 /\ s7' = s7 /\ s8' = s8 /\ s9' = s9
      BY <1>3 DEF Drains!Plan
  <2>3. s4' \subseteq Movable /\ \A p \in Movable : s2[p] = "here" => p \in s4'
      BY <2>1 DEF Drains!Planned, Drains!Stays
  <2>4. Drains!Underway' /\ Drains!DrainAccounts'
      BY <2>1, <2>2, <2>3
  <2> QED BY <2>1, <2>2, <2>3, <2>4, <1>k
<1>4. CASE Drains!Fails
    BY <1>4, <1>k DEF Drains!Fails
<1>5. CASE Drains!Finish
    BY <1>5, <1>k DEF Drains!Finish
<1>6. CASE Drains!Uncordon
  <2>1. s1' = FALSE /\ s7' = TRUE /\ s9 < DrainChanges /\ s9' = s9 + 1
      BY <1>6 DEF Drains!Uncordon
  <2>2. s2' = s2 /\ s3' = s3 /\ s4' = s4 /\ s5' = s5 /\ s6' = s6 /\ s8' = s8
      BY <1>6 DEF Drains!Uncordon
  <2>3. Drains!Underway' /\ Drains!DrainAccounts'
      BY <2>1, <2>2
  <2>4. s1' \in BOOLEAN /\ s6' \in BOOLEAN /\ s7' \in BOOLEAN
      BY <2>1, <2>2
  <2>5. s9' \in Nat /\ s9' <= DrainChanges
      BY <2>1
  <2> QED BY <2>2, <2>3, <2>4, <2>5, <1>k
<1>7. ASSUME NEW p \in Drains!Pods, Drains!Evict(p) PROVE Drains!IInv'
    BY <1>7, <1>k DEF Drains!Evict
<1>8. ASSUME NEW p \in Drains!Pods, Drains!Refuse(p) PROVE Drains!IInv'
    BY <1>8, <1>k DEF Drains!Refuse
<1>9. ASSUME NEW p \in Drains!Pods, Drains!Arrive(p) PROVE Drains!IInv'
    BY <1>9, <1>k DEF Drains!Arrive
<1>10. ASSUME NEW p \in Drains!Pods, Drains!Leave(p) PROVE Drains!IInv'
    BY <1>10, <1>k DEF Drains!Leave
<1>11. ASSUME NEW p \in Drains!Pods, Drains!Complete(p) PROVE Drains!IInv'
    BY <1>11, <1>k DEF Drains!Complete
<1>12. CASE UNCHANGED Drains!vars
    BY <1>12, <1>k DEF Drains!vars
<1> QED BY <1>1, <1>2, <1>3, <1>4, <1>5, <1>6, <1>7, <1>8, <1>9, <1>10, <1>11, <1>12
    DEF Drains!Next

-----------------------------------------------------------------------------
(* The applies (cluster/write.go, write_guard.go). *)

\* The numbers the applies count with are natural.
LEMMA WritesBounds ==
  /\ Applies!Cardinality(Objects) \in Nat
  /\ Objects # {} => Applies!Cardinality(Objects) >= 1
  /\ MaxWrites \in Nat \ {0} /\ GateChanges \in Nat
<1>1. FS!IsFiniteSet(Objects) /\ MaxWrites \in Nat \ {0} /\ GateChanges \in Nat
    BY MCWrites DEF Applies!WritesAssumption, FS!IsFiniteSet, Applies!IsFiniteSet
<1>a. FS!Cardinality(Objects) \in Nat
    BY <1>1, FS!FS_CardinalityType
<1>b. FS!Cardinality(Objects) = 0 <=> Objects = {}
    BY <1>1, FS!FS_EmptySet
<1>3. Applies!Cardinality(Objects) = FS!Cardinality(Objects)
    BY DEF Applies!Cardinality, FS!Cardinality
<1> QED BY <1>1, <1>a, <1>b, <1>3

\* A request that has just come in is one.
LEMMA FreshAsks ==
  Applies!Fresh \in [step : Applies!Steps, dry : BOOLEAN, left : SUBSET Objects,
                     doc : Objects \cup {Nothing},
                     carry : [Objects -> 1..MaxWrites \cup {Nothing}],
                     row : Applies!Rows \cup {Nothing}, current : 0..MaxWrites]
BY WritesBounds DEF Applies!Fresh, Applies!Steps

\* The invariant of the applies holds at first.
LEMMA AppliesInit == Applies!Init => Applies!IInv
<1> SUFFICES ASSUME Applies!Init PROVE Applies!IInv
    OBVIOUS
<1>2. /\ s1 = FALSE /\ s3 = TRUE /\ s2 \in {"read", "write"} /\ s4 \in [Objects -> {0, 1}]
      /\ s5 = [r \in Requests |-> Applies!Fresh] /\ s6 = [r \in Requests |-> 0]
      /\ s7 = FALSE /\ s8 = 0
    BY DEF Applies!Init
<1>3. s4 \in [Objects -> 0..MaxWrites]
    BY <1>2, WritesBounds
<1>4. s6 \in [Requests -> 0..Applies!Cardinality(Objects)] /\ s8 \in 0..GateChanges
    BY <1>2, WritesBounds
<1>5. s1 \in BOOLEAN /\ s3 \in BOOLEAN /\ s7 \in BOOLEAN
    BY <1>2
<1>6. Applies!TypeOK
    BY FreshAsks, <1>2, <1>3, <1>4, <1>5 DEF Applies!TypeOK
<1>7. \A r \in Requests : s5[r].step = "none" /\ s6[r] = 0
    BY <1>2 DEF Applies!Fresh
<1> QED BY <1>2, <1>6, <1>7 DEF Applies!IInv, Applies!InHand, Applies!Stopped,
   Applies!LockStopsAtOne, Applies!NothingClobbered

\* Every step of the applies keeps the invariant.
LEMMA AppliesStep == Applies!IInv /\ [Applies!Next]_(Applies!vars) => Applies!IInv'
<1> SUFFICES ASSUME Applies!IInv, [Applies!Next]_(Applies!vars) PROVE Applies!IInv'
    OBVIOUS
<1> DEFINE Asks == [step : Applies!Steps, dry : BOOLEAN, left : SUBSET Objects,
                    doc : Objects \cup {Nothing},
                    carry : [Objects -> 1..MaxWrites \cup {Nothing}],
                    row : Applies!Rows \cup {Nothing}, current : 0..MaxWrites]
           Card == Applies!Cardinality(Objects)
           Carried(q) == q.step \in {"gates", "get", "send"} => q.doc \in Objects /\ q.row \in Applies!Rows
           Told(q, n) == n # 0 => /\ q.step \notin {"get", "send"}
                                  /\ q.step = "gates" => q.row.lock
<1>0. /\ s1 \in BOOLEAN /\ s3 \in BOOLEAN /\ s7 = FALSE
      /\ s2 \in {"none", "read", "write"} /\ s4 \in [Objects -> 0..MaxWrites]
      /\ s5 \in [Requests -> Asks] /\ s6 \in [Requests -> 0..Card] /\ s8 \in 0..GateChanges
      /\ \A r \in Requests : Carried(s5[r]) /\ Told(s5[r], s6[r])
      /\ \A r \in Requests : s6[r] <= 1 /\ (s6[r] # 0 => s1)
    BY DEF Applies!IInv, Applies!TypeOK, Applies!InHand, Applies!Stopped,
       Applies!LockStopsAtOne, Applies!NothingClobbered
<1>k. ASSUME s1' \in BOOLEAN, s3' \in BOOLEAN, s7' = FALSE,
             s2' \in {"none", "read", "write"}, s4' \in [Objects -> 0..MaxWrites],
             s5' \in [Requests -> Asks], s6' \in [Requests -> 0..Card], s8' \in 0..GateChanges,
             \A r \in Requests : Carried(s5'[r]) /\ Told(s5'[r], s6'[r]),
             \A r \in Requests : s6'[r] <= 1 /\ (s6'[r] # 0 => s1')
      PROVE  Applies!IInv'
    BY <1>k DEF Applies!IInv, Applies!TypeOK, Applies!InHand, Applies!Stopped,
       Applies!LockStopsAtOne, Applies!NothingClobbered
<1>g. ASSUME NEW r \in Requests, NEW next \in Asks, Applies!Goes(r, next), Carried(next),
             Told(next, s6[r]), UNCHANGED <<s1, s2, s3, s4, s6, s7>>, s8' \in 0..GateChanges
      PROVE  Applies!IInv'
  <2>1. s5' \in [Requests -> Asks] /\ s5'[r] = next /\ \A x \in Requests : x # r => s5'[x] = s5[x]
      BY <1>g, <1>0 DEF Applies!Goes
  <2>2. \A x \in Requests : Carried(s5'[x]) /\ Told(s5'[x], s6'[x])
      BY <1>g, <1>0, <2>1
  <2> HIDE DEF Asks, Carried, Told
  <2> QED BY <1>g, <1>0, <1>k, <2>1, <2>2
<1>1. ASSUME NEW r \in Requests, NEW o \in Objects, Applies!Authorise(r, o)
      PROVE  Applies!IInv'
  <2> DEFINE next == [s5[r] EXCEPT !.step = "gates", !.doc = o, !.row = [lock |-> s1, level |-> s2]]
  <2>2. [lock |-> s1, level |-> s2] \in Applies!Rows
      BY <1>0 DEF Applies!Rows
  <2>a. s5[r] \in Asks
      BY <1>0
  <2>b. next \in Asks
      BY <2>a, <2>2 DEF Applies!Steps
  <2>c. next.step = "gates" /\ next.doc = o /\ next.row = [lock |-> s1, level |-> s2]
      BY <2>a
  <2>1. next \in Asks /\ next.step = "gates" /\ next.doc = o /\ next.row = [lock |-> s1, level |-> s2]
      BY <2>b, <2>c
  <2>3. Carried(next) /\ Told(next, s6[r])
      BY <1>0, <2>1, <2>2
  <2>4. Applies!Goes(r, next) /\ UNCHANGED <<s1, s2, s3, s4, s6, s7, s8>>
      BY <1>1 DEF Applies!Authorise
  <2> HIDE DEF next
  <2> QED BY <1>0, <1>g, <2>1, <2>3, <2>4
<1>2. ASSUME NEW r \in Requests, Applies!Gates(r) PROVE Applies!IInv'
  <2> DEFINE pass == Applies!MayWrite(s5[r].row) /\ s3
             next == [s5[r] EXCEPT !.step = IF pass THEN "get" ELSE "over"]
  <2>0. s5[r].step = "gates" /\ Applies!Goes(r, next) /\ UNCHANGED <<s1, s2, s3, s4, s6, s7, s8>>
      BY <1>2 DEF Applies!Gates
  <2>a. s5[r] \in Asks
      BY <1>0
  <2>b. (IF pass THEN "get" ELSE "over") \in Applies!Steps
      BY DEF Applies!Steps
  <2>1. /\ next \in Asks /\ next.step = (IF pass THEN "get" ELSE "over")
        /\ next.doc = s5[r].doc /\ next.row = s5[r].row
      BY <2>a, <2>b
  <2>2. Carried(next)
      BY <1>0, <2>0, <2>1
  <2>3. Told(next, s6[r])
      BY <1>0, <2>0, <2>1 DEF Applies!MayWrite
  <2> HIDE DEF next
  <2> QED BY <1>0, <1>g, <2>0, <2>1, <2>2, <2>3
<1>3. ASSUME NEW r \in Requests, Applies!Get(r) PROVE Applies!IInv'
  <2> DEFINE next == [s5[r] EXCEPT !.step = "send", !.current = s4[s5[r].doc]]
  <2>0. s5[r].step = "get" /\ Applies!Goes(r, next) /\ UNCHANGED <<s1, s2, s3, s4, s6, s7, s8>>
      BY <1>3 DEF Applies!Get
  <2>1. s4[s5[r].doc] \in 0..MaxWrites
      BY <1>0, <2>0
  <2>a. s5[r] \in Asks /\ "send" \in Applies!Steps
      BY <1>0 DEF Applies!Steps
  <2>2. /\ next \in Asks /\ next.step = "send"
        /\ next.doc = s5[r].doc /\ next.row = s5[r].row
      BY <2>1, <2>a
  <2>3. Carried(next) /\ Told(next, s6[r])
      BY <1>0, <2>0, <2>2
  <2> HIDE DEF next
  <2> QED BY <1>0, <1>g, <2>0, <2>2, <2>3
<1>d. ASSUME NEW r \in Requests
      PROVE  /\ Applies!Done(r) \in Asks
             /\ Applies!Done(r).step \in {"over", "document"}
  <2> DEFINE rest == s5[r].left \ {s5[r].doc}
             step == IF rest = {} THEN "over" ELSE "document"
  <2>1. s5[r] \in Asks
      BY <1>0
  <2>2. rest \in SUBSET Objects /\ step \in Applies!Steps /\ step \in {"over", "document"}
      BY <2>1 DEF Applies!Steps
  <2>3. Applies!Done(r) = [s5[r] EXCEPT !.step = step, !.left = rest]
      BY DEF Applies!Done
  <2> HIDE DEF rest, step
  <2> QED BY <2>1, <2>2, <2>3
<1>4. ASSUME NEW r \in Requests, Applies!Fails(r) PROVE Applies!IInv'
  <2>0. Applies!Goes(r, Applies!Done(r)) /\ UNCHANGED <<s1, s2, s3, s4, s6, s7>>
        /\ s8 < GateChanges /\ s8' = s8 + 1
      BY <1>4 DEF Applies!Fails, Applies!Changes
  <2>1. s8' \in 0..GateChanges
      BY <1>0, <2>0, WritesBounds
  <2>2. Carried(Applies!Done(r)) /\ Told(Applies!Done(r), s6[r])
      BY <1>d
  <2> HIDE DEF Asks, Carried, Told
  <2> QED BY <1>g, <1>d, <2>0, <2>1, <2>2
<1>5. ASSUME NEW r \in Requests, Applies!Send(r) PROVE Applies!IInv'
  <2> DEFINE q == s5[r]
  <2>0. /\ q.step = "send" /\ Applies!Goes(r, Applies!Done(r))
        /\ UNCHANGED <<s1, s2, s3, s8>>
      BY <1>5 DEF Applies!Send
  <2>1. q.doc \in Objects /\ s6[r] = 0 /\ q \in Asks
      BY <1>0, <2>0
  <2>2. CASE Applies!Accepts(q) /\ ~q.dry
    <3>0. /\ s4[q.doc] < MaxWrites /\ s4' = [s4 EXCEPT ![q.doc] = @ + 1]
          /\ s6' = IF s1 THEN [s6 EXCEPT ![r] = @ + 1] ELSE s6
          /\ s7' = (s7 \/ (q.carry[q.doc] \notin {Nothing, s4[q.doc]} /\ s4[q.doc] > 0))
        BY <1>5, <2>2 DEF Applies!Send
    <3>1. s4' \in [Objects -> 0..MaxWrites]
        BY <1>0, <2>1, <3>0, WritesBounds
    <3>2. ~(q.carry[q.doc] \notin {Nothing, s4[q.doc]} /\ s4[q.doc] > 0)
        BY <2>2, <2>1 DEF Applies!Accepts, Applies!Version
    <3>3. s7' = FALSE
        BY <3>0, <3>2, <1>0
    <3>4. /\ s6' \in [Requests -> 0..Card] /\ s6'[r] <= 1 /\ (s6'[r] # 0 => s1)
          /\ \A x \in Requests : x # r => s6'[x] = s6[x]
      <4>1. CASE s1
          BY <4>1, <1>0, <2>1, <3>0, WritesBounds
      <4>2. CASE ~s1
          BY <4>2, <1>0, <2>1, <3>0
      <4> QED BY <4>1, <4>2
    <3>5. s5' \in [Requests -> Asks] /\ s5'[r] = Applies!Done(r)
          /\ \A x \in Requests : x # r => s5'[x] = s5[x]
        BY <1>0, <1>d, <2>0 DEF Applies!Goes
    <3>6. \A x \in Requests : Carried(s5'[x]) /\ Told(s5'[x], s6'[x])
        BY <1>0, <1>d, <3>4, <3>5
    <3>7. \A x \in Requests : s6'[x] <= 1 /\ (s6'[x] # 0 => s1')
        BY <1>0, <3>4, <2>0
    <3> HIDE DEF Asks, Carried, Told, q
    <3> QED BY <1>0, <1>k, <2>0, <3>1, <3>3, <3>4, <3>5, <3>6, <3>7
  <2>3. CASE ~(Applies!Accepts(q) /\ ~q.dry)
    <3>0. UNCHANGED <<s4, s6, s7>>
        BY <1>5, <2>3 DEF Applies!Send
    <3>1. Carried(Applies!Done(r)) /\ Told(Applies!Done(r), s6[r])
        BY <1>d
    <3> HIDE DEF Asks, Carried, Told, q
    <3> QED BY <1>0, <1>g, <1>d, <2>0, <3>0, <3>1
  <2> QED BY <2>2, <2>3
<1>6. ASSUME NEW r \in Requests, NEW seen \in SUBSET Objects, Applies!Open(r, seen)
      PROVE  Applies!IInv'
  <2> DEFINE carry == [o \in Objects |-> IF o \in seen THEN s4[o] ELSE Nothing]
             next == [Applies!Fresh EXCEPT !.step = "edit", !.carry = carry]
  <2>0. /\ \A o \in seen : s4[o] > 0
        /\ Applies!Goes(r, next) /\ UNCHANGED <<s1, s2, s3, s4, s6, s7, s8>>
      BY <1>6 DEF Applies!Open
  <2>1. carry \in [Objects -> 1..MaxWrites \cup {Nothing}]
      BY <1>0, <2>0
  <2>a. Applies!Fresh \in Asks
      BY FreshAsks
  <2>b. "edit" \in Applies!Steps
      BY DEF Applies!Steps
  <2> HIDE DEF carry
  <2>2. next \in Asks /\ next.step = "edit"
      BY <2>1, <2>a, <2>b
  <2>3. Carried(next) /\ Told(next, s6[r])
      BY <2>2
  <2> HIDE DEF next
  <2> QED BY <1>0, <1>g, <2>0, <2>2, <2>3
<1>7. ASSUME NEW r \in Requests, NEW docs \in SUBSET Objects, NEW dry \in BOOLEAN,
             Applies!Submit(r, docs, dry)
      PROVE  Applies!IInv'
  <2> DEFINE next == [s5[r] EXCEPT !.step = "document", !.left = docs, !.dry = dry]
  <2>0. Applies!Goes(r, next) /\ UNCHANGED <<s1, s2, s3, s4, s6, s7, s8>>
      BY <1>7 DEF Applies!Submit
  <2>a. s5[r] \in Asks /\ "document" \in Applies!Steps
      BY <1>0 DEF Applies!Steps
  <2>1. next \in Asks /\ next.step = "document"
      BY <2>a
  <2>2. Carried(next) /\ Told(next, s6[r])
      BY <2>1
  <2> HIDE DEF next
  <2> QED BY <1>0, <1>g, <2>0, <2>1, <2>2
<1>8. CASE Applies!Lock
  <2>1. /\ s1' = ~s1 /\ s6' = [r \in Requests |-> 0] /\ UNCHANGED <<s2, s3, s4, s5, s7>>
        /\ s8 < GateChanges /\ s8' = s8 + 1
      BY <1>8 DEF Applies!Lock, Applies!Changes
  <2>2. s6' \in [Requests -> 0..Card] /\ s8' \in 0..GateChanges
      BY <1>0, <2>1, WritesBounds
  <2>3. \A r \in Requests : s6'[r] = 0
      BY <2>1
  <2>4. \A r \in Requests : Carried(s5'[r]) /\ Told(s5'[r], s6'[r])
      BY <1>0, <2>1, <2>3
  <2>5. s1' \in BOOLEAN
      BY <2>1
  <2>6. \A r \in Requests : s6'[r] <= 1 /\ (s6'[r] # 0 => s1')
      BY <2>3
  <2> HIDE DEF Asks, Carried, Told
  <2> QED BY <1>0, <1>k, <2>1, <2>2, <2>4, <2>5, <2>6
<1>o. ASSUME s1' = s1, s3' \in BOOLEAN, s2' \in {"none", "read", "write"},
             s4' \in [Objects -> 0..MaxWrites], UNCHANGED <<s5, s6, s7>>, s8' \in 0..GateChanges
      PROVE  Applies!IInv'
  <2> HIDE DEF Asks, Carried, Told
  <2> QED BY <1>0, <1>k, <1>o
<1>9. CASE Applies!Roles
  <2>1. s3' = ~s3 /\ UNCHANGED <<s1, s2, s4, s5, s6, s7>> /\ s8 < GateChanges /\ s8' = s8 + 1
      BY <1>9 DEF Applies!Roles, Applies!Changes
  <2>2. s8' \in 0..GateChanges
      BY <1>0, <2>1, WritesBounds
  <2>3. s3' \in BOOLEAN
      BY <2>1
  <2> HIDE DEF Asks, Carried, Told
  <2> QED BY <1>0, <1>o, <2>1, <2>2, <2>3
<1>10. ASSUME NEW l \in {"none", "read", "write"}, Applies!Grant(l) PROVE Applies!IInv'
  <2>1. s2' = l /\ UNCHANGED <<s1, s3, s4, s5, s6, s7>> /\ s8 < GateChanges /\ s8' = s8 + 1
      BY <1>10 DEF Applies!Grant, Applies!Changes
  <2>2. s8' \in 0..GateChanges
      BY <1>0, <2>1, WritesBounds
  <2> HIDE DEF Asks, Carried, Told
  <2> QED BY <1>0, <1>o, <2>1, <2>2
<1>11. ASSUME NEW o \in Objects, Applies!Other(o) PROVE Applies!IInv'
  <2>1. s4' \in [Objects -> 0..MaxWrites] /\ UNCHANGED <<s1, s2, s3, s5, s6, s7, s8>>
      BY <1>11, <1>0, WritesBounds DEF Applies!Other
  <2> HIDE DEF Asks, Carried, Told
  <2> QED BY <1>0, <1>o, <2>1
<1>12. CASE UNCHANGED Applies!vars
  <2> HIDE DEF Asks, Carried, Told
  <2> QED BY <1>12, <1>0, <1>o DEF Applies!vars
<1> QED BY <1>1, <1>2, <1>3, <1>4, <1>5, <1>6, <1>7, <1>8, <1>9, <1>10, <1>11, <1>12
    DEF Applies!Next

-----------------------------------------------------------------------------
(* The scales and the rollouts (cluster/operations.go). *)

\* The invariant of the scales holds at first.
LEMMA ScalesInit == Scales!Init => Scales!IInv
<1> SUFFICES ASSUME Scales!Init PROVE Scales!IInv
    OBVIOUS
<1>1. /\ s1 \in Counts /\ s1 # 0 /\ s2 = Nothing /\ s3 = [c \in Callers |-> Scales!Idle]
      /\ s4 = s1 /\ s5 = FALSE /\ s6 = 0 /\ s7 = 0
    BY DEF Scales!Init
<1>2. /\ Counts \subseteq Nat /\ 0 \in Counts /\ Nothing \notin Counts
      /\ MaxCalls \in Nat /\ ScaleFaults \in Nat
    BY MCCounts DEF Scales!CountsAssumption
<1>3. s5 \in BOOLEAN
    BY <1>1
<1>4. Scales!TypeOK
    BY <1>1, <1>2, <1>3 DEF Scales!TypeOK, Scales!Idle
<1>5. \A c \in Callers : s3[c].step = "idle"
    BY <1>1 DEF Scales!Idle
<1> QED BY <1>1, <1>2, <1>4, <1>5 DEF Scales!IInv, Scales!Recorded, Scales!ComesBack

\* Every step of the scales keeps the invariant.
LEMMA ScalesStep == Scales!IInv /\ [Scales!Next]_(Scales!vars) => Scales!IInv'
<1> SUFFICES ASSUME Scales!IInv, [Scales!Next]_(Scales!vars) PROVE Scales!IInv'
    OBVIOUS
<1> DEFINE Call == [step : {"idle", "read", "patch", "find", "restore"},
                    to : Counts, read : Counts \cup {Nothing}]
           Good(q) == /\ q.step = "restore" => q.to # 0
                      /\ q.step = "patch" => q.read \in Counts
<1>c. /\ Counts \subseteq Nat /\ 0 \in Counts /\ Nothing \notin Counts
      /\ MaxCalls \in Nat /\ ScaleFaults \in Nat
    BY MCCounts DEF Scales!CountsAssumption
<1>0. /\ s1 \in Counts /\ s4 \in Counts /\ s2 \in Counts \cup {Nothing}
      /\ s3 \in [Callers -> Call] /\ s5 \in BOOLEAN /\ s6 \in 0..MaxCalls /\ s7 \in 0..ScaleFaults
      /\ s1 # 0 => s4 = s1
      /\ s2 # 0
      /\ \A c \in Callers : Good(s3[c])
      /\ s1 = 0 /\ ~s5 => s2 = s4
    BY DEF Scales!IInv, Scales!TypeOK, Scales!Recorded, Scales!ComesBack
<1>k. ASSUME s1' \in Counts, s4' \in Counts, s2' \in Counts \cup {Nothing},
             s3' \in [Callers -> Call], s5' \in BOOLEAN, s6' \in 0..MaxCalls, s7' \in 0..ScaleFaults,
             s1' # 0 => s4' = s1', s2' # 0, \A c \in Callers : Good(s3'[c]),
             s1' = 0 /\ ~s5' => s2' = s4'
      PROVE  Scales!IInv'
    BY <1>k DEF Scales!IInv, Scales!TypeOK, Scales!Recorded, Scales!ComesBack
<1>i. Scales!Idle \in Call /\ Good(Scales!Idle)
    BY <1>c DEF Scales!Idle
<1>g. ASSUME NEW c \in Callers, NEW next \in Call, Scales!Turns(c, next), Good(next)
      PROVE  s3' \in [Callers -> Call] /\ \A x \in Callers : Good(s3'[x])
    BY <1>g, <1>0 DEF Scales!Turns
<1>n. /\ Scales!Calls => s6' \in 0..MaxCalls
      /\ Scales!Faults => s7' \in 0..ScaleFaults
    BY <1>0, <1>c DEF Scales!Calls, Scales!Faults
<1>r. ASSUME NEW n \in Counts, Scales!Runs(n)
      PROVE  /\ s1' = n /\ s1' \in Counts /\ s4' \in Counts /\ (s1' # 0 => s4' = s1')
             /\ s1' = 0 => s4' = s4
    BY <1>r, <1>0 DEF Scales!Runs
<1>t. ASSUME NEW c \in Callers PROVE s3[c] \in Call /\ Good(s3[c])
    BY <1>0
<1>1. ASSUME NEW c \in Callers, NEW n \in Counts, Scales!AskScale(c, n) PROVE Scales!IInv'
  <2> DEFINE next == [Scales!Idle EXCEPT !.step = "read", !.to = n]
  <2>1. next \in Call /\ Good(next)
      BY <1>i
  <2>2. Scales!Calls /\ Scales!Turns(c, next) /\ UNCHANGED <<s1, s2, s4, s5, s7>>
      BY <1>1 DEF Scales!AskScale
  <2> HIDE DEF next, Call, Good
  <2> QED BY <1>0, <1>k, <1>g, <1>n, <2>1, <2>2
<1>2. ASSUME NEW c \in Callers, Scales!AskRestore(c) PROVE Scales!IInv'
  <2> DEFINE next == [Scales!Idle EXCEPT !.step = "find"]
  <2>1. next \in Call /\ Good(next)
      BY <1>i
  <2>2. Scales!Calls /\ Scales!Turns(c, next) /\ UNCHANGED <<s1, s2, s4, s5, s7>>
      BY <1>2 DEF Scales!AskRestore
  <2> HIDE DEF next, Call, Good
  <2> QED BY <1>0, <1>k, <1>g, <1>n, <2>1, <2>2
<1>3. ASSUME NEW c \in Callers, Scales!Read(c) PROVE Scales!IInv'
  <2> DEFINE next == [s3[c] EXCEPT !.step = "patch", !.read = s1]
  <2>1. next \in Call /\ Good(next)
      BY <1>t, <1>0
  <2>2. Scales!Turns(c, next) /\ UNCHANGED <<s1, s2, s4, s5, s6, s7>>
      BY <1>3 DEF Scales!Read
  <2> HIDE DEF next, Call, Good
  <2> QED BY <1>0, <1>k, <1>g, <2>1, <2>2
<1>4. ASSUME NEW c \in Callers, Scales!ReadFails(c) PROVE Scales!IInv'
  <2> DEFINE next == [s3[c] EXCEPT !.step = "patch", !.read = 0]
  <2>1. next \in Call /\ Good(next)
      BY <1>t, <1>c
  <2>2. Scales!Faults /\ Scales!Turns(c, next) /\ UNCHANGED <<s1, s2, s4, s5, s6>>
      BY <1>4 DEF Scales!ReadFails
  <2> HIDE DEF next, Call, Good
  <2> QED BY <1>0, <1>k, <1>g, <1>n, <2>1, <2>2
<1>5. ASSUME NEW c \in Callers, Scales!Patch(c) PROVE Scales!IInv'
  <2>1. /\ s3[c].step = "patch" /\ s2' = Scales!Record(s3[c].read) /\ Scales!Runs(s3[c].to)
        /\ Scales!Turns(c, Scales!Idle) /\ UNCHANGED <<s6, s7>>
      BY <1>5 DEF Scales!Patch
  <2>2. s5' \in BOOLEAN /\ (~s5' => ~s5 /\ s3[c].read = s1)
      BY <1>5 DEF Scales!Patch
  <2>3. s3[c].read \in Counts /\ s3[c].read \in Nat /\ s3[c].to \in Counts
      BY <1>t, <1>c, <2>1
  <2>4. s2' = IF s3[c].read = 0 THEN s2 ELSE s3[c].read
      BY <2>1, <2>3 DEF Scales!Record
  <2>5. /\ s1' \in Counts /\ s4' \in Counts /\ (s1' # 0 => s4' = s1')
        /\ s1' = 0 => s4' = s4
      BY <1>r, <2>1, <2>3
  <2>6. s2' \in Counts \cup {Nothing} /\ s2' # 0
      BY <1>0, <2>3, <2>4
  <2>7. s1' = 0 /\ ~s5' => s2' = s4'
      BY <1>0, <2>2, <2>4, <2>5
  <2> HIDE DEF Call, Good
  <2> QED BY <1>0, <1>k, <1>g, <1>i, <2>1, <2>2, <2>5, <2>6, <2>7
<1>6. ASSUME NEW c \in Callers, Scales!Find(c) PROVE Scales!IInv'
  <2> DEFINE next == IF s2 = Nothing THEN Scales!Idle ELSE [s3[c] EXCEPT !.step = "restore", !.to = s2]
  <2>1. next \in Call /\ Good(next)
      BY <1>t, <1>i, <1>0
  <2>2. Scales!Turns(c, next) /\ UNCHANGED <<s1, s2, s4, s5, s6, s7>>
      BY <1>6 DEF Scales!Find
  <2> HIDE DEF next, Call, Good
  <2> QED BY <1>0, <1>k, <1>g, <2>1, <2>2
<1>7. ASSUME NEW c \in Callers, Scales!Restore(c) PROVE Scales!IInv'
  <2>1. /\ s3[c].step = "restore" /\ Scales!Runs(s3[c].to)
        /\ Scales!Turns(c, Scales!Idle) /\ UNCHANGED <<s2, s5, s6, s7>>
      BY <1>7 DEF Scales!Restore
  <2>2. s3[c].to \in Counts /\ s3[c].to # 0
      BY <1>t, <2>1
  <2>3. /\ s1' = s3[c].to /\ s1' \in Counts /\ s4' \in Counts /\ (s1' # 0 => s4' = s1')
      BY <1>r, <2>1, <2>2
  <2> HIDE DEF Call, Good
  <2> QED BY <1>0, <1>k, <1>g, <1>i, <2>1, <2>2, <2>3
<1>8. ASSUME NEW c \in Callers, Scales!Fails(c) PROVE Scales!IInv'
  <2>1. Scales!Faults /\ Scales!Turns(c, Scales!Idle) /\ UNCHANGED <<s1, s2, s4, s5, s6>>
      BY <1>8 DEF Scales!Fails
  <2> HIDE DEF Call, Good
  <2> QED BY <1>0, <1>k, <1>g, <1>i, <1>n, <2>1
<1>9. ASSUME NEW n \in Counts, Scales!Other(n) PROVE Scales!IInv'
  <2>1. Scales!Calls /\ Scales!Runs(n) /\ UNCHANGED <<s2, s3, s7>>
      BY <1>9 DEF Scales!Other
  <2>2. s5' \in BOOLEAN /\ (~s5' => ~s5 /\ n # 0)
      BY <1>9 DEF Scales!Other
  <2>3. /\ s1' = n /\ s1' \in Counts /\ s4' \in Counts /\ (s1' # 0 => s4' = s1')
      BY <1>r, <2>1
  <2>4. s1' = 0 /\ ~s5' => s2' = s4'
      BY <2>2, <2>3
  <2> HIDE DEF Call, Good
  <2> QED BY <1>0, <1>k, <1>n, <2>1, <2>2, <2>3, <2>4
<1>10. CASE UNCHANGED Scales!vars
  <2> HIDE DEF Call, Good
  <2> QED BY <1>10, <1>0, <1>k DEF Scales!vars
<1> QED BY <1>1, <1>2, <1>3, <1>4, <1>5, <1>6, <1>7, <1>8, <1>9, <1>10 DEF Scales!Next

-----------------------------------------------------------------------------
\* A template has the shape of what a Deployment holds.
LEMMA TemplateTypes ==
  ASSUME NEW t \in Rolls!Templates
  PROVE  t \in UNION {[on -> Values \cup {Hash}] : on \in SUBSET (Fields \cup {Stamp, Hash})}
<1>1. PICK on \in SUBSET (Fields \cup {Stamp}) : t \in [on -> Values]
    BY DEF Rolls!Templates
<1>2. on \in SUBSET (Fields \cup {Stamp, Hash}) /\ t \in [on -> Values \cup {Hash}]
    BY <1>1
<1> QED BY <1>2

\* The invariant of the rollouts holds at first.
LEMMA RollsInit == Rolls!Init => Rolls!IInv
<1> SUFFICES ASSUME Rolls!Init PROVE Rolls!IInv
    OBVIOUS
<1>1. /\ s1 \in Rolls!Templates /\ s2 = [t \in {s1} |-> 1] /\ s3 = 1
      /\ s4 = Nothing /\ s5 = Nothing
    BY DEF Rolls!Init
<1>2. 1 \in 1..MaxRevision
    BY MCRollouts DEF Rolls!LabelAssumption
<1>3. Rolls!TypeOK
    BY <1>1, <1>2, TemplateTypes DEF Rolls!TypeOK
<1>4. Rolls!Held
    BY <1>1 DEF Rolls!Held
<1> QED BY <1>3, <1>4 DEF Rolls!IInv

\* A restart's patch keeps a template one.
LEMMA MergeTemplate ==
  ASSUME NEW a \in Rolls!Templates, NEW b \in Rolls!Templates
  PROVE  Rolls!Merge(a, b) \in Rolls!Templates
<1>1. PICK da \in SUBSET (Fields \cup {Stamp}) : a \in [da -> Values]
    BY DEF Rolls!Templates
<1>2. PICK db \in SUBSET (Fields \cup {Stamp}) : b \in [db -> Values]
    BY DEF Rolls!Templates
<1> DEFINE d == da \cup db
<1>3. Rolls!Merge(a, b) \in [d -> Values]
    BY <1>1, <1>2 DEF Rolls!Merge
<1>4. d \in SUBSET (Fields \cup {Stamp})
    OBVIOUS
<1> HIDE DEF d
<1> QED BY <1>3, <1>4 DEF Rolls!Templates

\* What an action makes of the Deployment is a template, kept by templates
\* that are numbered.
LEMMA Becoming ==
  ASSUME NEW t \in Rolls!Templates, Rolls!Becomes(t), Rolls!IInv
  PROVE  /\ s1' = t /\ DOMAIN s2' \subseteq Rolls!Templates
         /\ \A x \in DOMAIN s2' : s2'[x] \in 1..MaxRevision
         /\ s3' \in 1..MaxRevision
<1>1. /\ DOMAIN s2 \subseteq Rolls!Templates /\ s3 \in 1..MaxRevision
      /\ \A x \in DOMAIN s2 : s2[x] \in 1..MaxRevision
    BY DEF Rolls!IInv, Rolls!TypeOK, Rolls!Held
<1>2. CASE t = s1
    BY <1>1, <1>2 DEF Rolls!Becomes
<1>3. CASE t # s1
  <2>1. /\ s3 < MaxRevision /\ s1' = t /\ s3' = s3 + 1
        /\ s2' = [x \in DOMAIN s2 \cup {t} |-> IF x = t THEN s3 + 1 ELSE s2[x]]
      BY <1>3 DEF Rolls!Becomes
  <2>2. s3 + 1 \in 1..MaxRevision
      BY <1>1, <2>1, MCRollouts DEF Rolls!LabelAssumption
  <2> QED BY <1>1, <2>1, <2>2
<1> QED BY <1>2, <1>3

\* Every step of the rollouts keeps the invariant, and one that undoes or
\* redeploys lands well.
LEMMA RollsStep == Rolls!IInv /\ [Rolls!Next]_(Rolls!vars) => Rolls!IInv' /\ Rolls!LandsWell
<1> SUFFICES ASSUME Rolls!IInv, [Rolls!Next]_(Rolls!vars) PROVE Rolls!IInv' /\ Rolls!LandsWell
    OBVIOUS
<1>h. \A t \in Rolls!Templates : Hash \notin DOMAIN t
    BY MCRollouts DEF Rolls!LabelAssumption, Rolls!Templates
<1>n. Nothing \notin Rolls!Templates
    BY MCRollouts DEF Rolls!NoneAssumption
<1> DEFINE Ages == s3 \in 1..MaxRevision /\ \A x \in DOMAIN s2 : s2[x] \in 1..MaxRevision
<1>a. Ages
    BY DEF Rolls!IInv, Rolls!TypeOK
<1>k. Rolls!Held' /\ Ages' => Rolls!IInv'
  <2> SUFFICES ASSUME Rolls!Held', Ages' PROVE Rolls!IInv'
      OBVIOUS
  <2>1. s1' \in Rolls!Templates
      BY DEF Rolls!Held
  <2>2. Rolls!TypeOK'
      BY <2>1, TemplateTypes DEF Rolls!TypeOK
  <2> QED BY <2>2 DEF Rolls!IInv
<1>0. /\ s1 \in Rolls!Templates /\ DOMAIN s2 \subseteq Rolls!Templates
      /\ s4 # Nothing => /\ s5 \in Rolls!Templates
                         /\ DOMAIN s4 = DOMAIN s5
                         /\ \A f \in DOMAIN s5 : s4[f] = s5[f]
    BY DEF Rolls!IInv, Rolls!Held
<1>1. CASE Rolls!Patch
  <2>1. s4 # Nothing /\ Rolls!Becomes(Rolls!Merge(s4, s1)) /\ s4' = Nothing /\ s5' = s5
      BY <1>1 DEF Rolls!Patch
  <2>2. Rolls!Merge(s4, s1) = Rolls!Merge(s5, s1)
      BY <1>0, <2>1 DEF Rolls!Merge
  <2>3. Rolls!Merge(s5, s1) \in Rolls!Templates
      BY MergeTemplate, <1>0, <2>1
  <2>4. s1' = Rolls!Merge(s5, s1) /\ DOMAIN s2' \subseteq Rolls!Templates /\ Ages'
      BY Becoming, <2>1, <2>2, <2>3
  <2>5. \A f \in DOMAIN s5 : Rolls!Merge(s5, s1)[f] = s5[f]
      BY DEF Rolls!Merge
  <2> HIDE DEF Ages
  <2> QED BY <1>h, <1>k, <2>1, <2>3, <2>4, <2>5 DEF Rolls!Held, Rolls!LandsWell
<1>2. CASE Rolls!PatchFails
    BY <1>2, <1>0, <1>a, <1>k, <1>n DEF Rolls!PatchFails, Rolls!Held, Rolls!LandsWell, Rolls!Landed
<1>3. ASSUME NEW t \in Rolls!Templates, Rolls!Prune(t)
      PROVE  Rolls!IInv' /\ Rolls!LandsWell
  <2>1. s2' = Rolls!Restrict(s2, DOMAIN s2 \ {t}) /\ UNCHANGED <<s1, s3, s4, s5>>
      BY <1>3 DEF Rolls!Prune
  <2>2. DOMAIN s2' \subseteq Rolls!Templates /\ Ages'
      BY <2>1, <1>0, <1>a DEF Rolls!Restrict
  <2> HIDE DEF Ages
  <2> QED BY <1>0, <1>k, <2>1, <2>2 DEF Rolls!Held, Rolls!LandsWell, Rolls!Landed
<1>4. ASSUME NEW t \in Rolls!Templates, Rolls!Apply(t)
      PROVE  Rolls!IInv' /\ Rolls!LandsWell
  <2>1. s1' = t /\ DOMAIN s2' \subseteq Rolls!Templates /\ Ages'
      BY <1>4, Becoming DEF Rolls!Apply
  <2> HIDE DEF Ages
  <2> QED BY <1>4, <1>0, <1>k, <2>1 DEF Rolls!Apply, Rolls!Held, Rolls!LandsWell, Rolls!Landed
<1>5. ASSUME NEW now \in Values, Rolls!Restart(now) PROVE Rolls!IInv' /\ Rolls!LandsWell
  <2> DEFINE stamp == [f \in {Stamp} |-> now]
  <2>1. stamp \in [{Stamp} -> Values]
      OBVIOUS
  <2>2. stamp \in Rolls!Templates
      BY <2>1 DEF Rolls!Templates
  <2>3. Rolls!Merge(stamp, s1) \in Rolls!Templates
      BY <2>2, <1>0, MergeTemplate
  <2>4. Rolls!Becomes(Rolls!Merge(stamp, s1)) /\ UNCHANGED <<s4, s5>>
      BY <1>5 DEF Rolls!Restart
  <2> HIDE DEF stamp
  <2>5. s1' \in Rolls!Templates /\ DOMAIN s2' \subseteq Rolls!Templates /\ Ages'
      BY <2>3, <2>4, Becoming
  <2> HIDE DEF Ages
  <2> QED BY <1>0, <1>k, <2>4, <2>5 DEF Rolls!Held, Rolls!LandsWell, Rolls!Landed
<1>6. ASSUME NEW number \in 1..MaxRevision, Rolls!Find(number)
      PROVE  Rolls!IInv' /\ Rolls!LandsWell
  <2>1. s4 = Nothing /\ UNCHANGED <<s1, s2, s3>>
      BY <1>6 DEF Rolls!Find
  <2>2. PICK t \in DOMAIN s2 : s4' = Rolls!Unlabelled(Rolls!Labelled(t)) /\ s5' = t
      BY <1>6 DEF Rolls!Find
  <2>3. t \in Rolls!Templates /\ Hash \notin DOMAIN t
      BY <1>0, <1>h
  <2>4. DOMAIN s4' = DOMAIN t /\ \A f \in DOMAIN t : s4'[f] = t[f]
      BY <2>2, <2>3 DEF Rolls!Unlabelled, Rolls!Labelled, Rolls!Restrict
  <2>5. Ages'
      BY <1>a, <2>1
  <2> HIDE DEF Ages
  <2> QED BY <1>0, <1>k, <2>1, <2>2, <2>3, <2>4, <2>5 DEF Rolls!Held, Rolls!LandsWell, Rolls!Landed
<1>7. CASE UNCHANGED Rolls!vars
    BY <1>7, <1>0, <1>a, <1>k DEF Rolls!vars, Rolls!Held, Rolls!LandsWell, Rolls!Landed
<1> QED BY <1>1, <1>2, <1>3, <1>4, <1>5, <1>6, <1>7 DEF Rolls!Next

-----------------------------------------------------------------------------
(* Shells on nodes (cluster/nodeshell.go, sweeper.go). *)

\* The invariant of the node shells holds at first.
LEMMA NodeShellInit == NodeShell!Init => NodeShell!IInv
<1> SUFFICES ASSUME NodeShell!Init PROVE NodeShell!IInv
    OBVIOUS
<1>0. ShellFaults \in Nat /\ ShellMoves \in Nat
    BY MCNodeShells DEF NodeShell!NowhereAssumption
<1>1. /\ s1 = TRUE /\ s2 \in Places /\ s11 = 0 /\ s6 = "idle" /\ s7 = Nothing /\ s8 = {}
      /\ s9 = {} /\ s10 = 0
      /\ s3 = [s \in Shells |-> "none"] /\ s4 = [s \in Shells |-> Nothing]
      /\ s5 = [s \in Shells |-> "none"]
    BY DEF NodeShell!Init
<1>2. s1 \in BOOLEAN
    BY <1>1
<1>3. NodeShell!TypeOK
    BY <1>0, <1>1, <1>2 DEF NodeShell!TypeOK
<1> QED BY <1>1, <1>3 DEF NodeShell!IInv, NodeShell!Uncreated, NodeShell!PodsAccounted

\* Every step of the node shells keeps the invariant.
LEMMA NodeShellStep == NodeShell!IInv /\ [NodeShell!Next]_(NodeShell!vars) => NodeShell!IInv'
<1> SUFFICES ASSUME NodeShell!IInv, [NodeShell!Next]_(NodeShell!vars) PROVE NodeShell!IInv'
    OBVIOUS
<1> DEFINE Steps == {"none", "create", "wait", "undo", "open", "stop", "over"}
           Settings == s1 \in BOOLEAN /\ s2 \in Places /\ s11 \in 0 .. ShellMoves
           Sessions == /\ s3 \in [Shells -> Steps] /\ s4 \in [Shells -> Places \cup {Nothing}]
                       /\ s5 \in [Shells -> {"none", "young", "old"}]
           Sweeper == /\ s6 \in {"idle", "list", "delete"} /\ s7 \in Places \cup {Nothing}
                      /\ s8 \subseteq Shells
           Faults == s9 \subseteq Shells /\ s10 \in 0 .. ShellFaults
           Said == /\ \A s \in Shells :
                        /\ s3[s] \in {"none", "create"} => s5[s] = "none" /\ s \notin s8
                        /\ s3[s] = "over" /\ s5[s] # "none" => s \in s9
                   /\ \A s \in s8 : s5[s] # "young"
<1>0. ShellFaults \in Nat /\ ShellMoves \in Nat
    BY MCNodeShells DEF NodeShell!NowhereAssumption
<1>1. Settings /\ Sessions /\ Sweeper /\ Faults /\ Said
    BY DEF NodeShell!IInv, NodeShell!TypeOK, NodeShell!Uncreated, NodeShell!PodsAccounted
<1>2. Settings' /\ Sessions' /\ Sweeper' /\ Faults' /\ Said' => NodeShell!IInv'
    BY DEF NodeShell!IInv, NodeShell!TypeOK, NodeShell!Uncreated, NodeShell!PodsAccounted
<1> USE DEF NodeShell!settings, NodeShell!sessions, NodeShell!sweeper, NodeShell!NoFault
<1>3. ASSUME UNCHANGED NodeShell!settings PROVE Settings'
    BY <1>1, <1>3
<1>4. ASSUME UNCHANGED NodeShell!sweeper PROVE Sweeper'
    BY <1>1, <1>4
<1>5. ASSUME NodeShell!NoFault PROVE Faults'
    BY <1>1, <1>5
<1>6. ASSUME NEW s \in Shells, NodeShell!Fault(s) PROVE Faults'
    BY <1>0, <1>1, <1>6 DEF NodeShell!Fault
<1>7. ASSUME NEW s \in Shells,
             \/ NodeShell!Ask(s) \/ NodeShell!Create(s) \/ NodeShell!CreateRefused(s)
             \/ NodeShell!CreateLost(s) \/ NodeShell!Started(s) \/ NodeShell!NeverStarts(s)
             \/ NodeShell!Ends(s) \/ NodeShell!Delete(s) \/ NodeShell!DeleteFails(s)
      PROVE  NodeShell!IInv'
  <2>1. Settings' /\ Sweeper'
      BY <1>1, <1>7 DEF NodeShell!Ask, NodeShell!Create, NodeShell!CreateRefused,
          NodeShell!CreateLost,
         NodeShell!Started, NodeShell!NeverStarts, NodeShell!Ends, NodeShell!Delete,
             NodeShell!DeleteFails
  <2>2. Faults'
      BY <1>5, <1>6, <1>7 DEF NodeShell!Ask, NodeShell!Create, NodeShell!CreateRefused,
          NodeShell!CreateLost,
         NodeShell!Started, NodeShell!NeverStarts, NodeShell!Ends, NodeShell!Delete,
             NodeShell!DeleteFails
  <2>3. Sessions' /\ Said'
    <3> USE DEF NodeShell!Moves, NodeShell!Fault
    <3>1. CASE NodeShell!Ask(s)
        BY <1>1, <3>1 DEF NodeShell!Ask
    <3>2. CASE NodeShell!Create(s)
        BY <1>1, <3>2 DEF NodeShell!Create
    <3>3. CASE NodeShell!CreateRefused(s)
        BY <1>1, <3>3 DEF NodeShell!CreateRefused
    <3>4. CASE NodeShell!CreateLost(s)
        BY <1>1, <3>4 DEF NodeShell!CreateLost
    <3>5. CASE NodeShell!Started(s)
        BY <1>1, <3>5 DEF NodeShell!Started
    <3>6. CASE NodeShell!NeverStarts(s)
        BY <1>1, <3>6 DEF NodeShell!NeverStarts
    <3>7. CASE NodeShell!Ends(s)
        BY <1>1, <3>7 DEF NodeShell!Ends
    <3>8. CASE NodeShell!Delete(s)
        BY <1>1, <3>8 DEF NodeShell!Delete
    <3>9. CASE NodeShell!DeleteFails(s)
        BY <1>1, <3>9 DEF NodeShell!DeleteFails
    <3> QED BY <1>7, <3>1, <3>2, <3>3, <3>4, <3>5, <3>6, <3>7, <3>8, <3>9
  <2> QED BY <1>2, <2>1, <2>2, <2>3
<1>8. ASSUME NEW s \in Shells, NodeShell!SweepDelete(s) PROVE NodeShell!IInv'
  <2>1. Settings' /\ Faults' /\ Sessions'
      BY <1>1, <1>3, <1>5, <1>8 DEF NodeShell!SweepDelete
  <2>2. Sweeper' /\ Said'
      BY <1>1, <1>8 DEF NodeShell!SweepDelete
  <2> QED BY <1>2, <2>1, <2>2
<1>9. ASSUME NEW s \in Shells, NodeShell!SweepDeleteFails(s) PROVE NodeShell!IInv'
  <2>1. Settings' /\ Faults' /\ Sessions'
      BY <1>0, <1>1, <1>9 DEF NodeShell!SweepDeleteFails
  <2>2. Sweeper' /\ Said'
      BY <1>1, <1>9 DEF NodeShell!SweepDeleteFails
  <2> QED BY <1>2, <2>1, <2>2
<1>10. ASSUME NEW s \in Shells, NodeShell!Age(s) PROVE NodeShell!IInv'
  <2>1. Settings' /\ Faults' /\ Sweeper'
      BY <1>1, <1>3, <1>4, <1>5, <1>10 DEF NodeShell!Age
  <2>2. Sessions' /\ Said'
      BY <1>1, <1>10 DEF NodeShell!Age
  <2> QED BY <1>2, <2>1, <2>2
<1>11. CASE NodeShell!SweepTick
    BY <1>1, <1>2, <1>11 DEF NodeShell!SweepTick
<1>12. CASE NodeShell!SweepList
  <2>1. Settings' /\ Faults' /\ Sessions'
      BY <1>1, <1>12 DEF NodeShell!SweepList
  <2>2. Sweeper' /\ Said'
      BY <1>1, <1>12 DEF NodeShell!SweepList, NodeShell!Abandoned
  <2> QED BY <1>2, <2>1, <2>2
<1>13. CASE NodeShell!SweepEnds
    BY <1>1, <1>2, <1>13 DEF NodeShell!SweepEnds
<1>14. CASE NodeShell!Save
  <2>1. s1' \in BOOLEAN
      BY <1>14 DEF NodeShell!Save
  <2>2. s2' \in Places /\ s11' \in 0 .. ShellMoves
      BY <1>0, <1>1, <1>14 DEF NodeShell!Save
  <2>3. Sessions' /\ Sweeper' /\ Faults' /\ Said'
      BY <1>1, <1>14 DEF NodeShell!Save
  <2> QED BY <1>2, <2>1, <2>2, <2>3
<1>15. CASE NodeShell!Crash
  <2>1. Settings' /\ Faults'
      BY <1>0, <1>1, <1>15 DEF NodeShell!Crash, NodeShell!Busy
  <2>2. Sessions' /\ Sweeper'
      BY <1>1, <1>15 DEF NodeShell!Crash, NodeShell!Busy
  <2>3. Said'
      BY <1>1, <1>15 DEF NodeShell!Crash, NodeShell!Busy
  <2> QED BY <1>2, <2>1, <2>2, <2>3
<1>16. CASE UNCHANGED NodeShell!vars
    BY <1>1, <1>2, <1>16 DEF NodeShell!vars
<1> QED BY <1>7, <1>8, <1>9, <1>10, <1>11, <1>12, <1>13, <1>14, <1>15, <1>16
        DEF NodeShell!Next

-----------------------------------------------------------------------------
(* Debug containers (cluster/debugcontainer.go). *)

\* The invariant of the debug containers holds at first.
LEMMA DebugInit == Debug!Init => Debug!IInv
<1> SUFFICES ASSUME Debug!Init PROVE Debug!IInv
    OBVIOUS
<1>0. MaxNow \in Nat \ {0} /\ PodChanges \in Nat /\ LostAnswers \in Nat
    BY MCClock DEF Debug!ClockAssumption
<1>1. /\ s1 = 1 /\ s2 = [n \in {} |-> 0] /\ s3 = 0 /\ s6 = {} /\ s7 = 0 /\ s8 = 0
      /\ s4 = [s \in Attempts |-> [step |-> "none", name |-> 0, began |-> 0, list |-> {}, version |-> 0]]
      /\ s5 = [s \in Attempts |-> "none"]
    BY DEF Debug!Init
<1>2. DOMAIN s2 = {} /\ s2 \in [DOMAIN s2 -> [by : Attempts, state : Debug!States]]
    BY <1>1
<1>3. Debug!TypeOK
  <2>1. Debug!Kinds
      BY <1>0, <1>1, <1>2 DEF Debug!Kinds, Debug!Names, Debug!Steps
  <2> QED BY <1>0, <1>1, <2>1 DEF Debug!TypeOK
<1>4. Debug!Named /\ Debug!Read
    BY <1>1, <1>2 DEF Debug!Named, Debug!Read, Debug!At
<1>5. Debug!Attached /\ Debug!ContainersAccounted
    BY <1>1, <1>2 DEF Debug!Attached, Debug!ContainersAccounted, Debug!At, Debug!Left
<1> QED BY <1>3, <1>4, <1>5 DEF Debug!IInv

\* Every step of the debug containers keeps the invariant.
LEMMA DebugStep == Debug!IInv /\ [Debug!Next]_(Debug!vars) => Debug!IInv'
<1> SUFFICES ASSUME Debug!IInv, [Debug!Next]_(Debug!vars) PROVE Debug!IInv'
    OBVIOUS
<1>b. s7 \in 0..PodChanges /\ s8 \in 0..LostAnswers /\ PodChanges \in Nat /\ LostAnswers \in Nat
    BY MCClock DEF Debug!IInv, Debug!TypeOK, Debug!ClockAssumption
<1> USE DEF Debug!At, Debug!Goes, Debug!Tells, Debug!Fails, Debug!pod, Debug!bounds,
        Debug!Mine, Debug!Left
<1>0. /\ Debug!Kinds /\ Debug!Named /\ Debug!Read /\ Debug!Attached /\ Debug!ContainersAccounted
      /\ MaxNow \in Nat \ {0}
    BY MCClock DEF Debug!IInv, Debug!TypeOK, Debug!ClockAssumption
<1>k. Debug!Kinds' /\ Debug!Named' /\ Debug!Read' /\ Debug!Attached' /\ Debug!ContainersAccounted' => Debug!IInv'
  <2>2. \/ s7' = s7 /\ s8' = s8
        \/ s7 < PodChanges /\ s7' = s7 + 1 /\ s8' = s8
        \/ s8 < LostAnswers /\ s8' = s8 + 1 /\ s7' = s7
      BY Zenon DEF Debug!Next, Debug!vars, Debug!Start, Debug!Get, Debug!Update, Debug!UpdateLost,
             Debug!Denied, Debug!NameTaken, Debug!Ready, Debug!NotPulled, Debug!GivesUp,
             Debug!ShellEnds, Debug!Turns, Debug!Other, Debug!Replaced, Debug!Tick
  <2>3. s7' \in 0..PodChanges /\ s8' \in 0..LostAnswers
      BY <1>b, <2>2
  <2> QED BY <2>3 DEF Debug!IInv, Debug!TypeOK
<1>a. ASSUME NEW s \in Attempts, s4[s].step = "read", Debug!Accepted(s), Debug!Attach(s)
      PROVE  /\ s4[s].name \in Debug!Names /\ s4[s].name \notin DOMAIN s2
             /\ DOMAIN s2' = DOMAIN s2 \cup {s4[s].name}
             /\ s2'[s4[s].name] = [by |-> s, state |-> "starting"]
             /\ \A n \in DOMAIN s2 : s2'[n] = s2[n]
             /\ s2' \in [DOMAIN s2' -> [by : Attempts, state : Debug!States]]
             /\ s3' = s3 + 1
             /\ \A n \in DOMAIN s2 : s2[n].by # s
  <2> DEFINE name == s4[s].name
             by == [by |-> s, state |-> "starting"]
  <2>1. s3' = s3 + 1 /\ s2' = [n \in s4[s].list \cup {name} |-> IF n = name THEN by ELSE s2[n]]
      BY <1>a DEF Debug!Attach
  <2>2. s4[s].list = DOMAIN s2
      BY <1>0, <1>a DEF Debug!Accepted, Debug!Read
  <2>3. name \in Debug!Names /\ name \notin DOMAIN s2
      BY <1>0, <1>a DEF Debug!Accepted, Debug!Named, Debug!Kinds
  <2>4. s2' = [n \in DOMAIN s2 \cup {name} |-> IF n = name THEN by ELSE s2[n]]
      BY <2>1, <2>2
  <2>5. by \in [by : Attempts, state : Debug!States]
      BY DEF Debug!States
  <2>6. \A n \in DOMAIN s2 : s2[n].by # s /\ s2[n] \in [by : Attempts, state : Debug!States]
      BY <1>0, <1>a DEF Debug!Kinds, Debug!Attached
  <2>7. DOMAIN s2' = DOMAIN s2 \cup {name}
      BY <2>4
  <2>8. s2'[name] = by
      BY <2>4
  <2>9. \A n \in DOMAIN s2 : s2'[n] = s2[n]
      BY <2>3, <2>4
  <2>10. \A n \in DOMAIN s2' : s2'[n] \in [by : Attempts, state : Debug!States]
      BY <2>5, <2>6, <2>7, <2>8, <2>9
  <2>11. s2' \in [DOMAIN s2' -> [by : Attempts, state : Debug!States]]
    <3> DEFINE D == DOMAIN s2 \cup {name}
               e(n) == IF n = name THEN by ELSE s2[n]
    <3>1. \A n \in D : e(n) \in [by : Attempts, state : Debug!States]
        BY <2>5, <2>6
    <3>2. s2' = [n \in D |-> e(n)] /\ DOMAIN s2' = D
        BY <2>4
    <3> HIDE DEF D, e
    <3> QED BY <3>1, <3>2
  <2> QED BY <2>1, <2>3, <2>6, <2>7, <2>8, <2>9, <2>11
<1>g. ASSUME NEW s \in Attempts, NEW step \in Debug!Steps, NEW said \in {"success", "error"},
             s4' = [s4 EXCEPT ![s].step = step],
             s5' = s5 \/ s5' = [s5 EXCEPT ![s] = said],
             s1' = s1, s2' = s2, s3' = s3, s6' = s6
      PROVE  Debug!Kinds'
  <2>1. s5' \in [Attempts -> {"none", "success", "error"}]
      BY <1>0, <1>g DEF Debug!Kinds
  <2>2. s4' \in [Attempts -> [step : Debug!Steps, name : {0} \cup Debug!Names,
                              began : {0} \cup Debug!Names, list : SUBSET Debug!Names,
                              version : Nat]]
      BY <1>0, <1>g DEF Debug!Kinds
  <2> QED BY <1>0, <1>g, <2>1, <2>2 DEF Debug!Kinds
<1> DEFINE Tries == [step : Debug!Steps, name : {0} \cup Debug!Names,
                     began : {0} \cup Debug!Names, list : SUBSET Debug!Names, version : Nat]
<1>n. ASSUME NEW s \in Attempts, NEW e \in Tries, s4' = [s4 EXCEPT ![s] = e],
             UNCHANGED <<s1, s2, s3, s5, s6>>
      PROVE  Debug!Kinds'
  <2> HIDE DEF Tries
  <2>1. s4 \in [Attempts -> Tries]
      BY <1>0 DEF Debug!Kinds, Tries
  <2>2. s4' \in [Attempts -> Tries]
      BY <1>n, <2>1
  <2> QED BY <1>0, <1>n, <2>2 DEF Debug!Kinds, Tries
<1>1. ASSUME NEW s \in Attempts, Debug!Start(s) PROVE Debug!IInv'
  <2> USE DEF Debug!Start, Debug!Name
  <2>a. s1 \in Debug!Names /\ s4[s] \in Tries /\ "named" \in Debug!Steps
      BY <1>0 DEF Debug!Kinds, Debug!Steps
  <2>b. [s4[s] EXCEPT !.step = "named", !.name = s1, !.began = s1] \in Tries
      BY <2>a
  <2>1. Debug!Kinds'
      BY <1>0, <1>1, <1>n, <2>b DEF Debug!Kinds
  <2>2. Debug!Named'
      BY <1>0, <1>1 DEF Debug!Kinds, Debug!Named, Debug!Names, Debug!Attached
  <2>3. Debug!Read'
      BY <1>0, <1>1 DEF Debug!Kinds, Debug!Read
  <2>4. Debug!Attached'
      BY <1>0, <1>1 DEF Debug!Kinds, Debug!Named, Debug!Read, Debug!Attached,
          Debug!ContainersAccounted
  <2>5. Debug!ContainersAccounted'
      BY <1>0, <1>1 DEF Debug!Kinds, Debug!Named, Debug!Read, Debug!Attached,
          Debug!ContainersAccounted
  <2> QED BY <1>k, <2>1, <2>2, <2>3, <2>4, <2>5
<1>2. ASSUME NEW s \in Attempts, Debug!Get(s) PROVE Debug!IInv'
  <2> USE DEF Debug!Get
  <2>a. DOMAIN s2 \in SUBSET Debug!Names /\ s3 \in Nat /\ s4[s] \in Tries /\ "read" \in Debug!Steps
      BY <1>0 DEF Debug!Kinds, Debug!Steps
  <2>b. [s4[s] EXCEPT !.step = "read", !.list = DOMAIN s2, !.version = s3] \in Tries
      BY <2>a
  <2>1. Debug!Kinds'
      BY <1>0, <1>2, <1>n, <2>b DEF Debug!Kinds
  <2>2. Debug!Named'
      BY <1>0, <1>2 DEF Debug!Kinds, Debug!Named, Debug!Names, Debug!Attached
  <2>3. Debug!Read'
      BY <1>0, <1>2 DEF Debug!Kinds, Debug!Read
  <2>4. Debug!Attached'
      BY <1>0, <1>2 DEF Debug!Kinds, Debug!Named, Debug!Read, Debug!Attached,
          Debug!ContainersAccounted
  <2>5. Debug!ContainersAccounted'
      BY <1>0, <1>2 DEF Debug!Kinds, Debug!Named, Debug!Read, Debug!Attached,
          Debug!ContainersAccounted
  <2> QED BY <1>k, <2>1, <2>2, <2>3, <2>4, <2>5
<1>3. ASSUME NEW s \in Attempts, Debug!Update(s) PROVE Debug!IInv'
  <2>0. /\ s4[s].step = "read" /\ Debug!Accepted(s) /\ Debug!Attach(s)
      BY <1>3 DEF Debug!Update
  <2>a. /\ s4[s].name \in Debug!Names /\ s4[s].name \notin DOMAIN s2
        /\ DOMAIN s2' = DOMAIN s2 \cup {s4[s].name}
        /\ s2'[s4[s].name] = [by |-> s, state |-> "starting"]
        /\ \A n \in DOMAIN s2 : s2'[n] = s2[n]
        /\ s2' \in [DOMAIN s2' -> [by : Attempts, state : Debug!States]]
        /\ s3' = s3 + 1
        /\ \A n \in DOMAIN s2 : s2[n].by # s
      BY <1>a, <2>0
  <2>1. Debug!Kinds'
      BY <1>0, <1>3, <2>0, <2>a
          DEF Debug!Update, Debug!Kinds, Debug!Named, Debug!Names, Debug!Steps,
          Debug!States
  <2>2. Debug!Named'
      BY <1>0, <1>3, <2>0, <2>a
          DEF Debug!Update, Debug!Kinds, Debug!Named, Debug!Names, Debug!Attached
  <2>3. Debug!Read'
      BY <1>0, <1>3, <2>0, <2>a DEF Debug!Update, Debug!Kinds, Debug!Read
  <2>4. Debug!Attached'
      BY <1>0, <1>3, <2>0, <2>a
          DEF Debug!Update, Debug!Kinds, Debug!Named, Debug!Read, Debug!Attached,
          Debug!ContainersAccounted
  <2>5. Debug!ContainersAccounted'
      BY <1>0, <1>3, <2>0, <2>a
          DEF Debug!Update, Debug!Kinds, Debug!Named, Debug!Read, Debug!Attached,
          Debug!ContainersAccounted
  <2> QED BY <1>k, <2>1, <2>2, <2>3, <2>4, <2>5
<1>4. ASSUME NEW s \in Attempts, Debug!UpdateLost(s) PROVE Debug!IInv'
  <2>0. /\ s4[s].step = "read" /\ Debug!Accepted(s) /\ Debug!Attach(s)
      BY <1>4 DEF Debug!UpdateLost
  <2>a. /\ s4[s].name \in Debug!Names /\ s4[s].name \notin DOMAIN s2
        /\ DOMAIN s2' = DOMAIN s2 \cup {s4[s].name}
        /\ s2'[s4[s].name] = [by |-> s, state |-> "starting"]
        /\ \A n \in DOMAIN s2 : s2'[n] = s2[n]
        /\ s2' \in [DOMAIN s2' -> [by : Attempts, state : Debug!States]]
        /\ s3' = s3 + 1
        /\ \A n \in DOMAIN s2 : s2[n].by # s
      BY <1>a, <2>0
  <2>1. Debug!Kinds'
    <3>1. s4' = [s4 EXCEPT ![s].step = "over"] /\ s5' = [s5 EXCEPT ![s] = "error"] /\ s6' = s6 \cup {s} /\ s1' = s1
        BY <1>4 DEF Debug!UpdateLost
    <3>2. s5' \in [Attempts -> {"none", "success", "error"}] /\ s6' \subseteq Attempts
        BY <1>0, <3>1 DEF Debug!Kinds
    <3>3. s4' \in [Attempts -> [step : Debug!Steps, name : {0} \cup Debug!Names, began : {0} \cup Debug!Names,
                                list : SUBSET Debug!Names, version : Nat]]
        BY <1>0, <3>1 DEF Debug!Kinds, Debug!Steps
    <3> QED BY <1>0, <2>a, <3>1, <3>2, <3>3 DEF Debug!Kinds
  <2>2. Debug!Named'
      BY <1>0, <1>4, <2>0, <2>a
          DEF Debug!UpdateLost, Debug!Kinds, Debug!Named, Debug!Names, Debug!Attached
  <2>3. Debug!Read'
      BY <1>0, <1>4, <2>0, <2>a DEF Debug!UpdateLost, Debug!Kinds, Debug!Read
  <2>4. Debug!Attached'
      BY <1>0, <1>4, <2>0, <2>a
          DEF Debug!UpdateLost, Debug!Kinds, Debug!Named, Debug!Read, Debug!Attached,
          Debug!ContainersAccounted
  <2>5. Debug!ContainersAccounted'
      BY <1>0, <1>4, <2>0, <2>a
          DEF Debug!UpdateLost, Debug!Kinds, Debug!Named, Debug!Read, Debug!Attached,
          Debug!ContainersAccounted
  <2> QED BY <1>k, <2>1, <2>2, <2>3, <2>4, <2>5
<1>5. ASSUME NEW s \in Attempts, Debug!Denied(s) PROVE Debug!IInv'
  <2> USE DEF Debug!Denied
  <2>1. Debug!Kinds'
    <3>1. "refused" \in Debug!Steps
        BY DEF Debug!Steps
    <3>2. s4' = [s4 EXCEPT ![s].step = "refused"] /\ (s5' = s5 \/ s5' = [s5 EXCEPT ![s] = "error"])
        BY <1>5
    <3>3. s1' = s1 /\ s2' = s2 /\ s3' = s3 /\ s6' = s6
        BY <1>5
    <3> QED BY <1>g, <3>1, <3>2, <3>3
  <2>2. Debug!Named'
      BY <1>0, <1>5 DEF Debug!Kinds, Debug!Named, Debug!Names, Debug!Attached
  <2>3. Debug!Read'
      BY <1>0, <1>5 DEF Debug!Kinds, Debug!Read
  <2>4. Debug!Attached'
      BY <1>0, <1>5 DEF Debug!Kinds, Debug!Named, Debug!Read, Debug!Attached,
          Debug!ContainersAccounted
  <2>5. Debug!ContainersAccounted'
      BY <1>0, <1>5 DEF Debug!Kinds, Debug!Named, Debug!Read, Debug!Attached,
          Debug!ContainersAccounted
  <2> QED BY <1>k, <2>1, <2>2, <2>3, <2>4, <2>5
<1>6. ASSUME NEW s \in Attempts, Debug!NameTaken(s) PROVE Debug!IInv'
  <2> USE DEF Debug!NameTaken, Debug!Accepted
  <2>1. Debug!Kinds'
    <3>1. "taken" \in Debug!Steps
        BY DEF Debug!Steps
    <3>2. s4' = [s4 EXCEPT ![s].step = "taken"] /\ (s5' = s5 \/ s5' = [s5 EXCEPT ![s] = "error"])
        BY <1>6
    <3>3. s1' = s1 /\ s2' = s2 /\ s3' = s3 /\ s6' = s6
        BY <1>6
    <3> QED BY <1>g, <3>1, <3>2, <3>3
  <2>2. Debug!Named'
      BY <1>0, <1>6 DEF Debug!Kinds, Debug!Named, Debug!Names, Debug!Attached
  <2>3. Debug!Read'
      BY <1>0, <1>6 DEF Debug!Kinds, Debug!Read
  <2>4. Debug!Attached'
      BY <1>0, <1>6 DEF Debug!Kinds, Debug!Named, Debug!Read, Debug!Attached,
          Debug!ContainersAccounted
  <2>a. s4[s].step = "read" /\ s4[s].name \in DOMAIN s2
      BY <1>6
  <2>b. PICK t \in Attempts : t = s2[s4[s].name].by
      BY <1>0, <2>a DEF Debug!Kinds
  <2>c. t # s /\ s4[t].began = s4[s].began
      BY <1>0, <2>a, <2>b DEF Debug!Named, Debug!Attached
  <2>d. \A x \in Attempts : s4'[x].began = s4[x].began /\ (x # s => s4'[x] = s4[x])
      BY <1>0, <1>6 DEF Debug!Kinds
  <2>5. Debug!ContainersAccounted'
    <3>1. \A x \in Attempts : s4'[x].step = "taken" => \E y \in Attempts \ {x} : s4'[y].began = s4'[x].began
      <4> TAKE x \in Attempts
      <4>1. CASE x = s
          BY <4>1, <2>c, <2>d
      <4>2. CASE x # s
          BY <4>2, <1>0, <2>d DEF Debug!ContainersAccounted
      <4> QED BY <4>1, <4>2
    <3>2. \A x \in Attempts \ s6' : s5'[x] = "success" => /\ s4'[x].name \in DOMAIN s2'
                                                         /\ s2'[s4'[x].name].by = x
        BY <1>0, <1>6 DEF Debug!Kinds, Debug!Attached, Debug!ContainersAccounted
    <3>3. \A x \in Attempts : s4'[x].step \in {"refused", "taken"} => ~\E n \in DOMAIN s2' : s2'[n].by = x
        BY <1>0, <1>6 DEF Debug!Kinds, Debug!Attached, Debug!ContainersAccounted
    <3> QED BY <3>1, <3>2, <3>3 DEF Debug!ContainersAccounted
  <2> QED BY <1>k, <2>1, <2>2, <2>3, <2>4, <2>5
<1>7. ASSUME NEW s \in Attempts, Debug!Ready(s) PROVE Debug!IInv'
  <2> USE DEF Debug!Ready
  <2>1. Debug!Kinds'
    <3>1. "shell" \in Debug!Steps
        BY DEF Debug!Steps
    <3>2. s4' = [s4 EXCEPT ![s].step = "shell"] /\ (s5' = s5 \/ s5' = [s5 EXCEPT ![s] = "success"])
        BY <1>7
    <3>3. s1' = s1 /\ s2' = s2 /\ s3' = s3 /\ s6' = s6
        BY <1>7
    <3> QED BY <1>g, <3>1, <3>2, <3>3
  <2>2. Debug!Named'
      BY <1>0, <1>7 DEF Debug!Kinds, Debug!Named, Debug!Names, Debug!Attached
  <2>3. Debug!Read'
      BY <1>0, <1>7 DEF Debug!Kinds, Debug!Read
  <2>4. Debug!Attached'
      BY <1>0, <1>7 DEF Debug!Kinds, Debug!Named, Debug!Read, Debug!Attached,
          Debug!ContainersAccounted
  <2>5. Debug!ContainersAccounted'
      BY <1>0, <1>7 DEF Debug!Kinds, Debug!Named, Debug!Read, Debug!Attached,
          Debug!ContainersAccounted
  <2> QED BY <1>k, <2>1, <2>2, <2>3, <2>4, <2>5
<1>8. ASSUME NEW s \in Attempts, Debug!NotPulled(s) PROVE Debug!IInv'
  <2> USE DEF Debug!NotPulled
  <2>1. Debug!Kinds'
    <3>1. "over" \in Debug!Steps
        BY DEF Debug!Steps
    <3>2. s4' = [s4 EXCEPT ![s].step = "over"] /\ (s5' = s5 \/ s5' = [s5 EXCEPT ![s] = "error"])
        BY <1>8
    <3>3. s1' = s1 /\ s2' = s2 /\ s3' = s3 /\ s6' = s6
        BY <1>8
    <3> QED BY <1>g, <3>1, <3>2, <3>3
  <2>2. Debug!Named'
      BY <1>0, <1>8 DEF Debug!Kinds, Debug!Named, Debug!Names, Debug!Attached
  <2>3. Debug!Read'
      BY <1>0, <1>8 DEF Debug!Kinds, Debug!Read
  <2>4. Debug!Attached'
      BY <1>0, <1>8 DEF Debug!Kinds, Debug!Named, Debug!Read, Debug!Attached,
          Debug!ContainersAccounted
  <2>5. Debug!ContainersAccounted'
      BY <1>0, <1>8 DEF Debug!Kinds, Debug!Named, Debug!Read, Debug!Attached,
          Debug!ContainersAccounted
  <2> QED BY <1>k, <2>1, <2>2, <2>3, <2>4, <2>5
<1>9. ASSUME NEW s \in Attempts, Debug!GivesUp(s) PROVE Debug!IInv'
  <2> USE DEF Debug!GivesUp
  <2>1. Debug!Kinds'
    <3>1. "over" \in Debug!Steps
        BY DEF Debug!Steps
    <3>2. s4' = [s4 EXCEPT ![s].step = "over"] /\ (s5' = s5 \/ s5' = [s5 EXCEPT ![s] = "error"])
        BY <1>9
    <3>3. s1' = s1 /\ s2' = s2 /\ s3' = s3 /\ s6' = s6
        BY <1>9
    <3> QED BY <1>g, <3>1, <3>2, <3>3
  <2>2. Debug!Named'
      BY <1>0, <1>9 DEF Debug!Kinds, Debug!Named, Debug!Names, Debug!Attached
  <2>3. Debug!Read'
      BY <1>0, <1>9 DEF Debug!Kinds, Debug!Read
  <2>4. Debug!Attached'
      BY <1>0, <1>9 DEF Debug!Kinds, Debug!Named, Debug!Read, Debug!Attached,
          Debug!ContainersAccounted
  <2>5. Debug!ContainersAccounted'
      BY <1>0, <1>9 DEF Debug!Kinds, Debug!Named, Debug!Read, Debug!Attached,
          Debug!ContainersAccounted
  <2> QED BY <1>k, <2>1, <2>2, <2>3, <2>4, <2>5
<1>10. ASSUME NEW s \in Attempts, Debug!ShellEnds(s) PROVE Debug!IInv'
  <2> USE DEF Debug!ShellEnds
  <2>1. Debug!Kinds'
    <3>1. "over" \in Debug!Steps
        BY DEF Debug!Steps
    <3>2. s4' = [s4 EXCEPT ![s].step = "over"] /\ (s5' = s5 \/ s5' = [s5 EXCEPT ![s] = "error"])
        BY <1>10
    <3>3. s1' = s1 /\ s2' = s2 /\ s3' = s3 /\ s6' = s6
        BY <1>10
    <3> QED BY <1>g, <3>1, <3>2, <3>3
  <2>2. Debug!Named'
      BY <1>0, <1>10 DEF Debug!Kinds, Debug!Named, Debug!Names, Debug!Attached
  <2>3. Debug!Read'
      BY <1>0, <1>10 DEF Debug!Kinds, Debug!Read
  <2>4. Debug!Attached'
      BY <1>0, <1>10 DEF Debug!Kinds, Debug!Named, Debug!Read, Debug!Attached,
          Debug!ContainersAccounted
  <2>5. Debug!ContainersAccounted'
      BY <1>0, <1>10 DEF Debug!Kinds, Debug!Named, Debug!Read, Debug!Attached,
          Debug!ContainersAccounted
  <2> QED BY <1>k, <2>1, <2>2, <2>3, <2>4, <2>5
<1>11. ASSUME NEW n \in Debug!Names, NEW state \in Debug!States, Debug!Turns(n, state)
       PROVE  Debug!IInv'
  <2> USE DEF Debug!Turns
  <2>1. Debug!Kinds'
      BY <1>0, <1>11 DEF Debug!Kinds, Debug!Named, Debug!Names, Debug!Steps, Debug!States
  <2>2. Debug!Named'
      BY <1>0, <1>11 DEF Debug!Kinds, Debug!Named, Debug!Names, Debug!Attached
  <2>3. Debug!Read'
      BY <1>0, <1>11 DEF Debug!Kinds, Debug!Read
  <2>4. Debug!Attached'
      BY <1>0, <1>11 DEF Debug!Kinds, Debug!Named, Debug!Read, Debug!Attached,
          Debug!ContainersAccounted
  <2>5. Debug!ContainersAccounted'
      BY <1>0, <1>11 DEF Debug!Kinds, Debug!Named, Debug!Read, Debug!Attached,
          Debug!ContainersAccounted
  <2> QED BY <1>k, <2>1, <2>2, <2>3, <2>4, <2>5
<1>12. CASE Debug!Other
  <2> USE DEF Debug!Other
  <2>1. Debug!Kinds'
      BY <1>0, <1>12 DEF Debug!Kinds, Debug!Named, Debug!Names, Debug!Steps, Debug!States
  <2>2. Debug!Named'
      BY <1>0, <1>12 DEF Debug!Kinds, Debug!Named, Debug!Names, Debug!Attached
  <2>3. Debug!Read'
      BY <1>0, <1>12 DEF Debug!Kinds, Debug!Read
  <2>4. Debug!Attached'
      BY <1>0, <1>12 DEF Debug!Kinds, Debug!Named, Debug!Read, Debug!Attached,
          Debug!ContainersAccounted
  <2>5. Debug!ContainersAccounted'
      BY <1>0, <1>12 DEF Debug!Kinds, Debug!Named, Debug!Read, Debug!Attached,
          Debug!ContainersAccounted
  <2> QED BY <1>k, <2>1, <2>2, <2>3, <2>4, <2>5
<1>13. CASE Debug!Replaced
  <2> USE DEF Debug!Replaced
  <2>1. Debug!Kinds'
      BY <1>0, <1>13 DEF Debug!Kinds, Debug!Named, Debug!Names, Debug!Steps, Debug!States
  <2>2. Debug!Named'
      BY <1>0, <1>13 DEF Debug!Kinds, Debug!Named, Debug!Names, Debug!Attached
  <2>3. Debug!Read'
      BY <1>0, <1>13 DEF Debug!Kinds, Debug!Read
  <2>4. Debug!Attached'
      BY <1>0, <1>13 DEF Debug!Kinds, Debug!Named, Debug!Read, Debug!Attached,
          Debug!ContainersAccounted
  <2>5. Debug!ContainersAccounted'
      BY <1>0, <1>13 DEF Debug!Kinds, Debug!Named, Debug!Read, Debug!Attached,
          Debug!ContainersAccounted
  <2> QED BY <1>k, <2>1, <2>2, <2>3, <2>4, <2>5
<1>14. CASE Debug!Tick
  <2> USE DEF Debug!Tick
  <2>1. Debug!Kinds'
      BY <1>0, <1>14 DEF Debug!Kinds, Debug!Named, Debug!Names, Debug!Steps, Debug!States
  <2>2. Debug!Named'
      BY <1>0, <1>14 DEF Debug!Kinds, Debug!Named, Debug!Names, Debug!Attached
  <2>3. Debug!Read'
      BY <1>0, <1>14 DEF Debug!Kinds, Debug!Read
  <2>4. Debug!Attached'
      BY <1>0, <1>14 DEF Debug!Kinds, Debug!Named, Debug!Read, Debug!Attached,
          Debug!ContainersAccounted
  <2>5. Debug!ContainersAccounted'
      BY <1>0, <1>14 DEF Debug!Kinds, Debug!Named, Debug!Read, Debug!Attached,
          Debug!ContainersAccounted
  <2> QED BY <1>k, <2>1, <2>2, <2>3, <2>4, <2>5
<1>15. CASE UNCHANGED Debug!vars
    BY <1>0, <1>k, <1>15 DEF Debug!vars, Debug!Kinds, Debug!Named, Debug!Read,
        Debug!Attached, Debug!ContainersAccounted
<1> QED BY <1>1, <1>2, <1>3, <1>4, <1>5, <1>6, <1>7, <1>8, <1>9, <1>10, <1>11, <1>12,
        <1>13, <1>14, <1>15 DEF Debug!Next

-----------------------------------------------------------------------------
(* The row of a cluster (cluster/service.go, monitor.go). *)

\* Each context of a paste names a server, or none that may be reached.
LEMMA RegisterBounds ==
  /\ \A p \in Pastes : \A n \in DOMAIN p.contexts :
        p.contexts[n] \in Servers \cup {Blocked, Unresolved}
  /\ RowChanges \in Nat /\ RowFaults \in Nat
BY MCPastesNamed DEF Register!PastesAssumption

\* The invariant of the registered cluster holds at first.
LEMMA RegisterInit == Register!Init => Register!IInv
<1> SUFFICES ASSUME Register!Init PROVE Register!IInv
    OBVIOUS
<1>1. /\ s1 = Nothing /\ s2 \in [Servers -> {"full", "rejected"}] /\ s4 = Nothing
      /\ s3 = [p \in Register!Probers |-> Register!Rest] /\ s5 = FALSE /\ s6 = FALSE
      /\ s7 = 0 /\ s8 = 0
    BY DEF Register!Init
<1>2. s5 \in BOOLEAN /\ s6 \in BOOLEAN
    BY <1>1
<1>3. s7 \in 0..RowChanges /\ s8 \in 0..RowFaults
    BY <1>1, RegisterBounds
<1>4. s2 \in [Servers -> {"full", "narrow", "forbidden", "rejected", "down"}]
    BY <1>1
<1>5. Register!Rest \in [step : {"rest", "read", "ask", "record", "reload"},
                         cred : Register!Creds \cup {Nothing}, found : Register!Statuses \cup {Nothing}]
    BY DEF Register!Rest
<1>6. Register!TypeOK
    BY <1>1, <1>2, <1>3, <1>4, <1>5 DEF Register!TypeOK
<1>7. \A w \in Register!Probers : s3[w].step = "rest"
    BY <1>1 DEF Register!Rest
<1>8. ~s5 /\ ~s6
    BY <1>1
<1> QED BY <1>6, <1>7, <1>8 DEF Register!IInv, Register!Alarmed, Register!Found,
        Register!AlarmedOnce

\* Every step of the registered cluster keeps the invariant.
LEMMA RegisterStep == Register!IInv /\ [Register!Next]_(Register!vars) => Register!IInv'
<1> SUFFICES ASSUME Register!IInv, [Register!Next]_(Register!vars) PROVE Register!IInv'
    OBVIOUS
<1> DEFINE Who == Register!Probers
           Row == [cred : Register!Creds, server : Servers \cup {Unresolved}, status : Register!Statuses]
           Probe == [step : {"rest", "read", "ask", "record", "reload"},
                     cred : Register!Creds \cup {Nothing}, found : Register!Statuses \cup {Nothing}]
           Answers == {"full", "narrow", "forbidden", "rejected", "down"}
           RowOK == s1 = Nothing \/ s1 \in Row
           ProbeOK == s3 \in [Who -> Probe] /\ Register!Found
           Bounds == s7 \in 0..RowChanges /\ s8 \in 0..RowFaults
           NoneAbout == s5 \in BOOLEAN /\ s6 \in BOOLEAN /\ ~s6
           Rest == s2 \in [Servers -> Answers] /\ s4 \in Register!Statuses \cup {Nothing}
<1>0. RowOK /\ ProbeOK /\ Bounds /\ NoneAbout /\ Rest /\ Register!Alarmed
    BY DEF Register!IInv, Register!TypeOK, Register!AlarmedOnce
<1>k. RowOK' /\ ProbeOK' /\ Bounds' /\ NoneAbout' /\ Rest' /\ Register!Alarmed' => Register!IInv'
    BY DEF Register!IInv, Register!TypeOK, Register!AlarmedOnce
<1>b. /\ Register!Changes => s7' \in 0..RowChanges
      /\ Register!Faults => s8' \in 0..RowFaults
      /\ s8 < RowFaults => s8 + 1 \in 0..RowFaults
    BY <1>0, RegisterBounds DEF Register!Changes, Register!Faults
<1>m. "monitor" \in Who /\ "save" \in Who /\ "check" \in Who
    BY DEF Register!Probers
<1>r. Register!Rest \in Probe /\ Register!Rest.step = "rest"
    BY DEF Register!Rest
<1>p. ASSUME NEW who \in Who, Register!Probing(who)
      PROVE  /\ ProbeOK' /\ s3'[who].step = "read"
             /\ \A x \in Who : x # who => s3'[x] = s3[x]
  <2>1. [Register!Rest EXCEPT !.step = "read"] \in Probe
        /\ [Register!Rest EXCEPT !.step = "read"].step = "read"
      BY <1>r
  <2> QED BY <1>0, <1>p, <2>1 DEF Register!Probing, Register!Found
<1>s. ASSUME NEW p \in Pastes, NEW name, Register!Usable(p, name)
      PROVE  Register!Stored(p, name) \in Row /\ Register!Stored(p, name).status = "unknown"
  <2>1. Register!Selected(p, name) \in DOMAIN p.contexts
        /\ p.contexts[Register!Selected(p, name)] \in Servers \cup {Unresolved}
      BY <1>s, RegisterBounds DEF Register!Usable
  <2>2. [paste |-> p, context |-> Register!Selected(p, name)] \in Register!Creds
      BY <2>1 DEF Register!Creds, Register!Names
  <2> QED BY <2>1, <2>2 DEF Register!Stored, Register!Statuses
\* A row that shows something else ends the alarm.
<1>w. ASSUME Register!Watch, s1' = Nothing \/ s1'.status # "invalid"
      PROVE  s5' \in BOOLEAN /\ ~s5' /\ Register!Alarmed'
  <2>1. ~s5' /\ s5' \in BOOLEAN
      BY <1>w DEF Register!Watch
  <2> QED BY <2>1 DEF Register!Alarmed
<1>1. ASSUME NEW p \in Pastes, NEW name, Register!Create(p, name) \/ Register!Replace(p, name)
      PROVE  Register!IInv'
  <2>1. /\ Register!Usable(p, name) /\ Register!Changes /\ s1' = Register!Stored(p, name)
        /\ Register!Probing("save") /\ Register!Watch /\ UNCHANGED <<s2, s4, s6, s8>>
      BY <1>1 DEF Register!Create, Register!Replace
  <2>2. RowOK' /\ s1'.status = "unknown"
      BY <1>s, <2>1
  <2>3. ProbeOK'
      BY <1>m, <1>p, <2>1
  <2>4. Register!Alarmed' /\ s5' \in BOOLEAN
      BY <1>w, <2>1, <2>2
  <2>5. Bounds' /\ NoneAbout' /\ Rest'
      BY <1>0, <1>b, <2>1, <2>4
  <2> HIDE DEF RowOK, ProbeOK, Bounds, NoneAbout, Rest
  <2> QED BY <1>k, <2>2, <2>3, <2>4, <2>5
<1>2. CASE Register!Remove
  <2>1. s1' = Nothing /\ Register!Changes /\ Register!Watch /\ UNCHANGED <<s2, s3, s4, s6, s8>>
      BY <1>2 DEF Register!Remove
  <2>2. RowOK' /\ ProbeOK'
      BY <1>0, <2>1 DEF Register!Found
  <2>3. Register!Alarmed' /\ s5' \in BOOLEAN
      BY <1>w, <2>1
  <2>4. Bounds' /\ NoneAbout' /\ Rest'
      BY <1>0, <1>b, <2>1, <2>3
  <2> HIDE DEF RowOK, ProbeOK, Bounds, NoneAbout, Rest
  <2> QED BY <1>k, <2>2, <2>3, <2>4
<1>3. CASE Register!Check
  <2>1. Register!Changes /\ Register!Probing("check") /\ UNCHANGED <<s1, s2, s4, s5, s6, s8>>
      BY <1>3 DEF Register!Check
  <2>2. ProbeOK' /\ s3'["monitor"] = s3["monitor"]
      BY <1>m, <1>p, <2>1
  <2>3. Register!Alarmed'
      BY <1>0, <2>1, <2>2 DEF Register!Alarmed
  <2>4. RowOK' /\ Bounds' /\ NoneAbout' /\ Rest'
      BY <1>0, <1>b, <2>1
  <2> HIDE DEF RowOK, ProbeOK, Bounds, NoneAbout, Rest
  <2> QED BY <1>k, <2>2, <2>3, <2>4
<1>4. CASE Register!Sweep
  <2>1. s1 # Nothing /\ s4' = s1.status /\ Register!Probing("monitor")
        /\ UNCHANGED <<s1, s2, s5, s6, s7, s8>>
      BY <1>4 DEF Register!Sweep
  <2>2. ProbeOK'
      BY <1>m, <1>p, <2>1
  <2>3. Register!Alarmed'
      BY <1>0, <2>1 DEF Register!Alarmed
  <2>4. RowOK' /\ Bounds' /\ NoneAbout' /\ Rest'
      BY <1>0, <2>1
  <2> HIDE DEF RowOK, ProbeOK, Bounds, NoneAbout, Rest
  <2> QED BY <1>k, <2>2, <2>3, <2>4
\* A probe moves on, neither to its start nor from it.
<1>n. ASSUME NEW who \in Who, NEW next \in Probe, s3' = [s3 EXCEPT ![who] = next],
             s3[who].step # "rest", next.step = "record" => next.found \in Register!Statuses
      PROVE  /\ ProbeOK'
             /\ s3'["monitor"].step # "rest" => s3["monitor"].step # "rest"
    BY <1>0, <1>m, <1>n DEF Register!Found
<1>5. ASSUME NEW who \in Who, Register!ReadCredential(who) PROVE Register!IInv'
  <2>0. UNCHANGED <<s1, s2, s4, s5, s6, s7>> /\ s3[who].step = "read" /\ s3[who] \in Probe
      BY <1>0, <1>5 DEF Register!ReadCredential
  <2>1. PICK next \in Probe : /\ s3' = [s3 EXCEPT ![who] = next]
                              /\ next.step = "record" => next.found \in Register!Statuses
    <3>1. CASE s1 # Nothing /\ s3' = [s3 EXCEPT ![who].step = "ask", ![who].cred = s1.cred]
      <4> DEFINE next == [s3[who] EXCEPT !.step = "ask", !.cred = s1.cred]
      <4>1. s1.cred \in Register!Creds
          BY <1>0, <3>1
      <4>2. next \in Probe /\ next.step = "ask"
          BY <2>0, <4>1
      <4>3. s3' = [s3 EXCEPT ![who] = next]
          BY <1>0, <3>1
      <4> QED BY <4>2, <4>3
    <3>2. CASE s3' = [s3 EXCEPT ![who].step = "record", ![who].found = "unreachable"]
      <4> DEFINE next == [s3[who] EXCEPT !.step = "record", !.found = "unreachable"]
      <4>1. next \in Probe /\ next.found \in Register!Statuses
          BY <2>0 DEF Register!Statuses
      <4>2. s3' = [s3 EXCEPT ![who] = next]
          BY <1>0, <3>2
      <4> QED BY <4>1, <4>2
    <3> QED BY <1>5, <3>1, <3>2 DEF Register!ReadCredential
  <2>2. ProbeOK' /\ (s3'["monitor"].step # "rest" => s3["monitor"].step # "rest")
      BY <1>n, <2>0, <2>1
  <2>3. Bounds'
      BY <1>0, <1>5, <1>b DEF Register!ReadCredential
  <2>4. Register!Alarmed' /\ RowOK' /\ NoneAbout' /\ Rest'
      BY <1>0, <2>0, <2>2 DEF Register!Alarmed
  <2> HIDE DEF RowOK, ProbeOK, Bounds, NoneAbout, Rest
  <2> QED BY <1>k, <2>2, <2>3, <2>4
<1>6. ASSUME NEW who \in Who, Register!Ask(who) PROVE Register!IInv'
  <2> DEFINE found == Register!Classify(Register!Answer(s3[who].cred))
             next == [s3[who] EXCEPT !.step = "record", !.found = found]
  <2>0. UNCHANGED <<s1, s2, s4, s5, s6, s7, s8>> /\ s3[who].step = "ask" /\ s3[who] \in Probe
      BY <1>0, <1>6 DEF Register!Ask
  <2>1. found \in Register!Statuses
      BY DEF Register!Classify, Register!Statuses
  <2>2. s3' = [s3 EXCEPT ![who] = next]
      BY <1>0, <1>6 DEF Register!Ask
  <2> HIDE DEF found
  <2>3. next \in Probe /\ next.found \in Register!Statuses
      BY <2>0, <2>1
  <2> HIDE DEF next
  <2>4. ProbeOK' /\ (s3'["monitor"].step # "rest" => s3["monitor"].step # "rest")
      BY <1>n, <2>0, <2>2, <2>3
  <2>5. Register!Alarmed' /\ RowOK' /\ NoneAbout' /\ Rest' /\ Bounds'
      BY <1>0, <2>0, <2>4 DEF Register!Alarmed
  <2> HIDE DEF RowOK, ProbeOK, Bounds, NoneAbout, Rest
  <2> QED BY <1>k, <2>4, <2>5
<1>7. ASSUME NEW who \in Who, Register!Record(who) PROVE Register!IInv'
  <2> DEFINE next == IF who = "monitor" THEN [Register!Rest EXCEPT !.step = "reload"] ELSE Register!Rest
  <2>0. /\ UNCHANGED <<s2, s4, s6, s7>> /\ s3[who].step = "record" /\ Register!Watch
        /\ s3' = [s3 EXCEPT ![who] = next]
      BY <1>7 DEF Register!Record
  <2>1. next \in Probe /\ next.step # "record"
      BY <1>r
  <2>2. ProbeOK' /\ (s3'["monitor"].step # "rest" => s3["monitor"].step # "rest")
    <3> HIDE DEF next
    <3> QED BY <1>n, <2>0, <2>1
  <2>3. s3[who].found \in Register!Statuses
      BY <1>0, <2>0 DEF Register!Found
  <2>4. RowOK'
    <3>1. CASE s1' = s1
        BY <1>0, <3>1
    <3>2. CASE s1 # Nothing /\ s1' = [s1 EXCEPT !.status = s3[who].found]
        BY <1>0, <2>3, <3>2
    <3> QED BY <1>7, <3>1, <3>2 DEF Register!Record
  <2>5. Bounds'
      BY <1>0, <1>7, <1>b DEF Register!Record
  <2>6. s5' \in BOOLEAN /\ (s5' => s5 /\ s1' # Nothing /\ s1'.status = "invalid")
      BY <2>0 DEF Register!Watch
  <2>7. Register!Alarmed' /\ NoneAbout' /\ Rest'
      BY <1>0, <2>0, <2>2, <2>6 DEF Register!Alarmed
  <2> HIDE DEF RowOK, ProbeOK, Bounds, NoneAbout, Rest
  <2> QED BY <1>k, <2>2, <2>4, <2>5, <2>7
<1>8. ASSUME Register!Reload \/ Register!ReloadFails PROVE Register!IInv'
  <2>0. /\ s3["monitor"].step = "reload" /\ s3' = [s3 EXCEPT !["monitor"] = Register!Rest]
        /\ s4' = Nothing /\ UNCHANGED <<s1, s2, s7>>
      BY <1>8 DEF Register!Reload, Register!ReloadFails
  <2>1. ProbeOK' /\ s3'["monitor"].step = "rest"
      BY <1>0, <1>m, <1>r, <2>0 DEF Register!Found
  <2>2. Bounds'
      BY <1>0, <1>8, <1>b DEF Register!Reload, Register!ReloadFails
  <2>3. CASE Register!Reload /\ s1 # Nothing /\ s1.status # s4 /\ s1.status = "invalid"
    <3>1. s5' = TRUE /\ s6' = (s6 \/ s5)
        BY <2>3 DEF Register!Reload
    <3>2. ~s5
        BY <1>0, <2>0, <2>3 DEF Register!Alarmed
    <3>3. ~s6' /\ s6' \in BOOLEAN /\ s5' \in BOOLEAN
        BY <1>0, <3>1, <3>2
    <3>4. Register!Alarmed' /\ RowOK' /\ NoneAbout' /\ Rest'
        BY <1>0, <2>0, <2>1, <2>3, <3>3 DEF Register!Alarmed
    <3> HIDE DEF RowOK, ProbeOK, Bounds, NoneAbout, Rest
    <3> QED BY <1>k, <2>1, <2>2, <3>4
  <2>4. CASE UNCHANGED <<s5, s6>>
    <3>1. Register!Alarmed' /\ RowOK' /\ NoneAbout' /\ Rest'
        BY <1>0, <2>0, <2>1, <2>4 DEF Register!Alarmed
    <3> HIDE DEF RowOK, ProbeOK, Bounds, NoneAbout, Rest
    <3> QED BY <1>k, <2>1, <2>2, <3>1
  <2> QED BY <1>8, <2>3, <2>4 DEF Register!Reload, Register!ReloadFails
<1>9. ASSUME NEW s \in Servers, NEW how \in Answers, Register!Turns(s, how)
      PROVE  Register!IInv'
  <2>1. s2' = [s2 EXCEPT ![s] = how] /\ Register!Changes /\ UNCHANGED <<s1, s3, s4, s5, s6, s8>>
      BY <1>9 DEF Register!Turns
  <2>2. RowOK' /\ ProbeOK' /\ Bounds' /\ NoneAbout' /\ Rest' /\ Register!Alarmed'
      BY <1>0, <1>b, <2>1 DEF Register!Alarmed, Register!Found
  <2> HIDE DEF RowOK, ProbeOK, Bounds, NoneAbout, Rest
  <2> QED BY <1>k, <2>2
<1>10. CASE UNCHANGED Register!vars
  <2>1. RowOK' /\ ProbeOK' /\ Bounds' /\ NoneAbout' /\ Rest' /\ Register!Alarmed'
      BY <1>0, <1>10 DEF Register!vars, Register!Alarmed, Register!Found
  <2> HIDE DEF RowOK, ProbeOK, Bounds, NoneAbout, Rest
  <2> QED BY <1>k, <2>1
<1> QED BY <1>1, <1>2, <1>3, <1>4, <1>5, <1>6, <1>7, <1>8, <1>9, <1>10
    DEF Register!Next, Register!Probes, Register!Refused, Register!Stop

-----------------------------------------------------------------------------
(* A terminal (kubectlsh/session.go). *)

\* The invariant of a terminal holds at first.
LEMMA TermInit ==
  ASSUME Term!Init PROVE Term!IInv
<1>1. MaxFrames \in Nat /\ MaxBytes \in Nat
    BY MCTerminal DEF Term!TerminalAssumption
<1>2. Term!TypeOK
  <2>1. s2 \in Seq(Term!Frames) /\ s7 \in Seq(Commands) /\ s13 \in Seq(Commands \X {"success", "denied"})
      BY DEF Term!Init
  <2>2. s3 \in 0..MaxFrames /\ s8 \in 0..Len(s7) /\ s11 \in 0..MaxBytes
    <3>1. Len(s7) \in Nat
        BY <2>1
    <3> QED BY <1>1, <3>1 DEF Term!Init
  <2> QED BY <2>1, <2>2 DEF Term!Init, Term!TypeOK
<1>3. Term!Stages
    BY DEF Term!Init, Term!Stages
<1>4. Term!RanAllowed
    BY DEF Term!Init, Term!RanAllowed
<1>5. Term!Matches(s7, s13)
  <2>1. s7 = << >> /\ s13 = << >>
      BY DEF Term!Init
  <2>2. DOMAIN s7 = {} /\ DOMAIN s13 = {}
      BY <2>1
  <2> DEFINE at == [i \in DOMAIN s13 |-> 1]
  <2>3. at \in [DOMAIN s13 -> {i \in DOMAIN s7 : ~Term!Builtin(s7[i])}]
      BY <2>2
  <2> QED BY <2>2, <2>3 DEF Term!Matches
<1>6. s9 # "running"
    BY DEF Term!Init
<1> QED BY <1>2, <1>3, <1>4, <1>5, <1>6 DEF Term!IInv, Term!CommandsAnswered

\* A command that is kept and one that is recorded belong together.
LEMMA Recorded ==
  ASSUME NEW C0, NEW R, NEW h \in Seq(C0), NEW t \in Seq(C0 \X R), Term!Matches(h, t),
         NEW c \in C0, NEW r \in R
  PROVE  /\ Term!Builtin(c) => Term!Matches(Append(h, c), t)
         /\ ~Term!Builtin(c) => Term!Matches(Append(h, c), Append(t, <<c, r>>))
<1> DEFINE k == Append(h, c)
           u == Append(t, <<c, r>>)
           n == Len(t)
           m == Len(h)
<1>0. PICK at \in [DOMAIN t -> {i \in DOMAIN h : ~Term!Builtin(h[i])}] :
         /\ \A i \in DOMAIN h : ~Term!Builtin(h[i]) => \E j \in DOMAIN t : at[j] = i
         /\ \A i, j \in DOMAIN t : i < j => at[i] < at[j]
         /\ \A i \in DOMAIN t : t[i][1] = h[at[i]]
    BY DEF Term!Matches
<1>1. n \in Nat /\ m \in Nat /\ DOMAIN t = 1..n /\ DOMAIN h = 1..m
    OBVIOUS
<1>2. DOMAIN k = 1..(m + 1) /\ k[m + 1] = c /\ \A i \in 1..m : k[i] = h[i]
    OBVIOUS
<1>3. DOMAIN u = 1..(n + 1) /\ u[n + 1] = <<c, r>> /\ \A i \in 1..n : u[i] = t[i]
    OBVIOUS
<1>4. \A j \in 1..n : at[j] \in 1..m /\ ~Term!Builtin(h[at[j]])
    BY <1>1
<1> HIDE DEF k, u, n, m
<1>5. CASE Term!Builtin(c)
  <2>1. at \in [DOMAIN t -> {i \in DOMAIN k : ~Term!Builtin(k[i])}]
    <3>1. \A j \in 1..n : at[j] \in DOMAIN k /\ ~Term!Builtin(k[at[j]])
        BY <1>1, <1>2, <1>4
    <3> QED BY <1>1, <3>1
  <2>2. ASSUME NEW i \in DOMAIN k, ~Term!Builtin(k[i])
        PROVE  \E j \in DOMAIN t : at[j] = i
    <3>1. i # m + 1
        BY <1>2, <1>5, <2>2
    <3>2. i \in 1..m
        BY <1>1, <1>2, <3>1
    <3> QED BY <1>0, <1>1, <1>2, <2>2, <3>2
  <2>3. \A i \in DOMAIN t : t[i][1] = k[at[i]]
      BY <1>0, <1>1, <1>2, <1>4
  <2>4. \A i, j \in DOMAIN t : i < j => at[i] < at[j]
      BY <1>0
  <2> QED BY <1>5, <2>1, <2>2, <2>3, <2>4 DEF k, Term!Matches
<1>6. CASE ~Term!Builtin(c)
  <2> DEFINE to == [j \in 1..(n + 1) |-> IF j = n + 1 THEN m + 1 ELSE at[j]]
  <2>0. to[n + 1] = m + 1 /\ \A j \in 1..n : to[j] = at[j]
      BY <1>1
  <2>a. DOMAIN to = 1..(n + 1)
      OBVIOUS
  <2>b. to = [j \in DOMAIN to |-> to[j]]
      OBVIOUS
  <2> HIDE DEF to
  <2>c. \A j \in 1..(n + 1) : j = n + 1 \/ j \in 1..n
      BY <1>1
  <2>1. to \in [DOMAIN u -> {i \in DOMAIN k : ~Term!Builtin(k[i])}]
    <3>1. \A j \in 1..n : to[j] \in DOMAIN k /\ ~Term!Builtin(k[to[j]])
        BY <1>1, <1>2, <1>4, <2>0
    <3>2. to[n + 1] \in DOMAIN k /\ ~Term!Builtin(k[to[n + 1]])
        BY <1>1, <1>2, <1>6, <2>0
    <3>3. \A j \in 1..(n + 1) : to[j] \in {i \in DOMAIN k : ~Term!Builtin(k[i])}
        BY <2>c, <3>1, <3>2
    <3> QED BY <1>3, <2>a, <2>b, <3>3
  <2>2. ASSUME NEW i \in DOMAIN k, ~Term!Builtin(k[i])
        PROVE  \E j \in DOMAIN u : to[j] = i
    <3>1. CASE i = m + 1
      <4>1. n + 1 \in DOMAIN u
          BY <1>1, <1>3
      <4> QED BY <2>0, <3>1, <4>1
    <3>2. CASE i # m + 1
      <4>1. i \in 1..m
          BY <1>1, <1>2, <3>2
      <4>2. PICK j \in 1..n : at[j] = i
          BY <1>0, <1>1, <1>2, <2>2, <4>1
      <4>3. j \in 1..(n + 1) /\ to[j] = i
          BY <1>1, <2>0, <4>2
      <4> QED BY <1>3, <4>3
    <3> QED BY <3>1, <3>2
  <2>3. ASSUME NEW i \in DOMAIN u, NEW j \in DOMAIN u, i < j
        PROVE  to[i] < to[j]
    <3>1. i \in 1..n
        BY <1>1, <1>3, <2>3
    <3>2. CASE j = n + 1
        BY <1>1, <1>4, <2>0, <3>1, <3>2
    <3>3. CASE j \in 1..n
        BY <1>0, <1>1, <2>0, <2>3, <3>1, <3>3
    <3> QED BY <1>3, <2>c, <3>2, <3>3
  <2>4. ASSUME NEW i \in DOMAIN u
        PROVE  u[i][1] = k[to[i]]
    <3>1. CASE i = n + 1
        BY <1>2, <1>3, <2>0, <3>1
    <3>2. CASE i \in 1..n
        BY <1>0, <1>1, <1>2, <1>3, <1>4, <2>0, <3>2
    <3> QED BY <1>3, <2>c, <3>1, <3>2
  <2> QED BY <1>6, <2>1, <2>2, <2>3, <2>4 DEF k, u, Term!Matches
<1> QED BY <1>5, <1>6

\* Every step of a terminal keeps the invariant.
LEMMA TermStep ==
  ASSUME Term!IInv, Term!Next PROVE Term!IInv'
<1> USE DEF Term!socket, Term!editor, Term!process
<1> DEFINE Stays == s7' = s7 /\ s13' = s13 /\ s5' = s5
<1>0. MaxFrames \in Nat /\ MaxBytes \in Nat
    BY MCTerminal DEF Term!TerminalAssumption
<1>1. Term!TypeOK /\ Term!Stages /\ Term!Matches(s7, s13) /\ Term!RanAllowed
    BY DEF Term!IInv, Term!CommandsAnswered
<1>2. ASSUME Stays PROVE Term!Matches(s7, s13)' /\ Term!RanAllowed'
    BY <1>1, <1>2 DEF Term!Matches, Term!RanAllowed
<1>3. ASSUME Term!TypeOK', Term!Stages', Term!Matches(s7, s13)', Term!RanAllowed'
      PROVE  Term!IInv'
    BY <1>3 DEF Term!IInv, Term!CommandsAnswered, Term!Stages
<1>4. \A f \in Seq(Term!Frames) : f # <<>> => Head(f) \in Term!Frames /\ Tail(f) \in Seq(Term!Frames)
    OBVIOUS
<1>a. \A f \in Term!Frames : f.key = "text" => f.text \in Commands
    BY DEF Term!Frames, Term!Controls, Term!Key, Term!Text
<1> HIDE DEF Stays
<1>5. ASSUME NEW f \in Term!Frames, Term!Press(f) PROVE Term!IInv'
  <2>1. Stays
      BY <1>5 DEF Stays, Term!Press
  <2>2. Term!TypeOK'
    <3>1. s2' \in Seq(Term!Frames) /\ s3' \in 0..MaxFrames
        BY <1>0, <1>1, <1>5 DEF Term!TypeOK, Term!Press
    <3> QED BY <1>1, <1>5, <3>1 DEF Term!TypeOK, Term!Press
  <2>3. Term!Stages'
      BY <1>1, <1>5 DEF Term!Stages, Term!Press
  <2> QED BY <1>2, <1>3, <2>1, <2>2, <2>3
<1>6. CASE Term!Leave
  <2>1. Stays
      BY <1>6 DEF Stays, Term!Leave
  <2>2. Term!TypeOK'
      BY <1>1, <1>6 DEF Term!TypeOK, Term!Leave
  <2>3. Term!Stages'
      BY <1>1, <1>6 DEF Term!Stages, Term!Leave
  <2> QED BY <1>2, <1>3, <2>1, <2>2, <2>3
<1>7. CASE Term!Gate
  <2>1. s13 = <<>> /\ s13' = <<>> /\ s7' = s7
      BY <1>1, <1>7 DEF Term!Gate, Term!Stages
  <2>2. Term!TypeOK'
      BY <1>1, <1>7 DEF Term!TypeOK, Term!Gate
  <2>3. Term!Stages'
      BY <1>1, <1>7 DEF Term!Stages, Term!Gate
  <2>4. Term!Matches(s7, s13)'
    <3>1. s13' = s13 /\ s7' = s7
        BY <2>1
    <3> QED BY <1>1, <3>1
  <2>5. Term!RanAllowed'
      BY <2>1 DEF Term!RanAllowed
  <2> QED BY <1>3, <2>2, <2>3, <2>4, <2>5
<1>8. CASE Term!Open
  <2>1. Stays
      BY <1>8 DEF Stays, Term!Open
  <2>2. Term!TypeOK'
      BY <1>1, <1>8 DEF Term!TypeOK, Term!Open
  <2>3. Term!Stages'
      BY <1>1, <1>8 DEF Term!Stages, Term!Open
  <2> QED BY <1>2, <1>3, <2>1, <2>2, <2>3
<1>9. CASE Term!Enter
  <2>1. /\ s4 = "read" /\ s2 \in Seq(Term!Frames) /\ s2 # <<>> /\ s2' = Tail(s2)
        /\ s6' = Nothing /\ s8' = 0
        /\ s7' = (IF s6 = Nothing THEN s7 ELSE Append(s7, s6))
        /\ s1' = s1 /\ s3' = s3 /\ s5' = s5 /\ s11' = s11 /\ s12' = s12
      BY <1>1, <1>9 DEF Term!Enter, Term!Reads, Term!TypeOK
  <2>2. /\ s6 \in Commands \cup {Nothing} /\ s7 \in Seq(Commands)
        /\ s13 \in Seq(Commands \X {"success", "denied"})
      BY <1>1 DEF Term!TypeOK
  <2>4. s2' \in Seq(Term!Frames) /\ s7' \in Seq(Commands) /\ s8' \in 0..Len(s7')
    <3>1. s7' \in Seq(Commands)
        BY <2>1, <2>2
    <3>2. Len(s7') \in Nat
        BY <3>1
    <3> QED BY <1>4, <2>1, <3>1, <3>2
  <2>5. CASE Term!Builtin(s6)
    <3>1. s4' = s4 /\ s9' = s9 /\ s10' = s10 /\ s13' = s13
        BY <1>9, <2>5 DEF Term!Enter
    <3>2. Term!TypeOK'
        BY <1>1, <2>1, <2>4, <3>1 DEF Term!TypeOK
    <3>3. Term!Stages'
        BY <1>1, <2>1, <3>1 DEF Term!Stages
    <3>4. Term!Matches(s7, s13)'
      <4>1. CASE s6 = Nothing
        <5>1. s7' = s7
            BY <2>1, <4>1
        <5> QED BY <1>1, <3>1, <5>1 DEF Term!Matches
      <4>2. CASE s6 # Nothing
        <5>1. s6 \in Commands /\ s7' = Append(s7, s6)
            BY <2>1, <2>2, <4>2
        <5>2. Term!Matches(Append(s7, s6), s13)
            BY <1>1, <2>2, <2>5, <5>1, Recorded
        <5> QED BY <3>1, <5>1, <5>2
      <4> QED BY <4>1, <4>2
    <3>5. Term!RanAllowed'
        BY <1>1, <2>1, <3>1 DEF Term!RanAllowed
    <3> QED BY <1>3, <3>2, <3>3, <3>4, <3>5
  <2>6. CASE ~Term!Builtin(s6)
    <3> DEFINE result == IF Term!Allowed(s6) THEN "success" ELSE "denied"
    <3>1. s6 # Nothing /\ s6 \in Commands /\ s7' = Append(s7, s6)
        BY <2>1, <2>2, <2>6 DEF Term!Builtin
    <3>2. s13' = Append(s13, <<s6, result>>) /\ result \in {"success", "denied"}
        BY <1>9, <2>6 DEF Term!Enter, Term!Record
    <3>3. \/ Term!Allowed(s6) /\ s4' = "run" /\ s9' = "running" /\ s10' = FALSE
          \/ ~Term!Allowed(s6) /\ s4' = s4 /\ s9' = s9 /\ s10' = s10
        BY <1>9, <2>6 DEF Term!Enter
    <3>4. Term!Allowed(s6) => result = "success"
        OBVIOUS
    <3>5. result = "success" => Term!Allowed(s6)
        OBVIOUS
    <3> HIDE DEF result
    <3>6. s13' \in Seq(Commands \X {"success", "denied"})
        BY <2>2, <3>1, <3>2
    <3>7. s13' # <<>> /\ s13'[Len(s13')] = <<s6, result>>
        BY <2>2, <3>2
    <3>8. Term!TypeOK'
      <4>1. s4' \in {"read", "run"} /\ s9' \in {"none", "running", "ended"} /\ s10' \in BOOLEAN
          BY <1>1, <2>1, <3>3 DEF Term!TypeOK
      <4> QED BY <1>1, <2>1, <2>4, <3>6, <4>1 DEF Term!TypeOK
    <3>9. Term!Stages'
      <4>1. s12 = TRUE
          BY <1>1, <2>1 DEF Term!Stages, Term!TypeOK
      <4>2. s4' \in {"read", "run"} /\ (s9' # "none" <=> s4' = "run")
          BY <1>1, <2>1, <3>3 DEF Term!Stages
      <4>3. s4' = "run" => s13'[Len(s13')][2] = "success"
          BY <2>1, <3>3, <3>4, <3>7
      <4> QED BY <2>1, <3>7, <4>1, <4>2, <4>3 DEF Term!Stages
    <3>10. Term!Matches(s7, s13)'
      <4>1. Term!Matches(Append(s7, s6), Append(s13, <<s6, result>>))
          BY <1>1, <2>2, <2>6, <3>1, <3>2, Recorded
      <4> QED BY <3>1, <3>2, <4>1
    <3>11. Term!RanAllowed'
      <4> SUFFICES ASSUME NEW i \in DOMAIN s13', s13'[i][2] = "success",
                          NEW j \in DOMAIN s13'[i][1].words
                   PROVE  /\ s13'[i][1].words[j] \notin Term!RefusedVerbs
                          /\ s13'[i][1].words[j] \in Term!MutatingVerbs => s5'
          BY DEF Term!RanAllowed
      <4>0. /\ \A l \in DOMAIN s13 : s13'[l] = s13[l]
            /\ i \in DOMAIN s13 \/ s13'[i] = <<s6, result>>
          BY <2>2, <3>2
      <4>1. CASE i \in DOMAIN s13
          BY <1>1, <2>1, <4>0, <4>1 DEF Term!RanAllowed
      <4>2. CASE s13'[i] = <<s6, result>>
        <5>1. Term!Allowed(s6) /\ s13'[i][1] = s6
            BY <3>5, <4>2
        <5> QED BY <2>1, <5>1 DEF Term!Allowed
      <4> QED BY <4>0, <4>1, <4>2
    <3> QED BY <1>3, <3>8, <3>9, <3>10, <3>11
  <2> QED BY <2>5, <2>6
<1>10. CASE Term!Interrupt
  <2>0. s2 \in Seq(Term!Frames) /\ s2 # <<>> /\ s2' = Tail(s2)
      BY <1>1, <1>10 DEF Term!Interrupt, Term!Reads, Term!TypeOK
  <2>1. Stays
      BY <1>10 DEF Stays, Term!Interrupt
  <2>2. Term!TypeOK'
    <3>1. s2' \in Seq(Term!Frames)
        BY <1>4, <2>0
    <3> QED BY <1>1, <1>10, <3>1 DEF Term!TypeOK, Term!Interrupt
  <2>3. Term!Stages'
      BY <1>1, <1>10 DEF Term!Stages, Term!Interrupt
  <2> QED BY <1>2, <1>3, <2>1, <2>2, <2>3
<1>11. ASSUME NEW direction, NEW step \in {1, -1}, Term!Recall(direction, step)
       PROVE  Term!IInv'
  <2>0. s2 \in Seq(Term!Frames) /\ s2 # <<>> /\ s2' = Tail(s2)
      BY <1>1, <1>11 DEF Term!Recall, Term!Reads, Term!TypeOK
  <2>1. Stays
      BY <1>11 DEF Stays, Term!Recall
  <2>2. Term!TypeOK'
    <3>1. s2' \in Seq(Term!Frames)
        BY <1>4, <2>0
    <3>2. s8' \in 0..Len(s7) /\ s6' \in Commands \cup {Nothing}
      <4>1. /\ s7 \in Seq(Commands) /\ s8 \in 0..Len(s7) /\ s6 \in Commands \cup {Nothing}
            /\ Len(s7) \in Nat
          BY <1>1 DEF Term!TypeOK
      <4> DEFINE next == s8 + step
      <4>2. next \in Int
          BY <4>1
      <4>3. \/ /\ next \in 0..Len(s7) /\ s8' = next
               /\ s6' = IF next = 0 THEN Nothing ELSE s7[Len(s7) - next + 1]
            \/ s8' = s8 /\ s6' = s6
          BY <1>11 DEF Term!Recall
      <4> HIDE DEF next
      <4>4. next \in 0..Len(s7) /\ next # 0 => Len(s7) - next + 1 \in 1..Len(s7)
          BY <4>1, <4>2
      <4>5. \A i \in 1..Len(s7) : s7[i] \in Commands
          BY <4>1
      <4> QED BY <4>1, <4>3, <4>4, <4>5
    <3>3. s7' = s7
        BY <2>1 DEF Stays
    <3> QED BY <1>1, <1>11, <3>1, <3>2, <3>3 DEF Term!TypeOK, Term!Recall
  <2>3. Term!Stages'
      BY <1>1, <1>11 DEF Term!Stages, Term!Recall
  <2> QED BY <1>2, <1>3, <2>1, <2>2, <2>3
<1>12. CASE Term!Type
  <2>0. /\ s2 \in Seq(Term!Frames) /\ s2 # <<>> /\ s2' = Tail(s2)
        /\ \/ Head(s2).key = "text" /\ s6' = (IF s6 = Nothing THEN Head(s2).text ELSE s6)
           \/ s6' = Nothing
      BY <1>1, <1>12 DEF Term!Type, Term!Reads, Term!TypeOK
  <2>1. Stays
      BY <1>12 DEF Stays, Term!Type
  <2>2. Term!TypeOK'
    <3>1. s2' \in Seq(Term!Frames) /\ Head(s2) \in Term!Frames
        BY <1>4, <2>0
    <3>2. s6' \in Commands \cup {Nothing}
        BY <1>1, <1>a, <2>0, <3>1 DEF Term!TypeOK
    <3> QED BY <1>1, <1>12, <3>1, <3>2 DEF Term!TypeOK, Term!Type
  <2>3. Term!Stages'
      BY <1>1, <1>12 DEF Term!Stages, Term!Type
  <2> QED BY <1>2, <1>3, <2>1, <2>2, <2>3
<1>13. CASE Term!Upload
  <2>0. s2 \in Seq(Term!Frames) /\ s2 # <<>> /\ s2' = Tail(s2)
      BY <1>1, <1>13 DEF Term!Upload, Term!Reads, Term!TypeOK
  <2>1. Stays
      BY <1>13 DEF Stays, Term!Upload
  <2>2. Term!TypeOK'
    <3>1. s2' \in Seq(Term!Frames)
        BY <1>4, <2>0
    <3>2. s11' \in 0..MaxBytes
        BY <1>0, <1>1, <1>13 DEF Term!TypeOK, Term!Upload
    <3> QED BY <1>1, <1>13, <3>1, <3>2 DEF Term!TypeOK, Term!Upload
  <2>3. Term!Stages'
      BY <1>1, <1>13 DEF Term!Stages, Term!Upload
  <2> QED BY <1>2, <1>3, <2>1, <2>2, <2>3
<1>14. CASE Term!ReadFails
  <2>1. Stays
      BY <1>14 DEF Stays, Term!ReadFails
  <2>2. Term!TypeOK'
      BY <1>1, <1>14 DEF Term!TypeOK, Term!ReadFails
  <2>3. Term!Stages'
      BY <1>1, <1>14 DEF Term!Stages, Term!ReadFails
  <2> QED BY <1>2, <1>3, <2>1, <2>2, <2>3
<1>15. CASE Term!CommandEnds
  <2>1. Stays
      BY <1>15 DEF Stays, Term!CommandEnds
  <2>2. Term!TypeOK'
      BY <1>1, <1>15 DEF Term!TypeOK, Term!CommandEnds
  <2>3. Term!Stages'
      BY <1>1, <1>15 DEF Term!Stages, Term!CommandEnds
  <2> QED BY <1>2, <1>3, <2>1, <2>2, <2>3
<1>16. CASE Term!LimitPasses
  <2>1. Stays
      BY <1>16 DEF Stays, Term!LimitPasses
  <2>2. Term!TypeOK'
      BY <1>1, <1>16 DEF Term!TypeOK, Term!LimitPasses
  <2>3. Term!Stages'
      BY <1>1, <1>16 DEF Term!Stages, Term!LimitPasses
  <2> QED BY <1>2, <1>3, <2>1, <2>2, <2>3
<1>17. CASE Term!Prompt
  <2>1. Stays
      BY <1>17 DEF Stays, Term!Prompt
  <2>2. Term!TypeOK'
      BY <1>1, <1>17 DEF Term!TypeOK, Term!Prompt
  <2>3. Term!Stages'
      BY <1>1, <1>17 DEF Term!Stages, Term!Prompt
  <2> QED BY <1>2, <1>3, <2>1, <2>2, <2>3
<1> QED BY <1>5, <1>6, <1>7, <1>8, <1>9, <1>10, <1>11, <1>12, <1>13, <1>14, <1>15,
        <1>16, <1>17
        DEF Term!Next

-----------------------------------------------------------------------------
(* An exec session (httpapi/exec_handlers.go). *)

Frame == [id : 1 .. MaxTyped, size : Exec!Sizes]

\* A sequence of one item.
LEMMA Single ==
  ASSUME NEW S, NEW s \in Seq(S), Len(s) = 1
  PROVE  s = <<s[1]>> /\ s[1] \in S /\ DOMAIN s = {1}
<1>1. DOMAIN s = 1..1 /\ 1..1 = {1} /\ s[1] \in S
    OBVIOUS
<1>2. <<s[1]>> \in Seq(S) /\ Len(<<s[1]>>) = 1 /\ <<s[1]>>[1] = s[1]
    BY <1>1
<1>3. \A i \in 1..Len(s) : s[i] = <<s[1]>>[i]
    BY <1>1, <1>2
<1>4. s = <<s[1]>>
    BY <1>2, <1>3, SeqEqual
<1> QED BY <1>1, <1>4

\* A frame younger than all of a text may be added to it.
LEMMA Younger ==
  ASSUME NEW s \in Seq(Frame), NEW e \in Frame, Exec!Ascending(s),
         \A i \in DOMAIN s : s[i].id < e.id
  PROVE  Exec!Ascending(Append(s, e))
<1>1. /\ DOMAIN Append(s, e) = 1..(Len(s) + 1) /\ DOMAIN s = 1..Len(s) /\ Len(s) \in Nat
      /\ Append(s, e)[Len(s) + 1] = e
      /\ \A i \in 1..Len(s) : Append(s, e)[i] = s[i]
    BY OneMore
<1> DEFINE u == Append(s, e)
           n == Len(s)
<1>2. ASSUME NEW i \in DOMAIN u, NEW j \in DOMAIN u, i < j
      PROVE  u[i].id < u[j].id
  <2> HIDE DEF u, n
  <2>0. /\ DOMAIN u = 1..(n + 1) /\ DOMAIN s = 1..n /\ n \in Nat /\ u[n + 1] = e
        /\ \A l \in 1..n : u[l] = s[l]
      BY <1>1 DEF u, n
  <2>1. i \in 1..n /\ u[i] = s[i]
      BY <1>2, <2>0
  <2>2. CASE j = n + 1
      BY <2>0, <2>1, <2>2
  <2>3. CASE j # n + 1
    <3>1. j \in 1..n
        BY <2>0, <2>3
    <3> QED BY <1>2, <2>0, <2>1, <3>1 DEF Exec!Ascending
  <2> QED BY <2>2, <2>3
<1> QED BY <1>2 DEF Exec!Ascending

\* Two ascending texts hold what both hold in the same order.
LEMMA Ordered ==
  ASSUME NEW s \in Seq(Frame), NEW u \in Seq(Frame), Exec!Ascending(s), Exec!Ascending(u)
  PROVE  Exec!SameOrder(s, u)
<1> SUFFICES ASSUME NEW i \in DOMAIN s, NEW j \in DOMAIN s, NEW k \in DOMAIN u, NEW l \in DOMAIN u,
                    s[i] = u[k], s[j] = u[l]
             PROVE  i < j <=> k < l
    BY DEF Exec!SameOrder
<1>1. i \in Nat /\ j \in Nat /\ k \in Nat /\ l \in Nat
    OBVIOUS
<1>2. s[i] \in Frame /\ s[j] \in Frame
    OBVIOUS
<1>3. s[i].id \in Int /\ s[j].id \in Int
    BY <1>2 DEF Frame
<1>4. /\ i < j => s[i].id < s[j].id
      /\ j < i => s[j].id < s[i].id
      /\ k < l => u[k].id < u[l].id
      /\ l < k => u[l].id < u[k].id
    BY DEF Exec!Ascending
<1>5. /\ i = j => s[i].id = s[j].id
      /\ k = l => s[i].id = s[j].id
    OBVIOUS
<1>6. u[k].id = s[i].id /\ u[l].id = s[j].id
    OBVIOUS
<1> QED BY <1>1, <1>3, <1>4, <1>5, <1>6

\* A text with one frame more is longer by the size of the frame.
LEMMA Longer ==
  ASSUME NEW s \in Seq(Frame), NEW f \in Frame
  PROVE  /\ Exec!Length(s) \in Nat
         /\ Exec!Length(Append(s, f)) = Exec!Length(s) + f.size
<1> DEFINE n == Len(s)
           B == Exec!Bytes(s)
           more == Exec!Bytes(Append(s, f))
           one == <<n + 1, 1>>
           two == <<n + 1, 2>>
<1>1. /\ n \in Nat /\ DOMAIN s = 1..n /\ DOMAIN Append(s, f) = 1..(n + 1)
      /\ Append(s, f)[n + 1] = f /\ \A i \in 1..n : Append(s, f)[i] = s[i]
    OBVIOUS
<1>2. Exec!Sizes = {1, 2} /\ f.size \in {1, 2}
    BY DEF Exec!Sizes, Frame
<1>3. \A b : b \in B <=> b \in (1..n) \X {1, 2} /\ b[2] <= s[b[1]].size
  <2>1. (DOMAIN s) \X Exec!Sizes = (1..n) \X {1, 2}
      BY <1>1, <1>2
  <2>2. \A b : b \in B <=> b \in (DOMAIN s) \X Exec!Sizes /\ b[2] <= s[b[1]].size
      BY DEF Exec!Bytes
  <2> QED BY <2>1, <2>2
<1>a. B \subseteq (1..n) \X {1, 2}
    BY <1>3
<1>b. Exec!Length(s) = FS!Cardinality(B) /\ Exec!Length(Append(s, f)) = FS!Cardinality(more)
    BY DEF Exec!Length, Exec!Cardinality, FS!Cardinality
<1>4. FS!IsFiniteSet(B)
  <2>1. FS!IsFiniteSet(1..n) /\ FS!IsFiniteSet({1, 2})
    <3>1. FS!IsFiniteSet(1..n) /\ FS!IsFiniteSet(1..2)
      <4>1. 1 \in Int /\ 2 \in Int /\ n \in Int
          BY <1>1
      <4> QED BY <4>1, FS!FS_Interval
    <3>2. 1..2 = {1, 2}
        OBVIOUS
    <3> QED BY <3>1, <3>2
  <2>2. FS!IsFiniteSet((1..n) \X {1, 2})
      BY <2>1, FS!FS_Product
  <2> QED BY <1>a, <2>2, FS!FS_Subset
<1>5. one \notin B /\ two \notin B /\ one # two
    BY <1>1, <1>a
<1>6. \A b : b \in more <=> b \in (1..(n + 1)) \X {1, 2} /\ b[2] <= Append(s, f)[b[1]].size
  <2>1. (DOMAIN Append(s, f)) \X Exec!Sizes = (1..(n + 1)) \X {1, 2}
      BY <1>1, <1>2
  <2> DEFINE u == Append(s, f)
  <2>2. \A b : b \in more <=> b \in (DOMAIN u) \X Exec!Sizes /\ b[2] <= u[b[1]].size
      BY DEF Exec!Bytes
  <2> QED BY <2>1, <2>2
<1>7. \A i \in 1..n, j \in {1, 2} : <<i, j>> \in more <=> <<i, j>> \in B
    BY <1>1, <1>3, <1>6
<1>8. \A j \in {1, 2} : <<n + 1, j>> \in more <=> j <= f.size
    BY <1>1, <1>6
<1>9. \A b \in more : \/ b[1] \in 1..n /\ b = <<b[1], b[2]>> /\ b[2] \in {1, 2}
                   \/ b = one \/ b = two
    BY <1>1, <1>6
<1> HIDE DEF B, more
<1>10. CASE f.size = 1
  <2>1. more = B \cup {one}
    <3>1. one \in more /\ two \notin more
        BY <1>8, <1>10
    <3>2. B \subseteq more
      <4>1. \A b \in B : b[1] \in 1..n /\ b[2] \in {1, 2} /\ b = <<b[1], b[2]>>
          BY <1>a
      <4> QED BY <1>7, <4>1
    <3>3. more \subseteq B \cup {one}
      <4>1. ASSUME NEW b \in more PROVE b \in B \cup {one}
        <5>1. b # two
            BY <3>1, <4>1
        <5>2. CASE b[1] \in 1..n /\ b = <<b[1], b[2]>> /\ b[2] \in {1, 2}
            BY <1>7, <4>1, <5>2
        <5> QED BY <1>9, <4>1, <5>1, <5>2
      <4> QED BY <4>1
    <3> QED BY <3>1, <3>2, <3>3
  <2>2. FS!Cardinality(more) = FS!Cardinality(B) + 1
      BY <1>4, <1>5, <2>1, FS!FS_AddElement
  <2> QED BY <1>4, <1>10, <2>2, <1>b, FS!FS_CardinalityType
<1>11. CASE f.size = 2
  <2>1. more = (B \cup {one}) \cup {two}
    <3>1. one \in more /\ two \in more
        BY <1>8, <1>11
    <3>2. B \subseteq more
      <4>1. \A b \in B : b[1] \in 1..n /\ b[2] \in {1, 2} /\ b = <<b[1], b[2]>>
          BY <1>a
      <4> QED BY <1>7, <4>1
    <3>3. more \subseteq (B \cup {one}) \cup {two}
        BY <1>7, <1>9
    <3> QED BY <3>1, <3>2, <3>3
  <2>2. FS!IsFiniteSet(B \cup {one}) /\ FS!Cardinality(B \cup {one}) = FS!Cardinality(B) + 1
      BY <1>4, <1>5, FS!FS_AddElement
  <2>3. two \notin B \cup {one}
      BY <1>5
  <2>4. FS!Cardinality(more) = (FS!Cardinality(B) + 1) + 1
      BY <2>1, <2>2, <2>3, FS!FS_AddElement
  <2>5. FS!Cardinality(B) \in Nat
      BY <1>4, FS!FS_CardinalityType
  <2> QED BY <1>11, <2>4, <2>5, <1>b
<1> QED BY <1>2, <1>10, <1>11

\* Every step of an exec session keeps the shape of its state.
LEMMA ExecTypes ==
  ASSUME Exec!TypeOK, Exec!Next PROVE Exec!TypeOK'
<1> DEFINE F == Frame
           Told == [text : Seq(F), truncated : BOOLEAN]
<1> USE DEF Exec!inbox, Exec!input, Exec!recorder
<1>1. MaxTyped \in Nat /\ TranscriptLimit \in Nat /\ Exec!Texts = Seq(F)
    BY MCExec DEF Exec!ShellAssumption, Exec!Texts, Frame
<1>2. /\ s1 \in {"open", "closed"} /\ s2 \in Seq(F) /\ s3 \in 0..MaxTyped
      /\ s4 \in {"read", "write", "gone"} /\ s5 \in Seq(F)
      /\ s7 \in {"exec", "ended", "told", "over"}
      /\ s9 \in Seq(F) /\ s11 \in Seq(F) /\ s12 \in Seq(Told)
    BY <1>1 DEF Exec!TypeOK
<1>3. s6 \in BOOLEAN /\ s8 \in BOOLEAN /\ s10 \in BOOLEAN /\ Exec!Length(s9) <= TranscriptLimit
    BY DEF Exec!TypeOK
<1> DEFINE Sequences == /\ s2 \in Seq(F) /\ s5 \in Seq(F) /\ s9 \in Seq(F) /\ s11 \in Seq(F)
                        /\ s12 \in Seq(Told) /\ Exec!Length(s9) <= TranscriptLimit
           Words == /\ s1 \in {"open", "closed"} /\ s3 \in 0..MaxTyped
                    /\ s4 \in {"read", "write", "gone"}
                    /\ s7 \in {"exec", "ended", "told", "over"}
           Flags == s6 \in BOOLEAN /\ s8 \in BOOLEAN /\ s10 \in BOOLEAN
<1>e. << >> \in Seq(F)
    OBVIOUS
<1>4. Sequences' /\ Words' /\ Flags' => Exec!TypeOK'
    BY <1>1 DEF Exec!TypeOK
<1>5. Sequences /\ Words /\ Flags
    BY <1>2, <1>3
<1>6. ASSUME UNCHANGED <<s2, s5, s9, s11, s12>> PROVE Sequences'
    BY <1>5, <1>6 DEF Exec!Length, Exec!Bytes
<1>7. Words'
  <2>1. ASSUME NEW size \in Exec!Sizes, Exec!Press(size) PROVE Words'
      BY <1>1, <1>5, <2>1 DEF Exec!Press
  <2> QED BY <1>5, <2>1 DEF Exec!Next, Exec!Leave, Exec!ReadFrame, Exec!ReadFails, Exec!Take,
          Exec!ExecEnds, Exec!Close, Exec!Return
<1>8. Flags'
    BY <1>5 DEF Exec!Next, Exec!Press, Exec!Leave, Exec!ReadFrame, Exec!ReadFails, Exec!Take,
          Exec!ExecEnds, Exec!Close, Exec!Return, Exec!Typed
<1>9. Sequences'
  <2>1. ASSUME NEW size \in Exec!Sizes, Exec!Press(size) PROVE Sequences'
    <3>1. [id |-> s3 + 1, size |-> size] \in F
        BY <1>1, <1>5, <2>1 DEF Exec!Press, Frame
    <3>2. s2' \in Seq(F) /\ UNCHANGED <<s5, s9, s11, s12>>
        BY <1>5, <2>1, <3>1 DEF Exec!Press
    <3> QED BY <1>5, <3>2 DEF Exec!Length, Exec!Bytes
  <2>2. CASE Exec!ReadFrame
    <3> DEFINE new == Head(s2)
    <3>1. new \in F /\ s2' \in Seq(F) /\ s5' = <<new>> /\ UNCHANGED <<s11, s12>>
        BY <1>5, <2>2 DEF Exec!ReadFrame
    <3>2. /\ Exec!Length(s9) + new.size > TranscriptLimit => s9' = s9
          /\ ~(Exec!Length(s9) + new.size > TranscriptLimit) => s9' = Append(s9, new)
        BY <2>2 DEF Exec!ReadFrame, Exec!Typed
    <3> HIDE DEF new
    <3>3. s9' \in Seq(F) /\ s5' \in Seq(F)
      <4>1. <<new>> \in Seq(F) /\ Append(s9, new) \in Seq(F)
          BY <1>5, <3>1
      <4> QED BY <1>5, <3>1, <3>2, <4>1
    <3>4. new.size \in {1, 2}
        BY <3>1 DEF Frame, Exec!Sizes
    <3>5. Exec!Length(s9) \in Nat /\ Exec!Length(Append(s9, new)) = Exec!Length(s9) + new.size
        BY <1>5, <3>1, Longer
    <3>6. Exec!Length(s9') <= TranscriptLimit
      <4>1. CASE s9' = s9
          BY <1>5, <4>1
      <4>2. CASE ~(Exec!Length(s9) + new.size > TranscriptLimit) /\ s9' = Append(s9, new)
          BY <1>1, <3>4, <3>5, <4>2
      <4> QED BY <3>2, <4>1, <4>2
    <3>7. Exec!Length(s9)' <= TranscriptLimit
        BY <3>6 DEF Exec!Length, Exec!Bytes
    <3> QED BY <1>5, <3>1, <3>3, <3>7
  <2>3. CASE Exec!Take
    <3>1. s5' = << >> /\ s11' \in {s11, s11 \o s5} /\ UNCHANGED <<s2, s9, s12>>
        BY <2>3 DEF Exec!Take
    <3>2. s11 \o s5 \in Seq(F)
        BY <1>5
    <3>3. s5' \in Seq(F) /\ s11' \in Seq(F)
        BY <1>5, <1>e, <3>1, <3>2
    <3> QED BY <1>5, <3>1, <3>3 DEF Exec!Length, Exec!Bytes
  <2>4. CASE Exec!Close
    <3>1. s12' = <<[text |-> s9, truncated |-> s10]>> /\ UNCHANGED <<s2, s5, s9, s11>>
        BY <2>4 DEF Exec!Close
    <3>2. [text |-> s9, truncated |-> s10] \in Told
        BY <1>5
    <3>3. s12' \in Seq(Told)
        BY <3>1, <3>2
    <3> QED BY <1>5, <3>1, <3>3 DEF Exec!Length, Exec!Bytes
  <2>5. CASE Exec!Leave \/ Exec!ReadFails \/ Exec!ExecEnds \/ Exec!Return
      BY <1>6, <2>5 DEF Exec!Leave, Exec!ReadFails, Exec!ExecEnds, Exec!Return
  <2> QED BY <2>1, <2>2, <2>3, <2>4, <2>5 DEF Exec!Next
<1> QED BY <1>4, <1>7, <1>8, <1>9

\* The invariant of an exec session holds at first.
LEMMA ExecInit ==
  ASSUME Exec!Init PROVE Exec!IInv
<1>1. MaxTyped \in Nat /\ TranscriptLimit \in Nat
    BY MCExec DEF Exec!ShellAssumption
<1>2. Exec!TypeOK
  <2>1. << >> \in Exec!Texts /\ 0 \in 0..MaxTyped
      BY <1>1 DEF Exec!Texts
  <2>2. << >> \in Seq([text : Exec!Texts, truncated : BOOLEAN])
      OBVIOUS
  <2>3. Exec!Length(<< >>) = 0
    <3>1. Exec!Bytes(<< >>) = {}
        BY DEF Exec!Bytes
    <3>2. FS!Cardinality({}) = 0
        BY FS!FS_EmptySet
    <3> QED BY <3>1, <3>2 DEF Exec!Length, Exec!Cardinality, FS!Cardinality
  <2>4. Exec!Length(s9) <= TranscriptLimit
      BY <1>1, <2>3 DEF Exec!Init
  <2> QED BY <2>1, <2>2, <2>4 DEF Exec!Init, Exec!TypeOK
<1>3. Exec!Numbered
    BY DEF Exec!Init, Exec!Numbered, Exec!Ascending, Exec!Heard
<1>4. Exec!Noted
    BY DEF Exec!Init, Exec!Noted
<1>5. Exec!TranscriptTells
    BY DEF Exec!Init, Exec!TranscriptTells
<1> QED BY <1>2, <1>3, <1>4, <1>5 DEF Exec!IInv

\* Every step of an exec session keeps the invariant.
LEMMA ExecStep ==
  ASSUME Exec!IInv, Exec!Next PROVE Exec!IInv'
<1> USE DEF Exec!inbox, Exec!input, Exec!recorder
<1> DEFINE F == Frame
<1>0. MaxTyped \in Nat /\ Exec!Texts = Seq(F)
    BY MCExec DEF Exec!ShellAssumption, Exec!Texts, Frame
<1>t. Exec!TypeOK'
    BY ExecTypes DEF Exec!IInv
<1>1. Exec!TypeOK /\ Exec!Numbered /\ Exec!Noted /\ Exec!TranscriptTells
    BY DEF Exec!IInv
<1>2. /\ s2 \in Seq(F) /\ s5 \in Seq(F) /\ s9 \in Seq(F) /\ s11 \in Seq(F)
      /\ s3 \in Nat /\ s3 <= MaxTyped
    BY <1>0, <1>1 DEF Exec!TypeOK
<1>b. s10 \in BOOLEAN /\ s12 \in Seq([text : Exec!Texts, truncated : BOOLEAN])
    BY <1>1 DEF Exec!TypeOK
<1> HIDE DEF F
<1>3. /\ Len(s2) \in Nat /\ DOMAIN s2 = 1..Len(s2) /\ Len(s2) <= s3
    BY <1>1, <1>2 DEF Exec!Numbered
<1>4. \A f \in F : f.id \in Int /\ f.id >= 1
    BY <1>0 DEF F, Frame
<1>5. \A i \in DOMAIN s2 : s2[i].id = s3 - Len(s2) + i
    BY <1>1 DEF Exec!Numbered, Exec!Heard
<1>6. /\ Exec!Ascending(s9) /\ \A i \in DOMAIN s9 : s9[i].id <= s3 - Len(s2)
      /\ Exec!Ascending(s11) /\ \A i \in DOMAIN s11 : s11[i].id <= s3 - Len(s2)
    BY <1>1 DEF Exec!Numbered, Exec!Heard
<1>7. /\ s4 = "write" => Len(s5) = 1 /\ s5[1].id <= s3 - Len(s2)
      /\ s4 # "write" => s5 = << >>
    BY <1>1 DEF Exec!Numbered, Exec!Heard
<1>8. \A i \in DOMAIN s5, j \in DOMAIN s11 : s11[j].id < s5[i].id
    BY <1>1 DEF Exec!Numbered
<1>9. /\ ~s10 => \A k \in DOMAIN s5 : \E j \in DOMAIN s9 : s9[j] = s5[k]
      /\ ~s10 => \A k \in DOMAIN s11 : \E j \in DOMAIN s9 : s9[j] = s11[k]
      /\ s12 # << >> => s7 \in {"told", "over"}
    BY <1>1 DEF Exec!Noted
\* A step that leaves the texts and the frames.
<1>10. ASSUME s2' = s2, s3' = s3, s4' = s4, s5' = s5, s9' = s9, s10' = s10, s11' = s11
       PROVE  Exec!Numbered'
    BY <1>1, <1>10 DEF Exec!Numbered, Exec!Heard, Exec!Ascending
<1>11. ASSUME s11' = s11, s12' = s12 PROVE Exec!TranscriptTells'
    BY <1>1, <1>11 DEF Exec!TranscriptTells
<1>12. ASSUME NEW size \in Exec!Sizes, Exec!Press(size) PROVE Exec!IInv'
  <2> DEFINE new == [id |-> s3 + 1, size |-> size]
  <2>1. s2' = Append(s2, new) /\ s3' = s3 + 1 /\ s3 < MaxTyped
      BY <1>12 DEF Exec!Press
  <2>u. /\ s4' = s4 /\ s5' = s5 /\ s9' = s9 /\ s11' = s11
        /\ s7' = s7
      BY <1>12 DEF Exec!Press
  <2>v. s10' = s10 /\ s12' = s12
      BY <1>12 DEF Exec!Press
  <2>2. new \in F /\ new.id = s3 + 1
    <3>1. s3 + 1 \in 1..MaxTyped
        BY <1>0, <1>2, <2>1
    <3> QED BY <3>1 DEF F, Frame
  <2> HIDE DEF new
  <2>3. /\ s2' \in Seq(F) /\ Len(s2') = Len(s2) + 1 /\ DOMAIN s2' = 1..(Len(s2) + 1)
        /\ s2'[Len(s2) + 1] = new /\ \A i \in 1..Len(s2) : s2'[i] = s2[i]
      BY <1>2, <2>1, <2>2, OneMore
  <2>4. s3' - Len(s2') = s3 - Len(s2)
      BY <1>2, <1>3, <2>1, <2>3
  <2>5. \A i \in DOMAIN s2' : s2'[i].id = s3 - Len(s2) + i
    <3> TAKE i \in DOMAIN s2'
    <3>1. CASE i = Len(s2) + 1
      <4>1. s2'[i].id = s3 + 1
          BY <2>2, <2>3, <3>1
      <4> QED BY <1>2, <1>3, <3>1, <4>1
    <3>2. CASE i # Len(s2) + 1
      <4>1. i \in 1..Len(s2)
          BY <1>3, <2>3, <3>2
      <4> QED BY <1>3, <1>5, <2>3, <4>1
    <3> QED BY <3>1, <3>2
  <2>7. Exec!Numbered'
    <3>1. Len(s2') <= s3'
        BY <1>2, <1>3, <2>1, <2>3
    <3> QED BY <1>6, <1>7, <1>8, <2>u, <2>4, <2>5, <3>1 DEF Exec!Numbered, Exec!Heard
  <2>8. Exec!Noted'
      BY <1>9, <2>u, <2>v DEF Exec!Noted
  <2>9. Exec!TranscriptTells'
      BY <1>11, <2>u, <2>v
  <2> QED BY <1>t, <2>7, <2>8, <2>9 DEF Exec!IInv
<1>13. CASE Exec!Leave
  <2>1. /\ s2' = s2 /\ s3' = s3 /\ s4' = s4 /\ s5' = s5 /\ s7' = s7 /\ s9' = s9 /\ s10' = s10
        /\ s11' = s11 /\ s12' = s12
      BY <1>13 DEF Exec!Leave
  <2>3. Exec!Noted'
      BY <1>1, <2>1 DEF Exec!Noted
  <2> QED BY <1>10, <1>11, <2>1, <1>t, <2>3 DEF Exec!IInv
<1>14. CASE Exec!ReadFrame
  <2> DEFINE new == Head(s2)
  <2>1. /\ s4 = "read" /\ s2 # << >> /\ s2' = Tail(s2) /\ s4' = "write" /\ s5' = <<new>>
        /\ s3' = s3 /\ s11' = s11 /\ s7' = s7
      BY <1>14 DEF Exec!ReadFrame
  <2>2. /\ s12' = s12
        /\ \/ s10' = TRUE /\ s9' = s9
           \/ s9' = Append(s9, new) /\ s10' = s10
      BY <1>14 DEF Exec!ReadFrame, Exec!Typed
  <2>3. /\ s2' \in Seq(F) /\ Len(s2') = Len(s2) - 1 /\ Len(s2) >= 1
        /\ DOMAIN s2' = 1..(Len(s2) - 1) /\ new = s2[1] /\ new \in F
        /\ \A i \in 1..(Len(s2) - 1) : s2'[i] = s2[i + 1]
      BY <1>2, <2>1, OneLess
  <2> HIDE DEF new
  <2>4. new.id = s3 - Len(s2) + 1 /\ s3' - Len(s2') = s3 - Len(s2) + 1
    <3>1. 1 \in DOMAIN s2 /\ new = s2[1]
        BY <1>3, <2>3
    <3>2. new.id = s3 - Len(s2) + 1
        BY <1>5, <3>1
    <3>3. s3' = s3 /\ Len(s2') = Len(s2) - 1 /\ Len(s2) \in Nat /\ s3 \in Nat
        BY <1>2, <1>3, <2>1, <2>3
    <3> QED BY <3>2, <3>3
  <2>5. \A i \in DOMAIN s2' : s2'[i].id = s3' - Len(s2') + i
    <3> TAKE i \in DOMAIN s2'
    <3>1. i + 1 \in DOMAIN s2 /\ s2'[i] = s2[i + 1] /\ i \in Int
        BY <1>3, <2>3
    <3>2. s2'[i].id = s3 - Len(s2) + (i + 1)
        BY <1>5, <3>1
    <3> QED BY <1>2, <1>3, <2>4, <3>1, <3>2
  <2>a. /\ \A i \in DOMAIN s9 : s9[i].id \in Int
        /\ \A i \in DOMAIN s11 : s11[i].id \in Int
    <3>1. /\ \A i \in DOMAIN s9 : s9[i] \in F
          /\ \A i \in DOMAIN s11 : s11[i] \in F
        BY <1>2
    <3> QED BY <1>4, <3>1
  <2>b. s3 - Len(s2) \in Int
      BY <1>2, <1>3
  <2>6. /\ \A i \in DOMAIN s9 : s9[i].id < new.id /\ s9[i].id <= s3' - Len(s2')
        /\ \A i \in DOMAIN s11 : s11[i].id < new.id /\ s11[i].id <= s3' - Len(s2')
      BY <1>6, <2>4, <2>a, <2>b
  <2>7. /\ s5' \in Seq(F) /\ Len(s5') = 1 /\ s5'[1] = new /\ DOMAIN s5' = {1}
      BY <2>1, <2>3
  <2>8. s9' \in Seq(F)
    <3>1. Append(s9, new) \in Seq(F)
        BY <1>2, <2>3, OneMore
    <3> QED BY <1>2, <2>2, <3>1
  <2>c. s9' = Append(s9, new) =>
          /\ DOMAIN s9' = 1..(Len(s9) + 1) /\ DOMAIN s9 = 1..Len(s9) /\ Len(s9) \in Nat
          /\ s9'[Len(s9) + 1] = new /\ \A i \in 1..Len(s9) : s9'[i] = s9[i]
      BY <1>2, <2>3, OneMore
  <2>9. Exec!Ascending(s9)' /\ \A i \in DOMAIN s9' : s9'[i].id <= s3' - Len(s2')
    <3>1. CASE s9' = s9
        BY <1>6, <2>6, <3>1 DEF Exec!Ascending
    <3>2. CASE s9' = Append(s9, new)
      <4>1. Exec!Ascending(Append(s9, new))
          BY <1>2, <1>6, <2>3, <2>6, Younger DEF F
      <4>2. Exec!Ascending(s9)'
          BY <3>2, <4>1 DEF Exec!Ascending
      <4>3. \A i \in DOMAIN s9' : i = Len(s9) + 1 \/ i \in DOMAIN s9
          BY <2>c, <3>2
      <4>4. new.id <= s3' - Len(s2')
          BY <2>4, <2>b
      <4>5. ASSUME NEW i \in DOMAIN s9' PROVE s9'[i].id <= s3' - Len(s2')
          BY <2>6, <2>c, <3>2, <4>3, <4>4
      <4> QED BY <4>2, <4>5
    <3> QED BY <2>2, <3>1, <3>2
  <2>11. Exec!Numbered'
    <3>1. Len(s2') <= s3'
        BY <1>2, <1>3, <2>1, <2>3
    <3>2. Exec!Ascending(s11)'
        BY <1>6, <2>1 DEF Exec!Ascending
    <3>3. s5'[1].id <= s3' - Len(s2')
        BY <2>4, <2>7, <2>b
    <3>4. \A i \in DOMAIN s5', j \in DOMAIN s11' : s11'[j].id < s5'[i].id
        BY <2>1, <2>6, <2>7
    <3>5. \A i \in DOMAIN s11' : s11'[i].id <= s3' - Len(s2')
        BY <2>1, <2>6
    <3> QED BY <2>1, <2>5, <2>7, <2>9, <3>1, <3>2, <3>3, <3>4, <3>5
            DEF Exec!Numbered, Exec!Heard
  <2>12. Exec!Noted'
    <3>1. CASE s10' = TRUE
        BY <1>9, <2>1, <2>2, <3>1 DEF Exec!Noted
    <3>2. CASE s9' = Append(s9, new) /\ s10' = s10
      <4>1. \A k \in DOMAIN s5' : \E j \in DOMAIN s9' : s9'[j] = s5'[k]
        <5>1. Len(s9) + 1 \in DOMAIN s9'
            BY <2>c, <3>2
        <5> QED BY <2>7, <2>c, <3>2, <5>1
      <4>2. \A j \in DOMAIN s9 : j \in DOMAIN s9' /\ s9'[j] = s9[j]
          BY <2>c, <3>2
      <4>3. ~s10' => \A k \in DOMAIN s11' : \E j \in DOMAIN s9' : s9'[j] = s11'[k]
          BY <1>9, <2>1, <3>2, <4>2
      <4>4. s12' # << >> => s7' \in {"told", "over"}
          BY <1>9, <2>1, <2>2
      <4> QED BY <4>1, <4>3, <4>4 DEF Exec!Noted
    <3> QED BY <2>2, <3>1, <3>2
  <2>13. Exec!TranscriptTells'
      BY <1>11, <2>1, <2>2
  <2> QED BY <1>t, <2>11, <2>12, <2>13 DEF Exec!IInv
<1>15. CASE Exec!ReadFails
  <2>1. /\ s4 = "read" /\ s4' = "gone" /\ s2' = s2 /\ s3' = s3 /\ s5' = s5 /\ s7' = s7 /\ s9' = s9
        /\ s10' = s10 /\ s11' = s11 /\ s12' = s12
      BY <1>15 DEF Exec!ReadFails
  <2>3. Exec!Noted'
      BY <1>1, <2>1 DEF Exec!Noted
  <2>4. Exec!Numbered'
      BY <1>1, <2>1 DEF Exec!Numbered, Exec!Heard, Exec!Ascending
  <2> QED BY <1>11, <2>1, <1>t, <2>3, <2>4 DEF Exec!IInv
<1>16. CASE Exec!Take
  <2>1. /\ s4 = "write" /\ s4' = "read" /\ s5' = << >> /\ s2' = s2 /\ s3' = s3 /\ s7' = s7 /\ s9' = s9
        /\ s10' = s10 /\ s12' = s12
      BY <1>16 DEF Exec!Take
  <2>2. \/ s7 = "exec" /\ s11' = s11 \o s5
        \/ s11' = s11
      BY <1>16 DEF Exec!Take
  <2>3. CASE s11' = s11
    <3>2. Exec!Noted'
        BY <1>1, <2>1, <2>3 DEF Exec!Noted
    <3>3. Exec!Numbered'
        BY <1>1, <2>1, <2>3 DEF Exec!Numbered, Exec!Heard, Exec!Ascending
    <3> QED BY <1>11, <2>1, <2>3, <1>t, <3>2, <3>3 DEF Exec!IInv
  <2>4. CASE s7 = "exec" /\ s11' = s11 \o s5
    <3> DEFINE new == s5[1]
    <3>0. Len(s5) = 1 /\ new.id <= s3 - Len(s2)
        BY <1>7, <2>1
    <3>1. s5 = <<new>> /\ new \in F /\ DOMAIN s5 = {1}
      <4> HIDE DEF new
      <4> QED BY <1>2, <3>0, Single DEF new
    <3>2. s11' = Append(s11, new) /\ new.id <= s3 - Len(s2)
      <4> HIDE DEF new
      <4>1. s11 \o <<new>> = Append(s11, new)
          BY <1>2, <3>1, OneMore
      <4> QED BY <2>4, <3>0, <3>1, <4>1
    <3>3. \A j \in DOMAIN s11 : s11[j].id < new.id
        BY <1>8, <3>1
    <3>4. \E j \in 1..1 : s5[j] = new
        OBVIOUS
    <3>n. ~s10 => \E j \in DOMAIN s9 : s9[j] = new
        BY <1>9, <3>1
    <3> HIDE DEF new
    <3>5. /\ s11' \in Seq(F)
          /\ DOMAIN s11' = 1..(Len(s11) + 1) /\ DOMAIN s11 = 1..Len(s11) /\ Len(s11) \in Nat
          /\ s11'[Len(s11) + 1] = new /\ \A i \in 1..Len(s11) : s11'[i] = s11[i]
        BY <1>2, <3>1, <3>2, OneMore
    <3>6. \A i \in DOMAIN s11' : i = Len(s11) + 1 \/ i \in DOMAIN s11
        BY <3>5
    <3>7. Exec!Ascending(s11)'
      <4>1. Exec!Ascending(Append(s11, new))
          BY <1>2, <1>6, <3>1, <3>3, Younger DEF F
      <4> QED BY <3>2, <4>1 DEF Exec!Ascending
    <3>9. \A i \in DOMAIN s11' : s11'[i].id <= s3 - Len(s2)
        BY <1>6, <3>2, <3>5, <3>6
    <3>10. Exec!Numbered'
      <4>1. Exec!Ascending(s9)'
          BY <1>6, <2>1 DEF Exec!Ascending
      <4>2. DOMAIN s5' = {}
          BY <2>1
      <4> QED BY <1>3, <1>5, <1>6, <2>1, <3>7, <3>9, <4>1, <4>2
              DEF Exec!Numbered, Exec!Heard
    <3>11. Exec!Noted'
      <4>1. ~s10 => \A k \in DOMAIN s11' : \E j \in DOMAIN s9 : s9[j] = s11'[k]
          BY <1>9, <3>5, <3>6, <3>n
      <4>2. DOMAIN s5' = {}
          BY <2>1
      <4> QED BY <1>9, <2>1, <4>1, <4>2 DEF Exec!Noted
    <3>12. Exec!TranscriptTells'
      <4>1. s12' = << >>
          BY <1>9, <2>1, <2>4
      <4>2. DOMAIN s12' = {}
          BY <4>1
      <4> QED BY <4>2 DEF Exec!TranscriptTells
    <3> QED BY <1>t, <3>10, <3>11, <3>12 DEF Exec!IInv
  <2> QED BY <2>2, <2>3, <2>4
<1>17. CASE Exec!ExecEnds
  <2>1. /\ s7 = "exec" /\ s2' = s2 /\ s3' = s3 /\ s4' = s4 /\ s5' = s5 /\ s9' = s9 /\ s10' = s10
        /\ s11' = s11 /\ s12' = s12
      BY <1>17 DEF Exec!ExecEnds
  <2>3. Exec!Noted'
      BY <1>1, <2>1 DEF Exec!Noted
  <2> QED BY <1>10, <1>11, <2>1, <1>t, <2>3 DEF Exec!IInv
<1>18. CASE Exec!Close
  <2> DEFINE told == [text |-> s9, truncated |-> s10]
  <2>1. /\ s7' = "told" /\ s2' = s2 /\ s3' = s3 /\ s4' = s4 /\ s5' = s5 /\ s9' = s9 /\ s10' = s10
        /\ s11' = s11 /\ s12' = <<told>>
      BY <1>18 DEF Exec!Close
  <2>2. told \in [text : Exec!Texts, truncated : BOOLEAN]
      BY <1>0, <1>2, <1>b
  <2>3. told.text = s9 /\ told.truncated = s10
      OBVIOUS
  <2> HIDE DEF told
  <2>4. s12' \in Seq([text : Exec!Texts, truncated : BOOLEAN]) /\ DOMAIN s12' = {1} /\ s12'[1] = told
      BY <2>1, <2>2
  <2>6. Exec!Noted'
      BY <1>1, <2>1 DEF Exec!Noted
  <2>7. Exec!SameOrder(s9, s11)
      BY <1>2, <1>6, Ordered DEF F
  <2>8. Exec!TranscriptTells'
    <3>1. Exec!SameOrder(told.text, s11)'
        BY <2>1, <2>3, <2>7 DEF Exec!SameOrder, told
    <3>2. ~s10 => \A k \in DOMAIN s11 : \E j \in DOMAIN s9 : s9[j] = s11[k]
        BY <1>9
    <3> SUFFICES ASSUME NEW i \in DOMAIN s12'
                 PROVE  /\ Exec!SameOrder(s12'[i].text, s11')
                        /\ ~s12'[i].truncated =>
                             \A k \in DOMAIN s11' : \E j \in DOMAIN s12'[i].text : s12'[i].text[j] = s11'[k]
        BY DEF Exec!TranscriptTells
    <3>3. s12'[i].text = s9 /\ s12'[i].truncated = s10 /\ s11' = s11
        BY <2>1, <2>3, <2>4
    <3> QED BY <2>7, <3>2, <3>3
  <2> QED BY <1>10, <2>1, <1>t, <2>6, <2>8 DEF Exec!IInv
<1>19. CASE Exec!Return
  <2>1. /\ s7' = "over" /\ s2' = s2 /\ s3' = s3 /\ s4' = s4 /\ s5' = s5 /\ s9' = s9 /\ s10' = s10
        /\ s11' = s11 /\ s12' = s12
      BY <1>19 DEF Exec!Return
  <2>3. Exec!Noted'
      BY <1>1, <2>1 DEF Exec!Noted
  <2> QED BY <1>10, <1>11, <2>1, <1>t, <2>3 DEF Exec!IInv
<1> QED BY <1>12, <1>13, <1>14, <1>15, <1>16, <1>17, <1>18, <1>19 DEF Exec!Next

-----------------------------------------------------------------------------
(* One part moves. *)

\* A step is one of the part that moves, and that remains the part.
LEMMA OnePart ==
  MCNext => /\ part' = part
            /\ part = "limit" => LimitNext
            /\ part # "limit" => UNCHANGED vars
            /\ part = "node shells" => NodeShellNext
            /\ part = "debug" => DebugNext
            /\ part = "terminal" => TermNext
            /\ part = "exec" => ExecNext
            /\ part = "registration" => RegisterNext
            /\ part = "apply" => AppliesNext
            /\ part = "scale" => ScalesNext
            /\ part = "drain" => DrainsNext
            /\ part = "rollouts" => RollsNext
            /\ part = "search" => FindsNext
            /\ part = "pods" => VerdictsNext
            /\ part = "stream" => StreamNext
            /\ part = "logs" => LogsNext
            /\ part = "findings" => FindingsNext
            /\ part = "metrics" => MetricsNext
            /\ part = "fleet" => CardsNext
            /\ part = "overview" => OverviewsNext
<1> SUFFICES ASSUME MCNext
             PROVE  /\ part' = part
                    /\ part = "limit" => LimitNext
                    /\ part # "limit" => UNCHANGED vars
                    /\ part = "node shells" => NodeShellNext
                    /\ part = "debug" => DebugNext
                    /\ part = "terminal" => TermNext
                    /\ part = "exec" => ExecNext
                    /\ part = "registration" => RegisterNext
                    /\ part = "apply" => AppliesNext
                    /\ part = "scale" => ScalesNext
                    /\ part = "drain" => DrainsNext
                    /\ part = "rollouts" => RollsNext
                    /\ part = "search" => FindsNext
                    /\ part = "pods" => VerdictsNext
                    /\ part = "stream" => StreamNext
                    /\ part = "logs" => LogsNext
                    /\ part = "findings" => FindingsNext
                    /\ part = "metrics" => MetricsNext
                    /\ part = "fleet" => CardsNext
                    /\ part = "overview" => OverviewsNext
    OBVIOUS
<1>1. CASE LimitNext
  <2>1. part = "limit" /\ part' = part
      BY <1>1 DEF LimitNext, OfLimit
  <2> QED BY <1>1, <2>1
<1>2. CASE StreamNext
  <2>1. part = "stream" /\ part' = part /\ UNCHANGED vars
      BY <1>2 DEF StreamNext, OfStream, Moves
  <2> QED BY <1>2, <2>1
<1>3. CASE NodeShellNext
  <2>1. part = "node shells" /\ part' = part /\ UNCHANGED vars
      BY <1>3 DEF NodeShellNext, OfNodeShell, Moves
  <2> QED BY <1>3, <2>1
<1>4. CASE DebugNext
  <2>1. part = "debug" /\ part' = part /\ UNCHANGED vars
      BY <1>4 DEF DebugNext, OfDebug, Moves
  <2> QED BY <1>4, <2>1
<1>5. CASE TermNext
  <2>1. part = "terminal" /\ part' = part /\ UNCHANGED vars
      BY <1>5 DEF TermNext, OfTerm, Moves
  <2> QED BY <1>5, <2>1
<1>6. CASE ExecNext
  <2>1. part = "exec" /\ part' = part /\ UNCHANGED vars
      BY <1>6 DEF ExecNext, OfExec, Moves
  <2> QED BY <1>6, <2>1
<1>7. CASE LogsNext
  <2>1. part = "logs" /\ part' = part /\ UNCHANGED vars
      BY <1>7 DEF LogsNext, OfLogs, Moves
  <2> QED BY <1>7, <2>1
<1>8. CASE FindingsNext
  <2>1. part = "findings" /\ part' = part /\ UNCHANGED vars
      BY <1>8 DEF FindingsNext, OfFindings, Moves
  <2> QED BY <1>8, <2>1
<1>9. CASE RegisterNext
  <2>1. part = "registration" /\ part' = part /\ UNCHANGED vars
      BY <1>9 DEF RegisterNext, OfRegister, Moves
  <2> QED BY <1>9, <2>1
<1>10. CASE AppliesNext
  <2>1. part = "apply" /\ part' = part /\ UNCHANGED vars
      BY <1>10 DEF AppliesNext, OfApplies, Moves
  <2> QED BY <1>10, <2>1
<1>11. CASE ScalesNext
  <2>1. part = "scale" /\ part' = part /\ UNCHANGED vars
      BY <1>11 DEF ScalesNext, OfScales, Moves
  <2> QED BY <1>11, <2>1
<1>12. CASE DrainsNext
  <2>1. part = "drain" /\ part' = part /\ UNCHANGED vars
      BY <1>12 DEF DrainsNext, OfDrains, Moves
  <2> QED BY <1>12, <2>1
<1>13. CASE RollsNext
  <2>1. part = "rollouts" /\ part' = part /\ UNCHANGED vars
      BY <1>13 DEF RollsNext, OfRolls, Moves
  <2> QED BY <1>13, <2>1
<1>14. CASE MetricsNext
  <2>1. part = "metrics" /\ part' = part /\ UNCHANGED vars
      BY <1>14 DEF MetricsNext, OfMetrics, Moves
  <2> QED BY <1>14, <2>1
<1>15. CASE CardsNext
  <2>1. part = "fleet" /\ part' = part /\ UNCHANGED vars
      BY <1>15 DEF CardsNext, OfCards, Moves
  <2> QED BY <1>15, <2>1
<1>16. CASE FindsNext
  <2>1. part = "search" /\ part' = part /\ UNCHANGED vars
      BY <1>16 DEF FindsNext, OfFinds, Moves
  <2> QED BY <1>16, <2>1
<1>17. CASE VerdictsNext
  <2>1. part = "pods" /\ part' = part /\ UNCHANGED vars
      BY <1>17 DEF VerdictsNext, OfVerdicts, Moves
  <2> QED BY <1>17, <2>1
<1>18. CASE OverviewsNext
  <2>1. part = "overview" /\ part' = part /\ UNCHANGED vars
      BY <1>18 DEF OverviewsNext, OfOverviews, Moves
  <2> QED BY <1>18, <2>1
<1> QED BY <1>1, <1>2, <1>3, <1>4, <1>5, <1>6, <1>7, <1>8, <1>9, <1>10, <1>11, <1>12,
        <1>13, <1>14, <1>15, <1>16, <1>17, <1>18 DEF MCNext

\* The state of the part that moves moves by its own specification.
LEMMA NodeShellMoves ==
  part = "node shells" /\ [MCNext]_all => part' = part /\ [NodeShell!Next]_(NodeShell!vars)
<1>1. NodeShellNext => NodeShell!Next
    BY DEF NodeShellNext, NodeShell!Next
<1>2. UNCHANGED all => part' = part /\ UNCHANGED NodeShell!vars
    BY DEF all, Slots, After2, After4, After5, After7, After8, After9, After10,
        After11, After12,
           After13, NodeShell!settings, NodeShell!sessions, NodeShell!sweeper,
               NodeShell!vars
<1> QED BY <1>1, <1>2, OnePart

\* Beside the other services, the steps of the debug containers are their
\* own.
LEMMA DebugMoves ==
  part = "debug" /\ [MCNext]_all => part' = part /\ [Debug!Next]_(Debug!vars)
<1>1. DebugNext => Debug!Next
    BY DEF DebugNext, Debug!Next
<1>2. UNCHANGED all => part' = part /\ UNCHANGED Debug!vars
    BY DEF all, Slots, After2, After4, After5, After7, After8, After9, After10,
        After11, After12,
           After13, Debug!pod, Debug!bounds, Debug!vars
<1> QED BY <1>1, <1>2, OnePart

\* Beside the other services, the steps of a terminal are its own.
LEMMA TermMoves ==
  part = "terminal" /\ [MCNext]_all => part' = part /\ [Term!Next]_(Term!vars)
<1>1. TermNext => Term!Next
    BY DEF TermNext, Term!Next
<1>2. UNCHANGED all => part' = part /\ UNCHANGED Term!vars
    BY DEF all, Slots, After2, After4, After5, After7, After8, After9, After10,
        After11, After12,
           After13, Term!socket, Term!editor, Term!process, Term!vars
<1> QED BY <1>1, <1>2, OnePart

\* Beside the other services, the steps of an exec session are its own.
LEMMA ExecMoves ==
  part = "exec" /\ [MCNext]_all => part' = part /\ [Exec!Next]_(Exec!vars)
<1>1. ExecNext => Exec!Next
    BY DEF ExecNext, Exec!Next
<1>2. UNCHANGED all => part' = part /\ UNCHANGED Exec!vars
    BY DEF all, Slots, After2, After4, After5, After7, After8, After9, After10,
        After11, After12,
           After13, Exec!inbox, Exec!input, Exec!recorder, Exec!vars
<1> QED BY <1>1, <1>2, OnePart

\* Beside the other services, the steps of the registered cluster are its
\* own.
LEMMA RegisterMoves ==
  part = "registration" /\ [MCNext]_all => part' = part /\ [Register!Next]_(Register!vars)
<1>1. RegisterNext => Register!Next
    BY DEF RegisterNext, Register!Next, Register!Probes
<1>2. UNCHANGED all => part' = part /\ UNCHANGED Register!vars
    BY DEF all, Slots, After2, After4, After5, After7, After8, After9, After10,
        After11, After12,
           After13, Register!vars
<1> QED BY <1>1, <1>2, OnePart

\* Beside the other services, the steps of the applies are their own.
LEMMA AppliesMoves ==
  part = "apply" /\ [MCNext]_all => part' = part /\ [Applies!Next]_(Applies!vars)
<1>1. AppliesNext => Applies!Next
    BY DEF AppliesNext, Applies!Next
<1>2. UNCHANGED all => part' = part /\ UNCHANGED Applies!vars
    BY DEF all, Slots, After2, After4, After5, After7, After8, After9, After10,
        After11, After12,
           After13, Applies!vars
<1> QED BY <1>1, <1>2, OnePart

\* Beside the other services, the steps of the scales are their own.
LEMMA ScalesMoves ==
  part = "scale" /\ [MCNext]_all => part' = part /\ [Scales!Next]_(Scales!vars)
<1>1. ScalesNext => Scales!Next
    BY DEF ScalesNext, Scales!Next
<1>2. UNCHANGED all => part' = part /\ UNCHANGED Scales!vars
    BY DEF all, Slots, After2, After4, After5, After7, After8, After9, After10,
        After11, After12,
           After13, Scales!vars
<1> QED BY <1>1, <1>2, OnePart

\* Beside the other services, the steps of a drain are its own.
LEMMA DrainsMoves ==
  part = "drain" /\ [MCNext]_all => part' = part /\ [Drains!Next]_(Drains!vars)
<1>1. DrainsNext => Drains!Next
    BY DEF DrainsNext, Drains!Next
<1>2. UNCHANGED all => part' = part /\ UNCHANGED Drains!vars
    BY DEF all, Slots, After2, After4, After5, After7, After8, After9, After10,
        After11, After12,
           After13, Drains!vars
<1> QED BY <1>1, <1>2, OnePart

\* Beside the other services, the steps of the rollouts are their own.
LEMMA RollsMoves ==
  part = "rollouts" /\ [MCNext]_all => part' = part /\ [Rolls!Next]_(Rolls!vars)
<1>1. RollsNext => Rolls!Next
    BY DEF RollsNext, Rolls!Next
<1>2. UNCHANGED all => part' = part /\ UNCHANGED Rolls!vars
    BY DEF all, Slots, After2, After4, After5, After7, After8, After9, After10,
        After11, After12,
           After13, Rolls!vars
<1> QED BY <1>1, <1>2, OnePart

\* Beside the other services, the steps of a search are its own.
LEMMA FindsMoves ==
  part = "search" /\ [MCNext]_all => part' = part /\ [Finds!Next]_<<s1, s2>>
<1>1. FindsNext => Finds!Next
    BY DEF FindsNext, Finds!Next
<1>2. UNCHANGED all => part' = part /\ UNCHANGED <<s1, s2>>
    BY DEF all, Slots
<1> QED BY <1>1, <1>2, OnePart

\* Beside the other services, the steps of what a log store says are its own.
LEMMA FindingsMoves ==
  part = "findings" /\ [MCNext]_all => part' = part /\ [Findings!Next]_<<s1, s2>>
<1>1. FindingsNext => Findings!Next
    BY DEF FindingsNext, Findings!Next
<1>2. UNCHANGED all => part' = part /\ UNCHANGED <<s1, s2>>
    BY DEF all, Slots
<1> QED BY <1>1, <1>2, OnePart

\* Beside the other services, the steps of what is said of a pod are its
\* own.
LEMMA VerdictsMoves ==
  part = "pods" /\ [MCNext]_all => part' = part /\ [Verdicts!Next]_<<s1, s2>>
<1>1. VerdictsNext => Verdicts!Next
    BY DEF VerdictsNext, Verdicts!Next
<1>2. UNCHANGED all => part' = part /\ UNCHANGED <<s1, s2>>
    BY DEF all, Slots
<1> QED BY <1>1, <1>2, OnePart

\* Beside the other services, the steps of a table are its own.
LEMMA StreamMoves ==
  part = "stream" /\ [MCNext]_all => part' = part /\ [Stream!Next]_(Stream!vars)
<1>1. StreamNext => Stream!Next
    BY DEF StreamNext, Stream!Next
<1>2. UNCHANGED all => part' = part /\ UNCHANGED Stream!vars
    BY DEF all, Slots, After2, After4, After5, After7, After8, After9, After10,
        After11, After12, After13, Stream!cluster, Stream!informers, Stream!stream, Stream!request, Stream!table, Stream!vars
<1> QED BY <1>1, <1>2, OnePart

\* Beside the other services, the steps of the log counts are its own.
LEMMA LogSweepMoves ==
  part = "logs" /\ [MCNext]_all => part' = part /\ [LogSweep!Next]_(LogSweep!vars)
<1>1. LogsNext => LogSweep!Next
    BY DEF LogsNext, LogSweep!Next, LogSweep!Sweeping, LogSweep!Editing
<1>2. UNCHANGED all => part' = part /\ UNCHANGED LogSweep!vars
    BY DEF all, Slots, After2, After4, After5, After7, After8, After9, After10,
        After11, After12, After13, LogSweep!vars
<1> QED BY <1>1, <1>2, OnePart

\* Beside the other services, the steps of the metrics are its own.
LEMMA MetricsMoves ==
  part = "metrics" /\ [MCNext]_all => part' = part /\ [Metrics!Next]_(Metrics!vars)
<1>1. MetricsNext => Metrics!Next
    BY DEF MetricsNext, Metrics!Next, Metrics!Reads
<1>2. UNCHANGED all => part' = part /\ UNCHANGED Metrics!vars
    BY DEF all, Slots, After2, After4, After5, After7, After8, After9, After10,
        After11, After12, After13, Metrics!vars
<1> QED BY <1>1, <1>2, OnePart

\* Beside the other services, the steps of the fleet page are its own.
LEMMA CardsMoves ==
  part = "fleet" /\ [MCNext]_all => part' = part /\ [Cards!Next]_(Cards!vars)
<1>1. CardsNext => Cards!Next
    BY DEF CardsNext, Cards!Next, Cards!Sweeps
<1>2. UNCHANGED all => part' = part /\ UNCHANGED Cards!vars
    BY DEF all, Slots, After2, After4, After5, After7, After8, After9, After10,
        After11, After12, After13, Cards!vars
<1> QED BY <1>1, <1>2, OnePart

\* Beside the other services, the steps of an overview are answers to its
\* queries.
LEMMA OverviewMoves ==
  part = "overview" /\ [MCNext]_all
    => /\ part' = part
       /\ (\E q \in {"waiting", "exit", "Failed", "Pending", "NotReady"} : Overviews!Collect(q))
            \/ UNCHANGED Overviews!vars
<1>1. OverviewsNext => \E q \in {"waiting", "exit", "Failed", "Pending", "NotReady"} : Overviews!Collect(q)
    BY DEF OverviewsNext
<1>2. UNCHANGED all => part' = part /\ UNCHANGED Overviews!vars
    BY DEF all, Slots, After2, After4, Overviews!vars
<1> QED BY <1>1, <1>2, OnePart

\* The limit moves by its own, or not at all.
LEMMA LimitMoves == [MCNext]_all => [Next]_vars
<1>1. LimitNext => Next
    BY DEF LimitNext, Next, OfLimit
<1>2. UNCHANGED all => UNCHANGED vars
    BY DEF all
<1> QED BY <1>1, <1>2, OnePart

\* What is at rest stays as it is told.
LEMMA TermRests == Term!IInv /\ UNCHANGED Term!vars => Term!IInv'
<1> SUFFICES ASSUME Term!IInv, UNCHANGED Term!vars PROVE Term!IInv'
    OBVIOUS
<1>1. /\ s1' = s1 /\ s2' = s2 /\ s3' = s3 /\ s4' = s4 /\ s5' = s5 /\ s6' = s6 /\ s7' = s7
      /\ s8' = s8 /\ s9' = s9 /\ s10' = s10 /\ s11' = s11 /\ s12' = s12 /\ s13' = s13
    BY DEF Term!vars, Term!socket, Term!editor, Term!process
<1>2. Term!TypeOK'
    BY <1>1 DEF Term!IInv, Term!TypeOK
<1>3. Term!Stages'
    BY <1>1 DEF Term!IInv, Term!Stages
<1>4. Term!CommandsAnswered'
  <2>1. Term!Matches(s7, s13)'
      BY <1>1 DEF Term!IInv, Term!CommandsAnswered
  <2>2. Term!RanAllowed'
      BY <1>1 DEF Term!IInv, Term!CommandsAnswered, Term!RanAllowed
  <2> QED BY <1>1, <2>1, <2>2 DEF Term!IInv, Term!CommandsAnswered
<1> QED BY <1>2, <1>3, <1>4 DEF Term!IInv

\* The same of an exec session.
LEMMA ExecRests == Exec!IInv /\ UNCHANGED Exec!vars => Exec!IInv'
BY DEF Exec!IInv, Exec!vars, Exec!inbox, Exec!input, Exec!recorder, Exec!TypeOK, Exec!Length,
       Exec!Bytes, Exec!Numbered, Exec!Noted, Exec!TranscriptTells, Exec!Heard, Exec!Ascending, Exec!SameOrder

\* The same of a search.
LEMMA FindsRests == Finds!IInv /\ UNCHANGED <<s1, s2>> => Finds!IInv'
<1> SUFFICES ASSUME Finds!IInv, UNCHANGED <<s1, s2>> PROVE Finds!IInv'
    OBVIOUS
<1>1. s1' = s1 /\ s2' = s2
    OBVIOUS
<1>2. \A c : Finds!HitsOf(c)' = Finds!HitsOf(c)
    BY <1>1 DEF Finds!HitsOf
<1>3. \A h : Finds!Scored(h)' = Finds!Scored(h)
    BY <1>1 DEF Finds!Scored
<1>4. \A c : Finds!LeftOut(c)' = Finds!LeftOut(c)
    BY <1>1, <1>2 DEF Finds!LeftOut
<1>5. Finds!AllHits' = Finds!AllHits
    BY <1>1, <1>2 DEF Finds!AllHits, Finds!Unreachable, Finds!NoAnswerFrom
<1> QED BY <1>1, <1>3, <1>4, <1>5 DEF Finds!IInv, Finds!TypeOK, Finds!SearchAccounts

\* The same of a verdict.
LEMMA VerdictsRests == Verdicts!IInv /\ UNCHANGED <<s1, s2>> => Verdicts!IInv'
BY DEF Verdicts!IInv, Verdicts!VerdictsAgree

-----------------------------------------------------------------------------
(* What holds of every step. *)

\* The invariant of the node shells holds always.
LEMMA NodeShellAlways == MCSpec => [](part = "node shells" => NodeShell!IInv)
<1>1. MCInit => (part = "node shells" => NodeShell!IInv)
    BY NodeShellInit DEF MCInit
<1>2. (part = "node shells" => NodeShell!IInv) /\ [MCNext]_all => (part = "node shells" => NodeShell!IInv)'
    BY NodeShellMoves, NodeShellStep, OnePart DEF all
<1> QED BY <1>1, <1>2, PTL DEF MCSpec

\* The invariant of the debug containers holds always.
LEMMA DebugAlways == MCSpec => [](part = "debug" => Debug!IInv)
<1>1. MCInit => (part = "debug" => Debug!IInv)
    BY DebugInit DEF MCInit
<1>2. (part = "debug" => Debug!IInv) /\ [MCNext]_all => (part = "debug" => Debug!IInv)'
    BY DebugMoves, DebugStep, OnePart DEF all
<1> QED BY <1>1, <1>2, PTL DEF MCSpec

\* The invariant of a terminal holds always.
LEMMA TermAlways == MCSpec => [](part = "terminal" => Term!IInv)
<1>1. MCInit => (part = "terminal" => Term!IInv)
    BY TermInit DEF MCInit
<1>2. (part = "terminal" => Term!IInv) /\ [MCNext]_all => (part = "terminal" => Term!IInv)'
    BY TermMoves, TermStep, TermRests, OnePart DEF all
<1> QED BY <1>1, <1>2, PTL DEF MCSpec

\* The invariant of an exec session holds always.
LEMMA ExecAlways == MCSpec => [](part = "exec" => Exec!IInv)
<1>1. MCInit => (part = "exec" => Exec!IInv)
    BY ExecInit DEF MCInit
<1>2. (part = "exec" => Exec!IInv) /\ [MCNext]_all => (part = "exec" => Exec!IInv)'
    BY ExecMoves, ExecStep, ExecRests, OnePart DEF all
<1> QED BY <1>1, <1>2, PTL DEF MCSpec

\* The invariant of the registered cluster holds always.
LEMMA RegisterAlways == MCSpec => [](part = "registration" => Register!IInv)
<1>1. MCInit => (part = "registration" => Register!IInv)
    BY RegisterInit DEF MCInit
<1>2. (part = "registration" => Register!IInv) /\ [MCNext]_all => (part = "registration" => Register!IInv)'
    BY RegisterMoves, RegisterStep, OnePart DEF all
<1> QED BY <1>1, <1>2, PTL DEF MCSpec

\* The invariant of the applies holds always.
LEMMA AppliesAlways == MCSpec => [](part = "apply" => Applies!IInv)
<1>1. MCInit => (part = "apply" => Applies!IInv)
    BY AppliesInit DEF MCInit
<1>2. (part = "apply" => Applies!IInv) /\ [MCNext]_all => (part = "apply" => Applies!IInv)'
    BY AppliesMoves, AppliesStep, OnePart DEF all
<1> QED BY <1>1, <1>2, PTL DEF MCSpec

\* The invariant of the scales holds always.
LEMMA ScalesAlways == MCSpec => [](part = "scale" => Scales!IInv)
<1>1. MCInit => (part = "scale" => Scales!IInv)
    BY ScalesInit DEF MCInit
<1>2. (part = "scale" => Scales!IInv) /\ [MCNext]_all => (part = "scale" => Scales!IInv)'
    BY ScalesMoves, ScalesStep, OnePart DEF all
<1> QED BY <1>1, <1>2, PTL DEF MCSpec

\* The invariant of a drain holds always.
LEMMA DrainsAlways == MCSpec => [](part = "drain" => Drains!IInv)
<1>1. MCInit => (part = "drain" => Drains!IInv)
    BY DrainsInit DEF MCInit
<1>2. (part = "drain" => Drains!IInv) /\ [MCNext]_all => (part = "drain" => Drains!IInv)'
    BY DrainsMoves, DrainsStep, OnePart DEF all
<1> QED BY <1>1, <1>2, PTL DEF MCSpec

\* The invariant of the rollouts holds always.
LEMMA RollsAlways == MCSpec => [](part = "rollouts" => Rolls!IInv)
<1>1. MCInit => (part = "rollouts" => Rolls!IInv)
    BY RollsInit DEF MCInit
<1>2. (part = "rollouts" => Rolls!IInv) /\ [MCNext]_all => (part = "rollouts" => Rolls!IInv)'
    BY RollsMoves, RollsStep, OnePart DEF all
<1> QED BY <1>1, <1>2, PTL DEF MCSpec

\* The invariant of a search holds always.
LEMMA FindsAlways == MCSpec => [](part = "search" => Finds!IInv)
<1>1. MCInit => (part = "search" => Finds!IInv)
    BY FindsInit DEF MCInit
<1>2. (part = "search" => Finds!IInv) /\ [MCNext]_all => (part = "search" => Finds!IInv)'
    BY FindsMoves, FindsStep, FindsRests, OnePart DEF all
<1> QED BY <1>1, <1>2, PTL DEF MCSpec

\* What a log store says is concluded from what it was asked, always.
LEMMA FindingsAlways == MCSpec => [](part = "findings" => Findings!IInv)
<1>1. MCInit => (part = "findings" => Findings!IInv)
    BY FindingsInit DEF MCInit
<1>2. (part = "findings" => Findings!IInv) /\ [MCNext]_all => (part = "findings" => Findings!IInv)'
    BY FindingsMoves, FindingsStep, OnePart DEF all
<1> QED BY <1>1, <1>2, PTL DEF MCSpec

\* The invariant of what is said of a pod holds always.
LEMMA VerdictsAlways == MCSpec => [](part = "pods" => Verdicts!IInv)
<1>1. MCInit => (part = "pods" => Verdicts!IInv)
    BY VerdictsInit DEF MCInit
<1>2. (part = "pods" => Verdicts!IInv) /\ [MCNext]_all => (part = "pods" => Verdicts!IInv)'
    BY VerdictsMoves, VerdictsStep, VerdictsRests, OnePart DEF all, Verdicts!Next
<1> QED BY <1>1, <1>2, PTL DEF MCSpec

\* The invariant of a table holds always.
LEMMA StreamAlways == MCSpec => [](part = "stream" => Stream!IInv)
<1>1. MCInit => (part = "stream" => Stream!IInv)
    BY StreamInit DEF MCInit
<1>2. (part = "stream" => Stream!IInv) /\ [MCNext]_all => (part = "stream" => Stream!IInv)'
    BY StreamMoves, StreamStep, OnePart DEF all
<1> QED BY <1>1, <1>2, PTL DEF MCSpec

\* The log counts have their shape always.
LEMMA LogSweepAlways == MCSpec => [](part = "logs" => LogSweep!TypeOK)
<1>1. MCInit => (part = "logs" => LogSweep!TypeOK)
    BY LogSweepInit DEF MCInit
<1>2. (part = "logs" => LogSweep!TypeOK) /\ [MCNext]_all => (part = "logs" => LogSweep!TypeOK)'
    BY LogSweepMoves, LogSweepStep, OnePart DEF all
<1> QED BY <1>1, <1>2, PTL DEF MCSpec

\* The invariant of the metrics holds always.
LEMMA MetricsAlways == MCSpec => [](part = "metrics" => Metrics!IInv)
<1>1. MCInit => (part = "metrics" => Metrics!IInv)
    BY MetricsInit DEF MCInit
<1>2. (part = "metrics" => Metrics!IInv) /\ [MCNext]_all => (part = "metrics" => Metrics!IInv)'
    BY MetricsMoves, MetricsStep, OnePart DEF all
<1> QED BY <1>1, <1>2, PTL DEF MCSpec

\* The fleet page has its shape always.
LEMMA CardsAlways == MCSpec => [](part = "fleet" => Cards!TypeOK)
<1>1. MCInit => (part = "fleet" => Cards!TypeOK)
    BY CardsInit DEF MCInit
<1>2. (part = "fleet" => Cards!TypeOK) /\ [MCNext]_all => (part = "fleet" => Cards!TypeOK)'
    BY CardsMoves, CardsStep, OnePart DEF all
<1> QED BY <1>1, <1>2, PTL DEF MCSpec

\* The list of an overview is what was answered, always.
LEMMA OverviewAlways == MCSpec => [](part = "overview" => Overviews!IInv)
<1>1. MCInit => (part = "overview" => Overviews!IInv)
    BY OverviewInit DEF MCInit
<1>2. (part = "overview" => Overviews!IInv) /\ [MCNext]_all => (part = "overview" => Overviews!IInv)'
    BY OverviewMoves, OverviewStep, OverviewRests, OnePart DEF all
<1> QED BY <1>1, <1>2, PTL DEF MCSpec

\* A request stops at a lock set while it runs, and no write passes over a
\* change its author did not see, whatever is asked of whichever objects.
THEOREM WritesAreGuarded == MCSpec => []WritesGuarded
<1>1. (part = "apply" => Applies!IInv) => WritesGuarded
    BY DEF WritesGuarded, Applies!IInv
<1> QED BY <1>1, AppliesAlways, PTL

\* A drain that ended has moved every pod or told which it has not, whatever
\* the pods of the node.
THEOREM DrainsAccount == MCSpec => []DrainAccounts
<1>1. (part = "drain" => Drains!IInv) => DrainAccounts
    BY DEF DrainAccounts, Drains!IInv
<1> QED BY <1>1, DrainsAlways, PTL

\* A privileged pod outlives its shell only by a fault, the sweeper takes none
\* that is young, and a shell is in the debug container that its session
\* attached, for any number of shells and sessions.
THEOREM PodsAreAccounted == MCSpec => []PodsAccounted
<1>1. (part = "node shells" => NodeShell!IInv) /\ (part = "debug" => Debug!IInv) => PodsAccounted
    BY DEF PodsAccounted, NodeShell!IInv, Debug!IInv
<1> QED BY <1>1, NodeShellAlways, DebugAlways, PTL

\* Each command of a terminal is recorded with its verdict and none with a verb
\* that the reader may not use ran; the transcript of an exec session holds
\* what reached the container, whatever is sent and in however many frames.
THEOREM SessionsAreTold == MCSpec => []SessionsTell
<1>1. (part = "terminal" => Term!IInv) /\ (part = "exec" => Exec!IInv) => SessionsTell
    BY DEF SessionsTell, Term!IInv, Exec!IInv
<1> QED BY <1>1, TermAlways, ExecAlways, PTL

\* No cluster drops silently out of a search, over any clusters and kinds.
THEOREM SearchesAccount == MCSpec => []SearchAccounts
<1>1. (part = "search" => Finds!IInv) => SearchAccounts
    BY DEF SearchAccounts, Finds!IInv
<1> QED BY <1>1, FindsAlways, PTL

\* The status column, the mark, the finding and the overview agree on any pod,
\* however many containers it has and whatever they do.
THEOREM VerdictsAlwaysAgree == MCSpec => []VerdictsAgree
<1>1. (part = "pods" => Verdicts!IInv) => VerdictsAgree
    BY DEF VerdictsAgree, Verdicts!IInv
<1> QED BY <1>1, VerdictsAlways, PTL

\* Each pod that kept saying something is told of once, with all its lines and
\* the first rule that explains it, and each workload once, with the lines of all
\* its pods and that of the loudest, for any pods, logs, rules and owners.
THEOREM FindingsAlwaysTell == MCSpec => []FindingsTell
<1>1. (part = "findings" => Findings!IInv) => FindingsTell
    BY FindingsRest DEF FindingsTell
<1> QED BY <1>1, FindingsAlways, PTL

\* In whatever order the queries of an overview are answered, the list, the
\* table, the tile, the cards and the verdict say the same of every pod, over
\* any cluster whose pods can be counted.
THEOREM PanelsAlwaysAgree == MCSpec => []PanelsAgree
<1>1. (part = "overview" => Overviews!IInv) => PanelsAgree
    BY PanelsRest DEF PanelsAgree
<1> QED BY <1>1, OverviewAlways, PTL

\* What is undone comes back: a workload to the replicas it ran, a Deployment
\* to what the revision set.
THEOREM UndosLand == MCSpec => UndoLands
<1> DEFINE Kept == (part = "scale" => Scales!IInv) /\ (part = "rollouts" => Rolls!IInv)
<1>1. Kept /\ Kept' /\ [MCNext]_all
        => [/\ part = "scale" => Scales!ComesBack'
            /\ part = "rollouts" => Rolls!LandsWell]_all
  <2> SUFFICES ASSUME Kept, Kept', [MCNext]_all
               PROVE  /\ part = "scale" => Scales!ComesBack'
                      /\ part = "rollouts" => Rolls!LandsWell
      OBVIOUS
  <2>1. part = "scale" => Scales!ComesBack'
      BY ScalesMoves DEF Scales!IInv
  <2>2. part = "rollouts" => Rolls!LandsWell
      BY RollsMoves, RollsStep
  <2> QED BY <2>1, <2>2
<1> HIDE DEF Kept
<1>2. MCSpec => []Kept
    BY ScalesAlways, RollsAlways, PTL DEF Kept
<1> QED BY <1>1, <1>2, PTL DEF MCSpec, UndoLands

\* A credential that stopped working is told of once, whatever the kubeconfigs
\* that are pasted and the servers they name.
THEOREM AlarmedOnceAlways == MCSpec => [](part = "registration" => Register!AlarmedOnce)
<1>1. (part = "registration" => Register!IInv) => (part = "registration" => Register!AlarmedOnce)
    BY DEF Register!IInv
<1> QED BY <1>1, RegisterAlways, PTL

\* Beside the other services the limit is the limit alone.
LEMMA LimitIsLimit == MCSpec => Spec
<1>1. MCInit => Init
    BY DEF MCInit
<1> QED BY <1>1, LimitMoves, PTL DEF MCSpec, Spec

\* The limit has its shape always.
LEMMA LimitTypes == MCSpec => []TypeOK
<1>1. Spec => []Steady
    BY MCLimit, SteadyAlways
<1>2. Steady => TypeOK
  <2> SUFFICES ASSUME Steady PROVE TypeOK
      OBVIOUS
  <2>1. ASSUME NEW k \in Address, buckets[k] # Gone
        PROVE  buckets[k] \in [tokens : 0..Full, since : 0..(IdleTTL + Every),
                               idle : 0..(IdleTTL + Every)]
    <3>1. /\ buckets[k] \in Held
          /\ buckets[k].since = buckets[k].idle /\ buckets[k].idle <= IdleTTL + clock
        BY <2>1 DEF Steady
    <3>2. clock <= Every /\ clock \in Nat
        BY MCLimit, Numbers DEF Steady
    <3>3. buckets[k].since \in Nat /\ buckets[k].idle \in Nat
        BY <3>1 DEF Held
    <3>4. buckets[k].since \in 0..(IdleTTL + Every) /\ buckets[k].idle \in 0..(IdleTTL + Every)
        BY <3>1, <3>2, <3>3, MCLimit, Numbers
    <3> QED BY <3>1, <3>4 DEF Held
  <2>2. clock \in 0..Every /\ buckets = [k \in Address |-> buckets[k]]
      BY DEF Steady
  <2> QED BY <2>1, <2>2 DEF TypeOK
<1> QED BY <1>1, <1>2, LimitIsLimit, PTL

\* The state of every service has its shape, whatever the sizes of the run.
THEOREM TypesAlways == MCSpec => []TypesOK
<1> DEFINE Writes ==
      /\ part = "node shells" => NodeShell!IInv
      /\ part = "debug" => Debug!IInv
      /\ part = "terminal" => Term!IInv
      /\ part = "exec" => Exec!IInv
      /\ part = "registration" => Register!IInv
      /\ part = "apply" => Applies!IInv
      /\ part = "scale" => Scales!IInv
      /\ part = "drain" => Drains!IInv
      /\ part = "rollouts" => Rolls!IInv
    Views ==
      /\ part = "stream" => Stream!IInv
      /\ part = "logs" => LogSweep!TypeOK
      /\ part = "metrics" => Metrics!IInv
      /\ part = "fleet" => Cards!TypeOK
      /\ part = "search" => Finds!IInv
      /\ part = "overview" => Overviews!IInv
<1>1. TypeOK /\ Writes /\ Views => TypesOK
  <2>1. ASSUME Writes
        PROVE  /\ part = "node shells" => NodeShell!TypeOK
               /\ part = "debug" => Debug!TypeOK
               /\ part = "terminal" => Term!TypeOK
               /\ part = "exec" => Exec!TypeOK
               /\ part = "registration" => Register!TypeOK
               /\ part = "apply" => Applies!TypeOK
               /\ part = "scale" => Scales!TypeOK
               /\ part = "drain" => Drains!TypeOK
               /\ part = "rollouts" => Rolls!TypeOK
      BY <2>1, Zenon DEF NodeShell!IInv, Debug!IInv, Term!IInv, Exec!IInv, Register!IInv,
         Applies!IInv, Scales!IInv, Drains!IInv, Rolls!IInv
  <2>2. ASSUME Views
        PROVE  /\ part = "stream" => Stream!TypeOK
               /\ part = "logs" => LogSweep!TypeOK
               /\ part = "metrics" => Metrics!TypeOK
               /\ part = "fleet" => Cards!TypeOK
               /\ part = "search" => Finds!TypeOK
               /\ part = "overview" => Overviews!TypeOK
      BY <2>2, Zenon DEF Stream!IInv, Metrics!IInv, Finds!IInv, Overviews!IInv
  <2> HIDE DEF Writes, Views
  <2> QED BY <2>1, <2>2, Zenon DEF TypesOK
<1>2. MCSpec => []Writes
    BY NodeShellAlways, DebugAlways, TermAlways, ExecAlways, RegisterAlways, AppliesAlways,
       ScalesAlways, DrainsAlways, RollsAlways, PTL
<1>3. MCSpec => []Views
    BY StreamAlways, LogSweepAlways, MetricsAlways, CardsAlways, FindsAlways, OverviewAlways, PTL
<1> HIDE DEF Writes, Views
<1> QED BY <1>1, <1>2, <1>3, LimitTypes, PTL

\* What a page shows rightly it goes on showing while nothing changes, whatever
\* was lost, remembered or under way: a table, the log counts, the source of
\* the metrics, the cards of the fleet, over any clusters and any number of
\* readers.
THEOREM ViewsAreKept == MCSpec => ViewsKept
<1> DEFINE Kept ==
      /\ part = "stream" => Stream!IInv
      /\ part = "logs" => LogSweep!TypeOK
      /\ part = "metrics" => Metrics!IInv
      /\ part = "fleet" => Cards!TypeOK
<1>1. Kept /\ [MCNext]_all
        => [/\ part = "stream" => Stream!StaysSettled
            /\ part = "logs" => LogSweep!TellsOn
            /\ part = "metrics" => Metrics!ReadsRight
            /\ part = "fleet" => Cards!SweepsRight]_all
  <2> SUFFICES ASSUME Kept, [MCNext]_all
               PROVE  /\ part = "stream" => Stream!StaysSettled
                      /\ part = "logs" => LogSweep!TellsOn
                      /\ part = "metrics" => Metrics!ReadsRight
                      /\ part = "fleet" => Cards!SweepsRight
      OBVIOUS
  <2>1. part = "stream" => Stream!StaysSettled
      BY StreamMoves, StreamStep
  <2>2. part = "logs" => LogSweep!TellsOn
      BY LogSweepMoves, LogSweepStep
  <2>3. part = "metrics" => Metrics!ReadsRight
      BY MetricsMoves, MetricsStep
  <2>4. part = "fleet" => Cards!SweepsRight
      BY CardsMoves, CardsStep
  <2> QED BY <2>1, <2>2, <2>3, <2>4
<1>2. MCSpec => []Kept
    BY StreamAlways, LogSweepAlways, MetricsAlways, CardsAlways, PTL
<1> HIDE DEF Kept
<1> QED BY <1>1, <1>2, PTL DEF MCSpec, ViewsKept
=============================================================================
