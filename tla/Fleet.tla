-------------------------------- MODULE Fleet --------------------------------
(***************************************************************************)
(* The fleet page: one health card for each cluster a reader may see.  A   *)
(* card is taken from the cache while it is young; otherwise the cluster   *)
(* is swept, all its detectors at once, together with a read of its        *)
(* capacity, and the card is stored for everybody.                         *)
(* (src/server/internal/health: fleet.go, collector.go;                    *)
(*  src/server/internal/cluster: healthpanel.go, overview.go;              *)
(*  src/server/internal/httpapi/health_handlers.go)                        *)
(***************************************************************************)
EXTENDS Naturals, FiniteSets

CONSTANTS Clusters,
          Readers,    \* requests that may be open together
          Detectors,  \* the detectors of Health
          TTL,        \* how long a card is served from the cache, in ticks
          MaxChanges  \* bound: changes of the clusters, their rows and the readers

FleetAssumption == TTL \in Nat /\ MaxChanges \in Nat

VARIABLES status,     \* cluster -> the credential status on its row is "valid"
          up,         \* the API servers that answer
          ill,        \* cluster -> the detectors that have something to find
          cached,     \* cluster -> <<>> or <<[card, age]>>
          sweeps,     \* reader -> cluster -> how far its card is
          shown,      \* reader -> the cards of its last answer
          changes

vars == <<status, up, ill, cached, sweeps, shown, changes>>
world == <<status, up, ill>>

\* A card; asked and reached are history, not on it: the sweep got past the
\* row's status, and one of its reads was answered.
Card == [unreachable : BOOLEAN, found : SUBSET Detectors, capacity : BOOLEAN,
         asked : BOOLEAN, reached : BOOLEAN]

None == [step |-> "none"]
Refused == [step |-> "refused"]
Swept(left, found, capacity, reached) ==
  [step |-> "sweep", left |-> left, found |-> found, capacity |-> capacity, reached |-> reached]
Ready(card) == [step |-> "card", card |-> card]

\* The capacity read is one more of the reads of a sweep.
Capacity == "capacity"
Reads == Detectors \cup {Capacity}

Progress ==
  {None, Refused} \cup [step : {"card"}, card : Card]
    \cup [step : {"sweep"}, left : SUBSET Reads, found : SUBSET Detectors,
          capacity : BOOLEAN, reached : BOOLEAN]

TypeOK ==
  /\ status \in [Clusters -> BOOLEAN] /\ up \in SUBSET Clusters
  /\ ill \in [Clusters -> SUBSET Detectors]
  /\ DOMAIN cached = Clusters
  /\ \A c \in Clusters :
       cached[c] = <<>> \/ cached[c][1] \in [card : Card, age : 0..(TTL + 1)]
  /\ sweeps \in [Readers -> [Clusters -> Progress]]
  /\ shown \in [Readers -> {<<>>} \cup [Clusters -> Card]]
  /\ changes \in 0..MaxChanges

Init ==
  /\ status = [c \in Clusters |-> TRUE]
  /\ up = Clusters
  /\ ill \in [Clusters -> SUBSET Detectors]
  /\ cached = [c \in Clusters |-> <<>>]
  /\ sweeps = [r \in Readers |-> [c \in Clusters |-> None]]
  /\ shown = [r \in Readers |-> <<>>]
  /\ changes = 0

Goes(r, c, next) == sweeps' = [sweeps EXCEPT ![r][c] = next]

-----------------------------------------------------------------------------
(* A request. *)

\* Mutant: the age of a card is not looked at.
FromCache_Always(c) == cached[c] # <<>>

\* fromCache: a card that is not too old.
FromCache(c) == cached[c] # <<>> /\ cached[c][1].age <= TTL

\* fleetHealth reads the rows; Cards: every target has its card from the cache
\* or a sweep of its own, which does not try a credential that is not valid.
Ask(r) ==
  /\ \A c \in Clusters : sweeps[r][c] = None
  /\ sweeps' = [sweeps EXCEPT ![r] =
       [c \in Clusters |-> IF FromCache(c) THEN Ready(cached[c][1].card)
                           ELSE IF status[c] THEN Swept(Reads, {}, FALSE, FALSE)
                           ELSE Refused]]
  /\ UNCHANGED <<world, cached, shown, changes>>

Stores(c, card) == cached' = [cached EXCEPT ![c] = <<[card |-> card, age |-> 0]>>]

\* What was not tried is unreachable.
Refuse(r, c) ==
  /\ sweeps[r][c] = Refused
  /\ LET card == [unreachable |-> TRUE, found |-> {}, capacity |-> FALSE,
                  asked |-> FALSE, reached |-> FALSE]
     IN  Goes(r, c, Ready(card)) /\ Stores(c, card)
  /\ UNCHANGED <<world, shown, changes>>

\* dynamicReader.List: the API server answers, or the list fails.
Answered(c) == c \in up

\* Collect and Capacity: one read ends.  A detector that is answered adds what
\* it found; one that fails is noted in the report and passed over.
Read(r, c, d) ==
  /\ sweeps[r][c].step = "sweep" /\ d \in sweeps[r][c].left
  /\ LET s == sweeps[r][c]
     IN  Goes(r, c, Swept(s.left \ {d},
                          IF Answered(c) THEN s.found \cup ({d} \cap ill[c]) ELSE s.found,
                          s.capacity \/ (Answered(c) /\ d = Capacity),
                          s.reached \/ Answered(c)))
  /\ UNCHANGED <<world, cached, shown, changes>>

\* sweep's end: Collect returns a report whatever failed.
Done(r, c) ==
  /\ sweeps[r][c].step = "sweep" /\ sweeps[r][c].left = {}
  /\ LET card == [unreachable |-> FALSE, found |-> sweeps[r][c].found,
                  capacity |-> sweeps[r][c].capacity,
                  asked |-> TRUE, reached |-> sweeps[r][c].reached]
     IN  Goes(r, c, Ready(card)) /\ Stores(c, card)
  /\ UNCHANGED <<world, shown, changes>>

\* Cards waits for all of them.
Answer(r) ==
  /\ \A c \in Clusters : sweeps[r][c].step = "card"
  /\ shown' = [shown EXCEPT ![r] = [c \in Clusters |-> sweeps[r][c].card]]
  /\ sweeps' = [sweeps EXCEPT ![r] = [c \in Clusters |-> None]]
  /\ UNCHANGED <<world, cached, changes>>

-----------------------------------------------------------------------------
(* Everything else. *)

Changes == changes < MaxChanges /\ changes' = changes + 1

\* The reader goes away, or the deadline of a sweep passes: every read that has
\* not ended fails.  What is put together is stored for everybody.
CutShort(r) ==
  /\ Changes
  /\ \E c \in Clusters : sweeps[r][c].step = "sweep"
  /\ sweeps' = [sweeps EXCEPT ![r] =
       [c \in Clusters |->
          IF sweeps[r][c].step = "sweep"
            THEN [sweeps[r][c] EXCEPT !.left = {}] ELSE sweeps[r][c]]]
  /\ UNCHANGED <<world, cached, shown>>

\* The prober finds a credential good or bad.
Probe(c) ==
  /\ Changes
  /\ status' = [status EXCEPT ![c] = ~@]
  /\ UNCHANGED <<up, ill, cached, sweeps, shown>>

Turns(c) ==
  /\ Changes
  /\ \/ up' = (up \ {c}) \cup ({c} \ up) /\ UNCHANGED ill
     \/ \E d \in Detectors : /\ ill' = [ill EXCEPT ![c] = (@ \ {d}) \cup ({d} \ @)]
                             /\ UNCHANGED up
  /\ UNCHANGED <<status, cached, sweeps, shown>>

\* Time passes; past its life a card is as good as none.
Tick ==
  /\ \E c \in Clusters : cached[c] # <<>> /\ cached[c][1].age <= TTL
  /\ cached' = [c \in Clusters |->
       IF cached[c] # <<>> /\ cached[c][1].age <= TTL
         THEN <<[cached[c][1] EXCEPT !.age = @ + 1]>> ELSE cached[c]]
  /\ UNCHANGED <<world, sweeps, shown, changes>>

Sweeps(r) ==
  \/ Ask(r) \/ Answer(r)
  \/ \E c \in Clusters : Refuse(r, c) \/ Done(r, c) \/ \E d \in Reads : Read(r, c, d)

Next ==
  \/ \E r \in Readers : Sweeps(r) \/ CutShort(r)
  \/ \E c \in Clusters : Probe(c) \/ Turns(c)
  \/ Tick

\* The page asks again and again, the reads end, time passes.
Spec == /\ Init /\ [][Next]_vars
        /\ WF_vars(Tick) /\ \A r \in Readers : WF_vars(Sweeps(r))

-----------------------------------------------------------------------------
(* Properties. *)

\* What a card should say: a row whose credential is not valid is unreachable,
\* a cluster that answers has what its detectors find and its capacity.
Truthful(card, c) ==
  IF ~status[c] THEN card.unreachable
  ELSE c \in up => ~card.unreachable /\ card.found = ill[c] /\ card.capacity

AllTrue == \A r \in Readers, c \in Clusters : shown[r] # <<>> /\ Truthful(shown[r][c], c)

\* Whatever a sweep cut short left in the cache for everybody, once nothing
\* changes every page comes to show the truth of every cluster, and keeps to it.
CardsSettle == <>[]AllTrue

\* What is remembered, and what a sweep has so far, is the truth.
Sound ==
  /\ \A c \in Clusters : FromCache(c) => Truthful(cached[c][1].card, c)
  /\ \A r \in Readers, c \in Clusters :
       LET s == sweeps[r][c]
       IN  /\ s = Refused => ~status[c]
           /\ s.step = "card" => Truthful(s.card, c)
           /\ s.step = "sweep" =>
                /\ status[c]
                /\ c \in up => s.found = ill[c] \ s.left /\ (s.capacity \/ Capacity \in s.left)

\* While nothing changes and nobody goes away, requests that share the cache
\* leave the truth in it, and show it.
SweepsRight ==
  Sound /\ UNCHANGED changes =>
    /\ Sound'
    /\ \A r \in Readers :
         shown'[r] = shown[r] \/ \A c \in Clusters : Truthful(shown[r][c], c)'

\* "Unreachable is set when this sweep could not reach the cluster, whatever the
\* stored status said" (health/fleet.go:30).
UnreachableIsMarked ==
  \A r \in Readers, c \in Clusters :
    shown[r] # <<>> /\ shown[r][c].asked /\ ~shown[r][c].reached => shown[r][c].unreachable
=============================================================================
